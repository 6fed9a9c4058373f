------------------------------- MODULE Buffer -------------------------------
(***************************************************************************)
(* core::Buffer (net/buffer.{h,cpp}): an array with a reader and a writer  *)
(* index.  content is what the object stands for: the bytes a caller put   *)
(* in and has not yet taken out.  Sizes and the stack buffer of readFd()   *)
(* are constants, and size_t arithmetic wraps at Word.                     *)
(***************************************************************************)
EXTENDS Integers, Sequences

CONSTANTS Bytes,         \* byte values; a fresh array is filled with Zero
          Zero,
          CheapPrepend,  \* kCheapPrepend
          InitialSize,   \* kInitialSize
          ExtraSize,     \* sizeof extrabuf
          Word,          \* 2^64
          Uses,          \* ways to use a buffer: sets of operations
          MaxBytes       \* bound: bytes in the buffer

ASSUME BufferAssumption ==
    /\ CheapPrepend \in Nat /\ InitialSize \in Nat /\ ExtraSize \in Nat
    /\ Word \in Nat /\ MaxBytes \in Nat
    /\ Zero \in Bytes
    /\ Word > 2 * (CheapPrepend + InitialSize + ExtraSize + MaxBytes)

VARIABLES store,    \* buffer_, indices from 1
          reader,   \* reader_index_
          writer,   \* writer_index_
          content,  \* history: the bytes the buffer should hold
          use       \* the operations this buffer's owner calls

bufferVars == <<store, reader, writer, content, use>>

Strings(n) == [1 .. n -> Bytes]

ReadableBytes == writer - reader
WritableBytes == Len(store) - writer

\* What a reader sees from peek() on.
Readable == SubSeq(store, reader + 1, writer)

\* std::copy of data to offset off of array a; what does not fit is written
\* past the end and is lost.
Copy(a, off, data) ==
    [i \in 1 .. Len(a) |->
        IF i > off /\ i <= off + Len(data) THEN data[i - off] ELSE a[i]]

\* buffer_.resize(n): new elements are zero.
Resize(a, n) == [i \in 1 .. n |-> IF i <= Len(a) THEN a[i] ELSE Zero]

-----------------------------------------------------------------------------
(* ensureWritableBytes(): the array, the reader and the writer after it.   *)

Layout(a, r, w) == [store |-> a, reader |-> r, writer |-> w]

\* Faulty variant: the room in front of the reserve is counted in, too.
BugMakeSpace(b, len) ==
    IF (Len(b.store) - b.writer) + b.reader < len
    THEN [b EXCEPT !.store = Resize(b.store, b.writer + len)]
    ELSE Layout(Copy(b.store, CheapPrepend,
                     SubSeq(b.store, b.reader + 1, b.writer)),
                CheapPrepend,
                CheapPrepend + b.writer - b.reader)

\* makeSpace(): grow, or move the data to the front.  The free space is
\* computed in size_t.
MakeSpace(b, len) ==
    IF ((Len(b.store) - b.writer) + b.reader - CheapPrepend) % Word < len
    THEN [b EXCEPT !.store = Resize(b.store, b.writer + len)]
    ELSE Layout(Copy(b.store, CheapPrepend,
                     SubSeq(b.store, b.reader + 1, b.writer)),
                CheapPrepend,
                CheapPrepend + b.writer - b.reader)

EnsureWritableBytes(b, len) ==
    IF (Len(b.store) - b.writer) % Word < len THEN MakeSpace(b, len) ELSE b

\* append(): room, copy, hasWritten().
Appended(b, data) ==
    LET e == EnsureWritableBytes(b, Len(data))
    IN  [e EXCEPT !.store = Copy(@, e.writer, data), !.writer = @ + Len(data)]

Become(b) ==
    /\ store' = b.store
    /\ reader' = b.reader
    /\ writer' = b.writer

-----------------------------------------------------------------------------
(* Operations. *)

AppendData(data) ==
    /\ "append" \in use
    /\ Become(Appended(Layout(store, reader, writer), data))
    /\ content' = content \o data

\* Faulty variant: retrieving everything leaves the indices where they are.
BugRetrieve(len) ==
    /\ "retrieve" \in use
    /\ reader' = IF len < ReadableBytes THEN reader + len ELSE CheapPrepend
    /\ content' = SubSeq(content, len + 1, Len(content))
    /\ UNCHANGED <<store, writer>>

\* retrieve() (and retrieveUntil(), retrieveAsString()): the reader moves on,
\* or both indices start over.
Retrieve(len) ==
    /\ "retrieve" \in use
    /\ \/ /\ len < ReadableBytes
          /\ reader' = reader + len
          /\ UNCHANGED writer
       \/ /\ len >= ReadableBytes
          /\ reader' = CheapPrepend
          /\ writer' = CheapPrepend
    /\ content' = SubSeq(content, len + 1, Len(content))
    /\ UNCHANGED store

\* prepend(): its assert asks for room in front.
Prepend(data) ==
    /\ "prepend" \in use
    /\ Len(data) <= reader
    /\ reader' = reader - Len(data)
    /\ store' = Copy(store, reader - Len(data), data)
    /\ content' = data \o content
    /\ UNCHANGED writer

\* shrink(): readableBytes() is taken after reader_index_ has moved.
Shrink(reserve) ==
    /\ "shrink" \in use
    /\ LET moved == Copy(store, CheapPrepend, Readable)
           end == CheapPrepend + (writer - CheapPrepend)
       IN  Become(Layout(Resize(moved, end + reserve), CheapPrepend, end))
    /\ UNCHANGED content

\* readFd(): readv() fills the writable space first, then the stack buffer
\* when the writable space is the smaller one.
ReadFd(data) ==
    LET room == Len(store) - writer
        b == Layout(Copy(store, writer, data), reader, writer)
    IN  /\ "readFd" \in use
        /\ Len(data) <= room + (IF room < ExtraSize THEN ExtraSize ELSE 0)
        /\ \/ /\ Len(data) <= room
              /\ Become([b EXCEPT !.writer = writer + Len(data)])
           \/ /\ Len(data) > room
              /\ Become(Appended([b EXCEPT !.writer = Len(store)],
                                 SubSeq(data, room + 1, Len(data))))
        /\ content' = content \o data

-----------------------------------------------------------------------------
BufferInit ==
    /\ store = [i \in 1 .. CheapPrepend + InitialSize |-> Zero]
    /\ reader = CheapPrepend
    /\ writer = CheapPrepend
    /\ content = <<>>
    /\ use \in Uses

\* An operation is called with a length within the bound of the model.
Room == MaxBytes - Len(content)

BufferNext ==
    /\ \/ \E n \in 0 .. Room : \E data \in Strings(n) : AppendData(data)
       \/ \E len \in 0 .. Len(content) : Retrieve(len)
       \/ \E n \in 0 .. Room : \E data \in Strings(n) : Prepend(data)
       \/ \E reserve \in 0 .. InitialSize : Shrink(reserve)
       \/ \E n \in 0 .. Room : \E data \in Strings(n) : ReadFd(data)
    /\ UNCHANGED use

BufferSpec == BufferInit /\ [][BufferNext]_bufferVars

\* The ways to use a buffer that keep its promises.  makeSpace() and shrink()
\* take the reserve to be free, so that nothing may have been put in it; and
\* shrink() counts what has been retrieved as readable again.
CarefulUses ==
    \A u \in Uses :
        /\ "prepend" \in u => u \cap {"append", "readFd", "shrink"} = {}
        /\ "shrink" \in u => "retrieve" \notin u

-----------------------------------------------------------------------------
(* Properties. *)

\* The layout of buffer.h: reserve, readable bytes and free space are
\* consecutive parts of the array.
IndicesInOrder ==
    /\ reader \in Nat /\ writer \in Nat
    /\ reader <= writer
    /\ writer <= Len(store)

\* The buffer is a byte queue: whatever moves, grows and spills over happened,
\* a reader gets the bytes that were put in, in their order.
HoldsContent == Readable = content
=============================================================================
