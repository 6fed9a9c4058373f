SPECIFICATION BufferSpec
CONSTANTS
    Bytes = {0, 1}
    Zero = 0
    CheapPrepend = 2
    InitialSize = 2
    ExtraSize = 3
    Word = 64
    MaxBytes = 5
    Uses <- SoundUses
INVARIANTS IndicesInOrder HoldsContent
