---- MODULE MCBuffer ----
EXTENDS Buffer

\* Socket input and output, a buffer that is filled and packed, a header put in
\* front of nothing.
SoundUses == {{"append", "retrieve", "readFd"}, {"append", "shrink"},
              {"prepend", "retrieve"}}

ASSUME UsesAssumption == CarefulUses
====
