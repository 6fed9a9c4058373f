---- MODULE MCTcpServer ----
EXTENDS TcpServer

CONSTANTS w1, w2

\* No pool, or one of two threads.
NoneOrTwo == {<<>>, <<w1, w2>>}

\* No pool, or one of a single thread.
NoneOrOne == {<<>>, <<w1>>}

Symmetry == Permutations(Conns)
====
