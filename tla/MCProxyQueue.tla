---------------------------- MODULE MCProxyQueue ----------------------------
\* Instantiates ProxyQueue for TLC.
EXTENDS ProxyQueue, TLC

CONSTANT c1

\* One client asks for more than the minimum of buffers.
MCClientBuffers == [c \in Client |-> IF c = c1 THEN 2 ELSE 0]

\* The buffers are interchangeable: only their position in the queue matters.
Perms == Permutations(Buffer)
=============================================================================
