--------------------------- MODULE MCProxyChannel ---------------------------
\* Instantiates ProxyChannel for TLC.
EXTENDS ProxyChannel, TLC

\* All clients have the same sub-priority, and reserve the same time.
MCEqual == [c \in Client |-> 1]

\* ... or none, so that they may be preempted at once.
MCNone == [c \in Client |-> 0]

\* They are interchangeable then.
Perms == Permutations(Client)
=============================================================================
