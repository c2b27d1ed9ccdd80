---------------------------- MODULE MCZappingFifo ----------------------------
\* Instantiates ZappingFifo for TLC.
EXTENDS ZappingFifo, TLC

\* The buffers are interchangeable.
Perms == Permutations(Buffer)
=============================================================================
