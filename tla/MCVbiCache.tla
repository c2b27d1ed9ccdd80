----------------------------- MODULE MCVbiCache -----------------------------
(* An instance of VbiCache for TLC.  Page 100 is stored in one version,     *)
(* page 101 has subpages that are stored side by side.                      *)
EXTENDS VbiCache, TLC

MCKind(g, s, a, z, r) == [pgno |-> g, subno |-> s, all |-> a, size |-> z, pri |-> r]

\* A start page, of priority SPECIAL, a smaller page of priority NORMAL, and a
\* subpage of it.
MCSizes == {MCKind(100, 0, FALSE, 2, "special"), MCKind(101, 0, FALSE, 1, "normal"),
            MCKind(101, 1, TRUE, 1, "special")}

Perms == Permutations(Network) \cup Permutations(Page)
=============================================================================
