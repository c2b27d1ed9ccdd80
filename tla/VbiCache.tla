------------------------------ MODULE VbiCache ------------------------------
(***************************************************************************)
(* The teletext page cache of libzvbi, src/vbi/src/cache.c.  The cache     *)
(* keeps networks, most recently used first, and pages.  A page nobody     *)
(* holds is on the list `priority', oldest first, and counts against the   *)
(* memory limit; a page somebody holds is on the list `referenced' and     *)
(* does not count.  A page that is replaced while somebody holds it leaves *)
(* the hash table, becomes a zombie and is freed with its last reference.  *)
(*                                                                         *)
(* The whole cache is one record `ca'; every operation of the code is an   *)
(* operator from the cache before to the cache after, so that an action    *)
(* is the complete call.  The list `referenced' is not a variable: it is   *)
(* never traversed and holds the pages whose ref count is not zero.  There *)
(* is one hash list for each page number.  An address (Page, Network) that *)
(* is free again can be returned by a later malloc.                        *)
(*                                                                         *)
(* A kind of page, [pgno, subno, all, size, pri], stands for the contents: *)
(* all says that the subpages of this page number are kept side by side    *)
(* (subno_mask is 0xFF) and pri is what put_page computes from the page    *)
(* number, the function and the subpage number.                            *)
(***************************************************************************)
EXTENDS Integers, Sequences, FiniteSets, SequencesExt

CONSTANTS Network,         \* addresses of networks
          Page,            \* addresses of pages; no free one: malloc fails
          Kind,            \* the contents that are received
          MemoryLimits,    \* the limits vbi_cache_set_memory_limit is given
          NetworksLimits,  \* the limits vbi_cache_set_network_limit is given
          MaxRef,          \* bound: references to one page or network
          Word,            \* how many values an unsigned long has
          NULL

ASSUME CacheAssumption ==
  /\ MaxRef \in Nat \ {0} /\ IsFiniteSet(Network) /\ IsFiniteSet(Page)
  /\ MemoryLimits \subseteq Nat \ {0} /\ MemoryLimits # {}
  /\ NetworksLimits \subseteq Nat \ {0} /\ NetworksLimits # {}
  /\ NULL \notin Network \cup Kind
  /\ Word \in Nat \ {0}
  /\ \A m \in MemoryLimits : m < Word /\ \A k \in Kind : m + k.size < Word
  /\ \A k \in Kind : /\ k.all \in BOOLEAN
                     /\ k.size \in Nat \ {0}
                     /\ k.pri \in {"normal", "special"}

VARIABLES ca,     \* the cache
          fault   \* how the code left the domain of defined behaviour

vars == <<ca, fault>>

Pgno == {k.pgno : k \in Kind}

FreePage == [cn |-> NULL, kind |-> NULL, ref |-> 0, zombie |-> FALSE, block |-> 0]
FreeNet == [ref |-> 0, nref |-> 0, npages |-> 0, zombie |-> FALSE]

Networks(c) == ToSet(c.networks)
Allocated(c) == {p \in Page : c.page[p] # FreePage}
Referenced(c, n) == c.net[n].ref > 0 \/ c.net[n].nref > 0

-----------------------------------------------------------------------------
(* Pages. *)

\* delete_page of a page that is already a zombie, or not on the hash list,
\* changes nothing else than the code says: RemoveFirst is then the identity.
DeletePage(c, p) ==
  IF c.page[p].ref > 0
  THEN [c EXCEPT !.hash[c.page[p].kind.pgno] = RemoveFirst(@, p),
                 !.page[p].zombie = TRUE]
  ELSE [c EXCEPT !.memory = IF c.page[p].zombie THEN @ ELSE @ - c.page[p].kind.size,
                 !.hash[c.page[p].kind.pgno] = RemoveFirst(@, p),
                 !.priority = RemoveFirst(@, p),
                 !.net[c.page[p].cn].npages = @ - 1,
                 !.page[p] = FreePage,
                 !.npages = @ - 1]

DeleteAllPages(c, n) ==
  FoldLeft(LAMBDA d, p : IF d.page[p].cn = n THEN DeletePage(d, p) ELSE d,
           c, c.priority)

\* Pages are given up in four passes over the priority list: for each priority
\* the pages of networks nobody uses, then for each priority those of any
\* network.
PagePasses == <<[pri |-> "normal", idle |-> TRUE], [pri |-> "special", idle |-> TRUE],
                [pri |-> "normal", idle |-> FALSE], [pri |-> "special", idle |-> FALSE]>>

\* Mutant: pages of networks in use are not spared.
EligibleInUse(c, p, pass) == c.page[p].kind.pri = pass.pri

Eligible(c, p, pass) ==
  /\ c.page[p].kind.pri = pass.pri
  /\ pass.idle => c.net[c.page[p].cn].ref = 0

\* Mutant: the loop stops one unit too early.
DeletePassOneShort(c, pass) ==
  FoldLeft(LAMBDA d, p : IF d.memory > d.limit + 1 /\ Eligible(d, p, pass)
                         THEN DeletePage(d, p) ELSE d,
           c, c.priority)

DeletePass(c, pass) ==
  FoldLeft(LAMBDA d, p : IF d.memory > d.limit /\ Eligible(d, p, pass)
                         THEN DeletePage(d, p) ELSE d,
           c, c.priority)

DeleteSurplusPages(c) == FoldLeft(DeletePass, c, PagePasses)

-----------------------------------------------------------------------------
(* Networks. *)

Unlist(c, n) ==
  IF Referenced(c, n)
  THEN [c EXCEPT !.net[n].zombie = TRUE]
  ELSE [c EXCEPT !.networks = RemoveFirst(@, n), !.net[n] = FreeNet]

\* Mutant: delete_all_pages is not called.
DeleteNetworkKeepsPages(c, n) ==
  Unlist([c EXCEPT !.cached = IF c.net[n].zombie THEN @ ELSE @ - 1], n)

DeleteNetwork(c, n) ==
  Unlist([DeleteAllPages(c, n)
            EXCEPT !.cached = IF c.net[n].zombie THEN @ ELSE @ - 1], n)

\* Last recently used first.
DeleteSurplusNetworks(c) ==
  FoldLeft(LAMBDA d, n : IF ~ Referenced(d, n)
                            /\ (d.net[n].zombie \/ d.cached > d.nlimit)
                         THEN DeleteNetwork(d, n) ELSE d,
           c, Reverse(c.networks))

MostRecentlyUsed(c, n) == [c EXCEPT !.networks = <<n>> \o RemoveFirst(@, n)]

\* The callers that bring a zombie back into use.
Revive(c, n) ==
  [c EXCEPT !.cached = IF c.net[n].zombie THEN @ + 1 ELSE @,
            !.net[n].zombie = FALSE]

\* The last recently used network without references, if there is one.
Idle(c) ==
  {c.networks[i] : i \in {j \in DOMAIN c.networks :
     /\ ~ Referenced(c, c.networks[j])
     /\ \A h \in DOMAIN c.networks : h > j => Referenced(c, c.networks[h])}}

\* recycle_network absorbs that network.
Recycle(c, n) ==
  [DeleteAllPages(c, n) EXCEPT !.net[n] = FreeNet, !.networks = <<n>> \o RemoveFirst(@, n)]

NewNetwork(c, n) ==
  [c EXCEPT !.cached = @ + 1, !.networks = <<n>> \o @, !.net[n] = [FreeNet EXCEPT !.ref = 1]]

\* _vbi_cache_add_network for a network that has no identity yet.  malloc is
\* called only below the limit, or when no network can be recycled.
AddNetwork(c, n) ==
  IF c.cached < c.nlimit \/ Idle(c) = {}
  THEN n \notin Networks(c) /\ ca' = NewNetwork(c, n)
  ELSE n \in Idle(c) /\ ca' = [Recycle(c, n) EXCEPT !.net[n].ref = 1]

\* _vbi_cache_get_network, and add_network for a network that is listed (it
\* does not revive a zombie).
FindNetwork(c, n, revive) ==
  ca' = [MostRecentlyUsed(IF revive THEN Revive(c, n) ELSE c, n) EXCEPT !.net[n].ref = @ + 1]

-----------------------------------------------------------------------------
(* References to pages. *)

\* Mutant: memory_used still counts the page.
CachePageRefCounted(c, p) ==
  IF c.page[p].ref > 0
  THEN [c EXCEPT !.page[p].ref = @ + 1]
  ELSE [Revive(c, c.page[p].cn)
          EXCEPT !.net[c.page[p].cn].nref = @ + 1,
                 !.priority = RemoveFirst(@, p),
                 !.page[p].ref = 1]

CachePageRef(c, p) ==
  IF c.page[p].ref > 0
  THEN [c EXCEPT !.page[p].ref = @ + 1]
  ELSE [Revive(c, c.page[p].cn)
          EXCEPT !.net[c.page[p].cn].nref = @ + 1,
                 !.memory = @ - c.page[p].kind.size,
                 !.priority = RemoveFirst(@, p),
                 !.page[p].ref = 1]

\* The page is on no list of references any more.
Unheld(c, p) ==
  IF c.page[p].zombie
  THEN DeletePage([c EXCEPT !.page[p].ref = 0], p)
  ELSE [c EXCEPT !.page[p].ref = 0,
                 !.priority = Append(@, p),
                 !.memory = @ + c.page[p].kind.size]

DropNetworkIfZombie(c, n) ==
  IF c.net[n].zombie /\ ~ Referenced(c, n) THEN DeleteNetwork(c, n) ELSE c

CachePageUnref(c, p) ==
  IF c.page[p].ref > 1
  THEN [c EXCEPT !.page[p].ref = @ - 1]
  ELSE DeleteSurplusPages(
         DropNetworkIfZombie(
           [Unheld(c, p) EXCEPT !.net[c.page[p].cn].nref = @ - 1],
           c.page[p].cn))

-----------------------------------------------------------------------------
(* page_by_pgno: the first page of the hash list with this number, and with
   this subpage number when all is set; it moves to the head of the list. *)

Matches(c, n, k, all) ==
  {p \in ToSet(c.hash[k.pgno]) : /\ c.page[p].cn = n
                                 /\ all => c.page[p].kind.subno = k.subno}

Found(c, n, k, all) ==
  {c.hash[k.pgno][i] : i \in {j \in DOMAIN c.hash[k.pgno] :
     /\ c.hash[k.pgno][j] \in Matches(c, n, k, all)
     /\ \A h \in DOMAIN c.hash[k.pgno] :
          c.hash[k.pgno][h] \in Matches(c, n, k, all) => j <= h}}

ToHashHead(c, p) ==
  [c EXCEPT !.hash[c.page[p].kind.pgno] = <<p>> \o RemoveFirst(@, p)]

GetPage(n, k, all) ==
  \E p \in Found(ca, n, k, all) :
    /\ ca.page[p].ref < MaxRef
    /\ ca' = CachePageRef(ToHashHead(ca, p), p)
    /\ UNCHANGED fault

-----------------------------------------------------------------------------
(* _vbi_cache_put_page. *)

\* The version to be replaced is found first; when somebody holds it, it
\* leaves the cache at once and does not make room.
Superseded(c, old) ==
  IF c.page[old].ref > 0
  THEN [c EXCEPT !.hash[c.page[old].kind.pgno] = RemoveFirst(@, old),
                 !.page[old].zombie = TRUE]
  ELSE ToHashHead(c, old)

\* The death row and the memory that will be available without its pages.
Condemn(c, d, p) ==
  [row |-> Append(d.row, p), available |-> d.available + c.page[p].kind.size]

\* A page that an earlier pass has chosen is not passed over in a later one.
DeathPass(c, k, old, d, pass) ==
  FoldLeft(LAMBDA e, p : IF e.available < k.size /\ Eligible(c, p, pass) /\ p \notin old
                         THEN Condemn(c, e, p) ELSE e,
           d, c.priority)

\* The pages that have to go for k, beginning with the version it replaces.
DeathRow(c, k, old) ==
  LET empty == [row |-> <<>>, available |-> c.limit - c.memory]
      first == IF old = {} THEN empty ELSE Condemn(c, empty, CHOOSE p \in old : TRUE)
  IN  FoldLeft(LAMBDA d, pass : DeathPass(c, k, old, d, pass), first, PagePasses)

\* The new page, referenced by the caller, in place of what was at address p.
Install(c, n, k, p, block) ==
  [Revive(c, n) EXCEPT
     !.hash[k.pgno] = <<p>> \o @,
     !.page[p] = [cn |-> n, kind |-> k, ref |-> 1, zombie |-> FALSE, block |-> block],
     !.net[n].npages = @ + 1,
     !.net[n].nref = @ + 1]

\* "Usually we can replace a single page of same size": what is compared is
\* the memory that would be available, not the size of the page.
Reusable(k, d) == Len(d.row) = 1 /\ d.available = k.size

\* a - b, unsigned.  (Elsewhere the difference is exact: CountersExact.)
Less(a, b) == IF a >= b THEN a - b ELSE a - b + Word

\* memory_used loses the size of the new page, not that of the old one, and
\* memcpy writes behind a block that is too small.
Reuse(c, n, k, p) ==
  Install([DeletePage(c, p) EXCEPT !.memory = Less(c.memory, k.size), !.npages = c.npages],
          n, k, p, c.page[p].block)

DeleteRow(c, row) == FoldLeft(DeletePage, c, row)

\* The row up to a page that has already been deleted.
BeforeTwice(row) ==
  {SubSeq(row, 1, j - 1) : j \in {i \in DOMAIN row :
     IsInjective(SubSeq(row, 1, i - 1)) /\ ~ IsInjective(SubSeq(row, 1, i))}}

Store(c, n, k, d) ==
  IF Reusable(k, d)
  THEN /\ ca' = Reuse(c, n, k, d.row[1])
       /\ fault' = IF c.page[d.row[1]].block < k.size THEN "overrun" ELSE fault
  ELSE \/ ca' = c /\ UNCHANGED fault                     \* malloc fails
       \/ \E p \in Page \ Allocated(c) :
            \/ /\ IsInjective(d.row)
               /\ ca' = [Install(DeleteRow(c, d.row), n, k, p, k.size) EXCEPT !.npages = @ + 1]
               /\ UNCHANGED fault
            \/ /\ \E row \in BeforeTwice(d.row) : ca' = DeleteRow(c, row)
               /\ fault' = "deleted twice"

PutInto(c, n, k, old) ==
  \E d \in {DeathRow(c, k, old)} :
    IF d.available < k.size THEN ca' = c /\ UNCHANGED fault ELSE Store(c, n, k, d)

\* Mutant: the version to be replaced is not asked whether it is in use.
PutPageInUse(n, k) ==
  \/ Found(ca, n, k, k.all) = {} /\ PutInto(ca, n, k, {})
  \/ \E old \in Found(ca, n, k, k.all) : PutInto(ToHashHead(ca, old), n, k, {old})

PutPage(n, k) ==
  \/ Found(ca, n, k, k.all) = {} /\ PutInto(ca, n, k, {})
  \/ \E old \in Found(ca, n, k, k.all) :
       PutInto(Superseded(ca, old), n, k, IF ca.page[old].ref > 0 THEN {} ELSE {old})

-----------------------------------------------------------------------------
(* vbi_cache_delete: purge, then the cache itself is freed. *)

Purge(c) == FoldLeft(DeleteNetwork, c, c.networks)

-----------------------------------------------------------------------------
(* The calls.  A caller puts and gets pages of a network it holds, and gives
   back only references it has. *)

Init ==
  /\ ca \in [networks : {<<>>}, net : {[n \in Network |-> FreeNet]},
             page : {[p \in Page |-> FreePage]}, hash : {[g \in Pgno |-> <<>>]},
             priority : {<<>>}, memory : {0}, cached : {0}, npages : {0},
             limit : MemoryLimits, nlimit : NetworksLimits, open : {TRUE}]
  /\ fault = "none"

Add == \E n \in Network : AddNetwork(ca, n) /\ UNCHANGED fault

Find == \E n \in Networks(ca), revive \in BOOLEAN :
  /\ ca.net[n].ref < MaxRef
  /\ FindNetwork(ca, n, revive)
  /\ UNCHANGED fault

CacheNetworkRef == \E n \in Networks(ca) :
  /\ ca.net[n].ref \in 1 .. MaxRef - 1
  /\ ca' = [ca EXCEPT !.net[n].ref = @ + 1]
  /\ UNCHANGED fault

CacheNetworkUnref == \E n \in Networks(ca) :
  /\ ca.net[n].ref > 0
  /\ ca' = IF ca.net[n].ref > 1
           THEN [ca EXCEPT !.net[n].ref = @ - 1]
           ELSE DeleteSurplusNetworks([ca EXCEPT !.net[n].ref = 0])
  /\ UNCHANGED fault

Put == \E n \in Networks(ca), k \in Kind : ca.net[n].ref > 0 /\ PutPage(n, k)

Get == \E n \in Networks(ca), k \in Kind, all \in BOOLEAN :
  ca.net[n].ref > 0 /\ GetPage(n, k, all)

DuplicateRef == \E p \in Page :
  /\ ca.page[p].ref \in 1 .. MaxRef - 1
  /\ ca' = CachePageRef(ca, p)
  /\ UNCHANGED fault

Unref == \E p \in Page :
  /\ ca.page[p].ref > 0
  /\ ca' = CachePageUnref(ca, p)
  /\ UNCHANGED fault

SetMemoryLimit == \E m \in MemoryLimits :
  /\ ca' = DeleteSurplusPages([ca EXCEPT !.limit = m])
  /\ UNCHANGED fault

SetNetworkLimit == \E m \in NetworksLimits :
  /\ ca' = DeleteSurplusNetworks([ca EXCEPT !.nlimit = m])
  /\ UNCHANGED fault

Delete ==
  /\ ca' = [Purge(ca) EXCEPT !.open = FALSE]
  /\ UNCHANGED fault

Next ==
  /\ ca.open /\ fault = "none"
  /\ \/ Add \/ Find \/ CacheNetworkRef \/ CacheNetworkUnref
     \/ Put \/ Get \/ DuplicateRef \/ Unref
     \/ SetMemoryLimit \/ SetNetworkLimit \/ Delete

Spec == Init /\ [][Next]_vars

-----------------------------------------------------------------------------
(* Properties. *)

Unreferenced(c) == {p \in Allocated(c) : c.page[p].ref = 0}
SizeOf(c, S) == FoldLeft(LAMBDA m, p : m + c.page[p].kind.size, 0, SetToSeq(S))
PagesOf(c, n) == {p \in Allocated(c) : c.page[p].cn = n}

\* The variables keep their types.
TypeOK ==
  /\ ca.networks \in Seq(Network) /\ ca.priority \in Seq(Page)
  /\ ca.net \in [Network -> [ref : 0 .. MaxRef, nref : 0 .. Cardinality(Page),
                             npages : 0 .. Cardinality(Page), zombie : BOOLEAN]]
  /\ ca.page \in [Page -> [cn : Network \cup {NULL}, kind : Kind \cup {NULL},
                           ref : 0 .. MaxRef, zombie : BOOLEAN, block : Nat]]
  /\ ca.hash \in [Pgno -> Seq(Page)]
  /\ ca.memory \in 0 .. Word - 1 /\ ca.npages \in 0 .. Cardinality(Page)
  /\ ca.cached \in 0 .. Cardinality(Network)
  /\ ca.limit \in MemoryLimits /\ ca.nlimit \in NetworksLimits /\ ca.open \in BOOLEAN
  /\ fault \in {"none", "overrun", "deleted twice"}

\* Each counter that delete_page, put_page, ref and unref keep by hand, all of
\* them unsigned, is what it counts: memory_used the bytes of the pages nobody
\* holds, n_referenced_pages and n_cached_pages the pages of a network that are
\* held or exist, n_cached_networks the networks that are not zombies.  Only a
\* page put into a block that is too small takes from memory_used also what it
\* writes behind that block, and memory_used may wrap around.
CountersExact ==
  /\ TypeOK
  /\ IF fault = "overrun"
     THEN \E p \in Allocated(ca) :
            /\ ca.page[p].ref = 1 /\ ca.page[p].block < ca.page[p].kind.size
            /\ ca.memory = Less(SizeOf(ca, Unreferenced(ca)),
                                ca.page[p].kind.size - ca.page[p].block)
     ELSE ca.memory = SizeOf(ca, Unreferenced(ca))
  /\ ca.npages = Cardinality(Allocated(ca))
  /\ ca.cached = Cardinality({n \in Networks(ca) : ~ ca.net[n].zombie})
  /\ \A n \in Networks(ca) :
       /\ ca.net[n].npages = Cardinality(PagesOf(ca, n))
       /\ ca.net[n].nref = Cardinality(PagesOf(ca, n) \ Unreferenced(ca))

\* What a page points to and is linked into (page_in_cache of cache.c): its
\* network exists as long as the page does; it is on its hash list, once,
\* unless it is a zombie, and on the priority list, once, unless it is held;
\* a zombie is always held.  After vbi_cache_delete only held pages are left, and
\* the networks somebody holds or still has a page of.
Linked ==
  /\ IsInjective(ca.networks) /\ IsInjective(ca.priority)
  /\ ToSet(ca.priority) = Unreferenced(ca)
  /\ \A g \in Pgno :
       /\ IsInjective(ca.hash[g])
       /\ ToSet(ca.hash[g]) = {p \in Allocated(ca) :
            ca.page[p].kind.pgno = g /\ ~ ca.page[p].zombie}
  /\ \A p \in Allocated(ca) :
       /\ ca.page[p].cn \in Networks(ca)
       /\ ca.page[p].zombie => ca.page[p].ref > 0
  /\ ~ ca.open => /\ Unreferenced(ca) = {}
                  /\ \A n \in Networks(ca) : Referenced(ca, n)

\* memory_used never exceeds what vbi_cache_set_memory_limit allows, whatever
\* is put, given back or limited in between, until a page is put into a block
\* that is too small; therefore memory_available of put_page, for which the
\* code says it can be negative, never is.
MemoryBound == fault # "overrun" => ca.memory <= ca.limit

\* A page somebody holds keeps its contents and its network, also when a new
\* version is received, when memory is scarce and when its network is left;
\* only giving back the last reference frees it.
HeldPagesStay ==
  [][\A p \in Page : ca.page[p].ref > 0 =>
       \/ ca'.page[p].kind = ca.page[p].kind /\ ca'.page[p].cn = ca.page[p].cn
       \/ ca.page[p].ref = 1 /\ ca'.page[p] = FreePage]_vars

\* "Pages of the current network ... are last deleted" (comment of
\* vbi_cache_set_memory_limit): when a page of a network in use is given up,
\* other than for its own new version, no page of an idle network is left.
CurrentNetworkLast ==
  [][ca'.open => \A p \in Unreferenced(ca) :
       \/ ca'.page[p].kind = ca.page[p].kind
       \/ ca.net[ca.page[p].cn].ref = 0 \/ ca'.net[ca.page[p].cn].ref = 0
       \/ \E q \in Allocated(ca') : /\ ca'.page[q].ref = 1
                                    /\ q \notin Allocated(ca) \/ q = p
                                    /\ ca'.page[q].cn = ca.page[p].cn
                                    /\ ca'.page[q].kind.pgno = ca.page[p].kind.pgno
       \/ \A q \in Unreferenced(ca') : ca'.net[ca'.page[q].cn].ref > 0]_vars

=============================================================================
