--------------------------- MODULE VbiCacheProofs ---------------------------
(***************************************************************************)
(* The page cache is well linked and within its limit, its counters are    *)
(* exact, a page somebody holds stays, and pages of a network in use go    *)
(* last, for any networks, pages, limits and contents.  All operations are *)
(* operators from a cache to a cache, so that the lemmas are about two     *)
(* caches: Lists and Counts hold of the second if they hold of the first,  *)
(* and what else has changed.                                              *)
(***************************************************************************)
EXTENDS VbiCache, SequenceLemmas, FiniteSetTheorems

NetRec == [ref : Nat, nref : Int, npages : Int, zombie : BOOLEAN]
PageRec == [cn : Network \cup {NULL}, kind : Kind \cup {NULL}, ref : Nat,
            zombie : BOOLEAN, block : Nat]
CacheRec ==
  [networks : Seq(Network), net : [Network -> NetRec], page : [Page -> PageRec],
   hash : [Pgno -> Seq(Page)], priority : Seq(Page), memory : Int, cached : Int,
   npages : Int, limit : MemoryLimits, nlimit : NetworksLimits, open : BOOLEAN]

Used(c, p) == c.page[p].cn # NULL
Free(c, p) == Used(c, p) /\ c.page[p].ref = 0
OnHash(c, p, g) == Used(c, p) /\ c.page[p].kind.pgno = g /\ ~ c.page[p].zombie

\* What one address of a page holds.
PageOK(c, p) ==
  \/ c.page[p] = FreePage
  \/ /\ c.page[p].cn \in Range(c.networks) /\ c.page[p].kind \in Kind
     /\ c.page[p].block = c.page[p].kind.size
     /\ c.page[p].zombie => c.page[p].ref > 0

\* Which pages and networks are on which list.
Lists(c) ==
  /\ c \in CacheRec
  /\ IsInjective(c.networks) /\ IsInjective(c.priority)
  /\ \A g \in Pgno : IsInjective(c.hash[g])
  /\ \A p \in Page : PageOK(c, p)
  /\ \A p \in Page : p \in Range(c.priority) <=> Free(c, p)
  /\ \A g \in Pgno, p \in Page : p \in Range(c.hash[g]) <=> OnHash(c, p, g)
  /\ \A n \in Network : n \notin Range(c.networks) => c.net[n] = FreeNet

Held(c, n) == {p \in Page : c.page[p].cn = n /\ c.page[p].ref > 0}
Of(c, n) == {p \in Page : c.page[p].cn = n}
Live(c) == {p \in Page : Used(c, p)}
Bytes(c) == {x \in Page \X Nat : Free(c, x[1]) /\ x[2] \in 1 .. c.page[x[1]].kind.size}
Counted(c) == {n \in Range(c.networks) : ~ c.net[n].zombie}

\* The counters; memory counts bytes, each of which is a pair of a page and a
\* number.
Counts(c) ==
  /\ \A n \in Network : /\ c.net[n].nref = Cardinality(Held(c, n))
                        /\ c.net[n].npages = Cardinality(Of(c, n))
  /\ c.npages = Cardinality(Live(c))
  /\ IsFiniteSet(Bytes(c)) /\ c.memory = Cardinality(Bytes(c))
  /\ c.cached = Cardinality(Counted(c))

Good(c) == Lists(c) /\ Counts(c)

\* d is c without some of the pages nobody holds.
Trimmed(c, d) ==
  /\ Good(d)
  /\ d.networks = c.networks /\ d.cached = c.cached
  /\ d.limit = c.limit /\ d.nlimit = c.nlimit /\ d.open = c.open
  /\ d.memory <= c.memory
  /\ \A n \in Network : /\ d.net[n].ref = c.net[n].ref /\ d.net[n].nref = c.net[n].nref
                        /\ d.net[n].zombie = c.net[n].zombie
  /\ \A p \in Page : \/ d.page[p] = c.page[p]
                     \/ Free(c, p) /\ d.page[p] = FreePage

-----------------------------------------------------------------------------
(* delete_page of a page nobody holds. *)

LEMMA FreeIsOK ==
  ASSUME NEW c, Lists(c), NEW p \in Page, Free(c, p)
  PROVE  /\ ~ (c.page[p].ref > 0) /\ c.page[p].ref = 0 /\ c.page[p].cn \in Range(c.networks)
         /\ c.page[p].cn \in Network /\ c.page[p].kind \in Kind /\ ~ c.page[p].zombie
         /\ c.page[p].block = c.page[p].kind.size /\ c.page[p].kind.pgno \in Pgno
         /\ c.page[p].kind.size \in Nat \ {0}
<1>1. PageOK(c, p) /\ c.page[p].ref = 0 /\ c.page[p].cn # NULL /\ c \in CacheRec
  BY DEF Lists, Free, Used
<1>2. FreePage.cn = NULL
  BY DEF FreePage
<1>3. c.page[p] # FreePage
  BY <1>1, <1>2, Zenon
<1>4. /\ c.page[p].cn \in Range(c.networks) /\ c.page[p].kind \in Kind
      /\ c.page[p].block = c.page[p].kind.size
      /\ c.page[p].zombie => c.page[p].ref > 0
  BY <1>1, <1>3 DEF PageOK
<1>5. c.page[p].cn \in Network
  BY <1>4, <1>1 DEF CacheRec, Range
<1>6. c.page[p].kind.pgno \in Pgno /\ c.page[p].kind.size \in Nat \ {0}
  BY <1>4, CacheAssumption DEF Pgno
<1> QED
  BY <1>1, <1>4, <1>5, <1>6

\* What delete_page does to each field.
PageDeleted(c, d, p, m, k) ==
  /\ d \in CacheRec
  /\ d.networks = c.networks /\ d.cached = c.cached
  /\ d.limit = c.limit /\ d.nlimit = c.nlimit /\ d.open = c.open
  /\ d.memory = c.memory - k.size
  /\ d.npages = c.npages - 1
  /\ d.page = [c.page EXCEPT ![p] = FreePage]
  /\ d.hash = [c.hash EXCEPT ![k.pgno] = RemoveFirst(@, p)]
  /\ d.priority = RemoveFirst(c.priority, p)
  /\ d.net = [c.net EXCEPT ![m].npages = @ - 1]

LEMMA DeletePageFields ==
  ASSUME NEW c, Lists(c), NEW p \in Page, Free(c, p)
  PROVE  PageDeleted(c, DeletePage(c, p), p, c.page[p].cn, c.page[p].kind)
<1> PICK d : d = DeletePage(c, p)
  OBVIOUS
<1> PICK m : m = c.page[p].cn
  OBVIOUS
<1> PICK g : g = c.page[p].kind.pgno
  OBVIOUS
<1> PICK k : k = c.page[p].kind.size
  OBVIOUS
<1>1. /\ ~ (c.page[p].ref > 0) /\ m \in Network
      /\ c.page[p].kind \in Kind /\ ~ c.page[p].zombie
  BY FreeIsOK
<1> c \in CacheRec
  BY DEF Lists
<1>2. d = [c EXCEPT !.memory = IF c.page[p].zombie THEN @ ELSE @ - k,
                    !.hash[g] = RemoveFirst(@, p),
                    !.priority = RemoveFirst(@, p),
                    !.net[m].npages = @ - 1,
                    !.page[p] = FreePage,
                    !.npages = @ - 1]
  <2>1. DeletePage(c, p)
          = [c EXCEPT !.memory = IF c.page[p].zombie THEN @ ELSE @ - c.page[p].kind.size,
                      !.hash[c.page[p].kind.pgno] = RemoveFirst(@, p),
                      !.priority = RemoveFirst(@, p),
                      !.net[c.page[p].cn].npages = @ - 1,
                      !.page[p] = FreePage,
                      !.npages = @ - 1]
    BY <1>1, Zenon DEF DeletePage
  <2> QED
    BY <2>1, Zenon
<1>3. /\ d.networks = c.networks /\ d.cached = c.cached
      /\ d.limit = c.limit /\ d.nlimit = c.nlimit /\ d.open = c.open
  BY <1>2 DEF CacheRec
<1>4. d.memory = c.memory - k
  BY <1>1, <1>2 DEF CacheRec
<1>5. d.npages = c.npages - 1
  BY <1>2 DEF CacheRec
<1>6. d.page = [c.page EXCEPT ![p] = FreePage]
  BY <1>2 DEF CacheRec
<1>7. d.hash = [c.hash EXCEPT ![g] = RemoveFirst(@, p)]
  BY <1>2 DEF CacheRec
<1>8. d.priority = RemoveFirst(c.priority, p)
  BY <1>2 DEF CacheRec
<1>9. d.net = [c.net EXCEPT ![m].npages = @ - 1]
  BY <1>2 DEF CacheRec
<1>10. d \in CacheRec
  <2>1. k \in Int /\ g \in Pgno /\ m \in Network /\ FreePage \in PageRec
    BY FreeIsOK DEF FreePage, PageRec
  <2>2. RemoveFirst(c.priority, p) \in Seq(Page) /\ RemoveFirst(c.hash[g], p) \in Seq(Page)
    BY <2>1, RemoveFirstDistinct DEF Lists, CacheRec
  <2>3. d.hash \in [Pgno -> Seq(Page)] /\ d.page \in [Page -> PageRec]
    BY <1>6, <1>7, <2>1, <2>2 DEF CacheRec
  <2>4. d.net \in [Network -> NetRec]
    <3>1. c.net \in [Network -> NetRec] /\ c.net[m] \in NetRec
      BY <2>1 DEF CacheRec
    <3>2. PICK x : x = [c.net[m] EXCEPT !.npages = @ - 1]
      OBVIOUS
    <3>3. x \in NetRec
      <4>1. PICK y : y = c.net[m]
        OBVIOUS
      <4>2. y \in NetRec /\ x = [y EXCEPT !.npages = @ - 1]
        BY <3>1, <3>2, <4>1, Zenon
      <4> QED
        BY <4>2 DEF NetRec
    <3>4. d.net = [c.net EXCEPT ![m] = x]
      BY <1>9, <3>2, Zenon
    <3> QED
      BY <3>1, <3>3, <3>4
  <2>5. /\ c.memory - k \in Int /\ c.npages - 1 \in Int
        /\ c.networks \in Seq(Network) /\ c.cached \in Int
        /\ c.limit \in MemoryLimits /\ c.nlimit \in NetworksLimits /\ c.open \in BOOLEAN
    BY <2>1 DEF CacheRec
  <2>6. d = [networks |-> d.networks, net |-> d.net, page |-> d.page, hash |-> d.hash,
             priority |-> d.priority, memory |-> d.memory, cached |-> d.cached,
             npages |-> d.npages, limit |-> d.limit, nlimit |-> d.nlimit, open |-> d.open]
    BY <1>2 DEF CacheRec
  <2>7. /\ d.networks \in Seq(Network) /\ d.priority \in Seq(Page)
        /\ d.memory \in Int /\ d.cached \in Int /\ d.npages \in Int
        /\ d.limit \in MemoryLimits /\ d.nlimit \in NetworksLimits /\ d.open \in BOOLEAN
    BY <1>3, <1>4, <1>5, <1>8, <2>2, <2>5, Zenon
  <2> QED
    BY <2>3, <2>4, <2>6, <2>7 DEF CacheRec
<1>11. PICK r : r = c.page[p].kind
  OBVIOUS
<1>12. g = r.pgno /\ k = r.size
  BY <1>11, Zenon
<1>13. PageDeleted(c, d, p, m, r)
  BY <1>3, <1>4, <1>5, <1>6, <1>7, <1>8, <1>9, <1>10, <1>12, Zenon DEF PageDeleted
<1> QED
  BY <1>11, <1>13, Zenon

LEMMA PageBytes ==
  ASSUME NEW p, NEW k \in Nat
  PROVE  IsFiniteSet({p} \X (1 .. k)) /\ Cardinality({p} \X (1 .. k)) = k
<1>1. IsFiniteSet({p}) /\ Cardinality({p}) = 1
  BY FS_Singleton
<1>2. IsFiniteSet(1 .. k) /\ Cardinality(1 .. k) = k
  BY FS_Interval
<1>3. /\ IsFiniteSet({p} \X (1 .. k))
      /\ Cardinality({p} \X (1 .. k)) = Cardinality({p}) * Cardinality(1 .. k)
  BY <1>1, <1>2, FS_Product, Zenon
<1> QED
  BY <1>1, <1>2, <1>3

LEMMA DeletePageLists ==
  ASSUME NEW c, Lists(c), NEW p \in Page, Free(c, p)
  PROVE  LET d == DeletePage(c, p)
         IN  /\ Lists(d)
             /\ Range(d.priority) = Range(c.priority) \ {p}
             /\ ~ Used(d, p)
             /\ \A q \in Page \ {p} : d.page[q] = c.page[q]
<1>1. PICK d : d = DeletePage(c, p)
  OBVIOUS
<1>2. PICK g : g = c.page[p].kind.pgno
  OBVIOUS
<1>3. /\ d \in CacheRec /\ d.networks = c.networks
      /\ d.page = [c.page EXCEPT ![p] = FreePage]
      /\ d.hash = [c.hash EXCEPT ![g] = RemoveFirst(@, p)]
      /\ d.priority = RemoveFirst(c.priority, p)
      /\ d.net = [c.net EXCEPT ![c.page[p].cn].npages = @ - 1]
  <2>1. PageDeleted(c, DeletePage(c, p), p, c.page[p].cn, c.page[p].kind)
    BY DeletePageFields, Zenon
  <2>2. PageDeleted(c, d, p, c.page[p].cn, c.page[p].kind)
    BY <1>1, <2>1, Zenon
  <2> QED
    BY <1>2, <2>2 DEF PageDeleted
<1>4. /\ c.page[p].ref = 0 /\ c.page[p].cn \in Range(c.networks) /\ c.page[p].cn \in Network
      /\ g \in Pgno /\ FreePage.cn = NULL /\ c \in CacheRec
  BY <1>2, FreeIsOK DEF FreePage, Lists
<1>5. d.page[p] = FreePage /\ \A q \in Page \ {p} : d.page[q] = c.page[q]
  BY <1>3, <1>4 DEF CacheRec
<1>6. /\ IsInjective(d.priority) /\ Range(d.priority) = Range(c.priority) \ {p}
  BY <1>3, RemoveFirstDistinct DEF Lists, CacheRec
<1>7. /\ d.hash[g] = RemoveFirst(c.hash[g], p)
      /\ \A h \in Pgno \ {g} : d.hash[h] = c.hash[h]
      /\ IsInjective(c.hash[g]) /\ c.hash[g] \in Seq(Page)
  BY <1>3, <1>4 DEF CacheRec, Lists
<1>8. IsInjective(d.hash[g]) /\ Range(d.hash[g]) = Range(c.hash[g]) \ {p}
  BY <1>7, RemoveFirstDistinct
<1>9. \A h \in Pgno : IsInjective(d.hash[h])
  BY <1>7, <1>8 DEF Lists
<1>10. \A q \in Page : PageOK(d, q)
  BY <1>3, <1>5 DEF Lists, PageOK
<1>11. \A q \in Page : q \in Range(d.priority) <=> Free(d, q)
  BY <1>4, <1>5, <1>6 DEF Lists, Free, Used
<1>12. ASSUME NEW h \in Pgno, NEW q \in Page
       PROVE  q \in Range(d.hash[h]) <=> OnHash(d, q, h)
  <2>1. q \in Range(c.hash[h]) <=> OnHash(c, q, h)
    BY DEF Lists
  <2>2. CASE q = p
    <3>1. ~ OnHash(d, q, h)
      BY <1>4, <1>5, <2>2 DEF OnHash, Used
    <3>2. h # g => ~ OnHash(c, q, h)
      BY <1>2, <2>2 DEF OnHash
    <3> QED
      BY <1>7, <1>8, <2>1, <2>2, <3>1, <3>2
  <2>3. CASE q # p
    <3>1. OnHash(d, q, h) <=> OnHash(c, q, h)
      BY <1>5, <2>3 DEF OnHash, Used
    <3> QED
      BY <1>7, <1>8, <2>1, <2>3, <3>1
  <2> QED
    BY <2>2, <2>3
<1>13. \A n \in Network : n \notin Range(d.networks) => d.net[n] = FreeNet
  <2> SUFFICES ASSUME NEW n \in Network, n \notin Range(c.networks)
               PROVE  d.net[n] = FreeNet
    BY <1>3
  <2>1. n # c.page[p].cn /\ c.net[n] = FreeNet
    BY <1>4 DEF Lists
  <2> QED
    BY <1>3, <1>4, <2>1 DEF CacheRec
<1>14. ~ Used(d, p)
  BY <1>4, <1>5 DEF Used
<1>15. Lists(d)
  BY <1>3, <1>6, <1>9, <1>10, <1>11, <1>12, <1>13 DEF Lists
<1> QED
  BY <1>1, <1>5, <1>6, <1>14, <1>15, Zenon

LEMMA FiniteSubset ==
  ASSUME NEW S, IsFiniteSet(S), NEW T, T \subseteq S
  PROVE  IsFiniteSet(T) /\ Cardinality(T) \in Nat
  BY FS_Subset, FS_CardinalityType

\* An element that is taken out, and one that is added, counts one.
LEMMA CountRemoved ==
  ASSUME NEW S, IsFiniteSet(S), NEW x
  PROVE  /\ IsFiniteSet(S \ {x}) /\ Cardinality(S) \in Nat
         /\ x \in S => Cardinality(S \ {x}) = Cardinality(S) - 1
         /\ x \notin S => S \ {x} = S
<1>1. /\ IsFiniteSet(S \ {x})
      /\ Cardinality(S \ {x}) = IF x \in S THEN Cardinality(S) - 1 ELSE Cardinality(S)
  BY FS_RemoveElement, Zenon
<1>2. Cardinality(S) \in Nat
  BY FS_CardinalityType
<1> QED
  BY <1>1, <1>2

LEMMA CountAdded ==
  ASSUME NEW S, IsFiniteSet(S), NEW x, x \notin S
  PROVE  /\ IsFiniteSet(S \cup {x}) /\ Cardinality(S) \in Nat
         /\ Cardinality(S \cup {x}) = Cardinality(S) + 1
<1>1. /\ IsFiniteSet(S \cup {x})
      /\ Cardinality(S \cup {x}) = IF x \in S THEN Cardinality(S) ELSE Cardinality(S) + 1
  BY FS_AddElement, Zenon
<1>2. Cardinality(S) \in Nat
  BY FS_CardinalityType
<1> QED
  BY <1>1, <1>2

\* What is counted is finite.
LEMMA FiniteCounts ==
  ASSUME NEW c, Lists(c)
  PROVE  /\ IsFiniteSet(Live(c)) /\ IsFiniteSet(Counted(c))
         /\ \A n \in Network : IsFiniteSet(Held(c, n)) /\ IsFiniteSet(Of(c, n))
<1>1. IsFiniteSet(Page) /\ IsFiniteSet(Network)
  BY CacheAssumption
<1>2. Counted(c) \subseteq Network
  BY DEF Counted, Lists, CacheRec, Range
<1>3. Live(c) \subseteq Page /\ \A n \in Network : Held(c, n) \subseteq Page /\ Of(c, n) \subseteq Page
  BY DEF Live, Held, Of
<1> QED
  BY <1>1, <1>2, <1>3, FiniteSubset

\* The bytes of a page are taken from, or added to, those of the others.
LEMMA BytesRemoved ==
  ASSUME NEW S, IsFiniteSet(S), NEW p, NEW k \in Nat, {p} \X (1 .. k) \subseteq S
  PROVE  /\ IsFiniteSet(S \ ({p} \X (1 .. k))) /\ Cardinality(S) \in Nat
         /\ Cardinality(S \ ({p} \X (1 .. k))) = Cardinality(S) - k
<1>1. PICK T : T = {p} \X (1 .. k)
  OBVIOUS
<1>2. IsFiniteSet(T) /\ Cardinality(T) = k /\ T \subseteq S
  BY <1>1, PageBytes
<1>3. /\ IsFiniteSet(S \ T)
      /\ Cardinality(S \ T) = Cardinality(S) - Cardinality(S \cap T)
  BY FS_Difference, Zenon
<1>4. S \cap T = T /\ Cardinality(S) \in Nat
  BY <1>2, FS_CardinalityType
<1>5. Cardinality(S \ T) = Cardinality(S) - k
  BY <1>2, <1>3, <1>4
<1> QED
  BY <1>1, <1>3, <1>4, <1>5, Zenon

LEMMA BytesAdded ==
  ASSUME NEW S, IsFiniteSet(S), NEW p, NEW k \in Nat, S \cap ({p} \X (1 .. k)) = {}
  PROVE  /\ IsFiniteSet(S \cup ({p} \X (1 .. k))) /\ Cardinality(S) \in Nat
         /\ Cardinality(S \cup ({p} \X (1 .. k))) = Cardinality(S) + k
<1>1. PICK T : T = {p} \X (1 .. k)
  OBVIOUS
<1>2. IsFiniteSet(T) /\ Cardinality(T) = k /\ S \cap T = {}
  BY <1>1, PageBytes
<1>3. /\ IsFiniteSet(S \cup T)
      /\ Cardinality(S \cup T) = Cardinality(S) + Cardinality(T) - Cardinality(S \cap T)
  BY <1>2, FS_Union, Zenon
<1>4. Cardinality(S \cap T) = 0 /\ Cardinality(S) \in Nat
  BY <1>2, FS_EmptySet, FS_CardinalityType
<1>5. Cardinality(S \cup T) = Cardinality(S) + k
  BY <1>2, <1>3, <1>4
<1> QED
  BY <1>1, <1>3, <1>4, <1>5, Zenon

LEMMA DeletePageGood ==
  ASSUME NEW c, Good(c), NEW p \in Page, Free(c, p)
  PROVE  LET d == DeletePage(c, p)
         IN  /\ Trimmed(c, d) /\ Counts(d)
             /\ Range(d.priority) = Range(c.priority) \ {p}
             /\ ~ Used(d, p)
             /\ \A q \in Page \ {p} : d.page[q] = c.page[q]
<1>1. PICK d : d = DeletePage(c, p)
  OBVIOUS
<1>2. PICK m : m = c.page[p].cn
  OBVIOUS
<1>3. PICK k : k = c.page[p].kind.size
  OBVIOUS
<1>0. Lists(c)
  BY DEF Good
<1>4. /\ d.networks = c.networks /\ d.cached = c.cached /\ d \in CacheRec
      /\ d.limit = c.limit /\ d.nlimit = c.nlimit /\ d.open = c.open
      /\ d.memory = c.memory - k /\ d.npages = c.npages - 1
      /\ d.page = [c.page EXCEPT ![p] = FreePage]
      /\ d.net = [c.net EXCEPT ![m].npages = @ - 1]
  <2>1. PageDeleted(c, DeletePage(c, p), p, c.page[p].cn, c.page[p].kind)
    BY <1>0, DeletePageFields, Zenon
  <2>2. PageDeleted(c, d, p, m, c.page[p].kind)
    BY <1>1, <1>2, <2>1, Zenon
  <2> QED
    BY <1>3, <2>2 DEF PageDeleted
<1>5. /\ Lists(d) /\ ~ Used(d, p) /\ Range(d.priority) = Range(c.priority) \ {p}
      /\ \A q \in Page \ {p} : d.page[q] = c.page[q]
  BY <1>1, DeletePageLists, Zenon DEF Good
<1>6. /\ c.page[p].ref = 0 /\ m \in Network /\ k \in Nat \ {0} /\ c \in CacheRec
      /\ FreePage.cn = NULL /\ NULL \notin Network /\ FreePage.ref = 0
  BY <1>2, <1>3, FreeIsOK, CacheAssumption DEF FreePage, Good, Lists
<1>7. d.page[p] = FreePage
  BY <1>4, <1>6 DEF CacheRec
<1>8. \A n \in Network : /\ d.net[n].ref = c.net[n].ref /\ d.net[n].nref = c.net[n].nref
                         /\ d.net[n].zombie = c.net[n].zombie
                         /\ n # m => d.net[n].npages = c.net[n].npages
  <2>1. PICK x : x = [c.net[m] EXCEPT !.npages = @ - 1]
    OBVIOUS
  <2>2. c.net \in [Network -> NetRec] /\ c.net[m] \in NetRec
    BY <1>6 DEF CacheRec
  <2>3. x.ref = c.net[m].ref /\ x.nref = c.net[m].nref /\ x.zombie = c.net[m].zombie
    BY <2>1, <2>2 DEF NetRec
  <2>4. d.net = [c.net EXCEPT ![m] = x]
    BY <1>4, <2>1, Zenon
  <2>5. d.net[m] = x /\ \A n \in Network \ {m} : d.net[n] = c.net[n]
    BY <1>6, <2>2, <2>4
  <2> QED
    BY <2>3, <2>5
<1>9. d.net[m].npages = c.net[m].npages - 1
  BY <1>4, <1>6 DEF CacheRec, NetRec
<1>10. \A n \in Network : Held(d, n) = Held(c, n)
  BY <1>5, <1>6, <1>7 DEF Held
<1>11. \A n \in Network : Of(d, n) = IF n = m THEN Of(c, n) \ {p} ELSE Of(c, n)
  BY <1>2, <1>5, <1>6, <1>7 DEF Of
<1>12. Live(d) = Live(c) \ {p} /\ p \in Live(c)
  BY <1>5 DEF Live, Used, Free
<1>13. Counted(d) = Counted(c)
  BY <1>4, <1>6, <1>8 DEF Counted, CacheRec, Range
<1>14. Bytes(d) = Bytes(c) \ ({p} \X (1 .. k)) /\ {p} \X (1 .. k) \subseteq Bytes(c)
  <2>1. ~ Free(d, p) /\ \A q \in Page \ {p} : Free(d, q) <=> Free(c, q)
    BY <1>5 DEF Free, Used
  <2> QED
    BY <1>3, <1>5, <2>1 DEF Bytes
<1>15. /\ IsFiniteSet(Live(c)) /\ \A n \in Network : IsFiniteSet(Of(c, n))
  BY FiniteCounts DEF Good
<1>16. /\ c.npages = Cardinality(Live(c)) /\ c.cached = Cardinality(Counted(c))
       /\ IsFiniteSet(Bytes(c)) /\ c.memory = Cardinality(Bytes(c))
       /\ \A n \in Network : /\ c.net[n].nref = Cardinality(Held(c, n))
                             /\ c.net[n].npages = Cardinality(Of(c, n))
  BY DEF Good, Counts
<1>17. d.npages = Cardinality(Live(d))
  BY <1>4, <1>12, <1>15, <1>16, CountRemoved
<1>18. IsFiniteSet(Bytes(d)) /\ d.memory = Cardinality(Bytes(d)) /\ d.memory <= c.memory
  <2>1. /\ IsFiniteSet(Bytes(c) \ ({p} \X (1 .. k))) /\ Cardinality(Bytes(c)) \in Nat
        /\ Cardinality(Bytes(c) \ ({p} \X (1 .. k))) = Cardinality(Bytes(c)) - k
    <3>1. k \in Nat
      BY <1>6
    <3> QED
      BY <1>14, <1>16, <3>1, BytesRemoved, Zenon
  <2>2. IsFiniteSet(Bytes(d)) /\ Cardinality(Bytes(d)) = Cardinality(Bytes(c)) - k
    BY <1>14, <2>1, Zenon
  <2> QED
    BY <1>4, <1>6, <1>16, <2>1, <2>2
<1>19. d.net[m].npages = Cardinality(Of(d, m))
  <2>1. p \in Of(c, m)
    BY <1>2 DEF Of
  <2>2. Of(d, m) = Of(c, m) \ {p}
    BY <1>6, <1>11
  <2> QED
    BY <1>6, <1>9, <1>15, <1>16, <2>1, <2>2, CountRemoved
<1>20. \A n \in Network : /\ d.net[n].nref = Cardinality(Held(d, n))
                          /\ d.net[n].npages = Cardinality(Of(d, n))
  <2> SUFFICES ASSUME NEW n \in Network
               PROVE  /\ d.net[n].nref = Cardinality(Held(d, n))
                      /\ d.net[n].npages = Cardinality(Of(d, n))
    OBVIOUS
  <2>1. d.net[n].nref = Cardinality(Held(d, n))
    BY <1>8, <1>10, <1>16
  <2>2. CASE n # m
    BY <1>8, <1>11, <1>16, <2>1, <2>2
  <2>3. CASE n = m
    BY <1>19, <2>1, <2>3
  <2> QED
    BY <2>2, <2>3
<1>21. d.cached = Cardinality(Counted(d))
  BY <1>4, <1>13, <1>16
<1>22. Counts(d)
  BY <1>17, <1>18, <1>20, <1>21 DEF Counts
<1>23. \A q \in Page : \/ d.page[q] = c.page[q]
                       \/ Free(c, q) /\ d.page[q] = FreePage
  BY <1>5, <1>7
<1>24. Trimmed(c, d)
  <2>1. Good(d)
    BY <1>5, <1>22 DEF Good
  <2>2. \A n \in Network : /\ d.net[n].ref = c.net[n].ref /\ d.net[n].nref = c.net[n].nref
                           /\ d.net[n].zombie = c.net[n].zombie
    BY <1>8
  <2>3. /\ d.networks = c.networks /\ d.cached = c.cached
        /\ d.limit = c.limit /\ d.nlimit = c.nlimit /\ d.open = c.open
        /\ d.memory <= c.memory
    BY <1>4, <1>18
  <2> QED
    BY <1>23, <2>1, <2>2, <2>3 DEF Trimmed
<1> QED
  BY <1>1, <1>5, <1>22, <1>24, Zenon

LEMMA GoodTypes ==
  ASSUME NEW c, Good(c)
  PROVE  /\ c \in CacheRec /\ c.memory \in Nat /\ c.limit \in Nat \ {0} /\ c.limit \in Int
         /\ c.cached \in Int /\ c.networks \in Seq(Network)
<1>1. c \in CacheRec
  BY DEF Good, Lists
<1>2. c.limit \in MemoryLimits /\ c.cached \in Int /\ c.networks \in Seq(Network)
  BY <1>1 DEF CacheRec
<1>3. c.limit \in Nat \ {0}
  BY <1>2, CacheAssumption
<1>4. c.memory \in Nat
  BY FS_CardinalityType DEF Good, Counts
<1> QED
  BY <1>1, <1>2, <1>3, <1>4

LEMMA TrimmedSame ==
  ASSUME NEW c, Good(c)
  PROVE  Trimmed(c, c)
<1>1. c.memory \in Int
  BY DEF Good, Lists, CacheRec
<1> QED
  BY <1>1 DEF Trimmed

LEMMA TrimmedTwice ==
  ASSUME NEW c, NEW d, NEW e, Good(c), Trimmed(c, d), Trimmed(d, e)
  PROVE  Trimmed(c, e)
<1>1. c.memory \in Int /\ d.memory \in Int /\ e.memory \in Int
  BY DEF Good, Trimmed, Lists, CacheRec
<1>2. d.memory <= c.memory /\ e.memory <= d.memory
  BY DEF Trimmed
<1>3. e.memory <= c.memory
  BY <1>1, <1>2
<1>4. ASSUME NEW p \in Page
      PROVE  \/ e.page[p] = c.page[p]
             \/ Free(c, p) /\ e.page[p] = FreePage
  <2>1. d.page[p] = c.page[p] \/ (Free(c, p) /\ d.page[p] = FreePage)
    BY DEF Trimmed
  <2>2. e.page[p] = d.page[p] \/ (Free(d, p) /\ e.page[p] = FreePage)
    BY DEF Trimmed
  <2>3. d.page[p] = FreePage => ~ Free(d, p)
    BY DEF Free, Used, FreePage
  <2>4. d.page[p] = c.page[p] => (Free(d, p) <=> Free(c, p))
    BY DEF Free, Used
  <2> QED
    BY <2>1, <2>2, <2>3, <2>4
<1>5. \A n \in Network : /\ e.net[n].ref = c.net[n].ref /\ e.net[n].nref = c.net[n].nref
                         /\ e.net[n].zombie = c.net[n].zombie
  BY DEF Trimmed
<1>6. /\ e.networks = c.networks /\ e.cached = c.cached
      /\ e.limit = c.limit /\ e.nlimit = c.nlimit /\ e.open = c.open
      /\ Good(e)
  BY DEF Trimmed
<1> QED
  BY <1>3, <1>4, <1>5, <1>6 DEF Trimmed

\* The pages still to be visited by a loop over the priority list are free.
LEMMA OnPriority ==
  ASSUME NEW c, Good(c)
  PROVE  /\ c.priority \in Seq(Page) /\ IsInjective(c.priority)
         /\ \A i \in DOMAIN c.priority : c.priority[i] \in Page /\ Free(c, c.priority[i])
         /\ \A p \in Page : Free(c, p) => \E i \in DOMAIN c.priority : p = c.priority[i]
<1>1. /\ c.priority \in Seq(Page) /\ IsInjective(c.priority)
      /\ \A p \in Page : p \in Range(c.priority) <=> Free(c, p)
  BY DEF Good, Lists, CacheRec
<1>2. \A i \in DOMAIN c.priority : c.priority[i] \in Page /\ c.priority[i] \in Range(c.priority)
  BY <1>1 DEF Range
<1>3. \A p \in Page : Free(c, p) => \E i \in DOMAIN c.priority : p = c.priority[i]
  BY <1>1 DEF Range
<1> QED
  BY <1>1, <1>2, <1>3

\* A network loses the pages nobody holds.
Stripped(c, d, n) ==
  /\ Trimmed(c, d)
  /\ \A p \in Page : Free(d, p) => d.page[p].cn # n
  /\ \A p \in Page : c.page[p].cn # n => d.page[p] = c.page[p]

\* delete_all_pages.
LEMMA DeleteAllPagesGood ==
  ASSUME NEW c, Good(c), NEW n \in Network
  PROVE  Stripped(c, DeleteAllPages(c, n), n)
<1> DEFINE L    == c.priority
           step(d, p) == IF d.page[p].cn = n THEN DeletePage(d, p) ELSE d
           F    == [x \in CacheRec \X Page |-> step(x[1], x[2])]
           In(d, s) == /\ d \in CacheRec /\ Trimmed(c, d)
                       /\ \A i \in DOMAIN L \ s : d.page[L[i]] = c.page[L[i]]
                       /\ \A i \in s : d.page[L[i]].cn # n
                       /\ \A p \in Page : c.page[p].cn # n => d.page[p] = c.page[p]
           J    == [s \in SUBSET DOMAIN L |-> {d \in CacheRec : In(d, s)}]
           Eq(g) == g = [s \in SUBSET DOMAIN L |->
                          IF s = {} THEN c ELSE step(g[s \ {Max(s)}], L[Max(s)])]
           h     == CHOOSE g : Eq(g)
<1>1. /\ L \in Seq(Page) /\ IsInjective(L) /\ c \in CacheRec
      /\ \A i \in DOMAIN L : L[i] \in Page /\ Free(c, L[i])
      /\ \A p \in Page : Free(c, p) => \E i \in DOMAIN L : p = L[i]
  BY OnPriority DEF Good, Lists
<1>2. c \in J[{}]
  BY <1>1, TrimmedSame
<1>3. ASSUME NEW s \in SUBSET DOMAIN L, NEW m \in s, NEW x, In(x, s \ {m})
      PROVE  In(step(x, L[m]), s)
  <2>1. PICK p : p = L[m]
    OBVIOUS
  <2>2. /\ p \in Page /\ m \in DOMAIN L /\ x.page[p] = c.page[p] /\ Free(c, p)
        /\ \A i \in DOMAIN L \ {m} : L[i] # p
    BY <1>1, <1>3, <2>1 DEF IsInjective
  <2>3. Free(x, p) /\ Good(x)
    BY <1>3, <2>2 DEF Free, Used, Trimmed
  <2>4. CASE x.page[p].cn = n
    <3>1. PICK d : d = DeletePage(x, p)
      OBVIOUS
    <3>2. /\ Trimmed(x, d) /\ ~ Used(d, p)
          /\ \A q \in Page \ {p} : d.page[q] = x.page[q]
      BY <2>2, <2>3, <3>1, DeletePageGood, Zenon
    <3>3. Trimmed(c, d)
      BY <1>3, <3>2, TrimmedTwice, Zenon
    <3>4. d \in CacheRec
      BY <3>3 DEF Trimmed, Good, Lists
    <3>5. \A i \in DOMAIN L \ s : d.page[L[i]] = c.page[L[i]]
      BY <1>1, <1>3, <2>2, <3>2
    <3>6. \A i \in s : d.page[L[i]].cn # n
      <4>1. d.page[p].cn # n
        BY <3>2, CacheAssumption DEF Used
      <4> QED
        BY <1>1, <1>3, <2>1, <2>2, <3>2, <4>1
    <3>7. step(x, L[m]) = d
      BY <2>1, <2>4, <3>1
    <3>8. \A q \in Page : c.page[q].cn # n => d.page[q] = c.page[q]
      BY <1>3, <2>2, <2>4, <3>2
    <3> HIDE DEF step, L
    <3> QED
      BY <3>3, <3>4, <3>5, <3>6, <3>7, <3>8
  <2>5. CASE x.page[p].cn # n
    <3>1. step(x, L[m]) = x
      BY <2>1, <2>5
    <3>2. \A i \in s : x.page[L[i]].cn # n
      BY <1>3, <2>1, <2>5
    <3> HIDE DEF step, L
    <3> QED
      BY <1>3, <3>1, <3>2
  <2> QED
    BY <2>4, <2>5
<1> HIDE DEF step
<1>4. ASSUME NEW s \in SUBSET DOMAIN L, NEW m \in s, NEW x \in J[s \ {m}]
      PROVE  F[<<x, L[m]>>] \in J[s] /\ F[<<x, L[m]>>] = step(x, L[m])
  <2>1. s \ {m} \in SUBSET DOMAIN L /\ L[m] \in Page
    BY <1>1
  <2>2. x \in CacheRec /\ In(x, s \ {m})
    BY <2>1
  <2>3. In(step(x, L[m]), s)
    <3> HIDE DEF In, L
    <3> QED
      BY <1>3, <2>2, Zenon
  <2>4. F[<<x, L[m]>>] = step(x, L[m])
    BY <2>1, <2>2
  <2>5. step(x, L[m]) \in {y \in CacheRec : In(y, s)}
    BY <2>3
  <2> HIDE DEF In, F, L, step
  <2> QED
    BY <2>4, <2>5
<1>5. PICK g \in [SUBSET DOMAIN L -> CacheRec] :
        IsFold(g, F, c, L) /\ \A s \in SUBSET DOMAIN L : g[s] \in J[s]
  <2>1. \A s \in SUBSET DOMAIN L : J[s] \subseteq CacheRec
    OBVIOUS
  <2>2. \A s \in SUBSET DOMAIN L :
          s # {} /\ Max(s) \in s => \A x \in J[s \ {Max(s)}] : F[<<x, L[Max(s)]>>] \in J[s]
    BY <1>4
  <2> HIDE DEF F, J, L
  <2> QED
    BY <1>1, <1>2, <2>1, <2>2, FoldReach
<1>6. Eq(h)
  <2>1. ASSUME NEW s \in SUBSET DOMAIN L
        PROVE  g[s] = IF s = {} THEN c ELSE step(g[s \ {Max(s)}], L[Max(s)])
    <3> HIDE DEF F, J, L
    <3>1. CASE s = {}
      BY <1>5, <3>1 DEF IsFold
    <3>2. CASE s # {}
      <4>1. g[s] = F[<<g[s \ {Max(s)}], L[Max(s)]>>]
        BY <1>5, <3>2 DEF IsFold
      <4>2. Max(s) \in s /\ s \ {Max(s)} \in SUBSET DOMAIN L
        BY <1>1, <3>2, MaxPosition
      <4> QED
        BY <1>4, <1>5, <3>2, <4>1, <4>2
    <3> QED
      BY <3>1, <3>2
  <2>2. Eq(g)
    BY <1>5, <2>1
  <2> HIDE DEF Eq
  <2> QED
    BY <2>2, Zenon
<1>7. FoldLeft(step, c, L) = h[DOMAIN L]
  BY Zenon DEF FoldLeft, MapThenFoldSet
<1> HIDE DEF h
<1>8. h[DOMAIN L] \in J[DOMAIN L]
  <2>1. h[{}] \in J[{}]
    BY <1>2, <1>6
  <2>2. ASSUME NEW s \in SUBSET DOMAIN L, s # {}, Max(s) \in s, h[s \ {Max(s)}] \in J[s \ {Max(s)}]
        PROVE  h[s] \in J[s]
    <3>1. h[s] = step(h[s \ {Max(s)}], L[Max(s)])
      BY <1>6, <2>2
    <3> HIDE DEF J, F, L
    <3> QED
      BY <1>4, <2>2, <3>1
  <2>3. \A s \in SUBSET DOMAIN L : h[s] \in J[s]
    <3> HIDE DEF J, L
    <3> QED
      BY <1>1, <2>1, <2>2, FoldKeeps
  <2>4. DOMAIN L \in SUBSET DOMAIN L
    OBVIOUS
  <2> HIDE DEF J, L
  <2> QED
    BY <2>3, <2>4
<1> PICK t : t = DeleteAllPages(c, n)
  OBVIOUS
<1>9. t = h[DOMAIN L]
  BY <1>7, Zenon DEF DeleteAllPages, step
<1>10. In(t, DOMAIN L)
  BY <1>8, <1>9
<1>11. ASSUME NEW p \in Page, Free(t, p)
       PROVE  t.page[p].cn # n
  <2>1. t.page[p] = c.page[p]
    BY <1>10, <1>11 DEF Trimmed, Free, Used, FreePage
  <2>2. Free(c, p)
    BY <1>11, <2>1 DEF Free, Used
  <2> QED
    BY <1>1, <1>10, <2>2
<1>12. Stripped(c, t, n)
  BY <1>10, <1>11 DEF Stripped
<1> QED
  BY <1>12, Zenon

\* One pass of delete_surplus_pages: afterwards the memory suffices or no page
\* of the pass is left.
Done(c, pass) ==
  c.memory <= c.limit \/ \A p \in Page : Free(c, p) => ~ Eligible(c, p, pass)

LEMMA EligibleSame ==
  ASSUME NEW c, NEW d, Good(c), Trimmed(c, d), NEW p \in Page, Free(d, p), NEW pass
  PROVE  Free(c, p) /\ d.page[p] = c.page[p] /\ (Eligible(d, p, pass) <=> Eligible(c, p, pass))
<1>1. d.page[p] = c.page[p]
  BY DEF Trimmed, Free, Used, FreePage
<1>2. Free(c, p)
  BY <1>1 DEF Free, Used
<1>3. c.page[p].cn \in Network
  BY <1>2, FreeIsOK DEF Good
<1>4. d.net[c.page[p].cn].ref = c.net[c.page[p].cn].ref
  BY <1>3 DEF Trimmed
<1> QED
  BY <1>1, <1>2, <1>4 DEF Eligible

LEMMA DoneStays ==
  ASSUME NEW c, NEW d, Good(c), Trimmed(c, d), NEW pass, Done(c, pass)
  PROVE  Done(d, pass)
<1>1. /\ d.memory <= c.memory /\ d.limit = c.limit
      /\ d.memory \in Nat /\ c.memory \in Nat /\ c.limit \in Nat
  BY GoodTypes DEF Trimmed
<1>2. CASE c.memory <= c.limit
  BY <1>1, <1>2 DEF Done
<1>3. CASE \A p \in Page : Free(c, p) => ~ Eligible(c, p, pass)
  BY <1>3, EligibleSame DEF Done
<1> QED
  BY <1>2, <1>3 DEF Done

\* A pass gives up only pages it is about, and only for want of memory.
Sparing(c, d, pass) ==
  \A p \in Page : d.page[p] = c.page[p] \/ (c.memory > c.limit /\ Eligible(c, p, pass))

LEMMA DeletePassGood ==
  ASSUME NEW c, Good(c), NEW pass
  PROVE  /\ Trimmed(c, DeletePass(c, pass)) /\ Done(DeletePass(c, pass), pass)
         /\ Sparing(c, DeletePass(c, pass), pass)
<1> DEFINE L    == c.priority
           step(d, p) == IF d.memory > d.limit /\ Eligible(d, p, pass)
                         THEN DeletePage(d, p) ELSE d
           F    == [x \in CacheRec \X Page |-> step(x[1], x[2])]
           Past(d, i) == d.memory <= d.limit \/ ~ Free(d, L[i]) \/ ~ Eligible(d, L[i], pass)
           In(d, s) == /\ d \in CacheRec /\ Trimmed(c, d)
                       /\ \A i \in DOMAIN L \ s : d.page[L[i]] = c.page[L[i]]
                       /\ \A i \in s : Past(d, i)
                       /\ Sparing(c, d, pass)
           J    == [s \in SUBSET DOMAIN L |-> {d \in CacheRec : In(d, s)}]
           Eq(g) == g = [s \in SUBSET DOMAIN L |->
                          IF s = {} THEN c ELSE step(g[s \ {Max(s)}], L[Max(s)])]
           h     == CHOOSE g : Eq(g)
<1>1. /\ L \in Seq(Page) /\ IsInjective(L) /\ c \in CacheRec
      /\ \A i \in DOMAIN L : L[i] \in Page /\ Free(c, L[i])
      /\ \A p \in Page : Free(c, p) => \E i \in DOMAIN L : p = L[i]
  BY OnPriority DEF Good, Lists
<1>2. c \in J[{}]
  BY <1>1, TrimmedSame DEF Sparing
<1>3. ASSUME NEW s \in SUBSET DOMAIN L, NEW m \in s, NEW x, In(x, s \ {m})
      PROVE  In(step(x, L[m]), s)
  <2>1. PICK p : p = L[m]
    OBVIOUS
  <2>2. /\ p \in Page /\ m \in DOMAIN L /\ x.page[p] = c.page[p] /\ Free(c, p)
        /\ \A i \in DOMAIN L \ {m} : L[i] # p
    BY <1>1, <1>3, <2>1 DEF IsInjective
  <2>3. Free(x, p) /\ Good(x) /\ x.memory \in Int /\ x.limit \in Int
    <3>1. Free(x, p) /\ Good(x)
      BY <1>3, <2>2 DEF Free, Used, Trimmed
    <3>2. x.memory \in Int /\ x.limit \in Int
      BY <3>1, GoodTypes
    <3> QED
      BY <3>1, <3>2
  <2>4. CASE x.memory > x.limit /\ Eligible(x, p, pass)
    <3>1. PICK d : d = DeletePage(x, p)
      OBVIOUS
    <3>2. /\ Trimmed(x, d) /\ ~ Used(d, p)
          /\ \A q \in Page \ {p} : d.page[q] = x.page[q]
      BY <2>2, <2>3, <3>1, DeletePageGood, Zenon
    <3>3. Trimmed(c, d)
      BY <1>3, <3>2, TrimmedTwice, Zenon
    <3>4. d \in CacheRec
      BY <3>3 DEF Trimmed, Good, Lists
    <3>5. \A i \in DOMAIN L \ s : d.page[L[i]] = c.page[L[i]]
      BY <1>1, <1>3, <2>2, <3>2
    <3>6. ASSUME NEW i \in s
          PROVE  Past(d, i)
      <4>1. CASE i = m
        BY <2>1, <3>2, <4>1 DEF Free
      <4>2. CASE i # m
        <5>1. Past(x, i) /\ L[i] \in Page
          BY <1>1, <1>3, <4>2
        <5>2. ~ Free(x, L[i]) \/ ~ Eligible(x, L[i], pass)
          BY <2>3, <2>4, <5>1
        <5>3. Free(d, L[i]) => (Free(x, L[i]) /\ (Eligible(d, L[i], pass) <=> Eligible(x, L[i], pass)))
          BY <2>3, <3>2, <5>1, EligibleSame
        <5> QED
          BY <5>2, <5>3
      <4> QED
        BY <4>1, <4>2
    <3>7. step(x, L[m]) = d
      BY <2>1, <2>4, <3>1
    <3>8. Sparing(c, d, pass)
      <4>1. c.memory > c.limit
        <5>1. x.memory <= c.memory /\ x.limit = c.limit /\ c.memory \in Int
          BY <1>3, GoodTypes DEF Trimmed
        <5> QED
          BY <2>3, <2>4, <5>1
      <4>2. Eligible(c, p, pass)
        BY <1>3, <2>2, <2>3, <2>4, EligibleSame
      <4> QED
        BY <1>3, <3>2, <4>1, <4>2 DEF Sparing
    <3> HIDE DEF step, L, Past
    <3> QED
      BY <3>3, <3>4, <3>5, <3>6, <3>7, <3>8
  <2>5. CASE ~ (x.memory > x.limit /\ Eligible(x, p, pass))
    <3>1. step(x, L[m]) = x
      BY <2>1, <2>5
    <3>2. \A i \in s : Past(x, i)
      BY <1>3, <2>1, <2>3, <2>5
    <3> HIDE DEF step, L, Past
    <3> QED
      BY <1>3, <3>1, <3>2
  <2> QED
    BY <2>4, <2>5
<1> HIDE DEF Past
<1> HIDE DEF step
<1>4. ASSUME NEW s \in SUBSET DOMAIN L, NEW m \in s, NEW x \in J[s \ {m}]
      PROVE  F[<<x, L[m]>>] \in J[s] /\ F[<<x, L[m]>>] = step(x, L[m])
  <2>1. s \ {m} \in SUBSET DOMAIN L /\ L[m] \in Page
    BY <1>1
  <2>2. x \in CacheRec /\ In(x, s \ {m})
    BY <2>1
  <2>3. In(step(x, L[m]), s)
    BY <1>3, <2>2
  <2>4. F[<<x, L[m]>>] = step(x, L[m])
    BY <2>1, <2>2
  <2> QED
    BY <2>3, <2>4
<1>5. PICK g \in [SUBSET DOMAIN L -> CacheRec] :
        IsFold(g, F, c, L) /\ \A s \in SUBSET DOMAIN L : g[s] \in J[s]
  <2>1. \A s \in SUBSET DOMAIN L : J[s] \subseteq CacheRec
    OBVIOUS
  <2>2. \A s \in SUBSET DOMAIN L :
          s # {} /\ Max(s) \in s => \A x \in J[s \ {Max(s)}] : F[<<x, L[Max(s)]>>] \in J[s]
    BY <1>4
  <2> HIDE DEF F, J, L
  <2> QED
    BY <1>1, <1>2, <2>1, <2>2, FoldReach
<1>6. Eq(h)
  <2>1. ASSUME NEW s \in SUBSET DOMAIN L
        PROVE  g[s] = IF s = {} THEN c ELSE step(g[s \ {Max(s)}], L[Max(s)])
    <3> HIDE DEF F, J, L
    <3>1. CASE s = {}
      BY <1>5, <3>1 DEF IsFold
    <3>2. CASE s # {}
      <4>1. g[s] = F[<<g[s \ {Max(s)}], L[Max(s)]>>]
        BY <1>5, <3>2 DEF IsFold
      <4>2. Max(s) \in s /\ s \ {Max(s)} \in SUBSET DOMAIN L
        BY <1>1, <3>2, MaxPosition
      <4> QED
        BY <1>4, <1>5, <3>2, <4>1, <4>2
    <3> QED
      BY <3>1, <3>2
  <2>2. Eq(g)
    BY <1>5, <2>1
  <2> HIDE DEF Eq
  <2> QED
    BY <2>2, Zenon
<1>7. FoldLeft(step, c, L) = h[DOMAIN L]
  BY Zenon DEF FoldLeft, MapThenFoldSet
<1> HIDE DEF h
<1>8. h[DOMAIN L] \in J[DOMAIN L]
  <2>1. h[{}] \in J[{}]
    BY <1>2, <1>6
  <2>2. ASSUME NEW s \in SUBSET DOMAIN L, s # {}, Max(s) \in s, h[s \ {Max(s)}] \in J[s \ {Max(s)}]
        PROVE  h[s] \in J[s]
    <3>1. h[s] = step(h[s \ {Max(s)}], L[Max(s)])
      BY <1>6, <2>2
    <3> HIDE DEF J, F, L
    <3> QED
      BY <1>4, <2>2, <3>1
  <2>3. \A s \in SUBSET DOMAIN L : h[s] \in J[s]
    <3> HIDE DEF J, L
    <3> QED
      BY <1>1, <2>1, <2>2, FoldKeeps
  <2>4. DOMAIN L \in SUBSET DOMAIN L
    OBVIOUS
  <2> HIDE DEF J, L
  <2> QED
    BY <2>3, <2>4
<1>9. PICK d : d = DeletePass(c, pass)
  OBVIOUS
<1>10. d = h[DOMAIN L]
  BY <1>7, <1>9, Zenon DEF DeletePass, step
<1>11. In(d, DOMAIN L)
  BY <1>8, <1>10
<1>12. ASSUME ~ (d.memory <= d.limit), NEW p \in Page, Free(d, p)
       PROVE  ~ Eligible(d, p, pass)
  <2>1. Free(c, p)
    BY <1>11, <1>12, EligibleSame
  <2>2. PICK i \in DOMAIN L : p = L[i]
    BY <1>1, <2>1
  <2>3. Past(d, i)
    BY <1>11
  <2> QED
    BY <1>12, <2>2, <2>3 DEF Past
<1>13. Done(d, pass)
  BY <1>12 DEF Done
<1> QED
  BY <1>9, <1>11, <1>13

\* After all passes no page is left, or the limit holds.
LEMMA NothingFree ==
  ASSUME NEW c, Good(c), \A p \in Page : ~ Free(c, p)
  PROVE  c.memory = 0
<1>1. Bytes(c) = {}
  BY DEF Bytes
<1>2. c.memory = Cardinality(Bytes(c))
  BY DEF Good, Counts
<1>3. Cardinality(Bytes(c)) = 0
  BY <1>1, FS_EmptySet
<1> QED
  BY <1>2, <1>3

\* A page of a network in use, or of one nobody uses, that may be given up;
\* d has those of c that are of a network in use.
InUse(c, p) == Free(c, p) /\ c.net[c.page[p].cn].ref > 0
IdlePage(c, p) == Free(c, p) /\ c.net[c.page[p].cn].ref = 0
NoneIdle(c) == \A p \in Page : ~ IdlePage(c, p)
Spares(c, d) == \A p \in Page : InUse(c, p) => d.page[p] = c.page[p]

LEMMA InUseIs ==
  ASSUME NEW c, Good(c), NEW p \in Page, Free(c, p)
  PROVE  InUse(c, p) <=> ~ IdlePage(c, p)
<1>1. c.page[p].cn \in Network /\ c \in CacheRec
  BY FreeIsOK, GoodTypes DEF Good
<1>2. c.net[c.page[p].cn].ref \in Nat
  BY <1>1 DEF CacheRec, NetRec
<1> QED
  BY <1>2 DEF InUse, IdlePage

LEMMA NoneIdleStays ==
  ASSUME NEW c, Good(c), NEW d, Trimmed(c, d), NoneIdle(c)
  PROVE  NoneIdle(d)
<1> SUFFICES ASSUME NEW p \in Page, IdlePage(d, p)
             PROVE  FALSE
  BY DEF NoneIdle
<1>1. Free(d, p)
  BY DEF IdlePage
<1>2. d.page[p] = c.page[p] /\ Free(c, p)
  BY <1>1 DEF Trimmed, Free, Used, FreePage
<1>3. c.page[p].cn \in Network
  BY <1>2, FreeIsOK DEF Good
<1>4. d.net[c.page[p].cn].ref = c.net[c.page[p].cn].ref
  BY <1>3 DEF Trimmed
<1> QED
  BY <1>2, <1>4 DEF NoneIdle, IdlePage

\* A pass over the pages of networks nobody uses spares the others; when the
\* memory still does not suffice after both of them no page is left that one
\* of them is about.
LEMMA IdlePassSpares ==
  ASSUME NEW c, Good(c), NEW x, Trimmed(c, x), Spares(c, x), NEW pass, pass.idle,
         NEW d, Sparing(x, d, pass)
  PROVE  Spares(c, d)
<1> SUFFICES ASSUME NEW p \in Page, InUse(c, p)
             PROVE  d.page[p] = c.page[p]
  BY DEF Spares
<1>1. Free(c, p) /\ c.page[p].cn \in Network /\ x.page[p] = c.page[p]
  BY FreeIsOK DEF InUse, Good, Spares
<1>2. x.net[x.page[p].cn].ref > 0
  BY <1>1 DEF Trimmed, InUse
<1>3. ~ (x.net[x.page[p].cn].ref = 0)
  BY <1>2
<1> QED
  BY <1>1, <1>3 DEF Sparing, Eligible

LEMMA IdlePassesDone ==
  ASSUME NEW c, Good(c), ~ (c.memory <= c.limit), NEW a, NEW b, Done(c, a), Done(c, b),
         a = [pri |-> "normal", idle |-> TRUE], b = [pri |-> "special", idle |-> TRUE]
  PROVE  NoneIdle(c)
<1> SUFFICES ASSUME NEW p \in Page, IdlePage(c, p)
             PROVE  FALSE
  BY DEF NoneIdle
<1>1. Free(c, p) /\ c.net[c.page[p].cn].ref = 0
  BY DEF IdlePage
<1>2. ~ Eligible(c, p, a) /\ ~ Eligible(c, p, b)
  BY <1>1 DEF Done
<1>3. c.page[p].kind.pri # "normal" /\ c.page[p].kind.pri # "special"
  BY <1>1, <1>2 DEF Eligible
<1>4. c.page[p].kind \in Kind
  BY <1>1, FreeIsOK DEF Good
<1> QED
  BY <1>3, <1>4, CacheAssumption

\* The passes are taken one after the other.
LEMMA LastPass ==
  ASSUME NEW s \in SUBSET (1 .. 4), s # {}
  PROVE  Max(s) \in s /\ \A i \in s : i <= Max(s)
<1>1. \E m \in s : \A i \in s : m >= i
  <2>1. CASE 4 \in s
    BY <2>1
  <2>2. CASE 4 \notin s /\ 3 \in s
    BY <2>2
  <2>3. CASE 4 \notin s /\ 3 \notin s /\ 2 \in s
    BY <2>3
  <2>4. CASE 4 \notin s /\ 3 \notin s /\ 2 \notin s
    <3>1. \A i \in s : i = 1
      BY <2>4
    <3>2. PICK e \in s : TRUE
      OBVIOUS
    <3> QED
      BY <3>1, <3>2
  <2> QED
    BY <2>1, <2>2, <2>3, <2>4
<1>2. Max(s) \in s /\ \A i \in s : Max(s) >= i
  BY <1>1, Zenon DEF Max
<1> QED
  BY <1>2

Passes == [pri : {"normal", "special"}, idle : BOOLEAN]

LEMMA DeleteSurplusPagesGood ==
  ASSUME NEW c, Good(c)
  PROVE  /\ Trimmed(c, DeleteSurplusPages(c))
         /\ DeleteSurplusPages(c).memory <= DeleteSurplusPages(c).limit
         /\ Spares(c, DeleteSurplusPages(c)) \/ NoneIdle(DeleteSurplusPages(c))
<1> DEFINE L    == PagePasses
           F    == [x \in CacheRec \X Passes |-> DeletePass(x[1], x[2])]
           In(d, s) == /\ d \in CacheRec /\ Trimmed(c, d) /\ \A i \in s : Done(d, L[i])
                       /\ s \subseteq {1, 2} => Spares(c, d)
                       /\ 1 \in s /\ 2 \in s => Spares(c, d) \/ NoneIdle(d)
           J    == [s \in SUBSET DOMAIN L |-> {d \in CacheRec : In(d, s)}]
           Eq(g) == g = [s \in SUBSET DOMAIN L |->
                          IF s = {} THEN c ELSE DeletePass(g[s \ {Max(s)}], L[Max(s)])]
           h     == CHOOSE g : Eq(g)
<1>1. /\ L \in Seq(Passes) /\ c \in CacheRec
      /\ \A i \in DOMAIN L : L[i] \in Passes
      /\ DOMAIN L = 1 .. 4
      /\ L[1] = [pri |-> "normal", idle |-> TRUE] /\ L[2] = [pri |-> "special", idle |-> TRUE]
      /\ L[3] = [pri |-> "normal", idle |-> FALSE] /\ L[4] = [pri |-> "special", idle |-> FALSE]
  <2>1. PICK a \in Passes : a = [pri |-> "normal", idle |-> FALSE]
    BY DEF Passes
  <2>2. PICK b \in Passes : b = [pri |-> "special", idle |-> FALSE]
    BY DEF Passes
  <2>3. PICK e \in Passes : e = [pri |-> "normal", idle |-> TRUE]
    BY DEF Passes
  <2>4. PICK f \in Passes : f = [pri |-> "special", idle |-> TRUE]
    BY DEF Passes
  <2>5. L = <<e, f, a, b>>
    BY <2>1, <2>2, <2>3, <2>4 DEF PagePasses
  <2>6. /\ L \in Seq(Passes) /\ \A i \in DOMAIN L : L[i] \in Passes
        /\ DOMAIN L = 1 .. 4 /\ L[1] = e /\ L[2] = f /\ L[3] = a /\ L[4] = b
    BY <2>5
  <2>7. c \in CacheRec
    BY GoodTypes
  <2> QED
    BY <2>1, <2>2, <2>3, <2>4, <2>6, <2>7
<1>2. c \in J[{}]
  BY <1>1, TrimmedSame DEF Spares
<1>3. ASSUME NEW s \in SUBSET DOMAIN L, NEW m \in s, \A i \in s : i <= m,
             NEW x, In(x, s \ {m})
      PROVE  In(DeletePass(x, L[m]), s)
  <2>1. PICK d : d = DeletePass(x, L[m])
    OBVIOUS
  <2>2. Good(x)
    BY <1>3 DEF Trimmed
  <2>3. Trimmed(x, d) /\ Done(d, L[m]) /\ Sparing(x, d, L[m])
    BY <2>1, <2>2, DeletePassGood, Zenon
  <2>4. Trimmed(c, d) /\ d \in CacheRec
    BY <1>3, <2>3, TrimmedTwice, GoodTypes DEF Trimmed
  <2>5. \A i \in s : Done(d, L[i])
    BY <1>3, <2>2, <2>3, DoneStays
  <2>6. CASE m = 1 \/ m = 2
    <3>1. s \subseteq {1, 2} /\ s \ {m} \subseteq {1, 2} /\ L[m].idle
      BY <1>1, <1>3, <2>6
    <3>2. Spares(c, d)
      BY <1>3, <2>3, <3>1, IdlePassSpares
    <3> QED
      BY <2>1, <2>4, <2>5, <3>2, Zenon
  <2>7. CASE m = 3 \/ m = 4
    <3>1. ~ (s \subseteq {1, 2}) /\ (1 \in s => 1 \in s \ {m}) /\ (2 \in s => 2 \in s \ {m})
      BY <2>7
    <3>2. ASSUME 1 \in s, 2 \in s
          PROVE  Spares(c, d) \/ NoneIdle(d)
      <4>1. /\ Spares(c, x) \/ NoneIdle(x)
            /\ Done(x, L[1]) /\ Done(x, L[2])
        BY <1>3, <3>1, <3>2
      <4>2. CASE NoneIdle(x)
        BY <2>2, <2>3, <4>2, NoneIdleStays
      <4>3. CASE Spares(c, x) /\ x.memory <= x.limit
        <5>1. \A p \in Page : d.page[p] = x.page[p]
          BY <2>2, <2>3, <4>3, GoodTypes DEF Sparing
        <5> QED
          BY <4>3, <5>1 DEF Spares
      <4>4. CASE ~ (x.memory <= x.limit)
        <5>1. NoneIdle(x)
          BY <1>1, <2>2, <4>1, <4>4, IdlePassesDone
        <5> QED
          BY <2>2, <2>3, <5>1, NoneIdleStays
      <4> QED
        BY <4>1, <4>2, <4>3, <4>4
    <3> QED
      BY <2>1, <2>4, <2>5, <3>1, <3>2, Zenon
  <2> QED
    BY <1>1, <2>6, <2>7
<1>4. ASSUME NEW s \in SUBSET DOMAIN L, NEW m \in s, \A i \in s : i <= m,
             NEW x \in J[s \ {m}]
      PROVE  F[<<x, L[m]>>] \in J[s] /\ F[<<x, L[m]>>] = DeletePass(x, L[m])
  <2>1. s \ {m} \in SUBSET DOMAIN L /\ L[m] \in Passes
    BY <1>1
  <2>2. x \in CacheRec /\ In(x, s \ {m})
    BY <2>1
  <2>3. In(DeletePass(x, L[m]), s)
    BY <1>3, <1>4, <2>2
  <2>4. F[<<x, L[m]>>] = DeletePass(x, L[m])
    BY <2>1, <2>2
  <2> QED
    BY <2>3, <2>4
<1>5. PICK g \in [SUBSET DOMAIN L -> CacheRec] :
        IsFold(g, F, c, L) /\ \A s \in SUBSET DOMAIN L : g[s] \in J[s]
  <2>1. \A s \in SUBSET DOMAIN L : J[s] \subseteq CacheRec
    OBVIOUS
  <2>2. \A s \in SUBSET DOMAIN L :
          s # {} /\ Max(s) \in s => \A x \in J[s \ {Max(s)}] : F[<<x, L[Max(s)]>>] \in J[s]
    BY <1>1, <1>4, LastPass
  <2> HIDE DEF F, J, L
  <2> QED
    BY <1>1, <1>2, <2>1, <2>2, FoldReach
<1>6. Eq(h)
  <2>1. ASSUME NEW s \in SUBSET DOMAIN L
        PROVE  g[s] = IF s = {} THEN c ELSE DeletePass(g[s \ {Max(s)}], L[Max(s)])
    <3> HIDE DEF F, J, L
    <3>1. CASE s = {}
      BY <1>5, <3>1 DEF IsFold
    <3>2. CASE s # {}
      <4>1. g[s] = F[<<g[s \ {Max(s)}], L[Max(s)]>>]
        BY <1>5, <3>2 DEF IsFold
      <4>2. Max(s) \in s /\ s \ {Max(s)} \in SUBSET DOMAIN L /\ \A i \in s : i <= Max(s)
        BY <1>1, <3>2, LastPass
      <4> QED
        BY <1>4, <1>5, <3>2, <4>1, <4>2
    <3> QED
      BY <3>1, <3>2
  <2>2. Eq(g)
    BY <1>5, <2>1
  <2> HIDE DEF Eq
  <2> QED
    BY <2>2, Zenon
<1>7. FoldLeft(DeletePass, c, L) = h[DOMAIN L]
  BY Zenon DEF FoldLeft, MapThenFoldSet
<1> HIDE DEF h
<1>8. h[DOMAIN L] \in J[DOMAIN L]
  <2>1. h[{}] \in J[{}]
    BY <1>2, <1>6
  <2>2. ASSUME NEW s \in SUBSET DOMAIN L, s # {}, Max(s) \in s, h[s \ {Max(s)}] \in J[s \ {Max(s)}]
        PROVE  h[s] \in J[s]
    <3>1. h[s] = DeletePass(h[s \ {Max(s)}], L[Max(s)])
      BY <1>6, <2>2
    <3> HIDE DEF J, F, L
    <3> QED
      BY <1>1, <1>4, <2>2, <3>1, LastPass
  <2>3. \A s \in SUBSET DOMAIN L : h[s] \in J[s]
    <3> HIDE DEF J, L
    <3> QED
      BY <1>1, <2>1, <2>2, FoldKeeps
  <2>4. DOMAIN L \in SUBSET DOMAIN L
    OBVIOUS
  <2> HIDE DEF J, L
  <2> QED
    BY <2>3, <2>4
<1>9. PICK d : d = DeleteSurplusPages(c)
  OBVIOUS
<1>10. d = h[DOMAIN L]
  BY <1>7, <1>9, Zenon DEF DeleteSurplusPages
<1>11. In(d, DOMAIN L)
  BY <1>8, <1>10
<1>12. Good(d) /\ d.memory \in Nat /\ d.limit \in Nat
  BY <1>11, GoodTypes DEF Trimmed
<1>13. ASSUME ~ (d.memory <= d.limit)
       PROVE  FALSE
  <2>1. Done(d, L[3]) /\ Done(d, L[4])
    <3>1. 3 \in DOMAIN L /\ 4 \in DOMAIN L
      BY <1>1
    <3>2. \A i \in DOMAIN L : Done(d, L[i])
      BY <1>11
    <3> HIDE DEF L
    <3> QED
      BY <3>1, <3>2
  <2>2. ASSUME NEW p \in Page, Free(d, p)
        PROVE  FALSE
    <3>1. ~ Eligible(d, p, L[3]) /\ ~ Eligible(d, p, L[4])
      BY <1>13, <2>1, <2>2 DEF Done
    <3>2. d.page[p].kind.pri # "normal" /\ d.page[p].kind.pri # "special"
      BY <1>1, <3>1 DEF Eligible
    <3>3. d.page[p].kind \in Kind
      BY <1>12, <2>2, FreeIsOK DEF Good
    <3> QED
      BY <3>2, <3>3, CacheAssumption
  <2>3. d.memory = 0
    BY <1>12, <2>2, NothingFree
  <2> QED
    BY <1>12, <1>13, <2>3
<1>14. Spares(c, d) \/ NoneIdle(d)
  BY <1>1, <1>11
<1> QED
  BY <1>9, <1>11, <1>13, <1>14

-----------------------------------------------------------------------------
(* Networks. *)

\* d is c without some of the networks nobody uses and of the pages nobody holds.
Pruned(c, d) ==
  /\ Good(d)
  /\ d.limit = c.limit /\ d.nlimit = c.nlimit /\ d.open = c.open
  /\ d.memory <= c.memory
  /\ Range(d.networks) \subseteq Range(c.networks)
  /\ \A n \in Range(d.networks) : d.net[n].ref = c.net[n].ref /\ d.net[n].nref = c.net[n].nref
  /\ \A p \in Page : \/ d.page[p] = c.page[p]
                     \/ Free(c, p) /\ d.page[p] = FreePage

LEMMA PrunedSame ==
  ASSUME NEW c, Good(c)
  PROVE  Pruned(c, c)
<1>1. c.memory \in Int
  BY GoodTypes
<1> QED
  BY <1>1 DEF Pruned

LEMMA PrunedTwice ==
  ASSUME NEW c, NEW d, NEW e, Good(c), Pruned(c, d), Pruned(d, e)
  PROVE  Pruned(c, e)
<1>1. c.memory \in Int /\ d.memory \in Int /\ e.memory \in Int
  BY GoodTypes DEF Pruned
<1>2. d.memory <= c.memory /\ e.memory <= d.memory
  BY DEF Pruned
<1>3. e.memory <= c.memory
  BY <1>1, <1>2
<1>4. ASSUME NEW p \in Page
      PROVE  \/ e.page[p] = c.page[p]
             \/ Free(c, p) /\ e.page[p] = FreePage
  <2>1. d.page[p] = c.page[p] \/ (Free(c, p) /\ d.page[p] = FreePage)
    BY DEF Pruned
  <2>2. e.page[p] = d.page[p] \/ (Free(d, p) /\ e.page[p] = FreePage)
    BY DEF Pruned
  <2>3. d.page[p] = FreePage => ~ Free(d, p)
    BY DEF Free, Used, FreePage
  <2>4. d.page[p] = c.page[p] => (Free(d, p) <=> Free(c, p))
    BY DEF Free, Used
  <2> QED
    BY <2>1, <2>2, <2>3, <2>4
<1>5. /\ Range(e.networks) \subseteq Range(c.networks)
      /\ \A n \in Range(e.networks) : e.net[n].ref = c.net[n].ref /\ e.net[n].nref = c.net[n].nref
  BY DEF Pruned
<1>6. e.limit = c.limit /\ e.nlimit = c.nlimit /\ e.open = c.open /\ Good(e)
  BY DEF Pruned
<1> QED
  BY <1>3, <1>4, <1>5, <1>6 DEF Pruned

\* delete_network: the network is left without pages nobody holds, and is gone
\* unless it is still referenced; the others are as they were.
Dropped(c, d, n) ==
  /\ Pruned(c, d)
  /\ \A p \in Page : Free(d, p) => d.page[p].cn # n
  /\ \A p \in Page : c.page[p].cn # n => d.page[p] = c.page[p]
  /\ n \in Range(d.networks) => Referenced(d, n)
  /\ \A m \in Network \ {n} : /\ m \in Range(d.networks) <=> m \in Range(c.networks)
                              /\ d.net[m].ref = c.net[m].ref
                              /\ d.net[m].nref = c.net[m].nref
                              /\ d.net[m].zombie = c.net[m].zombie

LEMMA DeleteNetworkGood ==
  ASSUME NEW c, Good(c), NEW n \in Range(c.networks)
  PROVE  Dropped(c, DeleteNetwork(c, n), n)
<1>1. PICK t : t = DeleteAllPages(c, n)
  OBVIOUS
<1>2. PICK k : k = IF t.net[n].zombie THEN t.cached ELSE t.cached - 1
  OBVIOUS
<1>3. PICK e : e = [t EXCEPT !.cached = k]
  OBVIOUS
<1>4. PICK d : d = DeleteNetwork(c, n)
  OBVIOUS
<1>5. /\ n \in Network /\ c.networks \in Seq(Network) /\ c \in CacheRec /\ Lists(c)
      /\ Range(c.networks) \subseteq Network
  BY GoodTypes DEF Range, Good
<1>6. /\ Trimmed(c, t) /\ \A p \in Page : Free(t, p) => t.page[p].cn # n
      /\ \A p \in Page : c.page[p].cn # n => t.page[p] = c.page[p]
  <2>1. Stripped(c, DeleteAllPages(c, n), n)
    BY <1>5, DeleteAllPagesGood, Zenon
  <2>2. Stripped(c, t, n)
    BY <1>1, <2>1, Zenon
  <2> QED
    BY <2>2 DEF Stripped
<1>7. /\ Good(t) /\ Lists(t) /\ Counts(t) /\ t \in CacheRec /\ t.networks = c.networks
      /\ t.cached = c.cached /\ t.limit = c.limit /\ t.nlimit = c.nlimit /\ t.open = c.open
      /\ t.memory <= c.memory
      /\ \A m \in Network : /\ t.net[m].ref = c.net[m].ref /\ t.net[m].nref = c.net[m].nref
                            /\ t.net[m].zombie = c.net[m].zombie
  BY <1>6, GoodTypes DEF Trimmed, Good
<1>8. d = Unlist(e, n)
  <2>1. c.net[n].zombie = t.net[n].zombie
    BY <1>5, <1>7
  <2>2. DeleteNetwork(c, n)
          = Unlist([t EXCEPT !.cached = IF c.net[n].zombie THEN @ ELSE @ - 1], n)
    BY <1>1, Zenon DEF DeleteNetwork
  <2>3. e = [t EXCEPT !.cached = IF c.net[n].zombie THEN t.cached ELSE t.cached - 1]
    BY <1>2, <1>3, <2>1
  <2> QED
    BY <1>4, <2>2, <2>3, Zenon
<1>9. /\ e.networks = t.networks /\ e.net = t.net /\ e.page = t.page /\ e.hash = t.hash
      /\ e.priority = t.priority /\ e.memory = t.memory /\ e.cached = k /\ e.npages = t.npages
      /\ e.limit = t.limit /\ e.nlimit = t.nlimit /\ e.open = t.open
      /\ e \in CacheRec
  <2>1. k \in Int
    BY <1>2, <1>7, GoodTypes
  <2> QED
    BY <1>3, <1>7, <2>1 DEF CacheRec
<1>10. Referenced(e, n) <=> (t.net[n].ref > 0 \/ t.net[n].nref > 0)
  BY <1>9 DEF Referenced
<1>11. /\ IsFiniteSet(Counted(t)) /\ t.cached = Cardinality(Counted(t))
  BY <1>7, FiniteCounts DEF Counts
<1>12. n \in Counted(t) <=> ~ t.net[n].zombie
  BY <1>7 DEF Counted
<1>13. k = Cardinality(Counted(t) \ {n})
  BY <1>2, <1>11, <1>12, CountRemoved
<1>14. t.net \in [Network -> NetRec] /\ t.net[n] \in NetRec
  BY <1>5, <1>7 DEF CacheRec
<1>15. CASE Referenced(e, n)
  <2>1. d = [e EXCEPT !.net[n].zombie = TRUE]
    BY <1>8, <1>15 DEF Unlist
  <2>2. /\ d.networks = t.networks /\ d.page = t.page /\ d.hash = t.hash
        /\ d.priority = t.priority /\ d.memory = t.memory /\ d.cached = k /\ d.npages = t.npages
        /\ d.limit = t.limit /\ d.nlimit = t.nlimit /\ d.open = t.open
        /\ d.net = [t.net EXCEPT ![n].zombie = TRUE]
    BY <1>9, <2>1 DEF CacheRec
  <2>3. PICK x : x = [t.net[n] EXCEPT !.zombie = TRUE]
    OBVIOUS
  <2>4. /\ x \in NetRec /\ x.ref = t.net[n].ref /\ x.nref = t.net[n].nref
        /\ x.npages = t.net[n].npages /\ x.zombie = TRUE
    BY <1>14, <2>3 DEF NetRec
  <2>5. d.net = [t.net EXCEPT ![n] = x]
    BY <2>2, <2>3, Zenon
  <2>6. /\ d.net \in [Network -> NetRec] /\ d.net[n] = x
        /\ \A m \in Network \ {n} : d.net[m] = t.net[m]
    BY <1>5, <1>14, <2>4, <2>5
  <2>7. d \in CacheRec
    BY <1>9, <2>1, <2>2, <2>6 DEF CacheRec
  <2>8. \A p \in Page : Free(d, p) <=> Free(t, p)
    BY <2>2 DEF Free, Used
  <2>9. Lists(d)
    <3>1. \A p \in Page : PageOK(d, p)
      BY <1>7, <2>2 DEF Lists, PageOK
    <3>2. \A g \in Pgno, p \in Page : OnHash(d, p, g) <=> OnHash(t, p, g)
      BY <2>2 DEF OnHash, Used
    <3>3. \A m \in Network : m \notin Range(d.networks) => d.net[m] = FreeNet
      BY <1>7, <2>2, <2>6 DEF Lists
    <3> QED
      BY <1>7, <2>2, <2>7, <2>8, <3>1, <3>2, <3>3 DEF Lists
  <2>10. Counted(d) = Counted(t) \ {n}
    BY <1>5, <1>7, <2>2, <2>4, <2>6 DEF Counted, Range
  <2>11. /\ Live(d) = Live(t) /\ Bytes(d) = Bytes(t)
         /\ \A m \in Network : Held(d, m) = Held(t, m) /\ Of(d, m) = Of(t, m)
    BY <2>2 DEF Live, Bytes, Held, Of, Free, Used
  <2>12. Counts(d)
    BY <1>7, <1>13, <2>2, <2>4, <2>6, <2>10, <2>11 DEF Counts
  <2>13. Good(d)
    BY <2>9, <2>12 DEF Good
  <2>14. \A p \in Page : \/ d.page[p] = c.page[p]
                         \/ Free(c, p) /\ d.page[p] = FreePage
    BY <1>6, <2>2 DEF Trimmed
  <2>15. \A m \in Network : d.net[m].ref = c.net[m].ref /\ d.net[m].nref = c.net[m].nref
    BY <1>7, <2>4, <2>6
  <2>16. Pruned(c, d)
    <3>1. Range(d.networks) \subseteq Network
      BY <1>5, <1>7, <2>2 DEF Range
    <3> QED
      BY <1>7, <2>2, <2>13, <2>14, <2>15, <3>1 DEF Pruned
  <2>17. \A p \in Page : Free(d, p) => d.page[p].cn # n
    BY <1>6, <2>2, <2>8
  <2>18. Referenced(d, n)
    BY <1>10, <1>15, <2>4, <2>6 DEF Referenced
  <2>19. \A m \in Network \ {n} : /\ m \in Range(d.networks) <=> m \in Range(c.networks)
                                  /\ d.net[m].ref = c.net[m].ref
                                  /\ d.net[m].nref = c.net[m].nref
                                  /\ d.net[m].zombie = c.net[m].zombie
    BY <1>7, <2>2, <2>6
  <2>20. \A p \in Page : c.page[p].cn # n => d.page[p] = c.page[p]
    BY <1>6, <2>2
  <2> QED
    BY <1>4, <2>16, <2>17, <2>18, <2>19, <2>20, Zenon DEF Dropped
<1>16. CASE ~ Referenced(e, n)
  <2>1. d = [e EXCEPT !.networks = RemoveFirst(@, n), !.net[n] = FreeNet]
    BY <1>8, <1>16 DEF Unlist
  <2>2. /\ d.networks = RemoveFirst(t.networks, n) /\ d.page = t.page /\ d.hash = t.hash
        /\ d.priority = t.priority /\ d.memory = t.memory /\ d.cached = k /\ d.npages = t.npages
        /\ d.limit = t.limit /\ d.nlimit = t.nlimit /\ d.open = t.open
        /\ d.net = [t.net EXCEPT ![n] = FreeNet]
    BY <1>9, <2>1 DEF CacheRec
  <2>3. /\ d.networks \in Seq(Network) /\ IsInjective(d.networks)
        /\ Range(d.networks) = Range(t.networks) \ {n}
    BY <1>5, <1>7, <2>2, RemoveFirstDistinct DEF Lists
  <2>4. /\ FreeNet \in NetRec /\ FreeNet.nref = 0 /\ FreeNet.npages = 0
    BY DEF FreeNet, NetRec
  <2>5. /\ d.net \in [Network -> NetRec] /\ d.net[n] = FreeNet
        /\ \A m \in Network \ {n} : d.net[m] = t.net[m]
    BY <1>5, <1>14, <2>2, <2>4
  <2>6. d \in CacheRec
    BY <1>9, <2>1, <2>2, <2>3, <2>5 DEF CacheRec
  <2>7. \A p \in Page : t.page[p].cn # n
    <3>1. ~ (t.net[n].nref > 0) /\ t.net[n].nref \in Int
      BY <1>10, <1>14, <1>16 DEF NetRec
    <3>2. t.net[n].nref = Cardinality(Held(t, n)) /\ IsFiniteSet(Held(t, n))
      BY <1>5, <1>7, FiniteCounts DEF Counts
    <3>3. Cardinality(Held(t, n)) = 0
      BY <3>1, <3>2, FS_CardinalityType
    <3>4. Held(t, n) = {}
      BY <3>2, <3>3, FS_EmptySet
    <3>5. \A p \in Page : t.page[p].cn = n => Free(t, p)
      BY <1>5, <1>7, <3>4, CacheAssumption DEF Held, Free, Used, CacheRec, PageRec
    <3> QED
      BY <1>6, <3>5
  <2>8. \A p \in Page : Free(d, p) <=> Free(t, p)
    BY <2>2 DEF Free, Used
  <2>9. Lists(d)
    <3>1. \A p \in Page : PageOK(d, p)
      BY <1>7, <2>2, <2>3, <2>7 DEF Lists, PageOK
    <3>2. \A g \in Pgno, p \in Page : OnHash(d, p, g) <=> OnHash(t, p, g)
      BY <2>2 DEF OnHash, Used
    <3>3. \A m \in Network : m \notin Range(d.networks) => d.net[m] = FreeNet
      BY <1>7, <2>3, <2>5 DEF Lists
    <3> QED
      BY <1>7, <2>2, <2>3, <2>6, <2>8, <3>1, <3>2, <3>3 DEF Lists
  <2>10. Counted(d) = Counted(t) \ {n}
    BY <1>5, <1>7, <2>3, <2>5 DEF Counted
  <2>11. /\ Live(d) = Live(t) /\ Bytes(d) = Bytes(t)
         /\ \A m \in Network : Held(d, m) = Held(t, m) /\ Of(d, m) = Of(t, m)
    BY <2>2 DEF Live, Bytes, Held, Of, Free, Used
  <2>12. Cardinality(Held(d, n)) = 0 /\ Cardinality(Of(d, n)) = 0
    <3>1. Held(d, n) = {} /\ Of(d, n) = {}
      BY <2>2, <2>7 DEF Held, Of
    <3> QED
      BY <3>1, FS_EmptySet, Zenon
  <2>13. \A m \in Network : /\ d.net[m].nref = Cardinality(Held(d, m))
                            /\ d.net[m].npages = Cardinality(Of(d, m))
    BY <1>7, <2>4, <2>5, <2>11, <2>12 DEF Counts
  <2>14. Counts(d)
    BY <1>7, <1>13, <2>2, <2>10, <2>11, <2>13 DEF Counts
  <2>15. Good(d)
    BY <2>9, <2>14 DEF Good
  <2>16. \A p \in Page : \/ d.page[p] = c.page[p]
                         \/ Free(c, p) /\ d.page[p] = FreePage
    BY <1>6, <2>2 DEF Trimmed
  <2>17. Pruned(c, d)
    <3>1. Range(d.networks) \subseteq Range(c.networks)
      BY <1>7, <2>3
    <3>2. \A m \in Range(d.networks) : d.net[m].ref = c.net[m].ref /\ d.net[m].nref = c.net[m].nref
      BY <1>5, <1>7, <2>3, <2>5
    <3> QED
      BY <1>7, <2>2, <2>15, <2>16, <3>1, <3>2 DEF Pruned
  <2>18. \A p \in Page : Free(d, p) => d.page[p].cn # n
    BY <2>2, <2>7
  <2>19. n \notin Range(d.networks)
    BY <2>3
  <2>20. \A m \in Network \ {n} : /\ m \in Range(d.networks) <=> m \in Range(c.networks)
                                  /\ d.net[m].ref = c.net[m].ref
                                  /\ d.net[m].nref = c.net[m].nref
                                  /\ d.net[m].zombie = c.net[m].zombie
    BY <1>7, <2>3, <2>5
  <2>21. \A p \in Page : c.page[p].cn # n => d.page[p] = c.page[p]
    BY <1>6, <2>2
  <2> QED
    BY <1>4, <2>17, <2>18, <2>19, <2>20, <2>21, Zenon DEF Dropped
<1> QED
  BY <1>15, <1>16

\* A page that is left is as it was.
LEMMA PrunedFree ==
  ASSUME NEW c, NEW d, Pruned(c, d), NEW p \in Page, Free(d, p)
  PROVE  Free(c, p) /\ d.page[p] = c.page[p]
<1>1. d.page[p] = c.page[p]
  BY DEF Pruned, Free, Used, FreePage
<1> QED
  BY <1>1 DEF Free, Used

\* Networks without references are dropped: the pages of the others stay, and so
\* do their references.
LEMMA SparesOn ==
  ASSUME NEW c, NEW d, Pruned(c, d), Spares(c, d), NEW p \in Page, InUse(c, p)
  PROVE  InUse(d, p) /\ d.page[p] = c.page[p]
<1>1. Free(c, p) /\ c.net[c.page[p].cn].ref > 0 /\ d.page[p] = c.page[p]
  BY DEF InUse, Spares
<1>2. Free(d, p) /\ Lists(d)
  BY <1>1 DEF Free, Used, Pruned, Good
<1>3. d.page[p].cn \in Range(d.networks)
  BY <1>2, FreeIsOK
<1> QED
  BY <1>1, <1>2, <1>3 DEF InUse, Pruned

LEMMA DroppedSpares ==
  ASSUME NEW c, NEW d, NEW n, Dropped(c, d, n), ~ (c.net[n].ref > 0)
  PROVE  Spares(c, d)
  BY DEF Dropped, Spares, InUse

LEMMA SparesTwice ==
  ASSUME NEW c, NEW d, NEW e, Pruned(c, d), Spares(c, d), Spares(d, e)
  PROVE  Spares(c, e)
  BY SparesOn DEF Spares

\* delete_surplus_networks: no zombie is left that nobody uses.
Settled(c, n) == n \in Range(c.networks) /\ c.net[n].zombie => Referenced(c, n)

LEMMA DeleteSurplusNetworksGood ==
  ASSUME NEW c, Good(c)
  PROVE  /\ Pruned(c, DeleteSurplusNetworks(c))
         /\ \A n \in Network : Settled(DeleteSurplusNetworks(c), n)
         /\ Spares(c, DeleteSurplusNetworks(c))
<1> DEFINE L    == Reverse(c.networks)
           step(d, n) == IF ~ Referenced(d, n) /\ (d.net[n].zombie \/ d.cached > d.nlimit)
                         THEN DeleteNetwork(d, n) ELSE d
           F    == [x \in CacheRec \X Network |-> step(x[1], x[2])]
           In(d, s) == /\ d \in CacheRec /\ Pruned(c, d) /\ Spares(c, d)
                       /\ \A i \in DOMAIN L \ s : L[i] \in Range(d.networks)
                       /\ \A i \in s : Settled(d, L[i])
           J    == [s \in SUBSET DOMAIN L |-> {d \in CacheRec : In(d, s)}]
           Eq(g) == g = [s \in SUBSET DOMAIN L |->
                          IF s = {} THEN c ELSE step(g[s \ {Max(s)}], L[Max(s)])]
           h     == CHOOSE g : Eq(g)
<1>1. /\ L \in Seq(Network) /\ IsInjective(L) /\ c \in CacheRec
      /\ \A i \in DOMAIN L : L[i] \in Range(c.networks) /\ L[i] \in Network
      /\ \A n \in Range(c.networks) : \E i \in DOMAIN L : n = L[i]
  <2>1. c.networks \in Seq(Network) /\ IsInjective(c.networks) /\ c \in CacheRec
    BY GoodTypes DEF Good, Lists
  <2>2. /\ L \in Seq(Network) /\ Len(L) = Len(c.networks)
        /\ \A i \in 1 .. Len(c.networks) : L[i] = c.networks[Len(c.networks) - i + 1]
    BY <2>1 DEF Reverse
  <2>3. IsInjective(L)
    <3> SUFFICES ASSUME NEW i \in DOMAIN L, NEW j \in DOMAIN L, L[i] = L[j]
                 PROVE  i = j
      BY DEF IsInjective
    <3>1. i \in 1 .. Len(c.networks) /\ j \in 1 .. Len(c.networks)
      BY <2>2
    <3>2. /\ Len(c.networks) - i + 1 \in DOMAIN c.networks
          /\ Len(c.networks) - j + 1 \in DOMAIN c.networks
      BY <2>1, <3>1
    <3>3. Len(c.networks) - i + 1 = Len(c.networks) - j + 1
      BY <2>1, <2>2, <3>1, <3>2 DEF IsInjective
    <3> QED
      BY <2>1, <3>1, <3>3
  <2>4. ASSUME NEW n \in Range(c.networks)
        PROVE  \E i \in DOMAIN L : n = L[i]
    <3>1. PICK i \in 1 .. Len(c.networks) : c.networks[i] = n
      BY <2>1, RangeIndex
    <3>2. /\ Len(c.networks) - i + 1 \in 1 .. Len(c.networks)
          /\ Len(c.networks) - (Len(c.networks) - i + 1) + 1 = i
      BY <2>1, <3>1
    <3>3. L[Len(c.networks) - i + 1] = n
      BY <2>2, <3>1, <3>2
    <3> QED
      BY <2>2, <3>2, <3>3
  <2>5. \A i \in DOMAIN L : L[i] \in Range(c.networks) /\ L[i] \in Network
    <3> SUFFICES ASSUME NEW i \in DOMAIN L
                 PROVE  L[i] \in Range(c.networks)
      BY <2>2
    <3>1. i \in 1 .. Len(c.networks) /\ Len(c.networks) - i + 1 \in DOMAIN c.networks
      BY <2>1, <2>2
    <3> QED
      BY <2>2, <3>1 DEF Range
  <2> HIDE DEF L
  <2> QED
    BY <2>1, <2>2, <2>3, <2>4, <2>5
<1>2. c \in J[{}]
  <2> HIDE DEF L
  <2> QED
    BY <1>1, PrunedSame DEF Spares
<1>3. ASSUME NEW s \in SUBSET DOMAIN L, NEW m \in s, NEW x, In(x, s \ {m})
      PROVE  In(step(x, L[m]), s)
  <2> HIDE DEF L
  <2>1. PICK n : n = L[m]
    OBVIOUS
  <2>2. /\ n \in Network /\ m \in DOMAIN L /\ Good(x)
        /\ \A i \in DOMAIN L \ {m} : L[i] # n
    BY <1>1, <1>3, <2>1 DEF IsInjective, Pruned
  <2>5. n \in Range(x.networks)
    <3>1. m \in DOMAIN L \ (s \ {m})
      OBVIOUS
    <3> QED
      BY <1>3, <2>1, <3>1
  <2>3. CASE ~ Referenced(x, n) /\ (x.net[n].zombie \/ x.cached > x.nlimit)
    <3>1. PICK d : d = DeleteNetwork(x, n)
      OBVIOUS
    <3>2. /\ Pruned(x, d) /\ (n \in Range(d.networks) => Referenced(d, n))
          /\ \A k \in Network \ {n} : /\ k \in Range(d.networks) <=> k \in Range(x.networks)
                                      /\ d.net[k].ref = x.net[k].ref
                                      /\ d.net[k].nref = x.net[k].nref
                                      /\ d.net[k].zombie = x.net[k].zombie
          /\ Spares(x, d)
      <4>1. Dropped(x, d, n)
        BY <2>2, <2>5, <3>1, DeleteNetworkGood, Zenon
      <4>2. Spares(x, d)
        BY <2>3, <4>1, DroppedSpares DEF Referenced
      <4> QED
        BY <4>1, <4>2 DEF Dropped
    <3>3. Pruned(c, d)
      BY <1>3, <3>2, PrunedTwice, Zenon
    <3>4. d \in CacheRec
      BY <3>3, GoodTypes DEF Pruned
    <3>5. \A i \in DOMAIN L \ s : L[i] \in Range(d.networks)
      BY <1>1, <1>3, <2>2, <3>2
    <3>6. ASSUME NEW i \in s
          PROVE  Settled(d, L[i])
      <4>1. CASE i = m
        BY <2>1, <3>2, <4>1 DEF Settled
      <4>2. CASE i # m
        <5>1. Settled(x, L[i]) /\ L[i] \in Network \ {n}
          BY <1>1, <1>3, <2>2, <4>2
        <5> QED
          BY <3>2, <5>1 DEF Settled, Referenced
      <4> QED
        BY <4>1, <4>2
    <3>7. step(x, L[m]) = d
      BY <2>1, <2>3, <3>1, Zenon
    <3>8. Spares(c, d)
      BY <1>3, <3>2, SparesTwice
    <3> HIDE DEF step
    <3> QED
      BY <3>3, <3>4, <3>5, <3>6, <3>7, <3>8
  <2>4. CASE ~ (~ Referenced(x, n) /\ (x.net[n].zombie \/ x.cached > x.nlimit))
    <3>1. step(x, L[m]) = x
      BY <2>1, <2>4, Zenon
    <3>2. \A i \in s : Settled(x, L[i])
      BY <1>3, <2>1, <2>4 DEF Settled
    <3>3. \A i \in DOMAIN L \ s : L[i] \in Range(x.networks)
      BY <1>3
    <3> HIDE DEF step
    <3> QED
      BY <1>3, <3>1, <3>2, <3>3
  <2> QED
    BY <2>3, <2>4
<1> HIDE DEF step
<1>4. ASSUME NEW s \in SUBSET DOMAIN L, NEW m \in s, NEW x \in J[s \ {m}]
      PROVE  F[<<x, L[m]>>] \in J[s] /\ F[<<x, L[m]>>] = step(x, L[m])
  <2>1. s \ {m} \in SUBSET DOMAIN L /\ L[m] \in Network
    BY <1>1
  <2>2. x \in CacheRec /\ In(x, s \ {m})
    BY <2>1
  <2>3. In(step(x, L[m]), s)
    BY <1>3, <2>2
  <2>4. F[<<x, L[m]>>] = step(x, L[m])
    BY <2>1, <2>2
  <2> QED
    BY <2>3, <2>4
<1>5. PICK g \in [SUBSET DOMAIN L -> CacheRec] :
        IsFold(g, F, c, L) /\ \A s \in SUBSET DOMAIN L : g[s] \in J[s]
  <2>1. \A s \in SUBSET DOMAIN L : J[s] \subseteq CacheRec
    OBVIOUS
  <2>2. \A s \in SUBSET DOMAIN L :
          s # {} /\ Max(s) \in s => \A x \in J[s \ {Max(s)}] : F[<<x, L[Max(s)]>>] \in J[s]
    BY <1>4
  <2> HIDE DEF F, J, L
  <2> QED
    BY <1>1, <1>2, <2>1, <2>2, FoldReach
<1>6. Eq(h)
  <2>1. ASSUME NEW s \in SUBSET DOMAIN L
        PROVE  g[s] = IF s = {} THEN c ELSE step(g[s \ {Max(s)}], L[Max(s)])
    <3> HIDE DEF F, J, L
    <3>1. CASE s = {}
      BY <1>5, <3>1 DEF IsFold
    <3>2. CASE s # {}
      <4>1. g[s] = F[<<g[s \ {Max(s)}], L[Max(s)]>>]
        BY <1>5, <3>2 DEF IsFold
      <4>2. Max(s) \in s /\ s \ {Max(s)} \in SUBSET DOMAIN L
        BY <1>1, <3>2, MaxPosition
      <4> QED
        BY <1>4, <1>5, <3>2, <4>1, <4>2
    <3> QED
      BY <3>1, <3>2
  <2>2. Eq(g)
    BY <1>5, <2>1
  <2> HIDE DEF Eq
  <2> QED
    BY <2>2, Zenon
<1>7. FoldLeft(step, c, L) = h[DOMAIN L]
  BY Zenon DEF FoldLeft, MapThenFoldSet
<1> HIDE DEF h
<1>8. h[DOMAIN L] \in J[DOMAIN L]
  <2>1. h[{}] \in J[{}]
    BY <1>2, <1>6
  <2>2. ASSUME NEW s \in SUBSET DOMAIN L, s # {}, Max(s) \in s, h[s \ {Max(s)}] \in J[s \ {Max(s)}]
        PROVE  h[s] \in J[s]
    <3>1. h[s] = step(h[s \ {Max(s)}], L[Max(s)])
      BY <1>6, <2>2
    <3> HIDE DEF J, F, L
    <3> QED
      BY <1>4, <2>2, <3>1
  <2>3. \A s \in SUBSET DOMAIN L : h[s] \in J[s]
    <3> HIDE DEF J, L
    <3> QED
      BY <1>1, <2>1, <2>2, FoldKeeps
  <2>4. DOMAIN L \in SUBSET DOMAIN L
    OBVIOUS
  <2> HIDE DEF J, L
  <2> QED
    BY <2>3, <2>4
<1>9. PICK d : d = DeleteSurplusNetworks(c)
  OBVIOUS
<1>10. d = h[DOMAIN L]
  BY <1>7, <1>9, Zenon DEF DeleteSurplusNetworks, step
<1>11. In(d, DOMAIN L)
  BY <1>8, <1>10
<1> HIDE DEF L
<1>12. ASSUME NEW n \in Network
       PROVE  Settled(d, n)
  <2>1. CASE n \in Range(d.networks)
    <3>1. n \in Range(c.networks)
      BY <1>11, <2>1 DEF Pruned
    <3>2. PICK i \in DOMAIN L : n = L[i]
      BY <1>1, <3>1
    <3> QED
      BY <1>11, <3>2
  <2>2. CASE n \notin Range(d.networks)
    BY <2>2 DEF Settled
  <2> QED
    BY <2>1, <2>2
<1> QED
  BY <1>9, <1>11, <1>12

\* vbi_cache_purge: no page is left that nobody holds, and no network that nobody
\* uses.
Emptied(c, n) ==
  /\ \A p \in Page : Free(c, p) => c.page[p].cn # n
  /\ n \in Range(c.networks) => Referenced(c, n)

LEMMA PurgeGood ==
  ASSUME NEW c, Good(c)
  PROVE  Pruned(c, Purge(c)) /\ \A n \in Range(c.networks) : Emptied(Purge(c), n)
<1> DEFINE L    == c.networks
           F    == [x \in CacheRec \X Network |-> DeleteNetwork(x[1], x[2])]
           In(d, s) == /\ d \in CacheRec /\ Pruned(c, d)
                       /\ \A i \in DOMAIN L \ s : L[i] \in Range(d.networks)
                       /\ \A i \in s : Emptied(d, L[i])
           J    == [s \in SUBSET DOMAIN L |-> {d \in CacheRec : In(d, s)}]
           Eq(g) == g = [s \in SUBSET DOMAIN L |->
                          IF s = {} THEN c ELSE DeleteNetwork(g[s \ {Max(s)}], L[Max(s)])]
           h     == CHOOSE g : Eq(g)
<1>1. /\ L \in Seq(Network) /\ IsInjective(L) /\ c \in CacheRec
      /\ \A i \in DOMAIN L : L[i] \in Range(c.networks) /\ L[i] \in Network
      /\ \A n \in Range(c.networks) : \E i \in DOMAIN L : n = L[i]
  <2>1. c.networks \in Seq(Network) /\ IsInjective(c.networks) /\ c \in CacheRec
    BY GoodTypes DEF Good, Lists
  <2> QED
    BY <2>1 DEF Range
<1>2. c \in J[{}]
  BY <1>1, PrunedSame
<1>3. ASSUME NEW s \in SUBSET DOMAIN L, NEW m \in s, NEW x, In(x, s \ {m})
      PROVE  In(DeleteNetwork(x, L[m]), s)
  <2> HIDE DEF L
  <2>1. PICK n : n = L[m]
    OBVIOUS
  <2>2. /\ n \in Network /\ m \in DOMAIN L /\ Good(x)
        /\ \A i \in DOMAIN L \ {m} : L[i] # n
    BY <1>1, <1>3, <2>1 DEF IsInjective, Pruned
  <2>3. n \in Range(x.networks)
    <3>1. m \in DOMAIN L \ (s \ {m})
      OBVIOUS
    <3> QED
      BY <1>3, <2>1, <3>1
  <2>4. PICK d : d = DeleteNetwork(x, n)
    OBVIOUS
  <2>5. /\ Pruned(x, d) /\ (n \in Range(d.networks) => Referenced(d, n))
        /\ \A p \in Page : Free(d, p) => d.page[p].cn # n
        /\ \A k \in Network \ {n} : /\ k \in Range(d.networks) <=> k \in Range(x.networks)
                                    /\ d.net[k].ref = x.net[k].ref
                                    /\ d.net[k].nref = x.net[k].nref
                                    /\ d.net[k].zombie = x.net[k].zombie
    <3>1. Dropped(x, d, n)
      BY <2>2, <2>3, <2>4, DeleteNetworkGood, Zenon
    <3> QED
      BY <3>1 DEF Dropped
  <2>6. Pruned(c, d)
    BY <1>3, <2>5, PrunedTwice, Zenon
  <2>7. d \in CacheRec
    BY <2>6, GoodTypes DEF Pruned
  <2>8. \A i \in DOMAIN L \ s : L[i] \in Range(d.networks)
    BY <1>1, <1>3, <2>2, <2>5
  <2>9. ASSUME NEW i \in s
        PROVE  Emptied(d, L[i])
    <3>1. CASE i = m
      BY <2>1, <2>5, <3>1 DEF Emptied
    <3>2. CASE i # m
      <4>1. Emptied(x, L[i]) /\ L[i] \in Network \ {n}
        BY <1>1, <1>3, <2>2, <3>2
      <4>2. \A p \in Page : Free(d, p) => d.page[p].cn # L[i]
        BY <2>5, <4>1, PrunedFree DEF Emptied
      <4> QED
        BY <2>5, <4>1, <4>2 DEF Emptied, Referenced
    <3> QED
      BY <3>1, <3>2
  <2> QED
    BY <2>1, <2>4, <2>6, <2>7, <2>8, <2>9, Zenon
<1>4. ASSUME NEW s \in SUBSET DOMAIN L, NEW m \in s, NEW x \in J[s \ {m}]
      PROVE  F[<<x, L[m]>>] \in J[s] /\ F[<<x, L[m]>>] = DeleteNetwork(x, L[m])
  <2>1. s \ {m} \in SUBSET DOMAIN L /\ L[m] \in Network
    BY <1>1
  <2>2. x \in CacheRec /\ In(x, s \ {m})
    BY <2>1
  <2>3. In(DeleteNetwork(x, L[m]), s)
    BY <1>3, <2>2
  <2>4. F[<<x, L[m]>>] = DeleteNetwork(x, L[m])
    BY <2>1, <2>2
  <2> QED
    BY <2>3, <2>4
<1>5. PICK g \in [SUBSET DOMAIN L -> CacheRec] :
        IsFold(g, F, c, L) /\ \A s \in SUBSET DOMAIN L : g[s] \in J[s]
  <2>1. \A s \in SUBSET DOMAIN L : J[s] \subseteq CacheRec
    OBVIOUS
  <2>2. \A s \in SUBSET DOMAIN L :
          s # {} /\ Max(s) \in s => \A x \in J[s \ {Max(s)}] : F[<<x, L[Max(s)]>>] \in J[s]
    BY <1>4
  <2> HIDE DEF F, J, L
  <2> QED
    BY <1>1, <1>2, <2>1, <2>2, FoldReach
<1>6. Eq(h)
  <2>1. ASSUME NEW s \in SUBSET DOMAIN L
        PROVE  g[s] = IF s = {} THEN c ELSE DeleteNetwork(g[s \ {Max(s)}], L[Max(s)])
    <3> HIDE DEF F, J, L
    <3>1. CASE s = {}
      BY <1>5, <3>1 DEF IsFold
    <3>2. CASE s # {}
      <4>1. g[s] = F[<<g[s \ {Max(s)}], L[Max(s)]>>]
        BY <1>5, <3>2 DEF IsFold
      <4>2. Max(s) \in s /\ s \ {Max(s)} \in SUBSET DOMAIN L
        BY <1>1, <3>2, MaxPosition
      <4> QED
        BY <1>4, <1>5, <3>2, <4>1, <4>2
    <3> QED
      BY <3>1, <3>2
  <2>2. Eq(g)
    BY <1>5, <2>1
  <2> HIDE DEF Eq
  <2> QED
    BY <2>2, Zenon
<1>7. FoldLeft(DeleteNetwork, c, L) = h[DOMAIN L]
  BY Zenon DEF FoldLeft, MapThenFoldSet
<1> HIDE DEF h
<1>8. h[DOMAIN L] \in J[DOMAIN L]
  <2>1. h[{}] \in J[{}]
    BY <1>2, <1>6
  <2>2. ASSUME NEW s \in SUBSET DOMAIN L, s # {}, Max(s) \in s, h[s \ {Max(s)}] \in J[s \ {Max(s)}]
        PROVE  h[s] \in J[s]
    <3>1. h[s] = DeleteNetwork(h[s \ {Max(s)}], L[Max(s)])
      BY <1>6, <2>2
    <3> HIDE DEF J, F, L
    <3> QED
      BY <1>4, <2>2, <3>1
  <2>3. \A s \in SUBSET DOMAIN L : h[s] \in J[s]
    <3> HIDE DEF J, L
    <3> QED
      BY <1>1, <2>1, <2>2, FoldKeeps
  <2>4. DOMAIN L \in SUBSET DOMAIN L
    OBVIOUS
  <2> HIDE DEF J, L
  <2> QED
    BY <2>3, <2>4
<1>9. PICK d : d = Purge(c)
  OBVIOUS
<1>10. d = h[DOMAIN L]
  BY <1>7, <1>9, Zenon DEF Purge
<1>11. In(d, DOMAIN L)
  BY <1>8, <1>10
<1> HIDE DEF L
<1>12. ASSUME NEW n \in Range(c.networks)
       PROVE  Emptied(d, n)
  <2>1. PICK i \in DOMAIN L : n = L[i]
    BY <1>1
  <2> QED
    BY <1>11, <2>1
<1> QED
  BY <1>9, <1>11, <1>12

-----------------------------------------------------------------------------
(* Operations that change one page, or the networks. *)

One(b) == IF b THEN 1 ELSE 0
Weight(c, p) == IF Free(c, p) THEN c.page[p].kind.size ELSE 0

\* All but the page p, and its places on the lists, is as before.
PageChange(c, d, p) ==
  /\ d \in CacheRec /\ d.networks = c.networks
  /\ \A q \in Page \ {p} : d.page[q] = c.page[q]
  /\ PageOK(d, p)
  /\ IsInjective(d.priority)
  /\ Range(d.priority) = IF Free(d, p) THEN Range(c.priority) \cup {p} ELSE Range(c.priority) \ {p}
  /\ \A g \in Pgno :
       /\ IsInjective(d.hash[g])
       /\ Range(d.hash[g]) = IF OnHash(d, p, g) THEN Range(c.hash[g]) \cup {p} ELSE Range(c.hash[g]) \ {p}
  /\ \A n \in Network : n \notin Range(d.networks) => d.net[n] = FreeNet

\* The counters follow the page.
CountChange(c, d, p) ==
  /\ \A n \in Network :
       /\ d.net[n].nref = c.net[n].nref + One(p \in Held(d, n)) - One(p \in Held(c, n))
       /\ d.net[n].npages = c.net[n].npages + One(p \in Of(d, n)) - One(p \in Of(c, n))
  /\ d.npages = c.npages + One(Used(d, p)) - One(Used(c, p))
  /\ d.memory = c.memory + Weight(d, p) - Weight(c, p)
  /\ d.cached = Cardinality(Counted(d))

LEMMA PageChangeLists ==
  ASSUME NEW c, Lists(c), NEW p \in Page, NEW d, PageChange(c, d, p)
  PROVE  Lists(d)
<1>1. /\ d \in CacheRec /\ d.networks = c.networks
      /\ \A q \in Page \ {p} : d.page[q] = c.page[q]
      /\ IsInjective(d.priority)
      /\ \A g \in Pgno : IsInjective(d.hash[g])
      /\ \A n \in Network : n \notin Range(d.networks) => d.net[n] = FreeNet
  BY DEF PageChange
<1>2. IsInjective(d.networks)
  BY <1>1 DEF Lists
<1>3. ASSUME NEW q \in Page
      PROVE  PageOK(d, q)
  <2>1. CASE q = p
    BY <2>1 DEF PageChange
  <2>2. CASE q # p
    <3>1. PageOK(c, q) /\ d.page[q] = c.page[q]
      BY <1>1, <2>2 DEF Lists
    <3> QED
      BY <1>1, <3>1 DEF PageOK
  <2> QED
    BY <2>1, <2>2
<1>4. ASSUME NEW q \in Page
      PROVE  q \in Range(d.priority) <=> Free(d, q)
  <2>1. q \in Range(c.priority) <=> Free(c, q)
    BY DEF Lists
  <2>2. Range(d.priority) = IF Free(d, p) THEN Range(c.priority) \cup {p} ELSE Range(c.priority) \ {p}
    BY DEF PageChange
  <2>3. CASE q = p
    BY <2>2, <2>3
  <2>4. CASE q # p
    <3>1. Free(d, q) <=> Free(c, q)
      BY <1>1, <2>4 DEF Free, Used
    <3> QED
      BY <2>1, <2>2, <2>4, <3>1
  <2> QED
    BY <2>3, <2>4
<1>5. ASSUME NEW g \in Pgno, NEW q \in Page
      PROVE  q \in Range(d.hash[g]) <=> OnHash(d, q, g)
  <2>1. q \in Range(c.hash[g]) <=> OnHash(c, q, g)
    BY DEF Lists
  <2>2. Range(d.hash[g]) = IF OnHash(d, p, g) THEN Range(c.hash[g]) \cup {p} ELSE Range(c.hash[g]) \ {p}
    BY DEF PageChange
  <2>3. CASE q = p
    BY <2>2, <2>3
  <2>4. CASE q # p
    <3>1. OnHash(d, q, g) <=> OnHash(c, q, g)
      BY <1>1, <2>4 DEF OnHash, Used
    <3> QED
      BY <2>1, <2>2, <2>4, <3>1
  <2> QED
    BY <2>3, <2>4
<1> QED
  BY <1>1, <1>2, <1>3, <1>4, <1>5 DEF Lists

\* A set that changes at one element.
LEMMA CountChanged ==
  ASSUME NEW S, IsFiniteSet(S), NEW T, IsFiniteSet(T), NEW x, S \ {x} = T \ {x}
  PROVE  /\ Cardinality(S) \in Nat /\ Cardinality(T) \in Nat
         /\ Cardinality(T) = Cardinality(S) + One(x \in T) - One(x \in S)
<1>1. /\ Cardinality(S) \in Nat
      /\ Cardinality(S \ {x}) = IF x \in S THEN Cardinality(S) - 1 ELSE Cardinality(S)
  BY FS_CardinalityType, FS_RemoveElement
<1>2. /\ Cardinality(T) \in Nat
      /\ Cardinality(T \ {x}) = IF x \in T THEN Cardinality(T) - 1 ELSE Cardinality(T)
  BY FS_CardinalityType, FS_RemoveElement
<1>3. PICK n : n = Cardinality(S \ {x})
  OBVIOUS
<1>4. n = Cardinality(T \ {x})
  BY <1>3
<1>5. Cardinality(S) = n + One(x \in S)
  BY <1>1, <1>3 DEF One
<1>6. Cardinality(T) = n + One(x \in T)
  BY <1>2, <1>4 DEF One
<1>7. n \in Int
  BY <1>1, <1>3
<1>8. One(x \in S) \in {0, 1} /\ One(x \in T) \in {0, 1}
  BY DEF One
<1> QED
  BY <1>1, <1>2, <1>5, <1>6, <1>7, <1>8

LEMMA WeightIs ==
  ASSUME NEW c, Lists(c), NEW p \in Page
  PROVE  /\ Weight(c, p) \in Nat
         /\ {x \in Bytes(c) : x[1] = p} = {p} \X (1 .. Weight(c, p))
<1>1. CASE Free(c, p)
  <2>1. Weight(c, p) = c.page[p].kind.size /\ c.page[p].kind.size \in Nat
    BY <1>1, FreeIsOK DEF Weight
  <2> QED
    BY <1>1, <2>1 DEF Bytes
<1>2. CASE ~ Free(c, p)
  <2>1. Weight(c, p) = 0
    BY <1>2 DEF Weight
  <2>2. {x \in Bytes(c) : x[1] = p} = {}
    BY <1>2 DEF Bytes
  <2>3. {p} \X (1 .. Weight(c, p)) = {}
    BY <2>1
  <2> QED
    BY <2>1, <2>2, <2>3
<1> QED
  BY <1>1, <1>2

LEMMA PageChangeGood ==
  ASSUME NEW c, Good(c), NEW p \in Page, NEW d, PageChange(c, d, p), CountChange(c, d, p)
  PROVE  Good(d)
<1>1. /\ Lists(c) /\ Lists(d) /\ Counts(c)
      /\ \A q \in Page \ {p} : d.page[q] = c.page[q]
  BY PageChangeLists DEF Good, PageChange
<1>2. /\ IsFiniteSet(Live(c)) /\ \A n \in Network : IsFiniteSet(Held(c, n)) /\ IsFiniteSet(Of(c, n))
      /\ IsFiniteSet(Live(d)) /\ \A n \in Network : IsFiniteSet(Held(d, n)) /\ IsFiniteSet(Of(d, n))
  BY <1>1, FiniteCounts
<1>3. ASSUME NEW n \in Network
      PROVE  d.net[n].nref = Cardinality(Held(d, n)) /\ d.net[n].npages = Cardinality(Of(d, n))
  <2>1. Held(c, n) \ {p} = Held(d, n) \ {p} /\ Of(c, n) \ {p} = Of(d, n) \ {p}
    BY <1>1 DEF Held, Of
  <2>2. Cardinality(Held(d, n))
          = Cardinality(Held(c, n)) + One(p \in Held(d, n)) - One(p \in Held(c, n))
    BY <1>2, <2>1, CountChanged
  <2>3. Cardinality(Of(d, n))
          = Cardinality(Of(c, n)) + One(p \in Of(d, n)) - One(p \in Of(c, n))
    BY <1>2, <2>1, CountChanged
  <2> QED
    BY <1>1, <2>2, <2>3 DEF CountChange, Counts
<1>4. d.npages = Cardinality(Live(d))
  <2>1. Live(c) \ {p} = Live(d) \ {p}
    BY <1>1 DEF Live, Used
  <2>2. Cardinality(Live(d)) = Cardinality(Live(c)) + One(p \in Live(d)) - One(p \in Live(c))
    BY <1>2, <2>1, CountChanged
  <2>3. (p \in Live(d) <=> Used(d, p)) /\ (p \in Live(c) <=> Used(c, p))
    BY DEF Live
  <2>4. One(p \in Live(d)) = One(Used(d, p)) /\ One(p \in Live(c)) = One(Used(c, p))
    BY <2>3 DEF One
  <2> QED
    BY <1>1, <2>2, <2>4 DEF CountChange, Counts
<1>5. IsFiniteSet(Bytes(d)) /\ d.memory = Cardinality(Bytes(d))
  <2>1. PICK v : v = Weight(c, p)
    OBVIOUS
  <2>2. PICK w : w = Weight(d, p)
    OBVIOUS
  <2>3. PICK R : R = Bytes(c) \ ({p} \X (1 .. v))
    OBVIOUS
  <2>4. /\ v \in Nat /\ {x \in Bytes(c) : x[1] = p} = {p} \X (1 .. v)
        /\ w \in Nat /\ {x \in Bytes(d) : x[1] = p} = {p} \X (1 .. w)
    BY <1>1, <2>1, <2>2, WeightIs, Zenon
  <2>5. IsFiniteSet(Bytes(c)) /\ c.memory = Cardinality(Bytes(c)) /\ d.memory = c.memory + w - v
    BY <1>1, <2>1, <2>2 DEF Counts, CountChange
  <2>6. {p} \X (1 .. v) \subseteq Bytes(c)
    BY <2>4
  <2>7. IsFiniteSet(R) /\ Cardinality(Bytes(c)) \in Nat /\ Cardinality(R) = Cardinality(Bytes(c)) - v
    BY <2>3, <2>4, <2>5, <2>6, BytesRemoved
  <2>8. R = {x \in Bytes(c) : x[1] # p}
    BY <2>3, <2>4
  <2>9. \A x : x \in Bytes(c) /\ x[1] # p <=> x \in Bytes(d) /\ x[1] # p
    BY <1>1 DEF Bytes, Free, Used
  <2>10. Bytes(d) = R \cup ({p} \X (1 .. w)) /\ R \cap ({p} \X (1 .. w)) = {}
    BY <2>4, <2>8, <2>9
  <2>11. /\ IsFiniteSet(R \cup ({p} \X (1 .. w)))
         /\ Cardinality(R \cup ({p} \X (1 .. w))) = Cardinality(R) + w
    BY <2>4, <2>7, <2>10, BytesAdded
  <2>12. IsFiniteSet(Bytes(d)) /\ Cardinality(Bytes(d)) = Cardinality(R) + w
    BY <2>10, <2>11, Zenon
  <2> QED
    BY <2>4, <2>5, <2>7, <2>12
<1>6. Counts(d)
  BY <1>3, <1>4, <1>5 DEF Counts, CountChange
<1> QED
  BY <1>1, <1>6 DEF Good

\* The pages stay; the networks, and the order of the lists, change.
NetChange(c, d) ==
  /\ d \in CacheRec
  /\ d.page = c.page /\ d.priority = c.priority
  /\ d.memory = c.memory /\ d.npages = c.npages
  /\ \A g \in Pgno : IsInjective(d.hash[g]) /\ Range(d.hash[g]) = Range(c.hash[g])
  /\ IsInjective(d.networks)
  /\ \A n \in Network : /\ d.net[n].nref = c.net[n].nref /\ d.net[n].npages = c.net[n].npages
                        /\ n \notin Range(d.networks) => d.net[n] = FreeNet
  /\ \A p \in Page : Used(c, p) => c.page[p].cn \in Range(d.networks)
  /\ d.cached = Cardinality(Counted(d))

LEMMA NetChangeGood ==
  ASSUME NEW c, Good(c), NEW d, NetChange(c, d)
  PROVE  Good(d)
<1>1. /\ d \in CacheRec /\ d.page = c.page /\ d.priority = c.priority
      /\ d.memory = c.memory /\ d.npages = c.npages
      /\ Lists(c) /\ Counts(c)
  BY DEF NetChange, Good
<1>2. \A p \in Page : /\ Free(d, p) <=> Free(c, p)
                      /\ \A g \in Pgno : OnHash(d, p, g) <=> OnHash(c, p, g)
  BY <1>1 DEF Free, Used, OnHash
<1>3. ASSUME NEW p \in Page
      PROVE  PageOK(d, p)
  <2>1. PageOK(c, p)
    BY <1>1 DEF Lists
  <2>2. CASE c.page[p] = FreePage
    BY <1>1, <2>2 DEF PageOK
  <2>3. CASE c.page[p] # FreePage
    <3>1. /\ c.page[p].cn \in Range(c.networks) /\ c.page[p].kind \in Kind
          /\ c.page[p].block = c.page[p].kind.size
          /\ c.page[p].zombie => c.page[p].ref > 0
      BY <2>1, <2>3 DEF PageOK
    <3>2. c.page[p].cn \in Network
      BY <1>1, <3>1 DEF Lists, CacheRec, Range
    <3>3. c.page[p].cn \in Range(d.networks)
      BY <3>2, CacheAssumption DEF NetChange, Used
    <3> QED
      BY <1>1, <3>1, <3>3 DEF PageOK
  <2> QED
    BY <2>2, <2>3
<1>4. Lists(d)
  <2>1. \A p \in Page : p \in Range(d.priority) <=> Free(d, p)
    BY <1>1, <1>2 DEF Lists
  <2>2. \A g \in Pgno, p \in Page : p \in Range(d.hash[g]) <=> OnHash(d, p, g)
    BY <1>1, <1>2 DEF Lists, NetChange
  <2>3. /\ IsInjective(d.networks) /\ IsInjective(d.priority)
        /\ \A g \in Pgno : IsInjective(d.hash[g])
        /\ \A n \in Network : n \notin Range(d.networks) => d.net[n] = FreeNet
    BY <1>1 DEF Lists, NetChange
  <2> QED
    BY <1>1, <1>3, <2>1, <2>2, <2>3 DEF Lists
<1>5. /\ Live(d) = Live(c) /\ Bytes(d) = Bytes(c)
      /\ \A n \in Network : Held(d, n) = Held(c, n) /\ Of(d, n) = Of(c, n)
  BY <1>1 DEF Live, Bytes, Held, Of, Free, Used
<1>6. Counts(d)
  BY <1>1, <1>5 DEF Counts, NetChange
<1> QED
  BY <1>4, <1>6 DEF Good

\* A page in use has its network on the list.
LEMMA UsedIsOK ==
  ASSUME NEW c, Lists(c), NEW p \in Page, Used(c, p)
  PROVE  /\ c.page[p].cn \in Range(c.networks) /\ c.page[p].cn \in Network
         /\ c.page[p].kind \in Kind /\ c.page[p].kind.pgno \in Pgno
         /\ c.page[p].block = c.page[p].kind.size /\ c.page[p].kind.size \in Nat \ {0}
         /\ c.page[p].zombie => c.page[p].ref > 0
         /\ c.page[p] \in PageRec
<1>1. PageOK(c, p) /\ c.page[p].cn # NULL /\ c \in CacheRec
  BY DEF Lists, Used
<1>2. c.page[p] # FreePage
  BY <1>1 DEF FreePage
<1>3. /\ c.page[p].cn \in Range(c.networks) /\ c.page[p].kind \in Kind
      /\ c.page[p].block = c.page[p].kind.size
      /\ c.page[p].zombie => c.page[p].ref > 0
  BY <1>1, <1>2 DEF PageOK
<1>4. c.page[p].cn \in Network /\ c.page[p] \in PageRec
  BY <1>1, <1>3 DEF CacheRec, Range
<1> QED
  BY <1>3, <1>4, CacheAssumption DEF Pgno

\* A page that is held is in use.
LEMMA HeldUsed ==
  ASSUME NEW c, Lists(c), NEW p \in Page, c.page[p].ref > 0
  PROVE  Used(c, p) /\ ~ Free(c, p)
<1>1. PageOK(c, p) /\ c \in CacheRec
  BY DEF Lists
<1>2. c.page[p] # FreePage /\ c.page[p].ref # 0
  BY DEF FreePage
<1>3. c.page[p].cn \in Network
  BY <1>1, <1>2 DEF PageOK, CacheRec, Range
<1> QED
  BY <1>2, <1>3, CacheAssumption DEF Used, Free

Revived(c, d, n) ==
  /\ Good(d)
  /\ d.networks = c.networks /\ d.page = c.page /\ d.hash = c.hash
  /\ d.priority = c.priority /\ d.memory = c.memory /\ d.npages = c.npages
  /\ d.limit = c.limit /\ d.nlimit = c.nlimit /\ d.open = c.open
  /\ d.net = [c.net EXCEPT ![n].zombie = FALSE]

\* One field of a network, and the number of networks that are not zombies, change.
LEMMA ReviveGood ==
  ASSUME NEW c, Good(c), NEW n \in Range(c.networks)
  PROVE  Revived(c, Revive(c, n), n)
<1> PICK d : d = Revive(c, n)
  OBVIOUS
<1>2. /\ n \in Network /\ c.networks \in Seq(Network) /\ c \in CacheRec /\ Lists(c) /\ Counts(c)
      /\ Range(c.networks) \subseteq Network /\ c.cached \in Int
  BY GoodTypes DEF Range, Good
<1>3. PICK k : k = IF c.net[n].zombie THEN c.cached + 1 ELSE c.cached
  OBVIOUS
<1>4. d = [c EXCEPT !.cached = k, !.net[n].zombie = FALSE]
  BY <1>3, Zenon DEF Revive
<1>5. /\ d.networks = c.networks /\ d.page = c.page /\ d.hash = c.hash
      /\ d.priority = c.priority /\ d.memory = c.memory /\ d.npages = c.npages
      /\ d.limit = c.limit /\ d.nlimit = c.nlimit /\ d.open = c.open
      /\ d.net = [c.net EXCEPT ![n].zombie = FALSE] /\ d.cached = k
  BY <1>2, <1>4 DEF CacheRec
<1>6. PICK x : x = [c.net[n] EXCEPT !.zombie = FALSE]
  OBVIOUS
<1>7. c.net \in [Network -> NetRec] /\ c.net[n] \in NetRec
  BY <1>2 DEF CacheRec
<1>8. /\ x \in NetRec /\ x.ref = c.net[n].ref /\ x.nref = c.net[n].nref
      /\ x.npages = c.net[n].npages /\ x.zombie = FALSE
  BY <1>6, <1>7 DEF NetRec
<1>9. d.net = [c.net EXCEPT ![n] = x]
  BY <1>5, <1>6, Zenon
<1>10. /\ d.net \in [Network -> NetRec] /\ d.net[n] = x
       /\ \A m \in Network \ {n} : d.net[m] = c.net[m]
  BY <1>2, <1>7, <1>8, <1>9
<1>11. d \in CacheRec
  <2>1. k \in Int
    BY <1>2, <1>3
  <2> QED
    BY <1>2, <1>4, <1>5, <1>10, <2>1 DEF CacheRec
<1>12. d.cached = Cardinality(Counted(d))
  <2>1. IsFiniteSet(Counted(c)) /\ c.cached = Cardinality(Counted(c))
    BY <1>2, FiniteCounts DEF Counts
  <2>2. Counted(d) = Counted(c) \cup {n}
    BY <1>2, <1>5, <1>8, <1>10 DEF Counted, Range
  <2>3. n \in Counted(c) <=> ~ c.net[n].zombie
    BY DEF Counted
  <2>4. CASE c.net[n].zombie
    BY <1>3, <1>5, <2>1, <2>2, <2>3, <2>4, CountAdded
  <2>5. CASE ~ c.net[n].zombie
    <3>1. Counted(d) = Counted(c)
      BY <2>2, <2>3, <2>5
    <3> QED
      BY <1>3, <1>5, <2>1, <2>5, <3>1
  <2> QED
    BY <2>4, <2>5
<1>13. NetChange(c, d)
  <2>1. \A m \in Network : /\ d.net[m].nref = c.net[m].nref /\ d.net[m].npages = c.net[m].npages
                           /\ m \notin Range(d.networks) => d.net[m] = FreeNet
    BY <1>2, <1>5, <1>8, <1>10 DEF Lists
  <2>2. \A p \in Page : Used(c, p) => c.page[p].cn \in Range(d.networks)
    BY <1>2, <1>5, UsedIsOK
  <2> QED
    BY <1>2, <1>5, <1>11, <1>12, <2>1, <2>2 DEF NetChange, Lists
<1>14. Good(d)
  BY <1>13, NetChangeGood
<1>15. Revived(c, d, n)
  BY <1>5, <1>14, Zenon DEF Revived
<1> QED
  BY <1>15, Zenon

\* References to a network are taken or given back.
LEMMA NetRefGood ==
  ASSUME NEW c, Good(c), NEW n \in Range(c.networks), NEW r \in Nat
  PROVE  LET d == [c EXCEPT !.net[n].ref = r]
         IN  /\ Good(d)
             /\ d.networks = c.networks /\ d.page = c.page /\ d.cached = c.cached
             /\ d.memory = c.memory
             /\ d.limit = c.limit /\ d.nlimit = c.nlimit /\ d.open = c.open
             /\ d.net[n].ref = r /\ d.net[n].zombie = c.net[n].zombie
             /\ d.net[n].nref = c.net[n].nref
             /\ \A m \in Network \ {n} : d.net[m] = c.net[m]
<1>1. PICK d : d = [c EXCEPT !.net[n].ref = r]
  OBVIOUS
<1>2. /\ n \in Network /\ c.networks \in Seq(Network) /\ c \in CacheRec /\ Lists(c) /\ Counts(c)
      /\ Range(c.networks) \subseteq Network
  BY GoodTypes DEF Range, Good
<1>3. /\ d.networks = c.networks /\ d.page = c.page /\ d.hash = c.hash /\ d.cached = c.cached
      /\ d.priority = c.priority /\ d.memory = c.memory /\ d.npages = c.npages
      /\ d.limit = c.limit /\ d.nlimit = c.nlimit /\ d.open = c.open
      /\ d.net = [c.net EXCEPT ![n].ref = r]
  BY <1>1, <1>2 DEF CacheRec
<1>4. PICK x : x = [c.net[n] EXCEPT !.ref = r]
  OBVIOUS
<1>5. c.net \in [Network -> NetRec] /\ c.net[n] \in NetRec
  BY <1>2 DEF CacheRec
<1>6. /\ x \in NetRec /\ x.ref = r /\ x.nref = c.net[n].nref
      /\ x.npages = c.net[n].npages /\ x.zombie = c.net[n].zombie
  BY <1>4, <1>5 DEF NetRec
<1>7. d.net = [c.net EXCEPT ![n] = x]
  BY <1>3, <1>4, Zenon
<1>8. /\ d.net \in [Network -> NetRec] /\ d.net[n] = x
      /\ \A m \in Network \ {n} : d.net[m] = c.net[m]
  BY <1>2, <1>5, <1>6, <1>7
<1>9. d \in CacheRec
  BY <1>1, <1>2, <1>3, <1>8 DEF CacheRec
<1>10. Counted(d) = Counted(c)
  BY <1>2, <1>3, <1>6, <1>8 DEF Counted, Range
<1>11. NetChange(c, d)
  <2>1. \A m \in Network : /\ d.net[m].nref = c.net[m].nref /\ d.net[m].npages = c.net[m].npages
                           /\ m \notin Range(d.networks) => d.net[m] = FreeNet
    BY <1>2, <1>3, <1>6, <1>8 DEF Lists
  <2>2. \A p \in Page : Used(c, p) => c.page[p].cn \in Range(d.networks)
    BY <1>2, <1>3, UsedIsOK
  <2>3. d.cached = Cardinality(Counted(d))
    BY <1>2, <1>3, <1>10 DEF Counts
  <2> QED
    BY <1>2, <1>3, <1>9, <2>1, <2>2, <2>3 DEF NetChange, Lists
<1>12. Good(d)
  BY <1>11, NetChangeGood
<1> QED
  BY <1>1, <1>3, <1>6, <1>8, <1>12, Zenon

\* A page moves to the head of its hash list.
LEMMA ToHashHeadGood ==
  ASSUME NEW c, Good(c), NEW p \in Page, Used(c, p), ~ c.page[p].zombie
  PROVE  LET d == ToHashHead(c, p)
         IN  /\ Good(d)
             /\ d.networks = c.networks /\ d.page = c.page /\ d.net = c.net
             /\ d.priority = c.priority /\ d.memory = c.memory /\ d.npages = c.npages
             /\ d.limit = c.limit /\ d.nlimit = c.nlimit /\ d.open = c.open
<1>1. PICK d : d = ToHashHead(c, p)
  OBVIOUS
<1>2. PICK g : g = c.page[p].kind.pgno
  OBVIOUS
<1>3. PICK s : s = <<p>> \o RemoveFirst(c.hash[g], p)
  OBVIOUS
<1>4. /\ c \in CacheRec /\ Lists(c) /\ Counts(c) /\ g \in Pgno
  BY <1>2, GoodTypes, UsedIsOK DEF Good
<1>5. c.hash \in [Pgno -> Seq(Page)] /\ c.hash[g] \in Seq(Page) /\ IsInjective(c.hash[g])
  BY <1>4 DEF CacheRec, Lists
<1>6. d = [c EXCEPT !.hash[g] = s]
  <2>1. ToHashHead(c, p) = [c EXCEPT !.hash[g] = <<p>> \o RemoveFirst(@, p)]
    BY <1>2, Zenon DEF ToHashHead
  <2>2. [c EXCEPT !.hash[g] = <<p>> \o RemoveFirst(@, p)]
          = [c EXCEPT !.hash[g] = <<p>> \o RemoveFirst(c.hash[g], p)]
    OBVIOUS
  <2> QED
    BY <1>1, <1>3, <2>1, <2>2, Zenon
<1>7. /\ d.networks = c.networks /\ d.page = c.page /\ d.net = c.net /\ d.cached = c.cached
      /\ d.priority = c.priority /\ d.memory = c.memory /\ d.npages = c.npages
      /\ d.limit = c.limit /\ d.nlimit = c.nlimit /\ d.open = c.open
      /\ d.hash = [c.hash EXCEPT ![g] = s]
  BY <1>4, <1>6 DEF CacheRec
<1>8. s \in Seq(Page) /\ IsInjective(s) /\ Range(s) = Range(c.hash[g])
  <2>1. p \in Range(c.hash[g])
    BY <1>2, <1>4 DEF Lists, OnHash
  <2>2. s \in Seq(Page) /\ IsInjective(s) /\ Range(s) = Range(c.hash[g]) \cup {p}
    BY <1>3, <1>5, ToFrontDistinct
  <2> QED
    BY <2>1, <2>2
<1>9. /\ d.hash \in [Pgno -> Seq(Page)]
      /\ \A h \in Pgno : IsInjective(d.hash[h]) /\ Range(d.hash[h]) = Range(c.hash[h])
  BY <1>4, <1>5, <1>7, <1>8 DEF Lists
<1>10. d \in CacheRec
  BY <1>4, <1>6, <1>7, <1>9 DEF CacheRec
<1>11. NetChange(c, d)
  <2>1. Counted(d) = Counted(c)
    BY <1>7 DEF Counted
  <2>2. \A q \in Page : Used(c, q) => c.page[q].cn \in Range(d.networks)
    BY <1>4, <1>7, UsedIsOK
  <2> QED
    BY <1>4, <1>7, <1>9, <1>10, <2>1, <2>2 DEF NetChange, Lists, Counts
<1>12. Good(d)
  BY <1>11, NetChangeGood
<1> QED
  BY <1>1, <1>7, <1>12, Zenon

\* A network moves to the head of the list.
LEMMA MostRecentlyUsedGood ==
  ASSUME NEW c, Good(c), NEW n \in Range(c.networks)
  PROVE  LET d == MostRecentlyUsed(c, n)
         IN  /\ Good(d)
             /\ Range(d.networks) = Range(c.networks) /\ d.page = c.page /\ d.net = c.net
             /\ d.priority = c.priority /\ d.memory = c.memory
             /\ d.limit = c.limit /\ d.nlimit = c.nlimit /\ d.open = c.open
<1>1. PICK d : d = MostRecentlyUsed(c, n)
  OBVIOUS
<1>2. PICK s : s = <<n>> \o RemoveFirst(c.networks, n)
  OBVIOUS
<1>3. /\ c \in CacheRec /\ Lists(c) /\ Counts(c) /\ c.networks \in Seq(Network) /\ n \in Network
      /\ IsInjective(c.networks)
  BY GoodTypes DEF Good, Lists, Range
<1>4. d = [c EXCEPT !.networks = s]
  BY <1>1, <1>2, Zenon DEF MostRecentlyUsed
<1>5. /\ d.page = c.page /\ d.net = c.net /\ d.cached = c.cached /\ d.hash = c.hash
      /\ d.priority = c.priority /\ d.memory = c.memory /\ d.npages = c.npages
      /\ d.limit = c.limit /\ d.nlimit = c.nlimit /\ d.open = c.open
      /\ d.networks = s
  BY <1>3, <1>4 DEF CacheRec
<1>6. s \in Seq(Network) /\ IsInjective(s) /\ Range(s) = Range(c.networks)
  <2>1. s \in Seq(Network) /\ IsInjective(s) /\ Range(s) = Range(c.networks) \cup {n}
    BY <1>2, <1>3, ToFrontDistinct
  <2> QED
    BY <2>1
<1>7. d \in CacheRec
  BY <1>3, <1>4, <1>5, <1>6 DEF CacheRec
<1>8. NetChange(c, d)
  <2>1. Counted(d) = Counted(c)
    BY <1>5, <1>6 DEF Counted
  <2>2. \A q \in Page : Used(c, q) => c.page[q].cn \in Range(d.networks)
    BY <1>3, <1>5, <1>6, UsedIsOK
  <2> QED
    BY <1>3, <1>5, <1>6, <1>7, <2>1, <2>2 DEF NetChange, Lists, Counts
<1>9. Good(d)
  BY <1>8, NetChangeGood
<1> QED
  BY <1>1, <1>5, <1>6, <1>9, Zenon

NetworkAdded(c, d, n) ==
  /\ Good(d)
  /\ Range(d.networks) = Range(c.networks) \cup {n} /\ d.page = c.page
  /\ d.memory = c.memory
  /\ d.limit = c.limit /\ d.nlimit = c.nlimit /\ d.open = c.open
  /\ d.net[n].ref = 1 /\ \A m \in Network \ {n} : d.net[m] = c.net[m]

\* A network that was not on the list is added, with one reference.
LEMMA NewNetworkGood ==
  ASSUME NEW c, Good(c), NEW n \in Network, n \notin Range(c.networks)
  PROVE  NetworkAdded(c, NewNetwork(c, n), n)
<1> PICK d : d = NewNetwork(c, n)
  OBVIOUS
<1>1. d = [c EXCEPT !.cached = @ + 1, !.networks = <<n>> \o @,
                    !.net[n] = [FreeNet EXCEPT !.ref = 1]]
  BY DEF NewNetwork
<1>2. PICK x : x = [FreeNet EXCEPT !.ref = 1]
  OBVIOUS
<1>3. /\ c \in CacheRec /\ Lists(c) /\ Counts(c) /\ c.networks \in Seq(Network)
      /\ IsInjective(c.networks) /\ c.cached \in Int
  BY GoodTypes DEF Good, Lists
<1>4. d = [c EXCEPT !.cached = @ + 1, !.networks = <<n>> \o @, !.net[n] = x]
  BY <1>1, <1>2, Zenon
<1>5. /\ d.page = c.page /\ d.cached = c.cached + 1 /\ d.hash = c.hash
      /\ d.priority = c.priority /\ d.memory = c.memory /\ d.npages = c.npages
      /\ d.limit = c.limit /\ d.nlimit = c.nlimit /\ d.open = c.open
      /\ d.networks = <<n>> \o c.networks /\ d.net = [c.net EXCEPT ![n] = x]
  BY <1>3, <1>4 DEF CacheRec
<1>6. /\ x \in NetRec /\ x.ref = 1 /\ x.nref = 0 /\ x.npages = 0 /\ x.zombie = FALSE
  <2>1. x = [ref |-> 1, nref |-> 0, npages |-> 0, zombie |-> FALSE]
    BY <1>2, Zenon DEF FreeNet
  <2> QED
    BY <2>1 DEF NetRec
<1>7. /\ d.net \in [Network -> NetRec] /\ d.net[n] = x
      /\ \A m \in Network \ {n} : d.net[m] = c.net[m]
  BY <1>3, <1>5, <1>6 DEF CacheRec
<1>8. /\ d.networks \in Seq(Network) /\ IsInjective(d.networks)
      /\ Range(d.networks) = Range(c.networks) \cup {n}
  BY <1>3, <1>5, ConsDistinct
<1>9. d \in CacheRec
  <2>1. c.cached + 1 \in Int
    BY <1>3
  <2>2. PICK k : k = c.cached + 1
    OBVIOUS
  <2>3. PICK s : s = <<n>> \o c.networks
    OBVIOUS
  <2>4. d = [c EXCEPT !.cached = k, !.networks = s, !.net[n] = x]
    BY <1>4, <2>2, <2>3
  <2>5. k \in Int /\ s \in Seq(Network)
    BY <1>5, <1>8, <2>1, <2>2, <2>3
  <2> QED
    BY <1>3, <1>5, <1>7, <2>4, <2>5 DEF CacheRec
<1>10. d.cached = Cardinality(Counted(d))
  <2>1. Range(c.networks) \subseteq Network
    BY <1>3 DEF Range
  <2>2. Counted(d) = Counted(c) \cup {n} /\ n \notin Counted(c)
    BY <1>6, <1>7, <1>8, <2>1 DEF Counted
  <2>3. IsFiniteSet(Counted(c)) /\ c.cached = Cardinality(Counted(c))
    BY <1>3, FiniteCounts DEF Counts
  <2> QED
    BY <1>5, <2>2, <2>3, CountAdded
<1>11. NetChange(c, d)
  <2>1. c.net[n] = FreeNet
    BY <1>3 DEF Lists
  <2>2. \A m \in Network : /\ d.net[m].nref = c.net[m].nref /\ d.net[m].npages = c.net[m].npages
                           /\ m \notin Range(d.networks) => d.net[m] = FreeNet
    BY <1>3, <1>6, <1>7, <1>8, <2>1 DEF Lists, FreeNet
  <2>3. \A p \in Page : Used(c, p) => c.page[p].cn \in Range(d.networks)
    BY <1>3, <1>8, UsedIsOK
  <2> QED
    BY <1>3, <1>5, <1>8, <1>9, <1>10, <2>2, <2>3 DEF NetChange, Lists
<1>12. Good(d)
  BY <1>11, NetChangeGood
<1>13. NetworkAdded(c, d, n)
  BY <1>5, <1>6, <1>7, <1>8, <1>12, Zenon DEF NetworkAdded
<1> QED
  BY <1>13, Zenon

\* recycle_network: the network loses its pages and is as a new one.
LEMMA RecycleGood ==
  ASSUME NEW c, Good(c), NEW n \in Range(c.networks), ~ Referenced(c, n), Settled(c, n)
  PROVE  LET d == Recycle(c, n)
         IN  /\ Good(d) /\ d.memory <= c.memory
             /\ Range(d.networks) = Range(c.networks)
             /\ d.limit = c.limit /\ d.nlimit = c.nlimit /\ d.open = c.open
             /\ d.net[n] = FreeNet
             /\ \A m \in Network \ {n} : /\ d.net[m].ref = c.net[m].ref
                                         /\ d.net[m].nref = c.net[m].nref
                                         /\ d.net[m].zombie = c.net[m].zombie
             /\ \A p \in Page : \/ d.page[p] = c.page[p]
                                \/ Free(c, p) /\ d.page[p] = FreePage
             /\ \A p \in Page : c.page[p].cn # n => d.page[p] = c.page[p]
<1>1. PICK d : d = Recycle(c, n)
  OBVIOUS
<1>2. PICK t : t = DeleteAllPages(c, n)
  OBVIOUS
<1>3. /\ n \in Network /\ c.networks \in Seq(Network) /\ c \in CacheRec /\ Lists(c) /\ Counts(c)
      /\ Range(c.networks) \subseteq Network
  BY GoodTypes DEF Range, Good
<1>4. /\ Trimmed(c, t) /\ \A p \in Page : Free(t, p) => t.page[p].cn # n
      /\ \A p \in Page : c.page[p].cn # n => t.page[p] = c.page[p]
  <2>1. Stripped(c, DeleteAllPages(c, n), n)
    BY <1>3, DeleteAllPagesGood, Zenon
  <2>2. Stripped(c, t, n)
    BY <1>2, <2>1, Zenon
  <2> QED
    BY <2>2 DEF Stripped
<1>5. /\ Good(t) /\ Lists(t) /\ Counts(t) /\ t \in CacheRec /\ t.networks = c.networks
      /\ t.cached = c.cached /\ t.limit = c.limit /\ t.nlimit = c.nlimit /\ t.open = c.open
      /\ t.memory <= c.memory
      /\ \A m \in Network : /\ t.net[m].ref = c.net[m].ref /\ t.net[m].nref = c.net[m].nref
                            /\ t.net[m].zombie = c.net[m].zombie
  BY <1>4, GoodTypes DEF Trimmed, Good
<1>6. PICK s : s = <<n>> \o RemoveFirst(t.networks, n)
  OBVIOUS
<1>7. d = [t EXCEPT !.net[n] = FreeNet, !.networks = s]
  <2>1. Recycle(c, n) = [t EXCEPT !.net[n] = FreeNet, !.networks = <<n>> \o RemoveFirst(@, n)]
    BY <1>2, Zenon DEF Recycle
  <2>2. [t EXCEPT !.net[n] = FreeNet, !.networks = <<n>> \o RemoveFirst(@, n)]
          = [t EXCEPT !.net[n] = FreeNet, !.networks = <<n>> \o RemoveFirst(t.networks, n)]
    BY <1>5 DEF CacheRec
  <2> QED
    BY <1>1, <1>6, <2>1, <2>2, Zenon
<1>8. /\ d.page = t.page /\ d.cached = t.cached /\ d.hash = t.hash
      /\ d.priority = t.priority /\ d.memory = t.memory /\ d.npages = t.npages
      /\ d.limit = t.limit /\ d.nlimit = t.nlimit /\ d.open = t.open
      /\ d.networks = s /\ d.net = [t.net EXCEPT ![n] = FreeNet]
  BY <1>5, <1>7 DEF CacheRec
<1>9. s \in Seq(Network) /\ IsInjective(s) /\ Range(s) = Range(c.networks)
  <2>1. s \in Seq(Network) /\ IsInjective(s) /\ Range(s) = Range(c.networks) \cup {n}
    BY <1>3, <1>5, <1>6, ToFrontDistinct DEF Lists
  <2> QED
    BY <2>1
<1>10. FreeNet \in NetRec /\ FreeNet.nref = 0 /\ FreeNet.npages = 0 /\ FreeNet.zombie = FALSE
  BY DEF FreeNet, NetRec
<1>11. /\ d.net \in [Network -> NetRec] /\ d.net[n] = FreeNet
       /\ \A m \in Network \ {n} : d.net[m] = t.net[m]
  BY <1>3, <1>5, <1>8, <1>10 DEF CacheRec
<1>12. d \in CacheRec
  BY <1>5, <1>7, <1>8, <1>9, <1>11 DEF CacheRec
<1>13. c.net[n].nref = 0 /\ ~ c.net[n].zombie
  <2>1. ~ (c.net[n].nref > 0)
    BY DEF Referenced
  <2>2. c.net[n].nref = Cardinality(Held(c, n)) /\ IsFiniteSet(Held(c, n))
    BY <1>3, FiniteCounts DEF Counts
  <2>3. c.net[n].nref \in Nat
    BY <2>2, FS_CardinalityType
  <2>4. ~ c.net[n].zombie
    BY DEF Settled
  <2> QED
    BY <2>1, <2>3, <2>4
<1>14. \A p \in Page : t.page[p].cn # n
  <2>1. t.net[n].nref = 0
    BY <1>3, <1>5, <1>13
  <2>2. Held(t, n) = {}
    BY <1>3, <1>5, <2>1, FiniteCounts, FS_EmptySet DEF Counts
  <2>3. \A p \in Page : t.page[p].cn = n => Free(t, p)
    BY <1>3, <1>5, <2>2, CacheAssumption DEF Held, Free, Used, CacheRec, PageRec
  <2> QED
    BY <1>4, <2>3
<1>15. NetChange(t, d)
  <2>1. Of(t, n) = {}
    BY <1>14 DEF Of
  <2>2. t.net[n].npages = 0 /\ t.net[n].nref = 0
    BY <1>3, <1>5, <1>13, <2>1, FS_EmptySet DEF Counts
  <2>3. \A m \in Network : /\ d.net[m].nref = t.net[m].nref /\ d.net[m].npages = t.net[m].npages
                           /\ m \notin Range(d.networks) => d.net[m] = FreeNet
    BY <1>5, <1>8, <1>9, <1>10, <1>11, <2>2 DEF Lists
  <2>4. \A p \in Page : Used(t, p) => t.page[p].cn \in Range(d.networks)
    BY <1>5, <1>8, <1>9, UsedIsOK
  <2>5. Counted(d) = Counted(t)
    BY <1>3, <1>5, <1>8, <1>9, <1>10, <1>11, <1>13 DEF Counted
  <2> QED
    BY <1>5, <1>8, <1>9, <1>12, <2>3, <2>4, <2>5 DEF NetChange, Lists, Counts
<1>16. Good(d)
  BY <1>5, <1>15, NetChangeGood
<1>17. \A p \in Page : \/ d.page[p] = c.page[p]
                       \/ Free(c, p) /\ d.page[p] = FreePage
  BY <1>4, <1>8 DEF Trimmed
<1>18. \A m \in Network \ {n} : /\ d.net[m].ref = c.net[m].ref
                                /\ d.net[m].nref = c.net[m].nref
                                /\ d.net[m].zombie = c.net[m].zombie
  BY <1>5, <1>11
<1>19. /\ d.memory <= c.memory /\ Range(d.networks) = Range(c.networks)
       /\ d.limit = c.limit /\ d.nlimit = c.nlimit /\ d.open = c.open
  BY <1>5, <1>8, <1>9
<1>20. \A p \in Page : c.page[p].cn # n => d.page[p] = c.page[p]
  BY <1>4, <1>8
<1> QED
  BY <1>1, <1>11, <1>16, <1>17, <1>18, <1>19, <1>20, Zenon

-----------------------------------------------------------------------------
(* References to pages. *)

\* The page p is referenced r times.
RefTaken(c, d, p, r) ==
  /\ Good(d) /\ d.memory <= c.memory
  /\ Range(d.networks) = Range(c.networks)
  /\ d.limit = c.limit /\ d.nlimit = c.nlimit /\ d.open = c.open
  /\ \A q \in Page \ {p} : d.page[q] = c.page[q]
  /\ d.page[p].ref = r
  /\ d.page[p].kind = c.page[p].kind /\ d.page[p].cn = c.page[p].cn
  /\ \A n \in Network : d.net[n].ref = c.net[n].ref /\ (Settled(c, n) => Settled(d, n))

LEMMA HeldRefGood ==
  ASSUME NEW c, Good(c), NEW p \in Page, c.page[p].ref > 0, NEW r \in Nat \ {0}
  PROVE  RefTaken(c, [c EXCEPT !.page[p].ref = r], p, r)
<1>1. PICK d : d = [c EXCEPT !.page[p].ref = r]
  OBVIOUS
<1>2. /\ c \in CacheRec /\ Lists(c) /\ Counts(c) /\ Used(c, p) /\ ~ Free(c, p)
      /\ c.memory \in Int
  BY GoodTypes, HeldUsed DEF Good
<1>3. PICK x : x = [c.page[p] EXCEPT !.ref = r]
  OBVIOUS
<1>4. c.page \in [Page -> PageRec] /\ c.page[p] \in PageRec /\ c.page[p].ref \in Nat
  BY <1>2 DEF CacheRec, PageRec
<1>5. /\ x \in PageRec /\ x.ref = r /\ x.kind = c.page[p].kind
      /\ x.cn = c.page[p].cn /\ x.zombie = c.page[p].zombie /\ x.block = c.page[p].block
  BY <1>3, <1>4 DEF PageRec
<1>6. d = [c EXCEPT !.page[p] = x]
  BY <1>1, <1>2, <1>3, <1>4 DEF CacheRec, PageRec
<1>7. /\ d.networks = c.networks /\ d.net = c.net /\ d.cached = c.cached /\ d.hash = c.hash
      /\ d.priority = c.priority /\ d.memory = c.memory /\ d.npages = c.npages
      /\ d.limit = c.limit /\ d.nlimit = c.nlimit /\ d.open = c.open
      /\ d.page = [c.page EXCEPT ![p] = x]
  BY <1>2, <1>6 DEF CacheRec
<1>8. /\ d.page \in [Page -> PageRec] /\ d.page[p] = x
      /\ \A q \in Page \ {p} : d.page[q] = c.page[q]
  BY <1>4, <1>5, <1>7
<1>9. d \in CacheRec
  BY <1>2, <1>6, <1>7, <1>8 DEF CacheRec
<1>10. d.page[p].ref > 0 /\ Used(d, p) /\ ~ Free(d, p) /\ d.page[p] # FreePage
  BY <1>2, <1>4, <1>5, <1>8 DEF Used, Free, FreePage
<1>11. PageChange(c, d, p)
  <2>1. PageOK(d, p)
    <3>1. PageOK(c, p) /\ c.page[p] # FreePage
      BY <1>2 DEF Lists, FreePage
    <3> QED
      BY <1>5, <1>7, <1>8, <1>10, <3>1 DEF PageOK
  <2>2. IsInjective(d.priority) /\ Range(d.priority) = Range(c.priority) \ {p}
    BY <1>2, <1>7 DEF Lists
  <2>3. ASSUME NEW g \in Pgno
        PROVE  /\ IsInjective(d.hash[g])
               /\ Range(d.hash[g]) = IF OnHash(d, p, g) THEN Range(c.hash[g]) \cup {p}
                                     ELSE Range(c.hash[g]) \ {p}
    <3>1. OnHash(d, p, g) <=> OnHash(c, p, g)
      BY <1>2, <1>5, <1>8, <1>10 DEF OnHash
    <3>2. p \in Range(c.hash[g]) <=> OnHash(c, p, g)
      BY <1>2 DEF Lists
    <3> QED
      BY <1>2, <1>7, <3>1, <3>2 DEF Lists
  <2>4. \A n \in Network : n \notin Range(d.networks) => d.net[n] = FreeNet
    BY <1>2, <1>7 DEF Lists
  <2> QED
    BY <1>7, <1>8, <1>9, <1>10, <2>1, <2>2, <2>3, <2>4 DEF PageChange
<1>12. CountChange(c, d, p)
  <2>1. ASSUME NEW n \in Network
        PROVE  /\ One(p \in Held(d, n)) = One(p \in Held(c, n))
               /\ One(p \in Of(d, n)) = One(p \in Of(c, n))
    <3>1. (p \in Held(d, n) <=> p \in Held(c, n)) /\ (p \in Of(d, n) <=> p \in Of(c, n))
      BY <1>5, <1>8, <1>10 DEF Held, Of
    <3> QED
      BY <3>1, Zenon DEF One
  <2>2. \A n \in Network : One(p \in Held(c, n)) \in Int /\ One(p \in Of(c, n)) \in Int
    BY DEF One
  <2>3. \A n \in Network : c.net[n].nref \in Int /\ c.net[n].npages \in Int
    BY <1>2 DEF CacheRec, NetRec
  <2>4. \A n \in Network :
          /\ d.net[n].nref = c.net[n].nref + One(p \in Held(d, n)) - One(p \in Held(c, n))
          /\ d.net[n].npages = c.net[n].npages + One(p \in Of(d, n)) - One(p \in Of(c, n))
    BY <1>7, <2>1, <2>2, <2>3
  <2>5. d.npages = c.npages + One(Used(d, p)) - One(Used(c, p))
    BY <1>2, <1>7, <1>10 DEF One, CacheRec
  <2>6. d.memory = c.memory + Weight(d, p) - Weight(c, p)
    BY <1>2, <1>7, <1>10 DEF Weight
  <2>7. d.cached = Cardinality(Counted(d))
    BY <1>2, <1>7 DEF Counted, Counts
  <2> QED
    BY <2>4, <2>5, <2>6, <2>7 DEF CountChange
<1>13. Good(d)
  BY <1>11, <1>12, PageChangeGood
<1>14. \A n \in Network : Settled(c, n) => Settled(d, n)
  BY <1>7 DEF Settled, Referenced
<1>15. RefTaken(c, d, p, r)
  BY <1>2, <1>5, <1>7, <1>8, <1>13, <1>14 DEF RefTaken
<1> QED
  BY <1>1, <1>15, Zenon

LEMMA FreeRefGood ==
  ASSUME NEW c, Good(c), NEW p \in Page, Free(c, p)
  PROVE  RefTaken(c, CachePageRef(c, p), p, 1)
<1>1. PICK d : d = CachePageRef(c, p)
  OBVIOUS
<1>2. PICK m : m = c.page[p].cn
  OBVIOUS
<1>3. PICK e : e = Revive(c, m)
  OBVIOUS
<1>4. PICK k : k = c.page[p].kind.size
  OBVIOUS
<1>5. /\ m \in Range(c.networks) /\ m \in Network /\ ~ (c.page[p].ref > 0) /\ c.page[p].ref = 0
      /\ ~ c.page[p].zombie /\ k \in Nat \ {0} /\ c.page[p].kind \in Kind
      /\ c.page[p].block = k
  BY <1>2, <1>4, FreeIsOK DEF Good
<1>6. /\ Good(e)
      /\ e.networks = c.networks /\ e.page = c.page /\ e.hash = c.hash
      /\ e.priority = c.priority /\ e.memory = c.memory /\ e.npages = c.npages
      /\ e.limit = c.limit /\ e.nlimit = c.nlimit /\ e.open = c.open
      /\ e.net = [c.net EXCEPT ![m].zombie = FALSE]
  <2>1. Revived(c, Revive(c, m), m)
    BY <1>5, ReviveGood, Zenon
  <2>2. Revived(c, e, m)
    BY <1>3, <2>1, Zenon
  <2> QED
    BY <2>2, Zenon DEF Revived
<1>7. /\ e \in CacheRec /\ Lists(e) /\ Counts(e) /\ e.memory \in Int /\ Lists(c) /\ c \in CacheRec
  BY <1>6, GoodTypes DEF Good
<1>8. PICK x : x = [c.page[p] EXCEPT !.ref = 1]
  OBVIOUS
<1>9. PICK y : y = [e.net[m] EXCEPT !.nref = e.net[m].nref + 1]
  OBVIOUS
<1>10. PICK s : s = RemoveFirst(c.priority, p)
  OBVIOUS
<1>11. d = [e EXCEPT !.net[m] = y, !.memory = c.memory - k, !.priority = s, !.page[p] = x]
  <2>1. d = [e EXCEPT !.net[m].nref = @ + 1, !.memory = @ - k,
                      !.priority = RemoveFirst(@, p), !.page[p].ref = 1]
    BY <1>1, <1>2, <1>3, <1>4, <1>5, Zenon DEF CachePageRef
  <2>2. [e EXCEPT !.net[m].nref = @ + 1, !.memory = @ - k,
                  !.priority = RemoveFirst(@, p), !.page[p].ref = 1]
          = [e EXCEPT !.net[m] = [e.net[m] EXCEPT !.nref = e.net[m].nref + 1],
                      !.memory = e.memory - k, !.priority = RemoveFirst(e.priority, p),
                      !.page[p] = [e.page[p] EXCEPT !.ref = 1]]
    BY <1>7 DEF CacheRec
  <2> QED
    BY <1>6, <1>8, <1>9, <1>10, <2>1, <2>2, Zenon
<1>12. /\ d.networks = e.networks /\ d.cached = e.cached /\ d.hash = e.hash
       /\ d.npages = e.npages
       /\ d.limit = e.limit /\ d.nlimit = e.nlimit /\ d.open = e.open
       /\ d.memory = c.memory - k /\ d.priority = s
       /\ d.net = [e.net EXCEPT ![m] = y] /\ d.page = [e.page EXCEPT ![p] = x]
  BY <1>7, <1>11 DEF CacheRec
<1>13. c.page \in [Page -> PageRec] /\ c.page[p] \in PageRec
  BY <1>7 DEF CacheRec
<1>14. /\ x \in PageRec /\ x.ref = 1 /\ x.kind = c.page[p].kind
       /\ x.cn = m /\ x.zombie = c.page[p].zombie /\ x.block = c.page[p].block
  BY <1>2, <1>8, <1>13 DEF PageRec
<1>15. /\ d.page \in [Page -> PageRec] /\ d.page[p] = x
       /\ \A q \in Page \ {p} : d.page[q] = e.page[q]
  BY <1>6, <1>12, <1>13, <1>14
<1>16. e.net \in [Network -> NetRec] /\ e.net[m] \in NetRec
  BY <1>5, <1>7 DEF CacheRec
<1>17. /\ y \in NetRec /\ y.nref = e.net[m].nref + 1 /\ y.ref = e.net[m].ref
       /\ y.npages = e.net[m].npages /\ y.zombie = e.net[m].zombie
  BY <1>9, <1>16 DEF NetRec
<1>18. /\ d.net \in [Network -> NetRec] /\ d.net[m] = y
       /\ \A n \in Network \ {m} : d.net[n] = e.net[n]
  BY <1>5, <1>12, <1>16, <1>17
<1>19. s \in Seq(Page) /\ IsInjective(s) /\ Range(s) = Range(e.priority) \ {p}
  <2>1. e.priority \in Seq(Page) /\ IsInjective(e.priority)
    BY <1>7 DEF Lists, CacheRec
  <2> QED
    BY <1>6, <1>10, <2>1, RemoveFirstDistinct
<1>20. d \in CacheRec
  <2>1. c.memory - k \in Int
    BY <1>5, <1>6, <1>7
  <2> QED
    BY <1>7, <1>11, <1>12, <1>15, <1>18, <1>19, <2>1 DEF CacheRec
<1>21. m # NULL /\ d.page[p].ref > 0 /\ Used(d, p) /\ ~ Free(d, p) /\ d.page[p] # FreePage
  BY <1>5, <1>14, <1>15, CacheAssumption DEF Used, Free, FreePage
<1>22. Used(e, p) /\ Free(e, p)
  BY <1>6 DEF Free, Used
<1>23. PageChange(e, d, p)
  <2>1. PageOK(d, p)
    BY <1>4, <1>5, <1>6, <1>12, <1>14, <1>15 DEF PageOK
  <2>2. ASSUME NEW g \in Pgno
        PROVE  /\ IsInjective(d.hash[g])
               /\ Range(d.hash[g]) = IF OnHash(d, p, g) THEN Range(e.hash[g]) \cup {p}
                                     ELSE Range(e.hash[g]) \ {p}
    <3>1. OnHash(d, p, g) <=> OnHash(e, p, g)
      BY <1>6, <1>14, <1>15, <1>21, <1>22 DEF OnHash
    <3>2. p \in Range(e.hash[g]) <=> OnHash(e, p, g)
      BY <1>7 DEF Lists
    <3> QED
      BY <1>7, <1>12, <3>1, <3>2 DEF Lists
  <2>3. \A n \in Network : n \notin Range(d.networks) => d.net[n] = FreeNet
    BY <1>5, <1>6, <1>7, <1>12, <1>18 DEF Lists
  <2> QED
    BY <1>12, <1>15, <1>19, <1>20, <1>21, <2>1, <2>2, <2>3 DEF PageChange
<1>24. CountChange(e, d, p)
  <2>1. /\ p \in Held(d, m) /\ p \notin Held(e, m) /\ p \in Of(d, m) /\ p \in Of(e, m)
        /\ \A n \in Network \ {m} : /\ p \notin Held(d, n) /\ p \notin Held(e, n)
                                    /\ p \notin Of(d, n) /\ p \notin Of(e, n)
    BY <1>2, <1>5, <1>6, <1>14, <1>15, <1>21 DEF Held, Of
  <2>2. \A n \in Network : e.net[n].nref \in Int /\ e.net[n].npages \in Int
    BY <1>7 DEF CacheRec, NetRec
  <2>3. ASSUME NEW n \in Network
        PROVE  /\ d.net[n].nref = e.net[n].nref + One(p \in Held(d, n)) - One(p \in Held(e, n))
               /\ d.net[n].npages = e.net[n].npages + One(p \in Of(d, n)) - One(p \in Of(e, n))
    <3>1. CASE n = m
      BY <1>17, <1>18, <2>1, <2>2, <3>1 DEF One
    <3>2. CASE n # m
      BY <1>18, <2>1, <2>2, <3>2 DEF One
    <3> QED
      BY <3>1, <3>2
  <2>4. d.npages = e.npages + One(Used(d, p)) - One(Used(e, p))
    BY <1>7, <1>12, <1>21, <1>22 DEF One, CacheRec
  <2>5. d.memory = e.memory + Weight(d, p) - Weight(e, p)
    BY <1>4, <1>5, <1>6, <1>7, <1>12, <1>21, <1>22 DEF Weight
  <2>6. Counted(d) = Counted(e)
    BY <1>12, <1>17, <1>18, <1>7 DEF Counted, CacheRec, Range
  <2> QED
    BY <1>7, <1>12, <2>3, <2>4, <2>5, <2>6 DEF CountChange, Counts
<1>25. Good(d)
  BY <1>6, <1>23, <1>24, PageChangeGood
<1>26. /\ d.net[m].ref = c.net[m].ref /\ ~ d.net[m].zombie
       /\ \A n \in Network \ {m} : d.net[n] = c.net[n]
  <2>1. PICK z : z = [c.net[m] EXCEPT !.zombie = FALSE]
    OBVIOUS
  <2>2. z.ref = c.net[m].ref /\ ~ z.zombie
    BY <1>5, <1>7, <2>1 DEF CacheRec, NetRec
  <2>3. e.net = [c.net EXCEPT ![m] = z]
    BY <1>6, <2>1, Zenon
  <2>4. e.net[m] = z /\ \A n \in Network \ {m} : e.net[n] = c.net[n]
    BY <1>5, <1>7, <2>3 DEF CacheRec
  <2> QED
    BY <1>17, <1>18, <2>2, <2>4
<1>27. \A n \in Network : d.net[n].ref = c.net[n].ref /\ (Settled(c, n) => Settled(d, n))
  BY <1>6, <1>12, <1>26 DEF Settled, Referenced
<1>28. d.memory <= c.memory
  BY <1>5, <1>6, <1>7, <1>12
<1>29. /\ Range(d.networks) = Range(c.networks)
       /\ d.limit = c.limit /\ d.nlimit = c.nlimit /\ d.open = c.open
       /\ \A q \in Page \ {p} : d.page[q] = c.page[q]
       /\ d.page[p].ref = 1
       /\ d.page[p].kind = c.page[p].kind /\ d.page[p].cn = c.page[p].cn
  BY <1>2, <1>6, <1>12, <1>14, <1>15
<1>30. RefTaken(c, d, p, 1)
  BY <1>25, <1>27, <1>28, <1>29, Zenon DEF RefTaken
<1> QED
  BY <1>1, <1>30, Zenon

\* The last reference to a page is given back: the page stays for as long as
\* there is memory, or is freed.
LastGiven(c, d, p) ==
  /\ Good(d) /\ d.networks = c.networks
  /\ d.limit = c.limit /\ d.nlimit = c.nlimit /\ d.open = c.open
  /\ \A q \in Page \ {p} : d.page[q] = c.page[q]
  /\ \/ d.page[p] = FreePage
     \/ /\ d.page[p].kind = c.page[p].kind /\ d.page[p].cn = c.page[p].cn
        /\ d.page[p].ref = 0
  /\ \A n \in Network : d.net[n].ref = c.net[n].ref /\ d.net[n].zombie = c.net[n].zombie
  /\ \A n \in Network \ {c.page[p].cn} : d.net[n].nref = c.net[n].nref

Given(c, p) == [Unheld(c, p) EXCEPT !.net[c.page[p].cn].nref = @ - 1]

LEMMA KeptGood ==
  ASSUME NEW c, Good(c), NEW p \in Page, c.page[p].ref = 1, ~ c.page[p].zombie
  PROVE  LastGiven(c, Given(c, p), p)
<1>1. PICK d : d = Given(c, p)
  OBVIOUS
<1>2. PICK m : m = c.page[p].cn
  OBVIOUS
<1>3. PICK k : k = c.page[p].kind.size
  OBVIOUS
<1>4. Lists(c) /\ Counts(c) /\ c \in CacheRec /\ c.memory \in Nat /\ Used(c, p) /\ ~ Free(c, p)
  BY GoodTypes, HeldUsed DEF Good
<1>5. /\ m \in Range(c.networks) /\ m \in Network /\ k \in Nat \ {0}
      /\ c.page[p].kind \in Kind /\ c.page[p].block = k
  BY <1>2, <1>3, <1>4, UsedIsOK
<1>6. PICK x : x = [c.page[p] EXCEPT !.ref = 0]
  OBVIOUS
<1>7. PICK y : y = [c.net[m] EXCEPT !.nref = c.net[m].nref - 1]
  OBVIOUS
<1>8. PICK s : s = Append(c.priority, p)
  OBVIOUS
<1>9. d = [c EXCEPT !.page[p] = x, !.priority = s, !.memory = c.memory + k, !.net[m] = y]
  <2>1. PICK u : u = [c EXCEPT !.page[p].ref = 0, !.priority = Append(@, p), !.memory = @ + k]
    OBVIOUS
  <2>2. d = [u EXCEPT !.net[m].nref = @ - 1]
    BY <1>1, <1>2, <1>3, <2>1, Zenon DEF Given, Unheld
  <2>3. u = [c EXCEPT !.page[p] = x, !.priority = s, !.memory = c.memory + k]
    BY <1>4, <1>6, <1>8, <2>1 DEF CacheRec
  <2>4. d = [u EXCEPT !.net[m] = [u.net[m] EXCEPT !.nref = u.net[m].nref - 1]]
    BY <1>4, <2>2, <2>3 DEF CacheRec
  <2>5. u.net = c.net
    BY <1>4, <2>3 DEF CacheRec
  <2>6. d = [u EXCEPT !.net[m] = y]
    BY <1>7, <2>4, <2>5, Zenon
  <2> QED
    BY <1>4, <2>3, <2>6 DEF CacheRec
<1>10. /\ d.networks = c.networks /\ d.cached = c.cached /\ d.hash = c.hash
       /\ d.npages = c.npages
       /\ d.limit = c.limit /\ d.nlimit = c.nlimit /\ d.open = c.open
       /\ d.memory = c.memory + k /\ d.priority = s
       /\ d.net = [c.net EXCEPT ![m] = y] /\ d.page = [c.page EXCEPT ![p] = x]
  BY <1>4, <1>9 DEF CacheRec
<1>11. c.page \in [Page -> PageRec] /\ c.page[p] \in PageRec
  BY <1>4 DEF CacheRec
<1>12. /\ x \in PageRec /\ x.ref = 0 /\ x.kind = c.page[p].kind
       /\ x.cn = m /\ x.zombie = c.page[p].zombie /\ x.block = c.page[p].block
  BY <1>2, <1>6, <1>11 DEF PageRec
<1>13. /\ d.page \in [Page -> PageRec] /\ d.page[p] = x
       /\ \A q \in Page \ {p} : d.page[q] = c.page[q]
  BY <1>10, <1>11, <1>12
<1>14. c.net \in [Network -> NetRec] /\ c.net[m] \in NetRec
  BY <1>4, <1>5 DEF CacheRec
<1>15. /\ y \in NetRec /\ y.nref = c.net[m].nref - 1 /\ y.ref = c.net[m].ref
       /\ y.npages = c.net[m].npages /\ y.zombie = c.net[m].zombie
  BY <1>7, <1>14 DEF NetRec
<1>16. /\ d.net \in [Network -> NetRec] /\ d.net[m] = y
       /\ \A n \in Network \ {m} : d.net[n] = c.net[n]
  BY <1>5, <1>10, <1>14, <1>15
<1>17. s \in Seq(Page) /\ IsInjective(s) /\ Range(s) = Range(c.priority) \cup {p}
  <2>1. c.priority \in Seq(Page) /\ IsInjective(c.priority) /\ p \notin Range(c.priority)
    BY <1>4 DEF Lists, CacheRec
  <2> QED
    BY <1>8, <2>1, AppendDistinct
<1>18. d \in CacheRec
  <2>1. c.memory + k \in Int
    BY <1>4, <1>5
  <2> QED
    BY <1>4, <1>9, <1>10, <1>13, <1>16, <1>17, <2>1 DEF CacheRec
<1>19. m # NULL /\ d.page[p].ref = 0 /\ Used(d, p) /\ Free(d, p)
  BY <1>5, <1>12, <1>13, CacheAssumption DEF Used, Free
<1>20. PageChange(c, d, p)
  <2>1. PageOK(d, p)
    BY <1>5, <1>10, <1>12, <1>13, <1>3 DEF PageOK
  <2>2. ASSUME NEW g \in Pgno
        PROVE  /\ IsInjective(d.hash[g])
               /\ Range(d.hash[g]) = IF OnHash(d, p, g) THEN Range(c.hash[g]) \cup {p}
                                     ELSE Range(c.hash[g]) \ {p}
    <3>1. OnHash(d, p, g) <=> OnHash(c, p, g)
      BY <1>4, <1>12, <1>13, <1>19 DEF OnHash
    <3>2. p \in Range(c.hash[g]) <=> OnHash(c, p, g)
      BY <1>4 DEF Lists
    <3> QED
      BY <1>4, <1>10, <3>1, <3>2 DEF Lists
  <2>3. \A n \in Network : n \notin Range(d.networks) => d.net[n] = FreeNet
    BY <1>4, <1>5, <1>10, <1>16 DEF Lists
  <2> QED
    BY <1>10, <1>13, <1>17, <1>18, <1>19, <2>1, <2>2, <2>3 DEF PageChange
<1>21. CountChange(c, d, p)
  <2>1. /\ p \notin Held(d, m) /\ p \in Held(c, m) /\ p \in Of(d, m) /\ p \in Of(c, m)
        /\ \A n \in Network \ {m} : /\ p \notin Held(d, n) /\ p \notin Held(c, n)
                                    /\ p \notin Of(d, n) /\ p \notin Of(c, n)
    BY <1>2, <1>5, <1>12, <1>13, <1>19 DEF Held, Of
  <2>2. \A n \in Network : c.net[n].nref \in Int /\ c.net[n].npages \in Int
    BY <1>4 DEF CacheRec, NetRec
  <2>3. ASSUME NEW n \in Network
        PROVE  /\ d.net[n].nref = c.net[n].nref + One(p \in Held(d, n)) - One(p \in Held(c, n))
               /\ d.net[n].npages = c.net[n].npages + One(p \in Of(d, n)) - One(p \in Of(c, n))
    <3>1. CASE n = m
      BY <1>15, <1>16, <2>1, <2>2, <3>1 DEF One
    <3>2. CASE n # m
      BY <1>16, <2>1, <2>2, <3>2 DEF One
    <3> QED
      BY <3>1, <3>2
  <2>4. d.npages = c.npages + One(Used(d, p)) - One(Used(c, p))
    BY <1>4, <1>10, <1>19 DEF One, CacheRec
  <2>5. d.memory = c.memory + Weight(d, p) - Weight(c, p)
    BY <1>3, <1>4, <1>5, <1>10, <1>12, <1>13, <1>19 DEF Weight
  <2>6. Counted(d) = Counted(c)
    BY <1>4, <1>10, <1>15, <1>16 DEF Counted, CacheRec, Range
  <2> QED
    BY <1>4, <1>10, <2>3, <2>4, <2>5, <2>6 DEF CountChange, Counts
<1>22. Good(d)
  BY <1>20, <1>21, PageChangeGood
<1>23. LastGiven(c, d, p)
  BY <1>2, <1>10, <1>12, <1>13, <1>15, <1>16, <1>22 DEF LastGiven
<1> QED
  BY <1>1, <1>23, Zenon

LEMMA FreedGood ==
  ASSUME NEW c, Good(c), NEW p \in Page, c.page[p].ref = 1, c.page[p].zombie
  PROVE  LastGiven(c, Given(c, p), p)
<1>1. PICK d : d = Given(c, p)
  OBVIOUS
<1>2. PICK m : m = c.page[p].cn
  OBVIOUS
<1>3. PICK g : g = c.page[p].kind.pgno
  OBVIOUS
<1>4. Lists(c) /\ Counts(c) /\ c \in CacheRec /\ c.memory \in Nat /\ Used(c, p) /\ ~ Free(c, p)
  BY GoodTypes, HeldUsed DEF Good
<1>5. m \in Range(c.networks) /\ m \in Network /\ c.page[p].kind \in Kind /\ g \in Pgno
  BY <1>2, <1>3, <1>4, UsedIsOK
<1>6. PICK x : x = [c.page[p] EXCEPT !.ref = 0]
  OBVIOUS
<1>27. PICK z : z = [c.net[m] EXCEPT !.npages = c.net[m].npages - 1]
  OBVIOUS
<1>7. PICK y : y = [z EXCEPT !.nref = z.nref - 1]
  OBVIOUS
<1>8. PICK s : s = RemoveFirst(c.priority, p)
  OBVIOUS
<1>9. PICK r : r = RemoveFirst(c.hash[g], p)
  OBVIOUS
<1>10. c.page \in [Page -> PageRec] /\ c.page[p] \in PageRec /\ FreePage \in PageRec
  BY <1>4 DEF CacheRec, PageRec, FreePage
<1>11. c.net \in [Network -> NetRec] /\ c.net[m] \in NetRec
  BY <1>4, <1>5 DEF CacheRec
<1>12. /\ x \in PageRec /\ x.ref = 0 /\ x.kind = c.page[p].kind
       /\ x.cn = m /\ x.zombie
  BY <1>2, <1>6, <1>10 DEF PageRec
<1>13. PICK u : u = [c EXCEPT !.page[p] = x]
  OBVIOUS
<1>28. /\ u.networks = c.networks /\ u.net = c.net /\ u.hash = c.hash /\ u.priority = c.priority
       /\ u.memory = c.memory /\ u.cached = c.cached /\ u.npages = c.npages
       /\ u.limit = c.limit /\ u.nlimit = c.nlimit /\ u.open = c.open
       /\ u.page = [c.page EXCEPT ![p] = x] /\ u.page[p] = x /\ u \in CacheRec
  BY <1>4, <1>10, <1>12, <1>13 DEF CacheRec
<1>29. PICK v : v = [u EXCEPT !.hash[g] = r, !.priority = s, !.net[m] = z, !.page[p] = FreePage,
                              !.npages = c.npages - 1]
  OBVIOUS
<1>30. /\ v.networks = c.networks /\ v.cached = c.cached /\ v.memory = c.memory
       /\ v.npages = c.npages - 1
       /\ v.limit = c.limit /\ v.nlimit = c.nlimit /\ v.open = c.open /\ v.priority = s
       /\ v.net = [c.net EXCEPT ![m] = z] /\ v.page = [u.page EXCEPT ![p] = FreePage]
       /\ v.hash = [c.hash EXCEPT ![g] = r]
  BY <1>28, <1>29 DEF CacheRec
<1>31. v.page = [c.page EXCEPT ![p] = FreePage]
  BY <1>10, <1>28, <1>30
<1>32. d = [v EXCEPT !.net[m] = y]
  <2>1. u = [c EXCEPT !.page[p].ref = 0]
    <3>1. [c EXCEPT !.page[p].ref = 0] = [c EXCEPT !.page[p] = [c.page[p] EXCEPT !.ref = 0]]
      BY <1>4 DEF CacheRec
    <3> QED
      BY <1>6, <1>13, <3>1, Zenon
  <2>2. PICK w : w = DeletePage(u, p)
    OBVIOUS
  <2>3. d = [w EXCEPT !.net[m].nref = @ - 1]
    BY <1>1, <1>2, <2>1, <2>2, Zenon DEF Given, Unheld
  <2>4. ~ (u.page[p].ref > 0) /\ u.page[p].zombie /\ u.page[p].cn = m /\ u.page[p].kind.pgno = g
    BY <1>3, <1>12, <1>28
  <2>5. w = [u EXCEPT !.memory = u.memory,
                      !.hash[g] = RemoveFirst(@, p),
                      !.priority = RemoveFirst(@, p),
                      !.net[m].npages = @ - 1,
                      !.page[p] = FreePage,
                      !.npages = @ - 1]
    BY <2>2, <2>4, Zenon DEF DeletePage
  <2>6. w = [u EXCEPT !.hash[g] = r, !.priority = s,
                      !.net[m] = [u.net[m] EXCEPT !.npages = u.net[m].npages - 1],
                      !.page[p] = FreePage,
                      !.npages = u.npages - 1]
    BY <1>8, <1>9, <1>28, <2>5 DEF CacheRec
  <2>7. w = v
    BY <1>27, <1>28, <1>29, <2>6, Zenon
  <2>8. d = [v EXCEPT !.net[m] = [v.net[m] EXCEPT !.nref = v.net[m].nref - 1]]
    <3>1. v.net[m] = z
      BY <1>5, <1>11, <1>30
    <3> QED
      BY <1>28, <1>29, <2>3, <2>7 DEF CacheRec
  <2>9. v.net[m] = z
    BY <1>5, <1>11, <1>30
  <2> QED
    BY <1>7, <2>8, <2>9, Zenon
<1>14. /\ d.networks = c.networks /\ d.cached = c.cached /\ d.memory = c.memory
       /\ d.npages = c.npages - 1
       /\ d.limit = c.limit /\ d.nlimit = c.nlimit /\ d.open = c.open /\ d.priority = s
       /\ d.net = [v.net EXCEPT ![m] = y] /\ d.page = [c.page EXCEPT ![p] = FreePage]
       /\ d.hash = [c.hash EXCEPT ![g] = r]
  BY <1>28, <1>29, <1>30, <1>31, <1>32 DEF CacheRec
<1>15. /\ d.page \in [Page -> PageRec] /\ d.page[p] = FreePage
       /\ \A q \in Page \ {p} : d.page[q] = c.page[q]
  BY <1>10, <1>14
<1>16. /\ y \in NetRec /\ y.nref = c.net[m].nref - 1 /\ y.ref = c.net[m].ref
       /\ y.npages = c.net[m].npages - 1 /\ y.zombie = c.net[m].zombie
       /\ z \in NetRec
  <2>1. /\ z \in NetRec /\ z.nref = c.net[m].nref /\ z.ref = c.net[m].ref
        /\ z.npages = c.net[m].npages - 1 /\ z.zombie = c.net[m].zombie
    BY <1>11, <1>27 DEF NetRec
  <2> QED
    BY <1>7, <2>1 DEF NetRec
<1>17. /\ d.net \in [Network -> NetRec] /\ d.net[m] = y
       /\ \A n \in Network \ {m} : d.net[n] = c.net[n]
  BY <1>5, <1>11, <1>14, <1>16, <1>30
<1>18. s \in Seq(Page) /\ IsInjective(s) /\ Range(s) = Range(c.priority) \ {p}
  <2>1. c.priority \in Seq(Page) /\ IsInjective(c.priority)
    BY <1>4 DEF Lists, CacheRec
  <2> QED
    BY <1>8, <2>1, RemoveFirstDistinct
<1>19. r \in Seq(Page) /\ IsInjective(r) /\ Range(r) = Range(c.hash[g]) \ {p}
  <2>1. c.hash[g] \in Seq(Page) /\ IsInjective(c.hash[g])
    BY <1>4, <1>5 DEF Lists, CacheRec
  <2> QED
    BY <1>9, <2>1, RemoveFirstDistinct
<1>20. d.hash \in [Pgno -> Seq(Page)] /\ d.hash[g] = r /\ \A h \in Pgno \ {g} : d.hash[h] = c.hash[h]
  BY <1>4, <1>5, <1>14, <1>19 DEF CacheRec
<1>21. d \in CacheRec
  <2>1. c.npages - 1 \in Int
    BY <1>4 DEF CacheRec
  <2>2. v \in CacheRec
    <3>1. v.net \in [Network -> NetRec] /\ v.page \in [Page -> PageRec]
      <4>1. v.page = d.page
        BY <1>14, <1>31
      <4>2. v.net \in [Network -> NetRec]
        <5>1. z \in NetRec /\ c.net \in [Network -> NetRec] /\ v.net = [c.net EXCEPT ![m] = z]
          BY <1>11, <1>16, <1>30
        <5> QED
          BY <5>1
      <4> QED
        BY <1>15, <4>1, <4>2
    <3>2. v.hash \in [Pgno -> Seq(Page)]
      BY <1>14, <1>20, <1>30
    <3> QED
      BY <1>18, <1>28, <1>29, <1>30, <2>1, <3>1, <3>2 DEF CacheRec
  <2> QED
    BY <1>17, <1>32, <1>14, <2>2 DEF CacheRec
<1>22. m # NULL /\ ~ Used(d, p) /\ ~ Free(d, p)
  BY <1>5, <1>15, CacheAssumption DEF Used, Free, FreePage
<1>23. PageChange(c, d, p)
  <2>1. PageOK(d, p)
    BY <1>15 DEF PageOK
  <2>2. ASSUME NEW h \in Pgno
        PROVE  /\ IsInjective(d.hash[h])
               /\ Range(d.hash[h]) = IF OnHash(d, p, h) THEN Range(c.hash[h]) \cup {p}
                                     ELSE Range(c.hash[h]) \ {p}
    <3>1. ~ OnHash(d, p, h) /\ ~ OnHash(c, p, h)
      BY <1>22 DEF OnHash
    <3>2. p \notin Range(c.hash[h])
      BY <1>4, <3>1 DEF Lists
    <3> QED
      BY <1>4, <1>19, <1>20, <3>1, <3>2 DEF Lists
  <2>3. \A n \in Network : n \notin Range(d.networks) => d.net[n] = FreeNet
    BY <1>4, <1>5, <1>14, <1>17 DEF Lists
  <2> QED
    BY <1>14, <1>15, <1>18, <1>21, <1>22, <2>1, <2>2, <2>3 DEF PageChange
<1>24. CountChange(c, d, p)
  <2>1. /\ p \notin Held(d, m) /\ p \in Held(c, m) /\ p \notin Of(d, m) /\ p \in Of(c, m)
        /\ \A n \in Network \ {m} : /\ p \notin Held(d, n) /\ p \notin Held(c, n)
                                    /\ p \notin Of(d, n) /\ p \notin Of(c, n)
    BY <1>2, <1>5, <1>15, CacheAssumption DEF Held, Of, FreePage
  <2>2. \A n \in Network : c.net[n].nref \in Int /\ c.net[n].npages \in Int
    BY <1>4 DEF CacheRec, NetRec
  <2>3. ASSUME NEW n \in Network
        PROVE  /\ d.net[n].nref = c.net[n].nref + One(p \in Held(d, n)) - One(p \in Held(c, n))
               /\ d.net[n].npages = c.net[n].npages + One(p \in Of(d, n)) - One(p \in Of(c, n))
    <3>1. CASE n = m
      BY <1>16, <1>17, <2>1, <2>2, <3>1 DEF One
    <3>2. CASE n # m
      BY <1>17, <2>1, <2>2, <3>2 DEF One
    <3> QED
      BY <3>1, <3>2
  <2>4. d.npages = c.npages + One(Used(d, p)) - One(Used(c, p))
    BY <1>4, <1>14, <1>22 DEF One, CacheRec
  <2>5. d.memory = c.memory + Weight(d, p) - Weight(c, p)
    BY <1>4, <1>14, <1>22 DEF Weight
  <2>6. Counted(d) = Counted(c)
    BY <1>4, <1>14, <1>16, <1>17 DEF Counted, CacheRec, Range
  <2> QED
    BY <1>4, <1>14, <2>3, <2>4, <2>5, <2>6 DEF CountChange, Counts
<1>25. Good(d)
  BY <1>23, <1>24, PageChangeGood
<1>26. LastGiven(c, d, p)
  BY <1>2, <1>14, <1>15, <1>16, <1>17, <1>25 DEF LastGiven
<1> QED
  BY <1>1, <1>26, Zenon

Bounded(c) ==
  /\ \A n \in Network : c.net[n].ref <= MaxRef
  /\ \A p \in Page : c.page[p].ref <= MaxRef

\* What each call leaves behind.
Sound(c) ==
  Good(c) /\ c.memory <= c.limit /\ (\A n \in Network : Settled(c, n)) /\ Bounded(c)

\* What each call does to the pages that are held.
Keeps(c, d) ==
  \A p \in Page : c.page[p].ref > 0 =>
    \/ d.page[p].kind = c.page[p].kind /\ d.page[p].cn = c.page[p].cn
    \/ c.page[p].ref = 1 /\ d.page[p] = FreePage

\* The pages that are given up: a page of a network in use only when no other
\* is left, or when its network is given up, or for its own new version.
Replaced(c, d, p) ==
  \E q \in Page : /\ Used(d, q) /\ d.page[q].ref = 1
                  /\ ~ Used(c, q) \/ q = p
                  /\ d.page[q].cn = c.page[p].cn
                  /\ d.page[q].kind.pgno = c.page[p].kind.pgno

InOrder(c, d) ==
  \/ NoneIdle(d)
  \/ \A p \in Page : InUse(c, p) => \/ d.page[p].kind = c.page[p].kind
                                    \/ d.net[c.page[p].cn].ref = 0
                                    \/ Replaced(c, d, p)

LEMMA SparesInOrder ==
  ASSUME NEW c, NEW d, Spares(c, d) \/ NoneIdle(d)
  PROVE  InOrder(c, d)
  BY DEF InOrder, Spares

LEMMA MaxRefIs == MaxRef \in Nat \ {0} /\ FreeNet.ref = 0 /\ FreePage.ref = 0
  BY CacheAssumption DEF FreeNet, FreePage

LEMMA TrimmedStays ==
  ASSUME NEW c, Good(c), NEW d, Trimmed(c, d)
  PROVE  /\ \A n \in Network : Settled(c, n) => Settled(d, n)
         /\ Bounded(c) => Bounded(d)
         /\ \A p \in Page : c.page[p].ref > 0 => d.page[p] = c.page[p]
<1>1. /\ d.networks = c.networks
      /\ \A n \in Network : /\ d.net[n].ref = c.net[n].ref /\ d.net[n].nref = c.net[n].nref
                            /\ d.net[n].zombie = c.net[n].zombie
      /\ \A p \in Page : \/ d.page[p] = c.page[p]
                         \/ Free(c, p) /\ d.page[p] = FreePage
  BY DEF Trimmed
<1>2. \A n \in Network : Settled(c, n) => Settled(d, n)
  BY <1>1 DEF Settled, Referenced
<1>3. Bounded(c) => Bounded(d)
  BY <1>1, MaxRefIs DEF Bounded
<1>4. \A p \in Page : c.page[p].ref > 0 => d.page[p] = c.page[p]
  BY <1>1 DEF Free
<1> QED
  BY <1>2, <1>3, <1>4

LEMMA PrunedStays ==
  ASSUME NEW c, Good(c), NEW d, Pruned(c, d)
  PROVE  /\ Bounded(c) => Bounded(d)
         /\ \A p \in Page : c.page[p].ref > 0 => d.page[p] = c.page[p]
<1>1. /\ \A n \in Range(d.networks) : d.net[n].ref = c.net[n].ref
      /\ \A p \in Page : \/ d.page[p] = c.page[p]
                         \/ Free(c, p) /\ d.page[p] = FreePage
      /\ Good(d)
  BY DEF Pruned
<1>2. \A n \in Network : n \notin Range(d.networks) => d.net[n] = FreeNet
  BY <1>1 DEF Good, Lists
<1>3. Bounded(c) => Bounded(d)
  BY <1>1, <1>2, MaxRefIs DEF Bounded
<1>4. \A p \in Page : c.page[p].ref > 0 => d.page[p] = c.page[p]
  BY <1>1 DEF Free
<1> QED
  BY <1>3, <1>4

\* cache_page_unref.
LEMMA UnrefSound ==
  ASSUME NEW c, Sound(c), NEW p \in Page, c.page[p].ref > 0
  PROVE  LET d == CachePageUnref(c, p)
         IN  Sound(d) /\ Keeps(c, d) /\ InOrder(c, d) /\ d.open = c.open
<1>1. /\ Good(c) /\ Lists(c) /\ c \in CacheRec /\ c.page[p].ref \in Nat
      /\ c.memory \in Int /\ c.limit \in Int
  <2>1. Good(c) /\ Lists(c)
    BY DEF Sound, Good
  <2> QED
    BY <2>1, GoodTypes DEF CacheRec, PageRec
<1>2. CASE c.page[p].ref > 1
  <2>1. PICK r : r = c.page[p].ref - 1
    OBVIOUS
  <2>2. r \in Nat \ {0} /\ r <= c.page[p].ref
    BY <1>1, <1>2, <2>1
  <2>3. PICK d : d = [c EXCEPT !.page[p].ref = r]
    OBVIOUS
  <2>4. CachePageUnref(c, p) = d
    <3>1. CachePageUnref(c, p) = [c EXCEPT !.page[p].ref = @ - 1]
      BY <1>2, Zenon DEF CachePageUnref
    <3>2. [c EXCEPT !.page[p].ref = @ - 1] = [c EXCEPT !.page[p].ref = c.page[p].ref - 1]
      BY <1>1 DEF CacheRec, PageRec
    <3> QED
      BY <2>1, <2>3, <3>1, <3>2, Zenon
  <2>5. RefTaken(c, d, p, r)
    BY <1>1, <2>2, <2>3, HeldRefGood, Zenon
  <2>6. Sound(d)
    <3>1. d.memory <= d.limit
      <4>1. Good(d) /\ d.memory <= c.memory /\ d.limit = c.limit /\ c.memory <= c.limit
        BY <2>5 DEF RefTaken, Sound
      <4>2. d.memory \in Int
        BY <4>1, GoodTypes
      <4> QED
        BY <1>1, <4>1, <4>2
    <3>2. Bounded(d)
      <4>1. \A n \in Network : d.net[n].ref <= MaxRef
        BY <2>5 DEF RefTaken, Sound, Bounded
      <4>2. \A q \in Page : c.page[q].ref <= MaxRef
        BY DEF Sound, Bounded
      <4>3. d.page[p].ref <= MaxRef
        BY <1>1, <2>2, <2>5, <4>2, MaxRefIs DEF RefTaken
      <4>4. \A q \in Page : d.page[q].ref <= MaxRef
        BY <2>5, <4>2, <4>3 DEF RefTaken
      <4> QED
        BY <4>1, <4>4 DEF Bounded
    <3> QED
      BY <2>5, <3>1, <3>2 DEF RefTaken, Sound
  <2>7. Keeps(c, d) /\ InOrder(c, d) /\ d.open = c.open
    BY <2>5 DEF RefTaken, Keeps, InOrder
  <2> QED
    BY <2>4, <2>6, <2>7, Zenon
<1>3. CASE ~ (c.page[p].ref > 1)
  <2>1. c.page[p].ref = 1
    BY <1>1, <1>3
  <2>2. PICK m : m = c.page[p].cn
    OBVIOUS
  <2>3. PICK d : d = Given(c, p)
    OBVIOUS
  <2>4. LastGiven(c, d, p)
    BY <1>1, <2>1, <2>3, KeptGood, FreedGood
  <2>5. PICK e : e = DropNetworkIfZombie(d, m)
    OBVIOUS
  <2>6. PICK f : f = DeleteSurplusPages(e)
    OBVIOUS
  <2>7. CachePageUnref(c, p) = f
    BY <1>3, <2>2, <2>3, <2>5, <2>6, Zenon DEF CachePageUnref, Given
  <2>8. m \in Range(c.networks) /\ m \in Network
    BY <1>1, <2>2, HeldUsed, UsedIsOK
  <2>9. Good(d) /\ m \in Range(d.networks)
    BY <2>4, <2>8 DEF LastGiven
  <2>10. \A n \in Network \ {m} : Settled(d, n)
    BY <2>2, <2>4 DEF LastGiven, Sound, Settled, Referenced
  <2>11. Pruned(d, e) /\ Spares(d, e) /\ \A n \in Network : Settled(e, n)
    <3>1. CASE d.net[m].zombie /\ ~ Referenced(d, m)
      <4>1. e = DeleteNetwork(d, m)
        BY <2>5, <3>1, Zenon DEF DropNetworkIfZombie
      <4>2. Dropped(d, e, m)
        BY <2>9, <4>1, DeleteNetworkGood, Zenon
      <4>3. Settled(e, m)
        BY <4>2 DEF Dropped, Settled
      <4>4. \A n \in Network \ {m} : Settled(e, n)
        BY <2>10, <4>2 DEF Dropped, Settled, Referenced
      <4>5. Spares(d, e)
        BY <3>1, <4>2, DroppedSpares DEF Referenced
      <4> QED
        BY <4>2, <4>3, <4>4, <4>5 DEF Dropped
    <3>2. CASE ~ (d.net[m].zombie /\ ~ Referenced(d, m))
      <4>1. e = d
        BY <2>5, <3>2, Zenon DEF DropNetworkIfZombie
      <4>2. Settled(d, m)
        BY <3>2 DEF Settled
      <4> QED
        BY <2>9, <2>10, <4>1, <4>2, PrunedSame DEF Spares
    <3> QED
      BY <3>1, <3>2
  <2>12. Good(e)
    BY <2>11 DEF Pruned
  <2>13. Trimmed(e, f) /\ f.memory <= f.limit /\ (Spares(e, f) \/ NoneIdle(f))
    BY <2>6, <2>12, DeleteSurplusPagesGood, Zenon
  <2>14. Bounded(d)
    <3>1. \A n \in Network : d.net[n].ref <= MaxRef
      BY <2>4 DEF LastGiven, Sound, Bounded
    <3>2. \A q \in Page \ {p} : d.page[q].ref <= MaxRef
      BY <2>4 DEF LastGiven, Sound, Bounded
    <3>3. d.page[p].ref = 0
      BY <2>4, MaxRefIs DEF LastGiven
    <3> QED
      BY <3>1, <3>2, <3>3, MaxRefIs DEF Bounded
  <2>15. Sound(f)
    <3>1. Bounded(f) /\ \A n \in Network : Settled(f, n)
      BY <2>9, <2>11, <2>12, <2>13, <2>14, PrunedStays, TrimmedStays
    <3> QED
      BY <2>13, <3>1 DEF Sound, Trimmed
  <2>16. ASSUME NEW q \in Page, c.page[q].ref > 0
         PROVE  \/ f.page[q].kind = c.page[q].kind /\ f.page[q].cn = c.page[q].cn
                \/ c.page[q].ref = 1 /\ f.page[q] = FreePage
    <3>1. CASE q # p
      <4>1. d.page[q] = c.page[q]
        BY <2>4, <3>1 DEF LastGiven
      <4>2. e.page[q] = d.page[q]
        BY <2>9, <2>11, <2>16, <4>1, PrunedStays
      <4>3. f.page[q] = e.page[q]
        BY <2>12, <2>13, <2>16, <4>1, <4>2, TrimmedStays
      <4> QED
        BY <4>1, <4>2, <4>3
    <3>2. CASE q = p
      <4>1. \/ d.page[p] = FreePage
            \/ d.page[p].kind = c.page[p].kind /\ d.page[p].cn = c.page[p].cn
        BY <2>4 DEF LastGiven
      <4>2. e.page[p] = d.page[p] \/ e.page[p] = FreePage
        BY <2>11 DEF Pruned
      <4>3. f.page[p] = e.page[p] \/ f.page[p] = FreePage
        BY <2>13 DEF Trimmed
      <4> QED
        BY <2>1, <3>2, <4>1, <4>2, <4>3
    <3> QED
      BY <3>1, <3>2
  <2>17. f.open = c.open
    BY <2>4, <2>11, <2>13 DEF LastGiven, Pruned, Trimmed
  <2>18. Keeps(c, f)
    BY <2>16 DEF Keeps
  <2>19. InOrder(c, f)
    <3>1. CASE NoneIdle(f)
      BY <3>1, SparesInOrder
    <3>2. CASE Spares(e, f)
      <4> SUFFICES ASSUME NEW q \in Page, InUse(c, q)
                   PROVE  f.page[q] = c.page[q]
        BY SparesInOrder DEF Spares
      <4>1. Free(c, q) /\ c.net[c.page[q].cn].ref > 0 /\ c.page[q].cn \in Network
        BY <1>1, FreeIsOK DEF InUse
      <4>2. d.page[q] = c.page[q] /\ d.net[c.page[q].cn].ref = c.net[c.page[q].cn].ref
        BY <2>1, <2>4, <4>1 DEF LastGiven, Free
      <4>3. InUse(d, q)
        BY <4>1, <4>2 DEF InUse, Free, Used
      <4>4. InUse(e, q) /\ e.page[q] = d.page[q]
        BY <2>11, <4>3, SparesOn
      <4> QED
        BY <3>2, <4>2, <4>4 DEF Spares
    <3> QED
      BY <2>13, <3>1, <3>2
  <2> QED
    BY <2>7, <2>15, <2>17, <2>18, <2>19, Zenon
<1> QED
  BY <1>2, <1>3

-----------------------------------------------------------------------------
(* The death row. *)

DeathRec == [row : Seq(Page), available : Int]

\* Only pages nobody holds are condemned, and the memory that one of them makes
\* available is added to what is left.
RowOK(c, e) ==
  /\ e \in DeathRec
  /\ \A i \in DOMAIN e.row : Free(c, e.row[i])
  /\ Len(e.row) = 0 => e.available = c.limit - c.memory
  /\ Len(e.row) = 1 => e.available = c.limit - c.memory + c.page[e.row[1]].kind.size

LEMMA CondemnOK ==
  ASSUME NEW c, Good(c), NEW e, RowOK(c, e), NEW p \in Page, Free(c, p)
  PROVE  RowOK(c, Condemn(c, e, p)) /\ Range(Condemn(c, e, p).row) = Range(e.row) \cup {p}
<1>1. PICK f : f = Condemn(c, e, p)
  OBVIOUS
<1>2. PICK r : r = e.row
  OBVIOUS
<1>3. PICK k : k = c.page[p].kind.size
  OBVIOUS
<1>4. /\ f = [row |-> Append(r, p), available |-> e.available + k]
      /\ r \in Seq(Page) /\ e.available \in Int /\ k \in Int
      /\ \A i \in DOMAIN r : Free(c, r[i])
      /\ Len(r) = 0 => e.available = c.limit - c.memory
  <2>1. k \in Int
    BY <1>3, FreeIsOK DEF Good
  <2>2. f = [row |-> Append(r, p), available |-> e.available + k]
    BY <1>1, <1>2, <1>3, Zenon DEF Condemn
  <2>3. r \in Seq(Page) /\ e.available \in Int
    BY <1>2 DEF RowOK, DeathRec
  <2>4. /\ \A i \in DOMAIN r : Free(c, r[i])
        /\ Len(r) = 0 => e.available = c.limit - c.memory
    BY <1>2 DEF RowOK
  <2> QED
    BY <2>1, <2>2, <2>3, <2>4
<1>5. f.row = Append(r, p) /\ f.available = e.available + k
  BY <1>4
<1>6. /\ f.row \in Seq(Page) /\ Len(f.row) = Len(r) + 1 /\ Len(r) \in Nat
      /\ f.row[Len(r) + 1] = p /\ \A i \in 1 .. Len(r) : f.row[i] = r[i]
  BY <1>4, <1>5
<1>7. f \in DeathRec
  BY <1>4, <1>6 DEF DeathRec
<1>8. ASSUME NEW i \in DOMAIN f.row
      PROVE  Free(c, f.row[i])
  <2>1. i \in 1 .. Len(r) \/ i = Len(r) + 1
    BY <1>6
  <2>2. CASE i \in 1 .. Len(r)
    BY <1>4, <1>6, <2>2
  <2>3. CASE i = Len(r) + 1
    BY <1>6, <2>3
  <2> QED
    BY <2>1, <2>2, <2>3
<1>9. Len(f.row) = 1 => f.available = c.limit - c.memory + c.page[f.row[1]].kind.size
  <2> SUFFICES ASSUME Len(f.row) = 1
               PROVE  f.available = c.limit - c.memory + c.page[f.row[1]].kind.size
    OBVIOUS
  <2>1. Len(r) = 0
    BY <1>6
  <2>2. f.row[1] = p
    BY <1>6, <2>1
  <2> QED
    BY <1>3, <1>4, <1>5, <2>1, <2>2
<1>10. ~ (Len(f.row) = 0)
  BY <1>6
<1>11. RowOK(c, f)
  BY <1>7, <1>8, <1>9, <1>10 DEF RowOK
<1>12. Range(f.row) = Range(e.row) \cup {p}
  <2>1. Range(f.row) = {f.row[i] : i \in 1 .. Len(r) + 1}
    <3>1. DOMAIN f.row = 1 .. Len(r) + 1
      BY <1>6
    <3> QED
      BY <3>1, Zenon DEF Range
  <2>2. Range(e.row) = {r[i] : i \in 1 .. Len(r)}
    <3>1. DOMAIN r = 1 .. Len(r)
      BY <1>4
    <3> QED
      BY <1>2, <3>1, Zenon DEF Range
  <2> QED
    BY <1>6, <2>1, <2>2
<1> QED
  BY <1>1, <1>11, <1>12, Zenon

\* A second page is condemned only if the first one is not enough, and none is
\* condemned again before all pages of networks nobody uses are.
Wanted(c, k, e) ==
  Len(e.row) > 1 => c.limit - c.memory + c.page[e.row[1]].kind.size < k.size

AllIdle(c, row) == \A p \in Page : IdlePage(c, p) => \E h \in 1 .. Len(row) : row[h] = p

Again(c, row) ==
  \A i, j \in DOMAIN row : i < j /\ row[i] = row[j] =>
    \A p \in Page : IdlePage(c, p) => \E h \in 1 .. j - 1 : row[h] = p

LEMMA CondemnOnce ==
  ASSUME NEW c, NEW k, NEW e, RowOK(c, e), NEW p \in Page,
         e.available < k.size \/ Len(e.row) = 0
  PROVE  /\ Wanted(c, k, e) => Wanted(c, k, Condemn(c, e, p))
         /\ Again(c, e.row) /\ (p \notin Range(e.row) \/ AllIdle(c, e.row))
              => Again(c, Condemn(c, e, p).row)
<1>1. PICK f : f = Condemn(c, e, p)
  OBVIOUS
<1>2. PICK r : r = e.row
  OBVIOUS
<1>3. f.row = Append(r, p) /\ r \in Seq(Page)
  BY <1>1, <1>2 DEF Condemn, RowOK, DeathRec
<1>4. /\ Len(r) \in Nat /\ DOMAIN r = 1 .. Len(r)
      /\ Len(f.row) = Len(r) + 1 /\ DOMAIN f.row = 1 .. Len(r) + 1
      /\ f.row[Len(r) + 1] = p /\ \A i \in 1 .. Len(r) : f.row[i] = r[i]
  BY <1>3
<1>5. ASSUME Wanted(c, k, e)
      PROVE  Wanted(c, k, f)
  <2> SUFFICES ASSUME Len(f.row) > 1
               PROVE  c.limit - c.memory + c.page[f.row[1]].kind.size < k.size
    BY DEF Wanted
  <2>1. f.row[1] = r[1] /\ ~ (Len(r) = 0)
    BY <1>4
  <2>2. CASE Len(r) = 1
    <3>1. e.available = c.limit - c.memory + c.page[r[1]].kind.size
      BY <1>2, <2>2 DEF RowOK
    <3>2. e.available < k.size
      BY <1>2, <2>1
    <3> QED
      BY <2>1, <3>1, <3>2, Zenon
  <2>3. CASE Len(r) # 1
    <3>1. Len(r) > 1
      BY <1>4, <2>1, <2>3
    <3> QED
      BY <1>2, <1>5, <2>1, <3>1 DEF Wanted
  <2> QED
    BY <2>2, <2>3
<1>6. ASSUME Again(c, e.row), p \notin Range(e.row) \/ AllIdle(c, e.row)
      PROVE  Again(c, f.row)
  <2> SUFFICES ASSUME NEW i \in DOMAIN f.row, NEW j \in DOMAIN f.row, i < j,
                      f.row[i] = f.row[j], NEW q \in Page, IdlePage(c, q)
               PROVE  \E h \in 1 .. j - 1 : f.row[h] = q
    BY DEF Again
  <2>1. i \in 1 .. Len(r) /\ j \in 1 .. Len(r) + 1 /\ f.row[i] = r[i]
    BY <1>4
  <2>2. CASE j \in 1 .. Len(r)
    <3>1. r[i] = r[j] /\ i \in DOMAIN r /\ j \in DOMAIN r
      BY <1>4, <2>1, <2>2
    <3>2. PICK h \in 1 .. j - 1 : r[h] = q
      BY <1>2, <1>6, <3>1 DEF Again
    <3>3. h \in 1 .. Len(r)
      BY <1>4, <2>2
    <3> QED
      BY <1>4, <3>2, <3>3
  <2>3. CASE j = Len(r) + 1
    <3>1. r[i] = p
      BY <1>4, <2>1, <2>3
    <3>2. p \in Range(r)
      BY <1>4, <2>1, <3>1 DEF Range
    <3>3. PICK h \in 1 .. Len(r) : r[h] = q
      BY <1>2, <1>6, <3>2 DEF AllIdle
    <3>4. h \in 1 .. j - 1 /\ f.row[h] = q
      BY <1>4, <2>3, <3>3
    <3> QED
      BY <3>4
  <2> QED
    BY <1>4, <2>1, <2>2, <2>3
<1> QED
  BY <1>1, <1>5, <1>6, Zenon

LEMMA IdleIn ==
  ASSUME NEW c, NEW row \in Seq(Page)
  PROVE  AllIdle(c, row) <=> \A p \in Page : IdlePage(c, p) => p \in Range(row)
  BY DEF AllIdle, Range

\* What a pass adds to the death row: pages it is about, and as long as memory is
\* wanted all of them but the page that is replaced.
Taken(c, old, row, pass) ==
  \A p \in Page : Free(c, p) /\ Eligible(c, p, pass) => p \in old \/ p \in Range(row)

Grown(c, k, old, e, d, pass) ==
  /\ Range(e.row) \subseteq Range(d.row)
  /\ \A p \in Range(d.row) : p \in Range(e.row) \/ Eligible(c, p, pass)
  /\ ~ (e.available < k.size) => d = e
  /\ d.available < k.size => Taken(c, old, d.row, pass)

\* A pass finds no page that is condemned already, or no idle page is left.
Fresh(c, k, old, e, pass) ==
  \/ \A p \in Range(e.row) : p \in old \/ ~ Eligible(c, p, pass)
  \/ e.available < k.size => AllIdle(c, e.row)

LEMMA DeathPassOK ==
  ASSUME NEW c, Good(c), NEW k, NEW old, NEW e, RowOK(c, e), NEW pass
  PROVE  /\ RowOK(c, DeathPass(c, k, old, e, pass))
         /\ Grown(c, k, old, e, DeathPass(c, k, old, e, pass), pass)
         /\ Wanted(c, k, e) => Wanted(c, k, DeathPass(c, k, old, e, pass))
         /\ Again(c, e.row) /\ Fresh(c, k, old, e, pass)
              => Again(c, DeathPass(c, k, old, e, pass).row)
<1> DEFINE L    == c.priority
           step(d, p) == IF d.available < k.size /\ Eligible(c, p, pass) /\ p \notin old
                         THEN Condemn(c, d, p) ELSE d
           F    == [x \in DeathRec \X Page |-> step(x[1], x[2])]
           Past(d, p) == Eligible(c, p, pass) => p \in old \/ p \in Range(d.row)
           In(d, s) == /\ RowOK(c, d)
                       /\ Wanted(c, k, e) => Wanted(c, k, d)
                       /\ Again(c, e.row) /\ Fresh(c, k, old, e, pass) => Again(c, d.row)
                       /\ Range(e.row) \subseteq Range(d.row)
                       /\ \A p \in Range(d.row) : p \in Range(e.row) \/ Eligible(c, p, pass)
                       /\ \A p \in Range(d.row) : p \in Range(e.row) \/ \E i \in s : p = L[i]
                       /\ ~ (e.available < k.size) => d = e
                       /\ d.available < k.size => \A i \in s : Past(d, L[i])
           J    == [s \in SUBSET DOMAIN L |-> {d \in DeathRec : In(d, s)}]
           Eq(g) == g = [s \in SUBSET DOMAIN L |->
                          IF s = {} THEN e ELSE step(g[s \ {Max(s)}], L[Max(s)])]
           h     == CHOOSE g : Eq(g)
<1>1. /\ L \in Seq(Page) /\ IsInjective(L)
      /\ \A i \in DOMAIN L : L[i] \in Page /\ Free(c, L[i])
      /\ \A p \in Page : Free(c, p) => \E i \in DOMAIN L : p = L[i]
  BY OnPriority
<1>2. e \in J[{}]
  BY <1>1 DEF RowOK
<1>3. ASSUME NEW s \in SUBSET DOMAIN L, NEW m \in s, NEW x, In(x, s \ {m})
      PROVE  step(x, L[m]) \in DeathRec /\ In(step(x, L[m]), s)
  <2>1. PICK p : p = L[m]
    OBVIOUS
  <2>2. p \in Page /\ Free(c, p)
    BY <1>1, <2>1
  <2>3. CASE x.available < k.size /\ Eligible(c, p, pass) /\ p \notin old
    <3>1. PICK d : d = Condemn(c, x, p)
      OBVIOUS
    <3>2. RowOK(c, d) /\ Range(d.row) = Range(x.row) \cup {p}
      <4>1. RowOK(c, x)
        BY <1>3
      <4> QED
        BY <2>2, <3>1, <4>1, CondemnOK
    <3>3. step(x, L[m]) = d
      BY <2>1, <2>3, <3>1, Zenon
    <3>4. e.available < k.size
      BY <1>3, <2>3
    <3>5. \A i \in s : Past(d, L[i])
      BY <1>3, <2>1, <2>3, <3>2
    <3>7. ASSUME Fresh(c, k, old, e, pass)
          PROVE  p \notin Range(x.row) \/ AllIdle(c, x.row)
      <4>1. ASSUME \A q \in Range(e.row) : q \in old \/ ~ Eligible(c, q, pass), p \in Range(x.row)
            PROVE  FALSE
        <5>1. p \notin Range(e.row)
          BY <2>3, <4>1
        <5>2. PICK i \in s \ {m} : p = L[i]
          BY <1>3, <4>1, <5>1
        <5>3. i \in DOMAIN L /\ m \in DOMAIN L /\ i # m
          OBVIOUS
        <5> HIDE DEF L
        <5> QED
          BY <1>1, <2>1, <5>2, <5>3 DEF IsInjective
      <4>2. ASSUME AllIdle(c, e.row)
            PROVE  AllIdle(c, x.row)
        <5>1. x.row \in Seq(Page) /\ e.row \in Seq(Page) /\ Range(e.row) \subseteq Range(x.row)
          BY <1>3 DEF RowOK, DeathRec
        <5> QED
          BY <4>2, <5>1, IdleIn
      <4> QED
        BY <3>4, <3>7, <4>1, <4>2 DEF Fresh
    <3>8. /\ Wanted(c, k, e) => Wanted(c, k, d)
          /\ Again(c, e.row) /\ Fresh(c, k, old, e, pass) => Again(c, d.row)
      <4>1. /\ RowOK(c, x) /\ x.available < k.size
            /\ Wanted(c, k, e) => Wanted(c, k, x)
            /\ Again(c, e.row) /\ Fresh(c, k, old, e, pass) => Again(c, x.row)
        BY <1>3, <2>3
      <4>2. /\ Wanted(c, k, x) => Wanted(c, k, Condemn(c, x, p))
            /\ Again(c, x.row) /\ (p \notin Range(x.row) \/ AllIdle(c, x.row))
                 => Again(c, Condemn(c, x, p).row)
        BY <2>2, <4>1, CondemnOnce
      <4> QED
        BY <3>1, <3>7, <4>1, <4>2, Zenon
    <3>9. \A q \in Range(d.row) : q \in Range(e.row) \/ \E i \in s : q = L[i]
      <4> HIDE DEF step, L, Past
      <4> QED
        BY <1>3, <2>1, <3>2
    <3>6. In(d, s)
      <4> HIDE DEF step, L, Past
      <4> QED
        BY <1>3, <2>3, <3>2, <3>4, <3>5, <3>8, <3>9
    <3> QED
      BY <3>2, <3>3, <3>6, Zenon DEF RowOK
  <2>4. CASE ~ (x.available < k.size /\ Eligible(c, p, pass) /\ p \notin old)
    <3>1. step(x, L[m]) = x
      BY <2>1, <2>4, Zenon
    <3>2. x.available < k.size => \A i \in s : Past(x, L[i])
      BY <1>3, <2>1, <2>4
    <3>3. In(x, s)
      <4> HIDE DEF step, L, Past
      <4> QED
        BY <1>3, <3>2
    <3> QED
      BY <1>3, <3>1, <3>3, Zenon DEF RowOK
  <2> QED
    BY <2>3, <2>4
<1> HIDE DEF step, Past
<1>4. ASSUME NEW s \in SUBSET DOMAIN L, NEW m \in s, NEW x \in J[s \ {m}]
      PROVE  F[<<x, L[m]>>] \in J[s] /\ F[<<x, L[m]>>] = step(x, L[m])
  <2>1. s \ {m} \in SUBSET DOMAIN L /\ L[m] \in Page
    BY <1>1
  <2>2. x \in DeathRec /\ In(x, s \ {m})
    BY <2>1
  <2>3. step(x, L[m]) \in DeathRec /\ In(step(x, L[m]), s)
    BY <1>3, <2>2
  <2>4. F[<<x, L[m]>>] = step(x, L[m])
    BY <2>1, <2>2
  <2> QED
    BY <2>3, <2>4
<1>5. PICK g \in [SUBSET DOMAIN L -> DeathRec] :
        IsFold(g, F, e, L) /\ \A s \in SUBSET DOMAIN L : g[s] \in J[s]
  <2>1. \A s \in SUBSET DOMAIN L : J[s] \subseteq DeathRec
    OBVIOUS
  <2>2. \A s \in SUBSET DOMAIN L :
          s # {} /\ Max(s) \in s => \A x \in J[s \ {Max(s)}] : F[<<x, L[Max(s)]>>] \in J[s]
    BY <1>4
  <2> HIDE DEF F, J, L
  <2> QED
    BY <1>1, <1>2, <2>1, <2>2, FoldReach
<1>6. Eq(h)
  <2>1. ASSUME NEW s \in SUBSET DOMAIN L
        PROVE  g[s] = IF s = {} THEN e ELSE step(g[s \ {Max(s)}], L[Max(s)])
    <3> HIDE DEF F, J, L
    <3>1. CASE s = {}
      BY <1>5, <3>1 DEF IsFold
    <3>2. CASE s # {}
      <4>1. g[s] = F[<<g[s \ {Max(s)}], L[Max(s)]>>]
        BY <1>5, <3>2 DEF IsFold
      <4>2. Max(s) \in s /\ s \ {Max(s)} \in SUBSET DOMAIN L
        BY <1>1, <3>2, MaxPosition
      <4> QED
        BY <1>4, <1>5, <3>2, <4>1, <4>2
    <3> QED
      BY <3>1, <3>2
  <2>2. Eq(g)
    BY <1>5, <2>1
  <2> HIDE DEF Eq
  <2> QED
    BY <2>2, Zenon
<1>7. FoldLeft(step, e, L) = h[DOMAIN L]
  BY Zenon DEF FoldLeft, MapThenFoldSet
<1> HIDE DEF h
<1>8. h[DOMAIN L] \in J[DOMAIN L]
  <2>1. h[{}] \in J[{}]
    BY <1>2, <1>6
  <2>2. ASSUME NEW s \in SUBSET DOMAIN L, s # {}, Max(s) \in s, h[s \ {Max(s)}] \in J[s \ {Max(s)}]
        PROVE  h[s] \in J[s]
    <3>1. h[s] = step(h[s \ {Max(s)}], L[Max(s)])
      BY <1>6, <2>2
    <3> HIDE DEF J, F, L
    <3> QED
      BY <1>4, <2>2, <3>1
  <2>3. \A s \in SUBSET DOMAIN L : h[s] \in J[s]
    <3> HIDE DEF J, L
    <3> QED
      BY <1>1, <2>1, <2>2, FoldKeeps
  <2>4. DOMAIN L \in SUBSET DOMAIN L
    OBVIOUS
  <2> HIDE DEF J, L
  <2> QED
    BY <2>3, <2>4
<1>9. PICK d : d = DeathPass(c, k, old, e, pass)
  OBVIOUS
<1>10. d = h[DOMAIN L]
  BY <1>7, <1>9, Zenon DEF DeathPass, step
<1>11. In(d, DOMAIN L)
  BY <1>8, <1>10
<1>12. d.available < k.size => Taken(c, old, d.row, pass)
  <2> SUFFICES ASSUME d.available < k.size, NEW p \in Page, Free(c, p), Eligible(c, p, pass)
               PROVE  p \in old \/ p \in Range(d.row)
    BY DEF Taken
  <2>1. PICK i \in DOMAIN L : p = L[i]
    BY <1>1
  <2>2. Past(d, L[i])
    BY <1>11
  <2> QED
    BY <2>1, <2>2 DEF Past
<1>13. /\ RowOK(c, d) /\ Grown(c, k, old, e, d, pass)
       /\ Wanted(c, k, e) => Wanted(c, k, d)
       /\ Again(c, e.row) /\ Fresh(c, k, old, e, pass) => Again(c, d.row)
  BY <1>11, <1>12 DEF Grown
<1> QED
  BY <1>9, <1>13

\* Only pages of networks nobody uses, and the page that is replaced, are
\* condemned, or all of them are.
GivenUp(c, old, S) ==
  \/ \A p \in S : p \in old \/ IdlePage(c, p)
  \/ \A p \in Page : IdlePage(c, p) => p \in S

LEMMA IdlePassGrows ==
  ASSUME NEW c, NEW k, NEW old, NEW e, NEW d, NEW pass, pass.idle, Grown(c, k, old, e, d, pass),
         RowOK(c, d), \A p \in Range(e.row) : p \in old \/ IdlePage(c, p)
  PROVE  \A p \in Range(d.row) : p \in old \/ IdlePage(c, p)
<1> SUFFICES ASSUME NEW p \in Range(d.row)
             PROVE  p \in old \/ IdlePage(c, p)
  OBVIOUS
<1>1. Free(c, p)
  BY DEF RowOK, Range
<1>2. p \in Range(e.row) \/ Eligible(c, p, pass)
  BY DEF Grown
<1> QED
  BY <1>1, <1>2 DEF Eligible, IdlePage

LEMMA IdlePassesTaken ==
  ASSUME NEW c, Good(c), NEW old, NEW row, old \subseteq Range(row), NEW a, NEW b,
         Taken(c, old, row, a), Taken(c, old, row, b),
         a = [pri |-> "normal", idle |-> TRUE], b = [pri |-> "special", idle |-> TRUE]
  PROVE  \A p \in Page : IdlePage(c, p) => p \in Range(row)
<1> SUFFICES ASSUME NEW p \in Page, IdlePage(c, p)
             PROVE  p \in Range(row)
  OBVIOUS
<1>1. Free(c, p) /\ c.net[c.page[p].cn].ref = 0
  BY DEF IdlePage
<1>2. c.page[p].kind \in Kind
  BY <1>1, FreeIsOK DEF Good
<1>3. Eligible(c, p, a) \/ Eligible(c, p, b)
  BY <1>1, <1>2, CacheAssumption DEF Eligible
<1> QED
  BY <1>1, <1>3 DEF Taken

LEMMA DeathRowOK ==
  ASSUME NEW c, Good(c), NEW k, NEW old,
         old = {} \/ \E o \in Page : old = {o} /\ Free(c, o)
  PROVE  /\ RowOK(c, DeathRow(c, k, old))
         /\ Wanted(c, k, DeathRow(c, k, old)) /\ Again(c, DeathRow(c, k, old).row)
         /\ old \subseteq Range(DeathRow(c, k, old).row)
         /\ GivenUp(c, old, Range(DeathRow(c, k, old).row))
<1> DEFINE empty == [row |-> <<>>, available |-> c.limit - c.memory]
           e     == IF old = {} THEN empty ELSE Condemn(c, empty, CHOOSE p \in old : TRUE)
           L     == PagePasses
           step(d, pass) == DeathPass(c, k, old, d, pass)
           F    == [x \in DeathRec \X Passes |-> step(x[1], x[2])]
           Proper(s) == (2 \in s => 1 \in s) /\ (3 \in s \/ 4 \in s => 1 \in s /\ 2 \in s)
           In(d, s) == /\ RowOK(c, d) /\ old \subseteq Range(d.row)
                       /\ Wanted(c, k, d) /\ (Proper(s) => Again(c, d.row))
                       /\ s \subseteq {1} => \A p \in Range(d.row) : p \in old \/ \E i \in s : Eligible(c, p, L[i])
                       /\ d.available < k.size => \A i \in s : Taken(c, old, d.row, L[i])
                       /\ s \subseteq {1, 2} => \A p \in Range(d.row) : p \in old \/ IdlePage(c, p)
                       /\ 1 \in s /\ 2 \in s => GivenUp(c, old, Range(d.row))
           J    == [s \in SUBSET DOMAIN L |-> {d \in DeathRec : In(d, s)}]
           Eq(g) == g = [s \in SUBSET DOMAIN L |->
                          IF s = {} THEN e ELSE step(g[s \ {Max(s)}], L[Max(s)])]
           h     == CHOOSE g : Eq(g)
<1>1. /\ L \in Seq(Passes) /\ DOMAIN L = 1 .. 4
      /\ \A i \in DOMAIN L : L[i] \in Passes
      /\ L[1] = [pri |-> "normal", idle |-> TRUE] /\ L[2] = [pri |-> "special", idle |-> TRUE]
  <2>1. PICK a \in Passes : a = [pri |-> "normal", idle |-> FALSE]
    BY DEF Passes
  <2>2. PICK b \in Passes : b = [pri |-> "special", idle |-> FALSE]
    BY DEF Passes
  <2>3. PICK f \in Passes : f = [pri |-> "normal", idle |-> TRUE]
    BY DEF Passes
  <2>4. PICK q \in Passes : q = [pri |-> "special", idle |-> TRUE]
    BY DEF Passes
  <2>5. L = <<f, q, a, b>>
    BY <2>1, <2>2, <2>3, <2>4 DEF PagePasses
  <2>6. /\ L \in Seq(Passes) /\ DOMAIN L = 1 .. 4
        /\ \A i \in DOMAIN L : L[i] \in Passes
        /\ L[1] = f /\ L[2] = q
    BY <2>5
  <2> QED
    BY <2>3, <2>4, <2>6
<1>15. DOMAIN L \subseteq {1, 2, 3, 4}
  BY <1>1
<1>10. RowOK(c, e) /\ Range(e.row) = old /\ Wanted(c, k, e) /\ Again(c, e.row)
  <2>1. /\ RowOK(c, empty) /\ Range(empty.row) = {} /\ empty.row = <<>>
        /\ Wanted(c, k, empty) /\ Again(c, empty.row)
    <3>1. c.limit - c.memory \in Int
      BY GoodTypes
    <3>2. empty.row = <<>> /\ empty.available = c.limit - c.memory /\ empty \in DeathRec
      BY <3>1 DEF DeathRec
    <3> HIDE DEF empty
    <3> QED
      BY <3>2 DEF RowOK, Range, Wanted, Again
  <2>2. CASE old = {}
    BY <2>1, <2>2
  <2>3. CASE old # {}
    <3>1. PICK o \in Page : old = {o} /\ Free(c, o)
      BY <2>3
    <3>2. (CHOOSE p \in old : TRUE) = o
      BY <3>1
    <3>3. /\ RowOK(c, Condemn(c, empty, o))
          /\ Range(Condemn(c, empty, o).row) = Range(empty.row) \cup {o}
          /\ Wanted(c, k, Condemn(c, empty, o)) /\ Again(c, Condemn(c, empty, o).row)
      <4>1. PICK y : y = empty
        OBVIOUS
      <4>2. RowOK(c, y) /\ Free(c, o)
        BY <2>1, <3>1, <4>1, Zenon
      <4>3. /\ RowOK(c, Condemn(c, y, o))
            /\ Range(Condemn(c, y, o).row) = Range(y.row) \cup {o}
        BY <4>2, CondemnOK
      <4>4. /\ Wanted(c, k, y) /\ Again(c, y.row) /\ Len(y.row) = 0
            /\ o \notin Range(y.row)
        BY <2>1, <4>1
      <4>5. Wanted(c, k, Condemn(c, y, o)) /\ Again(c, Condemn(c, y, o).row)
        BY <4>2, <4>4, CondemnOnce
      <4> QED
        BY <4>1, <4>3, <4>5, Zenon
    <3> QED
      BY <2>1, <2>3, <3>1, <3>2, <3>3
  <2> QED
    BY <2>2, <2>3
<1>11. DeathRow(c, k, old) = FoldLeft(step, e, L)
  BY Zenon DEF DeathRow
<1> HIDE DEF e, empty
<1>2. e \in J[{}]
  <2>1. \A p \in Range(e.row) : p \in old
    BY <1>10
  <2> QED
    BY <1>1, <1>10, <2>1 DEF RowOK
<1>3. ASSUME NEW s \in SUBSET DOMAIN L, NEW m \in s, \A i \in s : i <= m,
             NEW x, In(x, s \ {m})
      PROVE  step(x, L[m]) \in DeathRec /\ In(step(x, L[m]), s)
  <2>1. PICK d : d = step(x, L[m])
    OBVIOUS
  <2>2. /\ RowOK(c, x) /\ old \subseteq Range(x.row)
        /\ Wanted(c, k, x) /\ (Proper(s \ {m}) => Again(c, x.row))
        /\ s \ {m} \subseteq {1} =>
             \A p \in Range(x.row) : p \in old \/ \E i \in s \ {m} : Eligible(c, p, L[i])
        /\ x.available < k.size => \A i \in s \ {m} : Taken(c, old, x.row, L[i])
    BY <1>3
  <2>3. /\ RowOK(c, d) /\ Grown(c, k, old, x, d, L[m]) /\ Wanted(c, k, d)
        /\ Again(c, x.row) /\ Fresh(c, k, old, x, L[m]) => Again(c, d.row)
    BY <2>1, <2>2, DeathPassOK
  <2>8. ASSUME Proper(s)
        PROVE  Proper(s \ {m}) /\ Fresh(c, k, old, x, L[m])
    <3>1. m \in {1, 2, 3, 4} /\ s \subseteq {1, 2, 3, 4}
      <4> HIDE DEF L
      <4> QED
        BY <1>15
    <3>2. CASE m = 1
      <4>1. s = {1}
        BY <1>3, <3>1, <3>2
      <4>2. \A p \in Range(x.row) : p \in old
        BY <2>2, <3>2, <4>1
      <4> QED
        BY <3>2, <4>1, <4>2 DEF Fresh
    <3>3. CASE m = 2
      <4>1. s = {1, 2} /\ s \ {m} = {1}
        BY <1>3, <2>8, <3>1, <3>3
      <4>2. \A p \in Range(x.row) : p \in old \/ Eligible(c, p, L[1])
        BY <2>2, <4>1
      <4>3. \A p \in Range(x.row) : p \in old \/ ~ Eligible(c, p, L[2])
        BY <1>1, <4>2 DEF Eligible
      <4> QED
        BY <3>3, <4>1, <4>3 DEF Fresh
    <3>4. CASE m = 3 \/ m = 4
      <4>1. 1 \in s \ {m} /\ 2 \in s \ {m}
        BY <1>3, <2>8, <3>4
      <4>2. ASSUME x.available < k.size
            PROVE  AllIdle(c, x.row)
        <5>1. Taken(c, old, x.row, L[1]) /\ Taken(c, old, x.row, L[2])
          BY <2>2, <4>1, <4>2
        <5>2. \A p \in Page : IdlePage(c, p) => p \in Range(x.row)
          BY <1>1, <2>2, <5>1, IdlePassesTaken
        <5>3. x.row \in Seq(Page)
          BY <2>2 DEF RowOK, DeathRec
        <5> QED
          BY <5>2, <5>3, IdleIn
      <4> QED
        BY <4>1, <4>2 DEF Fresh
    <3> QED
      BY <3>1, <3>2, <3>3, <3>4
  <2>9. Proper(s) => Again(c, d.row)
    BY <2>2, <2>3, <2>8
  <2>10. ASSUME s \subseteq {1}
         PROVE  \A p \in Range(d.row) : p \in old \/ \E i \in s : Eligible(c, p, L[i])
    <3>1. m = 1 /\ s \ {m} = {} /\ s = {1}
      BY <1>3, <2>10
    <3>2. \A p \in Range(x.row) : p \in old
      BY <2>2, <3>1
    <3>3. \A p \in Range(d.row) : p \in Range(x.row) \/ Eligible(c, p, L[1])
      BY <2>3, <3>1 DEF Grown
    <3> QED
      BY <3>1, <3>2, <3>3
  <2>4. Range(x.row) \subseteq Range(d.row) /\ (~ (x.available < k.size) => d = x)
    BY <2>3 DEF Grown
  <2>5. ASSUME d.available < k.size, NEW i \in s
        PROVE  Taken(c, old, d.row, L[i])
    <3>1. CASE i = m
      BY <2>3, <2>5, <3>1 DEF Grown
    <3>2. CASE i # m
      BY <2>2, <2>4, <2>5, <3>2 DEF Taken
    <3> QED
      BY <3>1, <3>2
  <2>6. CASE m = 1 \/ m = 2
    <3>1. s \subseteq {1, 2} /\ s \ {m} \subseteq {1, 2} /\ L[m].idle
      BY <1>1, <1>3, <2>6
    <3>2. \A p \in Range(x.row) : p \in old \/ IdlePage(c, p)
      BY <1>3, <3>1
    <3>3. \A p \in Range(d.row) : p \in old \/ IdlePage(c, p)
      BY <2>3, <3>1, <3>2, IdlePassGrows
    <3>4. GivenUp(c, old, Range(d.row))
      BY <3>3 DEF GivenUp
    <3>5. In(d, s)
      <4> HIDE DEF L, step
      <4> QED
        BY <2>2, <2>3, <2>4, <2>5, <2>9, <2>10, <3>3, <3>4
    <3> QED
      BY <2>1, <2>3, <3>5, Zenon DEF RowOK
  <2>7. CASE m = 3 \/ m = 4
    <3>1. ~ (s \subseteq {1, 2}) /\ (1 \in s => 1 \in s \ {m}) /\ (2 \in s => 2 \in s \ {m})
      BY <2>7
    <3>2. ASSUME 1 \in s, 2 \in s
          PROVE  GivenUp(c, old, Range(d.row))
      <4>1. CASE ~ (x.available < k.size)
        BY <1>3, <2>4, <3>1, <3>2, <4>1
      <4>2. CASE x.available < k.size
        <5>1. Taken(c, old, x.row, L[1]) /\ Taken(c, old, x.row, L[2])
          BY <2>2, <3>1, <3>2, <4>2
        <5>2. \A p \in Page : IdlePage(c, p) => p \in Range(x.row)
          BY <1>1, <2>2, <5>1, IdlePassesTaken
        <5> QED
          BY <2>4, <5>2 DEF GivenUp
      <4> QED
        BY <4>1, <4>2
    <3>3. In(d, s)
      <4> HIDE DEF L, step
      <4> QED
        BY <2>2, <2>3, <2>4, <2>5, <2>9, <2>10, <3>1, <3>2
    <3> QED
      BY <2>1, <2>3, <3>3, Zenon DEF RowOK
  <2> QED
    BY <1>1, <2>6, <2>7
<1> HIDE DEF step
<1>4. ASSUME NEW s \in SUBSET DOMAIN L, NEW m \in s, \A i \in s : i <= m,
             NEW x \in J[s \ {m}]
      PROVE  F[<<x, L[m]>>] \in J[s] /\ F[<<x, L[m]>>] = step(x, L[m])
  <2>1. s \ {m} \in SUBSET DOMAIN L /\ L[m] \in Passes
    BY <1>1
  <2>2. x \in DeathRec /\ In(x, s \ {m})
    BY <2>1
  <2>3. step(x, L[m]) \in DeathRec /\ In(step(x, L[m]), s)
    BY <1>3, <1>4, <2>2
  <2>4. F[<<x, L[m]>>] = step(x, L[m])
    BY <2>1, <2>2
  <2> QED
    BY <2>3, <2>4
<1>5. PICK g \in [SUBSET DOMAIN L -> DeathRec] :
        IsFold(g, F, e, L) /\ \A s \in SUBSET DOMAIN L : g[s] \in J[s]
  <2>1. \A s \in SUBSET DOMAIN L : J[s] \subseteq DeathRec
    OBVIOUS
  <2>2. \A s \in SUBSET DOMAIN L :
          s # {} /\ Max(s) \in s => \A x \in J[s \ {Max(s)}] : F[<<x, L[Max(s)]>>] \in J[s]
    <3> SUFFICES ASSUME NEW s \in SUBSET DOMAIN L, s # {}, Max(s) \in s, NEW x \in J[s \ {Max(s)}]
                 PROVE  F[<<x, L[Max(s)]>>] \in J[s]
      OBVIOUS
    <3>1. \A i \in s : i <= Max(s)
      BY <1>1, LastPass
    <3> HIDE DEF F, J, L
    <3> QED
      BY <1>4, <3>1
  <2> HIDE DEF F, J, L
  <2> QED
    BY <1>1, <1>2, <2>1, <2>2, FoldReach
<1>6. Eq(h)
  <2>1. ASSUME NEW s \in SUBSET DOMAIN L
        PROVE  g[s] = IF s = {} THEN e ELSE step(g[s \ {Max(s)}], L[Max(s)])
    <3> HIDE DEF F, J, L
    <3>1. CASE s = {}
      BY <1>5, <3>1 DEF IsFold
    <3>2. CASE s # {}
      <4>1. g[s] = F[<<g[s \ {Max(s)}], L[Max(s)]>>]
        BY <1>5, <3>2 DEF IsFold
      <4>2. Max(s) \in s /\ s \ {Max(s)} \in SUBSET DOMAIN L /\ \A i \in s : i <= Max(s)
        BY <1>1, <3>2, LastPass
      <4> QED
        BY <1>4, <1>5, <3>2, <4>1, <4>2
    <3> QED
      BY <3>1, <3>2
  <2>2. Eq(g)
    BY <1>5, <2>1
  <2> HIDE DEF Eq
  <2> QED
    BY <2>2, Zenon
<1>7. FoldLeft(step, e, L) = h[DOMAIN L]
  BY Zenon DEF FoldLeft, MapThenFoldSet
<1> HIDE DEF h
<1>8. h[DOMAIN L] \in J[DOMAIN L]
  <2>1. h[{}] \in J[{}]
    BY <1>2, <1>6
  <2>2. ASSUME NEW s \in SUBSET DOMAIN L, s # {}, Max(s) \in s, h[s \ {Max(s)}] \in J[s \ {Max(s)}]
        PROVE  h[s] \in J[s]
    <3>1. h[s] = step(h[s \ {Max(s)}], L[Max(s)])
      BY <1>6, <2>2
    <3> HIDE DEF J, F, L
    <3> QED
      BY <1>1, <1>4, <2>2, <3>1, LastPass
  <2>3. \A s \in SUBSET DOMAIN L : h[s] \in J[s]
    <3> HIDE DEF J, L
    <3> QED
      BY <1>1, <2>1, <2>2, FoldKeeps
  <2>4. DOMAIN L \in SUBSET DOMAIN L
    OBVIOUS
  <2> HIDE DEF J, L
  <2> QED
    BY <2>3, <2>4
<1>12. PICK d : d = DeathRow(c, k, old)
  OBVIOUS
<1>13. In(d, DOMAIN L) /\ 1 \in DOMAIN L /\ 2 \in DOMAIN L /\ Proper(DOMAIN L)
  BY <1>1, <1>7, <1>8, <1>11, <1>12
<1>14. /\ RowOK(c, d) /\ old \subseteq Range(d.row) /\ GivenUp(c, old, Range(d.row))
       /\ Wanted(c, k, d) /\ Again(c, d.row)
  <2> HIDE DEF L
  <2> QED
    BY <1>13
<1> QED
  BY <1>12, <1>14, Zenon

\* The pages S are gone, the others are as they were.
Cleared(c, d, S) ==
  /\ \A p \in S : ~ Used(d, p)
  /\ \A p \in Page \ S : d.page[p] = c.page[p]

LEMMA DeleteRowGood ==
  ASSUME NEW c, Good(c), NEW row \in Seq(Page), IsInjective(row),
         \A i \in DOMAIN row : Free(c, row[i])
  PROVE  Trimmed(c, DeleteRow(c, row)) /\ Cleared(c, DeleteRow(c, row), Range(row))
<1> DEFINE L    == row
           F    == [x \in CacheRec \X Page |-> DeletePage(x[1], x[2])]
           In(d, s) == /\ d \in CacheRec /\ Trimmed(c, d)
                       /\ \A i \in DOMAIN L \ s : d.page[L[i]] = c.page[L[i]]
                       /\ Cleared(c, d, {L[i] : i \in s})
           J    == [s \in SUBSET DOMAIN L |-> {d \in CacheRec : In(d, s)}]
           Eq(g) == g = [s \in SUBSET DOMAIN L |->
                          IF s = {} THEN c ELSE DeletePage(g[s \ {Max(s)}], L[Max(s)])]
           h     == CHOOSE g : Eq(g)
<1>1. /\ L \in Seq(Page) /\ IsInjective(L) /\ c \in CacheRec
      /\ \A i \in DOMAIN L : L[i] \in Page /\ Free(c, L[i])
  BY GoodTypes
<1>2. c \in J[{}]
  BY <1>1, TrimmedSame DEF Cleared
<1>3. ASSUME NEW s \in SUBSET DOMAIN L, NEW m \in s, NEW x, In(x, s \ {m})
      PROVE  In(DeletePage(x, L[m]), s)
  <2>1. PICK p : p = L[m]
    OBVIOUS
  <2>2. /\ p \in Page /\ m \in DOMAIN L /\ x.page[p] = c.page[p] /\ Free(c, p)
        /\ \A i \in DOMAIN L \ {m} : L[i] # p
    BY <1>1, <1>3, <2>1 DEF IsInjective
  <2>3. Free(x, p) /\ Good(x)
    BY <1>3, <2>2 DEF Free, Used, Trimmed
  <2>4. PICK d : d = DeletePage(x, p)
    OBVIOUS
  <2>5. /\ Trimmed(x, d) /\ ~ Used(d, p)
        /\ \A q \in Page \ {p} : d.page[q] = x.page[q]
    BY <2>2, <2>3, <2>4, DeletePageGood, Zenon
  <2>6. Trimmed(c, d)
    BY <1>3, <2>5, TrimmedTwice, Zenon
  <2>7. d \in CacheRec
    BY <2>6 DEF Trimmed, Good, Lists
  <2>8. \A i \in DOMAIN L \ s : d.page[L[i]] = c.page[L[i]]
    BY <1>1, <1>3, <2>2, <2>5
  <2>9. Cleared(c, d, {L[i] : i \in s})
    <3>1. {L[i] : i \in s} = {L[i] : i \in s \ {m}} \cup {p}
      BY <2>1
    <3>2. Cleared(c, x, {L[i] : i \in s \ {m}})
      BY <1>3
    <3>3. \A q \in {L[i] : i \in s \ {m}} : q \in Page \ {p}
      BY <1>1, <2>2
    <3> QED
      BY <2>5, <3>1, <3>2, <3>3 DEF Cleared, Used
  <2> QED
    BY <2>1, <2>4, <2>6, <2>7, <2>8, <2>9, Zenon
<1>4. ASSUME NEW s \in SUBSET DOMAIN L, NEW m \in s, NEW x \in J[s \ {m}]
      PROVE  F[<<x, L[m]>>] \in J[s] /\ F[<<x, L[m]>>] = DeletePage(x, L[m])
  <2>1. s \ {m} \in SUBSET DOMAIN L /\ L[m] \in Page
    BY <1>1
  <2>2. x \in CacheRec /\ In(x, s \ {m})
    BY <2>1
  <2>3. In(DeletePage(x, L[m]), s)
    BY <1>3, <2>2
  <2>4. F[<<x, L[m]>>] = DeletePage(x, L[m])
    BY <2>1, <2>2
  <2> QED
    BY <2>3, <2>4
<1>5. PICK g \in [SUBSET DOMAIN L -> CacheRec] :
        IsFold(g, F, c, L) /\ \A s \in SUBSET DOMAIN L : g[s] \in J[s]
  <2>1. \A s \in SUBSET DOMAIN L : J[s] \subseteq CacheRec
    OBVIOUS
  <2>2. \A s \in SUBSET DOMAIN L :
          s # {} /\ Max(s) \in s => \A x \in J[s \ {Max(s)}] : F[<<x, L[Max(s)]>>] \in J[s]
    BY <1>4
  <2> HIDE DEF F, J, L
  <2> QED
    BY <1>1, <1>2, <2>1, <2>2, FoldReach
<1>6. Eq(h)
  <2>1. ASSUME NEW s \in SUBSET DOMAIN L
        PROVE  g[s] = IF s = {} THEN c ELSE DeletePage(g[s \ {Max(s)}], L[Max(s)])
    <3> HIDE DEF F, J, L
    <3>1. CASE s = {}
      BY <1>5, <3>1 DEF IsFold
    <3>2. CASE s # {}
      <4>1. g[s] = F[<<g[s \ {Max(s)}], L[Max(s)]>>]
        BY <1>5, <3>2 DEF IsFold
      <4>2. Max(s) \in s /\ s \ {Max(s)} \in SUBSET DOMAIN L
        BY <1>1, <3>2, MaxPosition
      <4> QED
        BY <1>4, <1>5, <3>2, <4>1, <4>2
    <3> QED
      BY <3>1, <3>2
  <2>2. Eq(g)
    BY <1>5, <2>1
  <2> HIDE DEF Eq
  <2> QED
    BY <2>2, Zenon
<1>7. FoldLeft(DeletePage, c, L) = h[DOMAIN L]
  BY Zenon DEF FoldLeft, MapThenFoldSet
<1> HIDE DEF h
<1>8. h[DOMAIN L] \in J[DOMAIN L]
  <2>1. h[{}] \in J[{}]
    BY <1>2, <1>6
  <2>2. ASSUME NEW s \in SUBSET DOMAIN L, s # {}, Max(s) \in s, h[s \ {Max(s)}] \in J[s \ {Max(s)}]
        PROVE  h[s] \in J[s]
    <3>1. h[s] = DeletePage(h[s \ {Max(s)}], L[Max(s)])
      BY <1>6, <2>2
    <3> HIDE DEF J, F, L
    <3> QED
      BY <1>4, <2>2, <3>1
  <2>3. \A s \in SUBSET DOMAIN L : h[s] \in J[s]
    <3> HIDE DEF J, L
    <3> QED
      BY <1>1, <2>1, <2>2, FoldKeeps
  <2>4. DOMAIN L \in SUBSET DOMAIN L
    OBVIOUS
  <2> HIDE DEF J, L
  <2> QED
    BY <2>3, <2>4
<1>9. PICK d : d = DeleteRow(c, row)
  OBVIOUS
<1>10. In(d, DOMAIN L)
  <2>1. d = h[DOMAIN L]
    BY <1>7, <1>9, Zenon DEF DeleteRow
  <2> QED
    BY <1>8, <2>1
<1>11. Trimmed(c, d) /\ Cleared(c, d, Range(row))
  <2>1. {L[i] : i \in DOMAIN L} = Range(row)
    BY Zenon DEF Range
  <2>2. Cleared(c, d, {L[i] : i \in DOMAIN L})
    BY <1>10
  <2> QED
    BY <1>10, <2>1, <2>2, Zenon
<1> QED
  BY <1>9, <1>11

-----------------------------------------------------------------------------
(* _vbi_cache_put_page. *)

\* A version that is held leaves the hash list and becomes a zombie.
MadeZombie(c, d, p) ==
  /\ Good(d)
  /\ d.networks = c.networks /\ d.net = c.net /\ d.memory = c.memory
  /\ d.limit = c.limit /\ d.nlimit = c.nlimit /\ d.open = c.open
  /\ \A q \in Page \ {p} : d.page[q] = c.page[q]
  /\ d.page[p].ref = c.page[p].ref
  /\ d.page[p].kind = c.page[p].kind /\ d.page[p].cn = c.page[p].cn

LEMMA ZombieGood ==
  ASSUME NEW c, Good(c), NEW p \in Page, c.page[p].ref > 0, ~ c.page[p].zombie
  PROVE  MadeZombie(c, Superseded(c, p), p)
<1>1. PICK d : d = Superseded(c, p)
  OBVIOUS
<1>2. PICK g : g = c.page[p].kind.pgno
  OBVIOUS
<1>3. PICK r : r = RemoveFirst(c.hash[g], p)
  OBVIOUS
<1>4. PICK x : x = [c.page[p] EXCEPT !.zombie = TRUE]
  OBVIOUS
<1>5. Lists(c) /\ Counts(c) /\ c \in CacheRec /\ c.memory \in Nat /\ Used(c, p) /\ ~ Free(c, p)
  BY GoodTypes, HeldUsed DEF Good
<1>6. /\ c.page[p].kind \in Kind /\ g \in Pgno /\ c.page[p].cn \in Range(c.networks)
      /\ c.page[p].block = c.page[p].kind.size
  BY <1>2, <1>5, UsedIsOK
<1>7. d = [c EXCEPT !.hash[g] = r, !.page[p] = x]
  <2>1. d = [c EXCEPT !.hash[g] = RemoveFirst(@, p), !.page[p].zombie = TRUE]
    BY <1>1, <1>2, Zenon DEF Superseded
  <2>2. [c EXCEPT !.hash[g] = RemoveFirst(@, p), !.page[p].zombie = TRUE]
          = [c EXCEPT !.hash[g] = RemoveFirst(c.hash[g], p),
                      !.page[p] = [c.page[p] EXCEPT !.zombie = TRUE]]
    BY <1>5 DEF CacheRec
  <2> QED
    BY <1>3, <1>4, <2>1, <2>2, Zenon
<1>8. /\ d.networks = c.networks /\ d.net = c.net /\ d.cached = c.cached
      /\ d.priority = c.priority /\ d.memory = c.memory /\ d.npages = c.npages
      /\ d.limit = c.limit /\ d.nlimit = c.nlimit /\ d.open = c.open
      /\ d.page = [c.page EXCEPT ![p] = x] /\ d.hash = [c.hash EXCEPT ![g] = r]
  BY <1>5, <1>7 DEF CacheRec
<1>9. c.page \in [Page -> PageRec] /\ c.page[p] \in PageRec
  BY <1>5 DEF CacheRec
<1>10. /\ x \in PageRec /\ x.ref = c.page[p].ref /\ x.kind = c.page[p].kind
       /\ x.cn = c.page[p].cn /\ x.zombie /\ x.block = c.page[p].block
  BY <1>4, <1>9 DEF PageRec
<1>11. /\ d.page \in [Page -> PageRec] /\ d.page[p] = x
       /\ \A q \in Page \ {p} : d.page[q] = c.page[q]
  BY <1>8, <1>9, <1>10
<1>12. r \in Seq(Page) /\ IsInjective(r) /\ Range(r) = Range(c.hash[g]) \ {p}
  <2>1. c.hash[g] \in Seq(Page) /\ IsInjective(c.hash[g])
    BY <1>5, <1>6 DEF Lists, CacheRec
  <2> QED
    BY <1>3, <2>1, RemoveFirstDistinct
<1>13. d.hash \in [Pgno -> Seq(Page)] /\ d.hash[g] = r /\ \A h \in Pgno \ {g} : d.hash[h] = c.hash[h]
  BY <1>5, <1>6, <1>8, <1>12 DEF CacheRec
<1>14. d \in CacheRec
  BY <1>5, <1>7, <1>8, <1>11, <1>13 DEF CacheRec
<1>15. d.page[p].ref > 0 /\ Used(d, p) /\ ~ Free(d, p)
  BY <1>5, <1>10, <1>11 DEF Used, Free
<1>16. PageChange(c, d, p)
  <2>1. PageOK(d, p)
    BY <1>6, <1>8, <1>10, <1>11, <1>15 DEF PageOK
  <2>2. IsInjective(d.priority) /\ Range(d.priority) = Range(c.priority) \ {p}
    BY <1>5, <1>8 DEF Lists
  <2>3. ASSUME NEW h \in Pgno
        PROVE  /\ IsInjective(d.hash[h])
               /\ Range(d.hash[h]) = IF OnHash(d, p, h) THEN Range(c.hash[h]) \cup {p}
                                     ELSE Range(c.hash[h]) \ {p}
    <3>1. ~ OnHash(d, p, h)
      BY <1>10, <1>11 DEF OnHash
    <3>2. h # g => ~ OnHash(c, p, h)
      BY <1>2 DEF OnHash
    <3>3. p \in Range(c.hash[h]) <=> OnHash(c, p, h)
      BY <1>5 DEF Lists
    <3> QED
      BY <1>5, <1>12, <1>13, <3>1, <3>2, <3>3 DEF Lists
  <2>4. \A n \in Network : n \notin Range(d.networks) => d.net[n] = FreeNet
    BY <1>5, <1>8 DEF Lists
  <2> QED
    BY <1>8, <1>11, <1>14, <1>15, <2>1, <2>2, <2>3, <2>4 DEF PageChange
<1>17. CountChange(c, d, p)
  <2>1. ASSUME NEW n \in Network
        PROVE  /\ One(p \in Held(d, n)) = One(p \in Held(c, n))
               /\ One(p \in Of(d, n)) = One(p \in Of(c, n))
    <3>1. (p \in Held(d, n) <=> p \in Held(c, n)) /\ (p \in Of(d, n) <=> p \in Of(c, n))
      BY <1>10, <1>11, <1>15 DEF Held, Of
    <3> QED
      BY <3>1, Zenon DEF One
  <2>2. \A n \in Network : One(p \in Held(c, n)) \in Int /\ One(p \in Of(c, n)) \in Int
    BY DEF One
  <2>3. \A n \in Network : c.net[n].nref \in Int /\ c.net[n].npages \in Int
    BY <1>5 DEF CacheRec, NetRec
  <2>4. \A n \in Network :
          /\ d.net[n].nref = c.net[n].nref + One(p \in Held(d, n)) - One(p \in Held(c, n))
          /\ d.net[n].npages = c.net[n].npages + One(p \in Of(d, n)) - One(p \in Of(c, n))
    BY <1>8, <2>1, <2>2, <2>3
  <2>5. d.npages = c.npages + One(Used(d, p)) - One(Used(c, p))
    BY <1>5, <1>8, <1>15 DEF One, CacheRec
  <2>6. d.memory = c.memory + Weight(d, p) - Weight(c, p)
    BY <1>5, <1>8, <1>15 DEF Weight
  <2>7. d.cached = Cardinality(Counted(d))
    BY <1>5, <1>8 DEF Counted, Counts
  <2> QED
    BY <2>4, <2>5, <2>6, <2>7 DEF CountChange
<1>18. Good(d)
  BY <1>16, <1>17, PageChangeGood
<1>19. MadeZombie(c, d, p)
  BY <1>8, <1>10, <1>11, <1>18 DEF MadeZombie
<1> QED
  BY <1>1, <1>19, Zenon

\* The new page, held by the caller, in place of a free one.
Installed(c, d, n, k, p) ==
  /\ d \in CacheRec
  /\ d.networks = c.networks /\ d.priority = c.priority /\ d.memory = c.memory
  /\ d.limit = c.limit /\ d.nlimit = c.nlimit /\ d.open = c.open
  /\ d.npages = c.npages + 1
  /\ d.cached = IF c.net[n].zombie THEN c.cached + 1 ELSE c.cached
  /\ d.net[n].ref = c.net[n].ref /\ ~ d.net[n].zombie
  /\ d.net[n].nref = c.net[n].nref + 1 /\ d.net[n].npages = c.net[n].npages + 1
  /\ \A m \in Network \ {n} : d.net[m] = c.net[m]
  /\ d.page[p] = [cn |-> n, kind |-> k, ref |-> 1, zombie |-> FALSE, block |-> k.size]
  /\ \A q \in Page \ {p} : d.page[q] = c.page[q]
  /\ d.hash = [c.hash EXCEPT ![k.pgno] = <<p>> \o c.hash[k.pgno]]

LEMMA KindIs ==
  ASSUME NEW k \in Kind
  PROVE  k.size \in Nat \ {0} /\ k.pgno \in Pgno
  BY CacheAssumption DEF Pgno

\* The page hashed and counted once, and then referenced.
CountedIn(e, g, p, x, n) ==
  [e EXCEPT !.hash[g] = <<p>> \o @, !.page[p] = x, !.net[n].npages = @ + 1]

ReferencedIn(e, n) == [e EXCEPT !.net[n].nref = @ + 1]

Entered(e, g, p, x, n) ==
  [e EXCEPT !.hash[g] = <<p>> \o @, !.page[p] = x, !.net[n].npages = @ + 1, !.net[n].nref = @ + 1]

LEMMA EnteredInTurn ==
  ASSUME NEW e \in CacheRec, NEW g, NEW p, NEW x, NEW n
  PROVE  Entered(e, g, p, x, n) = ReferencedIn(CountedIn(e, g, p, x, n), n)
  BY DEF CacheRec, CountedIn, ReferencedIn, Entered

\* Everything that Install writes, into a block of b bytes.
Written(c, d, n, k, p, b) ==
  /\ d \in CacheRec
  /\ d.networks = c.networks /\ d.priority = c.priority /\ d.memory = c.memory
  /\ d.limit = c.limit /\ d.nlimit = c.nlimit /\ d.open = c.open /\ d.npages = c.npages
  /\ d.cached = IF c.net[n].zombie THEN c.cached + 1 ELSE c.cached
  /\ d.net = [c.net EXCEPT ![n] = [ref |-> c.net[n].ref, nref |-> c.net[n].nref + 1,
                                   npages |-> c.net[n].npages + 1, zombie |-> FALSE]]
  /\ d.page = [c.page EXCEPT ![p] = [cn |-> n, kind |-> k, ref |-> 1,
                                     zombie |-> FALSE, block |-> b]]
  /\ d.hash = [c.hash EXCEPT ![k.pgno] = <<p>> \o c.hash[k.pgno]]

LEMMA InstallWrites ==
  ASSUME NEW c \in CacheRec, NEW n \in Network, NEW k \in Kind, NEW p \in Page, NEW b \in Nat
  PROVE  Written(c, Install(c, n, k, p, b), n, k, p, b)
<1>1. PICK d : d = Install(c, n, k, p, b)
  OBVIOUS
<1>2. PICK e : e = Revive(c, n)
  OBVIOUS
<1>3. PICK j : j = IF c.net[n].zombie THEN c.cached + 1 ELSE c.cached
  OBVIOUS
<1>4. PICK x : x = [cn |-> n, kind |-> k, ref |-> 1, zombie |-> FALSE, block |-> b]
  OBVIOUS
<1>5. PICK s : s = <<p>> \o c.hash[k.pgno]
  OBVIOUS
<1>6. PICK w : w = [c.net[n] EXCEPT !.zombie = FALSE]
  OBVIOUS
<1>7. PICK z : z = [w EXCEPT !.npages = w.npages + 1]
  OBVIOUS
<1>8. PICK y : y = [z EXCEPT !.nref = z.nref + 1]
  OBVIOUS
<1>9. /\ k.size \in Nat \ {0} /\ k.pgno \in Pgno /\ x \in PageRec /\ c.cached \in Int
      /\ c.net \in [Network -> NetRec] /\ c.net[n] \in NetRec /\ c.page \in [Page -> PageRec]
      /\ c.hash \in [Pgno -> Seq(Page)] /\ j \in Int
  BY <1>3, <1>4, KindIs DEF CacheRec, PageRec
<1>10. /\ w \in NetRec /\ w.ref = c.net[n].ref /\ w.nref = c.net[n].nref
       /\ w.npages = c.net[n].npages /\ ~ w.zombie
  BY <1>6, <1>9 DEF NetRec
<1>11. /\ z \in NetRec /\ z.ref = c.net[n].ref /\ z.nref = c.net[n].nref
       /\ z.npages = c.net[n].npages + 1 /\ ~ z.zombie
  BY <1>7, <1>10 DEF NetRec
<1>12. /\ y \in NetRec /\ y.ref = c.net[n].ref /\ y.nref = c.net[n].nref + 1
       /\ y.npages = c.net[n].npages + 1 /\ ~ y.zombie
  BY <1>8, <1>11 DEF NetRec
<1>13. s \in Seq(Page)
  BY <1>5, <1>9
<1>14. e = [c EXCEPT !.cached = j, !.net[n] = w]
  <2>1. e = [c EXCEPT !.cached = j, !.net[n].zombie = FALSE]
    BY <1>2, <1>3, Zenon DEF Revive
  <2>2. [c EXCEPT !.cached = j, !.net[n].zombie = FALSE]
          = [c EXCEPT !.cached = j, !.net[n] = [c.net[n] EXCEPT !.zombie = FALSE]]
    BY DEF CacheRec
  <2> QED
    BY <1>6, <2>1, <2>2, Zenon
<1>15. /\ e.networks = c.networks /\ e.priority = c.priority /\ e.memory = c.memory
       /\ e.limit = c.limit /\ e.nlimit = c.nlimit /\ e.open = c.open
       /\ e.npages = c.npages /\ e.cached = j /\ e.page = c.page /\ e.hash = c.hash
       /\ e.net = [c.net EXCEPT ![n] = w] /\ e.net[n] = w
       /\ e.net \in [Network -> NetRec]
       /\ e \in CacheRec
  BY <1>9, <1>10, <1>14 DEF CacheRec
<1>16. d = [e EXCEPT !.hash[k.pgno] = s, !.page[p] = x, !.net[n] = y]
  <2>1. d = Entered(e, k.pgno, p, x, n)
    BY <1>1, <1>2, <1>4, Zenon DEF Install, Entered
  <2>2. PICK f : f = [e EXCEPT !.hash[k.pgno] = <<p>> \o e.hash[k.pgno], !.page[p] = x,
                               !.net[n] = [e.net[n] EXCEPT !.npages = e.net[n].npages + 1]]
    OBVIOUS
  <2>3. f = [e EXCEPT !.hash[k.pgno] = s, !.page[p] = x, !.net[n] = z]
    BY <1>5, <1>7, <1>15, <2>2, Zenon
  <2>4. f.net[n] = z
    BY <1>15, <2>3 DEF CacheRec
  <2>5. d = [f EXCEPT !.net[n] = [f.net[n] EXCEPT !.nref = f.net[n].nref + 1]]
    <3>1. f = CountedIn(e, k.pgno, p, x, n)
      BY <1>15, <2>2 DEF CacheRec, CountedIn
    <3>2. d = ReferencedIn(f, n)
      <4>1. e \in CacheRec
        BY <1>15
      <4>2. Entered(e, k.pgno, p, x, n) = ReferencedIn(CountedIn(e, k.pgno, p, x, n), n)
        BY <4>1, EnteredInTurn
      <4> QED
        BY <2>1, <3>1, <4>2
    <3>3. ReferencedIn(f, n)
            = [f EXCEPT !.net[n] = [f.net[n] EXCEPT !.nref = f.net[n].nref + 1]]
      BY <1>15, <2>3 DEF CacheRec, ReferencedIn
    <3> QED
      BY <3>2, <3>3, Zenon
  <2>6. d = [f EXCEPT !.net[n] = y]
    BY <1>8, <2>4, <2>5, Zenon
  <2>7. /\ f.net = [e.net EXCEPT ![n] = z]
        /\ d.net = [f.net EXCEPT ![n] = y]
    BY <1>15, <2>3, <2>6 DEF CacheRec
  <2>8. d.net = [e.net EXCEPT ![n] = y]
    BY <1>15, <2>7
  <2>9. d = [e EXCEPT !.hash[k.pgno] = s, !.page[p] = x, !.net = d.net]
    BY <1>15, <2>3, <2>6 DEF CacheRec
  <2>10. [e EXCEPT !.hash[k.pgno] = s, !.page[p] = x, !.net[n] = y]
           = [e EXCEPT !.hash[k.pgno] = s, !.page[p] = x, !.net = [e.net EXCEPT ![n] = y]]
    BY <1>15 DEF CacheRec
  <2> QED
    BY <2>8, <2>9, <2>10, Zenon
<1>17. /\ d.networks = c.networks /\ d.priority = c.priority /\ d.memory = c.memory
       /\ d.limit = c.limit /\ d.nlimit = c.nlimit /\ d.open = c.open
       /\ d.npages = c.npages /\ d.cached = j
       /\ d.page = [c.page EXCEPT ![p] = x] /\ d.hash = [c.hash EXCEPT ![k.pgno] = s]
       /\ d.net = [e.net EXCEPT ![n] = y]
  BY <1>15, <1>16 DEF CacheRec
<1>18. d.page \in [Page -> PageRec] /\ d.hash \in [Pgno -> Seq(Page)]
  BY <1>9, <1>13, <1>17
<1>19. d.net = [c.net EXCEPT ![n] = y] /\ d.net \in [Network -> NetRec]
  <2>1. e.net = [c.net EXCEPT ![n] = w] /\ d.net = [e.net EXCEPT ![n] = y]
    BY <1>15, <1>17, Zenon
  <2>2. d.net = [c.net EXCEPT ![n] = y]
    BY <1>9, <2>1
  <2> QED
    BY <1>9, <1>12, <2>2
<1>20. d \in CacheRec
  BY <1>15, <1>16, <1>17, <1>18, <1>19 DEF CacheRec
<1>21. y = [ref |-> c.net[n].ref, nref |-> c.net[n].nref + 1,
            npages |-> c.net[n].npages + 1, zombie |-> FALSE]
  BY <1>9, <1>12 DEF NetRec
<1>22. Written(c, d, n, k, p, b)
  BY <1>3, <1>4, <1>5, <1>17, <1>19, <1>20, <1>21, Zenon DEF Written
<1> QED
  BY <1>1, <1>22, Zenon

\* The same, for a cache whose number of pages was set before or is set
\* afterwards.
LEMMA InstallFields ==
  ASSUME NEW c \in CacheRec, NEW n \in Network, NEW k \in Kind, NEW p \in Page,
         NEW d, Written(c, d, n, k, p, k.size), NEW i \in Int
  PROVE  Installed([c EXCEPT !.npages = i], [d EXCEPT !.npages = i + 1], n, k, p)
<1>1. PICK a : a = [c EXCEPT !.npages = i]
  OBVIOUS
<1>2. PICK b : b = [d EXCEPT !.npages = i + 1]
  OBVIOUS
<1>3. PICK x : x = [cn |-> n, kind |-> k, ref |-> 1, zombie |-> FALSE, block |-> k.size]
  OBVIOUS
<1>4. PICK y : y = [ref |-> c.net[n].ref, nref |-> c.net[n].nref + 1,
                    npages |-> c.net[n].npages + 1, zombie |-> FALSE]
  OBVIOUS
<1>5. /\ d \in CacheRec
      /\ d.networks = c.networks /\ d.priority = c.priority /\ d.memory = c.memory
      /\ d.limit = c.limit /\ d.nlimit = c.nlimit /\ d.open = c.open
      /\ d.cached = IF c.net[n].zombie THEN c.cached + 1 ELSE c.cached
      /\ d.net = [c.net EXCEPT ![n] = y]
      /\ d.page = [c.page EXCEPT ![p] = x]
      /\ d.hash = [c.hash EXCEPT ![k.pgno] = <<p>> \o c.hash[k.pgno]]
  BY <1>3, <1>4, Zenon DEF Written
<1>6. c.page \in [Page -> PageRec] /\ c.net \in [Network -> NetRec]
  BY DEF CacheRec
<1>7. /\ a.networks = c.networks /\ a.priority = c.priority /\ a.memory = c.memory
      /\ a.limit = c.limit /\ a.nlimit = c.nlimit /\ a.open = c.open
      /\ a.npages = i /\ a.cached = c.cached
      /\ a.page = c.page /\ a.hash = c.hash /\ a.net = c.net
  BY <1>1 DEF CacheRec
<1>8. /\ b.networks = d.networks /\ b.priority = d.priority /\ b.memory = d.memory
      /\ b.limit = d.limit /\ b.nlimit = d.nlimit /\ b.open = d.open
      /\ b.npages = i + 1 /\ b.cached = d.cached
      /\ b.page = d.page /\ b.hash = d.hash /\ b.net = d.net
      /\ b \in CacheRec
  <2>1. PICK o : o = i + 1
    OBVIOUS
  <2>2. o \in Int
    BY <2>1
  <2>3. b = [d EXCEPT !.npages = o]
    BY <1>2, <2>1, Zenon
  <2> QED
    BY <1>5, <2>1, <2>2, <2>3 DEF CacheRec
<1>9. /\ b \in CacheRec
      /\ b.networks = a.networks /\ b.priority = a.priority /\ b.memory = a.memory
      /\ b.limit = a.limit /\ b.nlimit = a.nlimit /\ b.open = a.open
      /\ b.npages = a.npages + 1
      /\ b.cached = IF a.net[n].zombie THEN a.cached + 1 ELSE a.cached
  BY <1>5, <1>7, <1>8
<1>10. /\ b.net[n].ref = a.net[n].ref /\ ~ b.net[n].zombie
       /\ b.net[n].nref = a.net[n].nref + 1 /\ b.net[n].npages = a.net[n].npages + 1
       /\ \A m \in Network \ {n} : b.net[m] = a.net[m]
  <2>1. b.net[n] = y /\ \A m \in Network \ {n} : b.net[m] = c.net[m]
    BY <1>5, <1>6, <1>8
  <2> QED
    BY <1>4, <1>7, <2>1
<1>11. b.page[p] = x /\ \A q \in Page \ {p} : b.page[q] = a.page[q]
  BY <1>5, <1>6, <1>7, <1>8
<1>12. b.hash = [a.hash EXCEPT ![k.pgno] = <<p>> \o a.hash[k.pgno]]
  BY <1>5, <1>7, <1>8, Zenon
<1>13. Installed(a, b, n, k, p)
  BY <1>3, <1>9, <1>10, <1>11, <1>12, Zenon DEF Installed
<1> QED
  BY <1>1, <1>2, <1>13, Zenon

LEMMA InstalledGood ==
  ASSUME NEW c, Good(c), NEW n \in Range(c.networks), NEW k \in Kind,
         NEW p \in Page, ~ Used(c, p), NEW d, Installed(c, d, n, k, p)
  PROVE  Good(d)
<1>1. /\ Lists(c) /\ Counts(c) /\ c \in CacheRec /\ n \in Network /\ ~ Free(c, p)
      /\ Range(c.networks) \subseteq Network /\ c.cached \in Int /\ c.memory \in Int
  <2>1. Lists(c) /\ Counts(c) /\ c \in CacheRec /\ c.networks \in Seq(Network) /\ ~ Free(c, p)
        /\ c.cached \in Int /\ c.memory \in Int
    BY GoodTypes DEF Good, Free
  <2> QED
    BY <2>1 DEF Range
<1>2. k.size \in Nat \ {0} /\ k.pgno \in Pgno /\ n # NULL
  BY <1>1, KindIs, CacheAssumption
<1>3. /\ d \in CacheRec
      /\ d.networks = c.networks /\ d.priority = c.priority /\ d.memory = c.memory
      /\ d.npages = c.npages + 1
      /\ d.cached = IF c.net[n].zombie THEN c.cached + 1 ELSE c.cached
      /\ ~ d.net[n].zombie
      /\ d.net[n].nref = c.net[n].nref + 1 /\ d.net[n].npages = c.net[n].npages + 1
      /\ \A m \in Network \ {n} : d.net[m] = c.net[m]
      /\ \A q \in Page \ {p} : d.page[q] = c.page[q]
  BY DEF Installed
<1>4. /\ d.page[p].cn = n /\ d.page[p].kind = k /\ d.page[p].ref = 1
      /\ ~ d.page[p].zombie /\ d.page[p].block = k.size
  BY DEF Installed
<1>5. Used(d, p) /\ ~ Free(d, p)
  BY <1>2, <1>4 DEF Used, Free
<1>6. PICK s : s = <<p>> \o c.hash[k.pgno]
  OBVIOUS
<1>7. s \in Seq(Page) /\ IsInjective(s) /\ Range(s) = Range(c.hash[k.pgno]) \cup {p}
  <2>1. c.hash[k.pgno] \in Seq(Page) /\ IsInjective(c.hash[k.pgno])
    BY <1>1, <1>2 DEF Lists, CacheRec
  <2>2. p \notin Range(c.hash[k.pgno])
    BY <1>1, <1>2 DEF Lists, OnHash
  <2> QED
    BY <1>6, <2>1, <2>2, ConsDistinct
<1>8. d.hash[k.pgno] = s /\ \A h \in Pgno \ {k.pgno} : d.hash[h] = c.hash[h]
  <2>1. d.hash = [c.hash EXCEPT ![k.pgno] = s]
    BY <1>6, Zenon DEF Installed
  <2>2. c.hash \in [Pgno -> Seq(Page)]
    BY <1>1 DEF CacheRec
  <2> QED
    BY <1>2, <2>1, <2>2
<1>9. PageChange(c, d, p)
  <2>1. PageOK(d, p)
    BY <1>3, <1>4 DEF PageOK
  <2>2. IsInjective(d.priority) /\ Range(d.priority) = Range(c.priority) \ {p}
    BY <1>1, <1>3 DEF Lists
  <2>3. ASSUME NEW h \in Pgno
        PROVE  /\ IsInjective(d.hash[h])
               /\ Range(d.hash[h]) = IF OnHash(d, p, h) THEN Range(c.hash[h]) \cup {p}
                                     ELSE Range(c.hash[h]) \ {p}
    <3>1. OnHash(d, p, h) <=> h = k.pgno
      BY <1>4, <1>5 DEF OnHash
    <3>2. p \notin Range(c.hash[h])
      BY <1>1 DEF Lists, OnHash
    <3> QED
      BY <1>1, <1>7, <1>8, <3>1, <3>2 DEF Lists
  <2>4. \A m \in Network : m \notin Range(d.networks) => d.net[m] = FreeNet
    BY <1>1, <1>3 DEF Lists
  <2> QED
    BY <1>3, <1>5, <2>1, <2>2, <2>3, <2>4 DEF PageChange
<1>10. CountChange(c, d, p)
  <2>1. /\ p \in Held(d, n) /\ p \in Of(d, n)
        /\ \A m \in Network \ {n} : p \notin Held(d, m) /\ p \notin Of(d, m)
        /\ \A m \in Network : p \notin Held(c, m) /\ p \notin Of(c, m)
    BY <1>1, <1>4, CacheAssumption DEF Held, Of, Used
  <2>2. \A m \in Network : c.net[m].nref \in Int /\ c.net[m].npages \in Int
    BY <1>1 DEF CacheRec, NetRec
  <2>3. ASSUME NEW m \in Network
        PROVE  /\ d.net[m].nref = c.net[m].nref + One(p \in Held(d, m)) - One(p \in Held(c, m))
               /\ d.net[m].npages = c.net[m].npages + One(p \in Of(d, m)) - One(p \in Of(c, m))
    <3>1. CASE m = n
      BY <1>3, <2>1, <2>2, <3>1 DEF One
    <3>2. CASE m # n
      BY <1>3, <2>1, <2>2, <3>2 DEF One
    <3> QED
      BY <3>1, <3>2
  <2>4. d.npages = c.npages + One(Used(d, p)) - One(Used(c, p))
    BY <1>1, <1>3, <1>5 DEF One, CacheRec
  <2>5. d.memory = c.memory + Weight(d, p) - Weight(c, p)
    BY <1>1, <1>3, <1>5 DEF Weight
  <2>6. d.cached = Cardinality(Counted(d))
    <3>1. IsFiniteSet(Counted(c)) /\ c.cached = Cardinality(Counted(c))
      BY <1>1, FiniteCounts DEF Counts
    <3>2. Counted(d) = Counted(c) \cup {n}
      BY <1>1, <1>3 DEF Counted
    <3>3. n \in Counted(c) <=> ~ c.net[n].zombie
      BY DEF Counted
    <3>4. CASE c.net[n].zombie
      BY <1>3, <3>1, <3>2, <3>3, <3>4, CountAdded
    <3>5. CASE ~ c.net[n].zombie
      <4>1. Counted(d) = Counted(c)
        BY <3>2, <3>3, <3>5
      <4> QED
        BY <1>3, <3>1, <3>5, <4>1
    <3> QED
      BY <3>4, <3>5
  <2> QED
    BY <2>3, <2>4, <2>5, <2>6 DEF CountChange
<1> QED
  BY <1>9, <1>10, PageChangeGood

\* What every call keeps.
SoundStep(c, d) == Sound(d) /\ Keeps(c, d) /\ InOrder(c, d) /\ d.open = c.open

\* The versions that are replaced are of the new page's network and number.
OldVersions(c, n, k, old) == \A o \in old : c.page[o].cn = n /\ c.page[o].kind.pgno = k.pgno

\* A page of a network in use that is condemned is replaced by the new page, or
\* no page of a network that nobody uses is left.
LEMMA StoredInOrder ==
  ASSUME NEW c, Good(c), NEW t, Trimmed(c, t), NEW n, NEW k,
         NEW p \in Page, ~ Used(t, p), NEW d, Installed(t, d, n, k, p), n \in Network,
         NEW S, Cleared(c, t, S), NEW old, GivenUp(c, old, S), OldVersions(c, n, k, old),
         ~ Used(c, p) \/ old \subseteq {p}
  PROVE  InOrder(c, d)
<1>1. /\ d.page[p].cn = n /\ d.page[p].kind = k /\ d.page[p].ref = 1 /\ Used(d, p)
      /\ \A q \in Page \ {p} : d.page[q] = t.page[q]
  BY CacheAssumption DEF Installed, Used
<1>2. \A m \in Network : d.net[m].ref = c.net[m].ref
  BY DEF Installed, Trimmed
<1>3. CASE \A q \in S : q \in old \/ IdlePage(c, q)
  <2> SUFFICES ASSUME NEW q \in Page, InUse(c, q)
               PROVE  d.page[q].kind = c.page[q].kind \/ Replaced(c, d, q)
    BY DEF InOrder
  <2>1. CASE q \notin S
    <3>1. t.page[q] = c.page[q] /\ Used(c, q)
      BY <2>1 DEF Cleared, InUse, Free
    <3>2. q # p
      BY <3>1 DEF Used
    <3> QED
      BY <1>1, <3>1, <3>2
  <2>2. CASE q \in S
    <3>1. q \in old
      BY <1>3, <2>2, InUseIs DEF InUse
    <3>2. c.page[q].cn = n /\ c.page[q].kind.pgno = k.pgno /\ (~ Used(c, p) \/ p = q)
      BY <3>1 DEF OldVersions
    <3> QED
      BY <1>1, <3>2 DEF Replaced
  <2> QED
    BY <2>1, <2>2
<1>4. CASE \A q \in Page : IdlePage(c, q) => q \in S
  <2> SUFFICES ASSUME NEW q \in Page, IdlePage(d, q)
               PROVE  FALSE
    BY DEF InOrder, NoneIdle
  <2>1. q # p /\ d.page[q] = t.page[q] /\ Free(t, q)
    BY <1>1 DEF IdlePage, Free, Used
  <2>2. q \notin S /\ t.page[q] = c.page[q]
    BY <2>1 DEF Cleared, Free
  <2>3. Free(c, q) /\ c.page[q].cn \in Network
    BY <2>1, <2>2, FreeIsOK DEF Free, Used, Good
  <2>4. c.net[c.page[q].cn].ref = 0
    BY <1>2, <2>1, <2>2, <2>3 DEF IdlePage
  <2> QED
    BY <1>4, <2>2, <2>3, <2>4 DEF IdlePage
<1> QED
  BY <1>3, <1>4 DEF GivenUp

LEMMA StoredSound ==
  ASSUME NEW c, Sound(c), NEW t, Trimmed(c, t), NEW n \in Range(c.networks), NEW k \in Kind,
         NEW p \in Page, ~ Used(t, p), NEW d, Installed(t, d, n, k, p),
         NEW S, Cleared(c, t, S), NEW old, GivenUp(c, old, S), OldVersions(c, n, k, old),
         ~ Used(c, p) \/ old \subseteq {p}
  PROVE  SoundStep(c, d)
<1>1. Good(c) /\ Good(t) /\ t.networks = c.networks /\ t.limit = c.limit /\ t.open = c.open
      /\ t.memory <= c.memory /\ c.memory <= c.limit
  BY DEF Sound, Trimmed
<1>2. /\ \A m \in Network : Settled(t, m)
      /\ Bounded(t)
      /\ \A q \in Page : c.page[q].ref > 0 => t.page[q] = c.page[q]
  BY <1>1, TrimmedStays DEF Sound
<1>3. Good(d)
  BY <1>1, InstalledGood, Zenon
<1>4. /\ d.networks = t.networks /\ d.memory = t.memory /\ d.limit = t.limit /\ d.open = t.open
      /\ d.net[n].ref = t.net[n].ref /\ ~ d.net[n].zombie
      /\ \A m \in Network \ {n} : d.net[m] = t.net[m]
      /\ \A q \in Page \ {p} : d.page[q] = t.page[q]
  BY DEF Installed
<1>5. d.page[p].ref = 1
  BY DEF Installed
<1>6. n \in Network /\ c.memory \in Nat /\ t.memory \in Nat /\ c.limit \in Nat
  <2>1. c.networks \in Seq(Network)
    BY <1>1, GoodTypes
  <2> QED
    BY <1>1, <2>1, GoodTypes DEF Range
<1>7. d.memory <= d.limit
  BY <1>1, <1>4, <1>6
<1>8. \A m \in Network : Settled(d, m)
  BY <1>2, <1>4 DEF Settled, Referenced
<1>9. Bounded(d)
  BY <1>2, <1>4, <1>5, MaxRefIs DEF Bounded
<1>10. Keeps(c, d)
  <2> SUFFICES ASSUME NEW q \in Page, c.page[q].ref > 0
               PROVE  d.page[q] = c.page[q]
    BY DEF Keeps
  <2>1. t.page[q] = c.page[q] /\ Used(c, q)
    BY <1>1, <1>2, HeldUsed DEF Good
  <2>2. Used(t, q)
    BY <2>1 DEF Used
  <2>3. q # p
    BY <2>2
  <2> QED
    BY <1>4, <2>1, <2>3
<1>11. InOrder(c, d)
  BY <1>1, <1>6, StoredInOrder
<1> QED
  BY <1>1, <1>3, <1>4, <1>7, <1>8, <1>9, <1>10, <1>11 DEF SoundStep, Sound

\* d is r but for the page at p, whose block is too small: memory_used has lost
\* also what is written behind it.
Overrun(r, d, p) ==
  /\ d \in CacheRec
  /\ d.networks = r.networks /\ d.net = r.net /\ d.hash = r.hash
  /\ d.priority = r.priority /\ d.cached = r.cached /\ d.npages = r.npages
  /\ d.limit = r.limit /\ d.nlimit = r.nlimit /\ d.open = r.open
  /\ \A q \in Page \ {p} : d.page[q] = r.page[q]
  /\ d.page[p].cn = r.page[p].cn /\ d.page[p].kind = r.page[p].kind
  /\ d.page[p].ref = 1 /\ r.page[p].ref = 1 /\ Used(r, p)
  /\ d.page[p].zombie = r.page[p].zombie
  /\ d.page[p].block < d.page[p].kind.size
  /\ d.memory = Less(r.memory, d.page[p].kind.size - d.page[p].block)

\* The new page in place of one that nobody holds, as if the block had been
\* made for it.
Instead(c, n, k, p) ==
  Install([DeletePage(c, p) EXCEPT !.npages = c.npages], n, k, p, k.size)

LEMMA InsteadSound ==
  ASSUME NEW c, Sound(c), NEW n \in Range(c.networks), NEW k \in Kind,
         NEW p \in Page, Free(c, p),
         NEW old, old \subseteq {p}, GivenUp(c, old, {p}), OldVersions(c, n, k, old)
  PROVE  SoundStep(c, Instead(c, n, k, p))
<1>1. PICK t : t = DeletePage(c, p)
  OBVIOUS
<1>2. Good(c) /\ Lists(c)
  BY DEF Sound, Good
<1>3. t \in CacheRec /\ t.npages = c.npages - 1
  <2>1. PageDeleted(c, DeletePage(c, p), p, c.page[p].cn, c.page[p].kind)
    BY <1>2, DeletePageFields, Zenon
  <2>2. PageDeleted(c, t, p, c.page[p].cn, c.page[p].kind)
    BY <1>1, <2>1, Zenon
  <2> QED
    BY <2>2 DEF PageDeleted
<1>4. Trimmed(c, t) /\ ~ Used(t, p) /\ Cleared(c, t, {p})
  <2>1. Trimmed(c, t) /\ ~ Used(t, p) /\ \A q \in Page \ {p} : t.page[q] = c.page[q]
    BY <1>1, <1>2, DeletePageGood, Zenon
  <2> QED
    BY <2>1 DEF Cleared
<1>5. c.npages \in Int /\ n \in Network /\ k.size \in Nat
  <2>1. c.networks \in Seq(Network) /\ c \in CacheRec
    BY <1>2, GoodTypes
  <2> QED
    BY <2>1, KindIs DEF CacheRec, Range
<1>6. PICK u : u = [t EXCEPT !.npages = c.npages]
  OBVIOUS
<1>7. u \in CacheRec /\ u.npages = c.npages
  BY <1>3, <1>5, <1>6 DEF CacheRec
<1>8. PICK j : j = c.npages - 1
  OBVIOUS
<1>9. j \in Int /\ j + 1 = c.npages /\ t.npages = j
  BY <1>3, <1>5, <1>8
<1>10. [u EXCEPT !.npages = j] = t
  BY <1>3, <1>6, <1>9 DEF CacheRec
<1>11. PICK d : d = Install(u, n, k, p, k.size)
  OBVIOUS
<1>12. Written(u, d, n, k, p, k.size)
  BY <1>5, <1>7, <1>11, InstallWrites, Zenon
<1>13. Installed([u EXCEPT !.npages = j], [d EXCEPT !.npages = j + 1], n, k, p)
  BY <1>5, <1>7, <1>9, <1>12, InstallFields, Zenon
<1>14. [d EXCEPT !.npages = j + 1] = d
  <2>1. j + 1 = d.npages /\ d \in CacheRec
    BY <1>7, <1>9, <1>12 DEF Written
  <2>2. [d EXCEPT !.npages = d.npages] = d
    BY <2>1 DEF CacheRec
  <2> QED
    BY <2>1, <2>2, Zenon
<1>15. Installed(t, d, n, k, p)
  BY <1>10, <1>13, <1>14, Zenon
<1>16. SoundStep(c, d)
  BY <1>4, <1>15, StoredSound, Zenon
<1>17. d = Instead(c, n, k, p)
  BY <1>1, <1>6, <1>11, Zenon DEF Instead
<1> QED
  BY <1>16, <1>17, Zenon

\* A page of the same size is replaced as if the block had been made for the
\* new one; into a smaller one the new page is written all the same.
LEMMA ReuseIs ==
  ASSUME NEW c, Sound(c), NEW n \in Range(c.networks), NEW k \in Kind,
         NEW p \in Page, Free(c, p)
  PROVE  /\ c.page[p].block = k.size => Reuse(c, n, k, p) = Instead(c, n, k, p)
         /\ c.page[p].block < k.size => Overrun(Instead(c, n, k, p), Reuse(c, n, k, p), p)
<1>1. PICK t : t = DeletePage(c, p)
  OBVIOUS
<1>2. PICK b : b = c.page[p].block
  OBVIOUS
<1>3. Good(c) /\ Lists(c)
  BY DEF Sound, Good
<1>4. /\ b = c.page[p].kind.size /\ b \in Nat
      /\ c.npages \in Int /\ c.memory \in Nat /\ k.size \in Nat
      /\ n \in Network /\ n # NULL /\ Word \in Nat
  <2>1. c.networks \in Seq(Network) /\ c \in CacheRec /\ c.memory \in Nat
    BY <1>3, GoodTypes
  <2> QED
    BY <1>2, <1>3, <2>1, FreeIsOK, KindIs, CacheAssumption DEF CacheRec, Range
<1>5. t \in CacheRec /\ t.memory = c.memory - b /\ t.memory \in Nat
  <2>1. PageDeleted(c, DeletePage(c, p), p, c.page[p].cn, c.page[p].kind)
    BY <1>3, DeletePageFields, Zenon
  <2>2. PageDeleted(c, t, p, c.page[p].cn, c.page[p].kind)
    BY <1>1, <2>1, Zenon
  <2>3. t \in CacheRec /\ t.memory = c.memory - b
    BY <1>2, <1>4, <2>2 DEF PageDeleted
  <2>4. Good(t)
    <3>1. Trimmed(c, t)
      BY <1>1, <1>3, DeletePageGood, Zenon
    <3> QED
      BY <3>1 DEF Trimmed
  <2> QED
    BY <2>3, <2>4, GoodTypes
<1>6. PICK m : m = Less(c.memory, k.size)
  OBVIOUS
<1>7. m \in Int
  BY <1>4, <1>6 DEF Less
<1>8. PICK u : u = [t EXCEPT !.memory = m, !.npages = c.npages]
  OBVIOUS
<1>9. PICK v : v = [t EXCEPT !.npages = c.npages]
  OBVIOUS
<1>10. /\ u \in CacheRec /\ v \in CacheRec /\ u.memory = m /\ v.memory = t.memory
       /\ u.networks = v.networks /\ u.net = v.net /\ u.hash = v.hash /\ u.page = v.page
       /\ u.priority = v.priority /\ u.cached = v.cached /\ u.npages = v.npages
       /\ u.limit = v.limit /\ u.nlimit = v.nlimit /\ u.open = v.open
  BY <1>4, <1>5, <1>7, <1>8, <1>9 DEF CacheRec
<1>11. PICK d : d = Install(u, n, k, p, b)
  OBVIOUS
<1>12. PICK r : r = Install(v, n, k, p, k.size)
  OBVIOUS
<1>13. Written(u, d, n, k, p, b) /\ Written(v, r, n, k, p, k.size)
  BY <1>4, <1>10, <1>11, <1>12, InstallWrites, Zenon
<1>14. d = Reuse(c, n, k, p) /\ r = Instead(c, n, k, p)
  BY <1>1, <1>2, <1>6, <1>8, <1>9, <1>11, <1>12, Zenon DEF Reuse, Instead
<1>15. ASSUME b = k.size
       PROVE  d = r
  <2>1. m = t.memory
    BY <1>4, <1>5, <1>6, <1>15 DEF Less
  <2>2. u = v
    <3>1. [t EXCEPT !.memory = t.memory, !.npages = c.npages] = u
      BY <1>8, <2>1, Zenon
    <3> QED
      BY <1>5, <1>9, <3>1 DEF CacheRec
  <2> QED
    BY <1>11, <1>12, <1>15, <2>2, Zenon
<1>16. ASSUME b < k.size
       PROVE  Overrun(r, d, p)
  <2>1. /\ d \in CacheRec /\ r \in CacheRec
        /\ d.networks = r.networks /\ d.priority = r.priority
        /\ d.cached = r.cached /\ d.npages = r.npages
        /\ d.limit = r.limit /\ d.nlimit = r.nlimit /\ d.open = r.open
        /\ d.net = r.net /\ d.hash = r.hash
        /\ d.memory = m /\ r.memory = t.memory
    BY <1>10, <1>13 DEF Written
  <2>2. PICK x : x = [cn |-> n, kind |-> k, ref |-> 1, zombie |-> FALSE, block |-> b]
    OBVIOUS
  <2>3. PICK y : y = [cn |-> n, kind |-> k, ref |-> 1, zombie |-> FALSE, block |-> k.size]
    OBVIOUS
  <2>4. d.page = [v.page EXCEPT ![p] = x] /\ r.page = [v.page EXCEPT ![p] = y]
    BY <1>10, <1>13, <2>2, <2>3, Zenon DEF Written
  <2>5. /\ d.page[p] = x /\ r.page[p] = y
        /\ \A q \in Page \ {p} : d.page[q] = r.page[q]
    BY <1>10, <2>4 DEF CacheRec
  <2>6. /\ d.page[p].cn = r.page[p].cn /\ d.page[p].kind = r.page[p].kind
        /\ d.page[p].ref = 1 /\ r.page[p].ref = 1 /\ Used(r, p)
        /\ d.page[p].zombie = r.page[p].zombie
        /\ d.page[p].block = b /\ d.page[p].kind = k
    BY <1>4, <2>2, <2>3, <2>5 DEF Used
  <2>7. m = Less(r.memory, k.size - b)
    BY <1>4, <1>5, <1>6, <1>16, <2>1 DEF Less
  <2>8. d.page[p].block < d.page[p].kind.size
    BY <1>16, <2>6
  <2>9. d.memory = Less(r.memory, d.page[p].kind.size - d.page[p].block)
    BY <2>1, <2>6, <2>7, Zenon
  <2> QED
    BY <2>1, <2>5, <2>6, <2>8, <2>9 DEF Overrun
<1> QED
  BY <1>2, <1>14, <1>15, <1>16, Zenon

LEMMA StoreNewSound ==
  ASSUME NEW c, Sound(c), NEW n \in Range(c.networks), NEW k \in Kind,
         NEW row \in Seq(Page), IsInjective(row), \A i \in DOMAIN row : Free(c, row[i]),
         NEW p \in Page \ Allocated(c),
         NEW old, GivenUp(c, old, Range(row)), OldVersions(c, n, k, old)
  PROVE  SoundStep(c, [Install(DeleteRow(c, row), n, k, p, k.size) EXCEPT !.npages = @ + 1])
<1>1. PICK t : t = DeleteRow(c, row)
  OBVIOUS
<1>2. Good(c)
  BY DEF Sound
<1>3. Trimmed(c, t) /\ Cleared(c, t, Range(row))
  BY <1>1, <1>2, DeleteRowGood, Zenon
<1>4. t \in CacheRec /\ t.npages \in Int
  BY <1>3, GoodTypes DEF Trimmed, CacheRec
<1>5. n \in Network
  BY <1>2, GoodTypes DEF Range
<1>6. ~ Used(t, p) /\ ~ Used(c, p)
  <2>1. c.page[p] = FreePage
    BY DEF Allocated
  <2>2. t.page[p] = FreePage
    BY <1>3, <2>1 DEF Trimmed
  <2> QED
    BY <2>1, <2>2 DEF Used, FreePage
<1>7. PICK d : d = Install(t, n, k, p, k.size)
  OBVIOUS
<1>8. /\ d \in CacheRec /\ d.npages = t.npages
      /\ Installed([t EXCEPT !.npages = t.npages], [d EXCEPT !.npages = t.npages + 1], n, k, p)
  <2>1. k.size \in Nat
    BY KindIs
  <2>2. Written(t, d, n, k, p, k.size)
    BY <1>4, <1>5, <1>7, <2>1, InstallWrites, Zenon
  <2>3. d \in CacheRec /\ d.npages = t.npages
    BY <2>2, Zenon DEF Written
  <2> QED
    BY <1>4, <1>5, <2>2, <2>3, InstallFields, Zenon
<1>9. [t EXCEPT !.npages = t.npages] = t
  BY <1>4 DEF CacheRec
<1>10. PICK e : e = [d EXCEPT !.npages = @ + 1]
  OBVIOUS
<1>11. e = [d EXCEPT !.npages = t.npages + 1]
  BY <1>8, <1>10, Zenon
<1>12. Installed(t, e, n, k, p)
  BY <1>8, <1>9, <1>11, Zenon
<1>13. SoundStep(c, e)
  BY <1>3, <1>6, <1>12, StoredSound, Zenon
<1>14. e = [Install(DeleteRow(c, row), n, k, p, k.size) EXCEPT !.npages = @ + 1]
  BY <1>1, <1>7, <1>10, Zenon
<1> QED
  BY <1>13, <1>14, Zenon

\* When a page is deleted for the second time all pages of networks nobody uses
\* have been.
LEMMA TwiceSound ==
  ASSUME NEW c, Sound(c), NEW s \in Seq(Page), \A i \in DOMAIN s : Free(c, s[i]),
         Again(c, s), NEW row \in BeforeTwice(s)
  PROVE  SoundStep(c, DeleteRow(c, row))
<1>1. PICK j \in DOMAIN s : /\ row = SubSeq(s, 1, j - 1)
                            /\ IsInjective(row) /\ ~ IsInjective(SubSeq(s, 1, j))
  BY DEF BeforeTwice
<1>2. /\ row \in Seq(Page) /\ DOMAIN row = 1 .. j - 1 /\ j \in 1 .. Len(s)
      /\ \A i \in 1 .. j - 1 : row[i] = s[i]
  BY <1>1
<1>3. PICK i \in 1 .. j - 1 : s[i] = s[j]
  <2>1. PICK z : z = SubSeq(s, 1, j)
    OBVIOUS
  <2>2. DOMAIN z = 1 .. j /\ \A h \in 1 .. j : z[h] = s[h]
    BY <1>2, <2>1
  <2>3. PICK a \in 1 .. j, b \in 1 .. j : a # b /\ s[a] = s[b]
    BY <1>1, <2>1, <2>2 DEF IsInjective
  <2>4. ASSUME a < j, b < j
        PROVE  FALSE
    <3>1. a \in DOMAIN row /\ b \in DOMAIN row /\ row[a] = row[b]
      BY <1>2, <2>3, <2>4
    <3> QED
      BY <1>1, <2>3, <3>1 DEF IsInjective
  <2> QED
    BY <1>2, <2>3, <2>4
<1>4. \A p \in Page : IdlePage(c, p) => p \in Range(row)
  <2> SUFFICES ASSUME NEW p \in Page, IdlePage(c, p)
               PROVE  p \in Range(row)
    OBVIOUS
  <2>1. i \in DOMAIN s /\ i < j
    BY <1>2, <1>3
  <2>2. PICK h \in 1 .. j - 1 : s[h] = p
    BY <1>3, <2>1 DEF Again
  <2> QED
    BY <1>2, <2>2 DEF Range
<1>5. \A h \in DOMAIN row : Free(c, row[h])
  BY <1>2
<1>6. PICK d : d = DeleteRow(c, row)
  OBVIOUS
<1>7. Good(c) /\ c.memory <= c.limit /\ Bounded(c) /\ \A n \in Network : Settled(c, n)
  BY DEF Sound
<1>8. Trimmed(c, d) /\ Cleared(c, d, Range(row))
  BY <1>1, <1>2, <1>5, <1>6, <1>7, DeleteRowGood, Zenon
<1>9. /\ \A n \in Network : Settled(d, n)
      /\ Bounded(d)
      /\ \A p \in Page : c.page[p].ref > 0 => d.page[p] = c.page[p]
  BY <1>7, <1>8, TrimmedStays
<1>10. /\ Good(d) /\ d.memory <= c.memory /\ d.limit = c.limit /\ d.open = c.open
       /\ \A n \in Network : d.net[n].ref = c.net[n].ref
  BY <1>8 DEF Trimmed
<1>11. d.memory <= d.limit
  <2>1. c.memory \in Nat /\ c.limit \in Nat /\ d.memory \in Nat
    BY <1>7, <1>10, GoodTypes
  <2> QED
    BY <1>7, <1>10, <2>1
<1>12. NoneIdle(d)
  <2> SUFFICES ASSUME NEW p \in Page, IdlePage(d, p)
               PROVE  FALSE
    BY DEF NoneIdle
  <2>1. Free(d, p) /\ d.net[d.page[p].cn].ref = 0
    BY DEF IdlePage
  <2>2. p \notin Range(row) /\ d.page[p] = c.page[p]
    BY <1>8, <2>1 DEF Cleared, Free
  <2>3. Free(c, p) /\ c.page[p].cn \in Network
    <3>1. Free(c, p)
      BY <2>1, <2>2 DEF Free, Used
    <3> QED
      BY <1>7, <3>1, FreeIsOK DEF Good
  <2>4. IdlePage(c, p)
    BY <1>10, <2>1, <2>2, <2>3 DEF IdlePage
  <2> QED
    BY <1>4, <2>2, <2>4
<1>13. SoundStep(c, d)
  BY <1>9, <1>10, <1>11, <1>12 DEF SoundStep, Sound, Keeps, InOrder
<1> QED
  BY <1>6, <1>13, Zenon

LEMMA SoundSame ==
  ASSUME NEW c, Sound(c)
  PROVE  SoundStep(c, c)
  BY DEF SoundStep, Keeps, InOrder

\* What put_page leaves behind.  When all contents have the same size, the block
\* that is used again fits and one page is enough.
OneSize == \A j, k \in Kind : j.size = k.size

PutStep(c) ==
  /\ \/ SoundStep(c, ca') /\ fault' \in {fault, "deleted twice"}
     \/ fault' = "overrun" /\ \E r \in CacheRec, p \in Page :
                                SoundStep(c, r) /\ Overrun(r, ca', p)
  /\ OneSize => fault' = fault

LEMMA PutIntoSound ==
  ASSUME NEW c, Sound(c), NEW n \in Range(c.networks), NEW k \in Kind, NEW old,
         old = {} \/ \E o \in Page : old = {o} /\ Free(c, o), OldVersions(c, n, k, old),
         PutInto(c, n, k, old)
  PROVE  PutStep(c)
<1>1. Good(c) /\ c.memory <= c.limit
  BY DEF Sound
<1>2. PICK d : d = DeathRow(c, k, old)
  OBVIOUS
<1>3. IF d.available < k.size THEN ca' = c /\ UNCHANGED fault ELSE Store(c, n, k, d)
  BY <1>2, Zenon DEF PutInto
<1>4. /\ RowOK(c, d) /\ old \subseteq Range(d.row) /\ GivenUp(c, old, Range(d.row))
      /\ Wanted(c, k, d) /\ Again(c, d.row)
  BY <1>1, <1>2, DeathRowOK, Zenon
<1>5. d.row \in Seq(Page) /\ \A i \in DOMAIN d.row : Free(c, d.row[i])
  BY <1>4 DEF RowOK, DeathRec
<1>6. k.size \in Nat /\ c.memory \in Nat /\ c.limit \in Nat
  BY <1>1, GoodTypes, KindIs
<1>7. CASE ca' = c /\ fault' = fault
  <2>1. SoundStep(c, ca')
    BY <1>7, SoundSame, Zenon
  <2> QED
    BY <1>7, <2>1 DEF PutStep
<1>8. CASE Reusable(k, d) /\ Store(c, n, k, d)
  <2>1. Len(d.row) = 1 /\ d.available = k.size
    BY <1>8 DEF Reusable
  <2>2. 1 \in DOMAIN d.row
    BY <1>5, <2>1
  <2>3. PICK p : p = d.row[1]
    OBVIOUS
  <2>4. p \in Page /\ Free(c, p) /\ d.available = c.limit - c.memory + c.page[p].kind.size
    BY <1>4, <1>5, <2>1, <2>2, <2>3 DEF RowOK
  <2>5. PICK b : b = c.page[p].block
    OBVIOUS
  <2>6. b = c.page[p].kind.size /\ b \in Nat /\ c.page[p].kind \in Kind
    BY <1>1, <2>4, <2>5, FreeIsOK DEF Good
  <2>7. b = k.size \/ b < k.size
    BY <1>1, <1>6, <2>1, <2>4, <2>6
  <2>8. ca' = Reuse(c, n, k, p) /\ fault' = IF b < k.size THEN "overrun" ELSE fault
    BY <1>8, <2>3, <2>5, Zenon DEF Store
  <2>9. PICK r : r = Instead(c, n, k, p)
    OBVIOUS
  <2>10. SoundStep(c, r)
    <3>1. Range(d.row) = {p}
      BY <1>5, <2>1, <2>2, <2>3 DEF Range
    <3>2. old \subseteq {p} /\ GivenUp(c, old, {p})
      BY <1>4, <3>1
    <3> QED
      BY <2>4, <2>9, <3>2, InsteadSound, Zenon
  <2>11. (b = k.size => ca' = r) /\ (b < k.size => Overrun(r, ca', p))
    BY <2>4, <2>5, <2>8, <2>9, ReuseIs, Zenon
  <2>12. CASE b = k.size
    <3>1. ~ (b < k.size)
      BY <2>6, <2>12
    <3>2. fault' = fault
      BY <2>8, <3>1
    <3> QED
      BY <2>10, <2>11, <2>12, <3>2, Zenon DEF PutStep
  <2>13. CASE b < k.size
    <3>1. r \in CacheRec
      BY <2>10, GoodTypes DEF SoundStep, Sound
    <3>2. fault' = "overrun"
      BY <2>8, <2>13
    <3>3. ~ OneSize
      BY <2>6, <2>13 DEF OneSize
    <3> QED
      BY <2>4, <2>10, <2>11, <2>13, <3>1, <3>2, <3>3, Zenon DEF PutStep
  <2> QED
    BY <2>7, <2>12, <2>13
<1>9. CASE ~ Reusable(k, d) /\ Store(c, n, k, d)
  <2>1. \/ ca' = c /\ fault' = fault
        \/ /\ IsInjective(d.row)
           /\ \E p \in Page \ Allocated(c) :
                ca' = [Install(DeleteRow(c, d.row), n, k, p, k.size) EXCEPT !.npages = @ + 1]
           /\ fault' = fault
        \/ /\ \E row \in BeforeTwice(d.row) : ca' = DeleteRow(c, row)
           /\ fault' = "deleted twice"
    BY <1>9, Zenon DEF Store
  <2>2. ASSUME IsInjective(d.row), NEW p \in Page \ Allocated(c),
               ca' = [Install(DeleteRow(c, d.row), n, k, p, k.size) EXCEPT !.npages = @ + 1]
        PROVE  SoundStep(c, ca')
    BY <1>4, <1>5, <2>2, StoreNewSound, Zenon
  <2>3. ASSUME NEW row \in BeforeTwice(d.row), ca' = DeleteRow(c, row)
        PROVE  SoundStep(c, ca') /\ ~ OneSize
    <3>1. SoundStep(c, ca')
      BY <1>4, <1>5, <2>3, TwiceSound, Zenon
    <3>2. ~ (Len(d.row) <= 1)
      <4> SUFFICES ASSUME Len(d.row) <= 1
                   PROVE  FALSE
        OBVIOUS
      <4>1. PICK j \in DOMAIN d.row : ~ IsInjective(SubSeq(d.row, 1, j))
        BY <2>3 DEF BeforeTwice
      <4>2. PICK z : z = SubSeq(d.row, 1, j)
        OBVIOUS
      <4>3. DOMAIN z = {1}
        BY <1>5, <4>1, <4>2
      <4> QED
        BY <4>1, <4>2, <4>3 DEF IsInjective
    <3>3. PICK q \in Page : q = d.row[1] /\ Free(c, q)
      BY <1>5, <3>2
    <3>4. c.limit - c.memory + c.page[q].kind.size < k.size
      BY <1>4, <1>5, <3>2, <3>3 DEF Wanted
    <3>5. c.page[q].kind \in Kind /\ c.page[q].kind.size \in Nat
      BY <1>1, <3>3, FreeIsOK DEF Good
    <3>6. c.page[q].kind.size # k.size
      BY <1>1, <1>6, <3>4, <3>5
    <3> QED
      BY <3>1, <3>5, <3>6 DEF OneSize
  <2>4. CASE ca' = c /\ fault' = fault
    BY <1>7, <2>4
  <2>5. CASE /\ IsInjective(d.row)
             /\ \E p \in Page \ Allocated(c) :
                  ca' = [Install(DeleteRow(c, d.row), n, k, p, k.size) EXCEPT !.npages = @ + 1]
             /\ fault' = fault
    BY <2>2, <2>5, Zenon DEF PutStep
  <2>6. CASE /\ \E row \in BeforeTwice(d.row) : ca' = DeleteRow(c, row)
             /\ fault' = "deleted twice"
    BY <2>3, <2>6, Zenon DEF PutStep
  <2> QED
    BY <2>1, <2>4, <2>5, <2>6
<1> QED
  BY <1>3, <1>7, <1>8, <1>9

LEMMA FoundIs ==
  ASSUME NEW c, Sound(c), NEW n, n # NULL, NEW k \in Kind, NEW all, NEW p \in Found(c, n, k, all)
  PROVE  /\ p \in Page /\ Used(c, p) /\ ~ c.page[p].zombie
         /\ c.page[p].cn = n /\ c.page[p].kind.pgno = k.pgno
<1>1. p \in Matches(c, n, k, all)
  BY DEF Found
<1>2. p \in Range(c.hash[k.pgno])
  <2>1. p \in ToSet(c.hash[k.pgno])
    BY <1>1 DEF Matches
  <2> QED
    BY <2>1, Zenon DEF ToSet, Range
<1>3. Lists(c) /\ k.pgno \in Pgno
  BY KindIs DEF Sound, Good
<1>4. p \in Page
  BY <1>2, <1>3 DEF Lists, CacheRec, Range
<1>5. c.page[p].cn = n
  BY <1>1 DEF Matches
<1> QED
  BY <1>2, <1>3, <1>4, <1>5 DEF Lists, OnHash

\* A page that moves to the head of its hash list, and one that is replaced
\* while somebody holds it.
LEMMA HeadSound ==
  ASSUME NEW c, Sound(c), NEW p \in Page, Used(c, p), ~ c.page[p].zombie
  PROVE  /\ Sound(ToHashHead(c, p))
         /\ ToHashHead(c, p).page = c.page /\ ToHashHead(c, p).open = c.open
         /\ ToHashHead(c, p).networks = c.networks /\ ToHashHead(c, p).net = c.net
<1>1. PICK d : d = ToHashHead(c, p)
  OBVIOUS
<1>2. /\ Good(d)
      /\ d.networks = c.networks /\ d.page = c.page /\ d.net = c.net
      /\ d.memory = c.memory /\ d.limit = c.limit /\ d.open = c.open
  BY <1>1, ToHashHeadGood, Zenon DEF Sound
<1>3. Sound(d)
  BY <1>2 DEF Sound, Bounded, Settled, Referenced
<1> QED
  BY <1>1, <1>2, <1>3, Zenon

\* Nothing has changed that decides which page is given up.
AsBefore(c, d) ==
  /\ \A q \in Page : /\ d.page[q].ref = c.page[q].ref
                     /\ d.page[q].cn = c.page[q].cn /\ d.page[q].kind = c.page[q].kind
  /\ \A n \in Network : d.net[n].ref = c.net[n].ref

LEMMA BeforeInOrder ==
  ASSUME NEW c, NEW d, AsBefore(c, d)
  PROVE  InOrder(c, d)
  BY DEF AsBefore, InOrder

LEMMA SamePages ==
  ASSUME NEW c, NEW d, Sound(d), d.page = c.page, d.open = c.open
  PROVE  SoundStep(c, d)
  BY DEF SoundStep, Keeps, InOrder

LEMMA SupersededSound ==
  ASSUME NEW c, Sound(c), NEW p \in Page, Used(c, p), ~ c.page[p].zombie
  PROVE  LET d == Superseded(c, p)
         IN  /\ SoundStep(c, d) /\ d.networks = c.networks
             /\ AsBefore(c, d)
             /\ ~ (c.page[p].ref > 0) => Free(d, p)
<1>1. PICK d : d = Superseded(c, p)
  OBVIOUS
<1>2. CASE c.page[p].ref > 0
  <2>1. /\ Good(d)
        /\ d.networks = c.networks /\ d.net = c.net /\ d.memory = c.memory
        /\ d.limit = c.limit /\ d.nlimit = c.nlimit /\ d.open = c.open
        /\ \A q \in Page \ {p} : d.page[q] = c.page[q]
        /\ d.page[p].ref = c.page[p].ref
        /\ d.page[p].kind = c.page[p].kind /\ d.page[p].cn = c.page[p].cn
    <3>1. Good(c)
      BY DEF Sound
    <3>2. MadeZombie(c, d, p)
      BY <1>1, <1>2, <3>1, ZombieGood, Zenon
    <3> QED
      BY <3>2 DEF MadeZombie
  <2>2. AsBefore(c, d)
    BY <2>1 DEF AsBefore
  <2>3. Sound(d)
    BY <2>1, <2>2 DEF Sound, Bounded, Settled, Referenced, AsBefore
  <2>4. Keeps(c, d)
    BY <2>1 DEF Keeps
  <2> QED
    BY <1>1, <1>2, <2>1, <2>2, <2>3, <2>4, BeforeInOrder, Zenon DEF SoundStep
<1>3. CASE ~ (c.page[p].ref > 0)
  <2>1. d = ToHashHead(c, p)
    BY <1>1, <1>3, Zenon DEF Superseded
  <2>2. /\ Sound(d) /\ d.page = c.page /\ d.net = c.net
        /\ d.open = c.open /\ d.networks = c.networks
    BY <2>1, HeadSound, Zenon
  <2>3. c.page[p].ref = 0
    <3>1. c.page[p] \in PageRec
      BY UsedIsOK DEF Sound, Good
    <3> QED
      BY <1>3, <3>1 DEF PageRec
  <2>4. Free(d, p) /\ Keeps(c, d) /\ AsBefore(c, d)
    BY <2>2, <2>3 DEF Free, Used, Keeps, AsBefore
  <2> QED
    BY <1>1, <2>2, <2>4, BeforeInOrder, Zenon DEF SoundStep
<1> QED
  BY <1>2, <1>3

LEMMA KeepsTwice ==
  ASSUME NEW c, NEW d, NEW e, SoundStep(c, d), SoundStep(d, e),
         AsBefore(c, d)
  PROVE  SoundStep(c, e)
<1>1. Sound(e) /\ Keeps(c, e) /\ e.open = c.open
  BY MaxRefIs DEF SoundStep, Keeps, AsBefore
<1>2. CASE NoneIdle(e)
  BY <1>1, <1>2 DEF SoundStep, InOrder
<1>3. CASE \A p \in Page : InUse(d, p) => \/ e.page[p].kind = d.page[p].kind
                                         \/ e.net[d.page[p].cn].ref = 0
                                         \/ Replaced(d, e, p)
  <2>1. ASSUME NEW p \in Page, InUse(c, p)
        PROVE  \/ e.page[p].kind = c.page[p].kind
               \/ e.net[c.page[p].cn].ref = 0
               \/ Replaced(c, e, p)
    <3>1. Free(d, p) /\ d.page[p].cn = c.page[p].cn /\ d.page[p].kind = c.page[p].kind
      BY <2>1 DEF AsBefore, InUse, Free, Used
    <3>2. c.page[p].cn \in Network
      BY <3>1, FreeIsOK DEF SoundStep, Sound, Good
    <3>3. InUse(d, p)
      BY <2>1, <3>1, <3>2 DEF AsBefore, InUse
    <3>4. Replaced(d, e, p) => Replaced(c, e, p)
      BY <3>1 DEF Replaced, AsBefore, Used
    <3> QED
      BY <1>3, <3>1, <3>3, <3>4
  <2> QED
    BY <1>1, <2>1 DEF SoundStep, InOrder
<1> QED
  BY <1>2, <1>3 DEF SoundStep, InOrder

LEMMA NetworksAre ==
  ASSUME NEW c, Sound(c), NEW n
  PROVE  /\ Networks(c) = Range(c.networks)
         /\ n \in Networks(c) => n \in Network /\ n # NULL
<1>1. c.networks \in Seq(Network)
  BY GoodTypes DEF Sound
<1> QED
  BY <1>1, CacheAssumption DEF Networks, ToSet, Range

LEMMA PutSound ==
  ASSUME Sound(ca), Put
  PROVE  PutStep(ca)
<1>1. PICK n \in Networks(ca), k \in Kind : PutPage(n, k)
  BY DEF Put
<1>2. n \in Range(ca.networks) /\ n # NULL
  BY NetworksAre
<1>3. CASE PutInto(ca, n, k, {})
  <2>1. OldVersions(ca, n, k, {})
    BY DEF OldVersions
  <2> QED
    BY <1>2, <1>3, <2>1, PutIntoSound, Zenon
<1>4. ASSUME NEW o \in Found(ca, n, k, k.all),
             PutInto(Superseded(ca, o), n, k, IF ca.page[o].ref > 0 THEN {} ELSE {o})
      PROVE  PutStep(ca)
  <2>1. /\ o \in Page /\ Used(ca, o) /\ ~ ca.page[o].zombie
        /\ ca.page[o].cn = n /\ ca.page[o].kind.pgno = k.pgno
    BY <1>2, FoundIs
  <2>2. PICK d : d = Superseded(ca, o)
    OBVIOUS
  <2>3. PICK old : old = IF ca.page[o].ref > 0 THEN {} ELSE {o}
    OBVIOUS
  <2>4. /\ SoundStep(ca, d) /\ d.networks = ca.networks
        /\ AsBefore(ca, d)
        /\ ~ (ca.page[o].ref > 0) => Free(d, o)
    BY <2>1, <2>2, SupersededSound, Zenon
  <2>5. old = {} \/ \E q \in Page : old = {q} /\ Free(d, q)
    BY <2>1, <2>3, <2>4
  <2>8. OldVersions(d, n, k, old)
    BY <2>1, <2>3, <2>4 DEF OldVersions, AsBefore
  <2>6. Sound(d) /\ n \in Range(d.networks) /\ PutInto(d, n, k, old)
    <3>1. Sound(d) /\ n \in Range(d.networks)
      BY <1>2, <2>4, Zenon DEF SoundStep
    <3> QED
      BY <1>4, <2>2, <2>3, <3>1, Zenon
  <2>7. PutStep(d)
    BY <2>5, <2>6, <2>8, PutIntoSound, Zenon
  <2>9. \A r : SoundStep(d, r) => SoundStep(ca, r)
    BY <2>4, KeepsTwice, Zenon
  <2> QED
    BY <2>7, <2>9, Zenon DEF PutStep
<1> QED
  BY <1>1, <1>3, <1>4 DEF PutPage

-----------------------------------------------------------------------------
(* The other calls. *)

Limited(c, m, l, b) == [c EXCEPT !.limit = m, !.nlimit = l, !.open = b]

LEMMA LimitsGood ==
  ASSUME NEW c, Good(c), NEW m \in MemoryLimits, NEW l \in NetworksLimits, NEW b \in BOOLEAN
  PROVE  LET d == Limited(c, m, l, b)
         IN  /\ Good(d)
             /\ d.networks = c.networks /\ d.page = c.page /\ d.net = c.net
             /\ d.memory = c.memory /\ d.limit = m /\ d.nlimit = l /\ d.open = b
<1> PICK d : d = Limited(c, m, l, b)
  OBVIOUS
<1>1. c \in CacheRec /\ Lists(c) /\ Counts(c)
  BY GoodTypes DEF Good
<1>2. /\ d \in CacheRec
      /\ d.networks = c.networks /\ d.page = c.page /\ d.net = c.net /\ d.hash = c.hash
      /\ d.priority = c.priority /\ d.memory = c.memory /\ d.npages = c.npages
      /\ d.cached = c.cached /\ d.limit = m /\ d.nlimit = l /\ d.open = b
  BY <1>1 DEF CacheRec, Limited
<1>3. Counted(d) = Counted(c)
  BY <1>2 DEF Counted
<1>4. d.cached = Cardinality(Counted(d))
  BY <1>1, <1>2, <1>3 DEF Counts
<1>5. \A p \in Page : Used(c, p) => c.page[p].cn \in Range(d.networks)
  BY <1>1, <1>2, UsedIsOK
<1>6. NetChange(c, d)
  BY <1>1, <1>2, <1>4, <1>5 DEF NetChange, Lists
<1>7. Good(d)
  BY <1>6, NetChangeGood, Zenon
<1> QED
  BY <1>2, <1>7, Zenon

LEMMA NetRefSound ==
  ASSUME NEW c, Sound(c), NEW n \in Range(c.networks), NEW r \in Nat, 0 < r, r <= MaxRef
  PROVE  LET d == [c EXCEPT !.net[n].ref = r]
         IN  SoundStep(c, d) /\ d.page = c.page
<1>1. PICK d : d = [c EXCEPT !.net[n].ref = r]
  OBVIOUS
<1>2. /\ Good(d)
      /\ d.networks = c.networks /\ d.page = c.page
      /\ d.memory = c.memory /\ d.limit = c.limit /\ d.open = c.open
      /\ d.net[n].ref = r
      /\ \A m \in Network \ {n} : d.net[m] = c.net[m]
  <2>1. Good(c)
    BY DEF Sound
  <2> QED
    BY <1>1, <2>1, NetRefGood
<1>3. Sound(d)
  BY <1>2 DEF Sound, Bounded, Settled, Referenced
<1> QED
  BY <1>1, <1>2, <1>3, SamePages, Zenon

LEMMA ReviveSound ==
  ASSUME NEW c, Sound(c), NEW n \in Range(c.networks), n \in Network
  PROVE  LET d == Revive(c, n)
         IN  SoundStep(c, d) /\ d.networks = c.networks /\ d.page = c.page
             /\ d.net[n].ref = c.net[n].ref
<1>1. PICK d : d = Revive(c, n)
  OBVIOUS
<1>2. /\ Good(d)
      /\ d.networks = c.networks /\ d.page = c.page
      /\ d.memory = c.memory /\ d.limit = c.limit /\ d.open = c.open
      /\ d.net = [c.net EXCEPT ![n].zombie = FALSE]
  <2>1. Revived(c, Revive(c, n), n)
    BY ReviveGood, Zenon DEF Sound
  <2>2. Revived(c, d, n)
    BY <1>1, <2>1, Zenon
  <2> QED
    BY <2>2, Zenon DEF Revived
<1>3. /\ d.net[n].ref = c.net[n].ref /\ ~ d.net[n].zombie
      /\ \A m \in Network \ {n} : d.net[m] = c.net[m]
  <2>1. c.net \in [Network -> NetRec] /\ c.net[n] \in NetRec
    BY GoodTypes DEF Sound, CacheRec
  <2>2. PICK x : x = [c.net[n] EXCEPT !.zombie = FALSE]
    OBVIOUS
  <2>3. x.ref = c.net[n].ref /\ ~ x.zombie
    BY <2>1, <2>2 DEF NetRec
  <2>4. d.net = [c.net EXCEPT ![n] = x]
    BY <1>2, <2>2, Zenon
  <2> QED
    BY <2>1, <2>3, <2>4
<1>4. Sound(d)
  BY <1>2, <1>3 DEF Sound, Bounded, Settled, Referenced
<1> QED
  BY <1>1, <1>2, <1>3, <1>4, SamePages, Zenon

LEMMA FindSound ==
  ASSUME Sound(ca), Find
  PROVE  SoundStep(ca, ca') /\ fault' = fault
<1>1. PICK n \in Networks(ca), revive \in BOOLEAN :
        ca.net[n].ref < MaxRef /\ FindNetwork(ca, n, revive) /\ fault' = fault
  BY DEF Find
<1>2. n \in Range(ca.networks) /\ n \in Network
  BY NetworksAre
<1>3. PICK c : c = IF revive THEN Revive(ca, n) ELSE ca
  OBVIOUS
<1>4. /\ SoundStep(ca, c) /\ c.networks = ca.networks /\ c.page = ca.page
      /\ c.net[n].ref = ca.net[n].ref
  BY <1>2, <1>3, ReviveSound, SoundSame, Zenon
<1>5. PICK d : d = MostRecentlyUsed(c, n)
  OBVIOUS
<1>6. /\ Good(d)
      /\ Range(d.networks) = Range(c.networks) /\ d.page = c.page /\ d.net = c.net
      /\ d.memory = c.memory /\ d.limit = c.limit /\ d.open = c.open
  <2>1. Good(c) /\ n \in Range(c.networks)
    BY <1>2, <1>4 DEF SoundStep, Sound
  <2> QED
    BY <1>5, <2>1, MostRecentlyUsedGood, Zenon
<1>7. Sound(d)
  BY <1>4, <1>6 DEF SoundStep, Sound, Bounded, Settled, Referenced
<1>8. PICK r : r = d.net[n].ref + 1
  OBVIOUS
<1>9. r \in Nat /\ 0 < r /\ r <= MaxRef
  <2>1. d.net[n].ref \in Nat
    BY <1>2, <1>6, GoodTypes DEF CacheRec, NetRec
  <2> QED
    BY <1>1, <1>4, <1>6, <1>8, <2>1, MaxRefIs
<1>10. PICK e : e = [d EXCEPT !.net[n].ref = r]
  OBVIOUS
<1>11. Sound(e) /\ e.page = d.page /\ e.open = d.open
  <2>1. n \in Range(d.networks)
    BY <1>2, <1>4, <1>6
  <2> QED
    BY <1>7, <1>9, <1>10, <2>1, NetRefSound, Zenon DEF SoundStep
<1>12. ca' = e
  <2>1. ca' = [MostRecentlyUsed(IF revive THEN Revive(ca, n) ELSE ca, n) EXCEPT !.net[n].ref = @ + 1]
    BY <1>1, Zenon DEF FindNetwork
  <2>2. ca' = [d EXCEPT !.net[n].ref = @ + 1]
    BY <1>3, <1>5, <2>1, Zenon
  <2> QED
    BY <1>8, <1>10, <2>2, Zenon
<1>13. e.page = ca.page /\ e.open = ca.open
  BY <1>4, <1>6, <1>11, Zenon DEF SoundStep
<1> QED
  BY <1>1, <1>11, <1>12, <1>13, SamePages, Zenon


LEMMA AddSound ==
  ASSUME Sound(ca), Add
  PROVE  SoundStep(ca, ca') /\ fault' = fault
<1>1. PICK n \in Network : AddNetwork(ca, n) /\ fault' = fault
  BY DEF Add
<1>2. Networks(ca) = Range(ca.networks) /\ Good(ca)
  BY NetworksAre DEF Sound
<1>3. CASE n \notin Networks(ca) /\ ca' = NewNetwork(ca, n)
  <2>1. /\ Good(ca')
        /\ Range(ca'.networks) = Range(ca.networks) \cup {n} /\ ca'.page = ca.page
        /\ ca'.memory = ca.memory /\ ca'.limit = ca.limit /\ ca'.open = ca.open
        /\ ca'.net[n].ref = 1 /\ \A m \in Network \ {n} : ca'.net[m] = ca.net[m]
    <3>1. n \notin Range(ca.networks)
      BY <1>2, <1>3
    <3>2. NetworkAdded(ca, NewNetwork(ca, n), n)
      BY <1>2, <3>1, NewNetworkGood, Zenon
    <3>3. NetworkAdded(ca, ca', n)
      BY <1>3, <3>2, Zenon
    <3> QED
      BY <3>3, Zenon DEF NetworkAdded
  <2>2. Sound(ca')
    BY <2>1, MaxRefIs DEF Sound, Bounded, Settled, Referenced
  <2> QED
    BY <1>1, <2>1, <2>2, SamePages, Zenon
<1>4. CASE n \in Idle(ca) /\ ca' = [Recycle(ca, n) EXCEPT !.net[n].ref = 1]
  <2>1. n \in Range(ca.networks) /\ ~ Referenced(ca, n)
    BY <1>4 DEF Idle, Range
  <2>2. PICK d : d = Recycle(ca, n)
    OBVIOUS
  <2>3. /\ Good(d) /\ d.memory <= ca.memory
        /\ Range(d.networks) = Range(ca.networks)
        /\ d.limit = ca.limit /\ d.open = ca.open
        /\ d.net[n] = FreeNet
        /\ \A m \in Network \ {n} : /\ d.net[m].ref = ca.net[m].ref
                                    /\ d.net[m].nref = ca.net[m].nref
                                    /\ d.net[m].zombie = ca.net[m].zombie
        /\ \A p \in Page : \/ d.page[p] = ca.page[p]
                           \/ Free(ca, p) /\ d.page[p] = FreePage
        /\ \A p \in Page : ca.page[p].cn # n => d.page[p] = ca.page[p]
    BY <1>2, <2>1, <2>2, RecycleGood, Zenon DEF Sound
  <2>4. d.memory <= d.limit
    <3>1. d.memory \in Nat /\ ca.memory \in Nat /\ ca.limit \in Nat /\ ca.memory <= ca.limit
      BY <1>2, <2>3, GoodTypes DEF Sound
    <3> QED
      BY <2>3, <3>1
  <2>5. FreeNet.ref = 0 /\ ~ FreeNet.zombie
    BY DEF FreeNet
  <2>6. \A m \in Network : Settled(d, m)
    BY <2>3, <2>5 DEF Sound, Settled, Referenced
  <2>7. Bounded(d)
    BY <2>3, MaxRefIs DEF Sound, Bounded
  <2>8. Keeps(ca, d)
    BY <2>3 DEF Keeps, Free
  <2>9. Sound(d)
    BY <2>3, <2>4, <2>6, <2>7 DEF Sound
  <2>10. Spares(ca, d)
    <3> SUFFICES ASSUME NEW p \in Page, InUse(ca, p)
                 PROVE  d.page[p] = ca.page[p]
      BY DEF Spares
    <3>1. ca.page[p].cn # n
      BY <2>1 DEF InUse, Referenced
    <3> QED
      BY <2>3, <3>1
  <2>11. PICK e : e = [d EXCEPT !.net[n].ref = 1]
    OBVIOUS
  <2>12. Sound(e) /\ e.page = d.page /\ e.open = d.open
    <3>1. 1 \in Nat /\ 0 < 1 /\ 1 <= MaxRef /\ n \in Range(d.networks)
      BY <2>1, <2>3, MaxRefIs
    <3> QED
      BY <2>9, <2>11, <3>1, NetRefSound, Zenon DEF SoundStep
  <2>13. ca' = e
    BY <1>4, <2>2, <2>11, Zenon
  <2>14. Keeps(ca, e) /\ Spares(ca, e)
    BY <2>8, <2>10, <2>12 DEF Keeps, Spares
  <2> QED
    BY <1>1, <2>3, <2>12, <2>13, <2>14, SparesInOrder, Zenon DEF SoundStep
<1> QED
  BY <1>1, <1>3, <1>4 DEF AddNetwork


LEMMA NetworkRefSound ==
  ASSUME Sound(ca), CacheNetworkRef
  PROVE  SoundStep(ca, ca') /\ fault' = fault
<1>1. PICK n \in Networks(ca) : /\ ca.net[n].ref \in 1 .. MaxRef - 1
                                /\ ca' = [ca EXCEPT !.net[n].ref = @ + 1]
                                /\ fault' = fault
  BY DEF CacheNetworkRef
<1>2. PICK r : r = ca.net[n].ref + 1
  OBVIOUS
<1>3. n \in Range(ca.networks) /\ r \in Nat /\ 0 < r /\ r <= MaxRef
  BY <1>1, <1>2, NetworksAre, MaxRefIs
<1>4. SoundStep(ca, [ca EXCEPT !.net[n].ref = r])
  BY <1>3, NetRefSound, Zenon
<1> QED
  BY <1>1, <1>2, <1>4, Zenon

LEMMA SurplusNetworksSound ==
  ASSUME NEW c, Good(c), Bounded(c), c.memory <= c.limit
  PROVE  LET d == DeleteSurplusNetworks(c)
         IN  /\ Sound(d) /\ d.open = c.open
             /\ \A p \in Page : c.page[p].ref > 0 => d.page[p] = c.page[p]
             /\ Spares(c, d)
             /\ \A n \in Network : c.net[n].ref = 0 => d.net[n].ref = 0
<1>1. PICK d : d = DeleteSurplusNetworks(c)
  OBVIOUS
<1>2. Pruned(c, d) /\ Spares(c, d) /\ \A n \in Network : Settled(d, n)
  BY <1>1, DeleteSurplusNetworksGood, Zenon
<1>3. Bounded(d) /\ \A p \in Page : c.page[p].ref > 0 => d.page[p] = c.page[p]
  BY <1>2, PrunedStays, Zenon
<1>4. Good(d) /\ d.limit = c.limit /\ d.open = c.open /\ d.memory <= c.memory
  BY <1>2 DEF Pruned
<1>5. d.memory <= d.limit
  <2>1. d.memory \in Nat /\ c.memory \in Nat /\ c.limit \in Nat
    BY <1>4, GoodTypes
  <2> QED
    BY <1>4, <2>1
<1>6. ASSUME NEW n \in Network, c.net[n].ref = 0
      PROVE  d.net[n].ref = 0
  <2>1. CASE n \in Range(d.networks)
    BY <1>2, <1>6, <2>1 DEF Pruned
  <2>2. CASE n \notin Range(d.networks)
    BY <1>4, <2>2, MaxRefIs DEF Good, Lists
  <2> QED
    BY <2>1, <2>2
<1> QED
  BY <1>1, <1>2, <1>3, <1>4, <1>5, <1>6, Zenon DEF Sound

LEMMA NetworkUnrefSound ==
  ASSUME Sound(ca), CacheNetworkUnref
  PROVE  SoundStep(ca, ca') /\ fault' = fault
<1>1. PICK n \in Networks(ca) :
        /\ ca.net[n].ref > 0
        /\ ca' = IF ca.net[n].ref > 1
                 THEN [ca EXCEPT !.net[n].ref = @ - 1]
                 ELSE DeleteSurplusNetworks([ca EXCEPT !.net[n].ref = 0])
        /\ fault' = fault
  BY DEF CacheNetworkUnref
<1>2. n \in Range(ca.networks) /\ n \in Network /\ Good(ca)
  BY NetworksAre DEF Sound
<1>3. ca.net[n].ref \in Nat /\ ca.net[n].ref <= MaxRef /\ MaxRef \in Nat
  BY <1>2, GoodTypes, MaxRefIs DEF CacheRec, NetRec, Sound, Bounded
<1>4. CASE ca.net[n].ref > 1
  <2>1. PICK r : r = ca.net[n].ref - 1
    OBVIOUS
  <2>2. r \in Nat /\ 0 < r /\ r <= MaxRef
    BY <1>3, <1>4, <2>1
  <2>3. SoundStep(ca, [ca EXCEPT !.net[n].ref = r])
    BY <1>2, <2>2, NetRefSound, Zenon
  <2> QED
    BY <1>1, <1>4, <2>1, <2>3, Zenon
<1>5. CASE ~ (ca.net[n].ref > 1)
  <2>1. PICK c : c = [ca EXCEPT !.net[n].ref = 0]
    OBVIOUS
  <2>2. /\ Good(c)
        /\ c.page = ca.page
        /\ c.memory = ca.memory /\ c.limit = ca.limit /\ c.open = ca.open
        /\ c.net[n].ref = 0
        /\ \A m \in Network \ {n} : c.net[m] = ca.net[m]
    <3>1. 0 \in Nat
      OBVIOUS
    <3> QED
      BY <1>2, <2>1, <3>1, NetRefGood
  <2>3. Bounded(c) /\ c.memory <= c.limit
    BY <2>2, MaxRefIs DEF Sound, Bounded
  <2>4. /\ Sound(DeleteSurplusNetworks(c)) /\ DeleteSurplusNetworks(c).open = c.open
        /\ \A p \in Page : c.page[p].ref > 0 => DeleteSurplusNetworks(c).page[p] = c.page[p]
        /\ Spares(c, DeleteSurplusNetworks(c))
        /\ \A m \in Network : c.net[m].ref = 0 => DeleteSurplusNetworks(c).net[m].ref = 0
    BY <2>2, <2>3, SurplusNetworksSound, Zenon
  <2>5. ca' = DeleteSurplusNetworks(c)
    BY <1>1, <1>5, <2>1, Zenon
  <2>6. \A p \in Page : ca.page[p].ref > 0 => ca'.page[p] = ca.page[p]
    BY <2>2, <2>4, <2>5, Zenon
  <2>7. InOrder(ca, ca')
    <3>1. ASSUME NEW p \in Page, InUse(ca, p)
          PROVE  ca'.page[p].kind = ca.page[p].kind \/ ca'.net[ca.page[p].cn].ref = 0
      <4>1. Free(c, p) /\ c.page[p] = ca.page[p]
        BY <2>2, <3>1 DEF InUse, Free, Used
      <4>2. ca.page[p].cn \in Network
        BY <1>2, <3>1, FreeIsOK DEF Good, InUse
      <4>3. CASE ca.page[p].cn = n
        BY <1>2, <2>2, <2>4, <2>5, <4>3
      <4>4. CASE ca.page[p].cn # n
        <5>1. InUse(c, p)
          BY <2>2, <3>1, <4>1, <4>2, <4>4 DEF InUse
        <5> QED
          BY <2>4, <2>5, <4>1, <5>1 DEF Spares
      <4> QED
        BY <4>3, <4>4
    <3> QED
      BY <3>1 DEF InOrder
  <2> QED
    BY <1>1, <2>2, <2>4, <2>5, <2>6, <2>7, Zenon DEF SoundStep, Keeps
<1> QED
  BY <1>4, <1>5

LEMMA RefSound ==
  ASSUME NEW c, Sound(c), NEW p \in Page, Used(c, p), c.page[p].ref < MaxRef
  PROVE  SoundStep(c, CachePageRef(c, p))
<1>1. PICK d : d = CachePageRef(c, p)
  OBVIOUS
<1>2. Good(c) /\ c.page[p].ref \in Nat /\ MaxRef \in Nat \ {0}
  BY UsedIsOK, MaxRefIs DEF Sound, Good, PageRec
<1>3. PICK r \in Nat : r <= MaxRef /\ RefTaken(c, d, p, r)
  <2>1. CASE c.page[p].ref > 0
    <3>1. PICK r : r = c.page[p].ref + 1
      OBVIOUS
    <3>2. r \in Nat \ {0} /\ r <= MaxRef
      BY <1>2, <2>1, <3>1
    <3>3. d = [c EXCEPT !.page[p].ref = r]
      <4>1. d = [c EXCEPT !.page[p].ref = @ + 1]
        BY <1>1, <2>1, Zenon DEF CachePageRef
      <4> QED
        BY <3>1, <4>1, Zenon
    <3>4. RefTaken(c, d, p, r)
      BY <1>2, <2>1, <3>2, <3>3, HeldRefGood, Zenon
    <3> QED
      BY <3>2, <3>4
  <2>2. CASE ~ (c.page[p].ref > 0)
    <3>1. Free(c, p)
      BY <1>2, <2>2 DEF Free
    <3>2. RefTaken(c, d, p, 1)
      BY <1>1, <1>2, <3>1, FreeRefGood, Zenon
    <3> QED
      BY <1>2, <3>2
  <2> QED
    BY <2>1, <2>2
<1>4. /\ Good(d) /\ d.memory <= c.memory
      /\ d.limit = c.limit /\ d.open = c.open
      /\ \A q \in Page \ {p} : d.page[q] = c.page[q]
      /\ d.page[p].ref = r
      /\ d.page[p].kind = c.page[p].kind /\ d.page[p].cn = c.page[p].cn
      /\ \A n \in Network : d.net[n].ref = c.net[n].ref /\ (Settled(c, n) => Settled(d, n))
  BY <1>3, Zenon DEF RefTaken
<1>5. d.memory <= d.limit
  <2>1. d.memory \in Nat /\ c.memory \in Nat /\ c.limit \in Nat /\ c.memory <= c.limit
    BY <1>2, <1>4, GoodTypes DEF Sound
  <2> QED
    BY <1>4, <2>1
<1>6. Bounded(d) /\ \A n \in Network : Settled(d, n)
  BY <1>3, <1>4 DEF Sound, Bounded
<1>7. Keeps(c, d) /\ InOrder(c, d)
  BY <1>4 DEF Keeps, InOrder
<1> QED
  BY <1>1, <1>4, <1>5, <1>6, <1>7, Zenon DEF SoundStep, Sound

LEMMA GetSound ==
  ASSUME Sound(ca), Get
  PROVE  SoundStep(ca, ca') /\ fault' = fault
<1>1. PICK n \in Networks(ca), k \in Kind, all \in BOOLEAN : GetPage(n, k, all)
  BY DEF Get
<1>2. PICK p \in Found(ca, n, k, all) : /\ ca.page[p].ref < MaxRef
                                        /\ ca' = CachePageRef(ToHashHead(ca, p), p)
                                        /\ fault' = fault
  BY <1>1 DEF GetPage
<1>3. p \in Page /\ Used(ca, p) /\ ~ ca.page[p].zombie
  BY NetworksAre, FoundIs
<1>4. PICK c : c = ToHashHead(ca, p)
  OBVIOUS
<1>5. Sound(c) /\ c.page = ca.page /\ c.net = ca.net /\ c.open = ca.open
  BY <1>3, <1>4, HeadSound, Zenon
<1>6. SoundStep(ca, c) /\ AsBefore(ca, c)
  BY <1>5, SamePages DEF AsBefore
<1>7. SoundStep(c, ca')
  <2>1. Used(c, p) /\ c.page[p].ref < MaxRef
    BY <1>2, <1>3, <1>5 DEF Used
  <2> QED
    BY <1>2, <1>3, <1>4, <1>5, <2>1, RefSound, Zenon
<1>8. SoundStep(ca, ca')
  BY <1>5, <1>6, <1>7, KeepsTwice, Zenon
<1> QED
  BY <1>2, <1>8

LEMMA DuplicateRefSound ==
  ASSUME Sound(ca), DuplicateRef
  PROVE  SoundStep(ca, ca') /\ fault' = fault
<1>1. PICK p \in Page : /\ ca.page[p].ref \in 1 .. MaxRef - 1
                        /\ ca' = CachePageRef(ca, p) /\ fault' = fault
  BY DEF DuplicateRef
<1>2. ca.page[p].ref > 0 /\ ca.page[p].ref < MaxRef
  BY <1>1, MaxRefIs
<1>3. Used(ca, p)
  BY <1>2, HeldUsed DEF Sound, Good
<1> QED
  BY <1>1, <1>2, <1>3, RefSound, Zenon

LEMMA UnrefStep ==
  ASSUME Sound(ca), Unref
  PROVE  SoundStep(ca, ca') /\ fault' = fault
<1>1. PICK p \in Page : ca.page[p].ref > 0 /\ ca' = CachePageUnref(ca, p) /\ fault' = fault
  BY DEF Unref
<1> QED
  BY <1>1, UnrefSound, Zenon DEF SoundStep

LEMMA MemoryLimitSound ==
  ASSUME Sound(ca), SetMemoryLimit
  PROVE  SoundStep(ca, ca') /\ fault' = fault
<1>1. PICK m \in MemoryLimits :
        ca' = DeleteSurplusPages([ca EXCEPT !.limit = m]) /\ fault' = fault
  BY DEF SetMemoryLimit
<1>2. PICK c : c = [ca EXCEPT !.limit = m]
  OBVIOUS
<1>3. Good(ca) /\ ca \in CacheRec
  BY GoodTypes DEF Sound
<1>4. c = Limited(ca, m, ca.nlimit, ca.open)
      /\ ca.nlimit \in NetworksLimits /\ ca.open \in BOOLEAN
  BY <1>2, <1>3 DEF CacheRec, Limited
<1>5. /\ Good(c)
      /\ c.networks = ca.networks /\ c.page = ca.page /\ c.net = ca.net /\ c.open = ca.open
  BY <1>3, <1>4, LimitsGood
<1>6. ca' = DeleteSurplusPages(c)
  BY <1>1, <1>2, Zenon
<1>7. Trimmed(c, ca') /\ ca'.memory <= ca'.limit /\ (Spares(c, ca') \/ NoneIdle(ca'))
  BY <1>5, <1>6, DeleteSurplusPagesGood, Zenon
<1>8. Bounded(c) /\ \A n \in Network : Settled(c, n)
  BY <1>5 DEF Sound, Bounded, Settled, Referenced
<1>9. /\ Bounded(ca') /\ \A n \in Network : Settled(ca', n)
      /\ \A p \in Page : c.page[p].ref > 0 => ca'.page[p] = c.page[p]
  BY <1>5, <1>7, <1>8, TrimmedStays
<1>10. Good(ca') /\ ca'.open = c.open
  BY <1>7 DEF Trimmed
<1>11. InOrder(ca, ca')
  <2>1. Spares(c, ca') => Spares(ca, ca')
    BY <1>5 DEF Spares, InUse, Free, Used
  <2> QED
    BY <1>7, <2>1, SparesInOrder, Zenon
<1> QED
  BY <1>1, <1>5, <1>7, <1>9, <1>10, <1>11 DEF SoundStep, Sound, Keeps

LEMMA NetworkLimitSound ==
  ASSUME Sound(ca), SetNetworkLimit
  PROVE  SoundStep(ca, ca') /\ fault' = fault
<1>1. PICK m \in NetworksLimits :
        ca' = DeleteSurplusNetworks([ca EXCEPT !.nlimit = m]) /\ fault' = fault
  BY DEF SetNetworkLimit
<1>2. PICK c : c = [ca EXCEPT !.nlimit = m]
  OBVIOUS
<1>3. Good(ca) /\ ca \in CacheRec
  BY GoodTypes DEF Sound
<1>4. c = Limited(ca, ca.limit, m, ca.open)
      /\ ca.limit \in MemoryLimits /\ ca.open \in BOOLEAN
  BY <1>2, <1>3 DEF CacheRec, Limited
<1>5. /\ Good(c) /\ c.page = ca.page /\ c.net = ca.net
      /\ c.memory = ca.memory /\ c.limit = ca.limit /\ c.open = ca.open
  BY <1>3, <1>4, LimitsGood
<1>6. ca' = DeleteSurplusNetworks(c)
  BY <1>1, <1>2, Zenon
<1>7. Bounded(c) /\ c.memory <= c.limit
  BY <1>5 DEF Sound, Bounded
<1>8. /\ Sound(ca') /\ ca'.open = c.open
      /\ \A p \in Page : c.page[p].ref > 0 => ca'.page[p] = c.page[p]
      /\ Spares(c, ca')
  BY <1>5, <1>6, <1>7, SurplusNetworksSound, Zenon
<1>9. InOrder(ca, ca')
  <2>1. Spares(ca, ca')
    BY <1>5, <1>8 DEF Spares, InUse, Free, Used
  <2> QED
    BY <2>1, SparesInOrder, Zenon
<1> QED
  BY <1>1, <1>5, <1>8, <1>9 DEF SoundStep, Keeps

\* What is left of a cache that has been given up.
Closed(c) ==
  /\ \A p \in Page : ~ Free(c, p)
  /\ \A n \in Range(c.networks) : Referenced(c, n)

LEMMA DeleteSound ==
  ASSUME Sound(ca), Delete
  PROVE  Sound(ca') /\ Keeps(ca, ca') /\ Closed(ca') /\ ~ ca'.open /\ fault' = fault
<1>1. ca' = [Purge(ca) EXCEPT !.open = FALSE] /\ fault' = fault
  BY DEF Delete
<1>2. Good(ca) /\ ca.memory <= ca.limit /\ Bounded(ca)
  BY DEF Sound
<1>3. PICK c : c = Purge(ca)
  OBVIOUS
<1>4. Pruned(ca, c) /\ \A n \in Range(ca.networks) : Emptied(c, n)
  BY <1>2, <1>3, PurgeGood, Zenon
<1>5. /\ Good(c) /\ c.limit = ca.limit /\ c.memory <= ca.memory
      /\ Range(c.networks) \subseteq Range(ca.networks)
  BY <1>4 DEF Pruned
<1>6. Bounded(c) /\ \A p \in Page : ca.page[p].ref > 0 => c.page[p] = ca.page[p]
  BY <1>2, <1>4, PrunedStays
<1>7. c \in CacheRec /\ c.memory <= c.limit
  <2>1. c.memory \in Nat /\ ca.memory \in Nat /\ ca.limit \in Nat
    BY <1>2, <1>5, GoodTypes
  <2> QED
    BY <1>2, <1>5, <2>1, GoodTypes
<1>8. c.limit \in MemoryLimits /\ c.nlimit \in NetworksLimits
      /\ ca' = Limited(c, c.limit, c.nlimit, FALSE)
  <2>1. ca' = [c EXCEPT !.open = FALSE]
    BY <1>1, <1>3, Zenon
  <2> QED
    BY <1>7, <2>1 DEF CacheRec, Limited
<1>9. /\ Good(ca')
      /\ ca'.networks = c.networks /\ ca'.page = c.page /\ ca'.net = c.net
      /\ ca'.memory = c.memory /\ ca'.limit = c.limit /\ ~ ca'.open
  <2>1. PICK b \in BOOLEAN : b = FALSE
    OBVIOUS
  <2>2. PICK d : d = Limited(c, c.limit, c.nlimit, b)
    OBVIOUS
  <2>3. Good(c) /\ c.limit \in MemoryLimits /\ c.nlimit \in NetworksLimits
    BY <1>5, <1>8
  <2>4. /\ Good(d)
        /\ d.networks = c.networks /\ d.page = c.page /\ d.net = c.net
        /\ d.memory = c.memory /\ d.limit = c.limit /\ d.open = b
    BY <2>2, <2>3, LimitsGood
  <2>5. ca' = d
    BY <1>8, <2>1, <2>2, Zenon
  <2> QED
    BY <2>1, <2>4, <2>5, Zenon
<1>10. \A n \in Range(c.networks) : Referenced(c, n)
  BY <1>4, <1>5 DEF Emptied
<1>11. ASSUME NEW p \in Page, Free(c, p)
       PROVE  FALSE
  <2>1. c.page[p].cn \in Range(c.networks)
    BY <1>5, <1>11, FreeIsOK DEF Good
  <2> QED
    BY <1>4, <1>5, <1>11, <2>1 DEF Emptied
<1>12. Closed(ca')
  BY <1>9, <1>10, <1>11 DEF Closed, Free, Used, Referenced
<1>13. Sound(ca')
  BY <1>6, <1>7, <1>9, <1>10 DEF Sound, Bounded, Settled, Referenced
<1>14. Keeps(ca, ca')
  BY <1>6, <1>9 DEF Keeps
<1> QED
  BY <1>1, <1>9, <1>12, <1>13, <1>14

-----------------------------------------------------------------------------
(* The invariant. *)

\* After an overrun the cache would be sound if the block were large enough.
Sane(c, f) ==
  IF f = "overrun"
  THEN c.open /\ \E r \in CacheRec, p \in Page : Sound(r) /\ Overrun(r, c, p)
  ELSE Sound(c)

CacheInv ==
  /\ fault \in {"none", "overrun", "deleted twice"}
  /\ Sane(ca, fault)
  /\ ~ ca.open => Closed(ca)
  /\ OneSize => fault = "none"

\* What is known of the cache whatever has happened is known of a sound one.
Alike(r, d) ==
  /\ r.networks = d.networks /\ r.net = d.net /\ r.hash = d.hash /\ r.priority = d.priority
  /\ r.cached = d.cached /\ r.npages = d.npages
  /\ r.limit = d.limit /\ r.nlimit = d.nlimit /\ r.open = d.open
  /\ \A q \in Page : /\ r.page[q].cn = d.page[q].cn /\ r.page[q].kind = d.page[q].kind
                     /\ r.page[q].ref = d.page[q].ref /\ r.page[q].zombie = d.page[q].zombie
                     /\ r.page[q] = FreePage <=> d.page[q] = FreePage

LEMMA OverrunAlike ==
  ASSUME NEW r, NEW d, NEW p \in Page, Overrun(r, d, p)
  PROVE  Alike(r, d)
<1>1. FreePage.cn = NULL
  BY DEF FreePage
<1>2. r.page[p].cn # NULL /\ d.page[p].cn = r.page[p].cn
  BY DEF Overrun, Used
<1>3. r.page[p] # FreePage /\ d.page[p] # FreePage
  BY <1>1, <1>2, Zenon
<1>4. ASSUME NEW q \in Page
      PROVE  /\ r.page[q].cn = d.page[q].cn /\ r.page[q].kind = d.page[q].kind
             /\ r.page[q].ref = d.page[q].ref /\ r.page[q].zombie = d.page[q].zombie
             /\ r.page[q] = FreePage <=> d.page[q] = FreePage
  <2>1. CASE q = p
    BY <1>3, <2>1 DEF Overrun
  <2>2. CASE q # p
    BY <2>2 DEF Overrun
  <2> QED
    BY <2>1, <2>2
<1> QED
  BY <1>4 DEF Alike, Overrun

LEMMA AlikeSteps ==
  ASSUME NEW c, NEW r, NEW d, SoundStep(c, r), Alike(r, d)
  PROVE  Keeps(c, d) /\ InOrder(c, d) /\ d.open = c.open
<1>1. Keeps(c, d) /\ d.open = c.open
  BY DEF Alike, SoundStep, Keeps
<1>2. ASSUME NEW p \in Page
      PROVE  /\ IdlePage(d, p) <=> IdlePage(r, p)
             /\ Replaced(c, r, p) => Replaced(c, d, p)
  BY DEF Alike, IdlePage, Free, Used, Replaced
<1>3. ASSUME NoneIdle(r)
      PROVE  InOrder(c, d)
  <2>1. NoneIdle(d)
    BY <1>2, <1>3 DEF NoneIdle
  <2> QED
    BY <2>1, Zenon DEF InOrder
<1>4. ASSUME \A p \in Page : InUse(c, p) => \/ r.page[p].kind = c.page[p].kind
                                           \/ r.net[c.page[p].cn].ref = 0
                                           \/ Replaced(c, r, p)
      PROVE  InOrder(c, d)
  <2>1. \A p \in Page : InUse(c, p) => \/ d.page[p].kind = c.page[p].kind
                                       \/ d.net[c.page[p].cn].ref = 0
                                       \/ Replaced(c, d, p)
    BY <1>2, <1>4 DEF Alike
  <2> QED
    BY <2>1, Zenon DEF InOrder
<1>5. InOrder(c, d)
  BY <1>3, <1>4 DEF SoundStep, InOrder
<1> QED
  BY <1>1, <1>5

LEMMA CacheInit == Init => CacheInv
<1> SUFFICES ASSUME Init PROVE CacheInv
  OBVIOUS
<1>1. /\ ca \in [networks : {<<>>}, net : {[n \in Network |-> FreeNet]},
             page : {[p \in Page |-> FreePage]}, hash : {[g \in Pgno |-> <<>>]},
             priority : {<<>>}, memory : {0}, cached : {0}, npages : {0},
             limit : MemoryLimits, nlimit : NetworksLimits, open : {TRUE}]
      /\ fault = "none"
  BY DEF Init
<1>2. /\ ca.networks = <<>> /\ ca.net = [n \in Network |-> FreeNet]
      /\ ca.page = [p \in Page |-> FreePage] /\ ca.hash = [g \in Pgno |-> <<>>]
      /\ ca.priority = <<>> /\ ca.memory = 0 /\ ca.cached = 0 /\ ca.npages = 0
      /\ ca.limit \in MemoryLimits /\ ca.open
  BY <1>1
<1>3. /\ FreePage \in PageRec /\ FreeNet \in NetRec
      /\ FreePage.cn = NULL /\ FreePage.ref = 0
      /\ FreeNet.ref = 0 /\ FreeNet.nref = 0 /\ FreeNet.npages = 0 /\ ~ FreeNet.zombie
  BY DEF FreePage, PageRec, FreeNet, NetRec
<1>4. ca \in CacheRec
  <2>1. <<>> \in Seq(Page) /\ <<>> \in Seq(Network)
    OBVIOUS
  <2>2. /\ [n \in Network |-> FreeNet] \in [Network -> NetRec]
        /\ [p \in Page |-> FreePage] \in [Page -> PageRec]
        /\ [g \in Pgno |-> <<>>] \in [Pgno -> Seq(Page)]
    BY <1>3, <2>1
  <2>3. PICK f, g, h : /\ f = [n \in Network |-> FreeNet] /\ g = [p \in Page |-> FreePage]
                       /\ h = [o \in Pgno |-> <<>>]
    OBVIOUS
  <2>4. PICK m \in MemoryLimits, l \in NetworksLimits :
          ca = [networks |-> <<>>, net |-> f, page |-> g, hash |-> h, priority |-> <<>>,
                memory |-> 0, cached |-> 0, npages |-> 0, limit |-> m, nlimit |-> l,
                open |-> TRUE]
    BY <1>1, <2>3
  <2>5. f \in [Network -> NetRec] /\ g \in [Page -> PageRec] /\ h \in [Pgno -> Seq(Page)]
    BY <2>2, <2>3, Zenon
  <2> QED
    BY <2>1, <2>4, <2>5 DEF CacheRec
<1>5. /\ \A p \in Page : ca.page[p] = FreePage /\ ~ Used(ca, p)
      /\ \A n \in Network : ca.net[n] = FreeNet
  BY <1>2, <1>3 DEF Used
<1>6. Range(<<>>) = {} /\ IsInjective(<<>>)
  BY DEF Range, IsInjective
<1>7. Lists(ca)
  <2>1. \A g \in Pgno : ca.hash[g] = <<>>
    BY <1>2
  <2> QED
    BY <1>2, <1>4, <1>5, <1>6, <2>1 DEF Lists, PageOK, Free, OnHash
<1>8. IsFiniteSet({}) /\ Cardinality({}) = 0
  BY FS_EmptySet
<1>9. Counts(ca)
  <2>1. Live(ca) = {} /\ Bytes(ca) = {} /\ Counted(ca) = {}
    BY <1>2, <1>5, <1>6 DEF Live, Bytes, Counted, Free
  <2>2. \A n \in Network : Held(ca, n) = {} /\ Of(ca, n) = {}
    BY <1>3, <1>5, CacheAssumption DEF Held, Of
  <2> QED
    BY <1>2, <1>3, <1>5, <1>8, <2>1, <2>2 DEF Counts
<1>10. ca.memory <= ca.limit
  <2>1. ca.limit \in Nat \ {0}
    BY <1>2, CacheAssumption
  <2> QED
    BY <1>2, <2>1
<1>11. Bounded(ca) /\ \A n \in Network : Settled(ca, n)
  BY <1>2, <1>3, <1>5, <1>6, MaxRefIs DEF Bounded, Settled
<1> QED
  BY <1>1, <1>2, <1>7, <1>9, <1>10, <1>11 DEF CacheInv, Sane, Sound, Good

LEMMA CacheNext ==
  CacheInv /\ [Next]_vars => CacheInv' /\ Keeps(ca, ca') /\ (ca'.open => InOrder(ca, ca'))
<1> SUFFICES ASSUME CacheInv, [Next]_vars
             PROVE  CacheInv' /\ Keeps(ca, ca') /\ (ca'.open => InOrder(ca, ca'))
  OBVIOUS
<1>1. CASE UNCHANGED vars
  <2>1. ca' = ca /\ fault' = fault
    BY <1>1 DEF vars
  <2>2. Keeps(ca, ca') /\ InOrder(ca, ca')
    BY <2>1 DEF Keeps, InOrder
  <2> QED
    BY <2>1, <2>2 DEF CacheInv
<1>2. CASE Next
  <2>1. Sound(ca) /\ ca.open /\ fault = "none"
    <3>1. ca.open /\ fault = "none"
      BY <1>2 DEF Next
    <3> QED
      BY <3>1 DEF CacheInv, Sane
  <2>2. CASE Delete
    BY <2>1, <2>2, DeleteSound DEF CacheInv, Sane
  <2>3. CASE SoundStep(ca, ca') /\ fault' = fault
    BY <2>1, <2>3 DEF CacheInv, Sane, SoundStep
  <2>4. CASE PutStep(ca)
    <3>1. CASE SoundStep(ca, ca') /\ fault' \in {fault, "deleted twice"}
      <4>1. fault' \in {"none", "deleted twice"} /\ (OneSize => fault' = "none")
        BY <2>1, <2>4, <3>1 DEF PutStep
      <4>2. Sound(ca') /\ Keeps(ca, ca') /\ InOrder(ca, ca') /\ ca'.open
        BY <2>1, <3>1 DEF SoundStep
      <4> QED
        BY <4>1, <4>2 DEF CacheInv, Sane
    <3>2. ASSUME fault' = "overrun", NEW r \in CacheRec, NEW p \in Page,
                 SoundStep(ca, r), Overrun(r, ca', p)
          PROVE  CacheInv' /\ Keeps(ca, ca') /\ InOrder(ca, ca')
      <4>1. Keeps(ca, ca') /\ InOrder(ca, ca') /\ ca'.open
        BY <2>1, <3>2, OverrunAlike, AlikeSteps
      <4>2. Sound(r) /\ ~ OneSize
        BY <2>1, <2>4, <3>2 DEF SoundStep, PutStep
      <4> QED
        BY <3>2, <4>1, <4>2 DEF CacheInv, Sane
    <3> QED
      BY <2>4, <3>1, <3>2 DEF PutStep
  <2> QED
    BY <1>2, <2>1, <2>2, <2>3, <2>4, AddSound, FindSound, NetworkRefSound, NetworkUnrefSound,
       PutSound, GetSound, DuplicateRefSound, UnrefStep, MemoryLimitSound, NetworkLimitSound
    DEF Next
<1> QED
  BY <1>1, <1>2

LEMMA CacheInvariant == Spec => []CacheInv
  BY CacheInit, CacheNext, PTL DEF Spec

-----------------------------------------------------------------------------
(* What the invariant says. *)

\* The lists, the counters and memory_used whatever has happened.
Linkage(c) ==
  /\ c \in CacheRec
  /\ IsInjective(c.networks) /\ IsInjective(c.priority)
  /\ \A g \in Pgno : IsInjective(c.hash[g])
  /\ \A p \in Page : /\ c.page[p] = FreePage <=> ~ Used(c, p)
                     /\ p \in Range(c.priority) <=> Free(c, p)
                     /\ \A g \in Pgno : p \in Range(c.hash[g]) <=> OnHash(c, p, g)
                     /\ Used(c, p) => /\ c.page[p].cn \in Range(c.networks)
                                      /\ c.page[p].cn \in Network
                                      /\ c.page[p].kind.size \in Nat
                                      /\ c.page[p].zombie => c.page[p].ref > 0

Tallies(c) ==
  /\ \A n \in Network : /\ c.net[n].nref = Cardinality(Held(c, n))
                        /\ c.net[n].npages = Cardinality(Of(c, n))
  /\ c.npages = Cardinality(Live(c)) /\ c.cached = Cardinality(Counted(c))
  /\ Bounded(c)

MemoryIs(c, f) ==
  /\ c.memory \in 0 .. Word - 1
  /\ IF f = "overrun"
     THEN \E p \in Page : /\ Used(c, p) /\ c.page[p].ref = 1
                          /\ c.page[p].block < c.page[p].kind.size
                          /\ c.memory = Less(Cardinality(Bytes(c)),
                                             c.page[p].kind.size - c.page[p].block)
     ELSE c.memory = Cardinality(Bytes(c))

LEMMA AlikeIs ==
  ASSUME NEW r, Good(r), Bounded(r), NEW d \in CacheRec, Alike(r, d)
  PROVE  Linkage(d) /\ Tallies(d) /\ Bytes(d) = Bytes(r)
<1>1. Lists(r) /\ Counts(r)
  BY DEF Good
<1>2. ASSUME NEW p \in Page
      PROVE  /\ Used(d, p) <=> Used(r, p)
             /\ Free(d, p) <=> Free(r, p)
             /\ \A g \in Pgno : OnHash(d, p, g) <=> OnHash(r, p, g)
             /\ d.page[p].cn = r.page[p].cn /\ d.page[p].kind = r.page[p].kind
             /\ d.page[p].ref = r.page[p].ref /\ d.page[p].zombie = r.page[p].zombie
             /\ d.page[p] = FreePage <=> r.page[p] = FreePage
  BY DEF Alike, Used, Free, OnHash
<1>3. /\ d.networks = r.networks /\ d.net = r.net /\ d.hash = r.hash /\ d.priority = r.priority
      /\ d.cached = r.cached /\ d.npages = r.npages
  BY DEF Alike
<1>4. ASSUME NEW p \in Page
      PROVE  d.page[p] = FreePage <=> ~ Used(d, p)
  <2>1. CASE Used(r, p)
    <3>1. r.page[p] # FreePage
      BY <2>1 DEF Used, FreePage
    <3> QED
      BY <1>2, <2>1, <3>1
  <2>2. CASE ~ Used(r, p)
    <3>1. r.page[p] = FreePage
      BY <1>1, <2>2, GoodTypes, CacheAssumption DEF Lists, PageOK, Used, CacheRec, Range
    <3> QED
      BY <1>2, <2>2, <3>1
  <2> QED
    BY <2>1, <2>2
<1>5. ASSUME NEW p \in Page, Used(d, p)
      PROVE  /\ d.page[p].cn \in Range(d.networks) /\ d.page[p].cn \in Network
             /\ d.page[p].kind.size \in Nat
             /\ d.page[p].zombie => d.page[p].ref > 0
  BY <1>1, <1>2, <1>3, <1>5, UsedIsOK
<1>6. /\ IsInjective(d.networks) /\ IsInjective(d.priority)
      /\ \A g \in Pgno : IsInjective(d.hash[g])
      /\ \A p \in Page : /\ p \in Range(d.priority) <=> Free(d, p)
                         /\ \A g \in Pgno : p \in Range(d.hash[g]) <=> OnHash(d, p, g)
  BY <1>1, <1>2, <1>3 DEF Lists
<1>7. Linkage(d)
  BY <1>4, <1>5, <1>6 DEF Linkage
<1>8. /\ \A n \in Network : Held(d, n) = Held(r, n) /\ Of(d, n) = Of(r, n)
      /\ Live(d) = Live(r) /\ Counted(d) = Counted(r)
  BY <1>2, <1>3 DEF Held, Of, Live, Counted
<1>9. Bounded(d)
  BY <1>2, <1>3 DEF Bounded
<1>10. Tallies(d)
  BY <1>1, <1>3, <1>8, <1>9 DEF Counts, Tallies
<1>11. Bytes(d) = Bytes(r)
  BY <1>2 DEF Bytes
<1> QED
  BY <1>7, <1>10, <1>11

LEMMA SaneIs ==
  ASSUME NEW c, NEW f, Sane(c, f)
  PROVE  Linkage(c) /\ Tallies(c) /\ MemoryIs(c, f)
<1>1. CASE f # "overrun"
  <2>1. Sound(c)
    BY <1>1 DEF Sane
  <2>2. Good(c) /\ Bounded(c) /\ c \in CacheRec /\ Alike(c, c) /\ c.memory <= c.limit
    BY <2>1, GoodTypes DEF Sound, Alike
  <2>3. c.memory \in 0 .. Word - 1
    <3>1. c.memory \in Nat /\ c.limit \in Nat /\ Word \in Nat /\ c.limit < Word
      BY <2>2, GoodTypes, CacheAssumption DEF CacheRec
    <3> QED
      BY <2>2, <3>1
  <2>4. c.memory = Cardinality(Bytes(c))
    BY <2>2 DEF Good, Counts
  <2> QED
    BY <1>1, <2>2, <2>3, <2>4, AlikeIs DEF MemoryIs
<1>2. CASE f = "overrun"
  <2>1. PICK r \in CacheRec, p \in Page : Sound(r) /\ Overrun(r, c, p)
    BY <1>2 DEF Sane
  <2>2. Good(r) /\ Bounded(r) /\ r.memory <= r.limit /\ c \in CacheRec /\ Alike(r, c)
    BY <2>1, OverrunAlike DEF Sound, Overrun
  <2>3. Linkage(c) /\ Tallies(c) /\ Bytes(c) = Bytes(r)
    BY <2>2, AlikeIs
  <2>4. PICK s : s = c.page[p].kind.size
    OBVIOUS
  <2>5. PICK b : b = c.page[p].block
    OBVIOUS
  <2>6. /\ Used(c, p) /\ c.page[p].ref = 1 /\ b < s
        /\ c.memory = Less(r.memory, s - b)
    BY <2>1, <2>4, <2>5 DEF Overrun, Used
  <2>7. r.memory = Cardinality(Bytes(c))
    BY <2>2, <2>3 DEF Good, Counts
  <2>8. c.memory \in 0 .. Word - 1
    <3>1. /\ r.memory \in Nat /\ r.limit \in Nat /\ Word \in Nat /\ r.limit < Word
          /\ s \in Nat /\ r.limit + s < Word
      <4>1. r.memory \in Nat /\ r.limit \in MemoryLimits /\ r.limit \in Nat
        BY <2>2, GoodTypes DEF CacheRec
      <4>2. r.page[p].kind \in Kind /\ s = r.page[p].kind.size
        <5>1. Lists(r) /\ Used(r, p)
          BY <2>1, <2>2 DEF Good, Overrun
        <5> QED
          BY <2>1, <2>4, <5>1, UsedIsOK DEF Overrun
      <4> QED
        BY <4>1, <4>2, CacheAssumption
    <3>2. b \in Nat
      BY <2>2, <2>5 DEF CacheRec, PageRec
    <3> QED
      BY <2>2, <2>6, <3>1, <3>2 DEF Less
  <2> QED
    BY <1>2, <2>3, <2>4, <2>5, <2>6, <2>7, <2>8 DEF MemoryIs
<1> QED
  BY <1>1, <1>2

LEMMA InUseOrIdle ==
  ASSUME NEW c, Linkage(c), NEW p \in Page, Free(c, p)
  PROVE  InUse(c, p) <=> ~ IdlePage(c, p)
<1>1. c.page[p].cn \in Network /\ c \in CacheRec
  BY DEF Linkage, Free
<1>2. c.net[c.page[p].cn].ref \in Nat
  BY <1>1 DEF CacheRec, NetRec
<1> QED
  BY <1>2 DEF InUse, IdlePage

LEMMA SameNames ==
  ASSUME NEW c, Linkage(c)
  PROVE  /\ Allocated(c) = Live(c)
         /\ Unreferenced(c) = {p \in Page : Free(c, p)}
         /\ Networks(c) = Range(c.networks)
<1>1. \A p \in Page : c.page[p] # FreePage <=> Used(c, p)
  BY DEF Linkage
<1>2. Allocated(c) = Live(c)
  BY <1>1 DEF Allocated, Live
<1>3. Unreferenced(c) = {p \in Page : Free(c, p)}
  BY <1>1 DEF Allocated, Unreferenced, Free
<1> QED
  BY <1>2, <1>3, Zenon DEF Networks, ToSet, Range

\* Until _vbi_cache_put_page reuses a block that is too small (cache.c:1593), the
\* pages nobody holds never take more than the memory limit
\* (vbi_cache_set_memory_limit), so that memory_available of
\* _vbi_cache_put_page is never negative.
THEOREM LimitHolds == Spec => []MemoryBound
<1>1. CacheInv => MemoryBound
  BY DEF CacheInv, Sane, Sound, MemoryBound
<1> QED
  BY <1>1, CacheInvariant, PTL

\* What a page points to and is linked into (page_in_cache) is what it ought
\* to be, and a cache that is deleted keeps nothing but what is held.
THEOREM WellLinked == Spec => []Linked
<1>1. ASSUME CacheInv PROVE Linked
  <2>1. Linkage(ca) /\ ca \in CacheRec
    BY <1>1, SaneIs DEF CacheInv, Linkage
  <2>2. /\ Allocated(ca) = Live(ca)
        /\ Unreferenced(ca) = {p \in Page : Free(ca, p)}
        /\ Networks(ca) = Range(ca.networks)
    BY <2>1, SameNames
  <2>3. ToSet(ca.priority) = Unreferenced(ca)
    <3>1. ToSet(ca.priority) = Range(ca.priority)
      BY Zenon DEF ToSet, Range
    <3>2. Range(ca.priority) \subseteq Page
      BY <2>1 DEF CacheRec, Range
    <3> QED
      BY <2>1, <2>2, <3>1, <3>2 DEF Linkage
  <2>4. ASSUME NEW g \in Pgno
        PROVE  ToSet(ca.hash[g]) = {p \in Allocated(ca) :
                 ca.page[p].kind.pgno = g /\ ~ ca.page[p].zombie}
    <3>1. ToSet(ca.hash[g]) = Range(ca.hash[g])
      BY Zenon DEF ToSet, Range
    <3>2. Range(ca.hash[g]) \subseteq Page
      BY <2>1 DEF CacheRec, Range
    <3>3. \A p \in Page : p \in Range(ca.hash[g]) <=> OnHash(ca, p, g)
      BY <2>1 DEF Linkage
    <3> QED
      BY <2>2, <3>1, <3>2, <3>3 DEF OnHash, Live
  <2>5. \A p \in Allocated(ca) : /\ ca.page[p].cn \in Networks(ca)
                                 /\ ca.page[p].zombie => ca.page[p].ref > 0
    BY <2>1, <2>2 DEF Linkage, Live
  <2>6. ~ ca.open => /\ Unreferenced(ca) = {}
                     /\ \A n \in Networks(ca) : Referenced(ca, n)
    BY <1>1, <2>2 DEF CacheInv, Closed
  <2> QED
    BY <2>1, <2>3, <2>4, <2>5, <2>6 DEF Linked, Linkage
<1> QED
  BY <1>1, CacheInvariant, PTL

\* A page somebody holds keeps its contents and its network
\* (_vbi_cache_put_page, delete_page, vbi_cache_set_memory_limit).
THEOREM HeldStay == Spec => HeldPagesStay
<1>1. CacheInv /\ [Next]_vars => [\A p \in Page : ca.page[p].ref > 0 =>
       \/ ca'.page[p].kind = ca.page[p].kind /\ ca'.page[p].cn = ca.page[p].cn
       \/ ca.page[p].ref = 1 /\ ca'.page[p] = FreePage]_vars
  BY CacheNext, Zenon DEF Keeps
<1> QED
  BY <1>1, CacheInvariant, PTL DEF Spec, HeldPagesStay

\* "Pages of the current network ... are last deleted" (comment of
\* vbi_cache_set_memory_limit): a page of a network in use is given up only for
\* its own new version, with its network, or when no page of an idle network
\* is left.
THEOREM NetworkLast == Spec => CurrentNetworkLast
<1>1. ASSUME CacheInv, CacheInv', InOrder(ca, ca'), NEW p \in Unreferenced(ca)
      PROVE  \/ ca'.page[p].kind = ca.page[p].kind
             \/ ca.net[ca.page[p].cn].ref = 0 \/ ca'.net[ca.page[p].cn].ref = 0
             \/ \E q \in Allocated(ca') : /\ ca'.page[q].ref = 1
                                          /\ q \notin Allocated(ca) \/ q = p
                                          /\ ca'.page[q].cn = ca.page[p].cn
                                          /\ ca'.page[q].kind.pgno = ca.page[p].kind.pgno
             \/ \A q \in Unreferenced(ca') : ca'.net[ca'.page[q].cn].ref > 0
  <2>1. Linkage(ca) /\ Linkage(ca')
    BY <1>1, SaneIs DEF CacheInv
  <2>2. /\ Allocated(ca) = Live(ca) /\ Allocated(ca') = Live(ca')
        /\ Unreferenced(ca) = {q \in Page : Free(ca, q)}
        /\ Unreferenced(ca') = {q \in Page : Free(ca', q)}
    BY <2>1, SameNames
  <2>3. p \in Page /\ Free(ca, p)
    BY <1>1, <2>2
  <2>4. CASE NoneIdle(ca')
    <3>1. ASSUME NEW q \in Unreferenced(ca')
          PROVE  ca'.net[ca'.page[q].cn].ref > 0
      <4>1. q \in Page /\ Free(ca', q)
        BY <2>2, <3>1
      <4>2. InUse(ca', q)
        BY <2>1, <2>4, <4>1, InUseOrIdle DEF NoneIdle
      <4> QED
        BY <4>2 DEF InUse
    <3> QED
      BY <3>1
  <2>5. CASE IdlePage(ca, p)
    BY <2>5 DEF IdlePage
  <2>6. CASE ~ NoneIdle(ca') /\ ~ IdlePage(ca, p)
    <3>1. InUse(ca, p)
      BY <2>1, <2>3, <2>6, InUseOrIdle
    <3>2. \/ ca'.page[p].kind = ca.page[p].kind
          \/ ca'.net[ca.page[p].cn].ref = 0
          \/ Replaced(ca, ca', p)
      BY <1>1, <2>3, <2>6, <3>1 DEF InOrder
    <3> QED
      BY <2>2, <3>2 DEF Replaced, Live
  <2> QED
    BY <2>4, <2>5, <2>6
<1>2. CacheInv /\ [Next]_vars => [ca'.open => \A p \in Unreferenced(ca) :
       \/ ca'.page[p].kind = ca.page[p].kind
       \/ ca.net[ca.page[p].cn].ref = 0 \/ ca'.net[ca.page[p].cn].ref = 0
       \/ \E q \in Allocated(ca') : /\ ca'.page[q].ref = 1
                                    /\ q \notin Allocated(ca) \/ q = p
                                    /\ ca'.page[q].cn = ca.page[p].cn
                                    /\ ca'.page[q].kind.pgno = ca.page[p].kind.pgno
       \/ \A q \in Unreferenced(ca') : ca'.net[ca'.page[q].cn].ref > 0]_vars
  BY <1>1, CacheNext
<1> QED
  BY <1>2, CacheInvariant, PTL DEF Spec, CurrentNetworkLast

\* SetToSeq lists a finite set.
LEMMA SetListed ==
  ASSUME NEW S, IsFiniteSet(S)
  PROVE  LET L == SetToSeq(S)
         IN  L \in Seq(S) /\ IsInjective(L) /\ Range(L) = S
<1>1. PICK n : n = Cardinality(S)
  OBVIOUS
<1>2. n \in Nat /\ ExistsBijection(1 .. n, S)
  BY <1>1, FS_CardinalityType
<1>3. PICK L : L = SetToSeq(S)
  OBVIOUS
<1>4. L \in [1 .. n -> S] /\ IsInjective(L)
  <2>1. \E f \in [1 .. n -> S] : IsInjective(f)
    BY <1>2 DEF ExistsBijection, Bijection, Injection
  <2>2. L = CHOOSE f \in [1 .. n -> S] : IsInjective(f)
    BY <1>1, <1>3, Zenon DEF SetToSeq
  <2> QED
    BY <2>1, <2>2, Zenon
<1>5. L \in Seq(S) /\ DOMAIN L = 1 .. n
  BY <1>2, <1>4
<1>6. Range(L) \subseteq S
  BY <1>4 DEF Range
<1>7. L \in Bijection(1 .. n, Range(L))
  <2>1. L \in [1 .. n -> Range(L)]
    BY <1>4 DEF Range
  <2>2. \A t \in Range(L) : \E i \in 1 .. n : L[i] = t
    BY <1>4 DEF Range
  <2> QED
    BY <1>4, <2>1, <2>2 DEF Bijection, Injection, Surjection
<1>8. Cardinality(Range(L)) = n
  BY <1>2, <1>7, FS_CountingElements DEF ExistsBijection
<1>9. Range(L) = S
  BY <1>1, <1>6, <1>8, FS_Subset
<1> QED
  BY <1>3, <1>4, <1>5, <1>9, Zenon

\* Adding up the sizes of pages counts their bytes.
LEMMA SizeCounts ==
  ASSUME NEW c, Linkage(c), IsFiniteSet({p \in Page : Free(c, p)})
  PROVE  SizeOf(c, {p \in Page : Free(c, p)}) = Cardinality(Bytes(c))
<1> DEFINE S    == {p \in Page : Free(c, p)}
           L    == SetToSeq(S)
           step(m, p) == m + c.page[p].kind.size
           F    == [x \in Nat \X Page |-> step(x[1], x[2])]
           B(s) == {x \in Page \X Nat : \E i \in s : x[1] = L[i] /\ x[2] \in 1 .. c.page[x[1]].kind.size}
           In(d, s) == d \in Nat /\ IsFiniteSet(B(s)) /\ d = Cardinality(B(s))
           J    == [s \in SUBSET DOMAIN L |-> {d \in Nat : In(d, s)}]
           Eq(g) == g = [s \in SUBSET DOMAIN L |->
                          IF s = {} THEN 0 ELSE step(g[s \ {Max(s)}], L[Max(s)])]
           h     == CHOOSE g : Eq(g)
<1>1. /\ L \in Seq(Page) /\ IsInjective(L) /\ Range(L) = S
      /\ \A i \in DOMAIN L : L[i] \in Page /\ Free(c, L[i])
  <2>1. L \in Seq(S) /\ IsInjective(L) /\ Range(L) = S
    BY SetListed
  <2> HIDE DEF L
  <2>2. \A i \in DOMAIN L : L[i] \in S
    BY <2>1
  <2> QED
    BY <2>1, <2>2
<1> HIDE DEF L
<1>2. 0 \in J[{}]
  <2>1. B({}) = {}
    OBVIOUS
  <2>2. IsFiniteSet({}) /\ Cardinality({}) = 0
    BY FS_EmptySet
  <2>3. In(0, {})
    BY <2>1, <2>2
  <2> HIDE DEF In
  <2> QED
    BY <2>3
<1>3. ASSUME NEW s \in SUBSET DOMAIN L, NEW m \in s, NEW x, In(x, s \ {m})
      PROVE  step(x, L[m]) \in Nat /\ In(step(x, L[m]), s)
  <2>1. PICK p : p = L[m]
    OBVIOUS
  <2>2. PICK k : k = c.page[p].kind.size
    OBVIOUS
  <2>3. p \in Page /\ Free(c, p) /\ k \in Nat
    BY <1>1, <2>1, <2>2 DEF Linkage, Free
  <2>4. \A i \in s \ {m} : L[i] # p
    BY <1>1, <2>1 DEF IsInjective
  <2>5. B(s) = B(s \ {m}) \cup ({p} \X (1 .. k))
    <3>1. ASSUME NEW y \in B(s)
          PROVE  y \in B(s \ {m}) \cup ({p} \X (1 .. k))
      <4>1. PICK i \in s : y[1] = L[i] /\ y[2] \in 1 .. c.page[y[1]].kind.size
        OBVIOUS
      <4>2. CASE i = m
        BY <2>1, <2>2, <4>1, <4>2
      <4>3. CASE i # m
        BY <4>1, <4>3
      <4> QED
        BY <4>2, <4>3
    <3>2. ASSUME NEW y \in {p} \X (1 .. k)
          PROVE  y \in B(s)
      <4>1. y[1] = L[m] /\ y[2] \in 1 .. c.page[y[1]].kind.size /\ y \in Page \X Nat
        BY <2>1, <2>2, <2>3
      <4> QED
        BY <4>1
    <3>3. B(s \ {m}) \subseteq B(s)
      OBVIOUS
    <3> QED
      BY <3>1, <3>2, <3>3
  <2>6. B(s \ {m}) \cap ({p} \X (1 .. k)) = {}
    BY <2>4
  <2>7. PICK b : b = B(s \ {m})
    OBVIOUS
  <2>8. IsFiniteSet(b) /\ x = Cardinality(b) /\ x \in Nat /\ b \cap ({p} \X (1 .. k)) = {}
        /\ B(s) = b \cup ({p} \X (1 .. k))
    <3> HIDE DEF B
    <3> QED
      BY <1>3, <2>5, <2>6, <2>7
  <2>9. /\ IsFiniteSet(b \cup ({p} \X (1 .. k)))
        /\ Cardinality(b \cup ({p} \X (1 .. k))) = x + k
    BY <2>3, <2>8, BytesAdded
  <2>10. step(x, L[m]) = x + k /\ x + k \in Nat
    BY <2>1, <2>2, <2>3, <2>8
  <2> HIDE DEF B, step
  <2> QED
    BY <2>8, <2>9, <2>10
<1> HIDE DEF step, B
<1>4. ASSUME NEW s \in SUBSET DOMAIN L, NEW m \in s, NEW x \in J[s \ {m}]
      PROVE  F[<<x, L[m]>>] \in J[s] /\ F[<<x, L[m]>>] = step(x, L[m])
  <2>1. s \ {m} \in SUBSET DOMAIN L /\ L[m] \in Page
    BY <1>1
  <2>2. x \in Nat /\ In(x, s \ {m})
    BY <2>1
  <2>3. In(step(x, L[m]), s)
    BY <1>3, <2>2
  <2>4. F[<<x, L[m]>>] = step(x, L[m])
    BY <2>1, <2>2
  <2> QED
    BY <2>3, <2>4
<1>5. PICK g \in [SUBSET DOMAIN L -> Nat] :
        IsFold(g, F, 0, L) /\ \A s \in SUBSET DOMAIN L : g[s] \in J[s]
  <2>1. \A s \in SUBSET DOMAIN L : J[s] \subseteq Nat
    OBVIOUS
  <2>2. \A s \in SUBSET DOMAIN L :
          s # {} /\ Max(s) \in s => \A x \in J[s \ {Max(s)}] : F[<<x, L[Max(s)]>>] \in J[s]
    BY <1>4
  <2> HIDE DEF F, J, L
  <2> QED
    BY <1>1, <1>2, <2>1, <2>2, FoldReach
<1>6. Eq(h)
  <2>1. ASSUME NEW s \in SUBSET DOMAIN L
        PROVE  g[s] = IF s = {} THEN 0 ELSE step(g[s \ {Max(s)}], L[Max(s)])
    <3> HIDE DEF F, J, L
    <3>1. CASE s = {}
      BY <1>5, <3>1 DEF IsFold
    <3>2. CASE s # {}
      <4>1. g[s] = F[<<g[s \ {Max(s)}], L[Max(s)]>>]
        BY <1>5, <3>2 DEF IsFold
      <4>2. Max(s) \in s /\ s \ {Max(s)} \in SUBSET DOMAIN L
        BY <1>1, <3>2, MaxPosition
      <4> QED
        BY <1>4, <1>5, <3>2, <4>1, <4>2
    <3> QED
      BY <3>1, <3>2
  <2>2. Eq(g)
    BY <1>5, <2>1
  <2> HIDE DEF Eq
  <2> QED
    BY <2>2, Zenon
<1>7. FoldLeft(step, 0, L) = h[DOMAIN L]
  BY Zenon DEF FoldLeft, MapThenFoldSet
<1> HIDE DEF h
<1>8. h[DOMAIN L] \in J[DOMAIN L]
  <2>1. h[{}] \in J[{}]
    BY <1>2, <1>6
  <2>2. ASSUME NEW s \in SUBSET DOMAIN L, s # {}, Max(s) \in s, h[s \ {Max(s)}] \in J[s \ {Max(s)}]
        PROVE  h[s] \in J[s]
    <3>1. h[s] = step(h[s \ {Max(s)}], L[Max(s)])
      BY <1>6, <2>2
    <3> HIDE DEF J, F, L
    <3> QED
      BY <1>4, <2>2, <3>1
  <2>3. \A s \in SUBSET DOMAIN L : h[s] \in J[s]
    <3> HIDE DEF J, L
    <3> QED
      BY <1>1, <2>1, <2>2, FoldKeeps
  <2>4. DOMAIN L \in SUBSET DOMAIN L
    OBVIOUS
  <2> HIDE DEF J, L
  <2> QED
    BY <2>3, <2>4
<1>9. B(DOMAIN L) = Bytes(c)
  <2>1. \A p \in Page : Free(c, p) <=> \E i \in DOMAIN L : p = L[i]
    <3>1. Range(L) = {L[i] : i \in DOMAIN L}
      BY Zenon DEF Range
    <3> QED
      BY <1>1, <3>1
  <2> QED
    BY <2>1 DEF B, Bytes
<1>10. SizeOf(c, S) = h[DOMAIN L]
  BY <1>7, Zenon DEF SizeOf, L, step
<1> QED
  BY <1>8, <1>9, <1>10

LEMMA PartOf ==
  ASSUME NEW S, IsFiniteSet(S), NEW T, T \subseteq S
  PROVE  Cardinality(T) \in 0 .. Cardinality(S)
<1>1. /\ IsFiniteSet(T) /\ Cardinality(T) <= Cardinality(S)
      /\ Cardinality(T) \in Nat /\ Cardinality(S) \in Nat
  BY FS_Subset, FS_CardinalityType
<1> QED
  BY <1>1

LEMMA TypesHold ==
  ASSUME CacheInv
  PROVE  TypeOK
<1>1. /\ Tallies(ca) /\ Bounded(ca) /\ ca \in CacheRec /\ ca.memory \in 0 .. Word - 1
      /\ fault \in {"none", "overrun", "deleted twice"}
  BY SaneIs DEF CacheInv, Linkage, Tallies, MemoryIs
<1>2. /\ ca.networks \in Seq(Network) /\ ca.priority \in Seq(Page)
      /\ ca.hash \in [Pgno -> Seq(Page)]
      /\ ca.limit \in MemoryLimits /\ ca.nlimit \in NetworksLimits /\ ca.open \in BOOLEAN
      /\ ca.net \in [Network -> NetRec] /\ ca.page \in [Page -> PageRec]
  BY <1>1 DEF CacheRec
<1>3. ASSUME NEW n \in Network
      PROVE  ca.net[n] \in [ref : 0 .. MaxRef, nref : 0 .. Cardinality(Page),
                            npages : 0 .. Cardinality(Page), zombie : BOOLEAN]
  <2>1. ca.net[n] \in NetRec
    BY <1>2
  <2>2. /\ Cardinality(Held(ca, n)) \in 0 .. Cardinality(Page)
        /\ Cardinality(Of(ca, n)) \in 0 .. Cardinality(Page)
    <3>1. Held(ca, n) \subseteq Page /\ Of(ca, n) \subseteq Page /\ IsFiniteSet(Page)
      BY CacheAssumption DEF Held, Of
    <3> QED
      BY <3>1, PartOf, Zenon
  <2>3. ca.net[n].ref \in 0 .. MaxRef
    <3>1. ca.net[n].ref \in Nat
      BY <2>1 DEF NetRec
    <3>2. ca.net[n].ref <= MaxRef
      BY <1>1, Zenon DEF Bounded
    <3>3. MaxRef \in Nat
      BY MaxRefIs
    <3> QED
      BY <3>1, <3>2, <3>3
  <2>4. ca.net[n].nref \in 0 .. Cardinality(Page) /\ ca.net[n].npages \in 0 .. Cardinality(Page)
    BY <1>1, <2>2 DEF Tallies
  <2> QED
    BY <2>1, <2>3, <2>4 DEF NetRec
<1>4. ASSUME NEW p \in Page
      PROVE  ca.page[p] \in [cn : Network \cup {NULL}, kind : Kind \cup {NULL},
                             ref : 0 .. MaxRef, zombie : BOOLEAN, block : Nat]
  <2>1. ca.page[p] \in PageRec
    BY <1>2
  <2>2. ca.page[p].ref \in 0 .. MaxRef
    <3>1. ca.page[p].ref \in Nat
      BY <2>1 DEF PageRec
    <3>2. ca.page[p].ref <= MaxRef
      BY <1>1, Zenon DEF Bounded
    <3>3. MaxRef \in Nat
      BY MaxRefIs
    <3> QED
      BY <3>1, <3>2, <3>3
  <2> QED
    BY <2>1, <2>2 DEF PageRec
<1>5. ca.npages \in 0 .. Cardinality(Page)
  <2>1. Live(ca) \subseteq Page /\ IsFiniteSet(Page)
    BY CacheAssumption DEF Live
  <2>2. Cardinality(Live(ca)) \in 0 .. Cardinality(Page)
    BY <2>1, PartOf, Zenon
  <2> QED
    BY <1>1, <2>2, Zenon DEF Tallies
<1>6. ca.cached \in 0 .. Cardinality(Network)
  <2>1. Counted(ca) \subseteq Network /\ IsFiniteSet(Network)
    BY <1>2, CacheAssumption DEF Counted, Range
  <2>2. Cardinality(Counted(ca)) \in 0 .. Cardinality(Network)
    BY <2>1, PartOf, Zenon
  <2> QED
    BY <1>1, <2>2, Zenon DEF Tallies
<1>7. ca.net \in [Network -> [ref : 0 .. MaxRef, nref : 0 .. Cardinality(Page),
                              npages : 0 .. Cardinality(Page), zombie : BOOLEAN]]
  BY <1>2, <1>3
<1>8. ca.page \in [Page -> [cn : Network \cup {NULL}, kind : Kind \cup {NULL},
                            ref : 0 .. MaxRef, zombie : BOOLEAN, block : Nat]]
  BY <1>2, <1>4
<1> QED
  BY <1>1, <1>2, <1>5, <1>6, <1>7, <1>8 DEF TypeOK

\* The counters that delete_page, put_page, page_ref and page_unref keep by
\* hand, all of them unsigned, agree with what they count, and none wraps
\* around, but for memory_used when a page is put into a block that is too
\* small: it is less by what is written behind the block.
THEOREM CountsAreExact == Spec => []CountersExact
<1>1. ASSUME CacheInv PROVE CountersExact
  <2>1. Linkage(ca) /\ Tallies(ca) /\ MemoryIs(ca, fault)
    BY <1>1, SaneIs DEF CacheInv
  <2>2. /\ Allocated(ca) = Live(ca)
        /\ Unreferenced(ca) = {p \in Page : Free(ca, p)}
        /\ Networks(ca) = Range(ca.networks)
    BY <2>1, SameNames
  <2>3. TypeOK
    BY <1>1, TypesHold
  <2>8. SizeOf(ca, Unreferenced(ca)) = Cardinality(Bytes(ca))
    <3>1. IsFiniteSet({p \in Page : Free(ca, p)})
      BY CacheAssumption, FiniteSubset
    <3>2. SizeOf(ca, {p \in Page : Free(ca, p)}) = Cardinality(Bytes(ca))
      BY <2>1, <3>1, SizeCounts
    <3> QED
      BY <2>2, <3>2, Zenon
  <2>4. IF fault = "overrun"
        THEN \E p \in Allocated(ca) :
               /\ ca.page[p].ref = 1 /\ ca.page[p].block < ca.page[p].kind.size
               /\ ca.memory = Less(SizeOf(ca, Unreferenced(ca)),
                                   ca.page[p].kind.size - ca.page[p].block)
        ELSE ca.memory = SizeOf(ca, Unreferenced(ca))
    <3>1. CASE fault = "overrun"
      <4>1. PICK p \in Page : /\ Used(ca, p) /\ ca.page[p].ref = 1
                              /\ ca.page[p].block < ca.page[p].kind.size
                              /\ ca.memory = Less(Cardinality(Bytes(ca)),
                                                  ca.page[p].kind.size - ca.page[p].block)
        BY <2>1, <3>1 DEF MemoryIs
      <4>2. p \in Allocated(ca)
        BY <2>2, <4>1 DEF Live
      <4> QED
        BY <2>8, <3>1, <4>1, <4>2, Zenon
    <3>2. CASE fault # "overrun"
      BY <2>1, <2>8, <3>2 DEF MemoryIs
    <3> QED
      BY <3>1, <3>2
  <2>5. ca.npages = Cardinality(Allocated(ca))
    BY <2>1, <2>2 DEF Tallies
  <2>6. ca.cached = Cardinality({n \in Networks(ca) : ~ ca.net[n].zombie})
    <3>1. {n \in Networks(ca) : ~ ca.net[n].zombie} = Counted(ca)
      BY <2>2 DEF Counted
    <3> QED
      BY <2>1, <3>1 DEF Tallies
  <2>7. ASSUME NEW n \in Networks(ca)
        PROVE  /\ ca.net[n].npages = Cardinality(PagesOf(ca, n))
               /\ ca.net[n].nref = Cardinality(PagesOf(ca, n) \ Unreferenced(ca))
    <3>1. n \in Network /\ n # NULL
      <4>1. ca.networks \in Seq(Network)
        BY <2>1 DEF Linkage, CacheRec
      <4> QED
        BY <2>2, <4>1, CacheAssumption DEF Range
    <3>2. PagesOf(ca, n) = Of(ca, n)
      BY <2>2, <3>1 DEF PagesOf, Of, Live, Used
    <3>3. PagesOf(ca, n) \ Unreferenced(ca) = Held(ca, n)
      <4>1. \A p \in Page : ca.page[p].ref \in Nat
        BY <2>1 DEF Linkage, CacheRec, PageRec
      <4> QED
        BY <2>2, <3>1, <3>2, <4>1 DEF Of, Held, Free, Used
    <3> QED
      BY <2>1, <3>1, <3>2, <3>3 DEF Tallies
  <2> QED
    BY <2>3, <2>4, <2>5, <2>6, <2>7 DEF CountersExact
<1> QED
  BY <1>1, CacheInvariant, PTL

\* The variables keep their types, also when memory_used wraps around, and no
\* page or network has more references than were taken.
THEOREM CacheTypes == Spec => []TypeOK
<1>1. CacheInv => TypeOK
  BY TypesHold
<1> QED
  BY <1>1, CacheInvariant, PTL

\* When all contents have the same size, _vbi_cache_put_page neither writes
\* behind the block it reuses nor deletes a page twice (cache.c:1541 ff,
\* 1593 ff): memory_used never wraps around and never exceeds the limit.
THEOREM OneSizeIsSafe ==
  ASSUME OneSize
  PROVE  Spec => [](/\ fault = "none" /\ ca.memory <= ca.limit
                    /\ ca.memory = SizeOf(ca, Unreferenced(ca)))
<1>1. CacheInv => fault = "none"
  BY DEF CacheInv
<1>2. Spec => [](CacheInv /\ CountersExact /\ MemoryBound)
  BY CacheInvariant, CountsAreExact, LimitHolds, PTL
<1>3. CacheInv /\ CountersExact /\ MemoryBound
        => /\ fault = "none" /\ ca.memory <= ca.limit
           /\ ca.memory = SizeOf(ca, Unreferenced(ca))
  BY <1>1 DEF CountersExact, MemoryBound
<1> QED
  BY <1>2, <1>3, PTL

=============================================================================
