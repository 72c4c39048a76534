---------------------------- MODULE Links_proofs ----------------------------
(***************************************************************************)
(* What NifModel makes of the links, and what the tree of the block list   *)
(* makes of that, for any number of blocks, links and edits.               *)
(*                                                                         *)
(* The link cache (LinkCache): the inductive invariant is that the caches  *)
(* are what updateLinks makes of the fields; LinkGraph_proofs says what    *)
(* that is.                                                                *)
(*                                                                         *)
(* The tree (NifProxyModel): kept up step by step, it is the tree of the   *)
(* links whenever updates are not held back, and shows every block.        *)
(* linksChanged prunes and extends whatever tree there is, so the argument *)
(* asks of the tree it starts from only that no item is without the item   *)
(* above it; that holds while updates are held back, too, when the caches  *)
(* are old and rows go.  The rest follows from what checkLinks promises:   *)
(* without cycles a path along child links meets no block twice, so every  *)
(* such path is visited, and every block is on one that starts at a root.  *)
(***************************************************************************)
EXTENDS NifProxyModel, LinkCache, LinkGraph_proofs, SequenceTheorems

------------------------------------------------------------------------------
(* The link cache.                                                         *)

\* The fields are lists of numbers, and both caches come from them.
CacheInv ==
  /\ fields \in [Blocks -> Seq(Int)]
  /\ childLinks = CheckLinks(RawLinks(fields))
  /\ rootLinks = RootLinks(childLinks)

\* The fields are link lists from the start, and a link field that is set stays one.
LEMMA CacheInvHolds == CacheSpec => []CacheInv
<1>1. CacheInit => CacheInv
  <2> SUFFICES ASSUME CacheInit PROVE fields \in [Blocks -> Seq(Int)]
    BY DEF CacheInit, CacheInv
  <2>1. BoundedSeq(-1 .. MaxLink, MaxRows) \subseteq Seq(Int)
    BY SizesAssumption DEF BoundedSeq, SeqOf
  <2> QED BY <2>1 DEF CacheInit
<1>2. CacheInv /\ [CacheNext]_cacheVars => CacheInv'
  <2> SUFFICES ASSUME CacheInv, [CacheNext]_cacheVars PROVE CacheInv'
    OBVIOUS
  <2>1. CASE CacheNext
    <3> SUFFICES ASSUME NEW b \in Blocks, NEW row \in 1 .. MaxRows, NEW l \in -1 .. MaxLink,
                        SetLinkField(b, row, l)
                 PROVE  CacheInv'
      BY <2>1 DEF CacheNext
    <3>1. l \in Int BY SizesAssumption
    <3>2. [fields[b] EXCEPT ![row] = l] \in Seq(Int)
      BY <3>1 DEF CacheInv, SetLinkField
    <3>3. fields' \in [Blocks -> Seq(Int)]
      BY <3>2 DEF CacheInv, SetLinkField
    <3> QED BY <3>3 DEF CacheInv, SetLinkField, UpdateLinks
  <2>2. CASE UNCHANGED cacheVars
    BY <2>2 DEF CacheInv, cacheVars
  <2> QED BY <2>1, <2>2
<1> QED BY <1>1, <1>2, PTL DEF CacheSpec

\* What the caches are made from.
LEMMA RawLinksType ==
  ASSUME CacheInv
  PROVE  /\ NumBlocks \in Nat
         /\ Blocks = 0 .. NumBlocks - 1
         /\ RawLinks(fields) \in Caches(0 .. NumBlocks - 1)
  BY SizesAssumption, CollectLinksMembers DEF CacheInv, RawLinks, Blocks, Caches

\* checkLinks: whatever the fields hold, the cache that the readers recurse along
\* without a visited set has no cycle.
THEOREM NoCyclesHolds == CacheSpec => []NoCycles
<1>1. CacheInv => NoCycles
  BY RawLinksType, CheckLinksPromise DEF CacheInv, NoCycles
<1> QED BY <1>1, CacheInvHolds, PTL

\* checkLinks drops a link only where the fields themselves lead back to the block.
THEOREM OnlyCycleLinksDroppedHolds == CacheSpec => []OnlyCycleLinksDropped
<1>1. CacheInv => OnlyCycleLinksDropped
  BY RawLinksType, CheckLinksPromise DEF CacheInv, OnlyCycleLinksDropped
<1> QED BY <1>1, CacheInvHolds, PTL

\* checkLinks drops no link in vain: the links that stay lead back to the block, so
\* the dropped one would close a cycle.
THEOREM DroppedLinksNeededHolds == CacheSpec => []DroppedLinksNeeded
<1>1. CacheInv => DroppedLinksNeeded
  BY RawLinksType, CheckLinksPromise DEF CacheInv, DroppedLinksNeeded
<1> QED BY <1>1, CacheInvHolds, PTL

\* updateLinks: every block is below one of the roots, those of a cycle included.
THEOREM EveryBlockBelowARootHolds == CacheSpec => []EveryBlockBelowARoot
<1>1. CacheInv => EveryBlockBelowARoot
  <2> SUFFICES ASSUME CacheInv, NEW b \in Blocks
               PROVE  \E r \in ToSet(rootLinks) : Reaches(childLinks, r, b)
    BY DEF EveryBlockBelowARoot
  <2>1. childLinks \in Caches(0 .. NumBlocks - 1) /\ Acyclic(childLinks)
    BY RawLinksType, CheckLinksPromise DEF CacheInv
  <2> QED BY <2>1, RawLinksType, BelowARoot DEF CacheInv
<1> QED BY <1>1, CacheInvHolds, PTL

------------------------------------------------------------------------------
(* Paths.                                                                  *)

Paths == {p \in Seq(Int) : Len(p) > 0}

\* A path taken apart.
LEMMA FrontRules ==
  ASSUME NEW p \in Seq(Int), Len(p) > 1
  PROVE  /\ Front(p) \in Paths
         /\ Len(Front(p)) = Len(p) - 1
         /\ \A i \in 1 .. Len(p) - 1 : Front(p)[i] = p[i]
         /\ Last(p) = p[Len(p)] /\ Last(p) \in Int
         /\ Append(Front(p), Last(p)) = p
<1>1. \A i \in 1 .. Len(p) : p[i] \in Int
  OBVIOUS
<1>2. /\ Front(p) \in Seq(Int)
      /\ Len(Front(p)) = Len(p) - 1
      /\ \A i \in 1 .. Len(p) - 1 : Front(p)[i] = p[i]
  BY <1>1, SubSeqProperties, Len(p) \in Nat DEF Front
<1>3. Last(p) = p[Len(p)] /\ Last(p) \in Int
  BY <1>1 DEF Last
<1>4. Append(Front(p), Last(p)) = p
  <2>1. /\ Append(Front(p), Last(p)) \in Seq(Int)
        /\ Len(Append(Front(p), Last(p))) = Len(p)
        /\ \A i \in 1 .. Len(p) : Append(Front(p), Last(p))[i] = p[i]
    BY <1>2, <1>3
  <2> QED BY <2>1, SeqEqual
<1> QED BY <1>2, <1>3, <1>4 DEF Paths

\* A path put together.
LEMMA AppendRules ==
  ASSUME NEW p \in Paths, NEW l \in Int
  PROVE  /\ Append(p, l) \in Paths
         /\ Len(Append(p, l)) = Len(p) + 1
         /\ \A i \in 1 .. Len(p) : Append(p, l)[i] = p[i]
         /\ Append(p, l)[Len(p) + 1] = l
         /\ Front(Append(p, l)) = p
         /\ Last(Append(p, l)) = l
<1>1. /\ Append(p, l) \in Seq(Int)
      /\ Len(Append(p, l)) = Len(p) + 1
      /\ \A i \in 1 .. Len(p) : Append(p, l)[i] = p[i]
      /\ Append(p, l)[Len(p) + 1] = l
      /\ p \in Seq(Int) /\ Len(p) \in Nat \ {0}
  BY DEF Paths
<1>2. Last(Append(p, l)) = l
  BY <1>1 DEF Last
<1>3. Front(Append(p, l)) = p
  <2> DEFINE a == Append(p, l)
  <2>1. a \in Seq(Int) /\ Len(a) > 1 /\ Len(a) - 1 = Len(p) /\ \A i \in 1 .. Len(p) : a[i] = p[i]
    BY <1>1
  <2> HIDE DEF a
  <2>2. /\ Front(a) \in Seq(Int)
        /\ Len(Front(a)) = Len(p)
        /\ \A i \in 1 .. Len(p) : Front(a)[i] = p[i]
    BY <2>1, FrontRules DEF Paths
  <2>3. Front(a) = p
    BY <1>1, <2>2, SeqEqual
  <2> QED BY <2>3 DEF a
<1> QED BY <1>1, <1>2, <1>3 DEF Paths

\* What it means that an item is above another one.
LEMMA PrefixRules ==
  ASSUME NEW q \in Paths, NEW p \in Paths, Len(q) < Len(p)
  PROVE  /\ IsPrefix(q, p) => \A i \in 1 .. Len(q) : q[i] = p[i]
         /\ IsPrefix(q, p) => q = Front(p) \/ (Len(q) < Len(Front(p)) /\ IsPrefix(q, Front(p)))
<1>1. /\ q \in Seq(Int) /\ p \in Seq(Int) /\ Len(q) \in Nat \ {0} /\ Len(p) \in Nat \ {0}
      /\ \A i \in 1 .. Len(q) : q[i] \in Int
      /\ \A i \in 1 .. Len(p) : p[i] \in Int
  BY DEF Paths
<1>2. SubSeq(q, 1, Len(q)) = q
  BY <1>1, SubSeqFull
<1>3. /\ SubSeq(p, 1, Len(q)) \in Seq(Int)
      /\ Len(SubSeq(p, 1, Len(q))) = Len(q)
      /\ \A i \in 1 .. Len(q) : SubSeq(p, 1, Len(q))[i] = p[i]
  BY <1>1, SubSeqProperties
<1>4. IsPrefix(q, p) => \A i \in 1 .. Len(q) : q[i] = p[i]
  BY <1>2, <1>3 DEF IsPrefix
<1>5. ASSUME IsPrefix(q, p)
      PROVE  q = Front(p) \/ (Len(q) < Len(Front(p)) /\ IsPrefix(q, Front(p)))
  <2>1. /\ Front(p) \in Seq(Int) /\ Len(Front(p)) = Len(p) - 1
        /\ \A i \in 1 .. Len(p) - 1 : Front(p)[i] = p[i]
    BY <1>1, FrontRules DEF Paths
  <2>2. \A i \in 1 .. Len(q) : q[i] = Front(p)[i]
    BY <1>1, <1>4, <1>5, <2>1
  <2>3. CASE Len(q) = Len(Front(p))
    BY <1>1, <2>1, <2>2, <2>3, SeqEqual
  <2>4. CASE Len(q) < Len(Front(p))
    <3>1. /\ SubSeq(Front(p), 1, Len(q)) \in Seq(Int)
          /\ Len(SubSeq(Front(p), 1, Len(q))) = Len(q)
          /\ \A i \in 1 .. Len(q) : SubSeq(Front(p), 1, Len(q))[i] = q[i]
      <4> DEFINE f == Front(p)
      <4>1. \A i \in 1 .. Len(q) : f[i] \in Int /\ f[i] = q[i]
        BY <1>1, <2>2
      <4> HIDE DEF f
      <4>2. /\ SubSeq(f, 1, Len(q)) \in Seq(Int)
            /\ Len(SubSeq(f, 1, Len(q))) = Len(q)
            /\ \A i \in 1 .. Len(q) : SubSeq(f, 1, Len(q))[i] = f[1 + i - 1]
        BY <1>1, <4>1, SubSeqProperties
      <4> QED BY <1>1, <4>1, <4>2 DEF f
    <3>2. SubSeq(Front(p), 1, Len(q)) = q
      BY <1>1, <3>1, SeqEqual
    <3> QED BY <1>1, <1>2, <2>4, <3>2 DEF IsPrefix
  <2> QED BY <1>1, <2>1, <2>3, <2>4
<1> QED BY <1>4, <1>5

------------------------------------------------------------------------------
(* What is visited and what is shown, for any link caches.                 *)

CacheType(c) ==
  /\ c.children \in [Numbers -> SUBSET Numbers]
  /\ c.parents \in [Numbers -> SUBSET Int]
  /\ c.roots \subseteq Numbers

\* A path along child links, from a root.
ChildPath(p, c) ==
  /\ p[1] \in c.roots
  /\ \A i \in 1 .. Len(p) - 1 : p[i + 1] \in c.children[p[i]]

\* Visited, spelled out.
LEMMA VisitedRules ==
  ASSUME NEW c
  PROVE  \A p : p \in Visited(c) <=>
           /\ p \in Seq(Numbers) /\ Len(p) \in 1 .. MaxBlocks
           /\ p[1] \in c.roots
           /\ \A i \in 1 .. Len(p) - 1 : p[i + 1] \in c.children[p[i]] \ {p[m] : m \in 1 .. i - 1}
<1>1. \A p : p \in UNION {[1 .. k -> Numbers] : k \in 1 .. MaxBlocks} <=>
               p \in Seq(Numbers) /\ Len(p) \in 1 .. MaxBlocks
  <2>1. ASSUME NEW k \in 1 .. MaxBlocks, NEW p \in [1 .. k -> Numbers]
        PROVE  p \in Seq(Numbers) /\ Len(p) = k
    BY ProxyAssumption
  <2>2. ASSUME NEW p \in Seq(Numbers), Len(p) \in 1 .. MaxBlocks
        PROVE  p \in [1 .. Len(p) -> Numbers]
    OBVIOUS
  <2> QED BY <2>1, <2>2
<1> QED BY <1>1 DEF Visited

\* The visited items are child paths, and so is what is above them.
LEMMA VisitedAbove ==
  ASSUME NEW c, CacheType(c), NEW p \in Visited(c)
  PROVE  /\ p \in Paths /\ Last(p) \in Numbers
         /\ ChildPath(p, c)
         /\ Len(p) > 1 => Front(p) \in Visited(c)
<1>1. /\ p \in Seq(Numbers) /\ Len(p) \in 1 .. MaxBlocks
      /\ p[1] \in c.roots
      /\ \A i \in 1 .. Len(p) - 1 : p[i + 1] \in c.children[p[i]] \ {p[m] : m \in 1 .. i - 1}
  BY VisitedRules
<1>2. p \in Seq(Int) /\ Len(p) \in Nat \ {0} /\ \A i \in 1 .. Len(p) : p[i] \in Numbers
  BY <1>1, ProxyAssumption DEF Numbers
<1>3. Last(p) \in Numbers
  BY <1>2 DEF Last
<1>4. ASSUME Len(p) > 1 PROVE Front(p) \in Visited(c)
  <2> DEFINE f == Front(p)
  <2>1. f \in Seq(Int) /\ Len(f) = Len(p) - 1 /\ \A i \in 1 .. Len(p) - 1 : f[i] = p[i]
    BY <1>2, <1>4, FrontRules DEF Paths
  <2> HIDE DEF f
  <2>2. f \in Seq(Numbers)
    <3>1. \A i \in 1 .. Len(f) : f[i] \in Numbers
      BY <1>2, <2>1
    <3> QED BY <2>1, <3>1
  <2>3. Len(f) \in 1 .. MaxBlocks /\ f[1] \in c.roots
    BY <1>1, <1>2, <1>4, <2>1, ProxyAssumption
  <2>4. ASSUME NEW i \in 1 .. Len(f) - 1
        PROVE  f[i + 1] \in c.children[f[i]] \ {f[m] : m \in 1 .. i - 1}
    <3>1. f[i + 1] = p[i + 1] /\ f[i] = p[i] /\ i \in 1 .. Len(p) - 1
          /\ \A m \in 1 .. i - 1 : f[m] = p[m]
      BY <1>2, <2>1
    <3> QED BY <1>1, <3>1
  <2>5. f \in Visited(c)
    BY <2>2, <2>3, <2>4, VisitedRules
  <2> QED BY <2>5 DEF f
<1> QED BY <1>1, <1>2, <1>3, <1>4 DEF ChildPath, Paths

\* The items below a visited one that are not visited.
LEMMA LeavesRules ==
  ASSUME NEW c, CacheType(c), NEW q
  PROVE  q \in Leaves(Visited(c), c) <=>
           /\ q \notin Visited(c)
           /\ \E p \in Visited(c) : \E l \in c.children[Last(p)] \cup c.parents[Last(p)] :
                q = Append(p, l) /\ q \in Paths /\ Len(q) > 1 /\ Front(q) = p /\ Last(q) = l
<1>1. ASSUME NEW p \in Visited(c), NEW l \in c.children[Last(p)] \cup c.parents[Last(p)]
      PROVE  LET a == Append(p, l) IN a \in Paths /\ Len(a) > 1 /\ Front(a) = p /\ Last(a) = l
  <2>1. p \in Paths /\ Last(p) \in Numbers
    BY VisitedAbove
  <2>2. l \in Int
    BY <2>1, ProxyAssumption DEF CacheType, Numbers
  <2>3. Len(p) \in Nat \ {0}
    BY <2>1 DEF Paths
  <2> QED BY <2>1, <2>2, <2>3, AppendRules
<1> DEFINE visited == Visited(c)
<1>2. ASSUME NEW p \in visited, NEW l \in c.children[Last(p)] \cup c.parents[Last(p)]
      PROVE  LET a == Append(p, l) IN a \in Paths /\ Len(a) > 1 /\ Front(a) = p /\ Last(a) = l
  BY <1>1
<1> HIDE DEF visited
<1>3. q \in Leaves(visited, c) <=>
           /\ q \notin visited
           /\ \E p \in visited : \E l \in c.children[Last(p)] \cup c.parents[Last(p)] : q = Append(p, l)
  BY DEF Leaves
<1>4. q \in Leaves(visited, c) <=>
           /\ q \notin visited
           /\ \E p \in visited : \E l \in c.children[Last(p)] \cup c.parents[Last(p)] :
                q = Append(p, l) /\ q \in Paths /\ Len(q) > 1 /\ Front(q) = p /\ Last(q) = l
  BY <1>2, <1>3
<1> QED BY <1>4 DEF visited

------------------------------------------------------------------------------
(* No item is without the item above it.                                   *)

Whole(t) ==
  /\ t \subseteq Paths
  /\ \A p \in t : Len(p) > 1 => Front(p) \in t

\* Removed rows take with them what is below.
LEMMA RowsRemovedWhole ==
  ASSUME NEW t, Whole(t), NEW S
  PROVE  Whole(RowsRemoved(t, S))
<1>1. ASSUME NEW p \in t, Range(p) \cap S = {}, Len(p) > 1
      PROVE  Range(Front(p)) \cap S = {}
  <2> DEFINE f == Front(p)
  <2>1. p \in Seq(Int) /\ f \in Seq(Int) /\ Len(f) = Len(p) - 1 /\ \A i \in 1 .. Len(p) - 1 : f[i] = p[i]
    BY <1>1, FrontRules DEF Whole, Paths
  <2> HIDE DEF f
  <2>2. \A i \in DOMAIN f : i \in DOMAIN p /\ f[i] = p[i]
    <3>1. DOMAIN p = 1 .. Len(p) /\ Len(p) \in Nat /\ DOMAIN f = 1 .. Len(f)
      BY <2>1, LenProperties
    <3> QED BY <2>1, <3>1
  <2>3. Range(f) \subseteq Range(p)
    BY <2>2 DEF Range
  <2> QED BY <1>1, <2>3 DEF f
<1> QED BY <1>1 DEF Whole, RowsRemoved

\* updateRoot and updateItem keep the items in place, with whatever caches.
LEMMA UpdatedWhole ==
  ASSUME NEW c, CacheType(c), NEW t, Whole(t), NEW count
  PROVE  Whole(Updated(t, c, count))
<1> DEFINE visited == Visited(c)
           leaves  == Leaves(visited, c)
           kept    == leaves \cap t
           below   == {p \in t : \E q \in kept : Len(q) < Len(p) /\ IsPrefix(q, p)}
<1>1. Updated(t, c, count) = IF count = 0 THEN {} ELSE visited \cup leaves \cup below
  BY DEF Updated
<1>2. \A p \in visited : p \in Paths /\ (Len(p) > 1 => Front(p) \in visited)
  BY VisitedAbove
<1>3. \A p \in leaves : p \in Paths /\ Front(p) \in visited
  BY LeavesRules
<1>4. ASSUME NEW p \in below PROVE p \in Paths /\ Front(p) \in leaves \cup below
  <2>1. PICK q \in kept : Len(q) < Len(p) /\ IsPrefix(q, p)
    OBVIOUS
  <2>2. q \in Paths /\ p \in Paths /\ q \in leaves /\ p \in t
    BY <1>3 DEF Whole
  <2>3. Len(p) > 1
    BY <2>1, <2>2 DEF Paths
  <2>4. Front(p) \in t
    BY <2>2, <2>3 DEF Whole
  <2>5. q = Front(p) \/ (Len(q) < Len(Front(p)) /\ IsPrefix(q, Front(p)))
    BY <2>1, <2>2, PrefixRules
  <2> QED BY <2>1, <2>2, <2>4, <2>5
<1> HIDE DEF visited, leaves, below
<1> QED BY <1>1, <1>2, <1>3, <1>4 DEF Whole

------------------------------------------------------------------------------
(* What caches that are up to date promise.                                *)

\* The roots are blocks, no links go round, and every block is below a root.
Sound(c, n) ==
  /\ CacheType(c)
  /\ c.roots \subseteq 0 .. n - 1
  /\ \A S \in SUBSET Numbers : S # {} => \E b \in S : \A a \in S : b \notin c.children[a]
  /\ \A b \in 0 .. n - 1 : \E r \in c.roots : \A S \in SUBSET Numbers :
       (r \in S /\ \A x \in S : c.children[x] \subseteq S) => b \in S

\* Along child links there are block numbers, each at most once.
LEMMA NoRepeats ==
  ASSUME NEW c, NEW n, Sound(c, n), NEW p \in Paths, ChildPath(p, c)
  PROVE  /\ \A i \in 1 .. Len(p) : p[i] \in Numbers
         /\ \A i, j \in 1 .. Len(p) : p[i] = p[j] => i = j
<1>1. Len(p) \in Nat \ {0}
  BY DEF Paths
<1>2. \A i \in 1 .. Len(p) : p[i] \in Numbers
  <2> DEFINE S == {i \in Nat : i + 1 <= Len(p) => p[i + 1] \in Numbers}
  <2>1. 0 \in S
    BY DEF ChildPath, Sound, CacheType
  <2>2. ASSUME NEW i \in Nat, i \in S PROVE i + 1 \in S
    <3> SUFFICES ASSUME (i + 1) + 1 <= Len(p) PROVE p[(i + 1) + 1] \in Numbers
      OBVIOUS
    <3>1. p[i + 1] \in Numbers
      BY <1>1, <2>2
    <3>2. i + 1 \in 1 .. Len(p) - 1
      BY <1>1
    <3> QED BY <3>1, <3>2 DEF ChildPath, Sound, CacheType
  <2>3. Nat \subseteq S
    <3> HIDE DEF S
    <3> QED BY <2>1, <2>2, Induction
  <2> SUFFICES ASSUME NEW i \in 1 .. Len(p) PROVE p[i] \in Numbers
    OBVIOUS
  <2>4. i - 1 \in Nat /\ (i - 1) + 1 = i /\ i <= Len(p)
    BY <1>1
  <2>5. i - 1 \in S
    BY <2>3, <2>4
  <2> QED BY <2>4, <2>5
<1>3. ASSUME NEW i \in 1 .. Len(p), NEW j \in 1 .. Len(p), i < j, p[i] = p[j]
      PROVE  FALSE
  <2> DEFINE S == {p[k] : k \in i .. j - 1}
  <2>1. S \in SUBSET Numbers /\ S # {}
    <3>1. i \in i .. j - 1 /\ \A k \in i .. j - 1 : k \in 1 .. Len(p)
      BY <1>1, <1>3
    <3> QED BY <1>2, <3>1
  <2>2. PICK b \in S : \A a \in S : b \notin c.children[a]
    <3> HIDE DEF S
    <3> QED BY <2>1 DEF Sound
  <2>3. PICK k \in i .. j - 1 : b = p[k]
    OBVIOUS
  <2>4. CASE k = i
    <3>1. j - 1 \in i .. j - 1 /\ j - 1 \in 1 .. Len(p) - 1 /\ (j - 1) + 1 = j
      BY <1>1, <1>3
    <3>2. p[j] \in c.children[p[j - 1]] /\ p[j - 1] \in S
      BY <3>1 DEF ChildPath
    <3> QED BY <1>3, <2>2, <2>3, <2>4, <3>2
  <2>5. CASE k # i
    <3>1. k - 1 \in i .. j - 1 /\ k - 1 \in 1 .. Len(p) - 1 /\ (k - 1) + 1 = k
      BY <1>1, <1>3, <2>5
    <3>2. p[k] \in c.children[p[k - 1]] /\ p[k - 1] \in S
      BY <3>1 DEF ChildPath
    <3> QED BY <2>2, <2>3, <3>2
  <2> QED BY <2>4, <2>5
<1>4. ASSUME NEW i \in 1 .. Len(p), NEW j \in 1 .. Len(p), p[i] = p[j]
      PROVE  i = j
  BY <1>1, <1>3, <1>4
<1> QED BY <1>2, <1>4

\* updateItem visits every path along child links: none is too long, and none is cut
\* off because it would lead to a block above.
LEMMA ChildrenVisited ==
  ASSUME NEW c, NEW n, Sound(c, n), NEW p \in Paths, ChildPath(p, c)
  PROVE  p \in Visited(c)
<1>1. /\ \A i \in 1 .. Len(p) : p[i] \in Numbers
      /\ \A i, j \in 1 .. Len(p) : p[i] = p[j] => i = j
      /\ Len(p) \in Nat \ {0} /\ p \in Seq(Int)
  BY NoRepeats DEF Paths
<1>2. p \in Seq(Numbers)
  BY <1>1
<1>3. Len(p) <= MaxBlocks
  <2>1. /\ IsFiniteSet(Numbers) /\ Cardinality(Numbers) = MaxBlocks
        /\ Cardinality(1 .. Len(p)) = Len(p)
    <3>1. 0 \in Int /\ 1 \in Int /\ MaxBlocks - 1 \in Int /\ Len(p) \in Int /\ 0 <= MaxBlocks - 1 /\ 1 <= Len(p)
      BY <1>1, ProxyAssumption
    <3>2. IsFiniteSet(Numbers) /\ Cardinality(Numbers) = MaxBlocks - 1 - 0 + 1
      BY <3>1, FS_Interval DEF Numbers
    <3>3. Cardinality(1 .. Len(p)) = Len(p) - 1 + 1
      <4>1. \A k \in Nat \ {0} : Cardinality(1 .. k) = k - 1 + 1
        BY FS_Interval
      <4> QED BY <1>1, <4>1
    <3> QED BY <3>1, <3>2, <3>3, ProxyAssumption
  <2>2. p \in [1 .. Len(p) -> Numbers]
    BY <1>1, <1>2
  <2>3. p \in Injection(1 .. Len(p), Numbers)
    BY <1>1, <2>2 DEF Injection, IsInjective
  <2> QED BY <2>1, <2>3, FS_Injection
<1>4. ASSUME NEW i \in 1 .. Len(p) - 1
      PROVE  p[i + 1] \in c.children[p[i]] \ {p[m] : m \in 1 .. i - 1}
  <2>1. p[i + 1] \in c.children[p[i]]
    BY DEF ChildPath
  <2>2. i + 1 \in 1 .. Len(p) /\ \A m \in 1 .. i - 1 : m \in 1 .. Len(p) /\ m # i + 1
    BY <1>1
  <2>3. \A m \in 1 .. i - 1 : p[m] # p[i + 1]
    BY <1>1, <2>2
  <2> QED BY <2>1, <2>3
<1>5. p[1] \in c.roots /\ Len(p) \in 1 .. MaxBlocks
  BY <1>1, <1>3, ProxyAssumption DEF ChildPath
<1> QED BY <1>2, <1>4, <1>5, VisitedRules

\* The links of the blocks 0 .. n - 1.
Table(n) == [0 .. n - 1 -> SUBSET Int]

\* updateLinks makes such caches, of whatever links there are.
LEMMA CachesOfSound ==
  ASSUME NEW n \in 0 .. MaxBlocks, NEW rs \in Table(n), NEW ps \in Table(n)
  PROVE  Sound(CachesOf(rs, ps), n)
<1> DEFINE D   == 0 .. n - 1
           raw == [b \in D |-> InOrder(rs[b])]
           cl  == CheckLinks(raw)
           c   == CachesOf(rs, ps)
<1>1. n \in Nat /\ n <= MaxBlocks /\ MaxBlocks \in Nat \ {0} /\ D \subseteq Numbers
  BY ProxyAssumption DEF Numbers
<1>2. \A S : InOrder(S) \in Seq(Nat) /\ ToSet(InOrder(S)) \subseteq Numbers
  <2>1. BlockOrder(MaxBlocks) \in Seq(Nat) /\ ToSet(BlockOrder(MaxBlocks)) = Numbers
    BY <1>1, BlockOrderMembers DEF Numbers
  <2> DEFINE order == BlockOrder(MaxBlocks)
  <2> HIDE DEF order
  <2>2. order \in Seq(Nat) /\ ToSet(order) = Numbers
    BY <2>1 DEF order
  <2>3. \A S : KeepOnly(order, S) \in Seq(Nat) /\ ToSet(KeepOnly(order, S)) = ToSet(order) \cap S
    BY <2>2, KeepOnlyMembers
  <2> QED BY <2>2, <2>3 DEF InOrder, order
<1>3. raw \in Caches(D) /\ DOMAIN rs = D /\ DOMAIN ps = D
  BY <1>2 DEF Caches, Table
<1>4. \A b \in D : ToSet(raw[b]) \subseteq Numbers
  BY <1>2
<1> HIDE DEF raw
<1>5. /\ cl \in Caches(D) /\ Acyclic(cl)
      /\ \A b \in D : ToSet(cl[b]) \subseteq ToSet(raw[b])
  BY <1>1, <1>3, CheckLinksPromise
<1>6. /\ c.children = [b \in Numbers |-> ToSet(LinksOf(cl, b))]
      /\ c.parents = [b \in Numbers |-> IF b \in D THEN ps[b] ELSE {}]
      /\ c.roots = ToSet(RootLinks(cl))
  BY <1>3 DEF CachesOf, raw
<1> HIDE DEF cl, c
<1>7. \A b \in Numbers : c.children[b] = IF b \in D THEN ToSet(cl[b]) ELSE {}
  <2>1. DOMAIN cl = D
    BY <1>5 DEF Caches
  <2>2. ToSet(<<>>) = {}
    BY DEF ToSet
  <2> QED BY <1>6, <2>1, <2>2 DEF LinksOf
<1>8. c.roots \subseteq D
  BY <1>1, <1>5, <1>6, RootLinksMembers
<1>9. CacheType(c)
  <2>1. c.children \in [Numbers -> SUBSET Numbers]
    <3>1. \A b \in Numbers : c.children[b] \in SUBSET Numbers
      BY <1>4, <1>5, <1>7
    <3> QED BY <1>6, <3>1
  <2>2. c.parents \in [Numbers -> SUBSET Int]
    BY <1>6 DEF Table
  <2> QED BY <1>1, <1>8, <2>1, <2>2 DEF CacheType
<1>10. ASSUME NEW S \in SUBSET Numbers, S # {}
       PROVE  \E b \in S : \A a \in S : b \notin c.children[a]
  <2>1. CASE S \cap D = {}
    BY <1>7, <1>10, <2>1
  <2>2. CASE S \cap D # {}
    <3>1. DOMAIN cl = D /\ S \cap D \in SUBSET D
      BY <1>5 DEF Caches
    <3>2. PICK b \in S \cap D : \A a \in S \cap D : b \notin ToSet(cl[a])
      BY <1>5, <2>2, <3>1 DEF Acyclic
    <3> QED BY <1>7, <3>2
  <2> QED BY <2>1, <2>2
<1>11. ASSUME NEW b \in D
       PROVE  \E r \in c.roots : \A S \in SUBSET Numbers :
                (r \in S /\ \A x \in S : c.children[x] \subseteq S) => b \in S
  <2>1. PICK r \in c.roots : Reaches(cl, r, b)
    BY <1>1, <1>5, <1>6, BelowARoot
  <2>2. ASSUME NEW S \in SUBSET Numbers, r \in S, \A x \in S : c.children[x] \subseteq S
        PROVE  b \in S
    <3>1. DOMAIN cl = D /\ S \cap D \in SUBSET D /\ r \in S \cap D
      BY <1>5, <1>8, <2>2 DEF Caches
    <3>2. \A x \in S \cap D : ToSet(cl[x]) \cap D \subseteq S \cap D
      BY <1>7, <2>2
    <3> QED BY <2>1, <3>1, <3>2 DEF Reaches
  <2> QED BY <2>2
<1>12. Sound(c, n)
  BY <1>8, <1>9, <1>10, <1>11 DEF Sound
<1> QED BY <1>12 DEF c

------------------------------------------------------------------------------
(* The tree that updateRoot leaves.                                        *)

\* TreeIsLinks, of any tree and caches.
IsTreeOf(t, c) ==
  /\ \A p \in t : Len(p) > 1 => Front(p) \in t
  /\ {p \in t : Len(p) = 1} = {<<r>> : r \in c.roots}
  /\ \A p \in t : ChildPath(p, c) =>
       {q \in t : Len(q) > 1 /\ Front(q) = p} =
         {Append(p, l) : l \in c.children[Last(p)] \cup c.parents[Last(p)]}

\* An item of the new tree was visited, is shown below a visited one, or stayed where it
\* was below one that is only shown.
LEMMA UpdatedItems ==
  ASSUME NEW c, NEW n, Sound(c, n), NEW t, Whole(t), n # 0, NEW q \in Updated(t, c, n)
  PROVE  \/ q \in Visited(c)
         \/ q \in Leaves(Visited(c), c)
         \/ /\ q \in Paths /\ Len(q) > 2
            /\ ~ ChildPath(Front(q), c)
<1> DEFINE visited == Visited(c)
           leaves  == Leaves(visited, c)
<1>1. SUFFICES ASSUME NEW r \in leaves, q \in t, Len(r) < Len(q), IsPrefix(r, q)
               PROVE  q \in Paths /\ Len(q) > 2 /\ ~ ChildPath(Front(q), c)
  BY DEF Updated
<1>2. r \in Paths /\ Len(r) > 1 /\ r \notin visited
  BY LeavesRules DEF Sound
<1>3. q \in Paths /\ Len(q) > 2
  BY <1>1, <1>2 DEF Whole, Paths
<1>4. ASSUME ChildPath(Front(q), c) PROVE FALSE
  <2>1. /\ Len(Front(q)) = Len(q) - 1
        /\ \A i \in 1 .. Len(q) - 1 : Front(q)[i] = q[i]
        /\ Len(q) \in Nat /\ Len(r) \in Nat
    <3>1. q \in Seq(Int) /\ Len(q) \in Nat /\ Len(r) \in Nat /\ Len(q) > 1
      BY <1>2, <1>3 DEF Paths
    <3> QED BY <3>1, FrontRules
  <2>2. \A i \in 1 .. Len(r) : r[i] = q[i]
    BY <1>1, <1>2, <1>3, PrefixRules
  <2>3. \A i \in 1 .. Len(r) : r[i] = Front(q)[i]
    BY <1>1, <2>1, <2>2
  <2>4. \A i \in 1 .. Len(r) - 1 :
          i \in 1 .. Len(Front(q)) - 1 /\ i \in 1 .. Len(r) /\ i + 1 \in 1 .. Len(r)
    BY <1>1, <2>1
  <2>5. ChildPath(r, c)
    <3>1. r[1] \in c.roots
      BY <1>2, <1>4, <2>1, <2>3 DEF ChildPath
    <3>2. \A i \in 1 .. Len(r) - 1 : r[i + 1] \in c.children[r[i]]
      BY <1>4, <2>3, <2>4 DEF ChildPath
    <3> QED BY <3>1, <3>2 DEF ChildPath
  <2> QED BY <1>2, <2>5, ChildrenVisited
<1> QED BY <1>3, <1>4

\* Whatever tree it started from, it is the tree of the links.
LEMMA UpdatedIsTree ==
  ASSUME NEW c, NEW n \in Nat, Sound(c, n), NEW t, Whole(t)
  PROVE  IsTreeOf(Updated(t, c, n), c)
<1> DEFINE new == Updated(t, c, n)
<1>1. Whole(new)
  BY UpdatedWhole DEF Sound
<1>2. CASE n = 0
  <2>1. new = {} /\ c.roots = {}
    BY <1>2 DEF Updated, Sound
  <2> HIDE DEF new
  <2>2. IsTreeOf(new, c)
    BY <2>1 DEF IsTreeOf
  <2> QED BY <2>2 DEF new
<1>3. CASE n # 0
  <2>1. /\ Visited(c) \subseteq new /\ Leaves(Visited(c), c) \subseteq new
        /\ CacheType(c)
    BY <1>3 DEF Updated, Sound
  <2>2. {p \in new : Len(p) = 1} = {<<r>> : r \in c.roots}
    <3>1. ASSUME NEW p \in new, Len(p) = 1 PROVE \E r \in c.roots : p = <<r>>
      <4>1. p \in Visited(c)
        <5>1. p \notin Leaves(Visited(c), c)
          <6>1. ~ Len(p) > 1
            BY <3>1
          <6> QED BY <2>1, <6>1, LeavesRules
        <5>2. ~ Len(p) > 2
          BY <3>1
        <5> QED BY <1>3, <5>1, <5>2, UpdatedItems
      <4>2. p \in Paths /\ p[1] \in c.roots
        BY <2>1, <4>1, VisitedAbove DEF ChildPath
      <4>3. p = <<p[1]>>
        BY <3>1, <4>2 DEF Paths
      <4> QED BY <4>2, <4>3
    <3>2. ASSUME NEW r \in c.roots PROVE <<r>> \in new /\ Len(<<r>>) = 1
      <4>1. r \in Int
        BY <2>1, ProxyAssumption DEF CacheType, Numbers
      <4>2. <<r>> \in Paths /\ Len(<<r>>) = 1 /\ <<r>>[1] = r
        BY <4>1 DEF Paths
      <4>3. ChildPath(<<r>>, c)
        BY <4>2 DEF ChildPath
      <4> QED BY <2>1, <4>2, <4>3, ChildrenVisited
    <3> HIDE DEF new
    <3> QED BY <3>1, <3>2
  <2>3. ASSUME NEW p \in new, ChildPath(p, c)
        PROVE  {q \in new : Len(q) > 1 /\ Front(q) = p} =
                 {Append(p, l) : l \in c.children[Last(p)] \cup c.parents[Last(p)]}
    <3>1. p \in Paths /\ p \in Visited(c) /\ Last(p) \in Numbers
      BY <1>1, <2>1, <2>3, ChildrenVisited, VisitedAbove DEF Whole
    <3>2. ASSUME NEW q \in new, Len(q) > 1, Front(q) = p
          PROVE  \E l \in c.children[Last(p)] \cup c.parents[Last(p)] : q = Append(p, l)
      <4>1. CASE q \in Visited(c)
        <5>1. q \in Paths /\ ChildPath(q, c) /\ q \in Seq(Int) /\ Len(q) \in Nat
          BY <2>1, <4>1, VisitedAbove DEF Paths
        <5>2. /\ Len(p) = Len(q) - 1 /\ p[Len(p)] = q[Len(q) - 1]
              /\ Last(q) = q[Len(q)] /\ Append(p, Last(q)) = q
          BY <3>2, <5>1, FrontRules
        <5>3. q[(Len(q) - 1) + 1] \in c.children[q[Len(q) - 1]] /\ (Len(q) - 1) + 1 = Len(q)
          BY <3>2, <5>1 DEF ChildPath
        <5> QED BY <5>2, <5>3 DEF Last
      <4>2. CASE q \in Leaves(Visited(c), c)
        BY <2>1, <3>2, <4>2, LeavesRules
      <4> QED BY <1>3, <2>3, <3>2, <4>1, <4>2, UpdatedItems
    <3>3. ASSUME NEW l \in c.children[Last(p)] \cup c.parents[Last(p)]
          PROVE  Append(p, l) \in new /\ Len(Append(p, l)) > 1 /\ Front(Append(p, l)) = p
      <4>1. l \in Int
        BY <2>1, <3>1, ProxyAssumption DEF CacheType, Numbers
      <4>2. /\ Append(p, l) \in Paths /\ Len(Append(p, l)) = Len(p) + 1
            /\ Front(Append(p, l)) = p /\ Last(Append(p, l)) = l
        BY <3>1, <4>1, AppendRules
      <4>3. Len(Append(p, l)) > 1
        BY <3>1, <4>2 DEF Paths
      <4>4. Append(p, l) \in Visited(c) \/ Append(p, l) \in Leaves(Visited(c), c)
        BY <2>1, <3>1, <4>2, <4>3, LeavesRules
      <4> QED BY <2>1, <4>2, <4>3, <4>4
    <3> HIDE DEF new
    <3> QED BY <3>2, <3>3
  <2> HIDE DEF new
  <2>4. IsTreeOf(new, c)
    BY <1>1, <2>2, <2>3 DEF IsTreeOf, Whole
  <2> QED BY <2>4 DEF new
<1> QED BY <1>2, <1>3

\* And it shows every block: the blocks shown by visited items hold a root and are
\* closed under child links.
LEMMA UpdatedShows ==
  ASSUME NEW c, NEW n \in Nat, Sound(c, n), NEW t, NEW b \in 0 .. n - 1
  PROVE  \E p \in Updated(t, c, n) : Last(p) = b
<1> DEFINE S == {x \in Numbers : \E p \in Visited(c) : Last(p) = x}
<1>1. CacheType(c)
  BY DEF Sound
<1>2. ASSUME NEW r \in c.roots PROVE r \in S
  <2>1. r \in Numbers /\ r \in Int
    BY <1>1, ProxyAssumption DEF CacheType, Numbers
  <2>2. <<r>> \in Paths /\ Len(<<r>>) = 1 /\ <<r>>[1] = r
    BY <2>1 DEF Paths
  <2>3. ChildPath(<<r>>, c) /\ Last(<<r>>) = r
    BY <2>2 DEF ChildPath, Last
  <2>4. <<r>> \in Visited(c)
    BY <2>2, <2>3, ChildrenVisited
  <2> QED BY <2>1, <2>3, <2>4
<1>3. ASSUME NEW x \in S, NEW l \in c.children[x] PROVE l \in S
  <2>1. PICK p \in Visited(c) : Last(p) = x
    OBVIOUS
  <2>2. p \in Paths /\ ChildPath(p, c) /\ l \in Numbers /\ l \in Int
    BY <1>1, <2>1, VisitedAbove, ProxyAssumption DEF CacheType, Numbers
  <2> DEFINE a == Append(p, l)
  <2>3. /\ a \in Paths /\ Len(a) = Len(p) + 1 /\ \A i \in 1 .. Len(p) : a[i] = p[i]
        /\ a[Len(p) + 1] = l /\ Last(a) = l
    BY <2>2, AppendRules
  <2> HIDE DEF a
  <2>4. Len(p) \in Nat \ {0}
    BY <2>2 DEF Paths
  <2>5. a[1] \in c.roots
    BY <2>2, <2>3, <2>4 DEF ChildPath
  <2>6. ASSUME NEW i \in 1 .. Len(a) - 1 PROVE a[i + 1] \in c.children[a[i]]
    <3>1. CASE i = Len(p)
      BY <2>1, <2>3, <2>4, <3>1 DEF Last
    <3>2. CASE i # Len(p)
      <4>1. i \in 1 .. Len(p) - 1 /\ i \in 1 .. Len(p) /\ i + 1 \in 1 .. Len(p)
        BY <2>3, <2>4, <3>2
      <4> QED BY <2>2, <2>3, <4>1 DEF ChildPath
    <3> QED BY <3>1, <3>2
  <2>7. a \in Visited(c)
    BY <2>3, <2>5, <2>6, ChildrenVisited DEF ChildPath
  <2> QED BY <2>2, <2>3, <2>7
<1>4. b \in S
  <2>1. S \in SUBSET Numbers
    OBVIOUS
  <2> HIDE DEF S
  <2> QED BY <1>2, <1>3, <2>1 DEF Sound
<1>5. n # 0
  OBVIOUS
<1> QED BY <1>4, <1>5 DEF Updated

------------------------------------------------------------------------------
(* The model and its tree, step by step.                                   *)

ProxyInv ==
  /\ \E n \in 0 .. MaxBlocks : refs \in Table(n) /\ ptrs \in Table(n)
  /\ held \in Nat
  /\ CacheType(caches)
  /\ held = 0 => caches = CachesOf(refs, ptrs)
  /\ Whole(tree)
  /\ TreeIsLinks
  /\ EveryBlockShown

\* The number of blocks.
LEMMA CountOf ==
  ASSUME NEW n \in 0 .. MaxBlocks, NEW f \in Table(n)
  PROVE  DOMAIN f = 0 .. n - 1 /\ Cardinality(DOMAIN f) = n /\ n \in Nat
<1>1. n \in Nat /\ 0 \in Int /\ n - 1 \in Int
  BY ProxyAssumption
<1>2. Cardinality(0 .. n - 1) = n
  BY <1>1, FS_Interval
<1> QED BY <1>1, <1>2 DEF Table

\* linksChanged after updateLinks: whatever the blocks and the tree were, the tree shows
\* the links.
LEMMA UpToDate ==
  ASSUME NEW n \in 0 .. MaxBlocks, refs' \in Table(n), ptrs' \in Table(n), NEW t, Whole(t),
         caches' = CachesOf(refs', ptrs'), tree' = Updated(t, caches', n), held' = 0
  PROVE  ProxyInv'
<1> DEFINE c == CachesOf(refs', ptrs')
<1>1. Sound(c, n) /\ CacheType(c)
  BY CachesOfSound DEF Sound
<1>2. DOMAIN refs' = 0 .. n - 1 /\ n \in Nat
  BY CountOf
<1> HIDE DEF c
<1>3. Whole(Updated(t, c, n)) /\ IsTreeOf(Updated(t, c, n), c)
  BY <1>1, <1>2, UpdatedWhole, UpdatedIsTree
<1>4. \A b \in 0 .. n - 1 : \E p \in Updated(t, c, n) : Last(p) = b
  BY <1>1, <1>2, UpdatedShows
<1>5. caches' = c /\ tree' = Updated(t, c, n)
  BY DEF c
<1>6. TreeIsLinks'
  BY <1>3, <1>5 DEF TreeIsLinks, IsTreeOf, IsChildPath, ChildPath
<1>7. EveryBlockShown'
  BY <1>2, <1>4, <1>5 DEF EveryBlockShown
<1> QED BY <1>1, <1>3, <1>5, <1>6, <1>7 DEF ProxyInv

\* The end of a handler, updates held back or not.
LEMMA LinksStep ==
  ASSUME ProxyInv, NEW n \in 0 .. MaxBlocks, refs' \in Table(n), ptrs' \in Table(n),
         NEW t, Whole(t), Links(t)
  PROVE  ProxyInv'
<1>1. tree' = Updated(t, caches', n)
  BY CountOf DEF Links
<1>2. CASE held > 0
  <2>1. caches' = caches /\ held' = held + 1 /\ held' \in Nat /\ held' # 0 /\ CacheType(caches')
    BY <1>2 DEF Links, ProxyInv
  <2>2. Whole(tree')
    BY <1>1, <2>1, UpdatedWhole
  <2> QED BY <2>1, <2>2 DEF ProxyInv, TreeIsLinks, EveryBlockShown
<1>3. CASE held = 0
  BY <1>1, <1>3, UpToDate DEF Links
<1> QED BY <1>2, <1>3 DEF ProxyInv

\* Renumbered links are numbers.
LEMMA RenumberType ==
  ASSUME NEW D, NEW f \in [D -> SUBSET Int], NEW number \in [Int -> Int]
  PROVE  Renumber(f, number) \in [D -> SUBSET Int]
  BY DEF Renumber

\* A link that is set.
LEMMA SetLinkType ==
  ASSUME NEW n \in 0 .. MaxBlocks, NEW f \in Table(n), NEW b, NEW new \in Int, NEW old
  PROVE  SetLink(f, b, old, new) \in Table(n)
  BY DEF SetLink, Table

\* A Ptr that is set.
LEMMA OnePtrType ==
  ASSUME NEW n \in 0 .. MaxBlocks, NEW f \in Table(n), NEW b, NEW new \in Int
  PROVE  [f EXCEPT ![b] = {new} \ {-1}] \in Table(n)
  BY DEF Table

\* The tables after insertNiBlock, removeNiBlock, and a change of the order.
LEMMA InsertStep ==
  ASSUME ProxyInv, NEW at \in 0 .. Count, InsertNiBlock(at)
  PROVE  ProxyInv'
<1> PICK n \in 0 .. MaxBlocks : refs \in Table(n) /\ ptrs \in Table(n)
  BY DEF ProxyInv
<1>1. Count = n /\ n \in Nat /\ n < MaxBlocks /\ at \in 0 .. n
  BY CountOf DEF Count, InsertNiBlock
<1> DEFINE raised == [l \in Int |-> IF l >= at THEN l + 1 ELSE l]
           grown(f) == [b \in 0 .. n |-> IF b < at THEN Renumber(f, raised)[b]
                                         ELSE IF b = at THEN {} ELSE Renumber(f, raised)[b - 1]]
<1>2. refs' = grown(refs) /\ ptrs' = grown(ptrs) /\ Links(tree)
  BY <1>1 DEF InsertNiBlock
<1>3. ASSUME NEW f \in Table(n) PROVE grown(f) \in Table(n + 1)
  <2>1. raised \in [Int -> Int]
    BY <1>1
  <2> HIDE DEF raised
  <2>2. Renumber(f, raised) \in [0 .. n - 1 -> SUBSET Int]
    BY <2>1, RenumberType DEF Table
  <2> DEFINE g == Renumber(f, raised)
  <2> HIDE DEF g
  <2>3. \A b \in 0 .. n : (b < at => b \in 0 .. n - 1) /\ (b > at => b - 1 \in 0 .. n - 1)
    BY <1>1
  <2>4. g \in [0 .. n - 1 -> SUBSET Int]
    BY <2>2 DEF g
  <2>5. [b \in 0 .. n |-> IF b < at THEN g[b] ELSE IF b = at THEN {} ELSE g[b - 1]]
          \in [0 .. n -> SUBSET Int]
    BY <1>1, <2>3, <2>4
  <2>6. Table(n + 1) = [0 .. n -> SUBSET Int]
    <3>1. n + 1 - 1 = n
      BY <1>1
    <3> QED BY <3>1 DEF Table
  <2>7. grown(f) = [b \in 0 .. n |-> IF b < at THEN g[b] ELSE IF b = at THEN {} ELSE g[b - 1]]
    BY DEF g
  <2> QED BY <2>5, <2>6, <2>7
<1> HIDE DEF grown
<1>4. n + 1 \in 0 .. MaxBlocks /\ Whole(tree)
  BY <1>1, ProxyAssumption DEF ProxyInv
<1> QED BY <1>2, <1>3, <1>4, LinksStep

LEMMA RemoveStep ==
  ASSUME ProxyInv, NEW k \in DOMAIN refs, RemoveNiBlock(k)
  PROVE  ProxyInv'
<1> PICK n \in 0 .. MaxBlocks : refs \in Table(n) /\ ptrs \in Table(n)
  BY DEF ProxyInv
<1>1. Count = n /\ n \in Nat \ {0} /\ k \in 0 .. n - 1
  BY CountOf DEF Count
<1> DEFINE lowered == [l \in Int |-> IF l = k THEN -1 ELSE IF l > k THEN l - 1 ELSE l]
           shrunk(f) == [b \in 0 .. n - 2 |-> IF b < k THEN Renumber(f, lowered)[b]
                                              ELSE Renumber(f, lowered)[b + 1]]
<1>2. refs' = shrunk(refs) /\ ptrs' = shrunk(ptrs) /\ Links(RowsRemoved(tree, {k}))
  BY <1>1 DEF RemoveNiBlock
<1>3. ASSUME NEW f \in Table(n) PROVE shrunk(f) \in Table(n - 1)
  <2>1. lowered \in [Int -> Int]
    BY <1>1
  <2> HIDE DEF lowered
  <2> DEFINE g == Renumber(f, lowered)
  <2>2. g \in [0 .. n - 1 -> SUBSET Int]
    BY <2>1, RenumberType DEF Table
  <2> HIDE DEF g
  <2>3. \A b \in 0 .. n - 2 : b \in 0 .. n - 1 /\ b + 1 \in 0 .. n - 1
    BY <1>1
  <2>4. [b \in 0 .. n - 2 |-> IF b < k THEN g[b] ELSE g[b + 1]] \in [0 .. n - 2 -> SUBSET Int]
    BY <1>1, <2>2, <2>3
  <2>5. n - 1 - 1 = n - 2
    BY <1>1
  <2> QED BY <2>4, <2>5 DEF g, Table
<1> HIDE DEF shrunk
<1>4. n - 1 \in 0 .. MaxBlocks
  BY <1>1, ProxyAssumption
<1>5. Whole(RowsRemoved(tree, {k}))
  BY RowsRemovedWhole DEF ProxyInv
<1> QED BY <1>2, <1>3, <1>4, <1>5, LinksStep

LEMMA PermuteStep ==
  ASSUME ProxyInv, NEW n \in 0 .. MaxBlocks, refs \in Table(n), ptrs \in Table(n),
         NEW new \in [0 .. n - 1 -> 0 .. n - 1], \A b \in 0 .. n - 1 : \E a \in 0 .. n - 1 : new[a] = b,
         NEW numbers, Permute(new, numbers)
  PROVE  ProxyInv'
<1> DEFINE number == [l \in Int |-> IF l \in DOMAIN new THEN new[l] ELSE l]
           moved(f) == [b \in DOMAIN f |-> Renumber(f, number)[CHOOSE a \in DOMAIN f : new[a] = b]]
<1>1. refs' = moved(refs) /\ ptrs' = moved(ptrs) /\ Links(RowsRemoved(tree, numbers))
  BY DEF Permute
<1>2. ASSUME NEW f \in Table(n) PROVE moved(f) \in Table(n)
  <2>1. number \in [Int -> Int]
    BY CountOf
  <2> HIDE DEF number
  <2> DEFINE g == Renumber(f, number)
  <2>2. g \in [0 .. n - 1 -> SUBSET Int] /\ DOMAIN f = 0 .. n - 1
    BY <2>1, RenumberType DEF Table
  <2> HIDE DEF g
  <2>3. \A b \in 0 .. n - 1 : (CHOOSE a \in DOMAIN f : new[a] = b) \in 0 .. n - 1
    BY <2>2
  <2>4. [b \in DOMAIN f |-> g[CHOOSE a \in DOMAIN f : new[a] = b]] \in [0 .. n - 1 -> SUBSET Int]
    BY <2>2, <2>3
  <2> QED BY <2>4 DEF g, Table
<1> HIDE DEF moved
<1>3. Whole(RowsRemoved(tree, numbers))
  BY RowsRemovedWhole DEF ProxyInv
<1> QED BY <1>1, <1>2, <1>3, LinksStep

\* A block that is moved changes places with those it passes.
LEMMA MoveStep ==
  ASSUME ProxyInv, NEW src \in DOMAIN refs, NEW dst \in DOMAIN refs \ {src}, MoveNiBlock(src, dst)
  PROVE  ProxyInv'
<1> PICK n \in 0 .. MaxBlocks : refs \in Table(n) /\ ptrs \in Table(n)
  BY DEF ProxyInv
<1>1. DOMAIN refs = 0 .. n - 1 /\ n \in Nat /\ src \in 0 .. n - 1 /\ dst \in 0 .. n - 1 /\ src # dst
  BY CountOf
<1> DEFINE new == [b \in 0 .. n - 1 |->
                     IF b = src THEN dst
                     ELSE IF src < b /\ b <= dst THEN b - 1
                     ELSE IF dst <= b /\ b < src THEN b + 1 ELSE b]
<1>2. Permute(new, {src})
  BY <1>1 DEF MoveNiBlock
<1>3. new \in [0 .. n - 1 -> 0 .. n - 1]
  BY <1>1
<1>4. ASSUME NEW b \in 0 .. n - 1 PROVE \E a \in 0 .. n - 1 : new[a] = b
  <2>1. CASE b = dst
    BY <1>1, <2>1
  <2>2. CASE src <= b /\ b < dst
    <3>1. b + 1 \in 0 .. n - 1 /\ new[b + 1] = b
      BY <1>1, <2>2
    <3> QED BY <3>1
  <2>3. CASE dst < b /\ b <= src
    <3>1. b - 1 \in 0 .. n - 1 /\ new[b - 1] = b
      BY <1>1, <2>3
    <3> QED BY <3>1
  <2>4. CASE b # dst /\ ~ (src <= b /\ b < dst) /\ ~ (dst < b /\ b <= src)
    <3>1. new[b] = b
      BY <1>1, <2>4
    <3> QED BY <3>1
  <2> QED BY <1>1, <2>1, <2>2, <2>3, <2>4
<1> HIDE DEF new
<1> QED BY <1>2, <1>3, <1>4, PermuteStep

LEMMA SwapStep ==
  ASSUME ProxyInv, NEW x \in DOMAIN refs, NEW y \in DOMAIN refs \ {x}, SwapBlocks(x, y)
  PROVE  ProxyInv'
<1> PICK n \in 0 .. MaxBlocks : refs \in Table(n) /\ ptrs \in Table(n)
  BY DEF ProxyInv
<1>1. DOMAIN refs = 0 .. n - 1 /\ n \in Nat /\ x \in 0 .. n - 1 /\ y \in 0 .. n - 1
  BY CountOf
<1> DEFINE new == [c \in 0 .. n - 1 |-> IF c = x THEN y ELSE IF c = y THEN x ELSE c]
<1>2. Permute(new, DOMAIN refs) /\ new \in [0 .. n - 1 -> 0 .. n - 1]
  BY <1>1 DEF SwapBlocks
<1>3. \A b \in 0 .. n - 1 : \E a \in 0 .. n - 1 : new[a] = b
  BY <1>1
<1> HIDE DEF new
<1> QED BY <1>2, <1>3, PermuteStep

\* The tree is whole at all times, and right whenever updates are not held back.
LEMMA ProxyInvHolds == Spec => []ProxyInv
<1>1. Init => ProxyInv
  <2> SUFFICES ASSUME Init PROVE ProxyInv
    OBVIOUS
  <2>1. refs \in Table(0) /\ ptrs \in Table(0) /\ 0 \in 0 .. MaxBlocks
    BY ProxyAssumption DEF Init, Table
  <2>2. Sound(caches, 0)
    BY <2>1, CachesOfSound DEF Init
  <2>3. caches.roots = {} /\ CacheType(caches) /\ DOMAIN refs = {}
    BY <2>1, <2>2 DEF Sound, Table
  <2> QED BY <2>1, <2>3 DEF Init, ProxyInv, Whole, TreeIsLinks, EveryBlockShown
<1>2. ProxyInv /\ [Next]_vars => ProxyInv'
  <2> SUFFICES ASSUME ProxyInv, [Next]_vars PROVE ProxyInv'
    OBVIOUS
  <2> PICK n \in 0 .. MaxBlocks : refs \in Table(n) /\ ptrs \in Table(n)
    BY DEF ProxyInv
  <2>1. DOMAIN refs = 0 .. n - 1 /\ n \in Nat /\ Count = n /\ Whole(tree)
    BY CountOf DEF Count, ProxyInv
  <2>2. ASSUME NEW b \in DOMAIN refs, NEW old \in DOMAIN refs \cup {-1}, NEW new \in DOMAIN refs \cup {-1},
               SetRef(b, old, new)
        PROVE  ProxyInv'
    <3>1. new \in Int
      BY <2>1
    <3>2. refs' \in Table(n) /\ ptrs' \in Table(n) /\ Links(tree)
      BY <2>2, <3>1, SetLinkType DEF SetRef
    <3> QED BY <2>1, <3>2, LinksStep
  <2>3. ASSUME NEW b \in DOMAIN refs, NEW new \in DOMAIN refs \cup {-1}, SetPtr(b, new)
        PROVE  ProxyInv'
    <3>1. new \in Int
      BY <2>1
    <3>2. refs' \in Table(n) /\ ptrs' \in Table(n) /\ Links(tree)
      BY <2>3, <3>1, OnePtrType DEF SetPtr
    <3> QED BY <2>1, <3>2, LinksStep
  <2>4. CASE HoldUpdates
    BY <2>4 DEF HoldUpdates, ProxyInv, TreeIsLinks, EveryBlockShown
  <2>5. CASE ReleaseUpdates
    <3>1. /\ refs' \in Table(n) /\ ptrs' \in Table(n) /\ held' = 0
          /\ caches' = CachesOf(refs', ptrs') /\ tree' = Updated(tree, caches', n)
      BY <2>1, <2>5 DEF ReleaseUpdates
    <3> QED BY <2>1, <3>1, UpToDate
  <2>6. CASE Reset
    <3>1. Whole({})
      BY DEF Whole
    <3>2. /\ refs' \in Table(n) /\ ptrs' \in Table(n) /\ held' = 0
          /\ caches' = CachesOf(refs', ptrs') /\ tree' = Updated({}, caches', n)
      BY <2>1, <2>6 DEF Reset, ProxyInv
    <3> QED BY <3>1, <3>2, UpToDate
  <2>7. CASE UNCHANGED vars
    BY <2>7 DEF vars, ProxyInv, TreeIsLinks, IsChildPath, EveryBlockShown
  <2> QED
    BY <2>2, <2>3, <2>4, <2>5, <2>6, <2>7, InsertStep, RemoveStep, MoveStep, SwapStep DEF Next
<1> QED BY <1>1, <1>2, PTL DEF Spec

\* updateRoot, updateItem: the tree that is pruned and extended step by step is the tree
\* of the links.
THEOREM TreeIsLinksHolds == Spec => []TreeIsLinks
<1>1. ProxyInv => TreeIsLinks BY DEF ProxyInv
<1> QED BY <1>1, ProxyInvHolds, PTL

\* mapFrom: every block has an item, those of a cycle included.
THEOREM EveryBlockShownHolds == Spec => []EveryBlockShown
<1>1. ProxyInv => EveryBlockShown BY DEF ProxyInv
<1> QED BY <1>1, ProxyInvHolds, PTL
==============================================================================
