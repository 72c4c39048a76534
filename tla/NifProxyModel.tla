--------------------------- MODULE NifProxyModel ---------------------------
(***************************************************************************)
(* The tree of the block list (nifproxymodel.cpp).  Its items hold block   *)
(* numbers; NifModel holds the links the tree is made of.  The tree is not *)
(* built again when links change: linksChanged prunes and extends it, and  *)
(* rows about to be removed from NifModel take their items with them.      *)
(* An item is the path of block numbers that leads to it.                  *)
(***************************************************************************)
EXTENDS LinkGraph

CONSTANTS MaxBlocks,  \* bound: blocks
          MaxRefs,    \* bound: Ref links of a block
          MaxPtrs,    \* bound: Ptr links of all blocks together
          MaxHeld     \* bound: operations while updates are held

ASSUME ProxyAssumption == MaxBlocks \in Nat \ {0} /\ {MaxRefs, MaxPtrs, MaxHeld} \subseteq Nat

VARIABLES refs,    \* the Ref links of each block: the set of their numbers
          ptrs,    \* the Ptr links of each block
          caches,  \* [children, parents, roots] of NifModel
          held,    \* 0, or while lockUpdates is set one more than the operations since
          tree     \* the paths of the items

vars == <<refs, ptrs, caches, held, tree>>

Numbers == 0 .. MaxBlocks - 1
Count == Cardinality(DOMAIN refs)

----------------------------------------------------------------------------
(* NifModel.                                                               *)

InOrder(S) == KeepOnly(BlockOrder(MaxBlocks), S)

(* updateLinks; a block without an entry has no links.                     *)
CachesOf(rs, ps) ==
  LET children == CheckLinks([b \in DOMAIN rs |-> InOrder(rs[b])])
  IN  [children |-> [b \in Numbers |-> ToSet(LinksOf(children, b))],
       parents  |-> [b \in Numbers |-> IF b \in DOMAIN ps THEN ps[b] ELSE {}],
       roots    |-> ToSet(RootLinks(children))]

Renumber(f, number) == [b \in DOMAIN f |-> {number[l] : l \in f[b]} \ {-1}]

----------------------------------------------------------------------------
(* NifProxyModel.                                                          *)

(* The items updateItem visits: it starts at the roots and follows child   *)
(* links, unless they lead to a block above the item.  No block is on a    *)
(* path twice, so that no path is longer than there are blocks.            *)
Visited(c) ==
  {p \in UNION {[1 .. k -> Numbers] : k \in 1 .. MaxBlocks} :
     /\ p[1] \in c.roots
     /\ \A n \in 1 .. Len(p) - 1 : p[n + 1] \in c.children[p[n]] \ {p[m] : m \in 1 .. n - 1}}

(* Items that are shown but not visited: Ptr links, and child links back.  *)
Leaves(visited, c) ==
  (UNION {{Append(p, l) : l \in c.children[Last(p)] \cup c.parents[Last(p)]} : p \in visited})
    \ visited

(* Mutant of Updated: nothing is pruned.                                   *)
UpdatedGrows(t, c, count) ==
  IF count = 0 THEN {} ELSE Visited(c) \cup Leaves(Visited(c), c) \cup t

(* updateRoot and updateItem: what hangs below an item that stays and is   *)
(* not visited stays as it is.                                             *)
Updated(t, c, count) ==
  LET visited == Visited(c)
      leaves  == Leaves(visited, c)
      kept    == leaves \cap t
  IN  IF count = 0 THEN {}
      ELSE visited \cup leaves
             \cup {p \in t : \E q \in kept : Len(q) < Len(p) /\ IsPrefix(q, p)}

(* xRowsAboutToBeRemoved: every item of the blocks goes, with what is below. *)
RowsRemoved(t, numbers) == {p \in t : Range(p) \cap numbers = {}}

----------------------------------------------------------------------------
(* The end of each handler: updateLinks, held back or not, and linksChanged, *)
(* which is emitted either way.                                            *)
Links(t) ==
  /\ caches' = IF held > 0 THEN caches ELSE CachesOf(refs', ptrs')
  /\ tree' = Updated(t, caches', Cardinality(DOMAIN refs'))
  /\ held' = IF held > 0 THEN held + 1 ELSE 0
  /\ held' <= MaxHeld + 1   \* bound

Init ==
  /\ refs = <<>> /\ ptrs = <<>> /\ held = 0 /\ tree = {}
  /\ caches = CachesOf(<<>>, <<>>)

(* setLink of a row of one of the blocks: `old` gives way to `new`; -1 is none. *)
SetLink(f, b, old, new) ==
  [f EXCEPT ![b] = ((@ \ {old}) \cup {new}) \ {-1}]

SetRef(b, old, new) ==
  /\ old \in refs[b] \cup {-1} /\ new \notin refs[b]
  /\ refs' = SetLink(refs, b, old, new)
  /\ Cardinality(refs'[b]) <= MaxRefs   \* bound
  /\ UNCHANGED ptrs
  /\ Links(tree)

SetPtr(b, new) ==
  /\ ptrs' = [ptrs EXCEPT ![b] = {new} \ {-1}]
  /\ ptrs' # ptrs
  /\ Cardinality({a \in DOMAIN refs : ptrs'[a] # {}}) <= MaxPtrs   \* bound
  /\ UNCHANGED refs
  /\ Links(tree)

InsertNiBlock(at) ==
  LET raised[l \in Int] == IF l >= at THEN l + 1 ELSE l
      grown(f)  == LET g == Renumber(f, raised)
                   IN  [b \in 0 .. Count |-> IF b < at THEN g[b] ELSE IF b = at THEN {} ELSE g[b - 1]]
  IN  /\ Count < MaxBlocks
      /\ refs' = grown(refs) /\ ptrs' = grown(ptrs)
      /\ Links(tree)

RemoveNiBlock(n) ==
  LET lowered[l \in Int] == IF l = n THEN -1 ELSE IF l > n THEN l - 1 ELSE l
      shrunk(f)  == LET g == Renumber(f, lowered)
                    IN  [b \in 0 .. Count - 2 |-> IF b < n THEN g[b] ELSE g[b + 1]]
  IN  /\ refs' = shrunk(refs) /\ ptrs' = shrunk(ptrs)
      /\ Links(RowsRemoved(tree, {n}))

(* moveNiBlock takes one row out of the list and reorderBlocks all of them. *)
Permute(new, numbers) ==
  LET moved(f) == LET g == Renumber(f, [l \in Int |-> IF l \in DOMAIN new THEN new[l] ELSE l])
                  IN  [b \in DOMAIN f |-> g[CHOOSE a \in DOMAIN f : new[a] = b]]
  IN  /\ refs' = moved(refs) /\ ptrs' = moved(ptrs)
      /\ Links(RowsRemoved(tree, numbers))

MoveNiBlock(src, dst) ==
  Permute([b \in DOMAIN refs |->
             IF b = src THEN dst
             ELSE IF src < b /\ b <= dst THEN b - 1
             ELSE IF dst <= b /\ b < src THEN b + 1 ELSE b], {src})

SwapBlocks(a, b) ==
  Permute([c \in DOMAIN refs |-> IF c = a THEN b ELSE IF c = b THEN a ELSE c], DOMAIN refs)

HoldUpdates == held = 0 /\ held' = 1 /\ UNCHANGED <<refs, ptrs, caches, tree>>

(* Released updates end in updateLinks and linksChanged.  Without an edit   *)
(* in between neither is called, and both would change nothing.            *)
ReleaseUpdates ==
  /\ held > 0
  /\ held' = 0
  /\ caches' = CachesOf(refs, ptrs)
  /\ tree' = Updated(tree, caches', Count)
  /\ UNCHANGED <<refs, ptrs>>

(* modelReset: the tree is built from nothing.                             *)
Reset ==
  /\ held = 0
  /\ tree' = Updated({}, caches, Count)
  /\ UNCHANGED <<refs, ptrs, caches, held>>

Next ==
  \/ \E b \in DOMAIN refs :
       \/ \E old, new \in DOMAIN refs \cup {-1} : SetRef(b, old, new)
       \/ \E new \in DOMAIN refs \cup {-1} : SetPtr(b, new)
       \/ RemoveNiBlock(b)
       \/ \E dst \in DOMAIN refs \ {b} : MoveNiBlock(b, dst)
       \/ \E a \in DOMAIN refs \ {b} : SwapBlocks(a, b)
  \/ \E at \in 0 .. Count : InsertNiBlock(at)
  \/ HoldUpdates
  \/ ReleaseUpdates
  \/ Reset

Spec == Init /\ [][Next]_vars

----------------------------------------------------------------------------
(* Properties.                                                             *)

(* A path along child links, from one of the roots.                        *)
IsChildPath(p) ==
  /\ p[1] \in caches.roots
  /\ \A n \in 1 .. Len(p) - 1 : p[n + 1] \in caches.children[p[n]]

(* updateRoot, updateItem (nifproxymodel.cpp:235-356): whatever was pruned  *)
(* and extended step by step, no item is left without the item above it,   *)
(* there is an item for each root and below the items of child links one   *)
(* for each link, and there are no others, except below items of a Ptr     *)
(* link, which are not kept up to date.                                    *)
TreeIsLinks ==
  held = 0 =>
    /\ \A p \in tree : Len(p) > 1 => Front(p) \in tree
    /\ {p \in tree : Len(p) = 1} = {<<r>> : r \in caches.roots}
    /\ \A p \in tree : IsChildPath(p) =>
         {q \in tree : Len(q) > 1 /\ Front(q) = p} =
           {Append(p, l) : l \in caches.children[Last(p)] \cup caches.parents[Last(p)]}

(* mapFrom finds an item for every block, so that a block selected in the  *)
(* list is also selected in the tree.                                      *)
EveryBlockShown ==
  held = 0 => \A b \in DOMAIN refs : \E p \in tree : Last(p) = b
=============================================================================
