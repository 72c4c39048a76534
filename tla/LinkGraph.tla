------------------------------ MODULE LinkGraph ------------------------------
(***************************************************************************)
(* The link caches of NifModel: how childLinks and rootLinks are computed  *)
(* from the link fields of the blocks.                                     *)
(*                                                                         *)
(* A block is named by its number, 0 .. n-1.  `links` maps every block     *)
(* number to the list of numbers its fields hold, in the order updateLinks *)
(* comes to them: in each compound the link rows themselves, then those in *)
(* its other arrays and compounds.  The lists may name numbers no block    *)
(* has, because nothing in a file or in the editor stops a link field from *)
(* holding one.                                                            *)
(***************************************************************************)
EXTENDS Integers, Sequences, FiniteSets, SequencesExt

\* QHash::value( b ): a missing key is an empty list.
LinksOf(links, b) == IF b \in DOMAIN links THEN links[b] ELSE <<>>

\* updateLinks( block, item ): the null links are skipped, a number is listed once.
AppendNew(list, l) == IF l < 0 \/ Contains(list, l) THEN list ELSE Append(list, l)

CollectLinks(values) == FoldLeft(AppendNew, <<>>, values)

\* The members of the list that are in S, in the order of the list.
KeepOnly(list, S) ==
  FoldLeft(LAMBDA kept, l : IF l \in S THEN Append(kept, l) ELSE kept, <<>>, list)

\* Mutant: the child is taken out of every block's list.
UnlinkEverywhere(links, b, c) ==
  [x \in DOMAIN links |-> KeepOnly(links[x], ToSet(links[x]) \ {c})]

\* childLinks[block].removeAll( child )
Unlink(links, b, c) == [links EXCEPT ![b] = KeepOnly(@, ToSet(@) \ {c})]

\* Mutant: the last block is passed over.
BlockOrderShort(n) == [i \in 1 .. n - 1 |-> i - 1]

\* 0, 1, .., n-1: the order in which every loop over the blocks runs.
BlockOrder(n) == [i \in 1 .. n |-> i - 1]

(***************************************************************************)
(* checkLinks: from every block in turn, walk all paths; a link that leads *)
(* back to a block of the path walked (the stack) is dropped from the      *)
(* cache.  foreach iterates over a copy of the list, so a link dropped on  *)
(* the way does not disturb the walk of the list it was in.                *)
(*                                                                         *)
(* A frame is one call of checkLinks( block, parents ) at one turn of its  *)
(* loop: `rest` is what is left of its copy of the list, `links` is the    *)
(* cache as it is.  The loop over all blocks is a frame of no block.       *)
(***************************************************************************)
Frames(blocks) ==
  [block : Nat \cup {-1}, parents : SUBSET Nat, rest : Seq(Nat), links : [blocks -> Seq(Nat)]]

\* checkLinks( child, parents ): the child is pushed, its list is copied.
Call(f, child) ==
  [block |-> child, parents |-> f.parents \cup {child},
   rest |-> LinksOf(f.links, child), links |-> f.links]

\* The next turn of the loop, with the cache as this turn left it.
NextTurn(f, links) == [f EXCEPT !.rest = Tail(@), !.links = links]

\* The cache when the loop of a frame has ended.
Walk(blocks) ==
  LET walk[f \in Frames(blocks)] ==
        IF f.rest = <<>> THEN f.links
        ELSE LET child == Head(f.rest) IN
             walk[NextTurn(f, IF child \in f.parents THEN Unlink(f.links, f.block, child)
                                                     ELSE walk[Call(f, child)])]
  IN  walk

CheckLinks(links) ==
  Walk(DOMAIN links)[[block |-> -1, parents |-> {},
                      rest |-> BlockOrder(Cardinality(DOMAIN links)), links |-> links]]

\* hasrefs: the blocks no child link names.
HasRefs(links) == UNION {ToSet(links[b]) : b \in DOMAIN links}

\* Mutant: the loop stops one block short.
RootLinksShort(links) ==
  KeepOnly(BlockOrder(Cardinality(DOMAIN links) - 1), DOMAIN links \ HasRefs(links))

RootLinks(links) ==
  KeepOnly(BlockOrder(Cardinality(DOMAIN links)), DOMAIN links \ HasRefs(links))

------------------------------------------------------------------------------
\* Reference definitions, for the properties.

\* `to` is in every set of blocks that holds `from` and is closed under the links.
Reaches(links, from, to) ==
  \A S \in SUBSET DOMAIN links :
    (/\ from \in S
     /\ \A b \in S : ToSet(links[b]) \cap DOMAIN links \subseteq S) => to \in S

\* No cycle: in any blocks at all there is one that none of them links to.
Acyclic(links) ==
  \A S \in SUBSET DOMAIN links :
    S # {} => \E b \in S : \A a \in S : b \notin ToSet(links[a])
==============================================================================
