------------------------------ MODULE Tidying ------------------------------
(***************************************************************************)
(* The spells that tidy a whole file: spells/sanitize.cpp sorts and prunes *)
(* arrays of links and reorders the blocks, spells/optimize.cpp combines   *)
(* equal properties, splits shared ones and removes nodes that hold        *)
(* nothing.  They change links and numbers everywhere and are to change    *)
(* nothing of what the file shows.                                         *)
(*                                                                         *)
(* A document is the sequence of its blocks; block number b is doc[b + 1]. *)
(* A block has the array of Properties, its other Refs (Children of a node,*)
(* textures or a controller of a property, the shape and constraints of a  *)
(* body), and its Ptrs (the Entities of a constraint, a target).           *)
(***************************************************************************)
EXTENDS LinkGraph

CONSTANTS Documents,  \* what may be open at first, and a bound: the spells to cast on it
          Plain       \* Plain[name]: the name a material is compared by

VARIABLES doc,
          spell    \* the last spell and how many are left

vars == <<doc, spell>>

(* Which types inherit what.                                               *)
Geometry   == {"NiTriShape"}
AVObjects  == Geometry \cup {"NiNode"}
Properties == {"NiMaterialProperty", "NiTexturingProperty", "BSShaderProperty"}
Combinable == {"NiMaterialProperty", "NiTexturingProperty", "NiSourceTexture"}
RefObjects == {"bhkRigidBody", "bhkShape", "bhkConstraint"}
Types == AVObjects \cup Properties \cup Combinable \cup RefObjects
           \cup {"NiTimeController", "bhkCollisionObject"}

Block == [item : Nat, type : Types, name : DOMAIN Plain, props : Seq(Int), kids : Seq(Int), ptrs : Seq(Int)]

At(d, b) == d[b + 1]
Numbers(d) == 0 .. Len(d) - 1
TypeOf(d, l) == IF l \in Numbers(d) THEN At(d, l).type ELSE "none"
Items(d) == {d[i].item : i \in DOMAIN d}
NewItem(d) == 1 + Max(Items(d))

ChildLinks(d, b) == IF b \in Numbers(d) THEN CollectLinks(At(d, b).props \o At(d, b).kids) ELSE <<>>
ParentLinks(d, b) == CollectLinks(At(d, b).ptrs)

Parents(d, b) == {p \in Numbers(d) : Contains(ChildLinks(d, p), b)}
Parent(d, b) == IF Parents(d, b) = {} THEN -1 ELSE Min(Parents(d, b))

Pruned(links) == SelectSeq(links, LAMBDA l : l >= 0)

MapBlock(block, number) ==
  LET Mapped(links) == [r \in DOMAIN links |-> number[links[r]]]
  IN  [block EXCEPT !.props = Mapped(@), !.kids = Mapped(@), !.ptrs = Mapped(@)]

MapLinks(d, number) == [i \in DOMAIN d |-> MapBlock(d[i], number)]

RemoveNiBlock(d, b) ==
  RemoveAt(MapLinks(d, [l \in Int |-> IF l = b THEN -1 ELSE IF l > b THEN l - 1 ELSE l]), b + 1)

----------------------------------------------------------------------------
(* Sanitizing.                                                             *)

(* spReorderLinks: geometry before other children, then by number.         *)
Reordered(d) ==
  LET Before(k, l) == IF (TypeOf(d, k) \in Geometry) # (TypeOf(d, l) \in Geometry)
                      THEN TypeOf(d, k) \in Geometry ELSE k < l
      Sorted(block) == IF block.type = "NiNode" THEN [block EXCEPT !.kids = SortSeq(Pruned(@), Before)] ELSE block
  IN  [i \in DOMAIN d |-> Sorted(d[i])]

(* spSanitizeLinkArrays, for the arrays modelled.                          *)
Collapsed(d) ==
  LET Short(block) ==
        [block EXCEPT !.props = Pruned(@), !.kids = IF block.type = "NiNode" THEN Pruned(@) ELSE @]
  IN  [i \in DOMAIN d |-> Short(d[i])]

ChildBeforeParent(d, l) == TypeOf(d, l) \in RefObjects \ {"bhkConstraint"}

(* addTree: a constraint after its entities, a body after its shape and    *)
(* before what it is the parent of.  An empty entity is added like a block,*)
(* and a block that is reached again while its entities are added is added *)
(* twice.                                                                  *)
AddTree(d, root, newblocks) ==
  LET add[b \in Int, blocks \in Seq(Int)] ==
        LET all(bs, links) == FoldLeft(LAMBDA seen, c : add[c, seen], bs, links)
            children == ChildLinks(d, b)
            entities == IF TypeOf(d, b) = "bhkConstraint" THEN At(d, b).ptrs ELSE <<>>
            before == SelectSeq(children, LAMBDA c : ChildBeforeParent(d, c))
            after  == SelectSeq(children, LAMBDA c : ~ ChildBeforeParent(d, c))
        IN  IF Contains(blocks, b) THEN blocks
            ELSE all(Append(all(blocks, entities \o before), b), after)
  IN  add[root, newblocks]

NewBlocks(d) ==
  FoldLeft(LAMBDA blocks, root : AddTree(d, root, blocks), <<>>,
           RootLinks([b \in Numbers(d) |-> ChildLinks(d, b)]))

(* Mutant of ReorderBlocks: the numbers are mapped the other way.          *)
ReorderBlocksBack(d, newblocks) ==
  LET number[l \in Int] == IF l = -1 THEN -1 ELSE newblocks[l + 1]
      moved == MapLinks(d, number)
  IN  [i \in DOMAIN d |-> At(moved, newblocks[i])]

(* reorderBlocks, of the order that puts block newblocks[n] at number n.   *)
(* It refuses an order with a number twice, which the walk never makes of a*)
(* list of the right length: every block is below a root, so is listed.    *)
ReorderBlocks(d, newblocks) ==
  LET number[l \in Int] == IF l = -1 THEN -1 ELSE (CHOOSE i \in DOMAIN newblocks : newblocks[i] = l) - 1
      moved == MapLinks(d, number)
  IN  [i \in DOMAIN d |-> At(moved, newblocks[i])]

(* spSanitizeBlockOrder, which gives up unless it has as many numbers as   *)
(* there are blocks.                                                       *)
Ordered(d) == IF Len(NewBlocks(d)) = Len(d) THEN ReorderBlocks(d, NewBlocks(d)) ELSE d

----------------------------------------------------------------------------
(* Optimizing.                                                             *)

(* What saveIndex writes of a block that may be combined.                  *)
SavedAs(block) ==
  [type |-> block.type, links |-> block.kids,
   name |-> IF block.type = "NiMaterialProperty" THEN Plain[block.name] ELSE block.name]

(* The blocks a round of spCombiProps removes, each with the one it takes  *)
(* for it.                                                                 *)
CombineMap(d) ==
  LET Same(x, y) == At(d, x).type \in Combinable /\ SavedAs(At(d, x)) = SavedAs(At(d, y))
      doubles == {y \in Numbers(d) : \E x \in 0 .. y - 1 : Same(x, y)}
  IN  [y \in doubles |-> Min({x \in Numbers(d) : Same(x, y)})]

(* Mutant of RemoveAll: the lowest number first.                           *)
RemoveAllUpwards(d, numbers) ==
  LET remove[n \in Nat, e \in Seq(Block)] ==
        IF n = Len(d) THEN e
        ELSE remove[n + 1, IF n \in numbers /\ n < Len(e) THEN RemoveNiBlock(e, n) ELSE e]
  IN  remove[0, d]

(* The highest number first, so that the others stay what they are.        *)
RemoveAll(d, numbers) ==
  LET remove[n \in Int, e \in Seq(Block)] ==
        IF n < 0 THEN e ELSE remove[n - 1, IF n \in numbers THEN RemoveNiBlock(e, n) ELSE e]
  IN  remove[Len(d) - 1, d]

CombinedRound(d) ==
  LET map == CombineMap(d)
  IN  RemoveAll(MapLinks(d, [l \in Int |-> IF l \in DOMAIN map THEN map[l] ELSE l]), DOMAIN map)

(* Mutant of Combined: one round only.                                     *)
CombinedOnce(d) == CombinedRound(d)

(* spCombiProps: until nothing is left to combine; properties may be equal *)
(* only after their textures have been combined.                           *)
Combined(d) ==
  LET combine[e \in Seq(Block)] == IF CombineMap(e) = <<>> THEN e ELSE combine[CombinedRound(e)]
  IN  combine[d]

(* A property copied to the end, and before it the textures it links to.   *)
WithCopy(d, l) ==
  LET textures == IF At(d, l).type # "NiTexturingProperty" THEN <<>>
                  ELSE SelectSeq(ChildLinks(d, l), LAMBDA k : TypeOf(d, k) = "NiSourceTexture")
      Copy(k, i) == [At(d, k) EXCEPT !.item = NewItem(d) + i]
      map(k) == IF Contains(textures, k) THEN Len(d) + (CHOOSE i \in DOMAIN textures : textures[i] = k) - 1 ELSE k
  IN  Append(d \o [i \in DOMAIN textures |-> Copy(textures[i], i)],
             [Copy(l, 0) EXCEPT !.kids = [r \in DOMAIN @ |-> map(@[r])]])

(* Mutant of Shared: any parent will do.                                   *)
SharedByNone(d, b, l) == TypeOf(d, l) \in Properties /\ b \notin Parents(d, l)

Shared(d, b, l) == TypeOf(d, l) \in Properties /\ Parent(d, l) # b

(* spUniqueProps: an object whose property has another first parent gets a *)
(* copy of its own.  The array is set when all its rows are done.          *)
Split(d) ==
  LET split[b \in Nat, r \in Nat, props \in Seq(Int), e \in Seq(Block)] ==
        IF b = Len(e) THEN e
        ELSE IF r > Len(props)
          THEN LET done == [e EXCEPT ![b + 1].props = props]
               IN  split[b + 1, 1, IF b + 1 = Len(e) THEN <<>> ELSE At(done, b + 1).props, done]
        ELSE IF Shared(e, b, props[r])
          THEN LET more == WithCopy(e, props[r]) IN split[b, r + 1, [props EXCEPT ![r] = Len(more) - 1], more]
        ELSE split[b, r + 1, props, e]
  IN  split[0, 1, At(d, 0).props, d]

(* Mutant of Bogus: links other than from parents are not looked for.      *)
BogusIfPointedTo(d, b) ==
  /\ TypeOf(d, b) = "NiNode" /\ ChildLinks(d, b) = <<>> /\ ParentLinks(d, b) = <<>>
  /\ Cardinality(Parents(d, b)) < 2

(* A node with no links, at most one parent, and no Ptr to it.             *)
Bogus(d, b) ==
  /\ TypeOf(d, b) = "NiNode" /\ ChildLinks(d, b) = <<>> /\ ParentLinks(d, b) = <<>>
  /\ Cardinality(Parents(d, b)) < 2
  /\ \A c \in Numbers(d) \ {b} : ~ Contains(ParentLinks(d, c), b)

(* spRemoveBogusNodes: the first one goes, until there is none.            *)
WithoutBogusNodes(d) ==
  LET remove[e \in Seq(Block)] ==
        LET bogus == {b \in Numbers(e) : Bogus(e, b)}
        IN  IF bogus = {} THEN e ELSE remove[RemoveNiBlock(e, Min(bogus))]
  IN  remove[d]

----------------------------------------------------------------------------
(* The spells.                                                             *)

Cast(name, d) ==
  /\ spell.left > 0
  /\ doc # <<>>
  /\ doc' = d
  /\ spell' = [name |-> name, left |-> spell.left - 1]

ReorderLinks       == Cast("Reorder Link Arrays", Reordered(doc))
SanitizeLinkArrays == Cast("Collapse Link Arrays", Collapsed(doc))
SanitizeBlockOrder == Cast("Reorder Blocks", Ordered(doc))
CombiProps         == Cast("Combine Properties", Combined(doc))
UniqueProps        == Cast("Split Properties", Split(doc))
RemoveBogusNodes   == Cast("Remove Bogus Nodes", WithoutBogusNodes(doc))

Init ==
  \E d \in Documents : doc = d.blocks /\ spell = [name |-> "Open", left |-> d.spells]

Next ==
  \/ ReorderLinks \/ SanitizeLinkArrays \/ SanitizeBlockOrder
  \/ CombiProps \/ UniqueProps \/ RemoveBogusNodes

Spec == Init /\ [][Next]_vars

----------------------------------------------------------------------------
(* What the properties say.                                                *)

(* What a link shows.  A property or a texture counts for what it says, any*)
(* other block for itself.                                                 *)
Shown(d, l) ==
  LET shown[k \in -1 .. Len(d) - 1] ==
        IF k = -1 THEN <<>>
        ELSE IF At(d, k).type \in Properties \cup Combinable
          THEN <<SavedAs(At(d, k)).type, SavedAs(At(d, k)).name, [r \in DOMAIN At(d, k).kids |-> shown[At(d, k).kids[r]]]>>
        ELSE <<At(d, k).item>>
  IN  shown[l]

(* What an array of links shows, in whatever order and with whatever empty *)
(* rows.                                                                   *)
ShownBy(d, links) ==
  LET full == Pruned(links)
      shown == {Shown(d, full[r]) : r \in DOMAIN full}
  IN  [x \in shown |-> Cardinality({r \in DOMAIN full : Shown(d, full[r]) = x})]

IsPlace(d, b) == At(d, b).type \notin Properties \cup Combinable

ItemsIn(d, links) == LET full == Pruned(links) IN [r \in DOMAIN full |-> At(d, full[r]).item]

(* A spell that reorders, combines or splits changes nothing of what the   *)
(* file shows: all blocks but properties and textures are still there, and *)
(* each has the same children, the same entities and the same properties   *)
(* by what they say (sanitize.cpp, spCombiProps, spUniqueProps).           *)
ContentKept ==
  [][spell'.name # "Remove Bogus Nodes" =>
       /\ {At(doc, b).item : b \in {c \in Numbers(doc) : IsPlace(doc, c)}}
            = {At(doc', b).item : b \in {c \in Numbers(doc') : IsPlace(doc', c)}}
       /\ \A b \in Numbers(doc), c \in Numbers(doc') :
            (IsPlace(doc, b) /\ At(doc, b).item = At(doc', c).item) =>
              /\ ShownBy(doc', At(doc', c).kids) = ShownBy(doc, At(doc, b).kids)
              /\ ShownBy(doc', At(doc', c).props) = ShownBy(doc, At(doc, b).props)
              /\ ShownBy(doc', At(doc', c).ptrs) = ShownBy(doc, At(doc, b).ptrs)]_vars

(* spCombiProps leaves no two properties or textures that say the same,    *)
(* shared or not, before or after their textures were combined.            *)
PropertiesCombined ==
  [][spell'.name = "Combine Properties" =>
       \A b, c \in Numbers(doc') :
         At(doc', b).type \in Combinable /\ Shown(doc', b) = Shown(doc', c) => b = c]_vars

(* spUniqueProps leaves no property in the arrays of two objects.          *)
PropertiesSplit ==
  [][spell'.name = "Split Properties" =>
       \A b, c \in Numbers(doc') :
         \A l \in ToSet(At(doc', b).props) \cap ToSet(At(doc', c).props) :
           TypeOf(doc', l) \in Properties => b = c]_vars

(* spRemoveBogusNodes removes the nodes that are empty, or hold nothing but*)
(* such nodes, as far as nothing else links to them; it removes nothing    *)
(* else, and keeps every link to what stays.                               *)
BogusNodesGone ==
  [][spell'.name = "Remove Bogus Nodes" =>
       LET Wanted(b) == \/ ParentLinks(doc, b) # <<>> \/ Cardinality(Parents(doc, b)) > 1
                        \/ \E c \in Numbers(doc) : Contains(ParentLinks(doc, c), b)
           bogus[b \in Numbers(doc)] ==
             /\ TypeOf(doc, b) = "NiNode" /\ ~ Wanted(b)
             /\ \A c \in ToSet(ChildLinks(doc, b)) : bogus[c]
           stay == {b \in Numbers(doc) : ~ bogus[b]}
       IN  /\ Items(doc') = {At(doc, b).item : b \in stay}
           /\ \A b \in stay, c \in Numbers(doc') :
                At(doc, b).item = At(doc', c).item =>
                  /\ ItemsIn(doc', At(doc', c).kids) = ItemsIn(doc, SelectSeq(At(doc, b).kids, LAMBDA l : l \in stay))
                  /\ ItemsIn(doc', At(doc', c).ptrs) = ItemsIn(doc, At(doc, b).ptrs)]_vars

(* spSanitizeBlockOrder brings a file whose constraints are each in the    *)
(* list of one body, with both entities, in order: shapes and bodies before*)
(* all that link to them, entities before their constraint, any other block*)
(* after a block that links to it.                                         *)
BlocksInOrder ==
  [][spell'.name = "Reorder Blocks" =>
       LET Single(b) == Cardinality(Parents(doc, b)) < 2 /\ ~ Contains(At(doc, b).ptrs, -1)
       IN  (\A b \in Numbers(doc) : TypeOf(doc, b) = "bhkConstraint" => Single(b)) =>
             \A b \in Numbers(doc') :
               /\ ChildBeforeParent(doc', b) => \A p \in Parents(doc', b) : b < p
               /\ ~ ChildBeforeParent(doc', b) /\ Parents(doc', b) # {} => Parent(doc', b) < b
               /\ TypeOf(doc', b) = "bhkConstraint" => \A e \in ToSet(At(doc', b).ptrs) : e < b]_vars
=============================================================================
