------------------------------ MODULE Branches ------------------------------
(***************************************************************************)
(* The spells that work on a block and everything below it                 *)
(* (spells/blocks.cpp): copy, paste, duplicate, remove, crop, flatten,     *)
(* attach a parent, sort children.  They find blocks by number, while the  *)
(* steps they are made of renumber the blocks.                             *)
(*                                                                         *)
(* A document is the sequence of its blocks; block number b is doc[b + 1]. *)
(* A node has a name, the links of its Children array and the link to its  *)
(* first controller; a controller has the link to the next one and the Ptr *)
(* to its target.  One type of controller has Ptrs to more targets, another*)
(* manages sequences and has a palette, the names and Ptrs of nodes; a     *)
(* sequence names nodes and links to the controller of each.  The link     *)
(* caches are those of an acyclic document: what spells do to one with     *)
(* recursive links is not followed.                                        *)
(***************************************************************************)
EXTENDS LinkGraph

CONSTANTS Names,      \* of nodes, in order; the first is no name
          Documents   \* what may be open at first, and two bounds: the spells to cast
                      \* on it, and the blocks it may come to have

VARIABLES doc,
          clip,    \* what CopyBranch left on the clipboard, or <<>>
          copied,  \* history: the shape of that branch
          made,    \* history: the blocks ever made; the next one gets this identity
          spell    \* the last spell, the block it was cast on, and the bounds

vars == <<doc, clip, copied, made, spell>>

NoName == Names[1]
Multi    == "NiMultiTargetTransformController"
Manager  == "NiControllerManager"
Sequence == "NiControllerSequence"
Palette  == "NiDefaultAVObjectPalette"
Controllers == {"NiTimeController", Multi, Manager}
Types == {"NiNode", Sequence, Palette} \cup Controllers

(* item is the identity of the block; data stands for its other fields.    *)
(* kids are the Children of a node, the Controller Sequences of a manager, *)
(* the Controller of each of the Controlled Blocks of a sequence; target   *)
(* is also the Manager of a sequence, and ptrs are the Extra Targets, or   *)
(* the AV Objects of a palette.  nodes are the names of a palette's Objs,  *)
(* and the Accum Root Name of a sequence and then its Node Names.          *)
Block == [item : Nat, data : Nat, type : Types, name : Range(Names), ctrl : Int, kids : Seq(Int),
          palette : Int, target : Int, ptrs : Seq(Int), nodes : Seq(Range(Names))]

NewBlock(item, type) ==
  [item |-> item, data |-> item, type |-> type, name |-> NoName, ctrl |-> -1, kids |-> <<>>,
   palette |-> -1, target |-> -1, ptrs |-> <<>>, nodes |-> <<>>]

At(d, b) == d[b + 1]
Numbers(d) == 0 .. Len(d) - 1
IsNode(d, b) == At(d, b).type = "NiNode"
IsController(d, b) == At(d, b).type \in Controllers
Items(d) == {d[i].item : i \in DOMAIN d}
NumberOf(d, item) == CHOOSE b \in Numbers(d) : At(d, b).item = item

ChildLinks(d, b) == CollectLinks(<<At(d, b).ctrl>> \o At(d, b).kids \o <<At(d, b).palette>>)
ParentLinks(d, b) == CollectLinks(<<At(d, b).target>> \o At(d, b).ptrs)

(* getParent: of the blocks that link to it, the first in the file.        *)
Parent(d, b) ==
  LET parents == {p \in Numbers(d) : Contains(ChildLinks(d, p), b)}
  IN  IF parents = {} THEN -1 ELSE Min(parents)

MapBlock(block, number) ==
  LET Mapped(links) == [r \in DOMAIN links |-> number[links[r]]]
  IN  [block EXCEPT !.ctrl = number[@], !.kids = Mapped(@), !.palette = number[@],
                    !.target = number[@], !.ptrs = Mapped(@)]

MapLinks(d, number) == [i \in DOMAIN d |-> MapBlock(d[i], number)]

InsertNiBlock(d, block, b) ==
  InsertAt(MapLinks(d, [l \in Int |-> IF l >= b THEN l + 1 ELSE l]), b + 1, block)

RemoveNiBlock(d, b) ==
  RemoveAt(MapLinks(d, [l \in Int |-> IF l = b THEN -1 ELSE IF l > b THEN l - 1 ELSE l]), b + 1)

MoveNiBlock(d, src, dst) ==
  LET number[l \in Int] == IF l = src THEN dst
                   ELSE IF src < dst /\ l \in src .. dst THEN l - 1
                   ELSE IF dst < src /\ l \in dst .. src THEN l + 1
                   ELSE l
  IN  MapLinks(InsertAt(RemoveAt(d, src + 1), dst + 1, At(d, src)), number)

(* addLink to and delLink from the array of Children.                      *)
AddLink(d, b, l) == [d EXCEPT ![b + 1].kids = Append(@, l)]
DelLink(d, b, l) == [d EXCEPT ![b + 1].kids = SelectSeq(@, LAMBDA k : k # l)]

(* Mutant of BlockLink: a controller that is there is not asked for its    *)
(* next one.                                                               *)
BlockLinkFirst(d, b, l) ==
  IF IsNode(d, b) /\ IsNode(d, l) THEN AddLink(d, b, l)
  ELSE IF ~ IsController(d, l) \/ ~ (IsNode(d, b) \/ IsController(d, b)) THEN d
  ELSE [d EXCEPT ![b + 1].ctrl = l, ![l + 1].target = IF IsNode(d, b) THEN b ELSE At(d, b).target]

(* blockLink: block l becomes a child of block b.  The link to block 0     *)
(* counts as none.                                                         *)
BlockLink(d, b, l) ==
  LET last[c \in Numbers(d)] == IF At(d, c).ctrl > 0 THEN last[At(d, c).ctrl] ELSE c
  IN  IF IsNode(d, b) /\ IsNode(d, l) THEN AddLink(d, b, l)
      ELSE IF ~ IsController(d, l) \/ ~ (IsNode(d, b) \/ IsController(d, b)) THEN d
      ELSE LET c == last[b]
           IN  [d EXCEPT ![c + 1].ctrl = l, ![l + 1].target = IF IsNode(d, c) THEN c ELSE At(d, c).target]

----------------------------------------------------------------------------
(* Copy and paste.                                                         *)

(* populateBlocks: a block, then what is below it, each block once.        *)
Populate(d, root) ==
  LET visit[b \in Nat, blocks \in Seq(Nat)] ==
        FoldLeft(LAMBDA seen, c : visit[c, seen], IF Contains(blocks, b) THEN blocks ELSE Append(blocks, b),
                 ChildLinks(d, b))
  IN  visit[root, <<>>]

Below(d, b) == ToSet(Populate(d, b))

(* The Ptrs of a branch that lead out of it, and whether their blocks have *)
(* names to be found by.                                                   *)
Outside(d, blocks) == (UNION {ToSet(ParentLinks(d, b)) : b \in ToSet(blocks)}) \ ToSet(blocks)
Named(d, S) == \A p \in S : At(d, p).name # NoName

Copied(d, blocks) ==
  [blocks  |-> [i \in DOMAIN blocks |-> At(d, blocks[i])],
   numbers |-> blocks,
   parents |-> [p \in Outside(d, blocks) |-> [type |-> At(d, p).type, name |-> At(d, p).name]]]

(* getBlockByName: the first block of the type and the name.               *)
BlockByName(d, tn) ==
  LET named == {b \in Numbers(d) : At(d, b).type = tn.type /\ At(d, b).name = tn.name}
  IN  IF named = {} THEN -1 ELSE Min(named)

Position(c, l) == CHOOSE i \in DOMAIN c.numbers : c.numbers[i] = l

(* Mutant of Pasted: the numbers of the copied blocks are not moved behind *)
(* the blocks of the document.                                             *)
PastedAtNumbers(d, c, parents, first) ==
  LET number[l \in Int] == IF l \in DOMAIN parents THEN parents[l]
                   ELSE IF Contains(c.numbers, l) THEN Position(c, l) - 1
                   ELSE l
  IN  d \o [i \in DOMAIN c.blocks |-> [MapBlock(c.blocks[i], number) EXCEPT !.item = first + i - 1]]

(* Mutant of Pasted: Ptrs that lead out of the branch keep their numbers.  *)
PastedPointing(d, c, parents, first) ==
  LET number[l \in Int] == IF Contains(c.numbers, l) THEN Len(d) + Position(c, l) - 1 ELSE l
  IN  d \o [i \in DOMAIN c.blocks |-> [MapBlock(c.blocks[i], number) EXCEPT !.item = first + i - 1]]

(* insertNiBlock at the end and loadAndMapLinks of every copied block;     *)
(* parents maps the numbers Ptrs lead to outside the branch.               *)
Pasted(d, c, parents, first) ==
  LET number[l \in Int] == IF l \in DOMAIN parents THEN parents[l]
                   ELSE IF Contains(c.numbers, l) THEN Len(d) + Position(c, l) - 1
                   ELSE l
  IN  d \o [i \in DOMAIN c.blocks |-> [MapBlock(c.blocks[i], number) EXCEPT !.item = first + i - 1]]

(* What a branch is, whatever the numbers of its blocks: trees of blocks.  *)
(* A Ptr is the block in the branch, or what Outer says of a block outside;*)
(* the target of a controller the branch starts with is not part of it.    *)
Shape(d, root, Outer(_)) ==
  LET branch == Below(d, root)
      Seen(l) == IF l = -1 THEN <<>> ELSE IF l \in branch THEN <<At(d, l).data>> ELSE Outer(l)
      shape[b \in Numbers(d)] ==
        LET Sub(l) == IF l = -1 THEN <<>> ELSE <<shape[l]>>
        IN  [data |-> At(d, b).data, type |-> At(d, b).type, name |-> At(d, b).name, nodes |-> At(d, b).nodes,
             ctrl |-> Sub(At(d, b).ctrl), palette |-> Sub(At(d, b).palette),
             kids |-> [r \in DOMAIN At(d, b).kids |-> Sub(At(d, b).kids[r])],
             target |-> IF b = root THEN <<>> ELSE Seen(At(d, b).target),
             ptrs |-> [r \in DOMAIN At(d, b).ptrs |-> Seen(At(d, b).ptrs[r])]]
  IN  shape[root]

(* A block by its type and name, and for a paste block 0 by its number.    *)
ByName(d, l) == <<At(d, l).type, At(d, l).name>>
ForPaste(d, l) == IF l = 0 THEN <<0, 0, 0>> ELSE ByName(d, l)

----------------------------------------------------------------------------
(* Removing.                                                               *)

(* Mutant of RemoveChildren: every child goes, whoever else links to it.   *)
RemoveAllChildren(d, item) ==
  LET remove[e \in Seq(Block), i \in Nat] ==
        LET kids == ChildLinks(e, NumberOf(e, i))
        IN  IF kids = <<>> THEN e
            ELSE LET child == At(e, kids[1]).item
                     emptied == remove[e, child]
                 IN  remove[RemoveNiBlock(emptied, NumberOf(emptied, child)), i]
  IN  remove[d, item]

(* removeChildren: the children whose first parent the block is, and what  *)
(* is below them by the same rule.  A first round empties the children, a  *)
(* second removes them; both look anew at the numbers and the parents.     *)
RemoveChildren(d, item) ==
  LET Owned(e, i, child) ==
        child \in Items(e) /\ Parent(e, NumberOf(e, child)) = NumberOf(e, i)
      remove[e \in Seq(Block), i \in Nat] ==
        LET links == ChildLinks(e, NumberOf(e, i))
            children == [k \in DOMAIN links |-> At(e, links[k]).item]
            empty[k \in Nat, f \in Seq(Block)] ==
              IF k > Len(children) THEN f
              ELSE empty[k + 1, IF Owned(f, i, children[k]) THEN remove[f, children[k]] ELSE f]
            clear[k \in Nat, f \in Seq(Block)] ==
              IF k > Len(children) THEN f
              ELSE clear[k + 1, IF Owned(f, i, children[k]) THEN RemoveNiBlock(f, NumberOf(f, children[k])) ELSE f]
        IN  clear[1, empty[1, e]]
  IN  remove[d, item]

RemovedBranch(d, b) ==
  LET item == At(d, b).item
      emptied == RemoveChildren(d, item)
  IN  RemoveNiBlock(emptied, NumberOf(emptied, item))

(* Mutant of Cropped: the numbers are those of the shrinking document.     *)
CroppedByNewNumber(d, b) ==
  LET branch == Below(d, b)
      crop[n \in Nat, e \in Seq(Block)] ==
        IF n >= Len(e) THEN e
        ELSE IF n \in branch THEN crop[n + 1, e]
        ELSE crop[n, RemoveNiBlock(e, n)]
  IN  crop[0, d]

(* CropToBranch: n numbers the document as it shrinks, m as it was.        *)
Cropped(d, b) ==
  LET branch == Below(d, b)
      crop[n \in Nat, m \in Nat, e \in Seq(Block)] ==
        IF n >= Len(e) THEN e
        ELSE IF m \in branch THEN crop[n + 1, m + 1, e]
        ELSE crop[n, m + 1, RemoveNiBlock(e, n)]
  IN  crop[0, 0, d]

(* RemoveBlocksById, for an expression that matches one type.              *)
RemovedType(d, type) ==
  LET remove[n \in Nat, e \in Seq(Block)] ==
        IF n >= Len(e) THEN e
        ELSE IF At(e, n).type = type THEN remove[n, RemoveNiBlock(e, n)]
        ELSE remove[n + 1, e]
  IN  remove[0, d]

----------------------------------------------------------------------------
(* Rearranging.                                                            *)

(* doNode of FlattenBranch: the children of a node, and of the nodes among *)
(* them, move to the parent, if the node is their first parent.            *)
Flattened(d, node, parent) ==
  LET flatten[b \in Nat, e \in Seq(Block)] ==
        LET links == At(e, b).kids
            move[r \in Nat, f \in Seq(Block), moved \in Seq(Int)] ==
              IF r > Len(links) THEN [doc |-> f, moved |-> moved]
              ELSE IF links[r] >= 0 /\ Parent(f, links[r]) = b
                THEN move[r + 1, DelLink(AddLink(f, parent, links[r]), b, links[r]), Append(moved, links[r])]
              ELSE move[r + 1, f, moved]
            result == move[1, e, <<>>]
            deeper[k \in Nat, f \in Seq(Block)] ==
              IF k > Len(result.moved) THEN f
              ELSE deeper[k + 1, IF IsNode(f, result.moved[k]) THEN flatten[result.moved[k], f] ELSE f]
        IN  deeper[1, result.doc]
  IN  flatten[node, d]

(* Mutant of Attached: the block is not attached to the new node.          *)
AttachedAlone(d, b, item) ==
  LET parent == Parent(d, b)
      row == IF parent = -1 \/ ~ IsNode(d, parent) \/ ~ Contains(At(d, parent).kids, b) THEN 0
             ELSE CHOOSE r \in DOMAIN At(d, parent).kids :
                    At(d, parent).kids[r] = b /\ \A s \in 1 .. r - 1 : At(d, parent).kids[s] # b
      shifted == InsertNiBlock(d, NewBlock(item, "NiNode"), b)
      above == IF parent >= b THEN parent + 1 ELSE parent
      linked == IF row = 0 THEN shifted ELSE [shifted EXCEPT ![above + 1].kids[row] = b]
  IN  linked

(* AttachParentNode: a new node takes the block's number and its place in  *)
(* its parent's Children.                                                  *)
Attached(d, b, item) ==
  LET parent == Parent(d, b)
      row == IF parent = -1 \/ ~ IsNode(d, parent) \/ ~ Contains(At(d, parent).kids, b) THEN 0
             ELSE CHOOSE r \in DOMAIN At(d, parent).kids :
                    At(d, parent).kids[r] = b /\ \A s \in 1 .. r - 1 : At(d, parent).kids[s] # b
      shifted == InsertNiBlock(d, NewBlock(item, "NiNode"), b)
      above == IF parent >= b THEN parent + 1 ELSE parent
      linked == IF row = 0 THEN shifted ELSE [shifted EXCEPT ![above + 1].kids[row] = b]
  IN  AddLink(linked, b, b + 1)

(* SortBlockNames of a node: its children by name, then by number, and no  *)
(* empty rows unless there are no others.                                  *)
Sorted(d, b) ==
  LET links == SelectSeq(At(d, b).kids, LAMBDA l : l >= 0)
      Rank(l) == CHOOSE i \in DOMAIN Names : Names[i] = At(d, l).name
      Before(k, l) == Rank(k) < Rank(l) \/ (Rank(k) = Rank(l) /\ k < l)
  IN  IF links = <<>> \/ ~ IsNode(d, b) THEN d ELSE [d EXCEPT ![b + 1].kids = SortSeq(links, Before)]

----------------------------------------------------------------------------
(* The spells.                                                             *)

(* Links that run in a circle.                                             *)
Recursive(d) ==
  LET links == [b \in Numbers(d) |-> ChildLinks(d, b)] IN CheckLinks(links) # links

(* Bound: what spells do to a document with recursive links is not         *)
(* followed.                                                               *)
Cast(name, b, d) ==
  /\ Len(d) <= spell.most
  /\ doc' = d
  /\ spell' = [name |-> name, block |-> b, left |-> IF Recursive(d) THEN 0 ELSE spell.left - 1, most |-> spell.most]

InsertBlock(type, b) ==
  /\ Cast("Insert", b, InsertNiBlock(doc, NewBlock(made, type), b))
  /\ made' = made + 1
  /\ UNCHANGED <<clip, copied>>

RemoveBlock(b) ==
  /\ Cast("Remove", b, RemoveNiBlock(doc, b))
  /\ UNCHANGED <<clip, copied, made>>

RemoveById(type) ==
  /\ Cast("RemoveById", -1, RemovedType(doc, type))
  /\ UNCHANGED <<clip, copied, made>>

MoveUp(b) ==
  /\ b > 0
  /\ Cast("Move", b, MoveNiBlock(doc, b, b - 1))
  /\ UNCHANGED <<clip, copied, made>>

MoveDown(b) ==
  /\ b < Len(doc) - 1
  /\ Cast("Move", b, MoveNiBlock(doc, b, b + 1))
  /\ UNCHANGED <<clip, copied, made>>

(* The new node comes behind the block it is attached to.                  *)
AttachNode(b) ==
  /\ IsNode(doc, b)
  /\ Cast("Attach", b, AddLink(InsertNiBlock(doc, NewBlock(made, "NiNode"), b + 1), b, b + 1))
  /\ made' = made + 1
  /\ UNCHANGED <<clip, copied>>

(* AddNewRef on the link to a controller: the target is the block, or for  *)
(* the next controller the target of this one.                             *)
AddController(b) ==
  LET inserted == InsertNiBlock(doc, NewBlock(made, "NiTimeController"), b + 1)
      target == IF IsNode(doc, b) THEN b ELSE At(inserted, b).target
  IN  /\ IsNode(doc, b) \/ IsController(doc, b)
      /\ At(doc, b).ctrl = -1
      /\ Cast("Attach", b, [inserted EXCEPT ![b + 1].ctrl = b + 1, ![b + 2].target = target])
      /\ made' = made + 1
      /\ UNCHANGED <<clip, copied>>

(* It fails, and nothing happens, unless the blocks outside have names.    *)
CopyBranch(b) ==
  LET blocks == Populate(doc, b)
  IN  /\ Named(doc, Outside(doc, blocks))
      /\ clip' = Copied(doc, blocks)
      /\ copied' = Shape(doc, b, LAMBDA l : ForPaste(doc, l))
      /\ Cast("CopyBranch", b, doc)
      /\ UNCHANGED made

(* It fails unless the blocks outside are found; block 0 need not be, and  *)
(* will not do for another.  b is -1 for a paste at the end.               *)
PasteBranch(b) ==
  LET parents == [p \in DOMAIN clip.parents |-> IF p = 0 THEN 0 ELSE BlockByName(doc, clip.parents[p])]
      pasted == Pasted(doc, clip, parents, made)
  IN  /\ clip # <<>>
      /\ \A p \in DOMAIN parents : p = 0 \/ parents[p] > 0
      /\ Cast("PasteBranch", b, IF b = -1 THEN pasted ELSE BlockLink(pasted, b, Len(doc)))
      /\ made' = made + Len(clip.blocks)
      /\ UNCHANGED <<clip, copied>>

(* All in one, and linked to the block's first parent.                     *)
DuplicateBranch(b) ==
  LET blocks == Populate(doc, b)
      copy == Copied(doc, blocks)
      pasted == Pasted(doc, copy, [p \in DOMAIN copy.parents |-> BlockByName(doc, copy.parents[p])], made)
  IN  /\ Named(doc, Outside(doc, blocks))
      /\ Cast("DuplicateBranch", b, IF Parent(pasted, b) = -1 THEN pasted
                                    ELSE BlockLink(pasted, Parent(pasted, b), Len(doc)))
      /\ made' = made + Len(blocks)
      /\ UNCHANGED <<clip, copied>>

(* The copy of the block links to what the block links to.                 *)
DuplicateBlock(b) ==
  LET pasted == Append(doc, [At(doc, b) EXCEPT !.item = made])
  IN  /\ Cast("DuplicateBlock", b, IF Parent(pasted, b) = -1 THEN pasted
                                   ELSE BlockLink(pasted, Parent(pasted, b), Len(doc)))
      /\ made' = made + 1
      /\ UNCHANGED <<clip, copied>>

RemoveBranch(b) ==
  /\ Cast("RemoveBranch", b, RemovedBranch(doc, b))
  /\ UNCHANGED <<clip, copied, made>>

CropToBranch(b) ==
  /\ Cast("CropToBranch", b, Cropped(doc, b))
  /\ UNCHANGED <<clip, copied, made>>

FlattenBranch(b) ==
  /\ IsNode(doc, b)
  /\ Parent(doc, b) # -1 /\ IsNode(doc, Parent(doc, b))
  /\ Cast("Rearrange", b, Flattened(doc, b, Parent(doc, b)))
  /\ UNCHANGED <<clip, copied, made>>

AttachParentNode(b) ==
  /\ Cast("Rearrange", b, Attached(doc, b, made))
  /\ made' = made + 1
  /\ UNCHANGED <<clip, copied>>

SortBlockNames(b) ==
  /\ Cast("Rearrange", b, Sorted(doc, b))
  /\ UNCHANGED <<clip, copied, made>>

Init ==
  /\ \E d \in Documents :
       /\ doc = d.blocks
       /\ spell = [name |-> "Open", block |-> -1, left |-> d.spells, most |-> d.room]
  /\ clip = <<>> /\ copied = <<>>
  /\ made = Len(doc)

(* Bound: the types inserted, and removed by type.                         *)
PlainTypes == {"NiNode", "NiTimeController"}

Next ==
  /\ spell.left > 0
  /\ \/ \E b \in Numbers(doc) :
          \/ RemoveBlock(b) \/ MoveUp(b) \/ MoveDown(b) \/ AddController(b)
          \/ CopyBranch(b) \/ DuplicateBranch(b) \/ DuplicateBlock(b)
          \/ RemoveBranch(b) \/ CropToBranch(b) \/ FlattenBranch(b) \/ SortBlockNames(b)
          \/ AttachNode(b) \/ AttachParentNode(b)
     \/ \E type \in PlainTypes, b \in 0 .. Len(doc) : InsertBlock(type, b)
     \/ \E b \in -1 .. Len(doc) - 1 : PasteBranch(b)
     \/ \E type \in PlainTypes : RemoveById(type)

Spec == Init /\ [][Next]_vars

----------------------------------------------------------------------------
(* What the properties say.                                                *)

Root(d, b) == Parent(d, b) = -1
ItemsBelow(d, b) == {At(d, c).item : c \in Below(d, b)}

(* The block a link field leads to, whatever its number.                   *)
ItemAt(d, l) == IF l = -1 THEN -1 ELSE At(d, l).item

(* No link names a block that is not there, and blocks have the links of   *)
(* their type.                                                             *)
WellFormed(d) ==
  \A i \in DOMAIN d :
    /\ {d[i].ctrl, d[i].palette, d[i].target} \cup ToSet(d[i].kids) \cup ToSet(d[i].ptrs) \subseteq -1 .. Len(d) - 1
    /\ d[i].type = "NiNode" => d[i].target = -1
    /\ d[i].type # "NiNode" => d[i].name = NoName
    /\ d[i].type \in {"NiTimeController", Multi} => d[i].kids = <<>>
    /\ d[i].ctrl # -1 => IsController(d, d[i].ctrl)

(* A pasted or duplicated branch is the branch that was copied: the same   *)
(* blocks linked in the same way, however the blocks are numbered now.  A  *)
(* Ptr out of it leads to a block of the same type and name, or if it led  *)
(* to block 0 again to block 0; which in an empty document is the branch's *)
(* own (CopyBranch, PasteBranch, DuplicateBranch, loadAndMapLinks).        *)
BranchCopied ==
  [][/\ spell'.name = "PasteBranch" /\ doc # <<>> => Shape(doc', Len(doc), LAMBDA l : ForPaste(doc', l)) = copied
     /\ spell'.name = "DuplicateBranch" => Shape(doc', Len(doc), LAMBDA l : ByName(doc', l)) = Shape(doc, spell'.block, LAMBDA l : ByName(doc, l))]_vars

(* RemoveBranch takes the block, and of the blocks below it those whose    *)
(* first parents in the file lead up to it, in the document as it was      *)
(* however the file is renumbered meanwhile.  So nobody who stays is left  *)
(* without a parent (removeChildren).  CropToBranch leaves exactly the     *)
(* block and all that is below it.                                         *)
BranchRemoved ==
  [][/\ spell'.name = "CropToBranch" => Items(doc') = ItemsBelow(doc, spell'.block)
     /\ spell'.name = "RemoveBranch" =>
       LET led[b \in Numbers(doc)] == b = spell'.block \/ (Parent(doc, b) # -1 /\ led[Parent(doc, b)])
       IN  /\ Items(doc') = {At(doc, b).item : b \in {c \in Numbers(doc) : ~ led[c]}}
           /\ \A b \in Numbers(doc') : Root(doc', b) => Root(doc, NumberOf(doc, At(doc', b).item))]_vars

(* A controller and those that follow it.                                  *)
ChainFrom(d, first) ==
  LET chain[c \in Numbers(d)] == {c} \cup IF At(d, c).ctrl = -1 THEN {} ELSE chain[At(d, c).ctrl]
  IN  chain[first]

(* Whatever a spell inserts, removes, pastes, moves or attaches, the links *)
(* between the blocks that stay lead where they led; only rows that led    *)
(* nowhere are filled, the link to a controller that is block 0, and the   *)
(* link to a chain of controllers that new ones were put in front of.      *)
LinksKept ==
  [][spell'.name # "Rearrange" =>
       \A b \in Numbers(doc), c \in Numbers(doc') :
         At(doc, b).item = At(doc', c).item =>
           LET Kept(l, m) == l >= 0 /\ At(doc, l).item \in Items(doc') => ItemAt(doc', m) = ItemAt(doc, l)
               old == At(doc, b)
               new == At(doc', c)
           IN  /\ Kept(old.target, new.target)
               /\ Kept(old.palette, new.palette)
               /\ IF spell'.name = "AttachKf"
                  THEN old.ctrl # -1 => NumberOf(doc', ItemAt(doc, old.ctrl)) \in ChainFrom(doc', new.ctrl)
                  ELSE old.ctrl # 0 => Kept(old.ctrl, new.ctrl)
               /\ \A r \in DOMAIN old.ptrs : Kept(old.ptrs[r], new.ptrs[r])
               /\ \A r \in DOMAIN old.kids : Kept(old.kids[r], new.kids[r])]_vars

(* Flattening, attaching a parent and sorting lose no block: every block   *)
(* stays below a root it was below, though a node two parents share may be *)
(* flattened for one of them only.                                         *)
BlocksKeepARoot ==
  [][spell'.name = "Rearrange" =>
       \A item \in Items(doc) : \E b \in Numbers(doc) :
         /\ Root(doc, b) /\ item \in ItemsBelow(doc, b)
         /\ item \in ItemsBelow(doc', NumberOf(doc', At(doc, b).item))]_vars

(* Recursive links, which checkLinks warns of, are not what a spell makes. *)
(* One exception is a controller that another one follows: its copy is put *)
(* behind the last of the chain, and leads back into it (DuplicateBlock,   *)
(* blockLink).  The other is a manager for which a multi-target controller *)
(* was put in front of it, or was there: it leads to its sequences, they to *)
(* that controller, and that to the manager (AttachKf).                    *)
NoRecursiveLinks ==
  [][Recursive(doc') =>
       \/ /\ spell'.name = "DuplicateBlock"
          /\ IsController(doc, spell'.block) /\ At(doc, spell'.block).ctrl # -1
       \/ /\ spell'.name = "AttachKf"
          /\ \E c \in Numbers(doc') :
               /\ At(doc', c).type = Multi
               /\ \E m \in ChainFrom(doc', c) : At(doc', m).type = Manager /\ At(doc', m).item \in Items(doc)]_vars
=============================================================================
