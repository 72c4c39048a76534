------------------------------ MODULE NifBlocks ------------------------------
(***************************************************************************)
(* The block list of NifModel and everything that has to follow it: the    *)
(* numbers in the link fields, the link caches, the header's block table,  *)
(* the footer's roots, and the updates a spell may hold back.              *)
(*                                                                         *)
(* root holds the header, the blocks and the footer; block number b is the *)
(* child b + 1 of root.  By its type a block has a Ptr field, a "Children" *)
(* array of Ref rows whose size field "Num Children" is a field of its own,*)
(* both or neither.                                                        *)
(***************************************************************************)
EXTENDS LinkGraph

CONSTANTS
  Obj,         \* the NifItems that can be blocks; a removed one may come back as a new block
  Type,        \* the block types
  ArrayTypes,  \* the types that have the Children array
  PtrTypes,    \* the types that have the Ptr field
  MaxKids,     \* bound: the most rows of a Children array
  MaxLink,     \* bound: the largest number a link field holds
  BlockSizes,  \* the version stores block sizes in the header (>= 20.2.0.0)
  LooseCounts, \* the user edits size fields without updating the array
  Holds,       \* spells hold updates back
  Files        \* what a load may find: see FileOK

Field == 0 .. MaxKids   \* field 0 is the Ptr, field r >= 1 is row r of Children
Rows == 1 .. MaxKids
Link == -1 .. MaxLink   \* -1 is the null link
NoLinks == [f \in Field |-> -1]

\* A block's items: its type, its size field, the rows its array has, its links.
Items == [type : Type, num : 0 .. MaxKids, rows : 0 .. MaxKids, link : [Field -> Link]]

\* The one representation of an item: no rows beyond the array, no array without the type.
ItemOK(i) ==
  /\ i \in Items
  /\ \A r \in Rows : r > i.rows => i.link[r] = -1
  /\ i.type \notin ArrayTypes => i.num = 0 /\ i.rows = 0
  /\ i.type \notin PtrTypes => i.link[0] = -1

\* A block with nothing set; also what `item` says of an object that is no block.
NewItem(t) == [type |-> t, num |-> 0, rows |-> 0, link |-> NoLinks]
NoItem == NewItem(CHOOSE t \in Type : TRUE)

\* A file: its blocks in order and the roots its footer lists, whatever they are.
FileOK(file) ==
  /\ file.count \in 0 .. MaxLink + 1   \* every block number is a link value
  /\ file.block \in [0 .. file.count - 1 -> Obj]
  /\ \A b, c \in 0 .. file.count - 1 : file.block[b] = file.block[c] => b = c
  /\ file.item \in [Obj -> Items]
  /\ \A o \in Obj :
       IF \E b \in 0 .. file.count - 1 : file.block[b] = o THEN ItemOK(file.item[o])
                                                       ELSE file.item[o] = NoItem
  /\ file.footer \in Seq(Link)

ASSUME BoundsAssumption ==
  /\ Type # {}
  /\ MaxKids \in Nat
  /\ MaxLink \in Nat
  /\ ArrayTypes \subseteq Type
  /\ PtrTypes \subseteq Type
  /\ BlockSizes \in BOOLEAN
  /\ LooseCounts \in BOOLEAN
  /\ Holds \in BOOLEAN

ASSUME ObjAssumption == "null" \notin Obj /\ "dangling" \notin Obj   \* see Refers

ASSUME FilesAssumption == \A file \in Files : FileOK(file)

VARIABLES
  count,        \* getBlockCount()
  block,        \* root's children between header and footer, by block number
  item,         \* the fields of every block
  header,       \* the block table: Num Blocks, and the type of each block
  footer,       \* the footer's Roots
  childLinks, parentLinks, rootLinks,
  lockUpdates, needUpdates,
  casting,      \* SpellBook::cast is running a spell
  written       \* the file written by the last save() is what the model holds

struct == <<count, block, item>>
caches == <<childLinks, parentLinks, rootLinks>>
vars == <<struct, header, footer, caches, lockUpdates, needUpdates, casting, written>>

Number == 0 .. count - 1
Live == {block[b] : b \in Number}
Updates == {"header", "links", "footer"}   \* UpdateType: utHeader, utLinks, utFooter

------------------------------------------------------------------------------
(* What the caches, the header and the footer are computed from. *)

ChildrenOf(i) == CollectLinks([r \in 1 .. i.rows |-> i.link[r]])
ParentsOf(i) == CollectLinks(<<i.link[0]>>)

ChildLinksOf(n, blk, itm) == CheckLinks([b \in 0 .. n - 1 |-> ChildrenOf(itm[blk[b]])])
ParentLinksOf(n, blk, itm) == [b \in 0 .. n - 1 |-> ParentsOf(itm[blk[b]])]

HeaderOf(n, blk, itm) == [num |-> n, types |-> [b \in 0 .. n - 1 |-> itm[blk[b]].type]]

\* Mutant: surplus rows are not deleted.
ResizeRowsKeepSurplus(i) == [i EXCEPT !.rows = i.num]

\* updateArrayItem: the array gets as many rows as its size field says; new rows
\* are null links, surplus rows are deleted.
ResizeRows(i) ==
  [type |-> i.type, num |-> i.num, rows |-> i.num,
   link |-> [f \in Field |-> IF f > i.num THEN -1 ELSE i.link[f]]]

\* updateArrays, for every block: updateHeader does it before it measures the blocks.
SyncArrays(n, blk, itm) ==
  IF BlockSizes
  THEN [o \in Obj |-> IF \E b \in 0 .. n - 1 : blk[b] = o THEN ResizeRows(itm[o]) ELSE itm[o]]
  ELSE itm

(***************************************************************************)
(* The tail of every handler.  `todo` names the update functions it calls; *)
(* while updates are held each call only leaves its flag in needUpdates.   *)
(* updateLinks always runs before updateFooter; arrays that updateHeader   *)
(* resizes run both.                                                       *)
(***************************************************************************)
Refresh(locked, todo, itm, ftr) ==
  LET synced == IF "header" \in todo THEN SyncArrays(count', block', itm) ELSE itm
      resized == synced # itm
  IN IF locked
     THEN /\ item' = itm
          /\ footer' = ftr
          /\ UNCHANGED <<header, caches>>
     ELSE /\ item' = synced
          /\ header' = IF "header" \in todo THEN HeaderOf(count', block', synced) ELSE header
          /\ IF "links" \in todo \/ resized
             THEN /\ childLinks' = ChildLinksOf(count', block', synced)
                  /\ parentLinks' = ParentLinksOf(count', block', synced)
                  /\ rootLinks' = RootLinks(childLinks')
             ELSE UNCHANGED caches
          /\ footer' = IF "footer" \in todo \/ resized THEN rootLinks' ELSE ftr

\* Mutant: an update that is held back is forgotten.
UpdateForgetful(todo, itm, ftr) ==
  /\ Refresh(lockUpdates, todo, itm, ftr)
  /\ UNCHANGED <<needUpdates, lockUpdates, casting>>
  /\ written' = FALSE

\* A handler's tail when it leaves the lock alone, and marks the model as edited.
Update(todo, itm, ftr) ==
  /\ Refresh(lockUpdates, todo, itm, ftr)
  /\ needUpdates' = IF lockUpdates THEN needUpdates \cup todo ELSE needUpdates
  /\ UNCHANGED <<lockUpdates, casting>>
  /\ written' = FALSE

------------------------------------------------------------------------------
(* Renumbering links: adjustLinks and mapLinks walk every item below root. *)

\* Mutant: the link to the block at the insertion point stays.
AdjustLinksAbove(b, delta) ==
  [l \in Link |-> IF l > b /\ delta # 0 THEN l + delta
                  ELSE IF l = b /\ delta = 0 THEN -1 ELSE l]

\* adjustLinks( root, block, delta ): what becomes of each link value.
AdjustLinks(b, delta) ==
  [l \in Link |-> IF l >= 0 /\ ((delta # 0 /\ l >= b) \/ l = b)
                  THEN IF delta = 0 THEN -1 ELSE l + delta
                  ELSE l]

\* mapLinks( root, map ): numbers the map does not have stay.
Mapped(map) == [l \in Link |-> IF l >= 0 /\ l \in DOMAIN map THEN map[l] ELSE l]

Same == [l \in Link |-> l]

RenumberItem(i, map) == [i EXCEPT !.link = [f \in Field |-> map[i.link[f]]]]
RenumberItems(itm, map) == [o \in Obj |-> RenumberItem(itm[o], map)]
RenumberList(list, map) == [i \in DOMAIN list |-> map[list[i]]]

\* Mutant: the row after the one meant is taken.
WithoutNext(blk, n, at) == [b \in 0 .. n - 2 |-> IF b <= at THEN blk[b] ELSE blk[b + 1]]

\* root->takeChild / removeChild, root->insertChild
Without(blk, n, at) == [b \in 0 .. n - 2 |-> IF b < at THEN blk[b] ELSE blk[b + 1]]
With(blk, n, at, o) ==
  [b \in 0 .. n |-> IF b < at THEN blk[b] ELSE IF b = at THEN o ELSE blk[b - 1]]

------------------------------------------------------------------------------
(* Initial states: a file has just been loaded.  load() ends in reset(),   *)
(* which runs updateLinks() but neither updateHeader() nor updateFooter(): *)
(* the footer still lists whatever the file listed.                        *)

Init ==
  \E file \in Files :
    /\ count = file.count
    /\ block = file.block
    /\ item = file.item
    /\ header = HeaderOf(count, block, item)
    /\ footer = file.footer
    /\ childLinks = ChildLinksOf(count, block, item)
    /\ parentLinks = ParentLinksOf(count, block, item)
    /\ rootLinks = RootLinks(childLinks)
    /\ lockUpdates = FALSE
    /\ needUpdates = {}
    /\ casting = FALSE
    /\ written = FALSE

------------------------------------------------------------------------------
(* Block functions *)

\* insertNiBlock( identifier, at ): at < 0 appends.  Links at or above `at` move up.
InsertNiBlock(o, t, at) ==
  LET pos == IF at < 0 THEN count ELSE at
      map == IF at < 0 THEN Same ELSE AdjustLinks(at, 1)
  IN /\ o \notin Live
     /\ count <= MaxLink                                                        \* bound
     /\ at >= 0 => /\ \A p \in Obj, f \in Field : item[p].link[f] < MaxLink   \* bound
                   /\ \A i \in DOMAIN footer : footer[i] < MaxLink            \* bound
     /\ count' = count + 1
     /\ block' = With(block, count, pos, o)
     /\ Update({"header", "links", "footer"},
               [RenumberItems(item, map) EXCEPT ![o] = NewItem(t)],
               RenumberList(footer, map))

\* removeNiBlock( b ): links to it are cleared, those above move down.  The header
\* is not updated here.
RemoveNiBlock(b) ==
  LET cleared == RenumberItems(item, AdjustLinks(b, 0))
      roots == RenumberList(footer, AdjustLinks(b, 0))
  IN /\ b \in Number
     /\ count' = count - 1
     /\ block' = Without(block, count, b)
     /\ Update({"links", "footer"},
               [RenumberItems(cleared, AdjustLinks(b, -1)) EXCEPT ![block[b]] = NoItem],
               RenumberList(roots, AdjustLinks(b, -1)))

\* Mutant: the blocks between are shifted the wrong way.
MoveMapBackwards(src, dst) ==
  [l \in IF src < dst THEN src .. dst ELSE dst .. src |->
     IF l = src THEN dst ELSE IF src < dst THEN l + 1 ELSE l - 1]

\* The map moveNiBlock builds: the blocks between src and dst move by one.
MoveMap(src, dst) ==
  [l \in IF src < dst THEN src .. dst ELSE dst .. src |->
     IF l = src THEN dst ELSE IF src < dst THEN l - 1 ELSE l + 1]

\* moveNiBlock( src, dst ): its callers move a block up or down within the list.
MoveNiBlock(src, dst) ==
  LET map == Mapped(MoveMap(src, dst))
  IN /\ src \in Number /\ dst \in Number
     /\ block' = With(Without(block, count, src), count - 1, dst, block[src])
     /\ UNCHANGED count
     /\ Update({"links", "header", "footer"}, RenumberItems(item, map), RenumberList(footer, map))

\* reorderBlocks( order ): block n becomes block order[n].
ReorderBlocks(order) ==
  LET map == Mapped(order)
  IN /\ count > 1
     /\ order \in [Number -> Number]
     /\ \A m, n \in Number : order[m] = order[n] => m = n
     /\ \E n \in Number : order[n] # n
     /\ block' = [b \in Number |-> block[CHOOSE n \in Number : order[n] = b]]
     /\ UNCHANGED count
     /\ Update({"links", "header", "footer"}, RenumberItems(item, map), RenumberList(footer, map))

\* mapLinks( map ): every link to one block is redirected to another (spCombiProps).
MapLinks(from, to) ==
  LET map == Mapped([n \in {from} |-> to])
  IN /\ from \in Number /\ to \in Number /\ from # to
     /\ UNCHANGED <<count, block>>
     /\ Update({"links", "header", "footer"}, RenumberItems(item, map), RenumberList(footer, map))

\* inherits( one, other ): the fields of an ancestor are among those of the heir.
Fields(t) == {"array" : x \in {t} \cap ArrayTypes} \cup {"ptr" : x \in {t} \cap PtrTypes}
Related(t, u) == Fields(t) \subseteq Fields(u) \/ Fields(u) \subseteq Fields(t)

\* Fields the new type has not are removed, fields it adds start out empty.
Converted(i, t) ==
  LET array == t \in ArrayTypes
      kept(f) == IF f = 0 THEN t \in PtrTypes ELSE array
  IN [type |-> t,
      num |-> IF array THEN i.num ELSE 0,
      rows |-> IF array THEN i.rows ELSE 0,
      link |-> [f \in Field |-> IF kept(f) THEN i.link[f] ELSE -1]]

\* convertNiBlock( identifier, index ): to a type above or below the block's.
ConvertNiBlock(o, t) ==
  /\ o \in Live /\ t # item[o].type /\ Related(item[o].type, t)
  /\ UNCHANGED <<count, block>>
  /\ Update({"header", "links", "footer"},
            [item EXCEPT ![o] = Converted(@, t)],
            footer)

------------------------------------------------------------------------------
(* Fields of one block *)

HasField(i, f) == (f = 0 /\ i.type \in PtrTypes) \/ f \in 1 .. i.rows

\* setLink( index, l ), setData, setItemValue: one link field gets a number.
SetLink(o, f, l) ==
  /\ o \in Live /\ HasField(item[o], f)
  /\ UNCHANGED <<count, block>>
  /\ Update({"links", "footer"}, [item EXCEPT ![o].link[f] = l], footer)

\* The size field is edited, the array is not.
SetCount(o, n) ==
  /\ LooseCounts
  /\ o \in Live /\ item[o].type \in ArrayTypes
  /\ UNCHANGED <<count, block>>
  /\ Update({}, [item EXCEPT ![o].num = n], footer)

\* updateArrayItem( array ): links and footer only when the number of rows changed.
UpdateArray(o) ==
  /\ o \in Live /\ item[o].type \in ArrayTypes
  /\ UNCHANGED <<count, block>>
  /\ Update(IF item[o].rows # item[o].num THEN {"links", "footer"} ELSE {},
            [item EXCEPT ![o] = ResizeRows(@)], footer)

\* A spell sets the size field and updates the array (addLink, delLink).
ResizeArray(o, n) ==
  /\ o \in Live /\ item[o].type \in ArrayTypes
  /\ n # item[o].rows
  /\ UNCHANGED <<count, block>>
  /\ Update({"links", "footer"}, [item EXCEPT ![o] = ResizeRows([@ EXCEPT !.num = n])], footer)

\* loadIndex, loadAndMapLinks: a block's fields are read from another block's saved
\* bytes (Duplicate, Paste Over, Split Properties), its links go through a map.
LoadIndex(o, saved, map) ==
  /\ o \in Live /\ saved \in Live \ {o}
  /\ item[saved].type = item[o].type
  /\ item[saved].rows = item[saved].num   \* saveItem wrote what loadItem will read
  /\ UNCHANGED <<count, block>>
  /\ Update({"links", "footer"},
            [item EXCEPT ![o] = RenumberItem(item[saved], Mapped(map))],
            footer)

------------------------------------------------------------------------------
(* Held updates, spells and saving *)

\* holdUpdates( true ): a spell postpones the updates.
HoldUpdates ==
  /\ Holds
  /\ casting /\ ~lockUpdates
  /\ lockUpdates' = TRUE
  /\ UNCHANGED <<struct, header, footer, caches, needUpdates, casting, written>>

\* holdUpdates( false ): updateModel( needUpdates ) runs what was postponed.
ReleaseUpdates ==
  /\ casting /\ lockUpdates
  /\ lockUpdates' = FALSE
  /\ UNCHANGED <<count, block, casting>>
  /\ Refresh(FALSE, needUpdates, item, footer)
  /\ needUpdates' = {}
  /\ written' = FALSE

\* SpellBook::cast starts a spell.
CastBegin ==
  /\ ~casting
  /\ casting' = TRUE
  /\ UNCHANGED <<struct, header, footer, caches, lockUpdates, needUpdates, written>>

\* The spell returns and SpellBook::cast updates the header.  spPasteBranch returns
\* with updates still held when a block of the clipboard cannot be read.
CastEnd ==
  /\ casting
  /\ casting' = FALSE
  /\ UNCHANGED <<count, block, lockUpdates>>
  /\ Refresh(lockUpdates, {"header"}, item, footer)
  /\ needUpdates' = IF lockUpdates THEN needUpdates \cup {"header"} ELSE needUpdates
  /\ written' = FALSE

\* Mutant: only the header is updated.
SaveHeaderOnly ==
  /\ ~casting
  /\ UNCHANGED <<count, block, lockUpdates, casting>>
  /\ Refresh(lockUpdates, {"header"}, item, footer)
  /\ needUpdates' = IF lockUpdates THEN needUpdates \cup {"header"} ELSE needUpdates
  /\ written' = TRUE

\* save(): "Force update header and footer prior to save", then write the items.
Save ==
  /\ ~casting
  /\ UNCHANGED <<count, block, lockUpdates, casting>>
  /\ Refresh(lockUpdates, {"header", "footer"}, item, footer)
  /\ needUpdates' = IF lockUpdates THEN needUpdates \cup {"header", "footer"} ELSE needUpdates
  /\ written' = TRUE

Orders == {p \in [Number -> Number] : \A m, n \in Number : p[m] = p[n] => m = n}
LinkMaps == {[n \in {} |-> 0]} \cup UNION {[{n} -> Number] : n \in Number}

Next ==
  \/ \E o \in Obj, t \in Type, at \in -1 .. count : InsertNiBlock(o, t, at)
  \/ \E b \in Number : RemoveNiBlock(b)
  \/ \E src, dst \in Number : MoveNiBlock(src, dst)
  \/ \E order \in Orders : ReorderBlocks(order)
  \/ \E from, to \in Number : MapLinks(from, to)
  \/ \E o \in Obj, t \in Type : ConvertNiBlock(o, t)
  \/ \E o \in Obj, f \in Field, l \in Link : SetLink(o, f, l)
  \/ \E o \in Obj, n \in 0 .. MaxKids : SetCount(o, n) \/ ResizeArray(o, n)
  \/ \E o \in Obj : UpdateArray(o)
  \/ \E o, saved \in Obj, map \in LinkMaps : LoadIndex(o, saved, map)
  \/ HoldUpdates \/ ReleaseUpdates \/ CastBegin \/ CastEnd \/ Save

Spec == Init /\ [][Next]_vars

------------------------------------------------------------------------------
(* Properties *)

\* The block table has a type for each of the blocks it counts.
HeaderType == UNION {[num : {n}, types : [0 .. n - 1 -> Type]] : n \in 0 .. MaxLink + 1}

\* Rows beyond an array hold nothing, nor does an object that is no block.
StructOK ==
  /\ count \in 0 .. MaxLink + 1
  /\ block \in [Number -> Obj]
  /\ item \in [Obj -> Items]
  /\ \A o \in Obj : ItemOK(item[o])
  /\ \A o \in Obj \ Live : item[o] = NoItem
  /\ lockUpdates \in BOOLEAN
  /\ needUpdates \in SUBSET Updates

\* The type invariant; StructOK is the part that the proofs build on.
TypeOK ==
  /\ StructOK
  /\ header \in HeaderType
  /\ footer \in Seq(Link)
  /\ rootLinks \in Seq(Link)
  /\ casting \in BOOLEAN
  /\ written \in BOOLEAN

\* No block stands in the list twice, whatever was inserted, taken and put back.
NumberedOnce == \A b, c \in Number : block[b] = block[c] => b = c

Fresh ==
  /\ childLinks = ChildLinksOf(count, block, item)
  /\ parentLinks = ParentLinksOf(count, block, item)
  /\ rootLinks = RootLinks(childLinks)

\* A cache that is out of date is always on the list of updates to run, and that
\* list is empty unless updates are held: what a reader of the caches may rely on.
StaleIsNoted ==
  /\ ~Fresh => "links" \in needUpdates
  /\ needUpdates # {} => lockUpdates

\* What the last save() wrote describes itself: the block table and the roots are
\* those of the blocks written.
WrittenFileDescribesItself ==
  written /\ ~lockUpdates =>
    /\ header = HeaderOf(count, block, item)
    /\ footer = RootLinks(ChildLinksOf(count, block, item))

\* Refinement: a link refers to the block that has its number.  A row beyond the size
\* field is as good as deleted.
Target(n, blk, l) == IF l < 0 THEN "null" ELSE IF l < n THEN blk[l] ELSE "dangling"

Refers(o, f) ==
  IF o \notin Live \/ f > item[o].num THEN "null" ELSE Target(count, block, item[o].link[f])

Refs == [o \in Obj |-> [f \in Field |-> Refers(o, f)]]

Graph == INSTANCE NifGraph WITH
  Null <- "null", Dangling <- "dangling", live <- Live, ref <- Refs

\* Through every renumbering, each link keeps referring to the block it referred to.
LinksFollowBlocks == Graph!Spec
==============================================================================
