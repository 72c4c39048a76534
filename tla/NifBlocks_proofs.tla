--------------------------- MODULE NifBlocks_proofs ---------------------------
(***************************************************************************)
(* Theorems about NifBlocks, for every set of blocks and types, every      *)
(* file and every bound.                                                   *)
(***************************************************************************)
EXTENDS NifBlocks, LinkGraph_proofs

ItemsOK(itm) == itm \in [Obj -> Items] /\ \A o \in Obj : ItemOK(itm[o])

------------------------------------------------------------------------------
(* Items *)

\* A new block of any type is a well-formed item.
LEMMA NewItemOK == ASSUME NEW t \in Type PROVE ItemOK(NewItem(t))
BY BoundsAssumption, SMT DEF ItemOK, NewItem, Items, NoLinks, Field, Rows, Link

\* So is what `item` says of an object that is no block.
LEMMA NoItemOK == ItemOK(NoItem)
<1>1. (CHOOSE t \in Type : TRUE) \in Type BY BoundsAssumption
<1> QED BY <1>1, NewItemOK DEF NoItem

\* updateArrayItem leaves a well-formed item of the same type.
LEMMA ResizeOK == ASSUME NEW i \in Items, ItemOK(i) 
                  PROVE ItemOK(ResizeRows(i)) /\ ResizeRows(i).type = i.type
<1> DEFINE lk == [f \in Field |-> IF f > i.num THEN -1 ELSE i.link[f]]
<1>1. ResizeRows(i) = [type |-> i.type, num |-> i.num, rows |-> i.num, link |-> lk]
  BY SMT DEF ResizeRows, Items
<1>2. lk \in [Field -> Link] /\ i.type \in Type /\ i.num \in 0 .. MaxKids
  BY BoundsAssumption, SMT DEF Items, Field, Link
<1>3. \A r \in Rows : r > i.num => lk[r] = -1
  BY BoundsAssumption, SMT DEF Field, Rows
<1>4. lk[0] = i.link[0]
  BY BoundsAssumption, SMT DEF Items, Field
<1> HIDE DEF lk
<1> QED BY <1>1, <1>2, <1>3, <1>4, SMT DEF ItemOK, Items

\* An array that agrees with its size field is left as it is.
LEMMA ResizeIdle == ASSUME NEW i \in Items, ItemOK(i), i.rows = i.num
                  PROVE ResizeRows(i) = i
<1> DEFINE lk == [f \in Field |-> IF f > i.num THEN -1 ELSE i.link[f]]
<1>1. \A f \in Field : lk[f] = i.link[f]
  BY BoundsAssumption, SMT DEF ItemOK, Items, Field, Rows, Link
<1>2. lk = i.link
  BY <1>1, SMT DEF Items
<1>3. ResizeRows(i) = [type |-> i.type, num |-> i.num, rows |-> i.num, link |-> lk]
  BY SMT DEF ResizeRows, Items
<1> HIDE DEF lk
<1> QED BY <1>2, <1>3, SMT DEF Items

\* Renumbering the links of an item keeps it well formed if null stays null.
LEMMA RenumberOK ==
  ASSUME NEW i \in Items, ItemOK(i), NEW map, map[-1] = -1,
         \A f \in Field : map[i.link[f]] \in Link
  PROVE  ItemOK(RenumberItem(i, map))
<1> DEFINE lk == [f \in Field |-> map[i.link[f]]]
<1>1. RenumberItem(i, map) = [type |-> i.type, num |-> i.num, rows |-> i.rows, link |-> lk]
  BY SMT DEF RenumberItem, Items
<1>2. lk \in [Field -> Link]
  OBVIOUS
<1>3. /\ \A r \in Rows : r > i.rows => lk[r] = -1
      /\ i.type \notin PtrTypes => lk[0] = -1
  BY BoundsAssumption, SMT DEF ItemOK, Field, Rows
<1> HIDE DEF lk
<1> QED BY <1>1, <1>2, <1>3, SMT DEF ItemOK, Items

\* adjustLinks maps links to links as long as none passes the largest number, and null to null.
LEMMA AdjustOK ==
  ASSUME NEW b \in Nat
  PROVE  /\ AdjustLinks(b, 0) \in [Link -> Link] /\ AdjustLinks(b, 0)[-1] = -1
         /\ AdjustLinks(b, -1) \in [Link -> Link] /\ AdjustLinks(b, -1)[-1] = -1
         /\ AdjustLinks(b, 1)[-1] = -1
         /\ \A l \in Link : l < MaxLink => AdjustLinks(b, 1)[l] \in Link
BY BoundsAssumption, SMT DEF AdjustLinks, Link

\* A converted block is a well-formed item of its new type.
LEMMA ConvertedOK ==
  ASSUME NEW i \in Items, ItemOK(i), NEW t \in Type PROVE ItemOK(Converted(i, t))
BY BoundsAssumption, SMT DEF ItemOK, Converted, Items, Field, Rows, Link

\* The tail of a handler may resize arrays; it leaves well-formed items, and those
\* of objects that are no blocks alone.
LEMMA RefreshItems ==
  ASSUME NEW locked, NEW todo, NEW itm, NEW ftr, ItemsOK(itm), Refresh(locked, todo, itm, ftr)
  PROVE  /\ ItemsOK(item')
         /\ \A o \in Obj : item'[o] \in {itm[o], ResizeRows(itm[o])}
         /\ \A o \in Obj : (\A b \in 0 .. count' - 1 : block'[b] # o) => item'[o] = itm[o]
<1>1. item' = itm \/ item' = SyncArrays(count', block', itm)
  BY DEF Refresh
<1>2. CASE item' = itm BY <1>2 DEF ItemsOK
<1>3. CASE item' = SyncArrays(count', block', itm)
  <2>1. CASE ~BlockSizes BY <2>1, <1>2, <1>3 DEF SyncArrays
  <2>2. CASE BlockSizes
    <3>1. item' = [o \in Obj |-> IF \E b \in 0 .. count' - 1 : block'[b] = o
                                 THEN ResizeRows(itm[o]) ELSE itm[o]]
      BY <1>3, <2>2 DEF SyncArrays
    <3>2. \A o \in Obj : ItemOK(ResizeRows(itm[o])) /\ ItemOK(itm[o])
      BY ResizeOK DEF ItemsOK
    <3>3. \A o \in Obj : ItemOK(item'[o]) BY <3>1, <3>2
    <3>4. item' \in [Obj -> Items] BY <3>1, <3>3 DEF ItemOK
    <3> QED BY <3>1, <3>3, <3>4 DEF ItemsOK
  <2> QED BY <2>1, <2>2
<1> QED BY <1>1, <1>2, <1>3

------------------------------------------------------------------------------
(* The structure: the numbers of the blocks, and their items.  Each lemma  *)
(* is about one operation.                                                 *)

Struct == StructOK /\ NumberedOnce

\* What every handler that ends in Update leaves, given what it computed before.
LEMMA UpdateStruct ==
  ASSUME StructOK, NEW todo \in SUBSET Updates, NEW itm, NEW ftr, Update(todo, itm, ftr),
         ItemsOK(itm), count' \in 0 .. MaxLink + 1, block' \in [Number' -> Obj],
         \A o \in Obj \ Live' : itm[o] = NoItem
  PROVE  StructOK'
<1>1. Refresh(lockUpdates, todo, itm, ftr) BY DEF Update
<1>2. ItemsOK(item') /\ \A o \in Obj \ Live' : item'[o] = itm[o]
  BY <1>1, RefreshItems DEF Live, Number
<1>3. lockUpdates' \in BOOLEAN /\ needUpdates' \in SUBSET Updates
  BY DEF Update, StructOK
<1> QED BY <1>2, <1>3 DEF StructOK, ItemsOK

\* Renumbering every item leaves them well formed, and objects that are no blocks empty.
LEMMA RenumberItemsOK ==
  ASSUME StructOK, NEW map, map[-1] = -1, \A o \in Obj, f \in Field : map[item[o].link[f]] \in Link
  PROVE  /\ ItemsOK(RenumberItems(item, map))
         /\ \A o \in Obj \ Live : RenumberItems(item, map)[o] = NoItem
<1>1. \A o \in Obj : ItemOK(RenumberItem(item[o], map))
  BY RenumberOK DEF StructOK
<1>2. RenumberItem(NoItem, map) = NoItem
  BY SMT DEF RenumberItem, NoItem, NewItem, NoLinks
<1> QED BY <1>1, <1>2 DEF RenumberItems, ItemsOK, ItemOK, StructOK

\* Every link field holds a link.
LEMMA LinkTyped == ASSUME StructOK, NEW o \in Obj, NEW f \in Field PROVE item[o].link[f] \in Link
BY SMT DEF StructOK, Items

\* insertNiBlock keeps the structure: the new block stands at one number, the others at one each.
LEMMA InsertStruct ==
  ASSUME Struct, NEW o \in Obj, NEW t \in Type, NEW at \in -1 .. count, InsertNiBlock(o, t, at)
  PROVE  Struct' /\ Live' = Live \cup {o}
<1> DEFINE pos == IF at < 0 THEN count ELSE at
           map == IF at < 0 THEN Same ELSE AdjustLinks(at, 1)
           itm == [RenumberItems(item, map) EXCEPT ![o] = NewItem(t)]
           ftr == RenumberList(footer, map)
<1>1. /\ count' = count + 1
      /\ block' = With(block, count, pos, o)
      /\ o \notin Live
      /\ count <= MaxLink
      /\ Update({"header", "links", "footer"}, itm, ftr)
  BY DEF InsertNiBlock
<1>2. count' \in 0 .. MaxLink + 1 /\ block' \in [Number' -> Obj] /\ NumberedOnce'
  <2>1. count \in Nat /\ count' \in 0 .. MaxLink + 1
    BY <1>1, BoundsAssumption, SMT DEF Struct, StructOK
  <2>2. block' \in [Number' -> Obj] /\ NumberedOnce'
    BY <1>1, <2>1, SMTT(30) DEF Struct, StructOK, With, Number, NumberedOnce, Live
  <2> QED BY <2>1, <2>2
<1>3. Live' = Live \cup {o}
  <2>1. \A b \in Number : block[b] = block'[IF b < pos THEN b ELSE b + 1]
    BY <1>1, SMTT(30) DEF Struct, StructOK, With, Number
  <2>2. \A b \in Number' : block'[b] = o \/ block'[b] \in Live
    BY <1>1, SMTT(30) DEF Struct, StructOK, With, Number, Live
  <2>3. block'[pos] = o /\ pos \in Number'
    BY <1>1, SMTT(30) DEF Struct, StructOK, With, Number
  <2>4. \A b \in Number : (IF b < pos THEN b ELSE b + 1) \in Number'
    BY <1>1, SMTT(30) DEF Struct, StructOK, Number
  <2> HIDE DEF pos
  <2> QED BY <2>1, <2>2, <2>3, <2>4 DEF Live
<1>4. map[-1] = -1 /\ \A p \in Obj, f \in Field : map[item[p].link[f]] \in Link
  <2>1. CASE at < 0
    BY <2>1, LinkTyped, BoundsAssumption, SMT DEF Struct, Same, Link
  <2>2. CASE at >= 0
    <3>1. at \in Nat BY <2>2, SMT DEF Struct, StructOK
    <3>2. map = AdjustLinks(at, 1) BY <3>1, SMT
    <3>3. \A p \in Obj, f \in Field : item[p].link[f] < MaxLink
      BY <2>2 DEF InsertNiBlock
    <3> QED BY <3>1, <3>2, <3>3, AdjustOK, LinkTyped DEF Struct
  <2> QED BY <2>1, <2>2, SMT DEF Struct, StructOK
<1> HIDE DEF map
<1>5. /\ ItemsOK(RenumberItems(item, map))
      /\ \A p \in Obj \ Live : RenumberItems(item, map)[p] = NoItem
  BY <1>4, RenumberItemsOK DEF Struct
<1>6. ItemsOK(itm) /\ \A p \in Obj \ Live' : itm[p] = NoItem
  BY <1>3, <1>5, NewItemOK DEF ItemsOK, ItemOK
<1> HIDE DEF itm, ftr
<1>7. StructOK'
  BY <1>1, <1>2, <1>6, UpdateStruct DEF Struct, Updates
<1> QED BY <1>2, <1>3, <1>7 DEF Struct

\* So does removeNiBlock.
LEMMA RemoveStruct ==
  ASSUME Struct, NEW b \in Number, RemoveNiBlock(b)
  PROVE  Struct' /\ Live' = Live \ {block[b]}
<1> DEFINE cleared == RenumberItems(item, AdjustLinks(b, 0))
           itm == [RenumberItems(cleared, AdjustLinks(b, -1)) EXCEPT ![block[b]] = NoItem]
           ftr == RenumberList(RenumberList(footer, AdjustLinks(b, 0)), AdjustLinks(b, -1))
<1>1. /\ count' = count - 1
      /\ block' = Without(block, count, b)
      /\ Update({"links", "footer"}, itm, ftr)
  BY DEF RemoveNiBlock
<1>2. count' \in 0 .. MaxLink + 1 /\ block' \in [Number' -> Obj] /\ NumberedOnce'
  BY <1>1, BoundsAssumption, SMTT(30) DEF Struct, StructOK, Without, Number, NumberedOnce
<1>3. Live' = Live \ {block[b]}
  <2>1. \A c \in Number : c # b => /\ block[c] = block'[IF c < b THEN c ELSE c - 1]
                                  /\ (IF c < b THEN c ELSE c - 1) \in Number'
    BY <1>1, SMTT(30) DEF Struct, StructOK, Without, Number
  <2>2. \A c \in Number' : block'[c] \in Live /\ block'[c] # block[b]
    BY <1>1, SMTT(30) DEF Struct, StructOK, NumberedOnce, Without, Number, Live
  <2> QED BY <2>1, <2>2 DEF Live
<1>4. b \in Nat /\ block[b] \in Obj
  BY SMT DEF Struct, StructOK, Number
<1>5. /\ ItemsOK(cleared)
      /\ \A p \in Obj \ Live : cleared[p] = NoItem
  BY <1>4, AdjustOK, LinkTyped, RenumberItemsOK DEF Struct
<1> HIDE DEF cleared
<1>6. \A p \in Obj : ItemOK(RenumberItem(cleared[p], AdjustLinks(b, -1)))
  <2>1. \A p \in Obj, f \in Field : cleared[p].link[f] \in Link
    BY <1>5, SMT DEF ItemsOK, Items
  <2> QED BY <2>1, <1>4, <1>5, AdjustOK, RenumberOK DEF ItemsOK
<1>7. RenumberItem(NoItem, AdjustLinks(b, -1)) = NoItem
  BY <1>4, AdjustOK, SMT DEF RenumberItem, NoItem, NewItem, NoLinks
<1>8. ItemsOK(itm) /\ \A p \in Obj \ Live' : itm[p] = NoItem
  BY <1>3, <1>4, <1>5, <1>6, <1>7, NoItemOK DEF ItemsOK, ItemOK, RenumberItems
<1> HIDE DEF itm, ftr
<1>9. StructOK'
  BY <1>1, <1>2, <1>8, UpdateStruct DEF Struct, Updates
<1> QED BY <1>2, <1>3, <1>9 DEF Struct

\* The operations that renumber a list of blocks whose members do not change.
LEMMA PermuteStruct ==
  ASSUME Struct, NEW map, map \in [Link -> Link], map[-1] = -1, NEW todo \in SUBSET Updates, NEW ftr,
         Update(todo, RenumberItems(item, map), ftr),
         count' = count, block' \in [Number -> Obj], NumberedOnce', Live' = Live
  PROVE  Struct'
<1>1. \A o \in Obj, f \in Field : map[item[o].link[f]] \in Link
  BY LinkTyped DEF Struct
<1> DEFINE itm == RenumberItems(item, map)
<1>2. ItemsOK(itm) /\ \A o \in Obj \ Live : itm[o] = NoItem
  BY <1>1, RenumberItemsOK DEF Struct
<1>3. count' \in 0 .. MaxLink + 1 /\ block' \in [Number' -> Obj]
  BY DEF Struct, StructOK, Number
<1> HIDE DEF itm
<1>4. StructOK'
  BY <1>2, <1>3, UpdateStruct DEF Struct, itm
<1> QED BY <1>4 DEF Struct

\* A map of block numbers to block numbers leaves the null link alone.
LEMMA MappedOK ==
  ASSUME NEW S, NEW T, NEW map \in [S -> T], T \subseteq Link
  PROVE  Mapped(map) \in [Link -> Link] /\ Mapped(map)[-1] = -1
<1>1. \A l \in DOMAIN map : map[l] \in Link
  OBVIOUS
<1>2. -1 \in Link /\ ~(-1 >= 0)
  BY BoundsAssumption, SMT DEF Link
<1> QED BY <1>1, <1>2, Zenon DEF Mapped

\* Every block number fits into a link field.
LEMMA NumberIsLink == ASSUME StructOK PROVE Number \subseteq Link
BY BoundsAssumption, SMT DEF StructOK, Number, Link

\* moveNiBlock takes a block out and puts it in again: a permutation of the list.
LEMMA MoveStruct ==
  ASSUME Struct, NEW src \in Number, NEW dst \in Number, MoveNiBlock(src, dst)
  PROVE  Struct' /\ Live' = Live
<1> DEFINE map == Mapped(MoveMap(src, dst))
<1>1. /\ count' = count
      /\ block' = With(Without(block, count, src), count - 1, dst, block[src])
      /\ Update({"links", "header", "footer"}, RenumberItems(item, map), RenumberList(footer, map))
  BY DEF MoveNiBlock
<1>2. count \in Nat /\ src \in Nat /\ dst \in Nat /\ src < count /\ dst < count
  BY BoundsAssumption, SMT DEF Struct, StructOK, Number
<1> DEFINE old(b) == IF b = dst THEN src
                     ELSE IF (IF b < dst THEN b ELSE b - 1) < src
                          THEN (IF b < dst THEN b ELSE b - 1)
                          ELSE (IF b < dst THEN b ELSE b - 1) + 1
<1>3. \A b \in Number : block'[b] = block[old(b)] /\ old(b) \in Number
  BY <1>1, <1>2, SMTT(30) DEF With, Without, Number
<1>4. \A b, c \in Number : old(b) = old(c) => b = c
  BY <1>2, SMTT(30) DEF Number
<1>5. \A c \in Number : \E b \in Number : old(b) = c
  <2> TAKE c \in Number
  <2>1. CASE c = src
    BY <1>2, <2>1, SMT DEF Number
  <2>2. CASE c # src
    <3> DEFINE m == IF c < src THEN c ELSE c - 1
               b == IF m < dst THEN m ELSE m + 1
    <3>1. b \in Number /\ old(b) = c
      BY <1>2, <2>2, SMT DEF Number
    <3> QED BY <3>1
  <2> QED BY <2>1, <2>2
<1>6. DOMAIN block' = Number
  BY <1>1, <1>2, SMT DEF With, Number
<1> HIDE DEF old
<1>7. block' \in [Number -> Obj] /\ Number' = Number
  <2>1. \A b \in Number : block'[b] \in Obj
    BY <1>3 DEF Struct, StructOK
  <2>2. block' = [b \in Number |-> block'[b]]
    BY <1>1, <1>2, SMT DEF With, Number
  <2> QED BY <1>1, <2>1, <2>2 DEF Number
<1>8. NumberedOnce' /\ Live' = Live
  BY <1>3, <1>4, <1>5, <1>7 DEF NumberedOnce, Live, Struct
<1>9. map \in [Link -> Link] /\ map[-1] = -1
  <2>1. MoveMap(src, dst) \in [IF src < dst THEN src .. dst ELSE dst .. src -> Number]
    BY <1>2, SMT DEF MoveMap, Number
  <2> QED BY <2>1, NumberIsLink, MappedOK DEF Struct
<1> HIDE DEF map
<1> QED BY <1>1, <1>7, <1>8, <1>9, PermuteStruct DEF Updates

\* reorderBlocks permutes the list by the inverse of the order.
LEMMA ReorderStruct ==
  ASSUME Struct, NEW order \in Orders, ReorderBlocks(order)
  PROVE  Struct' /\ Live' = Live
<1> DEFINE map == Mapped(order)
<1>1. /\ count' = count
      /\ block' = [b \in Number |-> block[CHOOSE n \in Number : order[n] = b]]
      /\ Update({"links", "header", "footer"}, RenumberItems(item, map), RenumberList(footer, map))
  BY DEF ReorderBlocks
<1>2. order \in [Number -> Number] /\ \A m, n \in Number : order[m] = order[n] => m = n
  BY DEF Orders
<1>3. order \in Surjection(Number, Number)
  <2>1. order \in Injection(Number, Number)
    BY <1>2 DEF Injection, IsInjective
  <2>2. IsFiniteSet(Number)
    BY FS_Interval, BoundsAssumption, SMT DEF Number, Struct, StructOK
  <2> QED BY <2>1, <2>2, FS_Injection
<1>4. \A b \in Number : /\ (CHOOSE n \in Number : order[n] = b) \in Number
                       /\ order[CHOOSE n \in Number : order[n] = b] = b
  BY <1>3 DEF Surjection
<1>5. block' \in [Number -> Obj] /\ Number' = Number
  BY <1>1, <1>4 DEF Struct, StructOK, Number
<1>6. \A n \in Number : block'[order[n]] = block[n] /\ order[n] \in Number
  BY <1>1, <1>2, <1>4
<1>7. \A b \in Number : block'[b] = block[CHOOSE n \in Number : order[n] = b]
  BY <1>1
<1>8. NumberedOnce' /\ Live' = Live
  <2> DEFINE old(b) == CHOOSE n \in Number : order[n] = b
  <2>1. \A b \in Number : old(b) \in Number /\ order[old(b)] = b /\ block'[b] = block[old(b)]
    BY <1>4, <1>7
  <2> HIDE DEF old
  <2>2. \A b, c \in Number : block'[b] = block'[c] => b = c
    <3> TAKE b, c \in Number
    <3> HAVE block'[b] = block'[c]
    <3>1. old(b) = old(c) BY <2>1 DEF Struct, NumberedOnce
    <3> QED BY <2>1, <3>1
  <2> QED BY <1>5, <1>6, <2>1, <2>2 DEF NumberedOnce, Live
<1>9. map \in [Link -> Link] /\ map[-1] = -1
  BY <1>2, NumberIsLink, MappedOK DEF Struct
<1> HIDE DEF map
<1> QED BY <1>1, <1>5, <1>8, <1>9, PermuteStruct DEF Updates

\* mapLinks leaves the list alone.
LEMMA MapLinksStruct ==
  ASSUME Struct, NEW from \in Number, NEW to \in Number, MapLinks(from, to)
  PROVE  Struct'
<1> DEFINE map == Mapped([n \in {from} |-> to])
<1>1. /\ count' = count /\ block' = block
      /\ Update({"links", "header", "footer"}, RenumberItems(item, map), RenumberList(footer, map))
  BY DEF MapLinks
<1>2. map \in [Link -> Link] /\ map[-1] = -1
  <2>1. [n \in {from} |-> to] \in [{from} -> Number]
    OBVIOUS
  <2> QED BY <2>1, NumberIsLink, MappedOK DEF Struct
<1>3. Number' = Number /\ Live' = Live /\ NumberedOnce'
  BY <1>1 DEF Number, Live, NumberedOnce, Struct
<1> HIDE DEF map
<1> QED BY <1>1, <1>2, <1>3, PermuteStruct DEF Updates, Struct, StructOK

\* The operations on the fields of one block: the list of blocks stays.
FieldsStep(o) ==
  /\ o \in Live
  /\ UNCHANGED <<count, block>>
  /\ \E i \in Items, todo \in SUBSET Updates :
       ItemOK(i) /\ Update(todo, [item EXCEPT ![o] = i], footer)

LEMMA FieldsStruct ==
  ASSUME Struct, NEW o \in Obj, FieldsStep(o)
  PROVE  Struct'
<1>1. PICK i \in Items, todo \in SUBSET Updates :
        ItemOK(i) /\ Update(todo, [item EXCEPT ![o] = i], footer)
  BY DEF FieldsStep
<1>2. Number' = Number /\ Live' = Live /\ NumberedOnce'
  BY DEF FieldsStep, Number, Live, NumberedOnce, Struct
<1> DEFINE itm == [item EXCEPT ![o] = i]
<1>3. ItemsOK(itm) /\ \A p \in Obj \ Live : itm[p] = NoItem
  BY <1>1 DEF ItemsOK, ItemOK, FieldsStep, Struct, StructOK
<1>4. Update(todo, itm, footer)
  BY <1>1
<1> HIDE DEF itm
<1>5. StructOK'
  BY <1>2, <1>3, <1>4, UpdateStruct DEF FieldsStep, Struct, StructOK
<1> QED BY <1>2, <1>5 DEF Struct

\* The item of a block is well formed.
LEMMA LiveItemOK == ASSUME StructOK, NEW o \in Live PROVE o \in Obj /\ item[o] \in Items /\ ItemOK(item[o])
BY DEF StructOK, Live

\* Each of them leaves a well-formed item.
LEMMA ConvertFields ==
  ASSUME Struct, NEW o \in Obj, NEW t \in Type, ConvertNiBlock(o, t) PROVE FieldsStep(o)
<1>1. /\ o \in Live
      /\ UNCHANGED <<count, block>>
      /\ Update({"header", "links", "footer"}, [item EXCEPT ![o] = Converted(item[o], t)], footer)
  BY DEF ConvertNiBlock
<1>2. ItemOK(Converted(item[o], t))
  BY <1>1, ConvertedOK, LiveItemOK DEF Struct
<1> QED BY <1>1, <1>2 DEF FieldsStep, ItemOK, Updates

\* setLink writes a link into a field the block has.
LEMMA SetLinkFields ==
  ASSUME Struct, NEW o \in Obj, NEW f \in Field, NEW l \in Link, SetLink(o, f, l) PROVE FieldsStep(o)
<1> DEFINE i == [item[o] EXCEPT !.link[f] = l]
<1>1. /\ o \in Live /\ HasField(item[o], f)
      /\ UNCHANGED <<count, block>>
      /\ Update({"links", "footer"}, [item EXCEPT ![o] = i], footer)
  BY DEF SetLink
<1>2. i = [type |-> item[o].type, num |-> item[o].num, rows |-> item[o].rows,
           link |-> [item[o].link EXCEPT ![f] = l]]
  <2>1. item[o] \in Items
    BY DEF Struct, StructOK
  <2> QED BY <2>1, SMT DEF Items
<1> DEFINE lk == [item[o].link EXCEPT ![f] = l]
<1>3. lk \in [Field -> Link] /\ \A g \in Field : g # f => lk[g] = item[o].link[g]
  BY SMT DEF Struct, StructOK, Items
<1>4. /\ item[o] \in Items /\ ItemOK(item[o])
      /\ f = 0 => item[o].type \in PtrTypes
      /\ f # 0 => f \in 1 .. item[o].rows
  BY <1>1, BoundsAssumption, SMT DEF Struct, StructOK, HasField, Field
<1> HIDE DEF lk
<1>5. /\ \A r \in Rows : r > item[o].rows => lk[r] = -1
      /\ item[o].type \notin PtrTypes => lk[0] = -1
  BY <1>3, <1>4, BoundsAssumption, SMT DEF ItemOK, Field, Rows, Items
<1>6. ItemOK(i)
  BY <1>2, <1>3, <1>4, <1>5, SMT DEF ItemOK, Items, lk
<1> HIDE DEF i
<1> QED BY <1>1, <1>6 DEF FieldsStep, ItemOK, Updates

\* An edit of the size field.
LEMMA SetCountFields ==
  ASSUME Struct, NEW o \in Obj, NEW n \in 0 .. MaxKids, SetCount(o, n) PROVE FieldsStep(o)
<1> DEFINE i == [item[o] EXCEPT !.num = n]
<1>1. /\ o \in Live /\ item[o].type \in ArrayTypes
      /\ UNCHANGED <<count, block>>
      /\ Update({}, [item EXCEPT ![o] = i], footer)
  BY DEF SetCount
<1>2. ItemOK(i)
  BY <1>1, SMT DEF Struct, StructOK, ItemOK, Items
<1> HIDE DEF i
<1> QED BY <1>1, <1>2 DEF FieldsStep, ItemOK, Updates

\* updateArrayItem resizes the array to the size field.
LEMMA UpdateArrayFields ==
  ASSUME Struct, NEW o \in Obj, UpdateArray(o) PROVE FieldsStep(o)
<1>1. /\ o \in Live
      /\ UNCHANGED <<count, block>>
      /\ Update(IF item[o].rows # item[o].num THEN {"links", "footer"} ELSE {},
                [item EXCEPT ![o] = ResizeRows(item[o])], footer)
  BY DEF UpdateArray
<1>2. ItemOK(ResizeRows(item[o]))
  BY <1>1, ResizeOK, LiveItemOK DEF Struct
<1>3. (IF item[o].rows # item[o].num THEN {"links", "footer"} ELSE {}) \in SUBSET Updates
  BY DEF Updates
<1> QED BY <1>1, <1>2, <1>3 DEF FieldsStep, ItemOK, Updates

\* A size field set and the array resized.
LEMMA ResizeArrayFields ==
  ASSUME Struct, NEW o \in Obj, NEW n \in 0 .. MaxKids, ResizeArray(o, n) PROVE FieldsStep(o)
<1> DEFINE i == [item[o] EXCEPT !.num = n]
<1>1. /\ o \in Live /\ item[o].type \in ArrayTypes
      /\ UNCHANGED <<count, block>>
      /\ Update({"links", "footer"}, [item EXCEPT ![o] = ResizeRows(i)], footer)
  BY DEF ResizeArray
<1>2. ItemOK(i)
  BY <1>1, SMT DEF Struct, StructOK, ItemOK, Items
<1> HIDE DEF i
<1>3. ItemOK(ResizeRows(i))
  BY <1>2, ResizeOK DEF ItemOK
<1> QED BY <1>1, <1>3 DEF FieldsStep, ItemOK, Updates

\* loadIndex and loadAndMapLinks: the fields of another block of the type, its links mapped.
LEMMA LoadIndexFields ==
  ASSUME Struct, NEW o \in Obj, NEW saved \in Obj, NEW map \in LinkMaps, LoadIndex(o, saved, map)
  PROVE  FieldsStep(o)
<1> DEFINE i == RenumberItem(item[saved], Mapped(map))
<1>1. /\ o \in Live /\ saved \in Live
      /\ UNCHANGED <<count, block>>
      /\ Update({"links", "footer"}, [item EXCEPT ![o] = i], footer)
  BY DEF LoadIndex
<1>2. DOMAIN map \subseteq Int /\ map \in [DOMAIN map -> Number]
  <2>1. CASE map = [n \in {} |-> 0]
    BY <2>1
  <2>2. CASE map \in UNION {[{n} -> Number] : n \in Number}
    <3>1. PICK n \in Number : map \in [{n} -> Number]
      BY <2>2
    <3> QED BY <3>1, SMT DEF Number
  <2> QED BY <2>1, <2>2 DEF LinkMaps
<1>3. Mapped(map) \in [Link -> Link] /\ Mapped(map)[-1] = -1
  BY <1>2, NumberIsLink, MappedOK DEF Struct
<1>4. ItemOK(i)
  BY <1>1, <1>3, LinkTyped, LiveItemOK, RenumberOK DEF Struct
<1> HIDE DEF i
<1> QED BY <1>1, <1>4 DEF FieldsStep, ItemOK, Updates

\* The steps of a spell and the save: the list stays, arrays may be resized.
LEMMA RefreshStruct ==
  ASSUME Struct, NEW locked, NEW todo \in SUBSET Updates, Refresh(locked, todo, item, footer),
         UNCHANGED <<count, block>>, lockUpdates' \in BOOLEAN, needUpdates' \in SUBSET Updates
  PROVE  Struct'
<1>1. Number' = Number /\ Live' = Live /\ NumberedOnce'
  BY DEF Number, Live, NumberedOnce, Struct
<1>2. ItemsOK(item)
  BY DEF ItemsOK, Struct, StructOK
<1>3. ItemsOK(item') /\ \A o \in Obj \ Live : item'[o] = item[o]
  BY <1>1, <1>2, RefreshItems DEF Live, Number
<1> QED BY <1>1, <1>3 DEF ItemsOK, Struct, StructOK

\* A file that was loaded has the structure.
LEMMA InitStruct == Init => Struct
<1> SUFFICES ASSUME NEW file \in Files, count = file.count, block = file.block, item = file.item,
                    lockUpdates = FALSE, needUpdates = {}
             PROVE  Struct
  BY DEF Init
<1>1. FileOK(file)
  BY FilesAssumption
<1>2. Number = 0 .. file.count - 1
  BY DEF Number
<1>3. NumberedOnce
  BY <1>1, <1>2 DEF FileOK, NumberedOnce
<1>4. \A o \in Obj : IF o \in Live THEN ItemOK(item[o]) ELSE item[o] = NoItem
  BY <1>1, <1>2 DEF FileOK, Live
<1> QED BY <1>1, <1>2, <1>3, <1>4, NoItemOK DEF Struct, StructOK, FileOK

\* Every operation keeps the structure.
LEMMA NextStruct == Struct /\ [Next]_vars => Struct'
<1> SUFFICES ASSUME Struct, [Next]_vars PROVE Struct'
  OBVIOUS
<1>1. ASSUME NEW o \in Obj, NEW t \in Type, NEW at \in -1 .. count, InsertNiBlock(o, t, at)
      PROVE  Struct'
  BY <1>1, InsertStruct
<1>2. ASSUME NEW b \in Number, RemoveNiBlock(b) PROVE Struct'
  BY <1>2, RemoveStruct
<1>3. ASSUME NEW src \in Number, NEW dst \in Number, MoveNiBlock(src, dst) PROVE Struct'
  BY <1>3, MoveStruct
<1>4. ASSUME NEW order \in Orders, ReorderBlocks(order) PROVE Struct'
  BY <1>4, ReorderStruct
<1>5. ASSUME NEW from \in Number, NEW to \in Number, MapLinks(from, to) PROVE Struct'
  BY <1>5, MapLinksStruct
<1>6. ASSUME NEW o \in Obj, NEW t \in Type, ConvertNiBlock(o, t) PROVE Struct'
  BY <1>6, ConvertFields, FieldsStruct
<1>7. ASSUME NEW o \in Obj, NEW f \in Field, NEW l \in Link, SetLink(o, f, l) PROVE Struct'
  BY <1>7, SetLinkFields, FieldsStruct
<1>8. ASSUME NEW o \in Obj, NEW n \in 0 .. MaxKids, SetCount(o, n) \/ ResizeArray(o, n) PROVE Struct'
  BY <1>8, SetCountFields, ResizeArrayFields, FieldsStruct
<1>9. ASSUME NEW o \in Obj, UpdateArray(o) PROVE Struct'
  BY <1>9, UpdateArrayFields, FieldsStruct
<1>10. ASSUME NEW o \in Obj, NEW saved \in Obj, NEW map \in LinkMaps, LoadIndex(o, saved, map)
       PROVE  Struct'
  BY <1>10, LoadIndexFields, FieldsStruct
<1>11. CASE HoldUpdates \/ CastBegin
  <2>1. UNCHANGED <<count, block, item, needUpdates>> /\ lockUpdates' \in BOOLEAN
    BY <1>11 DEF HoldUpdates, CastBegin, struct, Struct, StructOK
  <2>2. Number' = Number /\ Live' = Live
    BY <2>1 DEF Number, Live
  <2> QED BY <2>1, <2>2 DEF Struct, StructOK, NumberedOnce
<1>12. CASE ReleaseUpdates
  BY <1>12, RefreshStruct DEF ReleaseUpdates, Struct, StructOK, Updates
<1>13. CASE CastEnd
  BY <1>13, RefreshStruct DEF CastEnd, Struct, StructOK, Updates
<1>14. CASE Save
  BY <1>14, RefreshStruct DEF Save, Struct, StructOK, Updates
<1>15. CASE UNCHANGED vars
  BY <1>15 DEF vars, struct, Struct, StructOK, NumberedOnce, Number, Live
<1> QED BY <1>1, <1>2, <1>3, <1>4, <1>5, <1>6, <1>7, <1>8, <1>9, <1>10, <1>11, <1>12, <1>13,
           <1>14, <1>15 DEF Next

\* No sequence of insertions, removals, moves and reorderings gives a block two
\* numbers.
THEOREM BlocksNumberedOnce == Spec => []NumberedOnce
<1>1. Struct => NumberedOnce BY DEF Struct
<1> QED BY <1>1, InitStruct, NextStruct, PTL DEF Spec

------------------------------------------------------------------------------
(* The caches: whatever a handler leaves undone is on the list of updates. *)

Cached == Struct /\ StaleIsNoted

\* An unlocked Refresh that runs updateLinks computes the caches anew.
LEMMA RefreshFresh ==
  ASSUME NEW todo, NEW itm, NEW ftr, Refresh(FALSE, todo, itm, ftr), "links" \in todo
  PROVE  Fresh'
BY DEF Refresh, Fresh

\* One that does not run it computes them anew if it resizes an array, and
\* otherwise changes nothing they depend on.
LEMMA RefreshKeepsFresh ==
  ASSUME Fresh, NEW todo, NEW ftr, Refresh(FALSE, todo, item, ftr), UNCHANGED <<count, block>>
  PROVE  Fresh'
<1> DEFINE synced == IF "header" \in todo THEN SyncArrays(count', block', item) ELSE item
<1>1. item' = synced
  BY DEF Refresh
<1>2. CASE synced # item \/ "links" \in todo
  BY <1>2 DEF Refresh, Fresh
<1>3. CASE synced = item /\ "links" \notin todo
  <2>1. item' = item /\ UNCHANGED caches
    BY <1>1, <1>3 DEF Refresh
  <2> QED BY <2>1 DEF Fresh, caches
<1> QED BY <1>2, <1>3

\* A handler that calls updateLinks, or has it noted.
LEMMA UpdateNotes ==
  ASSUME StructOK, StaleIsNoted, NEW todo, NEW itm, NEW ftr, Update(todo, itm, ftr), "links" \in todo
  PROVE  StaleIsNoted'
<1>1. CASE lockUpdates
  BY <1>1 DEF Update, StaleIsNoted
<1>2. CASE ~lockUpdates
  <2>1. lockUpdates = FALSE
    BY <1>2 DEF StructOK
  <2>2. Fresh'
    BY <2>1, RefreshFresh DEF Update
  <2> QED BY <2>1, <2>2 DEF Update, StaleIsNoted
<1> QED BY <1>1, <1>2

\* A handler that calls none of the updates leaves what the caches depend on.
LEMMA UpdateNothing ==
  ASSUME StructOK, StaleIsNoted, NEW itm, NEW ftr, Update({}, itm, ftr), UNCHANGED <<count, block>>,
         ChildLinksOf(count, block, itm) = ChildLinksOf(count, block, item),
         ParentLinksOf(count, block, itm) = ParentLinksOf(count, block, item)
  PROVE  StaleIsNoted'
<1>1. item' = itm /\ UNCHANGED caches
  BY DEF Update, Refresh
<1>2. Fresh' = Fresh
  BY <1>1 DEF Fresh, caches
<1> QED BY <1>2 DEF Update, StaleIsNoted

\* The steps of a spell and the save.
LEMMA RefreshNotes ==
  ASSUME StructOK, StaleIsNoted, NEW todo, Refresh(lockUpdates, todo, item, footer),
         UNCHANGED <<count, block, lockUpdates>>,
         needUpdates' = IF lockUpdates THEN needUpdates \cup todo ELSE needUpdates
  PROVE  StaleIsNoted'
<1>1. CASE lockUpdates
  <2>1. item' = item /\ UNCHANGED caches
    BY <1>1 DEF Refresh
  <2>2. Fresh' = Fresh
    BY <2>1 DEF Fresh, caches
  <2> QED BY <1>1, <2>2 DEF StaleIsNoted
<1>2. CASE ~lockUpdates
  <2>1. lockUpdates = FALSE /\ Fresh /\ needUpdates = {}
    BY <1>2 DEF StructOK, StaleIsNoted
  <2>2. Fresh'
    BY <2>1, RefreshKeepsFresh
  <2> QED BY <2>1, <2>2 DEF StaleIsNoted
<1> QED BY <1>1, <1>2

\* An edited size field changes nothing the caches depend on.
LEMMA SetCountNotes ==
  ASSUME Cached, NEW o \in Obj, NEW n \in 0 .. MaxKids, SetCount(o, n) PROVE StaleIsNoted'
<1> DEFINE itm == [item EXCEPT ![o].num = n]
<1>1. UNCHANGED <<count, block>> /\ Update({}, itm, footer)
  BY DEF SetCount
<1>2. \A p \in Obj : itm[p].rows = item[p].rows /\ itm[p].link = item[p].link
  BY SMT DEF Cached, Struct, StructOK, Items
<1>3. \A b \in Number : block[b] \in Obj
  BY DEF Cached, Struct, StructOK
<1> HIDE DEF itm
<1>4. \A b \in 0 .. count - 1 : /\ ChildrenOf(itm[block[b]]) = ChildrenOf(item[block[b]])
                              /\ ParentsOf(itm[block[b]]) = ParentsOf(item[block[b]])
  BY <1>2, <1>3 DEF ChildrenOf, ParentsOf, Number
<1>5. /\ ChildLinksOf(count, block, itm) = ChildLinksOf(count, block, item)
      /\ ParentLinksOf(count, block, itm) = ParentLinksOf(count, block, item)
  BY <1>4 DEF ChildLinksOf, ParentLinksOf
<1> QED BY <1>1, <1>5, UpdateNothing DEF Cached, Struct

\* updateArrayItem refreshes the caches if the number of rows changes, and needs not if it does not.
LEMMA UpdateArrayNotes ==
  ASSUME Cached, NEW o \in Obj, UpdateArray(o) PROVE StaleIsNoted'
<1>1. CASE item[o].rows # item[o].num
  BY <1>1, UpdateNotes DEF UpdateArray, Cached, Struct
<1>2. CASE item[o].rows = item[o].num
  <2>1. ResizeRows(item[o]) = item[o]
    BY <1>2, ResizeIdle DEF Cached, Struct, StructOK
  <2>2. [item EXCEPT ![o] = ResizeRows(item[o])] = item
    BY <2>1 DEF Cached, Struct, StructOK
  <2>3. UNCHANGED <<count, block>> /\ Update({}, item, footer)
    BY <1>2, <2>2 DEF UpdateArray
  <2> QED BY <2>3, UpdateNothing DEF Cached, Struct
<1> QED BY <1>1, <1>2

\* No operation makes a cache stale without noting it.
LEMMA NextNotes == Cached /\ [Next]_vars => StaleIsNoted'
<1> SUFFICES ASSUME Cached, [Next]_vars PROVE StaleIsNoted'
  OBVIOUS
<1> USE DEF Cached, Struct
<1>1. ASSUME NEW o \in Obj, NEW t \in Type, NEW at \in -1 .. count, InsertNiBlock(o, t, at)
      PROVE  StaleIsNoted'
  BY <1>1, UpdateNotes DEF InsertNiBlock
<1>2. ASSUME NEW b \in Number, RemoveNiBlock(b) PROVE StaleIsNoted'
  BY <1>2, UpdateNotes DEF RemoveNiBlock
<1>3. ASSUME NEW src \in Number, NEW dst \in Number, MoveNiBlock(src, dst) PROVE StaleIsNoted'
  BY <1>3, UpdateNotes DEF MoveNiBlock
<1>4. ASSUME NEW order \in Orders, ReorderBlocks(order) PROVE StaleIsNoted'
  BY <1>4, UpdateNotes DEF ReorderBlocks
<1>5. ASSUME NEW from \in Number, NEW to \in Number, MapLinks(from, to) PROVE StaleIsNoted'
  BY <1>5, UpdateNotes DEF MapLinks
<1>6. ASSUME NEW o \in Obj, NEW t \in Type, ConvertNiBlock(o, t) PROVE StaleIsNoted'
  BY <1>6, UpdateNotes DEF ConvertNiBlock
<1>7. ASSUME NEW o \in Obj, NEW f \in Field, NEW l \in Link, SetLink(o, f, l) PROVE StaleIsNoted'
  BY <1>7, UpdateNotes DEF SetLink
<1>8. ASSUME NEW o \in Obj, NEW n \in 0 .. MaxKids, ResizeArray(o, n) PROVE StaleIsNoted'
  BY <1>8, UpdateNotes DEF ResizeArray
<1>9. ASSUME NEW o \in Obj, NEW saved \in Obj, NEW map \in LinkMaps, LoadIndex(o, saved, map)
      PROVE  StaleIsNoted'
  BY <1>9, UpdateNotes DEF LoadIndex
<1>10. CASE HoldUpdates
  BY <1>10 DEF HoldUpdates, struct, caches, StaleIsNoted, Fresh
<1>11. CASE CastBegin
  BY <1>11 DEF CastBegin, struct, caches, StaleIsNoted, Fresh
<1>12. CASE ReleaseUpdates
  <2>1. Refresh(FALSE, needUpdates, item, footer) /\ UNCHANGED <<count, block>> /\ needUpdates' = {}
    BY <1>12 DEF ReleaseUpdates
  <2>2. Fresh'
    BY <2>1, RefreshFresh, RefreshKeepsFresh DEF StaleIsNoted
  <2> QED BY <2>1, <2>2 DEF StaleIsNoted
<1>13. CASE CastEnd
  BY <1>13, RefreshNotes DEF CastEnd
<1>14. CASE Save
  BY <1>14, RefreshNotes DEF Save
<1>15. CASE UNCHANGED vars
  BY <1>15 DEF vars, struct, caches, StaleIsNoted, Fresh
<1> QED BY <1>1, <1>2, <1>3, <1>4, <1>5, <1>6, <1>7, <1>8, <1>9, <1>10, <1>11, <1>12, <1>13,
           <1>14, <1>15, SetCountNotes, UpdateArrayNotes DEF Next

\* The structure and the notes together are invariant.
LEMMA CachedInvariant == Spec => []Cached
<1>1. Init => Cached
  BY InitStruct DEF Init, Cached, StaleIsNoted, Fresh
<1>2. Cached /\ [Next]_vars => Cached'
  BY NextStruct, NextNotes DEF Cached
<1> QED BY <1>1, <1>2, PTL DEF Spec

\* Whoever reads the link caches reads what the fields say, unless an update is held
\* back, and then it is noted.
THEOREM StaleCachesNoted == Spec => []StaleIsNoted
<1>1. Cached => StaleIsNoted BY DEF Cached
<1> QED BY <1>1, CachedInvariant, PTL

------------------------------------------------------------------------------
(* The header and the footer, and the roots they come from. *)

\* The roots of a list of blocks are numbers of its blocks.
LEMMA RootsType ==
  ASSUME NEW n \in 0 .. MaxLink + 1, NEW blk \in [0 .. n - 1 -> Obj], NEW itm \in [Obj -> Items]
  PROVE  RootLinks(ChildLinksOf(n, blk, itm)) \in Seq(Link)
<1> DEFINE raw == [b \in 0 .. n - 1 |-> ChildrenOf(itm[blk[b]])]
<1>1. n \in Nat /\ 0 .. n - 1 \subseteq Link
  BY BoundsAssumption DEF Link
<1>2. \A i \in Items : ChildrenOf(i) \in Seq(Nat)
  <2> SUFFICES ASSUME NEW i \in Items PROVE ChildrenOf(i) \in Seq(Nat)
    OBVIOUS
  <2> DEFINE list == [r \in 1 .. i.rows |-> i.link[r]]
  <2>1. i.rows \in Nat /\ \A r \in 1 .. i.rows : i.link[r] \in Int
    BY BoundsAssumption DEF Items, Field, Link
  <2>2. list \in Seq(Int)
    BY <2>1
  <2> HIDE DEF list
  <2>3. CollectLinks(list) \in Seq(Nat)
    BY <2>2, CollectLinksMembers
  <2> QED BY <2>3 DEF ChildrenOf, list
<1>3. raw \in Caches(0 .. n - 1)
  BY <1>2 DEF Caches
<1> HIDE DEF raw
<1>4. CheckLinks(raw) \in Caches(0 .. n - 1)
  BY <1>1, <1>3, CheckLinksPromise
<1> DEFINE roots == RootLinks(CheckLinks(raw))
<1>5. roots \in Seq(Nat) /\ ToSet(roots) \subseteq 0 .. n - 1
  BY <1>1, <1>4, RootLinksMembers
<1>6. ChildLinksOf(n, blk, itm) = CheckLinks(raw)
  BY DEF ChildLinksOf, raw
<1> HIDE DEF roots
<1>7. roots \in Seq(Link)
  <2>1. DOMAIN roots = 1 .. Len(roots) /\ Len(roots) \in Nat
    BY <1>5
  <2>2. \A i \in DOMAIN roots : roots[i] \in ToSet(roots)
    BY DEF ToSet
  <2>3. \A i \in 1 .. Len(roots) : roots[i] \in Link
    BY <2>1, <2>2, <1>1, <1>5
  <2>4. roots = [i \in 1 .. Len(roots) |-> roots[i]]
    BY <1>5
  <2> QED BY <2>1, <2>3, <2>4
<1> QED BY <1>6, <1>7 DEF roots

\* The block table of a list of blocks.
LEMMA HeaderOfType ==
  ASSUME NEW n \in 0 .. MaxLink + 1, NEW blk \in [0 .. n - 1 -> Obj], NEW itm \in [Obj -> Items]
  PROVE  HeaderOf(n, blk, itm) \in HeaderType
<1>1. \A b \in 0 .. n - 1 : itm[blk[b]].type \in Type
  BY DEF Items
<1>2. HeaderOf(n, blk, itm) \in [num : {n}, types : [0 .. n - 1 -> Type]]
  BY <1>1 DEF HeaderOf
<1> QED BY <1>2 DEF HeaderType

\* What updateHeader, updateLinks and updateFooter leave, now or when last run.
Summaries == header \in HeaderType /\ footer \in Seq(Link) /\ rootLinks \in Seq(Link)

\* The tail of a handler leaves summaries of their types.
LEMMA RefreshSummaries ==
  ASSUME Struct', Summaries, NEW locked, NEW todo, NEW itm, NEW ftr \in Seq(Link),
         Refresh(locked, todo, itm, ftr)
  PROVE  Summaries'
<1>1. count' \in 0 .. MaxLink + 1 /\ block' \in [0 .. count' - 1 -> Obj] /\ item' \in [Obj -> Items]
  BY DEF Struct, StructOK, Number
<1>2. /\ RootLinks(ChildLinksOf(count', block', item')) \in Seq(Link)
      /\ HeaderOf(count', block', item') \in HeaderType
  BY <1>1, RootsType, HeaderOfType
<1>3. CASE locked
  BY <1>3 DEF Refresh, Summaries, caches
<1>4. CASE ~locked
  <2>1. header' \in {header, HeaderOf(count', block', item')}
    BY <1>4 DEF Refresh
  <2>2. rootLinks' \in {rootLinks, RootLinks(ChildLinksOf(count', block', item'))}
    BY <1>4 DEF Refresh, caches
  <2>3. footer' \in {ftr, rootLinks'}
    BY <1>4 DEF Refresh
  <2> QED BY <1>2, <2>1, <2>2, <2>3 DEF Summaries
<1> QED BY <1>3, <1>4

\* A renumbered list of links.
LEMMA RenumberListType ==
  ASSUME NEW list \in Seq(Link), NEW map, \A i \in DOMAIN list : map[list[i]] \in Link
  PROVE  RenumberList(list, map) \in Seq(Link)
<1>1. DOMAIN list = 1 .. Len(list) /\ Len(list) \in Nat
  OBVIOUS
<1> QED BY <1>1 DEF RenumberList

\* The footer as a handler hands it on: renumbered, or as it was.
LEMMA InsertSummaries ==
  ASSUME Struct', Struct, Summaries, NEW o \in Obj, NEW t \in Type, NEW at \in -1 .. count,
         InsertNiBlock(o, t, at)
  PROVE  Summaries'
<1> DEFINE map == IF at < 0 THEN Same ELSE AdjustLinks(at, 1)
           itm == [RenumberItems(item, map) EXCEPT ![o] = NewItem(t)]
           ftr == RenumberList(footer, map)
<1>1. Refresh(lockUpdates, {"header", "links", "footer"}, itm, ftr)
  BY DEF InsertNiBlock, Update
<1>2. \A i \in DOMAIN footer : footer[i] \in Link
  BY DEF Summaries
<1>3. \A i \in DOMAIN footer : map[footer[i]] \in Link
  <2>1. CASE at < 0
    BY <1>2, <2>1 DEF Same
  <2>2. CASE at >= 0
    <3>1. at \in Nat /\ map = AdjustLinks(at, 1)
      BY <2>2 DEF Struct, StructOK
    <3>2. \A i \in DOMAIN footer : footer[i] < MaxLink
      BY <2>2 DEF InsertNiBlock
    <3> QED BY <1>2, <3>1, <3>2, AdjustOK
  <2>3. at \in Int
    BY BoundsAssumption DEF Struct, StructOK
  <2> QED BY <2>1, <2>2, <2>3
<1> HIDE DEF map
<1>4. ftr \in Seq(Link)
  BY <1>3, RenumberListType DEF Summaries
<1> HIDE DEF ftr, itm
<1> QED BY <1>1, <1>4, RefreshSummaries

\* removeNiBlock renumbers the footer twice.
LEMMA RemoveSummaries ==
  ASSUME Struct', Struct, Summaries, NEW b \in Number, RemoveNiBlock(b)
  PROVE  Summaries'
<1> DEFINE cleared == RenumberItems(item, AdjustLinks(b, 0))
           roots == RenumberList(footer, AdjustLinks(b, 0))
           itm == [RenumberItems(cleared, AdjustLinks(b, -1)) EXCEPT ![block[b]] = NoItem]
           ftr == RenumberList(roots, AdjustLinks(b, -1))
<1>1. Refresh(lockUpdates, {"links", "footer"}, itm, ftr)
  BY DEF RemoveNiBlock, Update
<1>2. /\ AdjustLinks(b, 0) \in [Link -> Link]
      /\ AdjustLinks(b, -1) \in [Link -> Link]
  <2>1. b \in Nat BY BoundsAssumption DEF Number, Struct, StructOK
  <2> QED BY <2>1, AdjustOK
<1>3. roots \in Seq(Link)
  BY <1>2, RenumberListType DEF Summaries
<1> HIDE DEF roots
<1>4. ftr \in Seq(Link)
  BY <1>2, <1>3, RenumberListType
<1> HIDE DEF ftr, itm
<1> QED BY <1>1, <1>4, RefreshSummaries

\* The operations that renumber by a map of block numbers.
LEMMA MappedSummaries ==
  ASSUME Struct', Struct, Summaries, NEW S, NEW map \in [S -> Number], NEW todo, NEW itm,
         Update(todo, itm, RenumberList(footer, Mapped(map)))
  PROVE  Summaries'
<1> DEFINE ftr == RenumberList(footer, Mapped(map))
<1>1. Mapped(map) \in [Link -> Link]
  BY NumberIsLink, MappedOK DEF Struct
<1>2. ftr \in Seq(Link)
  BY <1>1, RenumberListType DEF Summaries
<1>3. Refresh(lockUpdates, todo, itm, ftr)
  BY DEF Update
<1> HIDE DEF ftr
<1> QED BY <1>2, <1>3, RefreshSummaries

\* The operations that leave the footer to the updates.
LEMMA KeptSummaries ==
  ASSUME Struct', Summaries, NEW locked, NEW todo, NEW itm, Refresh(locked, todo, itm, footer)
  PROVE  Summaries'
  BY RefreshSummaries DEF Summaries

\* Every operation leaves summaries of their types.
LEMMA NextSummaries == Struct /\ Struct' /\ Summaries /\ [Next]_vars => Summaries'
<1> SUFFICES ASSUME Struct, Struct', Summaries, [Next]_vars PROVE Summaries'
  OBVIOUS
<1>1. ASSUME NEW o \in Obj, NEW t \in Type, NEW at \in -1 .. count, InsertNiBlock(o, t, at)
      PROVE  Summaries'
  BY <1>1, InsertSummaries
<1>2. ASSUME NEW b \in Number, RemoveNiBlock(b) PROVE Summaries'
  BY <1>2, RemoveSummaries
<1>3. ASSUME NEW src \in Number, NEW dst \in Number, MoveNiBlock(src, dst) PROVE Summaries'
  <2>1. MoveMap(src, dst) \in [IF src < dst THEN src .. dst ELSE dst .. src -> Number]
    <3>1. count \in Nat BY BoundsAssumption DEF Struct, StructOK
    <3> QED BY <3>1, SMT DEF MoveMap, Number
  <2>2. Update({"links", "header", "footer"}, RenumberItems(item, Mapped(MoveMap(src, dst))),
               RenumberList(footer, Mapped(MoveMap(src, dst))))
    BY <1>3 DEF MoveNiBlock
  <2> QED BY <2>1, <2>2, MappedSummaries
<1>4. ASSUME NEW order \in Orders, ReorderBlocks(order) PROVE Summaries'
  <2>1. order \in [Number -> Number] BY DEF Orders
  <2>2. Update({"links", "header", "footer"}, RenumberItems(item, Mapped(order)),
               RenumberList(footer, Mapped(order)))
    BY <1>4 DEF ReorderBlocks
  <2> QED BY <2>1, <2>2, MappedSummaries
<1>5. ASSUME NEW from \in Number, NEW to \in Number, MapLinks(from, to) PROVE Summaries'
  <2> DEFINE map == [n \in {from} |-> to]
  <2>1. map \in [{from} -> Number] OBVIOUS
  <2>2. Update({"links", "header", "footer"}, RenumberItems(item, Mapped(map)),
               RenumberList(footer, Mapped(map)))
    BY <1>5 DEF MapLinks
  <2> HIDE DEF map
  <2> QED BY <2>1, <2>2, MappedSummaries
<1>6. CASE \E todo, itm : Update(todo, itm, footer)
  BY <1>6, KeptSummaries DEF Update
<1>7. CASE \E locked, todo : Refresh(locked, todo, item, footer)
  BY <1>7, KeptSummaries
<1>8. CASE UNCHANGED <<header, footer, caches>>
  BY <1>8 DEF Summaries, caches
<1>9. ASSUME NEW o \in Obj, NEW t \in Type, ConvertNiBlock(o, t) PROVE Summaries'
  BY <1>6, <1>9 DEF ConvertNiBlock
<1>10. ASSUME NEW o \in Obj, NEW f \in Field, NEW l \in Link, SetLink(o, f, l) PROVE Summaries'
  BY <1>6, <1>10 DEF SetLink
<1>11. ASSUME NEW o \in Obj, NEW n \in 0 .. MaxKids, SetCount(o, n) \/ ResizeArray(o, n)
       PROVE  Summaries'
  BY <1>6, <1>11 DEF SetCount, ResizeArray
<1>12. ASSUME NEW o \in Obj, UpdateArray(o) PROVE Summaries'
  BY <1>6, <1>12 DEF UpdateArray
<1>13. ASSUME NEW o \in Obj, NEW saved \in Obj, NEW map \in LinkMaps, LoadIndex(o, saved, map)
       PROVE  Summaries'
  BY <1>6, <1>13 DEF LoadIndex
<1>14. CASE ReleaseUpdates \/ CastEnd \/ Save
  BY <1>7, <1>14 DEF ReleaseUpdates, CastEnd, Save
<1>15. CASE HoldUpdates \/ CastBegin \/ UNCHANGED vars
  BY <1>8, <1>15 DEF HoldUpdates, CastBegin, vars
<1> QED BY <1>1, <1>2, <1>3, <1>4, <1>5, <1>9, <1>10, <1>11, <1>12, <1>13, <1>14, <1>15 DEF Next

\* A spell runs or not, a file is written or not.
LEMMA NextFlags ==
  casting \in BOOLEAN /\ written \in BOOLEAN /\ [Next]_vars
  => casting' \in BOOLEAN /\ written' \in BOOLEAN
  BY DEF Next, Update, InsertNiBlock, RemoveNiBlock, MoveNiBlock, ReorderBlocks, MapLinks, ConvertNiBlock,
         SetLink, SetCount, ResizeArray, UpdateArray, LoadIndex, HoldUpdates, ReleaseUpdates, CastBegin,
         CastEnd, Save, vars

\* Type correctness of the whole model: the block table counts the blocks it lists, and
\* the roots are link values, before and after every renumbering.
THEOREM TypesHold == Spec => []TypeOK
<1> DEFINE Typed == Struct /\ Summaries /\ casting \in BOOLEAN /\ written \in BOOLEAN
<1>1. Init => Typed
  <2> SUFFICES ASSUME NEW file \in Files, count = file.count, block = file.block, item = file.item,
                      header = HeaderOf(count, block, item), footer = file.footer,
                      rootLinks = RootLinks(ChildLinksOf(count, block, item)), Struct
               PROVE  Summaries
    BY InitStruct DEF Init
  <2>1. footer \in Seq(Link)
    BY FilesAssumption DEF FileOK
  <2> QED BY <2>1, RootsType, HeaderOfType DEF Summaries, Struct, StructOK, Number
<1>2. Typed /\ [Next]_vars => Typed'
  BY NextStruct, NextSummaries, NextFlags
<1>3. Typed => TypeOK
  BY DEF Summaries, Struct, TypeOK
<1> QED BY <1>1, <1>2, <1>3, PTL DEF Spec

------------------------------------------------------------------------------
(* Saving: the file that save() writes describes itself. *)

Saved == Cached /\ WrittenFileDescribesItself

\* What save() writes describes itself, unless updates are held.
LEMMA SaveDescribes == ASSUME Cached, Save PROVE WrittenFileDescribesItself'
<1> SUFFICES ASSUME ~lockUpdates
             PROVE  header' = HeaderOf(count', block', item') /\ footer' = RootLinks(ChildLinksOf(count', block', item'))
  BY DEF Save, WrittenFileDescribesItself
<1>1. lockUpdates = FALSE /\ Fresh
  BY DEF Cached, Struct, StructOK, StaleIsNoted
<1>2. Refresh(FALSE, {"header", "footer"}, item, footer) /\ UNCHANGED <<count, block>>
  BY <1>1 DEF Save
<1>3. Fresh'
  BY <1>1, <1>2, RefreshKeepsFresh
<1>4. header' = HeaderOf(count', block', item') /\ footer' = rootLinks'
  BY <1>2 DEF Refresh
<1> QED BY <1>3, <1>4 DEF Fresh

\* What save() writes has the block table and the roots of the blocks written, if
\* updates are not held back.
THEOREM SavedFileDescribesItself == Spec => []WrittenFileDescribesItself
<1>1. Init => WrittenFileDescribesItself
  BY DEF Init, WrittenFileDescribesItself
<1>2. Cached /\ WrittenFileDescribesItself /\ [Next]_vars => WrittenFileDescribesItself'
  <2> SUFFICES ASSUME Cached, WrittenFileDescribesItself, [Next]_vars PROVE WrittenFileDescribesItself'
    OBVIOUS
  <2>1. CASE Save BY <2>1, SaveDescribes
  <2>2. CASE HoldUpdates BY <2>2 DEF HoldUpdates, WrittenFileDescribesItself
  <2>3. CASE CastBegin \/ UNCHANGED vars
    BY <2>3 DEF CastBegin, vars, struct, caches, WrittenFileDescribesItself
  <2>4. CASE written' = FALSE BY <2>4 DEF WrittenFileDescribesItself
  <2>5. Save \/ HoldUpdates \/ CastBegin \/ UNCHANGED vars \/ written' = FALSE
    BY DEF Next, Update, InsertNiBlock, RemoveNiBlock, MoveNiBlock, ReorderBlocks, MapLinks, ConvertNiBlock,
           SetLink, SetCount, ResizeArray, UpdateArray, LoadIndex, ReleaseUpdates, CastEnd
  <2> QED BY <2>1, <2>2, <2>3, <2>4, <2>5
<1> QED BY <1>1, <1>2, CachedInvariant, PTL DEF Spec

------------------------------------------------------------------------------
(***************************************************************************)
(* NifBlocks implements NifGraph: every operation on the numbered list of  *)
(* blocks is an operation on the graph the blocks' links make, or none.    *)
(***************************************************************************)

Tgt(l) == Target(count, block, l)

\* Where the links of an item lead, in a list of n blocks.
Seen(n, blk, i) == [f \in Field |-> IF f > i.num THEN "null" ELSE Target(n, blk, i.link[f])]

\* The abstract links of a block are those its item shows.
LEMMA RefsSeen ==
  Refs = [o \in Obj |-> IF o \in Live THEN Seen(count, block, item[o]) ELSE [f \in Field |-> "null"]]
BY DEF Refs, Refers, Seen

\* Deleting the rows beyond the size field changes no abstract link.
LEMMA SeenResized ==
  ASSUME NEW i \in Items, NEW n, NEW blk PROVE Seen(n, blk, ResizeRows(i)) = Seen(n, blk, i)
<1>1. /\ ResizeRows(i).num = i.num
      /\ \A f \in Field : ~(f > i.num) => ResizeRows(i).link[f] = i.link[f]
  BY DEF ResizeRows
<1> QED BY <1>1, Zenon DEF Seen

\* Renumbering an item's links: what each one leads to is what the map makes of it.
LEMMA SeenRenumbered ==
  ASSUME NEW i \in Items, NEW map, NEW n, NEW blk
  PROVE  Seen(n, blk, RenumberItem(i, map)) =
           [f \in Field |-> IF f > i.num THEN "null" ELSE Target(n, blk, map[i.link[f]])]
<1>1. /\ RenumberItem(i, map).num = i.num
      /\ \A f \in Field : RenumberItem(i, map).link[f] = map[i.link[f]]
  BY SMT DEF RenumberItem, Items
<1> QED BY <1>1, Zenon DEF Seen

\* The tail of a handler does not change where the links lead.
LEMMA RefsAfter ==
  ASSUME NEW locked, NEW todo, NEW itm, NEW ftr, ItemsOK(itm), Refresh(locked, todo, itm, ftr)
  PROVE  Refs' = [o \in Obj |-> IF o \in Live' THEN Seen(count', block', itm[o])
                                               ELSE [f \in Field |-> "null"]]
<1>1. Refs' = [o \in Obj |-> IF o \in Live' THEN Seen(count', block', item'[o])
                                            ELSE [f \in Field |-> "null"]]
  BY DEF Refs, Refers, Seen
<1>2. \A o \in Obj : Seen(count', block', item'[o]) = Seen(count', block', itm[o])
  BY RefreshItems, SeenResized DEF ItemsOK
<1> QED BY <1>1, <1>2

\* Every link leads to a block of the list, to none, or to a number no block has.
LEMMA TargetTyped ==
  ASSUME StructOK, NEW l \in Int PROVE Tgt(l) \in Live \cup {"null", "dangling"}
BY SMT DEF StructOK, Tgt, Target, Live, Number

\* So the abstract links of an item are targets of the graph.
LEMMA SeenTyped ==
  ASSUME StructOK, NEW i \in Items
  PROVE  Seen(count, block, i) \in [Field -> Live \cup {"null", "dangling"}]
<1>1. \A f \in Field : i.link[f] \in Int
  BY SMT DEF Items, Link
<1> QED BY <1>1, TargetTyped DEF Seen, Tgt

\* Writing the fields of one block is a Rewrite of that block.
LEMMA FieldsRewrite ==
  ASSUME Struct, NEW o \in Obj, FieldsStep(o)
  PROVE  o \in Live /\ Graph!Rewrite(o)
<1>1. PICK i \in Items, todo \in SUBSET Updates :
        ItemOK(i) /\ Update(todo, [item EXCEPT ![o] = i], footer)
  BY DEF FieldsStep
<1> DEFINE itm == [item EXCEPT ![o] = i]
<1>2. o \in Live /\ Live' = Live
  BY DEF FieldsStep, Live, Number
<1>3. ItemsOK(itm)
  BY <1>1 DEF ItemsOK, ItemOK, Struct, StructOK
<1>4. Refresh(lockUpdates, todo, itm, footer) /\ count' = count /\ block' = block
  BY <1>1 DEF Update, FieldsStep
<1>5. itm[o] = i /\ \A p \in Obj \ {o} : itm[p] = item[p]
  BY <1>2 DEF Struct, StructOK
<1> HIDE DEF itm
<1>6. Refs' = [p \in Obj |-> IF p \in Live THEN Seen(count, block, itm[p]) ELSE [f \in Field |-> "null"]]
  BY <1>2, <1>3, <1>4, RefsAfter
<1>7. Refs' = [Refs EXCEPT ![o] = Seen(count, block, i)]
  <2>1. \A p \in Obj : p # o => Refs'[p] = Refs[p]
    BY <1>5, <1>6, RefsSeen
  <2>2. Refs'[o] = Seen(count, block, i)
    BY <1>2, <1>5, <1>6
  <2>3. Refs = [p \in Obj |-> Refs[p]] /\ Refs' = [p \in Obj |-> Refs'[p]]
    BY DEF Refs
  <2> QED BY <1>2, <2>1, <2>2, <2>3
<1>8. Seen(count, block, i) \in [Field -> Live \cup {"null", "dangling"}]
  BY SeenTyped DEF Struct
<1>9. Refs'[o] = Seen(count, block, i)
  BY <1>7 DEF Refs
<1> QED BY <1>2, <1>7, <1>8, <1>9 DEF Graph!Rewrite, Graph!Targets

\* RenumberItems under an Update that leaves the blocks as they are, or permutes them.
LEMMA RenumberRefs ==
  ASSUME Struct, NEW map, map[-1] = -1, \A o \in Obj, f \in Field : map[item[o].link[f]] \in Link,
         NEW todo, NEW ftr, Update(todo, RenumberItems(item, map), ftr), Live' = Live
  PROVE  Refs' = [o \in Obj |-> IF o \in Live
                   THEN [f \in Field |-> IF f > item[o].num THEN "null"
                                         ELSE Target(count', block', map[item[o].link[f]])]
                   ELSE [f \in Field |-> "null"]]
<1> DEFINE itm == RenumberItems(item, map)
<1>1. ItemsOK(itm)
  BY RenumberItemsOK DEF Struct
<1>2. \A o \in Obj : itm[o] = RenumberItem(item[o], map)
  BY DEF RenumberItems
<1> HIDE DEF itm
<1>3. Refs' = [o \in Obj |-> IF o \in Live THEN Seen(count', block', itm[o]) ELSE [f \in Field |-> "null"]]
  BY <1>1, RefsAfter DEF Update, itm
<1>4. \A o \in Obj : Seen(count', block', itm[o]) =
        [f \in Field |-> IF f > item[o].num THEN "null" ELSE Target(count', block', map[item[o].link[f]])]
  BY <1>2, SeenRenumbered DEF Struct, StructOK
<1> QED BY <1>3, <1>4

\* A permutation of the list that the links follow is no step of the graph.
LEMMA PermuteRefs ==
  ASSUME Struct, NEW map, map \in [Link -> Link], map[-1] = -1, NEW todo, NEW ftr,
         Update(todo, RenumberItems(item, map), ftr), Live' = Live,
         \A l \in Link : Target(count', block', map[l]) = Target(count, block, l)
  PROVE  UNCHANGED <<Live, Refs>>
<1>1. \A o \in Obj, f \in Field : /\ item[o].link[f] \in Link
                                /\ map[item[o].link[f]] \in Link
  BY LinkTyped DEF Struct
<1>2. Refs' = [o \in Obj |-> IF o \in Live
                 THEN [f \in Field |-> IF f > item[o].num THEN "null"
                                       ELSE Target(count', block', map[item[o].link[f]])]
                 ELSE [f \in Field |-> "null"]]
  BY <1>1, RenumberRefs
<1>3. \A o \in Obj : [f \in Field |-> IF f > item[o].num THEN "null"
                                     ELSE Target(count', block', map[item[o].link[f]])]
                   = Seen(count, block, item[o])
  BY <1>1 DEF Seen
<1> QED BY <1>2, <1>3, RefsSeen

\* moveNiBlock: the map sends each number to where its block went.
LEMMA MoveRefs ==
  ASSUME Struct, NEW src \in Number, NEW dst \in Number, MoveNiBlock(src, dst)
  PROVE  UNCHANGED <<Live, Refs>>
<1> DEFINE map == Mapped(MoveMap(src, dst))
<1>1. /\ count' = count
      /\ block' = With(Without(block, count, src), count - 1, dst, block[src])
      /\ Update({"links", "header", "footer"}, RenumberItems(item, map), RenumberList(footer, map))
  BY DEF MoveNiBlock
<1>2. count \in Nat /\ src \in Nat /\ dst \in Nat /\ src < count /\ dst < count
  BY BoundsAssumption, SMT DEF Struct, StructOK, Number
<1>3. /\ MoveMap(src, dst) \in [IF src < dst THEN src .. dst ELSE dst .. src -> Number]
  BY <1>2, SMT DEF MoveMap, Number
<1>4. map \in [Link -> Link] /\ map[-1] = -1
  BY <1>3, NumberIsLink, MappedOK DEF Struct
<1>5. ASSUME NEW l \in Link PROVE Target(count', block', map[l]) = Target(count, block, l)
  <2>1. map[l] = IF l >= 0 /\ l \in (IF src < dst THEN src .. dst ELSE dst .. src)
                 THEN IF l = src THEN dst ELSE IF src < dst THEN l - 1 ELSE l + 1
                 ELSE l
    BY DEF Mapped, MoveMap
  <2>2. l \in Int
    BY DEF Link
  <2> HIDE DEF map
  <2> QED BY <1>1, <1>2, <2>1, <2>2, SMTT(30) DEF Target, With, Without
<1> HIDE DEF map
<1> QED BY <1>1, <1>4, <1>5, MoveStruct, PermuteRefs

\* reorderBlocks: likewise for a whole order.
LEMMA ReorderRefs ==
  ASSUME Struct, NEW order \in Orders, ReorderBlocks(order)
  PROVE  UNCHANGED <<Live, Refs>>
<1> DEFINE map == Mapped(order)
<1>1. /\ count' = count
      /\ block' = [b \in Number |-> block[CHOOSE n \in Number : order[n] = b]]
      /\ Update({"links", "header", "footer"}, RenumberItems(item, map), RenumberList(footer, map))
  BY DEF ReorderBlocks
<1>2. order \in [Number -> Number] /\ \A m, n \in Number : order[m] = order[n] => m = n
  BY DEF Orders
<1>3. \A n \in Number : block'[order[n]] = block[n]
  <2> TAKE n \in Number
  <2>1. (CHOOSE m \in Number : order[m] = order[n]) = n
    BY <1>2
  <2> QED BY <1>1, <1>2, <2>1
<1>4. map \in [Link -> Link] /\ map[-1] = -1
  BY <1>2, NumberIsLink, MappedOK DEF Struct
<1>5. ASSUME NEW l \in Link PROVE Target(count', block', map[l]) = Target(count, block, l)
  <2>1. CASE l \in Number
    <3>1. map[l] = order[l] /\ order[l] \in Number
      BY <2>1, <1>2, SMT DEF Mapped, Number
    <3>2. count \in Nat /\ block'[order[l]] = block[l]
      BY <1>3, <2>1, SMT DEF Struct, StructOK
    <3> HIDE DEF map
    <3> QED BY <1>1, <2>1, <3>1, <3>2, SMT DEF Target, Number
  <2>2. CASE l \notin Number
    <3>1. map[l] = l
      BY <2>2, <1>2 DEF Mapped
    <3>2. count \in Nat /\ l \in Int
      BY SMT DEF Struct, StructOK, Link
    <3> HIDE DEF map
    <3> QED BY <1>1, <2>2, <3>1, <3>2, SMT DEF Target, Number
  <2> QED BY <2>1, <2>2
<1> HIDE DEF map
<1> QED BY <1>1, <1>4, <1>5, ReorderStruct, PermuteRefs

\* mapLinks is a Redirect.
LEMMA MapLinksRefs ==
  ASSUME Struct, NEW from \in Number, NEW to \in Number, MapLinks(from, to)
  PROVE  Graph!Redirect(block[from], block[to])
<1> DEFINE map == Mapped([n \in {from} |-> to])
<1>1. /\ count' = count /\ block' = block
      /\ Update({"links", "header", "footer"}, RenumberItems(item, map), RenumberList(footer, map))
  BY DEF MapLinks
<1>2. map \in [Link -> Link] /\ map[-1] = -1
  <2>1. [n \in {from} |-> to] \in [{from} -> Number]
    OBVIOUS
  <2> QED BY <2>1, NumberIsLink, MappedOK DEF Struct
<1>3. Live' = Live
  BY <1>1 DEF Live, Number
<1>4. ASSUME NEW l \in Link
      PROVE  Target(count', block', map[l]) = IF Target(count, block, l) = block[from] THEN block[to]
                                              ELSE Target(count, block, l)
  <2>1. map[l] = IF l = from THEN to ELSE l
    BY SMT DEF Mapped, Number
  <2>2. l \in Int /\ from \in Nat /\ to \in Nat /\ from < count /\ to < count /\ count \in Nat
    BY SMT DEF Link, Number, Struct, StructOK
  <2>3. block[from] \in Obj /\ \A b \in Number : block[b] = block[from] => b = from
    BY DEF Struct, StructOK, NumberedOnce
  <2> HIDE DEF map
  <2> QED BY <1>1, <2>1, <2>2, <2>3, ObjAssumption, SMTT(30) DEF Target, Number
<1> HIDE DEF map
<1>5. \A o \in Obj, f \in Field : /\ item[o].link[f] \in Link
                                /\ map[item[o].link[f]] \in Link
  BY <1>2, LinkTyped DEF Struct
<1>6. Refs' = [o \in Obj |-> IF o \in Live
                 THEN [f \in Field |-> IF f > item[o].num THEN "null"
                                       ELSE Target(count', block', map[item[o].link[f]])]
                 ELSE [f \in Field |-> "null"]]
  BY <1>1, <1>2, <1>3, <1>5, RenumberRefs
<1>7. block[from] # "null"
  BY ObjAssumption DEF Struct, StructOK
<1>8. \A o \in Obj, f \in Field :
        (IF o \notin Live \/ f > item[o].num THEN "null" ELSE Target(count', block', map[item[o].link[f]]))
        = IF Refers(o, f) = block[from] THEN block[to] ELSE Refers(o, f)
  BY <1>4, <1>5, <1>7, Zenon DEF Refers
<1>9. Refs' = [o \in Obj |-> [f \in Field |->
                IF Refs[o][f] = block[from] THEN block[to] ELSE Refs[o][f]]]
  <2>1. \A o \in Obj, f \in Field : Refs[o][f] = Refers(o, f)
    BY DEF Refs
  <2>2. Refs' = [o \in Obj |-> [f \in Field |->
                  IF o \notin Live \/ f > item[o].num THEN "null"
                  ELSE Target(count', block', map[item[o].link[f]])]]
    BY <1>6, Zenon
  <2> DEFINE new(o, f) == IF o \notin Live \/ f > item[o].num THEN "null"
                          ELSE Target(count', block', map[item[o].link[f]])
             redirected(o, f) == IF Refs[o][f] = block[from] THEN block[to] ELSE Refs[o][f]
  <2>3. \A o \in Obj, f \in Field : new(o, f) = redirected(o, f)
    BY <1>8, <2>1
  <2>4. Refs' = [o \in Obj |-> [f \in Field |-> new(o, f)]]
    BY <2>2
  <2> HIDE DEF new, redirected
  <2>5. [o \in Obj |-> [f \in Field |-> new(o, f)]] = [o \in Obj |-> [f \in Field |-> redirected(o, f)]]
    BY <2>3
  <2> QED BY <2>4, <2>5 DEF redirected
<1> QED BY <1>3, <1>9 DEF Graph!Redirect

\* removeNiBlock is a Destroy: links to the block become null, the others stay.
LEMMA RemoveRefs ==
  ASSUME Struct, NEW b \in Number, RemoveNiBlock(b)
  PROVE  Graph!Destroy(block[b])
<1> DEFINE m0 == AdjustLinks(b, 0)
           m1 == AdjustLinks(b, -1)
           itm == [RenumberItems(RenumberItems(item, m0), m1) EXCEPT ![block[b]] = NoItem]
           ftr == RenumberList(RenumberList(footer, m0), m1)
<1>1. /\ count' = count - 1
      /\ block' = Without(block, count, b)
      /\ Update({"links", "footer"}, itm, ftr)
  BY DEF RemoveNiBlock
<1>2. Struct' /\ Live' = Live \ {block[b]}
  BY RemoveStruct
<1>3. b \in Nat /\ count \in Nat /\ b < count /\ block[b] \in Obj /\ block[b] \in Live
  BY SMT DEF Struct, StructOK, Number, Live
<1>4. ASSUME NEW l \in Link
      PROVE  Target(count', block', m1[m0[l]]) = IF Target(count, block, l) = block[b] THEN "null"
                                                 ELSE Target(count, block, l)
  <2>1. m1[m0[l]] = IF l < b THEN l ELSE IF l = b THEN -1 ELSE l - 1
    BY <1>3, BoundsAssumption, SMT DEF AdjustLinks, Link
  <2>2. \A c \in Number : block[c] = block[b] => c = b
    BY DEF Struct, NumberedOnce
  <2>3. l \in Int
    BY DEF Link
  <2> HIDE DEF m0, m1
  <2> QED BY <1>1, <1>3, <2>1, <2>2, <2>3, ObjAssumption, SMTT(30) DEF Target, Without, Number
<1>5. ItemsOK(itm) /\ \A o \in Live' : itm[o] = RenumberItem(RenumberItem(item[o], m0), m1)
  <2>1. /\ m0 \in [Link -> Link] /\ m0[-1] = -1
        /\ m1 \in [Link -> Link] /\ m1[-1] = -1
    BY <1>3, AdjustOK
  <2> HIDE DEF m0, m1
  <2>2. \A o \in Obj : ItemOK(RenumberItem(item[o], m0))
    BY <2>1, LinkTyped, RenumberOK DEF Struct, StructOK
  <2>3. \A o \in Obj, f \in Field : RenumberItem(item[o], m0).link[f] \in Link
    BY <2>2, SMT DEF ItemOK, Items
  <2>4. \A o \in Obj : ItemOK(RenumberItem(RenumberItem(item[o], m0), m1))
    BY <2>1, <2>2, <2>3, RenumberOK DEF ItemOK
  <2>5. RenumberItems(RenumberItems(item, m0), m1) =
          [o \in Obj |-> RenumberItem(RenumberItem(item[o], m0), m1)]
    BY DEF RenumberItems
  <2>6. Live' \subseteq Obj \ {block[b]}
    BY <1>2 DEF Live, Struct, StructOK
  <2> QED BY <1>3, <2>4, <2>5, <2>6, NoItemOK DEF ItemsOK, ItemOK
<1>6. \A o \in Live', f \in Field :
        Seen(count', block', itm[o])[f] =
          IF f > item[o].num THEN "null" ELSE Target(count', block', m1[m0[item[o].link[f]]])
  <2>1. Live' \subseteq Live /\ Live \subseteq Obj
    BY <1>2 DEF Live, Struct, StructOK
  <2>2. m0 \in [Link -> Link] /\ m0[-1] = -1
    BY <1>3, AdjustOK
  <2> HIDE DEF m0, m1, itm
  <2>3. \A o \in Obj : /\ RenumberItem(item[o], m0) \in Items
                     /\ RenumberItem(item[o], m0).num = item[o].num
                     /\ \A f \in Field : RenumberItem(item[o], m0).link[f] = m0[item[o].link[f]]
    <3>1. \A o \in Obj : ItemOK(RenumberItem(item[o], m0))
      BY <2>2, LinkTyped, RenumberOK DEF Struct, StructOK
    <3>2. \A o \in Obj : item[o] \in Items
      BY DEF Struct, StructOK
    <3> QED BY <3>1, <3>2, SMT DEF RenumberItem, Items, ItemOK
  <2> QED BY <1>5, <2>1, <2>3, SeenRenumbered
<1> HIDE DEF m0, m1, itm, ftr
<1>7. Refs' = [o \in Obj |-> IF o \in Live' THEN Seen(count', block', itm[o])
                                             ELSE [f \in Field |-> "null"]]
  BY <1>1, <1>5, RefsAfter DEF Update
<1>8. \A o \in Obj, f \in Field :
        Refs'[o][f] = IF o = block[b] \/ Refs[o][f] = block[b] THEN "null" ELSE Refs[o][f]
  <2> TAKE o \in Obj, f \in Field
  <2>1. CASE o \notin Live'
    BY <1>2, <1>7, <2>1 DEF Refs, Refers
  <2>2. CASE o \in Live'
    <3>1. Refs[o][f] = IF f > item[o].num THEN "null" ELSE Target(count, block, item[o].link[f])
      BY <1>2, <2>2 DEF Refs, Refers
    <3>2. Refs'[o][f] = IF f > item[o].num THEN "null"
                        ELSE Target(count', block', m1[m0[item[o].link[f]]])
      BY <1>6, <1>7, <2>2
    <3>3. item[o].link[f] \in Link
      BY LinkTyped DEF Struct
    <3>4. o # block[b]
      BY <1>2, <2>2
    <3> QED BY <1>4, <3>1, <3>2, <3>3, <3>4, Zenon
  <2> QED BY <2>1, <2>2
<1>9. Refs' = [o \in Obj |-> [f \in Field |->
                IF o = block[b] \/ Refs[o][f] = block[b] THEN "null" ELSE Refs[o][f]]]
  BY <1>8 DEF Refs
<1> QED BY <1>2, <1>3, <1>9 DEF Graph!Destroy

\* insertNiBlock is a Create: only dangling links may come to name the new block.
LEMMA InsertRefs ==
  ASSUME Struct, NEW o \in Obj, NEW t \in Type, NEW at \in -1 .. count, InsertNiBlock(o, t, at)
  PROVE  Graph!Create(o)
<1> DEFINE pos == IF at < 0 THEN count ELSE at
           map == IF at < 0 THEN Same ELSE AdjustLinks(at, 1)
           itm == [RenumberItems(item, map) EXCEPT ![o] = NewItem(t)]
           ftr == RenumberList(footer, map)
<1>1. /\ count' = count + 1
      /\ block' = With(block, count, pos, o)
      /\ o \notin Live
      /\ Update({"header", "links", "footer"}, itm, ftr)
  BY DEF InsertNiBlock
<1>2. Struct' /\ Live' = Live \cup {o}
  BY InsertStruct
<1>3. count \in Nat /\ at \in Int /\ at <= count
  BY SMT DEF Struct, StructOK
<1>4. \A l \in Link : map[l] = IF at >= 0 /\ l >= at THEN l + 1 ELSE l
  BY <1>3, SMT DEF AdjustLinks, Same, Link
<1>5. \A p \in Obj, f \in Field : map[item[p].link[f]] \in Link
  <2>1. CASE at < 0
    BY <2>1, <1>4, <1>3, LinkTyped, SMT DEF Struct
  <2>2. CASE at >= 0
    <3>1. \A p \in Obj, f \in Field : item[p].link[f] \in Link /\ item[p].link[f] < MaxLink
      BY <2>2, LinkTyped DEF InsertNiBlock, Struct
    <3> HIDE DEF map
    <3> QED BY <1>3, <1>4, <2>2, <3>1, BoundsAssumption, SMT DEF Link
  <2> QED BY <1>3, <2>1, <2>2, SMT
<1>6. ASSUME NEW l \in Link
      PROVE  IF Target(count, block, l) = "dangling" THEN Target(count', block', map[l]) \in {"dangling", o}
             ELSE Target(count', block', map[l]) = Target(count, block, l)
  <2>1. \A c \in Number : block[c] # "dangling"
    BY ObjAssumption DEF Struct, StructOK
  <2>2. l \in Int
    BY DEF Link
  <2>3. map[l] = IF at >= 0 /\ l >= at THEN l + 1 ELSE l
    BY <1>4
  <2> HIDE DEF map
  <2> QED BY <1>1, <1>3, <2>1, <2>2, <2>3, SMTT(30) DEF Target, With, Number
<1>7. map[-1] = -1
  BY <1>3, <1>4, BoundsAssumption, SMT DEF Link
<1> HIDE DEF map
<1>8. /\ \A p \in Obj : ItemOK(RenumberItem(item[p], map))
      /\ \A p \in Obj \ {o} : itm[p] = RenumberItem(item[p], map)
      /\ itm[o] = NewItem(t)
      /\ itm \in [Obj -> Items]
  <2>1. \A p \in Obj : ItemOK(RenumberItem(item[p], map))
    BY <1>5, <1>7, RenumberOK DEF Struct, StructOK
  <2> QED BY <2>1, NewItemOK DEF RenumberItems, ItemOK
<1>9. ItemsOK(itm)
  <2>1. \A p \in Obj : ItemOK(itm[p])
    BY <1>8, NewItemOK
  <2> QED BY <1>8, <2>1 DEF ItemsOK
<1> HIDE DEF itm, ftr
<1>10. Refs' = [p \in Obj |-> IF p \in Live' THEN Seen(count', block', itm[p])
                                             ELSE [f \in Field |-> "null"]]
  BY <1>1, <1>9, RefsAfter DEF Update
<1>11. Refs'[o] = [f \in Field |-> "null"]
  <2>1. \A f \in Field : f > NewItem(t).num \/ NewItem(t).link[f] < 0
    BY SMT DEF NewItem, NoLinks
  <2>2. Seen(count', block', NewItem(t)) = [f \in Field |-> "null"]
    BY <2>1, Zenon DEF Seen, Target
  <2> QED BY <1>2, <1>8, <1>10, <2>2
<1>12. \A p \in Obj \ {o}, f \in Field :
         IF Refs[p][f] = "dangling" THEN Refs'[p][f] \in {"dangling", o} ELSE Refs'[p][f] = Refs[p][f]
  <2> TAKE p \in Obj \ {o}, f \in Field
  <2>1. CASE p \notin Live
    BY <1>2, <1>10, <2>1 DEF Refs, Refers
  <2>2. CASE p \in Live
    <3>1. Refs[p][f] = IF f > item[p].num THEN "null" ELSE Target(count, block, item[p].link[f])
      BY <2>2 DEF Refs, Refers
    <3>2. Refs'[p][f] = IF f > item[p].num THEN "null" ELSE Target(count', block', map[item[p].link[f]])
      <4>1. Refs'[p][f] = Seen(count', block', RenumberItem(item[p], map))[f]
        BY <1>2, <1>8, <1>10, <2>2
      <4> QED BY <4>1, SeenRenumbered DEF Struct, StructOK
    <3>3. item[p].link[f] \in Link
      BY LinkTyped DEF Struct
    <3> QED BY <1>6, <3>1, <3>2, <3>3
  <2> QED BY <2>1, <2>2
<1>13. Refs' \in [Obj -> [Field -> Live' \cup {"null", "dangling"}]]
  <2>1. \A p \in Obj : itm[p] \in Items
    BY <1>9 DEF ItemsOK
  <2>2. \A i \in Items : Seen(count', block', i) \in [Field -> Live' \cup {"null", "dangling"}]
    <3> TAKE i \in Items
    <3>1. \A f \in Field : i.link[f] \in Int
      BY SMT DEF Items, Link
    <3>2. \A l \in Int : Target(count', block', l) \in Live' \cup {"null", "dangling"}
      BY <1>2, SMT DEF Struct, StructOK, Target, Live, Number
    <3> QED BY <3>1, <3>2 DEF Seen
  <2> QED BY <1>10, <2>1, <2>2
<1> QED BY <1>1, <1>2, <1>11, <1>12, <1>13 DEF Graph!Create, Graph!Targets, Graph!NoRefs

\* A step that only runs updates leaves the graph alone.
LEMMA RefreshRefs ==
  ASSUME Struct, NEW locked, NEW todo, Refresh(locked, todo, item, footer), UNCHANGED <<count, block>>
  PROVE  UNCHANGED <<Live, Refs>>
<1>1. ItemsOK(item) /\ Live' = Live
  BY DEF ItemsOK, Struct, StructOK, Live, Number
<1> QED BY <1>1, RefsAfter, RefsSeen

\* A file that was loaded is a graph.
LEMMA InitGraph == Init => Graph!Init
<1> SUFFICES ASSUME Init PROVE Graph!Init
  OBVIOUS
<1>1. Struct
  BY InitStruct
<1>2. \A o \in Obj : Seen(count, block, item[o]) \in [Field -> Live \cup {"null", "dangling"}]
  BY <1>1, SeenTyped DEF Struct, StructOK
<1>3. Live \subseteq Obj
  BY <1>1 DEF Live, Struct, StructOK
<1> QED BY <1>2, <1>3, RefsSeen DEF Graph!Init, Graph!TypeOK, Graph!Targets, Graph!NoRefs

\* Every operation is a step of the graph or leaves it alone.
LEMMA NextGraph == Struct /\ [Next]_vars => [Graph!Next]_(Graph!vars)
<1> SUFFICES ASSUME Struct, [Next]_vars PROVE Graph!Next \/ UNCHANGED <<Live, Refs>>
  BY DEF Graph!vars
<1>1. ASSUME NEW o \in Obj, NEW t \in Type, NEW at \in -1 .. count, InsertNiBlock(o, t, at)
      PROVE  Graph!Next
  BY <1>1, InsertRefs DEF Graph!Next
<1>2. ASSUME NEW b \in Number, RemoveNiBlock(b) PROVE Graph!Next
  BY <1>2, RemoveRefs DEF Graph!Next, Struct, StructOK
<1>3. ASSUME NEW src \in Number, NEW dst \in Number, MoveNiBlock(src, dst)
      PROVE  UNCHANGED <<Live, Refs>>
  BY <1>3, MoveRefs
<1>4. ASSUME NEW order \in Orders, ReorderBlocks(order) PROVE UNCHANGED <<Live, Refs>>
  BY <1>4, ReorderRefs
<1>5. ASSUME NEW from \in Number, NEW to \in Number, MapLinks(from, to) PROVE Graph!Next
  BY <1>5, MapLinksRefs DEF Graph!Next, Live
<1>6. ASSUME NEW o \in Obj, FieldsStep(o) PROVE Graph!Next
  BY <1>6, FieldsRewrite DEF Graph!Next
<1>7. ASSUME NEW o \in Obj, NEW t \in Type, ConvertNiBlock(o, t) PROVE Graph!Next
  BY <1>6, <1>7, ConvertFields
<1>8. ASSUME NEW o \in Obj, NEW f \in Field, NEW l \in Link, SetLink(o, f, l) PROVE Graph!Next
  BY <1>6, <1>8, SetLinkFields
<1>9. ASSUME NEW o \in Obj, NEW n \in 0 .. MaxKids, SetCount(o, n) \/ ResizeArray(o, n)
      PROVE  Graph!Next
  BY <1>6, <1>9, SetCountFields, ResizeArrayFields
<1>10. ASSUME NEW o \in Obj, UpdateArray(o) PROVE Graph!Next
  BY <1>6, <1>10, UpdateArrayFields
<1>11. ASSUME NEW o \in Obj, NEW saved \in Obj, NEW map \in LinkMaps, LoadIndex(o, saved, map)
       PROVE  Graph!Next
  BY <1>6, <1>11, LoadIndexFields
<1>12. CASE ReleaseUpdates
  BY <1>12, RefreshRefs DEF ReleaseUpdates
<1>13. CASE CastEnd
  BY <1>13, RefreshRefs DEF CastEnd
<1>14. CASE Save
  BY <1>14, RefreshRefs DEF Save
<1>15. CASE HoldUpdates \/ CastBegin \/ UNCHANGED vars
  <2>1. UNCHANGED <<count, block, item>>
    BY <1>15 DEF HoldUpdates, CastBegin, vars, struct
  <2>2. Live' = Live
    BY <2>1 DEF Live, Number
  <2>3. Refs' = Refs
    BY <2>1, <2>2 DEF Refs, Refers
  <2> QED BY <2>2, <2>3
<1> QED BY <1>1, <1>2, <1>3, <1>4, <1>5, <1>7, <1>8, <1>9, <1>10, <1>11, <1>12, <1>13, <1>14, <1>15
        DEF Next

\* The structure the refinement builds on is invariant.
LEMMA StructInvariant == Spec => []Struct
BY InitStruct, NextStruct, PTL DEF Spec

\* Whatever is inserted, removed, moved, reordered, redirected or pasted: each link of
\* the numbered list goes on leading to the block it led to, as in the graph.
THEOREM LinksImplementGraph == Spec => LinksFollowBlocks
<1>1. Spec => Graph!Init /\ [][Graph!Next]_(Graph!vars)
  BY InitGraph, NextGraph, StructInvariant, PTL DEF Spec
<1> QED BY <1>1 DEF LinksFollowBlocks, Graph!Spec
==============================================================================
