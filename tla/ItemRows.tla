------------------------------ MODULE ItemRows ------------------------------
(***************************************************************************)
(* The rows of NifItem (nifitem.h).  An item remembers the row it is at    *)
(* until someone invalidates it, and the rows of its children that are     *)
(* links or lead to links; updateLinks (nifmodel.cpp) finds the links of a *)
(* block by those rows alone.  The rows of links are 16 bits wide and are  *)
(* never taken back.                                                       *)
(*                                                                         *)
(* The document is the sequence of the root's children: header, blocks,    *)
(* footer.  Each is a tree, a function from paths to nodes; a path holds   *)
(* the positions, from 1, on the way to an item, and <<>> is the child of  *)
(* the root.                                                               *)
(***************************************************************************)
EXTENDS Integers, SequencesExt

CONSTANTS Own,        \* the fields a block type adds to those of its ancestor
          Ancestor,   \* the block types with an ancestor, and that type
          PartFields, \* the fields of the compound the arrays of parts repeat
          Width,      \* the link rows that are told apart (65536)
          MaxBlocks,  \* bound: blocks
          MaxItems,   \* bound: rows of an array
          MaxRows,    \* bound: rows of the document, at which arrays no longer grow
          ShownDepth  \* bound: the depth of the items shown by themselves

Kinds == {"value", "link", "links", "parts", "part"}

ASSUME RowsAssumption ==
  /\ DOMAIN Own \cap Kinds = {}
  /\ \A type \in DOMAIN Own : Own[type] \in Seq(Kinds \ {"part"})
  /\ \A type \in DOMAIN Ancestor : Ancestor[type] \in DOMAIN Own \ DOMAIN Ancestor
  /\ PartFields \in Seq(Kinds \ {"part"})
  /\ Width \in Nat \ {0} /\ {MaxBlocks, MaxItems, MaxRows, ShownDepth} \subseteq Nat

VARIABLE doc

Rows(d) == FoldLeft(LAMBDA n, t : n + Cardinality(DOMAIN t), 0, d)

(* rowIdx is -1 where no row is remembered.                                *)
Node(kind) == [kind |-> kind, rowIdx |-> -1, linkRows |-> {}, linkAncestorRows |-> {}]

Childless(kind) == [p \in {<<>>} |-> Node(kind)]

(* The type a value is inserted with; insertBranch takes it away again.    *)
InsertedAsLink(kind) == kind \in {"link", "links"}

ChildCount(t, p) == Cardinality({q \in DOMAIN t : Len(q) = Len(p) + 1 /\ IsPrefix(p, q)})

(* row(): what the item remembers, or else where it is; "at" is the row of *)
(* the tree.                                                               *)
Row(t, at, p) ==
  IF t[p].rowIdx # -1 THEN t[p].rowIdx ELSE IF p = <<>> THEN at ELSE Last(p) - 1

Remember(t, at, ps) == [p \in DOMAIN t |-> IF p \in ps THEN [t[p] EXCEPT !.rowIdx = Row(t, at, p)] ELSE t[p]]

(* invalidateRowCounts: the item and its children.                         *)
InvalidateRowCounts(t, p) ==
  [q \in DOMAIN t |-> IF q = p \/ (Len(q) = Len(p) + 1 /\ IsPrefix(p, q)) THEN [t[q] EXCEPT !.rowIdx = -1] ELSE t[q]]

(* Mutant of InformedOf: only the parent of the parent hears of the link.  *)
InformedOnce(node, t, at, p, parent, rows) ==
  IF p = parent THEN [node EXCEPT !.linkRows = @ \cup rows]
  ELSE IF Len(p) = Len(parent) - 1
    THEN [node EXCEPT !.linkAncestorRows = @ \cup {Row(t, at, parent) % Width}]
  ELSE node

(* populateLinksUp: what the node at p, the parent or above it, keeps of   *)
(* links that were inserted in these rows.                                 *)
InformedOf(node, t, at, p, parent, rows) ==
  IF p = parent THEN [node EXCEPT !.linkRows = @ \cup rows]
  ELSE [node EXCEPT !.linkAncestorRows = @ \cup {Row(t, at, SubSeq(parent, 1, Len(p) + 1)) % Width}]

(* insertChild and insertBranch, of several children at the end.           *)
InsertChildren(t, at, parent, kinds) ==
  LET count == ChildCount(t, parent)
      new == {Append(parent, count + k) : k \in DOMAIN kinds}
      links == {k \in DOMAIN kinds : InsertedAsLink(kinds[k])}
      rows == {(count + k - 1) % Width : k \in links}
      Inserted(k) == IF k \in links THEN [Node(kinds[k]) EXCEPT !.rowIdx = count + k - 1] ELSE Node(kinds[k])
  IN  [p \in DOMAIN t \cup new |->
         IF p \in new THEN Inserted(Last(p) - count)
         ELSE IF links # {} /\ IsPrefix(p, parent)
           THEN [InformedOf(t[p], t, at, p, parent, rows) EXCEPT !.rowIdx = Row(t, at, p)]
         ELSE t[p]]

(* removeChildren: the last n rows, and all that is below them.            *)
RemoveLast(t, p, n) ==
  LET left == ChildCount(t, p) - n
      u == InvalidateRowCounts(t, p)
  IN  Restrict(u, {q \in DOMAIN u : ~ (IsStrictPrefix(p, q) /\ q[Len(p) + 1] > left)})

(* insertType for the new elements of an array.                            *)
InsertElements(t, at, array, n) ==
  LET count == ChildCount(t, array)
      filled[k \in 0 .. n] ==
        IF k = 0 THEN InsertChildren(t, at, array, [j \in 1 .. n |-> "part"])
        ELSE InsertChildren(filled[k - 1], at, Append(array, count + k), PartFields)
  IN  IF t[array].kind = "links" THEN InsertChildren(t, at, array, [k \in 1 .. n |-> "link"])
      ELSE filled[n]

(* updateArrayItem, once the count is known.                               *)
UpdateArrayItem(t, at, array, rows) ==
  LET count == ChildCount(t, array)
      shown == Remember(t, at, {array})
  IN  IF rows < count THEN RemoveLast(shown, array, count - rows) ELSE InsertElements(shown, at, array, rows - count)

----------------------------------------------------------------------------
(* The root's children.                                                    *)

BlockCount == Len(doc) - 2
Blocks == 2 .. Len(doc) - 1

(* invalidateRowCounts of the root.                                        *)
Forgotten(d) == [i \in DOMAIN d |-> [d[i] EXCEPT ![<<>>].rowIdx = -1]]

(* Mutant of InsertData: the guard is off by one.                          *)
InsertDataLate(d, at, tree) ==
  InsertAt(IF at < Len(d) - 2 THEN Forgotten(d) ELSE d, at + 1, tree)

(* insertChild(data, at): inserting before the last child forgets no rows. *)
InsertData(d, at, tree) ==
  InsertAt(IF at < Len(d) - 1 THEN Forgotten(d) ELSE d, at + 1, tree)

(* insertChild(child, at), which returns the row.                          *)
InsertItem(d, at, tree) ==
  InsertAt(Forgotten(d), at + 1, [tree EXCEPT ![<<>>].rowIdx = at])

(* removeChild, and takeChild with the tree it returns.                    *)
RemoveChild(d, at) == RemoveAt(Forgotten(d), at + 1)
TakeChild(d, at) == [tree |-> Forgotten(d)[at + 1], left |-> RemoveAt(Forgotten(d), at + 1)]

Inherits(type) == IF type \in DOMAIN Ancestor THEN Own[Ancestor[type]] ELSE <<>>

(* insertNiBlock, at a block number or at the end.                         *)
InsertNiBlock(type, number) ==
  LET at == number + 1
      branch == InsertChildren(Childless(type), at, <<>>, Inherits(type) \o Own[type])
  IN  /\ BlockCount < MaxBlocks
      /\ number \in 0 .. BlockCount
      /\ doc' = InsertData(doc, at, Remember(branch, at, {<<>>}))

RemoveNiBlock(number) ==
  /\ number \in 0 .. BlockCount - 1
  /\ doc' = RemoveChild(doc, number + 1)

(* moveNiBlock, and each move of reorderBlocks.                            *)
MoveNiBlock(src, dst) ==
  /\ {src, dst} \subseteq 0 .. BlockCount - 1
  /\ doc' = LET taken == TakeChild(doc, src + 1) IN InsertItem(taken.left, dst + 1, taken.tree)

(* convertNiBlock, to the ancestor of the block's type or to a type that   *)
(* inherits it.                                                            *)
ConvertNiBlock(i, type) ==
  LET from == doc[i][<<>>].kind
      tree == [doc[i] EXCEPT ![<<>>].kind = type]
  IN  /\ i \in Blocks
      /\ \/ /\ from \in DOMAIN Ancestor /\ type = Ancestor[from]
            /\ doc' = [doc EXCEPT ![i] = RemoveLast(tree, <<>>, Len(Own[from]))]
         \/ /\ type \in DOMAIN Ancestor /\ from = Ancestor[type]
            /\ doc' = [doc EXCEPT ![i] = InsertChildren(tree, i - 1, <<>>, Own[type])]

ResizeArray(i, array, rows) ==
  /\ i \in Blocks
  /\ array \in DOMAIN doc[i] /\ doc[i][array].kind \in {"links", "parts"}
  /\ rows # ChildCount(doc[i], array)
  /\ rows > ChildCount(doc[i], array) => Rows(doc) < MaxRows
  /\ doc' = [doc EXCEPT ![i] = UpdateArrayItem(doc[i], i - 1, array, rows)]

(* createIndex( item->row(), ... ), and parent() up from it, as every view *)
(* does for what it shows.                                                 *)
ShowItem(i, p) ==
  /\ i \in DOMAIN doc /\ p \in DOMAIN doc[i] /\ Len(p) <= ShownDepth
  /\ doc' = [doc EXCEPT ![i] = Remember(doc[i], i - 1, {q \in DOMAIN doc[i] : IsPrefix(q, p)})]

Init == doc = <<Childless("header"), Childless("footer")>>

Next ==
  \/ \E type \in DOMAIN Own, number \in 0 .. MaxBlocks : InsertNiBlock(type, number)
  \/ \E number \in 0 .. MaxBlocks : RemoveNiBlock(number)
  \/ \E src, dst \in 0 .. MaxBlocks : MoveNiBlock(src, dst)
  \/ \E i \in Blocks, type \in DOMAIN Own : ConvertNiBlock(i, type)
  \/ \E i \in Blocks : \E array \in DOMAIN doc[i], rows \in 0 .. MaxItems : ResizeArray(i, array, rows)
  \/ \E i \in DOMAIN doc : \E p \in DOMAIN doc[i] : ShowItem(i, p)

Spec == Init /\ [][Next]_doc

----------------------------------------------------------------------------
(* updateLinks(block, item): the links below an item that its rows lead to.*)
Found(t) ==
  LET Below(p, r) == Append(p, r + 1)
      found[p \in DOMAIN t] ==
        {Below(p, r) : r \in {s \in t[p].linkRows : Below(p, s) \in DOMAIN t /\ t[Below(p, s)].kind = "link"}}
          \cup UNION {found[Below(p, r)] :
                        r \in {s \in t[p].linkRows \cup t[p].linkAncestorRows :
                                 Below(p, s) \in DOMAIN t /\ ChildCount(t, Below(p, s)) > 0}}
  IN  found[<<>>]

(* updateLinks finds the links of a block, and nothing else, although no   *)
(* link row is taken back when arrays shrink and blocks are converted to   *)
(* other types; what it misses are the links below rows that do not fit in *)
(* 16 bits (nifitem.h populateLinksUp, nifmodel.cpp updateLinks).          *)
LinksFound ==
  \A i \in Blocks :
    Found(doc[i]) = {p \in DOMAIN doc[i] : doc[i][p].kind = "link" /\ \A k \in DOMAIN p : p[k] <= Width}

(* A remembered row is the row of the item, for every item but the last    *)
(* child of the root, which may remember a row that a block has taken      *)
(* since: of all that is inserted only a new last block comes before an    *)
(* item whose row is kept (nifitem.h insertChild, row).                    *)
OnlyFooterMisplaced ==
  \A i \in DOMAIN doc : \A p \in DOMAIN doc[i] :
    \/ doc[i][p].rowIdx \in {-1, IF p = <<>> THEN i - 1 ELSE Last(p) - 1}
    \/ i = Len(doc) /\ p = <<>> /\ doc[i][p].rowIdx \in 1 .. BlockCount
=============================================================================
