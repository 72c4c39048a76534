----------------------------- MODULE UndoStack -----------------------------
(***************************************************************************)
(* Edits of one compound and of the array in it, and the undo stack that   *)
(* records them (undocommands.cpp and the stack of the widget library that *)
(* holds the commands).  A command names rows by persistent index: a row   *)
(* that is removed makes its index invalid, and one that is added later in *)
(* its place is another row.                                               *)
(***************************************************************************)
EXTENDS RowConditions, Sequences, SequencesExt

CONSTANTS Values,        \* Values[f]: what a field can hold
          CellValues,    \* what a row of the array can hold
          Files,         \* the values of the fields and array rows of the files there are
          Flags,         \* the rows edited with a list of check boxes
          SizeField,     \* the row with the number of rows of the array
          Selections,    \* sequences of places, in the order they are selected
          Clipboards,    \* sequences of values, the rows of a copied array
          MaxMade,       \* bound: array rows ever made
          MaxCommands,   \* bound: commands on the stack that set values
          MaxUpdates     \* bound: commands on the stack that update the array

ASSUME UndoAssumption ==
  /\ \A f \in Fields : 0 \in Values[f] /\ Values[f] \subseteq Nat
  /\ 0 \in CellValues /\ CellValues \subseteq Nat
  /\ \A file \in Files :
       /\ \A f \in Fields : file[f] \in Values[f]
       /\ DOMAIN file = 1 .. Cardinality(Fields) + file[SizeField]
       /\ \A x \in DOMAIN file \ Fields : file[x] \in CellValues
  /\ SizeField \in Fields /\ Needs[SizeField] = {}
  /\ Flags \subseteq Fields
  /\ Selections \subseteq Seq(Nat) /\ Clipboards \subseteq Seq(CellValues)
  /\ {MaxMade, MaxCommands, MaxUpdates} \subseteq Nat

VARIABLES doc,     \* [val, rows, made, cached]: the values of all rows, the
                   \* array rows in order, how many were made, the caches
          undo,    \* [list, index, clean] of QUndoStack
          quiet    \* history: fields last written without a reassessment

vars == <<doc, undo, quiet>>

(* Array rows are numbered from the last field on, in the order they were made. *)
Item(n) == Cardinality(Fields) + n
Live(d) == DOMAIN d.val
ValuesOf(x) == IF x \in Fields THEN Values[x] ELSE CellValues

----------------------------------------------------------------------------
(* The model.                                                              *)

SetData(d, x, v, processing) ==
  LET val == [d.val EXCEPT ![x] = v]
  IN  [d EXCEPT !.val = val,
                !.cached = IF processing \/ x \notin Fields THEN @
                           ELSE Reassess(@, val, x)]

UpdateArray(d) ==
  LET size == IF Evaluated(d.cached, d.val, {})[SizeField] = 1 THEN d.val[SizeField] ELSE 0
      more == [i \in 1 .. size - Len(d.rows) |-> Item(d.made + i)]
      rows == SubSeq(d.rows, 1, Min({size, Len(d.rows)})) \o more
  IN  [d EXCEPT !.rows = rows,
                !.made = @ + Len(more),
                !.val  = [x \in Fields \cup Range(rows) |->
                            IF x \in Live(d) THEN d.val[x] ELSE 0]]

----------------------------------------------------------------------------
(* Commands.  `open` stands for a localID equal to lastID.                 *)

Change(x, old, new) == [kind |-> "value", at |-> <<x>>, old |-> <<old>>, new |-> <<new>>, open |-> TRUE]
Toggle(x, old, new) == [Change(x, old, new) EXCEPT !.open = FALSE]
Resize == [kind |-> "array", at |-> <<>>, old |-> <<>>, new |-> <<>>, open |-> FALSE]

(* The place of x among the indices of a command that are still valid.      *)
ValidPlace(d, command, x) ==
  LET place == CHOOSE k \in DOMAIN command.at : command.at[k] = x
  IN  Cardinality({k \in 1 .. place : command.at[k] \in Live(d)})

(* Mutant of Given: the values are taken from the end.                     *)
GivenBackwards(d, command, values, x) == values[Len(values) + 1 - ValidPlace(d, command, x)]

(* What redo() or undo() of a value command gives to row x: the values are *)
(* taken in turn, one for each index that is still valid.                  *)
Given(d, command, values, x) == values[ValidPlace(d, command, x)]

(* A merged command runs while the model is Processing, when setData       *)
(* reassesses nothing.                                                     *)
Replay(d, command, values) ==
  LET valid == Range(command.at) \cap Live(d)
  IN  IF Len(command.at) = 1 /\ valid # {}
      THEN SetData(d, command.at[1], values[1], FALSE)
      ELSE [d EXCEPT !.val = [x \in Live(d) |->
              IF x \in valid THEN Given(d, command, values, x) ELSE @[x]]]

RedoCommand(d, c) == IF c.kind = "array" THEN UpdateArray(d) ELSE Replay(d, c, c.new)
UndoCommand(d, c) == IF c.kind = "array" THEN UpdateArray(d) ELSE Replay(d, c, c.old)

(* The fields a command writes without reassessing what depends on them.   *)
Quietly(c) == IF Len(c.at) > 1 THEN Range(c.at) \cap Fields ELSE {}
Loudly(c)  == IF Len(c.at) > 1 THEN {} ELSE Range(c.at)

Merge(c, d) == [c EXCEPT !.at = @ \o d.at, !.old = @ \o d.old, !.new = @ \o d.new]

CreateTransaction(u) ==
  [u EXCEPT !.list = [i \in DOMAIN @ |-> [@[i] EXCEPT !.open = FALSE]]]

(* Mutant of PushCommand: commands that were undone are merged into.       *)
PushCommandLate(u, c) ==
  IF c.open /\ u.list # <<>> /\ u.list[Len(u.list)].open
  THEN [u EXCEPT !.list = [@ EXCEPT ![Len(@)] = Merge(@, c)]]
  ELSE [list |-> Append(SubSeq(u.list, 1, u.index), c), index |-> u.index + 1, clean |-> u.clean]

(* QUndoStack::push, after redo(): what was undone is forgotten, and the   *)
(* command is merged into the last one when both have the same id and the  *)
(* document was not saved in between.                                      *)
PushCommand(u, c) ==
  LET kept   == SubSeq(u.list, 1, u.index)
      clean  == IF u.clean > u.index THEN -1 ELSE u.clean
      merges == u.index > 0 /\ c.open /\ kept[u.index].open /\ clean # u.index
  IN  IF merges
      THEN [list |-> [kept EXCEPT ![u.index] = Merge(@, c)], index |-> u.index, clean |-> clean]
      ELSE [list |-> Append(kept, c), index |-> u.index + 1, clean |-> clean]

----------------------------------------------------------------------------
(* The operations.                                                         *)

Loaded(file) ==
  LET rows == [i \in 1 .. file[SizeField] |-> Item(i)]
      val  == [x \in Fields \cup Range(rows) |-> file[x]]
  IN  [val |-> val, rows |-> rows, made |-> Len(rows), cached |-> Fresh(val)]

Init ==
  /\ doc \in {Loaded(file) : file \in Files}
  /\ undo = [list |-> <<>>, index |-> 0, clean |-> 0]
  /\ quiet = {}

(* Bound: the rows ever made, and the commands on the stack.               *)
Pushed(kind) == {n \in DOMAIN undo.list : undo.list[n].kind = kind}
Bounded ==
  /\ doc'.made <= MaxMade
  /\ Cardinality(Pushed("value")') <= MaxCommands
  /\ Cardinality(Pushed("array")') <= MaxUpdates

ItemAt(p) == IF p \in Fields THEN p ELSE doc.rows[p - Cardinality(Fields)]
Exists(p) == p \in Fields \/ p - Cardinality(Fields) \in DOMAIN doc.rows

(* NifDelegate::setModelData: the command sets the value, and then the     *)
(* delegate sets it again.                                                 *)
EditWith(x, c) ==
  /\ c.new # c.old
  /\ doc' = SetData(RedoCommand(doc, c), x, c.new[1], FALSE)
  /\ quiet' = quiet \ {x}
  /\ Bounded

Edit(x, v) ==
  LET c == Change(x, doc.val[x], v)
  IN  x \notin Flags /\ undo' = PushCommand(CreateTransaction(undo), c) /\ EditWith(x, c)

Check(x, v) ==
  LET c == Toggle(x, doc.val[x], v)
  IN  x \in Flags /\ undo' = PushCommand(undo, c) /\ EditWith(x, c)

(* NifTreeView::pasteTo for each of the rows in turn, unless it is of another *)
(* type: the value is set, and the command pushed with the value before.   *)
PasteAll(n, items, values, processing) ==
  LET Taken(i) == values[i] \in ValuesOf(items[i])
      docs[i \in 0 .. n] ==
        IF i = 0 THEN doc
        ELSE IF Taken(i)
        THEN SetData(SetData(docs[i - 1], items[i], values[i], FALSE), items[i], values[i], processing)
        ELSE docs[i - 1]
      undos[i \in 0 .. n] ==
        IF i = 0 THEN CreateTransaction(undo)
        ELSE IF Taken(i)
        THEN PushCommand(undos[i - 1], Change(items[i], docs[i - 1].val[items[i]], values[i]))
        ELSE undos[i - 1]
  IN  /\ doc' = docs[n]
      /\ undo' = undos[n]
      /\ quiet' = quiet \ {items[i] : i \in {k \in 1 .. n : Taken(k)}}
      /\ Bounded

Paste(selection, v) ==
  LET n == Len(selection)
  IN  /\ \A p \in Range(selection) : Exists(p)
      /\ PasteAll(n, [i \in 1 .. n |-> ItemAt(selection[i])], [i \in 1 .. n |-> v], FALSE)

PasteArray(values) == PasteAll(Min({Len(values), Len(doc.rows)}), doc.rows, values, TRUE)

(* Ctrl and an arrow key on row i of the array, with j the row below or     *)
(* above it: both values are set, then two commands are pushed that set    *)
(* them again, that of the selected row first.                             *)
SwapRows(i, j) ==
  LET x == doc.rows[i]
      y == doc.rows[j]
      d == SetData(SetData(doc, x, doc.val[y], FALSE), y, doc.val[x], FALSE)
      c == Change(x, d.val[y], d.val[x])
      e == Change(y, d.val[x], d.val[y])
  IN  /\ j \in {i - 1, i + 1}
      /\ doc' = RedoCommand(RedoCommand(d, c), e)
      /\ undo' = PushCommand(PushCommand(CreateTransaction(undo), c), e)
      /\ Bounded
      /\ UNCHANGED quiet

(* The "Update" spell of an array.                                         *)
ResizeArray ==
  /\ doc' = RedoCommand(doc, Resize)
  /\ undo' = PushCommand(undo, Resize)
  /\ Bounded
  /\ UNCHANGED quiet

Undo ==
  LET c == undo.list[undo.index]
  IN  /\ undo.index > 0
      /\ doc' = UndoCommand(doc, c)
      /\ undo' = [undo EXCEPT !.index = @ - 1]
      /\ quiet' = (quiet \ Loudly(c)) \cup Quietly(c)
      /\ Bounded

Redo ==
  LET c == undo.list[undo.index + 1]
  IN  /\ undo.index < Len(undo.list)
      /\ doc' = RedoCommand(doc, c)
      /\ undo' = [undo EXCEPT !.index = @ + 1]
      /\ quiet' = (quiet \ Loudly(c)) \cup Quietly(c)
      /\ Bounded

Save ==
  /\ undo' = [undo EXCEPT !.clean = undo.index]
  /\ UNCHANGED <<doc, quiet>>

(* onLoadComplete forgets the history.                                     *)
Load(file) ==
  /\ undo' = [list |-> <<>>, index |-> 0, clean |-> 0]
  /\ doc' = Loaded(file)
  /\ quiet' = {}

Next ==
  \/ \E x \in Live(doc) : \E v \in ValuesOf(x) : Edit(x, v) \/ Check(x, v)
  \/ \E s \in Selections, v \in CellValues : Paste(s, v)
  \/ \E vs \in Clipboards : PasteArray(vs)
  \/ \E i, j \in DOMAIN doc.rows : SwapRows(i, j)
  \/ ResizeArray
  \/ Undo
  \/ Redo
  \/ Save
  \/ \E file \in Files : Load(file)

Spec == Init /\ [][Next]_vars

----------------------------------------------------------------------------
(* Properties.                                                             *)

(* The rows that a merged command on the stack names behind a row that is  *)
(* no more: replayed, it gives them the value of an index before theirs.   *)
Shifted ==
  {x \in Live(doc) : \E n \in DOMAIN undo.list :
     \E k \in DOMAIN undo.list[n].at :
       /\ undo.list[n].at[k] = x
       /\ \E j \in 1 .. k - 1 : undo.list[n].at[j] \notin Live(doc)}

(* What undoing and redoing the commands one after the other leads to.     *)
Replaced(c, values, val) ==
  LET named == Range(c.at)
  IN  IF named = {} THEN val
      ELSE [x \in DOMAIN val |-> IF x \in named THEN Given(doc, c, values, x) ELSE val[x]]
Documents ==
  LET of[place \in 1 .. Len(undo.list) + 1] ==
        IF place = undo.index + 1 THEN doc.val
        ELSE IF place <= undo.index
        THEN Replaced(undo.list[place], undo.list[place].old, of[place + 1])
        ELSE Replaced(undo.list[place - 1], undo.list[place - 1].new, of[place - 1])
  IN  of

(* Undo and redo (undocommands.cpp:87 and :109, with the merging of :135):  *)
(* the documents they lead to are the ones the user had, whatever was      *)
(* pasted, swapped, resized, undone and done again.  The rows in Shifted   *)
(* are excepted, and those alone: the values of a merged command are taken *)
(* in turn for the indices still valid, so the rows behind a removed one   *)
(* get the value of another row (a paste selected from the bottom up, or   *)
(* Ctrl+Up, and then a shorter array).                                     *)
History == INSTANCE EditHistory WITH
  Blank <- 0,
  Lost  <- -1,
  docs  <- LET lost == Shifted
               of   == Documents
           IN  [place \in DOMAIN of |->
                   IF lost = {} THEN of[place]
                   ELSE [x \in Live(doc) |-> IF x \in lost THEN -1 ELSE of[place][x]]],
  at    <- undo.index + 1,
  clean <- undo.clean + 1
UndoRestores == History!Spec

(* invalidateDependentConditions: the cached condition of a row that names *)
(* all it depends on is right after every edit, paste, undo and redo,       *)
(* except for what a merged command wrote, which reassesses nothing.       *)
ConditionsFollowEdits ==
  \A f \in Fields :
    NamesAll(f) /\ Needs[f] \cap quiet = {} => doc.cached[f] = Fresh(doc.val)[f]
=============================================================================
