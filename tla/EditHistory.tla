---------------------------- MODULE EditHistory ----------------------------
(***************************************************************************)
(* What undo and redo promise: a list of the values a document had, and a  *)
(* place in it.  An edit forgets what was undone and adds a document;      *)
(* undo and redo move the place and nothing else.  Which rows an array has *)
(* is not part of the promise (undocommands.cpp:204 leaves it to be done): *)
(* a step may take rows away or add blank ones, in all documents alike.    *)
(* Nothing is promised of a row while its value is Lost.                   *)
(***************************************************************************)
EXTENDS Naturals, Sequences, Functions

CONSTANTS Blank,   \* the value of a row just added
          Lost     \* the value of a row given up

VARIABLES docs,    \* the documents, each a function from rows to values
          at,      \* the place in the list
          clean    \* the place of the document last saved, 0 for none

(* es are the documents ds, with other rows.                               *)
Same(v, w) == v = w \/ Lost \in {v, w}
Refit(ds, es) ==
  \A i \in DOMAIN es :
    /\ DOMAIN es[i] = DOMAIN es[1]
    /\ i \in DOMAIN ds =>
         \E d \in {ds[i]}, e \in {es[i]} :
           \A x \in DOMAIN e : Same(IF x \in DOMAIN d THEN d[x] ELSE Blank, e[x])

Open == at' = 1 /\ clean' = 1 /\ Len(docs') = 1

Do ==
  /\ at' = at + 1
  /\ clean' = IF clean > at THEN 0 ELSE clean
  /\ \E old \in {docs}, new \in {docs'} :
       /\ Len(new) = at + 1
       /\ Refit(SubSeq(old, 1, at), new)

Move ==
  /\ at' \in {at - 1, at + 1}
  /\ \E old \in {docs}, new \in {docs'} :
       /\ at' \in DOMAIN old
       /\ Len(new) = Len(old)
       /\ Refit(old, new)
  /\ UNCHANGED clean

Save == clean' = at /\ UNCHANGED <<docs, at>>

Init == Len(docs) = 1 /\ at = 1 /\ clean = 1

Next == Open \/ Do \/ Move \/ Save

Spec == Init /\ [][Next]_<<docs, at, clean>>
=============================================================================
