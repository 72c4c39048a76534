----------------------------- MODULE MCNifBlocks -----------------------------
(***************************************************************************)
(* NifBlocks on small instances.  A "node" has the Children array, a       *)
(* "ctrl" the Ptr field, an "av" both, an "obj" neither.  A load finds an  *)
(* empty file, or one whose blocks link in a circle and whose footer lists *)
(* a root that is not there.                                               *)
(***************************************************************************)
EXTENDS NifBlocks

CONSTANTS a, b, c   \* model values: the objects

MCArrayTypes == Type \cap {"node", "av"}
MCPtrTypes == Type \cap {"ctrl", "av"}

MCEmpty == [count |-> 0, block |-> [n \in {} |-> a], item |-> [o \in Obj |-> NoItem], footer |-> <<>>]

Node(kid) == [type |-> "node", num |-> 1, rows |-> 1,
              link |-> [f \in Field |-> IF f = 1 THEN kid ELSE -1]]

\* x's row and y's row name each other's blocks.
MCCircle(x, y) ==
  [count |-> 2, block |-> [n \in 0 .. 1 |-> IF n = 0 THEN x ELSE y],
   item |-> [o \in Obj |-> IF o = x THEN Node(1) ELSE IF o = y THEN Node(0) ELSE NoItem],
   footer |-> <<1, 2>>]

MCFiles == {MCEmpty} \cup {MCCircle(x, y) : <<x, y>> \in {p \in Obj \X Obj : p[1] # p[2]}}

MCSymmetry == Permutations(Obj)
==============================================================================
