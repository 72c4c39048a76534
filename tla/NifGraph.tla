------------------------------ MODULE NifGraph ------------------------------
(***************************************************************************)
(* What a NIF file is to its user: a graph of blocks.  A link names a      *)
(* block, not a number; where a block stands in the file is no part of     *)
(* what it means.  The editor numbers the blocks and stores numbers in the *)
(* link fields (module NifBlocks); this is the promise it has to keep      *)
(* while blocks are inserted, removed, moved and renumbered.               *)
(***************************************************************************)
EXTENDS Integers

CONSTANTS
  Obj,       \* the blocks that can exist
  Field,     \* the link fields of a block
  Null,      \* the target of a link that is not set: no block
  Dangling   \* the target of a link to a block the file does not have: no block either

VARIABLES
  live,   \* the blocks of the file
  ref     \* what each link field of each block refers to

vars == <<live, ref>>

NoRefs == [f \in Field |-> Null]

Targets == live \cup {Null, Dangling}

TypeOK ==
  /\ live \in SUBSET Obj
  /\ ref \in [Obj -> [Field -> Targets]]
  /\ \A o \in Obj \ live : ref[o] = NoRefs

\* Any file: a load starts a new graph.
Init == TypeOK

\* A new block refers to nothing.  A dangling link may happen to name it.
Create(o) ==
  /\ o \notin live
  /\ live' = live \cup {o}
  /\ ref' \in [Obj -> [Field -> Targets']]
  /\ ref'[o] = NoRefs
  /\ \A p \in Obj \ {o}, f \in Field :
       IF ref[p][f] = Dangling THEN ref'[p][f] \in {Dangling, o} ELSE ref'[p][f] = ref[p][f]

\* A block goes: the links to it are cleared, every other link is kept.
Destroy(o) ==
  /\ o \in live
  /\ live' = live \ {o}
  /\ ref' = [p \in Obj |-> [f \in Field |->
              IF p = o \/ ref[p][f] = o THEN Null ELSE ref[p][f]]]

\* The fields of one block are written; no other block's links change.
Rewrite(o) ==
  /\ o \in live
  /\ UNCHANGED live
  /\ ref'[o] \in [Field -> Targets]
  /\ ref' = [ref EXCEPT ![o] = ref'[o]]

\* Every link to one block is redirected to another.
Redirect(from, to) ==
  /\ UNCHANGED live
  /\ ref' = [p \in Obj |-> [f \in Field |-> IF ref[p][f] = from THEN to ELSE ref[p][f]]]

Next ==
  \/ \E o \in Obj : Create(o) \/ Destroy(o) \/ Rewrite(o)
  \/ \E from, to \in live : Redirect(from, to)

Spec == Init /\ [][Next]_vars
==============================================================================
