----------------------------- MODULE MCBranches -----------------------------
(* Documents to cast spells on.  Small ones take a long way: copy, change, *)
(* paste.  The larger are there for their shapes: every graph of four      *)
(* nodes, chains of controllers, Ptrs that lead in and out of branches.    *)
EXTENDS AttachKf

MCNames == <<"no name", "a", "b">>

MCNode(b, name, c, S) == [NewBlock(b, "NiNode") EXCEPT !.name = name, !.ctrl = c, !.kids = SetToSortSeq(S, <)]
MCController(b, c, t) == [NewBlock(b, "NiTimeController") EXCEPT !.ctrl = c, !.target = t]

MCNodesOf(n, nodes, b, names) ==
  {MCNode(b, name, c, S) : name \in names, c \in {-1} \cup ((0 .. n - 1) \ nodes), S \in SUBSET (nodes \ {b})}
MCControllersOf(n, nodes, b) ==
  {MCController(b, c, t) : c \in {-1} \cup ((0 .. n - 1) \ (nodes \cup {b})), t \in {-1} \cup nodes}

MCBlocks(n, nodes, b, names) ==
  IF b \in nodes THEN MCNodesOf(n, nodes, b, names) ELSE MCControllersOf(n, nodes, b)

MCPairs ==
  {d \in UNION {{<<x, y>> : x \in MCBlocks(2, nodes, 0, {"no name", "a"}), y \in MCBlocks(2, nodes, 1, {"a"})} :
                  nodes \in SUBSET (0 .. 1)} : WellFormed(d) /\ ~ Recursive(d)}

MCTriples ==
  {d \in UNION {{<<x, y, z>> : x \in MCBlocks(3, nodes, 0, {"a"}), y \in MCBlocks(3, nodes, 1, {"b"}),
                               z \in MCBlocks(3, nodes, 2, {"a"})} :
                  nodes \in SUBSET (0 .. 2)} : WellFormed(d) /\ ~ Recursive(d)}

MCGraphs ==
  {d \in {[i \in 1 .. 4 |-> MCNode(i - 1, MCNames[(i % 3) + 1], -1, kids[i])] :
            kids \in {k \in [1 .. 4 -> SUBSET (0 .. 3)] : \A i \in 1 .. 4 : i - 1 \notin k[i]}} : WellFormed(d) /\ ~ Recursive(d)}

MCHasTarget(d) == \E i \in DOMAIN d : d[i].target # -1
MCIsWorthTwo(d) == MCHasTarget(d) /\ \E i \in DOMAIN d : d[i].kids # <<>>

(* A branch with a Ptr to a block outside, which may move before the paste.*)
MCPointOut ==
  {<<MCNode(0, "a", -1, {}), MCNode(1, "b", 2, {}), MCController(2, -1, 0)>>,
   <<MCNode(0, "a", 2, {}), MCNode(1, "b", -1, {}), MCController(2, -1, 1)>>}

(* Animations: of two nodes; two sequences in a file, one with a controller*)
(* of its own; one for a node further down; two that do not agree.         *)
MCSequence(b, root, name, c) == [NewBlock(b, Sequence) EXCEPT !.nodes = <<root, name>>, !.kids = <<c>>]
MCKfs ==
  {<<[MCSequence(0, "a", "b", -1) EXCEPT !.nodes = <<"a", "b", "a">>, !.kids = <<-1, -1>>]>>,
   <<NewBlock(0, "NiTimeController"), MCSequence(1, "a", "a", 0), MCSequence(2, "a", "b", -1)>>,
   <<MCSequence(0, "b", "a", -1)>>,
   <<MCSequence(0, "a", "b", -1), MCSequence(1, "b", "b", -1)>>}

(* Documents to attach them to: chains of controllers, some from before,   *)
(* of which a manager may come without the multi-target controller or      *)
(* behind it; a root that is not the first block, nor the animated one; and*)
(* an animation that was attached before.                                  *)
MCChained(types) ==
  <<MCNode(0, "a", IF types = <<>> THEN -1 ELSE 2, {1}), MCNode(1, "b", -1, {})>>
    \o [i \in DOMAIN types |-> [NewBlock(i + 1, types[i]) EXCEPT
           !.ctrl = IF i = Len(types) THEN -1 ELSE i + 2, !.target = 0]]
MCAttached ==
  <<MCNode(0, "a", 1, {5}), [NewBlock(1, Manager) EXCEPT !.ctrl = 3, !.kids = <<4>>, !.palette = 2, !.target = 0],
    [NewBlock(2, Palette) EXCEPT !.nodes = <<"b">>, !.ptrs = <<5>>],
    [NewBlock(3, Multi) EXCEPT !.target = 0, !.ptrs = <<5>>],
    [MCSequence(4, "a", "b", 3) EXCEPT !.target = 1], MCNode(5, "b", -1, {})>>
MCAnimated ==
  {MCAttached} \cup {MCChained(t) : t \in {<<>>, <<"NiTimeController">>, <<Multi>>, <<Manager>>, <<Manager, Multi>>, <<Multi, Manager>>}}
    \cup {<<MCNode(0, "b", -1, {}), MCNode(1, "a", -1, {0}), MCNode(2, "no name", -1, {1})>>}

MCDocuments ==
  {[blocks |-> d, spells |-> IF MCHasTarget(d) THEN 3 ELSE 2, room |-> 5] : d \in MCPairs}
    \cup {[blocks |-> d, spells |-> IF MCIsWorthTwo(d) THEN 2 ELSE 1, room |-> 5] : d \in MCTriples}
    \cup {[blocks |-> d, spells |-> 3, room |-> 5] : d \in MCPointOut}
    \cup {[blocks |-> d, spells |-> 1, room |-> 5] : d \in MCGraphs}
    \cup {[blocks |-> d, spells |-> 2, room |-> 14] : d \in MCAnimated}
=============================================================================
