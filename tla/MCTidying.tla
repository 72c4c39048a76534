----------------------------- MODULE MCTidying -----------------------------
(* A few kinds of small files, each with its blocks in every order.        *)
EXTENDS Tidying

MCPlain == [Glass |-> "Glass", Material |-> "Material", Material2 |-> "Material"]

MCBlock(b, type, name, props, kids, ptrs) ==
  [item |-> b, type |-> type, name |-> name, props |-> props, kids |-> kids, ptrs |-> ptrs]

MCNode(b, props, kids) == MCBlock(b, "NiNode", "Glass", props, kids, <<>>)
MCShape(b, props) == MCBlock(b, "NiTriShape", "Glass", props, <<>>, <<>>)

MCPerms4 == Permutations(1 .. 4)
MCPerms5 == {p \in Permutations(1 .. 5) : p[1] < p[2]}
MCPerms6 == {p \in Permutations(1 .. 6) : p[1] < p[2] /\ p[3] < p[4] /\ p[5] < p[6]}
MCShuffled(d, perms) ==
  {[n \in DOMAIN d |-> MapBlock(d[p[n]], [l \in Int |-> IF l = -1 THEN -1 ELSE (CHOOSE m \in DOMAIN p : p[m] = l + 1) - 1])] :
     p \in perms}

(* A node and a shape with properties of their own, shared, listed twice,  *)
(* equal, equal but for the name, and with a controller.                   *)
MCArrays == {<<2>>, <<3>>, <<2, 3>>, <<3, -1>>, <<2, 2>>}
MCMaterials ==
  {<<MCNode(0, p, k), MCShape(1, q), MCBlock(2, "NiMaterialProperty", "Material", <<>>, <<>>, <<>>), x>> :
     p \in MCArrays, q \in MCArrays, k \in {<<>>, <<-1, 1>>},
     x \in {MCBlock(3, "NiMaterialProperty", n, <<>>, <<>>, <<>>) : n \in {"Glass", "Material2"}}
             \cup {MCBlock(3, "BSShaderProperty", "Material", <<>>, <<>>, <<>>)}}
MCControlled ==
  {<<MCNode(0, <<2>>, <<1>>), MCShape(1, p), MCBlock(2, "NiMaterialProperty", "Material", <<>>, <<3>>, <<>>),
     MCBlock(3, "NiTimeController", "Glass", <<>>, <<>>, <<t>>)>> : p \in {<<>>, <<2>>}, t \in {1, 2}}

(* Textures shared and equal.                                              *)
MCTextures ==
  {<<MCNode(0, <<2>>, <<>>), MCShape(1, p), MCBlock(2, "NiTexturingProperty", "Glass", <<>>, <<4>>, <<>>),
     MCBlock(3, "NiTexturingProperty", "Glass", <<>>, k, <<>>), MCBlock(4, "NiSourceTexture", "Glass", <<>>, <<>>, <<>>),
     MCBlock(5, "NiSourceTexture", n, <<>>, <<>>, <<>>)>> :
     p \in {<<3>>, <<2, 3>>}, k \in {<<5>>, <<4, 5>>}, n \in {"Glass", "Material"}}

(* Nodes in nodes, one of them the target of a controller.                 *)
MCNodes ==
  {<<MCNode(0, <<>>, k), MCNode(1, <<>>, l), MCNode(2, <<>>, m), x>> :
     k \in {<<>>, <<1>>, <<3>>, <<2, -1, 1>>, <<3, 1>>, <<1, 2, 3>>},
     l \in {<<>>, <<2>>, <<3>>, <<3, 2>>}, m \in {<<>>, <<3, -1>>},
     x \in {MCNode(3, <<>>, <<>>), MCShape(3, <<>>)}
             \cup {MCBlock(3, "NiTimeController", "Glass", <<>>, <<>>, <<t>>) : t \in 0 .. 2}}

(* Two bodies, a shape, a constraint, an object that holds a body.         *)
MCBodies ==
  {<<MCBlock(0, "bhkRigidBody", "Glass", <<>>, k, <<>>), MCBlock(1, "bhkRigidBody", "Glass", <<>>, l, <<>>),
     MCBlock(2, "bhkShape", "Glass", <<>>, <<>>, <<>>), MCBlock(3, "bhkConstraint", "Glass", <<>>, <<>>, <<e, f>>),
     MCBlock(4, "bhkCollisionObject", "Glass", <<>>, <<0>>, <<>>)>> :
     k \in {<<2>>, <<2, 3>>}, l \in {<<-1>>, <<2, 3>>, <<-1, 3>>}, e \in -1 .. 1, f \in 0 .. 1}

MCShuffledAll(ds, perms, n) == {[blocks |-> d, spells |-> n] : d \in UNION {MCShuffled(d, perms) : d \in ds}}
MCDocuments ==
  MCShuffledAll(MCMaterials \cup MCNodes, MCPerms4, 1) \cup MCShuffledAll(MCBodies, MCPerms5, 1)
    \cup MCShuffledAll(MCControlled, MCPerms4, 3) \cup MCShuffledAll(MCTextures, MCPerms6, 2)
=============================================================================
