------------------------------ MODULE AttachKf ------------------------------
(***************************************************************************)
(* Attach .KF (spells/animation.cpp): the blocks of a second document, an  *)
(* animation, are moved behind those of the document that is open          *)
(* (moveAllNiBlocks), and its sequences are linked in both directions with *)
(* a manager, a multi-target controller and a palette, which are looked    *)
(* for at the animated root and made when they are missing.  The numbers   *)
(* of all of these change while it is done.                                *)
(***************************************************************************)
EXTENDS Branches

CONSTANT Kfs   \* the documents in .kf files

ASSUME KfsAssumption == \A kf \in Kfs : \E b \in Numbers(kf) : Parent(kf, b) = -1

Roots(d) == RootLinks([b \in Numbers(d) |-> ChildLinks(d, b)])

FirstOr(list) == IF list = <<>> THEN -1 ELSE Head(list)

(* findChildNode: the first node of that name from a node on downwards.    *)
FindChildNode(d, node, name) ==
  FirstOr(SelectSeq(Populate(d, node), LAMBDA b : IsNode(d, b) /\ At(d, b).name = name))

(* findRootTarget: the same from any of the root blocks.                   *)
FindRootTarget(d, name) ==
  LET roots == SelectSeq(Roots(d), LAMBDA b : IsNode(d, b))
      found == [r \in DOMAIN roots |-> FindChildNode(d, roots[r], name)]
  IN  FirstOr(SelectSeq(found, LAMBDA b : b # -1))

(* findController: the first of the type in the chain of a node.           *)
FindController(d, node, type) ==
  LET find[c \in -1 .. Len(d) - 1] ==
        IF c = -1 \/ At(d, c).type = type THEN c ELSE find[At(d, c).ctrl]
  IN  find[At(d, node).ctrl]

AccumRoot(seq) == Head(seq.nodes)

(* The nodes a sequence names that are there, as identities, each once.    *)
Controlled(d, root, seq) ==
  LET named == [r \in DOMAIN Tail(seq.nodes) |-> FindChildNode(d, root, Tail(seq.nodes)[r])]
      numbers == CollectLinks(named)
  IN  [i \in DOMAIN numbers |-> At(d, numbers[i]).item]

(* The identity of the next block: blocks are only added.                  *)
New(d) == made + Len(d) - Len(doc)

(* attachController: in front of the chain.                                *)
AttachController(d, node, type) ==
  LET inserted == InsertNiBlock(d, NewBlock(New(d), type), node + 1)
  IN  [inserted EXCEPT ![node + 1].ctrl = node + 1,
                       ![node + 2].ctrl = At(inserted, node).ctrl,
                       ![node + 2].target = node]

WithController(d, item, type) ==
  LET root == NumberOf(d, item)
  IN  IF FindController(d, root, type) = -1 THEN AttachController(d, root, type) ELSE d

(* setLinkArray of the Extra Targets.                                      *)
WithTargets(d, item, nodes) ==
  LET multi == FindController(d, NumberOf(d, item), Multi)
      links == [i \in DOMAIN nodes |-> NumberOf(d, nodes[i])]
      more  == SelectSeq(links, LAMBDA l : ~ Contains(At(d, multi).ptrs, l))
  IN  [d EXCEPT ![multi + 1].ptrs = @ \o more]

WithPalette(d, item) ==
  LET manager == FindController(d, NumberOf(d, item), Manager)
  IN  IF At(d, manager).palette # -1 THEN d
      ELSE [InsertNiBlock(d, NewBlock(New(d), Palette), manager + 1) EXCEPT ![manager + 1].palette = manager + 1]

(* setNameLinkArray of the Objs: nodes whose names are not listed.         *)
WithNames(d, item, nodes) ==
  LET palette == At(d, FindController(d, NumberOf(d, item), Manager)).palette
      numbers == [i \in DOMAIN nodes |-> NumberOf(d, nodes[i])]
      more    == SelectSeq(numbers, LAMBDA b : ~ Contains(At(d, palette).nodes, At(d, b).name))
  IN  [d EXCEPT ![palette + 1].nodes = @ \o [i \in DOMAIN more |-> At(d, more[i]).name],
                ![palette + 1].ptrs = @ \o more]

(* What is made ready for one sequence.                                    *)
Prepared(d, item, seq) ==
  LET nodes == Controlled(d, NumberOf(d, item), seq)
      controlled == WithController(WithController(d, item, Multi), item, Manager)
  IN  WithNames(WithPalette(WithTargets(controlled, item, nodes), item), item, nodes)

(* moveAllNiBlocks, which also maps the links of what it moved.            *)
MoveAllNiBlocks(kf, d) ==
  LET number[l \in Int] == IF l \in Numbers(kf) THEN Len(d) + l ELSE l
  IN  d \o [i \in DOMAIN kf |-> [MapBlock(kf[i], number) EXCEPT !.item = New(d) + i - 1]]

(* Mutant of Joined: the controller is taken to be where it was inserted.  *)
JoinedEarly(d, item, b) ==
  LET root    == NumberOf(d, item)
      manager == FindController(d, root, Manager)
  IN  [d EXCEPT ![manager + 1].kids = Append(@, b),
                ![b + 1].target = manager,
                ![b + 1].kids = [r \in DOMAIN @ |-> IF @[r] = -1 THEN root + 1 ELSE @[r]]]

(* A sequence that was moved is given to the manager, and controllers it   *)
(* has none for are the multi-target one.                                  *)
Joined(d, item, b) ==
  LET root    == NumberOf(d, item)
      manager == FindController(d, root, Manager)
      multi   == FindController(d, root, Multi)
  IN  [d EXCEPT ![manager + 1].kids = Append(@, b),
                ![b + 1].target = manager,
                ![b + 1].kids = [r \in DOMAIN @ |-> IF @[r] = -1 THEN multi ELSE @[r]]]

(* It fails unless all roots are sequences for the same root node.         *)
Attach(kf) ==
  LET seqs == Roots(kf)
      root == FindRootTarget(doc, AccumRoot(At(kf, seqs[1])))
      item == At(doc, root).item
      prepared == FoldLeft(LAMBDA d, l : Prepared(d, item, At(kf, l)), doc, seqs)
      joined == FoldLeft(LAMBDA d, l : Joined(d, item, Len(prepared) + l), MoveAllNiBlocks(kf, prepared), seqs)
  IN  /\ \A l \in ToSet(seqs) : At(kf, l).type = Sequence
      /\ root # -1
      /\ \A l \in ToSet(seqs) : FindRootTarget(doc, AccumRoot(At(kf, l))) = root
      /\ Cast("AttachKf", root, joined)
      /\ made' = made + Len(joined) - Len(doc)
      /\ UNCHANGED <<clip, copied>>

KfNext == Next \/ (spell.left > 0 /\ \E kf \in Kfs : Attach(kf))

KfSpec == Init /\ [][KfNext]_vars

----------------------------------------------------------------------------
(* Every sequence that was attached is in the list of the manager at the   *)
(* animated root and leads back to it, is driven by the multi-target       *)
(* controller of the same root or by controllers of its own, and each node *)
(* it names, the first below the root of that name, is a target of that    *)
(* controller and listed in the palette, whatever blocks were inserted     *)
(* before these were linked.                                               *)
SequencesAttached ==
  [][spell'.name = "AttachKf" =>
       LET root    == NumberOf(doc', At(doc, spell'.block).item)
           multi   == FindController(doc', root, Multi)
           manager == FindController(doc', root, Manager)
           palette == At(doc', manager).palette
           IsNew(b) == At(doc', b).item \notin Items(doc)
       IN  \A b \in Numbers(doc') : IsNew(b) /\ At(doc', b).type = Sequence =>
             /\ At(doc', b).target = manager /\ Contains(At(doc', manager).kids, b)
             /\ \A c \in ToSet(At(doc', b).kids) : c = multi \/ (c # -1 /\ IsNew(c) /\ At(doc', c).type = "NiTimeController")
             /\ \A name \in ToSet(Tail(At(doc', b).nodes)) :
                  LET node == FindChildNode(doc, spell'.block, name)
                  IN  node # -1 => /\ Contains(At(doc', multi).ptrs, NumberOf(doc', At(doc, node).item))
                                   /\ Contains(At(doc', palette).nodes, name)]_vars
=============================================================================
