----------------------------- MODULE MCNifLoad -----------------------------
(* Three blocks, of which any may be unknown or badly read, in files that  *)
(* end anywhere; and old files with ids that are other blocks' numbers.    *)
EXTENDS NifLoad

MCBlock(known, reads, id, links) == [known |-> known, reads |-> reads, id |-> id, links |-> links]

MCKinds == {MCBlock(TRUE, r, 0, <<>>) : r \in Outcomes} \cup {MCBlock(FALSE, "fails", 0, <<>>)}
MCOldKinds == {MCBlock(r # "none", IF r = "none" THEN "fails" ELSE r, id, <<l>>) :
                 r \in {"well", "fails", "none"}, id \in {0, 1, 2, 7}, l \in {-1, 1, 2, 7}}

MCFile(format, archived, cut, blocks) ==
  [format |-> format, archived |-> archived, cut |-> cut, blocks |-> blocks]

MCFiles ==
  {MCFile(f, FALSE, x, bs) : f \in {"inline", "typed", "sized"}, x \in 0 .. 5, bs \in [1 .. 4 -> MCKinds]}
  \cup {MCFile("sized", TRUE, x, bs) : x \in 1 .. 4, bs \in [1 .. 4 -> MCKinds]}
  \cup {MCFile("old", FALSE, x, bs) : x \in {0, 2, 4},
          bs \in {q \in [1 .. 3 -> MCOldKinds] : \A i, j \in 1 .. 3 : q[i].id = q[j].id => i = j}}
=============================================================================
