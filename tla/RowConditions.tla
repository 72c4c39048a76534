--------------------------- MODULE RowConditions ---------------------------
(***************************************************************************)
(* The rows of one compound and their conditions.  A row with a condition  *)
(* is present when every row its condition names is present and not zero.  *)
(* The result is cached in the row; the cache is brought up to date by     *)
(* hand when a row is edited (nifmodel.cpp, evalCondition and              *)
(* invalidateDependentConditions).                                         *)
(***************************************************************************)
EXTENDS Integers, FiniteSets

CONSTANTS Fields,   \* the rows of the compound, 1 .. n in their order
          Needs     \* Needs[f]: the rows that the condition of f names

ASSUME FieldsAssumption ==
  /\ Cardinality(Fields) \in Nat /\ Fields = 1 .. Cardinality(Fields)
  /\ Needs \in [Fields -> SUBSET Fields]
  /\ \A f \in Fields : \A g \in Needs[f] : g < f

Unknown == -1

Truth(b) == IF b THEN 1 ELSE 0

(* What the condition of each row says of the values, without any cache.   *)
(* An absent row counts as zero, since getItem does not find it.           *)
Fresh(val) ==
  LET present[f \in Fields] == \A g \in Needs[f] : present[g] /\ val[g] # 0
  IN  [f \in Fields |-> Truth(present[f])]

(* evalCondition of all rows, those in `again` first made unknown: a row    *)
(* answers from its cache, or asks the rows its condition names.           *)
Evaluated(cache, val, again) ==
  LET answer[f \in Fields] ==
        IF cache[f] # Unknown /\ f \notin again
        THEN cache[f] = 1
        ELSE \A g \in Needs[f] : answer[g] /\ val[g] # 0
  IN  [f \in Fields |-> Truth(answer[f])]

(* The later rows whose condition names the edited one.                    *)
Dependents(edited) == {f \in Fields : f >= edited /\ edited \in Needs[f]}

(* Mutant of Reassess: each row is evaluated with the old caches of the others. *)
ReassessApart(cache, val, edited) ==
  [f \in Fields |-> IF f \in Dependents(edited)
                    THEN Evaluated(cache, val, {f})[f] ELSE cache[f]]

(* invalidateDependentConditions: the dependents are evaluated again, in    *)
(* order; the rows that depend on them in turn are not.                    *)
Reassess(cache, val, edited) ==
  LET now == Evaluated(cache, val, Dependents(edited))
  IN  [f \in Fields |-> IF f \in Dependents(edited) THEN now[f] ELSE cache[f]]

(* A row whose condition also names what the named rows depend on, as do    *)
(* the conditions of these; editing any of them reaches it at once.        *)
NamesAll(f) == \A g \in Needs[f] \cup {f} : \A h \in Needs[g] : Needs[h] \subseteq Needs[g]
=============================================================================
