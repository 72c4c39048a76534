-------------------------- MODULE UndoStack_proofs --------------------------
(***************************************************************************)
(* The cached conditions of the rows, for any compound, any conditions,    *)
(* values and edits, and any number of commands undone and done again: a   *)
(* row whose condition names all it depends on has the right one, unless   *)
(* a merged command wrote one of these rows.                               *)
(*                                                                         *)
(* invalidateDependentConditions evaluates a dependent row from the caches *)
(* of the rows that do not depend on the edited one.  Their caches are     *)
(* right before the edit, and an edit of a row they do not depend on       *)
(* leaves them right; what is evaluated again follows along the rows.      *)
(*                                                                         *)
(* Of LinkGraph_proofs only the lemmas about recursion are used.           *)
(***************************************************************************)
EXTENDS UndoStack, LinkGraph_proofs, SequenceTheorems

------------------------------------------------------------------------------
(* Conditions.                                                             *)

Bits == {0, 1}

LEMMA FieldNumbers == Fields \subseteq Nat /\ \A f \in Fields : Needs[f] \subseteq Fields
  BY FieldsAssumption

\* The condition of a row, where `again` are asked and the others answer for themselves.
Asks(answer, own, val, again) ==
  [f \in Fields |-> IF f \in again THEN \A g \in Needs[f] : answer[g] /\ val[g] # 0 ELSE own[f]]

\* Such answers exist, and are truth values.
LEMMA AnswersExist ==
  ASSUME NEW own \in [Fields -> BOOLEAN], NEW val, NEW again
  PROVE  \E answer \in [Fields -> BOOLEAN] : answer = Asks(answer, own, val, again)
<1> DEFINE T == BOOLEAN
           rank == [f \in Fields |-> f]
           G == [p \in [Fields -> T] \X Fields |->
                   IF p[2] \in again THEN \A g \in Needs[p[2]] : p[1][g] /\ val[g] # 0 ELSE own[p[2]]]
<1>1. rank \in [Fields -> Nat] /\ T # {}
  BY FieldNumbers
<1>2. G \in [[Fields -> T] \X Fields -> T]
  OBVIOUS
<1>3. ASSUME NEW u \in [Fields -> T], NEW v \in [Fields -> T], NEW f \in Fields,
             \A g \in Fields : <<rank[g], rank[f]>> \in Less => u[g] = v[g]
      PROVE  G[<<u, f>>] = G[<<v, f>>]
  <2>1. \A g \in Needs[f] : g \in Fields /\ <<rank[g], rank[f]>> \in Less
    BY FieldsAssumption, FieldNumbers DEF Less
  <2>2. \A g \in Needs[f] : u[g] = v[g]
    BY <1>3, <2>1
  <2> QED BY <2>2
<1>4. \E answer : Defines(G, answer, Fields, T)
  <2> HIDE DEF rank, G, T
  <2>1. Recursive(G, Fields, T, rank, Less)
    BY <1>2, <1>3 DEF Recursive
  <2>2. IsTransitivelyClosedOn(Less, Nat)
    BY DEF Less, IsTransitivelyClosedOn
  <2> QED BY <1>1, <2>1, <2>2, LessIsWellFounded, Recursion
<1>5. PICK answer \in [Fields -> T] : \A f \in Fields : answer[f] = G[<<answer, f>>]
  BY <1>4 DEF Defines
<1>6. \A f \in Fields : answer[f] = Asks(answer, own, val, again)[f]
  BY <1>5 DEF Asks
<1> QED BY <1>5, <1>6 DEF Asks

\* What the condition says, row by row.
LEMMA FreshRule ==
  ASSUME NEW val
  PROVE  /\ Fresh(val) \in [Fields -> Bits]
         /\ \A f \in Fields :
              Fresh(val)[f] = 1 <=> \A g \in Needs[f] : Fresh(val)[g] = 1 /\ val[g] # 0
<1> DEFINE part(present) == [f \in Fields |-> \A g \in Needs[f] : present[g] /\ val[g] # 0]
           p == CHOOSE present : present = part(present)
<1>1. Fresh(val) = [f \in Fields |-> Truth(p[f])]
  BY DEF Fresh
<1>2. \E present : present = part(present)
  <2>1. PICK own \in [Fields -> BOOLEAN] : TRUE
    <3>1. [f \in Fields |-> TRUE] \in [Fields -> BOOLEAN] OBVIOUS
    <3> QED BY <3>1
  <2>2. PICK answer \in [Fields -> BOOLEAN] : answer = Asks(answer, own, val, Fields)
    BY AnswersExist
  <2>3. answer = part(answer)
    BY <2>2 DEF Asks
  <2> QED BY <2>3
<1>3. p = part(p)
  <2> HIDE DEF part
  <2> QED BY <1>2
<1> HIDE DEF p
<1>4. \A f \in Fields : p[f] <=> \A g \in Needs[f] : p[g] /\ val[g] # 0
  BY <1>3
<1>5. \A f \in Fields : Fresh(val)[f] \in Bits /\ (Fresh(val)[f] = 1 <=> p[f])
  BY <1>1 DEF Truth, Bits
<1>6. Fresh(val) \in [Fields -> Bits]
  BY <1>1, <1>5
<1> QED BY <1>4, <1>5, <1>6, FieldNumbers

\* What evalCondition says, row by row.
LEMMA EvaluatedRule ==
  ASSUME NEW cache \in [Fields -> Bits], NEW val, NEW again
  PROVE  /\ Evaluated(cache, val, again) \in [Fields -> Bits]
         /\ \A f \in Fields \ again : Evaluated(cache, val, again)[f] = cache[f]
         /\ \A f \in Fields \cap again :
              Evaluated(cache, val, again)[f] = 1 <=>
                \A g \in Needs[f] : Evaluated(cache, val, again)[g] = 1 /\ val[g] # 0
<1> DEFINE part(answer) == [f \in Fields |->
                              IF cache[f] # Unknown /\ f \notin again
                              THEN cache[f] = 1
                              ELSE \A g \in Needs[f] : answer[g] /\ val[g] # 0]
           a == CHOOSE answer : answer = part(answer)
           ev == Evaluated(cache, val, again)
<1>1. ev = [f \in Fields |-> Truth(a[f])]
  BY DEF Evaluated
<1>2. \A f \in Fields : cache[f] # Unknown
  BY DEF Unknown, Bits
<1>3. \E answer : answer = part(answer)
  <2> DEFINE own == [f \in Fields |-> cache[f] = 1]
  <2>1. PICK answer \in [Fields -> BOOLEAN] : answer = Asks(answer, own, val, again)
    <3>1. own \in [Fields -> BOOLEAN]
      OBVIOUS
    <3> HIDE DEF own
    <3> QED BY <3>1, AnswersExist
  <2>2. answer = part(answer)
    BY <1>2, <2>1 DEF Asks
  <2> QED BY <2>2
<1>4. a = part(a)
  <2> HIDE DEF part
  <2> QED BY <1>3
<1> HIDE DEF a
<1>5. \A f \in Fields : a[f] <=> IF f \notin again THEN cache[f] = 1
                                 ELSE \A g \in Needs[f] : a[g] /\ val[g] # 0
  BY <1>2, <1>4
<1>6. \A f \in Fields : ev[f] \in Bits /\ (ev[f] = 1 <=> a[f])
  BY <1>1 DEF Truth, Bits
<1>7. ev \in [Fields -> Bits]
  BY <1>1, <1>6
<1>8. \A f \in Fields \ again : ev[f] = cache[f]
  BY <1>5, <1>6 DEF Bits
<1>9. \A f \in Fields \cap again : ev[f] = 1 <=> \A g \in Needs[f] : ev[g] = 1 /\ val[g] # 0
  BY <1>5, <1>6, FieldNumbers
<1> QED BY <1>7, <1>8, <1>9

\* What holds of a row when it holds of the rows its condition names holds of all.
LEMMA FieldInduction ==
  ASSUME NEW S, \A f \in Fields : Needs[f] \subseteq S => f \in S
  PROVE  Fields \subseteq S
<1> DEFINE B == Fields \ S
<1>1. SUFFICES ASSUME B # {} PROVE FALSE
  OBVIOUS
<1>2. PICK f \in B : \A g \in B : ~ (<<g, f>> \in Less)
  <2>1. B \subseteq Nat
    BY FieldNumbers
  <2> HIDE DEF B
  <2> QED BY <1>1, <2>1, LessIsWellFounded, WFMin
<1>3. ASSUME NEW g \in Needs[f] PROVE g \in S
  <2>1. g \in Fields /\ g < f /\ g \in Nat /\ f \in Nat
    BY FieldsAssumption, FieldNumbers
  <2> QED BY <1>2, <2>1 DEF Less
<1> QED BY <1>2, <1>3

\* The rows that a row names name all they depend on, and nothing it does not name.
LEMMA NamedRows ==
  ASSUME NEW f \in Fields, NamesAll(f), NEW g \in Needs[f]
  PROVE  g \in Fields /\ NamesAll(g) /\ Needs[g] \subseteq Needs[f]
  BY FieldNumbers DEF NamesAll

\* Such a row depends on the values of the rows it names alone.
LEMMA FreshSame ==
  ASSUME NEW u, NEW v, NEW f \in Fields, NamesAll(f), \A g \in Needs[f] : u[g] = v[g]
  PROVE  Fresh(u)[f] = Fresh(v)[f]
<1> DEFINE S == {h \in Fields : NamesAll(h) /\ (\A g \in Needs[h] : u[g] = v[g])
                                  => Fresh(u)[h] = Fresh(v)[h]}
<1>1. ASSUME NEW h \in Fields, Needs[h] \subseteq S PROVE h \in S
  <2> SUFFICES ASSUME NamesAll(h), \A g \in Needs[h] : u[g] = v[g]
               PROVE  Fresh(u)[h] = Fresh(v)[h]
    OBVIOUS
  <2>1. \A g \in Needs[h] : Fresh(u)[g] = Fresh(v)[g]
    BY <1>1, NamedRows
  <2>2. Fresh(u)[h] = 1 <=> Fresh(v)[h] = 1
    BY <2>1, FreshRule
  <2> QED BY <2>2, FreshRule DEF Bits
<1>2. Fields \subseteq S
  <2> HIDE DEF S
  <2> QED BY <1>1, FieldInduction
<1> QED BY <1>2

\* The caches of the rows that name all, and none that was written quietly, are right.
Right(cache, val, hushed) ==
  \A f \in Fields : NamesAll(f) /\ Needs[f] \cap hushed = {} => cache[f] = Fresh(val)[f]

\* Values written quietly.
LEMMA RightWhenQuiet ==
  ASSUME NEW cache, NEW u, NEW v, NEW hushed, Right(cache, u, hushed), NEW written,
         \A y \in Fields \ written : v[y] = u[y]
  PROVE  Right(cache, v, hushed \cup written)
<1> SUFFICES ASSUME NEW f \in Fields, NamesAll(f), Needs[f] \cap (hushed \cup written) = {}
             PROVE  cache[f] = Fresh(v)[f]
  BY DEF Right
<1>1. \A g \in Needs[f] : u[g] = v[g]
  BY FieldNumbers
<1> QED BY <1>1, FreshSame DEF Right

\* An edited row, with what depends on it evaluated again.
LEMMA RightAfterEdit ==
  ASSUME NEW cache \in [Fields -> Bits], NEW u, NEW v, NEW hushed, Right(cache, u, hushed),
         NEW x \in Fields, \A y \in Fields \ {x} : v[y] = u[y]
  PROVE  /\ Reassess(cache, v, x) \in [Fields -> Bits]
         /\ Right(Reassess(cache, v, x), v, hushed \ {x})
<1> DEFINE again == Dependents(x)
           now == Evaluated(cache, v, again)
           new == Reassess(cache, v, x)
<1>1. new = [f \in Fields |-> IF f \in again THEN now[f] ELSE cache[f]]
  BY DEF Reassess
<1>2. \A f \in Fields : f \in again <=> x \in Needs[f]
  BY FieldsAssumption, FieldNumbers DEF Dependents
<1> HIDE DEF again
<1>3. /\ now \in [Fields -> Bits]
      /\ \A f \in Fields \ again : now[f] = cache[f]
      /\ \A f \in Fields \cap again : now[f] = 1 <=> \A g \in Needs[f] : now[g] = 1 /\ v[g] # 0
  BY EvaluatedRule
<1> HIDE DEF now, new
<1>4. new = now
  BY <1>1, <1>3
<1> DEFINE S == {f \in Fields : NamesAll(f) /\ Needs[f] \cap (hushed \ {x}) = {} => now[f] = Fresh(v)[f]}
<1>5. ASSUME NEW f \in Fields, Needs[f] \subseteq S PROVE f \in S
  <2> SUFFICES ASSUME NamesAll(f), Needs[f] \cap (hushed \ {x}) = {} PROVE now[f] = Fresh(v)[f]
    OBVIOUS
  <2>1. CASE f \in again
    <3>1. \A g \in Needs[f] : now[g] = Fresh(v)[g]
      BY <1>5, NamedRows
    <3>2. now[f] = 1 <=> Fresh(v)[f] = 1
      BY <1>3, <2>1, <3>1, FreshRule
    <3> QED BY <1>3, <3>2, FreshRule DEF Bits
  <2>2. CASE f \notin again
    <3>1. x \notin Needs[f] /\ now[f] = cache[f]
      BY <1>2, <1>3, <2>2
    <3>2. cache[f] = Fresh(u)[f]
      BY <3>1 DEF Right
    <3>3. \A g \in Needs[f] : u[g] = v[g]
      BY <3>1, FieldNumbers
    <3> QED BY <3>1, <3>2, <3>3, FreshSame
  <2> QED BY <2>1, <2>2
<1>6. Fields \subseteq S
  <2> HIDE DEF S
  <2> QED BY <1>5, FieldInduction
<1>7. Right(new, v, hushed \ {x})
  BY <1>4, <1>6 DEF Right
<1> QED BY <1>3, <1>4, <1>7 DEF new

------------------------------------------------------------------------------
(* Documents and commands.                                                 *)

\* A document, with a value for each field and each row of the array.
IsDoc(d) ==
  /\ d = [val |-> d.val, rows |-> d.rows, made |-> d.made, cached |-> d.cached]
  /\ d.rows \in Seq(Nat) /\ d.made \in Nat /\ d.cached \in [Fields -> Bits]
  /\ d.val \in [Fields \cup Range(d.rows) -> Nat]

\* A document with the right conditions, but for what was written quietly.
Sound(d, hushed) == IsDoc(d) /\ Right(d.cached, d.val, hushed)

\* A command has one value of each kind for each index.
Commands ==
  {c \in [kind : {"value", "array"}, at : Seq(Nat), old : Seq(Nat), new : Seq(Nat), open : BOOLEAN] :
     /\ Len(c.old) = Len(c.at) /\ Len(c.new) = Len(c.at)
     /\ c.kind = "array" => Len(c.at) = 0 /\ ~ c.open}

Undos == {u \in [list : Seq(Commands), index : Nat, clean : Int] : u.index <= Len(u.list)}

\* What a document is made of.
LEMMA DocRules ==
  ASSUME NEW d, IsDoc(d)
  PROVE  /\ d.val \in [Live(d) -> Nat] /\ Live(d) = Fields \cup Range(d.rows)
         /\ Fields \subseteq Live(d) /\ Live(d) \subseteq Nat /\ Range(d.rows) \subseteq Nat
<1>1. Range(d.rows) \subseteq Nat
  BY DEF IsDoc, Range
<1> QED BY <1>1, FieldNumbers DEF IsDoc, Live

\* No row comes or goes.
SameRows(d, e) == Live(e) = Live(d) /\ e.rows = d.rows

\* Other values and caches for the same rows.
Put(d, val, cached) == [d EXCEPT !.val = val, !.cached = cached]

LEMMA DocMade ==
  ASSUME NEW d, IsDoc(d), NEW val \in [Live(d) -> Nat], NEW cached \in [Fields -> Bits],
         NEW e, e = Put(d, val, cached)
  PROVE  /\ IsDoc(e) /\ SameRows(d, e) /\ e.made = d.made
         /\ e.val = val /\ e.cached = cached
<1>1. e = [val |-> val, rows |-> d.rows, made |-> d.made, cached |-> cached]
  BY DEF IsDoc, Put
<1>2. val \in [Fields \cup Range(d.rows) -> Nat] /\ DOMAIN val = Live(d)
  BY DocRules
<1> QED BY <1>1, <1>2 DEF IsDoc, Live, SameRows

\* setData while the model is not Processing.
Edited(d, x, v) == SetData(d, x, v, FALSE)

\* setData of a row there is: its value is set and the rows that depend on it are
\* evaluated again.
LEMMA SetDataRight ==
  ASSUME NEW d, NEW hushed, Sound(d, hushed), NEW x \in Live(d), NEW v \in Nat,
         NEW e, e = Edited(d, x, v)
  PROVE  /\ Sound(e, hushed \ {x}) /\ SameRows(d, e)
         /\ e.val = [d.val EXCEPT ![x] = v]
<1> DEFINE val == [d.val EXCEPT ![x] = v]
           cached == IF x \notin Fields THEN d.cached ELSE Reassess(d.cached, val, x)
<1>1. IsDoc(d) /\ Right(d.cached, d.val, hushed)
  BY DEF Sound
<1>2. e = Put(d, val, cached)
  BY DEF Edited, SetData, Put
<1>3. val \in [Live(d) -> Nat] /\ \A y \in Fields \ {x} : val[y] = d.val[y]
  BY <1>1, DocRules
<1> HIDE DEF val
<1>4. cached \in [Fields -> Bits] /\ Right(cached, val, hushed \ {x})
  <2>0. d.cached \in [Fields -> Bits]
    BY <1>1 DEF IsDoc
  <2>1. CASE x \in Fields
    BY <1>1, <1>3, <2>0, <2>1, RightAfterEdit
  <2>2. CASE x \notin Fields
    <3>1. Right(d.cached, val, hushed \cup {})
      BY <1>1, <1>3, <2>2, RightWhenQuiet
    <3>2. \A f \in Fields : Needs[f] \cap hushed = Needs[f] \cap (hushed \ {x})
      BY <2>2, FieldNumbers
    <3> QED BY <2>0, <2>2, <3>1, <3>2 DEF Right
  <2> QED BY <2>1, <2>2
<1> HIDE DEF cached
<1>5. IsDoc(e) /\ SameRows(d, e) /\ e.val = val /\ e.cached = cached
  <2>1. PICK values \in [Live(d) -> Nat] : values = val
    BY <1>3
  <2>2. PICK caches \in [Fields -> Bits] : caches = cached
    BY <1>4
  <2>3. IsDoc(d) /\ e = Put(d, values, caches)
    BY <1>1, <1>2, <2>1, <2>2
  <2>4. /\ IsDoc(e) /\ SameRows(d, e)
        /\ e.val = values /\ e.cached = caches
    BY <2>3, DocMade
  <2> QED BY <2>1, <2>2, <2>4
<1> QED BY <1>4, <1>5 DEF Sound, val

\* Setting a value again while Processing changes nothing.
LEMMA SetAgain ==
  ASSUME NEW d, IsDoc(d), NEW x \in Live(d)
  PROVE  SetData(d, x, d.val[x], TRUE) = d
<1>1. [d.val EXCEPT ![x] = d.val[x]] = d.val
  BY DocRules
<1>2. SetData(d, x, d.val[x], TRUE) = [d EXCEPT !.val = d.val, !.cached = d.cached]
  BY <1>1 DEF SetData
<1> QED BY <1>2 DEF IsDoc

\* The values a command gives are among its values.
LEMMA GivenType ==
  ASSUME NEW c \in Commands, NEW d, NEW x \in Range(c.at) \cap Live(d), NEW values \in Seq(Nat),
         Len(values) = Len(c.at)
  PROVE  Given(d, c, values, x) \in Nat
<1> DEFINE place == CHOOSE k \in DOMAIN c.at : c.at[k] = x
           valid == {k \in 1 .. place : c.at[k] \in Live(d)}
<1>1. place \in DOMAIN c.at /\ c.at[place] = x
  BY DEF Range
<1>2. c.at \in Seq(Nat) /\ DOMAIN c.at = 1 .. Len(c.at) /\ Len(c.at) \in Nat
  BY DEF Commands
<1> HIDE DEF place
<1>3. /\ IsFiniteSet(1 .. place) /\ Cardinality(1 .. place) = place
      /\ place \in 1 .. Len(values)
  BY <1>1, <1>2, FS_Interval
<1>4. place \in valid /\ valid \subseteq 1 .. place
  BY <1>1, <1>2
<1> HIDE DEF valid
<1>5. IsFiniteSet(valid) /\ Cardinality(valid) <= place /\ Cardinality(valid) \in Nat
  BY <1>3, <1>4, FS_Subset, FS_CardinalityType
<1>6. Cardinality(valid) # 0
  BY <1>4, <1>5, FS_EmptySet
<1>7. Cardinality(valid) \in 1 .. Len(values)
  BY <1>3, <1>5, <1>6
<1>8. Given(d, c, values, x) = values[Cardinality(valid)]
  BY DEF Given, ValidPlace, valid, place
<1> QED BY <1>7, <1>8

\* redo() or undo() of a value command.
LEMMA ReplayRight ==
  ASSUME NEW d, NEW hushed, Sound(d, hushed), NEW c \in Commands, NEW values \in Seq(Nat),
         Len(values) = Len(c.at), NEW e, e = Replay(d, c, values)
  PROVE  Sound(e, (hushed \ Loudly(c)) \cup Quietly(c)) /\ SameRows(d, e)
<1> DEFINE valid == Range(c.at) \cap Live(d)
           left == (hushed \ Loudly(c)) \cup Quietly(c)
<1>1. /\ c.at \in Seq(Nat) /\ DOMAIN c.at = 1 .. Len(c.at) /\ Len(c.at) \in Nat
      /\ DOMAIN values = 1 .. Len(c.at)
  BY DEF Commands
<1>2. CASE Len(c.at) = 1 /\ valid # {}
  <2>1. DOMAIN c.at = {1} /\ Range(c.at) = {c.at[1]}
    BY <1>1, <1>2 DEF Range
  <2>2. PICK x \in Live(d) : x = c.at[1]
    BY <1>1, <1>2, <2>1
  <2>3. PICK v \in Nat : v = values[1]
    <3>1. 1 \in 1 .. Len(values)
      BY <1>2
    <3>2. values[1] \in Nat
      BY <3>1, ElementOfSeq
    <3> QED BY <3>2
  <2>4. left = hushed \ {x}
    BY <1>2, <2>1, <2>2 DEF Loudly, Quietly
  <2>5. e = Edited(d, x, v)
    BY <1>2, <2>2, <2>3 DEF Replay, Edited
  <2>6. Sound(e, hushed \ {x}) /\ SameRows(d, e)
    BY <2>5, SetDataRight
  <2> QED BY <2>4, <2>6
<1>3. CASE ~ (Len(c.at) = 1 /\ valid # {})
  <2> DEFINE val == [x \in Live(d) |-> IF x \in valid THEN Given(d, c, values, x) ELSE d.val[x]]
  <2>1. IsDoc(d) /\ Right(d.cached, d.val, hushed) /\ d.cached \in [Fields -> Bits]
    BY DEF Sound, IsDoc
  <2>2. d.val \in [Live(d) -> Nat] /\ Fields \subseteq Live(d)
    BY <2>1, DocRules
  <2>3. e = [d EXCEPT !.val = val]
    BY <1>3 DEF Replay
  <2>4. val \in [Live(d) -> Nat]
    <3>1. \A x \in valid : Given(d, c, values, x) \in Nat
      BY GivenType
    <3> QED BY <2>2, <3>1
  <2>5. \A y \in Fields \ valid : val[y] = d.val[y]
    BY <2>2
  <2> HIDE DEF val
  <2>6. e = Put(d, val, d.cached)
    BY <2>1, <2>3 DEF IsDoc, Put
  <2>7. /\ IsDoc(e) /\ e.val = val /\ e.cached = d.cached
        /\ SameRows(d, e)
    BY <2>1, <2>4, <2>6, DocMade
  <2>8. Right(d.cached, val, hushed \cup valid)
    BY <2>1, <2>5, RightWhenQuiet
  <2>9. \A f \in Fields : Needs[f] \cap left = {} => Needs[f] \cap (hushed \cup valid) = {}
    <3> SUFFICES ASSUME NEW f \in Fields, NEW g \in Needs[f], g \in hushed \cup valid
                 PROVE  g \in left
      OBVIOUS
    <3>1. g \in Fields /\ g \in Live(d)
      BY <2>2, FieldNumbers
    <3>2. CASE Len(c.at) > 1
      BY <3>1, <3>2 DEF Loudly, Quietly
    <3>3. CASE Len(c.at) = 1
      <4>1. valid = {} /\ g \notin Range(c.at)
        BY <1>3, <3>1, <3>3
      <4> QED BY <3>3, <4>1 DEF Loudly, Quietly
    <3>4. CASE Len(c.at) = 0
      <4>1. Range(c.at) = {}
        BY <1>1, <3>4 DEF Range
      <4> QED BY <3>4, <4>1 DEF Loudly, Quietly
    <3>5. PICK n \in Nat : n = Len(c.at)
      BY <1>1
    <3>6. n > 1 \/ n = 1 \/ n = 0
      OBVIOUS
    <3> QED BY <3>2, <3>3, <3>4, <3>5, <3>6
  <2> HIDE DEF left
  <2>10. Right(d.cached, val, left)
    BY <2>8, <2>9 DEF Right
  <2> QED BY <2>7, <2>10 DEF Sound, left
<1> QED BY <1>2, <1>3

\* More written quietly, fewer rows that must be right.
LEMMA SoundWith ==
  ASSUME NEW d, NEW hushed, NEW more, Sound(d, hushed), hushed \subseteq more
  PROVE  Sound(d, more)
  BY DEF Sound, Right

\* The least of two numbers.
LEMMA MinOfTwo ==
  ASSUME NEW m \in Nat, NEW n \in Nat
  PROVE  Min({m, n}) \in Nat /\ Min({m, n}) <= m /\ Min({m, n}) <= n
<1>1. \E k \in {m, n} : \A j \in {m, n} : k <= j
  OBVIOUS
<1> QED BY <1>1 DEF Min

\* A sequence of numbers for 1 .. n, which is empty when n is not positive.
LEMMA NumbersUpTo ==
  ASSUME NEW n \in Int
  PROVE  \E k \in Nat : 1 .. n = 1 .. k
<1>1. CASE n >= 0
  BY <1>1
<1>2. CASE n < 0
  <2>1. 1 .. n = 1 .. 0 BY <1>2
  <2> QED BY <2>1
<1> QED BY <1>1, <1>2

\* A function on 1 .. n is a sequence.
LEMMA SequenceOf ==
  ASSUME NEW n \in Nat, NEW S, NEW s \in [1 .. n -> S]
  PROVE  s \in Seq(S) /\ Len(s) = n /\ Len(s) \in Nat
  OBVIOUS

\* updateArray: rows come and go, the fields and their conditions are left alone.
LEMMA UpdateArrayRight ==
  ASSUME NEW d, NEW hushed, Sound(d, hushed), NEW e, e = UpdateArray(d)
  PROVE  Sound(e, hushed)
<1> DEFINE ev == Evaluated(d.cached, d.val, {})
           size == IF ev[SizeField] = 1 THEN d.val[SizeField] ELSE 0
           more == [i \in 1 .. size - Len(d.rows) |-> Item(d.made + i)]
           rows == SubSeq(d.rows, 1, Min({size, Len(d.rows)})) \o more
           val == [x \in Fields \cup Range(rows) |-> IF x \in Live(d) THEN d.val[x] ELSE 0]
<1>1. IsDoc(d) /\ Right(d.cached, d.val, hushed)
  BY DEF Sound
<1>2. /\ d.val \in [Live(d) -> Nat] /\ Fields \subseteq Live(d) /\ SizeField \in Fields
      /\ d.rows \in Seq(Nat) /\ d.made \in Nat
      /\ d = [val |-> d.val, rows |-> d.rows, made |-> d.made, cached |-> d.cached]
  BY <1>1, DocRules, UndoAssumption DEF IsDoc
<1>3. e = [d EXCEPT !.rows = rows, !.made = @ + Len(more), !.val = val]
  BY DEF UpdateArray
<1>4. size \in Nat /\ Len(d.rows) \in Nat
  BY <1>2
<1> HIDE DEF size
<1>5. PICK k \in Nat : 1 .. size - Len(d.rows) = 1 .. k
  <2>1. PICK m \in Nat : m = Len(d.rows)
    BY <1>4
  <2>2. size - m \in Int
    BY <1>4
  <2>3. \E k \in Nat : 1 .. size - m = 1 .. k
    BY <2>2, NumbersUpTo
  <2> QED BY <2>1, <2>3
<1>6. more \in Seq(Nat) /\ Len(more) \in Nat
  <2>1. \A i \in 1 .. k : Item(d.made + i) \in Nat
    BY <1>2, FieldsAssumption DEF Item
  <2>2. more = [i \in 1 .. k |-> Item(d.made + i)]
    BY <1>5
  <2>3. more \in [1 .. k -> Nat]
    BY <2>1, <2>2
  <2> HIDE DEF more
  <2> QED BY <2>3, SequenceOf
<1> HIDE DEF more
<1>7. rows \in Seq(Nat)
  <2>1. PICK m \in Nat : m = Min({size, Len(d.rows)}) /\ m <= Len(d.rows)
    BY <1>4, MinOfTwo
  <2>2. \A i \in 1 .. m : d.rows[i] \in Nat
    BY <1>2, <1>4, <2>1
  <2>3. SubSeq(d.rows, 1, m) \in Seq(Nat)
    BY <2>2, SubSeqProperties
  <2> QED BY <1>6, <2>1, <2>3, ConcatProperties
<1> HIDE DEF rows
<1>8. val \in [Fields \cup Range(rows) -> Nat] /\ \A y \in Fields \ {} : val[y] = d.val[y]
  BY <1>2
<1> HIDE DEF val
<1>9. e = [val |-> val, rows |-> rows, made |-> d.made + Len(more), cached |-> d.cached]
  BY <1>2, <1>3
<1>10. IsDoc(e)
  <2>1. d.cached \in [Fields -> Bits] /\ d.made + Len(more) \in Nat
    BY <1>1, <1>2, <1>6 DEF IsDoc
  <2> QED BY <1>7, <1>8, <1>9, <2>1 DEF IsDoc
<1>11. Right(d.cached, val, hushed \cup {})
  BY <1>1, <1>8, RightWhenQuiet
<1>12. hushed \cup {} = hushed
  OBVIOUS
<1> QED BY <1>9, <1>10, <1>11, <1>12 DEF Sound

\* redo() and undo() of any command.
LEMMA CommandRight ==
  ASSUME NEW d, NEW hushed, Sound(d, hushed), NEW c \in Commands, NEW e,
         e = RedoCommand(d, c) \/ e = UndoCommand(d, c)
  PROVE  Sound(e, (hushed \ Loudly(c)) \cup Quietly(c))
<1>1. CASE c.kind = "array"
  <2>1. Sound(e, hushed)
    BY <1>1, UpdateArrayRight DEF RedoCommand, UndoCommand
  <2>2. c.at \in Seq(Nat) /\ Len(c.at) = 0
    BY <1>1 DEF Commands
  <2>3. Range(c.at) = {}
    BY <2>2 DEF Range
  <2>4. (hushed \ Loudly(c)) \cup Quietly(c) = hushed
    BY <2>2, <2>3 DEF Loudly, Quietly
  <2> QED BY <2>1, <2>4
<1>2. CASE c.kind # "array"
  <2>1. PICK values \in Seq(Nat) : e = Replay(d, c, values) /\ Len(values) = Len(c.at)
    BY <1>2 DEF RedoCommand, UndoCommand, Commands
  <2> QED BY <2>1, ReplayRight
<1> QED BY <1>1, <1>2

------------------------------------------------------------------------------
(* The stack.                                                              *)

\* A command that nothing is merged into.
LEMMA ClosedIsCommand ==
  ASSUME NEW c \in Commands
  PROVE  [c EXCEPT !.open = FALSE] \in Commands
  BY DEF Commands

\* The commands of one value.
LEMMA ChangeIsCommand ==
  ASSUME NEW x \in Nat, NEW old \in Nat, NEW new \in Nat
  PROVE  /\ Change(x, old, new) \in Commands /\ Toggle(x, old, new) \in Commands
         /\ Resize \in Commands
<1>1. /\ <<x>> \in Seq(Nat) /\ <<old>> \in Seq(Nat) /\ <<new>> \in Seq(Nat) /\ <<>> \in Seq(Nat)
      /\ Len(<<x>>) = 1 /\ Len(<<old>>) = 1 /\ Len(<<new>>) = 1 /\ Len(<<>>) = 0
  OBVIOUS
<1>2. Resize \in Commands
  BY <1>1 DEF Resize, Commands
<1>3. PICK at \in Seq(Nat), was \in Seq(Nat), is \in Seq(Nat) :
        /\ at = <<x>> /\ was = <<old>> /\ is = <<new>>
        /\ Len(was) = Len(at) /\ Len(is) = Len(at)
  BY <1>1
<1>4. Change(x, old, new) = [kind |-> "value", at |-> at, old |-> was, new |-> is, open |-> TRUE]
  <2>1. Change(x, old, new)
          = [kind |-> "value", at |-> <<x>>, old |-> <<old>>, new |-> <<new>>, open |-> TRUE]
    BY DEF Change
  <2> QED BY ONLY <1>3, <2>1
<1>5. Change(x, old, new) \in Commands
  BY <1>3, <1>4 DEF Commands
<1>6. Toggle(x, old, new) \in Commands
  BY <1>5, ClosedIsCommand DEF Toggle
<1> QED BY <1>2, <1>5, <1>6

\* mergeWith keeps one value of each kind for each index.
LEMMA MergeIsCommand ==
  ASSUME NEW c \in Commands, NEW e \in Commands, c.open, e.open
  PROVE  Merge(c, e) \in Commands
<1>1. /\ c.at \in Seq(Nat) /\ c.old \in Seq(Nat) /\ c.new \in Seq(Nat)
      /\ e.at \in Seq(Nat) /\ e.old \in Seq(Nat) /\ e.new \in Seq(Nat)
      /\ Len(c.old) = Len(c.at) /\ Len(c.new) = Len(c.at)
      /\ Len(e.old) = Len(e.at) /\ Len(e.new) = Len(e.at)
      /\ c.kind = "value" /\ c.open \in BOOLEAN
      /\ c = [kind |-> c.kind, at |-> c.at, old |-> c.old, new |-> c.new, open |-> c.open]
  BY DEF Commands
<1> DEFINE at == c.at \o e.at   old == c.old \o e.old   new == c.new \o e.new
<1>2. /\ at \in Seq(Nat) /\ old \in Seq(Nat) /\ new \in Seq(Nat)
      /\ Len(old) = Len(at) /\ Len(new) = Len(at)
  <2>1. at \in Seq(Nat) /\ Len(at) = Len(c.at) + Len(e.at)
    BY <1>1, ConcatProperties
  <2>2. old \in Seq(Nat) /\ Len(old) = Len(c.old) + Len(e.old)
    BY <1>1, ConcatProperties
  <2>3. new \in Seq(Nat) /\ Len(new) = Len(c.new) + Len(e.new)
    BY <1>1, ConcatProperties
  <2> HIDE DEF at, old, new
  <2> QED BY <1>1, <2>1, <2>2, <2>3
<1>3. Merge(c, e) = [c EXCEPT !.at = at, !.old = old, !.new = new]
  BY DEF Merge
<1> HIDE DEF at, old, new
<1>4. Merge(c, e) = [kind |-> c.kind, at |-> at, old |-> old, new |-> new, open |-> c.open]
  BY <1>1, <1>3
<1> QED BY <1>1, <1>2, <1>4 DEF Commands

\* A new command on the stack, or merged into the last one.
LEMMA PushCommandKeeps ==
  ASSUME NEW u \in Undos, NEW c \in Commands
  PROVE  PushCommand(u, c) \in Undos
<1> DEFINE kept == SubSeq(u.list, 1, u.index)
           clean == IF u.clean > u.index THEN -1 ELSE u.clean
           merges == u.index > 0 /\ c.open /\ kept[u.index].open /\ clean # u.index
<1>1. /\ u.list \in Seq(Commands) /\ u.index \in Nat /\ u.index <= Len(u.list)
      /\ u.clean \in Int /\ clean \in Int
  BY DEF Undos
<1>2. kept \in Seq(Commands) /\ Len(kept) = u.index
  <2>1. \A i \in 1 .. u.index : u.list[i] \in Commands
    BY <1>1
  <2>2. PICK n \in Nat : n = u.index
    BY <1>1
  <2> QED BY <2>1, <2>2, SubSeqProperties
<1>3. PushCommand(u, c) =
        IF merges
        THEN [list |-> [kept EXCEPT ![u.index] = Merge(@, c)], index |-> u.index, clean |-> clean]
        ELSE [list |-> Append(kept, c), index |-> u.index + 1, clean |-> clean]
  BY DEF PushCommand
<1> HIDE DEF kept, clean
<1>4. CASE merges
  <2>1. PICK n \in 1 .. Len(kept) : n = u.index
    BY <1>1, <1>2, <1>4
  <2>2. kept[n] \in Commands
    BY <1>2, <2>1, ElementOfSeq
  <2>3. PICK m \in Commands : m = Merge(kept[n], c)
    <3>1. PICK k \in Commands : k = kept[n]
      BY <2>2
    <3>2. Merge(k, c) \in Commands
      BY <1>4, <2>1, <3>1, MergeIsCommand
    <3> QED BY <3>1, <3>2
  <2>4. PICK l \in Seq(Commands) : l = [kept EXCEPT ![n] = m] /\ Len(l) = u.index
    <3>1. PICK s \in Seq(Commands) : s = kept
      BY <1>2
    <3>2. [s EXCEPT ![n] = m] \in Seq(Commands) /\ Len([s EXCEPT ![n] = m]) = Len(s)
      BY <3>1, ExceptSeq
    <3> QED BY <1>2, <3>1, <3>2
  <2>5. PushCommand(u, c) = [list |-> l, index |-> u.index, clean |-> clean]
    BY <1>3, <1>4, <2>1, <2>3, <2>4
  <2> QED BY <1>1, <2>4, <2>5 DEF Undos
<1>5. CASE ~ merges
  <2>1. PICK l \in Seq(Commands) : l = Append(kept, c) /\ Len(l) = u.index + 1
    <3>1. PICK s \in Seq(Commands) : s = kept
      BY <1>2
    <3>2. Append(s, c) \in Seq(Commands) /\ Len(Append(s, c)) = Len(s) + 1
      BY AppendProperties
    <3> QED BY <1>2, <3>1, <3>2
  <2>2. PushCommand(u, c) = [list |-> l, index |-> u.index + 1, clean |-> clean]
    BY <1>3, <1>5, <2>1
  <2> QED BY <1>1, <2>1, <2>2 DEF Undos
<1> QED BY <1>4, <1>5

\* No command of an earlier transaction is merged into.
LEMMA CreateTransactionKeeps ==
  ASSUME NEW u \in Undos
  PROVE  CreateTransaction(u) \in Undos
<1>1. u.list \in Seq(Commands) /\ DOMAIN u.list = 1 .. Len(u.list) /\ Len(u.list) \in Nat
      /\ u.index \in Nat /\ u.clean \in Int /\ u.index <= Len(u.list)
      /\ u = [list |-> u.list, index |-> u.index, clean |-> u.clean]
  BY DEF Undos
<1> DEFINE l == [i \in DOMAIN u.list |-> [u.list[i] EXCEPT !.open = FALSE]]
<1>2. \A c \in Commands : [c EXCEPT !.open = FALSE] \in Commands
  BY ClosedIsCommand
<1>3. l \in Seq(Commands) /\ Len(l) = Len(u.list)
  BY <1>1, <1>2
<1>4. CreateTransaction(u) = [u EXCEPT !.list = l]
  BY DEF CreateTransaction
<1> HIDE DEF l
<1>5. CreateTransaction(u) = [list |-> l, index |-> u.index, clean |-> u.clean]
  BY <1>1, <1>4
<1> QED BY <1>1, <1>3, <1>5 DEF Undos

------------------------------------------------------------------------------
(* Pasting row after row.                                                  *)

\* The value is set by the paste, and again by its command.
Twice(d, x, v, processing) == SetData(SetData(d, x, v, FALSE), x, v, processing)

LEMMA TwiceRight ==
  ASSUME NEW d, NEW hushed, Sound(d, hushed), NEW x \in Live(d), NEW v \in Nat,
         NEW processing \in BOOLEAN
  PROVE  Sound(Twice(d, x, v, processing), hushed \ {x}) /\ SameRows(d, Twice(d, x, v, processing))
<1>1. PICK e : e = Edited(d, x, v)
  OBVIOUS
<1>2. Sound(e, hushed \ {x}) /\ SameRows(d, e) /\ e.val = [d.val EXCEPT ![x] = v]
  BY <1>1, SetDataRight
<1>3. x \in Live(e) /\ IsDoc(e)
  BY <1>2 DEF SameRows, Sound
<1>4. CASE processing = FALSE
  <2>1. PICK f : f = Edited(e, x, v)
    OBVIOUS
  <2>2. Sound(f, (hushed \ {x}) \ {x}) /\ SameRows(e, f)
    BY <1>2, <1>3, <2>1, SetDataRight
  <2>3. (hushed \ {x}) \ {x} = hushed \ {x}
    OBVIOUS
  <2>4. f = Twice(d, x, v, processing)
    BY <1>1, <1>4, <2>1 DEF Twice, Edited
  <2> QED BY <1>2, <2>2, <2>3, <2>4 DEF SameRows
<1>5. CASE processing = TRUE
  <2>1. d.val \in [Live(d) -> Nat]
    BY DocRules DEF Sound
  <2>2. e.val[x] = v
    BY <1>2, <2>1
  <2>3. SetData(e, x, e.val[x], TRUE) = e
    BY <1>3, SetAgain
  <2>4. Twice(d, x, v, processing) = e
    BY <1>1, <1>5, <2>2, <2>3 DEF Twice, Edited
  <2> QED BY <1>2, <2>4
<1> QED BY <1>4, <1>5

\* The invariant.
UInv == Sound(doc, quiet) /\ undo \in Undos

\* What a paste gives row i, the rows that are of another type left out.
Taken(items, values, i) == values[i] \in ValuesOf(items[i])

\* The documents of a paste, one for each row of it.
PasteDocs(docs, n, items, values, processing) ==
  docs = [i \in 0 .. n |->
            IF i = 0 THEN doc
            ELSE IF Taken(items, values, i)
            THEN Twice(docs[i - 1], items[i], values[i], processing) ELSE docs[i - 1]]

\* The rows and values of a paste.
Pasted(n, items, values) == \A i \in 1 .. n : items[i] \in Live(doc) /\ values[i] \in Nat

LEMMA PasteDocsExist ==
  ASSUME UInv, NEW n \in Nat, NEW items, NEW values, Pasted(n, items, values),
         NEW processing \in BOOLEAN
  PROVE  \E docs : PasteDocs(docs, n, items, values, processing)
<1> DEFINE T == {d \in [val : [Live(doc) -> Nat], rows : {doc.rows}, made : Nat, cached : [Fields -> Bits]] :
                   Sound(d, quiet) /\ SameRows(doc, d)}
           step == [p \in (1 .. n) \X T |->
                      IF Taken(items, values, p[1])
                      THEN Twice(p[2], items[p[1]], values[p[1]], processing) ELSE p[2]]
<1>1. ASSUME NEW d, Sound(d, quiet), SameRows(doc, d) PROVE d \in T
  <2>1. IsDoc(d) /\ d.val \in [Live(doc) -> Nat] /\ d.rows = doc.rows
    BY <1>1, DocRules DEF Sound, SameRows
  <2> QED BY <1>1, <2>1 DEF IsDoc
<1>2. doc \in T
  BY <1>1 DEF UInv, SameRows
<1>3. ASSUME NEW i \in 1 .. n, NEW d \in T
      PROVE  Twice(d, items[i], values[i], processing) \in T
  <2>1. PICK x \in Live(d), v \in Nat : x = items[i] /\ v = values[i]
    BY DEF Pasted, SameRows
  <2>2. PICK e : e = Twice(d, x, v, processing)
    OBVIOUS
  <2>3. Sound(e, quiet \ {x}) /\ SameRows(d, e)
    BY <2>2, TwiceRight
  <2>4. Sound(e, quiet) /\ SameRows(doc, e)
    BY <2>3, SoundWith DEF SameRows
  <2>5. e \in T
    <3> HIDE DEF T
    <3> QED BY <1>1, <2>4
  <2> QED BY <2>1, <2>2, <2>5
<1> HIDE DEF T
<1>4. step \in [(1 .. n) \X T -> T]
  BY <1>3
<1>5. PICK f \in [0 .. n -> T] : Steps(f, n, doc, step)
  <2> HIDE DEF step
  <2>1. PICK first \in T, next \in [(1 .. n) \X T -> T] : first = doc /\ next = step
    BY <1>2, <1>4
  <2>2. \E f \in [0 .. n -> T] : Steps(f, n, first, next)
    BY StepsExist
  <2> QED BY <2>1, <2>2
<1>6. ASSUME NEW i \in 0 .. n
      PROVE  f[i] = IF i = 0 THEN doc
                    ELSE IF Taken(items, values, i)
                    THEN Twice(f[i - 1], items[i], values[i], processing) ELSE f[i - 1]
  <2>1. CASE i = 0
    BY <1>5, <2>1 DEF Steps
  <2>2. CASE i # 0
    <3>1. i - 1 \in 0 .. n /\ i \in 1 .. n /\ f[i - 1] \in T
      BY <2>2
    <3>2. f[i] = step[<<i, f[i - 1]>>]
      BY ONLY <1>5, <2>2, i \in 0 .. n DEF Steps
    <3> QED BY <2>2, <3>1, <3>2
  <2> QED BY <2>1, <2>2
<1> QED BY <1>5, <1>6 DEF PasteDocs, Steps

\* Each of them has the right conditions, and the rows of the first.
LEMMA PasteDocsRight ==
  ASSUME UInv, NEW n \in Nat, NEW items, NEW values, Pasted(n, items, values),
         NEW processing \in BOOLEAN, NEW docs, PasteDocs(docs, n, items, values, processing),
         NEW m \in 0 .. n
  PROVE  /\ Sound(docs[m], quiet \ {items[i] : i \in {k \in 1 .. m : Taken(items, values, k)}})
         /\ SameRows(doc, docs[m])
<1> DEFINE left(j) == quiet \ {items[i] : i \in {k \in 1 .. j : Taken(items, values, k)}}
           S == {j \in 0 .. n : Sound(docs[j], left(j)) /\ SameRows(doc, docs[j])}
<1>1. 0 \in S
  <2>1. docs[0] = doc
    BY DEF PasteDocs
  <2>2. left(0) = quiet
    OBVIOUS
  <2> HIDE DEF left
  <2> QED BY <2>1, <2>2 DEF UInv, SameRows
<1>2. ASSUME NEW j \in 1 .. n, j - 1 \in S PROVE j \in S
  <2>1. Sound(docs[j - 1], left(j - 1)) /\ SameRows(doc, docs[j - 1])
    BY <1>2
  <2>2. docs[j] = IF Taken(items, values, j)
                  THEN Twice(docs[j - 1], items[j], values[j], processing) ELSE docs[j - 1]
    BY DEF PasteDocs
  <2>3. PICK d : d = docs[j - 1]
    OBVIOUS
  <2>4. CASE Taken(items, values, j)
    <3>1. PICK x \in Live(d), v \in Nat : x = items[j] /\ v = values[j]
      BY <2>1, <2>3 DEF Pasted, SameRows
    <3>2. left(j) = left(j - 1) \ {x}
      <4>1. \A k \in Int : k \in 1 .. j <=> k \in 1 .. j - 1 \/ k = j
        OBVIOUS
      <4> QED BY <2>4, <3>1, <4>1
    <3>3. PICK e, hushed : e = docs[j] /\ hushed = left(j - 1)
      OBVIOUS
    <3>4. e = Twice(d, x, v, processing)
      BY <2>2, <2>3, <2>4, <3>1, <3>3
    <3> HIDE DEF left
    <3>5. Sound(d, hushed) /\ SameRows(doc, d)
      BY <2>1, <2>3, <3>3
    <3>6. Sound(e, hushed \ {x}) /\ SameRows(d, e)
      BY <3>4, <3>5, TwiceRight
    <3>7. SameRows(doc, e)
      BY <3>5, <3>6 DEF SameRows
    <3> QED BY <3>2, <3>3, <3>6, <3>7
  <2>5. CASE ~ Taken(items, values, j)
    <3>1. left(j) = left(j - 1)
      <4>1. \A k \in Int : k \in 1 .. j <=> k \in 1 .. j - 1 \/ k = j
        OBVIOUS
      <4> QED BY <2>5, <4>1
    <3> HIDE DEF left
    <3> QED BY <2>1, <2>2, <2>5, <3>1
  <2> QED BY <2>4, <2>5
<1>3. \A j \in 0 .. n : j \in S
  <2> HIDE DEF S
  <2> TAKE j \in 0 .. n
  <2>1. \A i \in 1 .. j : i - 1 \in S => i \in S
    BY <1>2
  <2> QED BY <1>1, <2>1, StepByStep
<1> QED BY <1>3

\* The stacks of a paste.
PasteUndos(undos, docs, n, items, values) ==
  undos = [i \in 0 .. n |->
             IF i = 0 THEN CreateTransaction(undo)
             ELSE IF Taken(items, values, i)
             THEN PushCommand(undos[i - 1], Change(items[i], docs[i - 1].val[items[i]], values[i]))
             ELSE undos[i - 1]]

LEMMA PasteUndosExist ==
  ASSUME UInv, NEW n \in Nat, NEW items, NEW values, Pasted(n, items, values),
         NEW processing \in BOOLEAN, NEW docs, PasteDocs(docs, n, items, values, processing)
  PROVE  \E undos \in [0 .. n -> Undos] : PasteUndos(undos, docs, n, items, values)
<1> DEFINE change(i) == Change(items[i], docs[i - 1].val[items[i]], values[i])
           step == [p \in (1 .. n) \X Undos |->
                      IF Taken(items, values, p[1]) THEN PushCommand(p[2], change(p[1])) ELSE p[2]]
<1>1. CreateTransaction(undo) \in Undos
  BY CreateTransactionKeeps DEF UInv
<1>2. ASSUME NEW i \in 1 .. n PROVE change(i) \in Commands
  <2>0. PICK m \in 0 .. n : m = i - 1
    OBVIOUS
  <2>1. PICK d : d = docs[m]
    OBVIOUS
  <2>2. IsDoc(d) /\ SameRows(doc, d)
    BY <2>1, PasteDocsRight DEF Sound
  <2>3. PICK x \in Live(d), v \in Nat : x = items[i] /\ v = values[i]
    BY <2>2 DEF Pasted, SameRows
  <2>4. x \in Nat /\ d.val[x] \in Nat
    BY <2>2, DocRules
  <2>5. PICK old \in Nat : old = d.val[x]
    BY <2>4
  <2>6. Change(x, old, v) \in Commands
    BY <2>4, ChangeIsCommand
  <2> QED BY <2>0, <2>1, <2>3, <2>5, <2>6
<1> HIDE DEF change
<1>3. step \in [(1 .. n) \X Undos -> Undos]
  BY <1>2, PushCommandKeeps
<1>4. PICK f \in [0 .. n -> Undos] : Steps(f, n, CreateTransaction(undo), step)
  <2> HIDE DEF step
  <2>1. PICK first \in Undos, next \in [(1 .. n) \X Undos -> Undos] :
          first = CreateTransaction(undo) /\ next = step
    BY <1>1, <1>3
  <2>2. \E f \in [0 .. n -> Undos] : Steps(f, n, first, next)
    BY StepsExist
  <2> QED BY <2>1, <2>2
<1>5. ASSUME NEW i \in 0 .. n
      PROVE  f[i] = IF i = 0 THEN CreateTransaction(undo)
                    ELSE IF Taken(items, values, i) THEN PushCommand(f[i - 1], change(i)) ELSE f[i - 1]
  <2>1. CASE i = 0
    BY <1>4, <2>1 DEF Steps
  <2>2. CASE i # 0
    <3>1. i - 1 \in 0 .. n /\ i \in 1 .. n /\ f[i - 1] \in Undos
      BY <2>2
    <3>2. f[i] = step[<<i, f[i - 1]>>]
      BY ONLY <1>4, <2>2, i \in 0 .. n DEF Steps
    <3> QED BY <2>2, <3>1, <3>2
  <2> QED BY <2>1, <2>2
<1> QED BY <1>4, <1>5 DEF PasteUndos, change, Steps

\* A paste keeps the invariant.
LEMMA PasteAllRight ==
  ASSUME UInv, NEW n \in Nat, NEW items, NEW values, Pasted(n, items, values),
         NEW processing \in BOOLEAN, PasteAll(n, items, values, processing)
  PROVE  UInv'
<1> DEFINE docs == CHOOSE docs : PasteDocs(docs, n, items, values, processing)
           undos == CHOOSE undos : PasteUndos(undos, docs, n, items, values)
           left == quiet \ {items[i] : i \in {k \in 1 .. n : Taken(items, values, k)}}
<1>1. doc' = docs[n] /\ undo' = undos[n] /\ quiet' = left
  BY DEF PasteAll, PasteDocs, PasteUndos, Twice, Taken
<1>2. PasteDocs(docs, n, items, values, processing)
  BY PasteDocsExist
<1> HIDE DEF docs
<1>3. n \in 0 .. n
  OBVIOUS
<1>4. Sound(docs[n], left)
  BY <1>2, <1>3, PasteDocsRight
<1>5. PICK u \in [0 .. n -> Undos] : PasteUndos(u, docs, n, items, values)
  BY <1>2, PasteUndosExist
<1>6. PasteUndos(undos, docs, n, items, values)
  BY <1>5
<1> HIDE DEF undos
<1>7. undos[n] \in Undos
  <2> DEFINE S == {j \in 0 .. n : undos[j] = u[j]}
  <2>1. 0 \in S
    BY <1>5, <1>6 DEF PasteUndos
  <2>2. ASSUME NEW j \in 1 .. n, j - 1 \in S PROVE j \in S
    BY <1>5, <1>6, <2>2 DEF PasteUndos
  <2>3. n \in S
    <3> HIDE DEF S
    <3> QED BY <2>1, <2>2, StepByStep
  <2> QED BY <2>3
<1> HIDE DEF left
<1> QED BY <1>1, <1>4, <1>7 DEF UInv

------------------------------------------------------------------------------
(* The operations.                                                         *)

\* The values of the rows.
LEMMA ValuesAreNumbers ==
  ASSUME NEW x
  PROVE  ValuesOf(x) \subseteq Nat /\ CellValues \subseteq Nat
  BY UndoAssumption DEF ValuesOf

\* The caches of a new compound are what the conditions say.
LEMMA LoadedSound ==
  ASSUME NEW file \in Files, NEW d, d = Loaded(file)
  PROVE  Sound(d, {})
<1> DEFINE rows == [i \in 1 .. file[SizeField] |-> Item(i)]
           val == [x \in Fields \cup Range(rows) |-> file[x]]
<1>1. PICK n \in Nat, m \in Nat : n = file[SizeField] /\ m = Cardinality(Fields)
  BY UndoAssumption, FieldsAssumption
<1>2. \A x \in 1 .. m + n : file[x] \in Nat
  <2>1. Fields = 1 .. m /\ DOMAIN file = 1 .. m + n
    BY <1>1, UndoAssumption, FieldsAssumption
  <2>2. \A x \in Fields : file[x] \in Nat
    BY UndoAssumption
  <2>3. \A x \in DOMAIN file \ Fields : file[x] \in Nat
    BY UndoAssumption
  <2> QED BY <2>1, <2>2, <2>3
<1>3. rows \in Seq(Nat) /\ Len(rows) \in Nat /\ Range(rows) \subseteq 1 .. m + n
  <2>1. rows \in [1 .. n -> Nat] /\ \A i \in 1 .. n : rows[i] \in 1 .. m + n
    BY <1>1 DEF Item
  <2> HIDE DEF rows
  <2>2. rows \in Seq(Nat) /\ DOMAIN rows = 1 .. n
    BY <2>1, SequenceOf
  <2> QED BY <2>1, <2>2 DEF Range
<1>4. d = [val |-> val, rows |-> rows, made |-> Len(rows), cached |-> Fresh(val)]
  BY DEF Loaded
<1> HIDE DEF rows
<1>5. val \in [Fields \cup Range(rows) -> Nat]
  <2>1. Fields \subseteq 1 .. m + n
    BY <1>1, FieldsAssumption
  <2> QED BY <1>2, <1>3, <2>1
<1> HIDE DEF val
<1>6. Fresh(val) \in [Fields -> Bits]
  BY FreshRule
<1>7. IsDoc(d)
  BY <1>3, <1>4, <1>5, <1>6 DEF IsDoc
<1>8. Right(d.cached, d.val, {})
  BY <1>4 DEF Right
<1> QED BY <1>7, <1>8 DEF Sound

\* The stack after a load.
LEMMA EmptyStack == [list |-> <<>>, index |-> 0, clean |-> 0] \in Undos
<1>1. <<>> \in Seq(Commands) /\ Len(<<>>) = 0
  OBVIOUS
<1> QED BY <1>1 DEF Undos

\* An edit or a check box: the command sets the row, and the delegate again.
LEMMA EditWithRight ==
  ASSUME UInv, NEW x \in Live(doc), NEW v \in Nat, NEW c \in Commands,
         c.kind = "value", c.at = <<x>>, c.new = <<v>>, EditWith(x, c)
  PROVE  Sound(doc', quiet')
<1>1. PICK d, e : d = RedoCommand(doc, c) /\ e = Edited(d, x, v)
  OBVIOUS
<1>2. doc' = e /\ quiet' = quiet \ {x}
  BY <1>1 DEF EditWith, Edited
<1>3. Sound(d, quiet \ {x}) /\ SameRows(doc, d)
  <2>1. PICK values \in Seq(Nat) : values = c.new /\ Len(values) = Len(c.at)
    BY DEF Commands
  <2>2. d = Replay(doc, c, values)
    BY <1>1, <2>1 DEF RedoCommand
  <2>3. PICK b : b = doc
    OBVIOUS
  <2>4. Sound(b, quiet)
    BY <2>3 DEF UInv
  <2>5. Sound(d, (quiet \ Loudly(c)) \cup Quietly(c)) /\ SameRows(b, d)
    BY <2>1, <2>2, <2>3, <2>4, ReplayRight
  <2>6. Len(c.at) = 1 /\ Range(c.at) = {x}
    BY DEF Range
  <2>7. (quiet \ Loudly(c)) \cup Quietly(c) = quiet \ {x}
    BY <2>6 DEF Loudly, Quietly
  <2> QED BY <2>3, <2>5, <2>7
<1>4. x \in Live(d)
  BY <1>3 DEF SameRows
<1>5. Sound(e, (quiet \ {x}) \ {x})
  BY <1>1, <1>3, <1>4, SetDataRight
<1>6. (quiet \ {x}) \ {x} = quiet \ {x}
  OBVIOUS
<1> QED BY <1>2, <1>5, <1>6

LEMMA EditKeeps ==
  ASSUME UInv, NEW x \in Live(doc), NEW v \in ValuesOf(x), Edit(x, v) \/ Check(x, v)
  PROVE  UInv'
<1>1. IsDoc(doc)
  BY DEF UInv, Sound
<1>2. x \in Nat /\ doc.val[x] \in Nat /\ v \in Nat
  BY <1>1, DocRules, ValuesAreNumbers
<1>3. PICK old \in Nat : old = doc.val[x]
  BY <1>2
<1>4. /\ Change(x, old, v) \in Commands /\ Toggle(x, old, v) \in Commands
  BY <1>2, ChangeIsCommand
<1>5. CASE Edit(x, v)
  <2>1. PICK c \in Commands : c = Change(x, old, v)
    BY <1>4
  <2>2. c.kind = "value" /\ c.at = <<x>> /\ c.new = <<v>>
    BY <2>1 DEF Change
  <2>3. EditWith(x, c) /\ undo' = PushCommand(CreateTransaction(undo), c)
    BY <1>3, <1>5, <2>1 DEF Edit
  <2>4. Sound(doc', quiet')
    BY <1>2, <2>2, <2>3, EditWithRight
  <2>5. undo' \in Undos
    BY <2>3, CreateTransactionKeeps, PushCommandKeeps DEF UInv
  <2> QED BY <2>4, <2>5 DEF UInv
<1>6. CASE Check(x, v)
  <2>1. PICK c \in Commands : c = Toggle(x, old, v)
    BY <1>4
  <2>2. c.kind = "value" /\ c.at = <<x>> /\ c.new = <<v>>
    BY <2>1 DEF Toggle, Change
  <2>3. EditWith(x, c) /\ undo' = PushCommand(undo, c)
    BY <1>3, <1>6, <2>1 DEF Check
  <2>4. Sound(doc', quiet')
    BY <1>2, <2>2, <2>3, EditWithRight
  <2>5. undo' \in Undos
    BY <2>3, PushCommandKeeps DEF UInv
  <2> QED BY <2>4, <2>5 DEF UInv
<1> QED BY <1>5, <1>6

LEMMA PasteKeeps ==
  ASSUME UInv, NEW s \in Selections, NEW v \in CellValues, Paste(s, v)
  PROVE  UInv'
<1> DEFINE items == [i \in 1 .. Len(s) |-> ItemAt(s[i])]
           values == [i \in 1 .. Len(s) |-> v]
<1>1. /\ s \in Seq(Nat) /\ v \in Nat /\ Len(s) \in Nat /\ DOMAIN s = 1 .. Len(s)
      /\ IsDoc(doc)
  BY UndoAssumption DEF UInv, Sound
<1>2. PICK n \in Nat : n = Len(s)
  BY <1>1
<1>3. ASSUME NEW i \in 1 .. n PROVE ItemAt(s[i]) \in Live(doc)
  <2>1. Exists(s[i])
    BY <1>1, <1>2 DEF Paste, Range
  <2>2. Fields \subseteq Live(doc) /\ Range(doc.rows) \subseteq Live(doc)
    BY <1>1, DocRules
  <2> QED BY <2>1, <2>2 DEF Exists, ItemAt, Range
<1>4. Pasted(n, items, values)
  BY <1>1, <1>2, <1>3 DEF Pasted
<1>5. PasteAll(n, items, values, FALSE)
  BY <1>2 DEF Paste
<1> HIDE DEF items, values
<1> QED BY <1>4, <1>5, PasteAllRight

LEMMA PasteArrayKeeps ==
  ASSUME UInv, NEW vs \in Clipboards, PasteArray(vs)
  PROVE  UInv'
<1>1. /\ vs \in Seq(CellValues) /\ Len(vs) \in Nat /\ CellValues \subseteq Nat
      /\ IsDoc(doc) /\ doc.rows \in Seq(Nat) /\ Len(doc.rows) \in Nat
  BY UndoAssumption DEF UInv, Sound, IsDoc
<1>2. PICK n \in Nat : n = Min({Len(vs), Len(doc.rows)}) /\ n <= Len(vs) /\ n <= Len(doc.rows)
  BY <1>1, MinOfTwo
<1>3. PICK items : items = doc.rows
  OBVIOUS
<1>4. Pasted(n, items, vs)
  <2>1. Range(doc.rows) \subseteq Live(doc)
    BY <1>1, DocRules
  <2>2. \A i \in 1 .. n : i \in 1 .. Len(vs) /\ i \in 1 .. Len(doc.rows)
    BY <1>1, <1>2
  <2>3. \A i \in 1 .. Len(vs) : vs[i] \in Nat
    BY <1>1, ElementOfSeq
  <2>4. \A i \in 1 .. Len(doc.rows) : doc.rows[i] \in Range(doc.rows)
    BY <1>1 DEF Range
  <2> QED BY <1>3, <2>1, <2>2, <2>3, <2>4 DEF Pasted
<1>5. PasteAll(n, items, vs, TRUE)
  BY <1>2, <1>3 DEF PasteArray
<1> QED BY <1>4, <1>5, PasteAllRight

\* A command of one value writes nothing quietly.
LEMMA SingleRight ==
  ASSUME NEW d, NEW hushed, Sound(d, hushed), NEW c \in Commands, Len(c.at) = 1
  PROVE  Sound(RedoCommand(d, c), hushed)
<1>1. Sound(RedoCommand(d, c), (hushed \ Loudly(c)) \cup Quietly(c))
  BY CommandRight
<1>2. (hushed \ Loudly(c)) \cup Quietly(c) \subseteq hushed
  BY DEF Loudly, Quietly
<1> QED BY <1>1, <1>2, SoundWith

LEMMA SwapRowsKeeps ==
  ASSUME UInv, NEW i \in DOMAIN doc.rows, NEW j \in DOMAIN doc.rows, SwapRows(i, j)
  PROVE  UInv'
<1>1. IsDoc(doc) /\ Sound(doc, quiet) /\ doc.rows \in Seq(Nat) /\ undo \in Undos
  BY DEF UInv, Sound, IsDoc
<1>2. PICK x \in Live(doc), y \in Live(doc) : x = doc.rows[i] /\ y = doc.rows[j]
  <2>1. doc.rows[i] \in Range(doc.rows) /\ doc.rows[j] \in Range(doc.rows)
    BY <1>1 DEF Range
  <2> QED BY <1>1, <2>1, DocRules
<1>3. PICK v \in Nat, w \in Nat : v = doc.val[y] /\ w = doc.val[x]
  BY <1>1, DocRules
<1>4. PICK b, d : b = Edited(doc, x, v) /\ d = Edited(b, y, w)
  OBVIOUS
<1>5. Sound(b, quiet \ {x}) /\ SameRows(doc, b)
  BY <1>1, <1>4, SetDataRight
<1>6. Sound(d, (quiet \ {x}) \ {y}) /\ SameRows(b, d)
  <2>1. y \in Live(b)
    BY <1>5 DEF SameRows
  <2> QED BY <1>4, <1>5, <2>1, SetDataRight
<1>7. Sound(d, quiet) /\ IsDoc(d) /\ x \in Live(d) /\ y \in Live(d)
  <2>1. (quiet \ {x}) \ {y} \subseteq quiet
    OBVIOUS
  <2> QED BY <1>5, <1>6, <2>1, SoundWith DEF SameRows, Sound
<1>8. PICK p \in Nat, q \in Nat : p = d.val[x] /\ q = d.val[y]
  BY <1>7, DocRules
<1>9. x \in Nat /\ y \in Nat
  BY <1>1, DocRules
<1>10. PICK c \in Commands, e \in Commands : c = Change(x, q, p) /\ e = Change(y, p, q)
  BY <1>9, ChangeIsCommand
<1>11. Len(c.at) = 1 /\ Len(e.at) = 1
  BY <1>10 DEF Change
<1>12. PICK f : f = RedoCommand(d, c)
  OBVIOUS
<1>13. Sound(f, quiet)
  BY <1>7, <1>11, <1>12, SingleRight
<1>14. Sound(RedoCommand(f, e), quiet)
  BY <1>11, <1>13, SingleRight
<1>15. /\ doc' = RedoCommand(f, e) /\ quiet' = quiet
       /\ undo' = PushCommand(PushCommand(CreateTransaction(undo), c), e)
  BY <1>2, <1>3, <1>4, <1>8, <1>10, <1>12 DEF SwapRows, Edited
<1>16. undo' \in Undos
  BY <1>1, <1>15, CreateTransactionKeeps, PushCommandKeeps
<1> QED BY <1>14, <1>15, <1>16 DEF UInv

LEMMA ResizeArrayKeeps ==
  ASSUME UInv, ResizeArray
  PROVE  UInv'
<1>1. Sound(doc, quiet) /\ undo \in Undos
  BY DEF UInv
<1>2. Resize \in Commands
  BY ChangeIsCommand
<1>3. doc' = UpdateArray(doc) /\ undo' = PushCommand(undo, Resize) /\ quiet' = quiet
  BY DEF ResizeArray, RedoCommand, Resize
<1>4. Sound(UpdateArray(doc), quiet)
  BY <1>1, UpdateArrayRight
<1>5. undo' \in Undos
  BY <1>1, <1>2, <1>3, PushCommandKeeps
<1> QED BY <1>3, <1>4, <1>5 DEF UInv

\* Another place on the stack.
LEMMA IndexMoved ==
  ASSUME NEW u \in Undos, NEW n \in Nat, n <= Len(u.list), NEW m \in Int
  PROVE  /\ [u EXCEPT !.index = n] \in Undos /\ [u EXCEPT !.clean = m] \in Undos
         /\ \A k \in 1 .. Len(u.list) : u.list[k] \in Commands
         /\ u.index \in Nat /\ u.index <= Len(u.list) /\ Len(u.list) \in Nat
  BY DEF Undos

LEMMA UndoKeeps ==
  ASSUME UInv, Undo
  PROVE  UInv'
<1>1. Sound(doc, quiet) /\ undo \in Undos
  BY DEF UInv
<1>2. undo.index \in Nat /\ undo.index <= Len(undo.list) /\ Len(undo.list) \in Nat
  BY <1>1 DEF Undos
<1>3. PICK n \in Nat : n = undo.index - 1
  BY <1>2 DEF Undo
<1>4. PICK c \in Commands : c = undo.list[undo.index]
  BY <1>1, <1>2 DEF Undo, Undos
<1>5. /\ doc' = UndoCommand(doc, c) /\ quiet' = (quiet \ Loudly(c)) \cup Quietly(c)
      /\ undo' = [undo EXCEPT !.index = n]
  BY <1>3, <1>4 DEF Undo
<1>6. Sound(doc', quiet')
  BY <1>1, <1>5, CommandRight
<1>7. n <= Len(undo.list)
  BY <1>2, <1>3
<1>8. undo' \in Undos
  BY <1>1, <1>5, <1>7, 0 \in Int, IndexMoved
<1> QED BY <1>6, <1>8 DEF UInv

LEMMA RedoKeeps ==
  ASSUME UInv, Redo
  PROVE  UInv'
<1>1. Sound(doc, quiet) /\ undo \in Undos
  BY DEF UInv
<1>2. undo.index \in Nat /\ undo.index < Len(undo.list) /\ Len(undo.list) \in Nat
  BY <1>1 DEF Undos, Redo
<1>3. PICK n \in Nat : n = undo.index + 1
  BY <1>2
<1>4. PICK c \in Commands : c = undo.list[n]
  BY <1>1, <1>2, <1>3 DEF Undos
<1>5. /\ doc' = RedoCommand(doc, c) /\ quiet' = (quiet \ Loudly(c)) \cup Quietly(c)
      /\ undo' = [undo EXCEPT !.index = n]
  BY <1>3, <1>4 DEF Redo
<1>6. Sound(doc', quiet')
  BY <1>1, <1>5, CommandRight
<1>7. n <= Len(undo.list)
  BY <1>2, <1>3
<1>8. undo' \in Undos
  BY <1>1, <1>5, <1>7, 0 \in Int, IndexMoved
<1> QED BY <1>6, <1>8 DEF UInv

\* It holds at the start, and every step keeps it.
LEMMA UInvInit == Init => UInv
  BY LoadedSound, EmptyStack DEF Init, UInv

LEMMA UInvNext == UInv /\ [Next]_vars => UInv'
<1> SUFFICES ASSUME UInv, [Next]_vars PROVE UInv'
  OBVIOUS
<1>1. CASE \E x \in Live(doc) : \E v \in ValuesOf(x) : Edit(x, v) \/ Check(x, v)
  BY <1>1, EditKeeps
<1>2. CASE \E s \in Selections, v \in CellValues : Paste(s, v)
  BY <1>2, PasteKeeps
<1>3. CASE \E vs \in Clipboards : PasteArray(vs)
  BY <1>3, PasteArrayKeeps
<1>4. CASE \E i, j \in DOMAIN doc.rows : SwapRows(i, j)
  BY <1>4, SwapRowsKeeps
<1>5. CASE ResizeArray
  BY <1>5, ResizeArrayKeeps
<1>6. CASE Undo
  BY <1>6, UndoKeeps
<1>7. CASE Redo
  BY <1>7, RedoKeeps
<1>8. CASE Save
  <2>1. undo' = [undo EXCEPT !.clean = undo.index] /\ undo \in Undos /\ doc' = doc /\ quiet' = quiet
    BY <1>8 DEF Save, UInv
  <2>2. undo' \in Undos
    BY <2>1 DEF Undos
  <2> QED BY <2>1, <2>2 DEF UInv
<1>9. CASE \E file \in Files : Load(file)
  <2>1. PICK file \in Files : Load(file)
    BY <1>9
  <2>2. Sound(doc', {}) /\ quiet' = {} /\ undo' \in Undos
    BY <2>1, LoadedSound, EmptyStack DEF Load
  <2> QED BY <2>2 DEF UInv
<1>10. CASE UNCHANGED vars
  BY <1>10 DEF vars, UInv
<1> QED BY <1>1, <1>2, <1>3, <1>4, <1>5, <1>6, <1>7, <1>8, <1>9, <1>10 DEF Next

------------------------------------------------------------------------------

\* After any edits, pastes, swaps, undos and redos the cached condition of a row that
\* names all it depends on is right, unless a merged command wrote one of these rows
\* last (invalidateDependentConditions, nifmodel.cpp; ChangeValueCommand, undocommands.cpp).
THEOREM ConditionsFollowEditsHolds == Spec => []ConditionsFollowEdits
<1>1. UInv => ConditionsFollowEdits
  BY DEF UInv, Sound, Right, ConditionsFollowEdits
<1> QED BY <1>1, UInvInit, UInvNext, PTL DEF Spec

==============================================================================
