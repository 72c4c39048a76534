-------------------------- MODULE NifWindow_proofs --------------------------
(***************************************************************************)
(* Theorems about NifWindow, for any sets of files and any number of       *)
(* clicks: however deep the handlers nest.                                 *)
(***************************************************************************)
EXTENDS NifWindow, FiniteSets, FiniteSetTheorems, TLAPS

LoadOps == {"load", "archive"}
BusyOps == {"load", "archive", "save"}

LoadsOf(s) == {i \in DOMAIN s : s[i].op \in LoadOps}
NumLoads(s) == Cardinality(LoadsOf(s))
Busy(s) == \E i \in DOMAIN s : s[i].op \in BusyOps

Even(n) == n % 2 = 0

\* The views are exchanged once for every load under way.
ViewsOK == shown <=> Even(NumLoads(stack))

\* Every wait cursor waits for a load.
CursorOK == cursor <= posted + NumLoads(stack)

\* The window is disabled only by a load or a save.
EnabledOK == enabled \/ Busy(stack)

DataOK ==
  /\ disk \in [Path -> Int] /\ \A f \in Path : disk[f] >= Unreadable
  /\ nif \in Nat /\ kfm \in Nat /\ rev \in Nat
  /\ current \in Path \cup {NoFile}
  /\ cursor \in Nat /\ posted \in Nat
  /\ stack \in Seq(Frame)
  /\ clicks \in 0 .. MaxClicks

FlagsOK == modified \in BOOLEAN /\ enabled \in BOOLEAN /\ shown \in BOOLEAN /\ closed \in BOOLEAN /\ mishap \in BOOLEAN

IInv ==
  /\ DataOK
  /\ FlagsOK
  /\ ~closed => ViewsOK /\ CursorOK /\ EnabledOK

------------------------------------------------------------------------------
(* Frames and stacks of them *)

\* What a frame holds, by its kind.
LEMMA FrameFields ==
  ASSUME NEW fr \in Frame
  PROVE  /\ fr.op \in LoadOps => fr.file \in Path \cup {NoFile} /\ fr.mixed \in BOOLEAN
         /\ fr.op = "save" => fr.file \in Nif \cup Kfm /\ fr.mixed \in BOOLEAN
         /\ fr.op = "confirm" => fr.goal \in Goal
         /\ fr.op = "proceed" => fr.goal \in Goal /\ fr.yes \in BOOLEAN
BY DEF Frame, LoadOps

\* What each kind of goal names.
LEMMA GoalFields ==
  ASSUME NEW goal \in Goal
  PROVE  /\ goal.do = "open" => goal.file \in Nif \cup Kfm
         /\ goal.do = "archive" => goal.file \in Archived
BY DEF Goal

\* A load or a save stays a frame when its model is exchanged.
LEMMA FrameMixed ==
  ASSUME NEW fr \in Frame, fr.op \in BusyOps
  PROVE  /\ [fr EXCEPT !.mixed = TRUE] \in Frame
         /\ [fr EXCEPT !.mixed = TRUE].op = fr.op
<1>1. CASE fr \in [op : {"load", "archive"}, file : Path \cup {NoFile}, mixed : BOOLEAN]
  <2>1. [fr EXCEPT !.mixed = TRUE] \in [op : {"load", "archive"}, file : Path \cup {NoFile}, mixed : BOOLEAN]
    BY <1>1
  <2> QED BY <1>1, <2>1 DEF Frame
<1>2. CASE fr \in [op : {"save"}, file : Nif \cup Kfm, mixed : BOOLEAN]
  <2>1. [fr EXCEPT !.mixed = TRUE] \in [op : {"save"}, file : Nif \cup Kfm, mixed : BOOLEAN]
    BY <1>2
  <2> QED BY <1>2, <2>1 DEF Frame
<1> QED BY <1>1, <1>2 DEF Frame, BusyOps

\* The number of loads is one.
LEMMA LoadsFinite ==
  ASSUME NEW s \in Seq(Frame)
  PROVE  IsFiniteSet(LoadsOf(s)) /\ NumLoads(s) \in Nat
<1>1. IsFiniteSet(1 .. Len(s))
  BY FS_Interval
<1>2. LoadsOf(s) \in SUBSET (1 .. Len(s))
  BY DEF LoadsOf
<1>3. IsFiniteSet(LoadsOf(s))
  BY <1>1, <1>2, FS_Subset
<1> QED BY <1>3, FS_CardinalityType DEF NumLoads

\* A handler that is entered.
LEMMA Push ==
  ASSUME NEW s \in Seq(Frame), NEW fr \in Frame
  PROVE  /\ Append(s, fr) \in Seq(Frame)
         /\ NumLoads(Append(s, fr)) = IF fr.op \in LoadOps THEN NumLoads(s) + 1 ELSE NumLoads(s)
         /\ Busy(Append(s, fr)) <=> Busy(s) \/ fr.op \in BusyOps
<1> DEFINE t == Append(s, fr)
           n == Len(s) + 1
<1>1. t \in Seq(Frame) /\ Len(t) = n /\ t[n] = fr /\ \A i \in 1 .. Len(s) : t[i] = s[i]
  OBVIOUS
<1>2. DOMAIN t = DOMAIN s \cup {n} /\ DOMAIN s = 1 .. Len(s) /\ n \notin DOMAIN s
  BY <1>1
<1>3. LoadsOf(t) = IF fr.op \in LoadOps THEN LoadsOf(s) \cup {n} ELSE LoadsOf(s)
  <2> HIDE DEF t, n
  <2> QED BY <1>1, <1>2 DEF LoadsOf
<1>4. n \notin LoadsOf(s)
  BY <1>2 DEF LoadsOf
<1>5. NumLoads(t) = IF fr.op \in LoadOps THEN NumLoads(s) + 1 ELSE NumLoads(s)
  <2> HIDE DEF t, n
  <2> QED BY <1>3, <1>4, LoadsFinite, FS_AddElement DEF NumLoads
<1>6. Busy(t) <=> Busy(s) \/ fr.op \in BusyOps
  <2> HIDE DEF t, n
  <2> QED BY <1>1, <1>2 DEF Busy
<1> QED BY <1>1, <1>5, <1>6

\* A handler that returns.
LEMMA Pop ==
  ASSUME NEW s \in Seq(Frame), s # <<>>
  PROVE  /\ Last(s) \in Frame
         /\ Front(s) \in Seq(Frame)
         /\ NumLoads(s) = IF Last(s).op \in LoadOps THEN NumLoads(Front(s)) + 1 ELSE NumLoads(Front(s))
         /\ Busy(s) <=> Busy(Front(s)) \/ Last(s).op \in BusyOps
<1>1. Last(s) \in Frame /\ Front(s) \in Seq(Frame)
  BY DEF Last, Front
<1>2. s = Append(Front(s), Last(s))
  BY DEF Last, Front
<1> QED BY <1>1, <1>2, Push

\* A model that is exchanged.
LEMMA MixedStack ==
  ASSUME NEW s \in Seq(Frame)
  PROVE  /\ Mixed(s) \in Seq(Frame)
         /\ NumLoads(Mixed(s)) = NumLoads(s)
         /\ Busy(Mixed(s)) <=> Busy(s)
<1>1. \A i \in DOMAIN s : Mixed(s)[i] \in Frame /\ Mixed(s)[i].op = s[i].op
  <2> TAKE i \in DOMAIN s
  <2>1. s[i] \in Frame
    OBVIOUS
  <2>2. CASE s[i].op \in BusyOps
    BY <2>1, <2>2, FrameMixed DEF Mixed, BusyOps
  <2>3. CASE s[i].op \notin BusyOps
    BY <2>1, <2>3 DEF Mixed, BusyOps
  <2> QED BY <2>2, <2>3
<1>2. DOMAIN Mixed(s) = DOMAIN s
  BY DEF Mixed
<1>3. Mixed(s) \in Seq(Frame)
  <2>1. Mixed(s) \in [1 .. Len(s) -> Frame]
    BY <1>1 DEF Mixed
  <2> QED BY <2>1
<1>4. LoadsOf(Mixed(s)) = LoadsOf(s)
  BY <1>1, <1>2 DEF LoadsOf
<1>5. Busy(Mixed(s)) <=> Busy(s)
  BY <1>1, <1>2 DEF Busy
<1> QED BY <1>3, <1>4, <1>5 DEF NumLoads

------------------------------------------------------------------------------
(* The invariant *)

\* One more load changes the parity.
LEMMA EvenNext == \A n \in Nat : Even(n + 1) <=> ~Even(n)
BY DEF Even

\* c wait cursors that wait for p posted loads and n others: after a step that posts a
\* load with every cursor,
LEMMA CursorsSame ==
  ASSUME NEW c \in Nat, NEW p \in Nat, NEW n \in Nat, c <= p + n, NEW d \in Nat, NEW q \in Nat, d + p <= c + q
  PROVE  d <= q + n
OBVIOUS

\* and after a step that begins one.
LEMMA CursorsBegin ==
  ASSUME NEW c \in Nat, NEW p \in Nat, NEW n \in Nat, c <= p + n, NEW q \in Nat, p <= q + 1
  PROVE  c <= q + (n + 1)
OBVIOUS

\* Nothing is under way when the window is made.
LEMMA IInvInit == Init => IInv
<1> SUFFICES ASSUME Init PROVE IInv
  OBVIOUS
<1>1. disk \in [Path -> {1, Unreadable}] /\ nif = Blank /\ kfm = Blank /\ rev = 1 /\ clicks = 0
  BY DEF Init
<1>2. current \in Path \cup {NoFile}
  BY Zenon DEF Init, Path
<1>3. cursor = posted /\ posted \in Nat
  BY DEF Init
<1>4. stack = <<>>
  BY DEF Init
<1>5. stack \in Seq(Frame) /\ LoadsOf(stack) = {}
  BY <1>4 DEF LoadsOf
<1>6. NumLoads(stack) = 0
  BY <1>5, FS_EmptySet DEF NumLoads
<1>7. DataOK
  BY <1>1, <1>2, <1>3, <1>5, ClicksAssumption DEF DataOK, Unreadable, Blank
<1>8. FlagsOK
  BY Zenon DEF Init, FlagsOK
<1>9. Even(0)
  BY DEF Even
<1>10. ViewsOK /\ EnabledOK
  BY <1>6, <1>9, Zenon DEF Init, ViewsOK, EnabledOK
<1>11. CursorOK
  BY <1>3, <1>6 DEF CursorOK
<1> QED BY <1>7, <1>8, <1>10, <1>11 DEF IInv

\* A step that begins no load and completes none, and posts a load with every wait cursor.
LEMMA SameLoads ==
  ASSUME IInv, ~closed, stack' \in Seq(Frame), NumLoads(stack') = NumLoads(stack),
         shown' = shown, EnabledOK => EnabledOK',
         cursor' \in Nat, posted' \in Nat, cursor' + posted <= cursor + posted'
  PROVE  ViewsOK' /\ CursorOK' /\ EnabledOK'
<1>1. ViewsOK'
  BY Zenon DEF IInv, ViewsOK
<1>2. CursorOK'
  <2>1. NumLoads(stack) \in Nat /\ cursor \in Nat /\ posted \in Nat
    BY LoadsFinite DEF IInv, DataOK
  <2>2. cursor <= posted + NumLoads(stack)
    BY Zenon DEF IInv, CursorOK
  <2> QED BY <2>1, <2>2, CursorsSame, Zenon DEF CursorOK
<1> QED BY <1>1, <1>2, Zenon DEF IInv

\* A load begins, over a stack s that holds the same loads.
LEMMA BeginLoadingStep ==
  ASSUME IInv, ~closed, NEW op \in LoadOps, NEW f \in Path \cup {NoFile}, NEW s \in Seq(Frame),
         NumLoads(s) = NumLoads(stack),
         posted' \in Nat, posted <= posted' + 1, current' \in Path \cup {NoFile}, clicks' = clicks,
         BeginLoading(op, f, s)
  PROVE  IInv'
<1> DEFINE fr == [op |-> op, file |-> f, mixed |-> FALSE]
<1>1. fr \in Frame /\ fr.op = op
  BY DEF Frame, LoadOps
<1>2. Mixed(s) \in Seq(Frame) /\ NumLoads(Mixed(s)) = NumLoads(stack)
  BY MixedStack
<1>3. stack' = Append(Mixed(s), fr)
  BY DEF BeginLoading
<1>4. stack' \in Seq(Frame) /\ NumLoads(stack') = NumLoads(stack) + 1 /\ Busy(stack')
  <2> HIDE DEF fr
  <2> QED BY <1>1, <1>2, <1>3, Push DEF LoadOps, BusyOps
<1>5. NumLoads(stack) \in Nat
  BY LoadsFinite DEF IInv, DataOK
<1>6. DataOK'
  BY <1>4 DEF IInv, DataOK, BeginLoading, Blank
<1>7. FlagsOK'
  BY Zenon DEF IInv, FlagsOK, BeginLoading
<1>8. ViewsOK'
  <2>1. Even(NumLoads(stack')) <=> ~Even(NumLoads(stack))
    BY <1>4, <1>5, EvenNext
  <2> QED BY <2>1, Zenon DEF IInv, ViewsOK, BeginLoading
<1>9. CursorOK'
  <2>1. cursor \in Nat /\ posted \in Nat /\ cursor' = cursor
    BY DEF IInv, DataOK, BeginLoading
  <2>2. cursor <= posted + NumLoads(stack)
    BY Zenon DEF IInv, CursorOK
  <2> QED BY <1>4, <1>5, <2>1, <2>2, CursorsBegin, Zenon DEF CursorOK
<1>10. EnabledOK'
  BY <1>4, Zenon DEF EnabledOK
<1> QED BY <1>6, <1>7, <1>8, <1>9, <1>10, Zenon DEF IInv

\* A load completes, well or badly.
LEMMA LoadCompleteStep ==
  ASSUME IInv, In({"load", "archive"}), LoadComplete,
         nif' \in Nat, kfm' \in Nat, rev' \in Nat, current' \in Path \cup {NoFile}
  PROVE  IInv'
<1>1. ~closed /\ stack \in Seq(Frame) /\ stack # <<>> /\ Last(stack).op \in LoadOps
  BY DEF IInv, DataOK, In, Top, LoadOps
<1>2. stack' = Front(stack)
  BY DEF LoadComplete
<1>3. stack' \in Seq(Frame) /\ NumLoads(stack) = NumLoads(stack') + 1
  BY <1>1, <1>2, Pop
<1>4. NumLoads(stack') \in Nat
  BY <1>3, LoadsFinite
<1>5. DataOK'
  BY <1>3 DEF IInv, DataOK, LoadComplete
<1>6. FlagsOK'
  BY Zenon DEF IInv, FlagsOK, LoadComplete
<1>7. ViewsOK'
  <2>1. Even(NumLoads(stack')) <=> ~Even(NumLoads(stack))
    BY <1>3, <1>4, EvenNext
  <2> QED BY <1>1, <2>1, Zenon DEF IInv, ViewsOK, LoadComplete
<1>8. CursorOK'
  BY <1>1, <1>3, <1>4 DEF IInv, DataOK, CursorOK, LoadComplete
<1>9. EnabledOK'
  BY Zenon DEF EnabledOK, LoadComplete
<1> QED BY <1>5, <1>6, <1>7, <1>8, <1>9, Zenon DEF IInv

\* A save begins, over a stack s that holds the same loads and saves.
LEMMA SaveStep ==
  ASSUME IInv, ~closed, NEW f \in Nif \cup Kfm, NEW s \in Seq(Frame),
         NumLoads(s) = NumLoads(stack), clicks' \in 0 .. MaxClicks, Save(f, s)
  PROVE  IInv'
<1> DEFINE fr == [op |-> "save", file |-> f, mixed |-> FALSE]
<1>1. fr \in Frame /\ fr.op = "save"
  BY DEF Frame
<1>2. stack' = Append(s, fr)
  BY DEF Save
<1>3. stack' \in Seq(Frame) /\ NumLoads(stack') = NumLoads(stack) /\ Busy(stack')
  <2> HIDE DEF fr
  <2> QED BY <1>1, <1>2, Push DEF LoadOps, BusyOps
<1>4. rev' \in Nat /\ nif' \in Nat
  BY DEF IInv, DataOK, Save
<1>5. DataOK'
  BY <1>3, <1>4 DEF IInv, DataOK, Save, Path
<1>6. FlagsOK'
  BY Zenon DEF IInv, FlagsOK, Save
<1>7. EnabledOK'
  BY <1>3, Zenon DEF EnabledOK
<1>8. ViewsOK' /\ CursorOK'
  <2>1. cursor' = cursor /\ posted' = posted /\ shown' = shown
    BY DEF Save
  <2> QED BY <1>3, <1>7, <2>1, SameLoads DEF IInv, DataOK
<1> QED BY <1>5, <1>6, <1>7, <1>8, Zenon DEF IInv

\* A step that does nothing but exchange handlers that are neither loads nor saves.
LEMMA StackStep ==
  ASSUME IInv, ~closed, stack' \in Seq(Frame), NumLoads(stack') = NumLoads(stack),
         Busy(stack') <=> Busy(stack), clicks' \in 0 .. MaxClicks,
         UNCHANGED <<disk, nif, kfm, current, viewVars, posted, closed, rev, mishap>>
  PROVE  IInv'
<1>1. DataOK'
  BY DEF IInv, DataOK, viewVars
<1>2. FlagsOK'
  BY Zenon DEF IInv, FlagsOK, viewVars
<1>3. cursor' = cursor /\ posted' = posted /\ shown' = shown /\ enabled' = enabled
  BY DEF viewVars
<1>4. EnabledOK => EnabledOK'
  BY <1>3, Zenon DEF EnabledOK
<1>5. ViewsOK' /\ CursorOK' /\ EnabledOK'
  BY <1>3, <1>4, SameLoads DEF IInv, DataOK
<1> QED BY <1>1, <1>2, <1>5, Zenon DEF IInv

\* A frame that is neither a load nor a save comes onto s, which holds the same ones.
LEMMA ShowStep ==
  ASSUME IInv, ~closed, NEW s \in Seq(Frame), NumLoads(s) = NumLoads(stack), Busy(s) <=> Busy(stack),
         NEW fr \in Frame, fr.op \notin BusyOps, clicks' \in 0 .. MaxClicks, Show(fr, s)
  PROVE  IInv'
<1>1. stack' \in Seq(Frame) /\ NumLoads(stack') = NumLoads(stack) /\ (Busy(stack') <=> Busy(stack))
  BY Push DEF Show, LoadOps, BusyOps
<1>2. UNCHANGED <<disk, nif, kfm, current, viewVars, posted, closed, rev, mishap>>
  BY DEF Show
<1> QED BY <1>1, <1>2, StackStep

\* The innermost handler, which is neither a load nor a save, returns.
LEMMA Return ==
  ASSUME IInv, NEW op, In({op}), op \notin BusyOps
  PROVE  /\ ~closed /\ Top \in Frame /\ Top.op = op
         /\ Front(stack) \in Seq(Frame)
         /\ NumLoads(Front(stack)) = NumLoads(stack)
         /\ Busy(Front(stack)) <=> Busy(stack)
<1>1. ~closed /\ stack \in Seq(Frame) /\ stack # <<>> /\ Last(stack).op = op
  BY DEF IInv, DataOK, In, Top
<1>2. Last(stack).op \notin LoadOps
  BY <1>1 DEF LoadOps, BusyOps
<1>3. Last(stack) \in Frame /\ Front(stack) \in Seq(Frame) /\ NumLoads(Front(stack)) = NumLoads(stack)
  BY <1>1, <1>2, Pop
<1>4. Busy(stack) <=> Busy(Front(stack)) \/ Last(stack).op \in BusyOps
  BY <1>1, Pop
<1> QED BY <1>1, <1>3, <1>4 DEF Top

\* saveConfirm() asks, or its caller goes on at once.
LEMMA ConfirmThenStep ==
  ASSUME IInv, ~closed, NEW goal \in Goal, clicks' \in 0 .. MaxClicks, ConfirmThen(goal)
  PROVE  IInv'
<1>1. stack \in Seq(Frame)
  BY DEF IInv, DataOK
<1>2. CASE modified
  <2>1. [op |-> "confirm", goal |-> goal] \in Frame
    BY DEF Frame
  <2>2. Show([op |-> "confirm", goal |-> goal], stack)
    BY <1>2, Zenon DEF ConfirmThen
  <2> QED BY <1>1, <2>1, <2>2, ShowStep DEF BusyOps
<1>3. CASE ~modified
  <2>1. [op |-> "proceed", goal |-> goal, yes |-> FALSE] \in Frame
    BY DEF Frame
  <2>2. Show([op |-> "proceed", goal |-> goal, yes |-> FALSE], stack)
    BY <1>3, Zenon DEF ConfirmThen
  <2> QED BY <1>1, <2>1, <2>2, ShowStep DEF BusyOps
<1> QED BY <1>2, <1>3

------------------------------------------------------------------------------
(* The steps *)

\* load() is delivered.
LEMMA LoadStep == ASSUME IInv, Load PROVE IInv'
<1>1. ~closed
  BY DEF Load, EventLoop
<1>2. stack \in Seq(Frame) /\ current \in Path \cup {NoFile} /\ posted \in Nat
  BY DEF IInv, DataOK
<1>3. posted > 0 /\ posted' = posted - 1 /\ current' = current /\ clicks' = clicks
  BY DEF Load
<1>4. posted' \in Nat /\ posted <= posted' + 1
  BY <1>2, <1>3
<1>5. BeginLoading("load", current, stack)
  BY DEF Load
<1> QED BY <1>1, <1>2, <1>3, <1>4, <1>5, BeginLoadingStep, Zenon DEF LoadOps

\* A file is loaded.
LEMMA LoadedStep == ASSUME IInv, Loaded PROVE IInv'
<1>1. In({"load", "archive"}) /\ Readable(Top) /\ LoadComplete
  BY DEF Loaded
<1>2. Top.file \in Path /\ disk[Top.file] # Unreadable
  BY <1>1 DEF Readable, Path
<1>3. disk[Top.file] \in Nat
  BY <1>2 DEF IInv, DataOK, Unreadable
<1>4. kfm' \in Nat
  BY <1>3 DEF Loaded, IInv, DataOK
<1>5. nif' \in Nat /\ rev' \in Nat
  <2>1. CASE Top.file \in Kfm
    BY <2>1 DEF Loaded, IInv, DataOK
  <2>2. CASE Top.file \notin Kfm
    <3>1. rev' \in {rev, rev + 1} /\ nif' \in {rev', disk[Top.file]}
      BY <2>2 DEF Loaded
    <3> QED BY <1>3, <3>1 DEF IInv, DataOK
  <2> QED BY <2>1, <2>2
<1>6. current' \in Path \cup {NoFile}
  BY <1>2 DEF Loaded, IInv, DataOK
<1> QED BY <1>1, <1>4, <1>5, <1>6, LoadCompleteStep

\* A file is not loaded.
LEMMA NotLoadedStep == ASSUME IInv, NotLoaded PROVE IInv'
<1>1. In({"load", "archive"}) /\ LoadComplete
  BY DEF NotLoaded
<1>2. nif' \in Nat /\ kfm' \in Nat /\ rev' \in Nat /\ current' \in Path \cup {NoFile}
  BY DEF NotLoaded, IInv, DataOK, Blank
<1> QED BY <1>1, <1>2, LoadCompleteStep

\* A save ends, well or badly.
LEMMA SaveEndStep == ASSUME IInv, Saved \/ NotSaved PROVE IInv'
<1>1. ~closed /\ stack \in Seq(Frame) /\ stack # <<>> /\ Last(stack).op = "save" /\ Last(stack) \in Frame
  BY Pop DEF IInv, DataOK, In, Top, Saved, NotSaved
<1>2. stack' = Front(stack) /\ enabled' = TRUE /\ shown' = shown /\ cursor' = cursor /\ posted' = posted
  BY DEF Saved, NotSaved
<1>3. stack' \in Seq(Frame) /\ NumLoads(stack') = NumLoads(stack)
  BY <1>1, <1>2, Pop DEF LoadOps
<1>4. \E content \in {kfm, nif, Unreadable} : disk' \in {disk, [disk EXCEPT ![Top.file] = content]}
  BY DEF Saved, NotSaved, Written
<1>5. disk' \in [Path -> Int] /\ \A f \in Path : disk'[f] >= Unreadable
  BY <1>4 DEF IInv, DataOK, Unreadable
<1>6. UNCHANGED <<nif, kfm, rev, current, clicks>>
  BY DEF Saved, NotSaved
<1>7. DataOK'
  BY <1>2, <1>3, <1>5, <1>6 DEF IInv, DataOK
<1>8. FlagsOK'
  BY Zenon DEF IInv, FlagsOK, Saved, NotSaved
<1>9. EnabledOK'
  BY <1>2, Zenon DEF EnabledOK
<1>10. ViewsOK' /\ CursorOK'
  BY <1>1, <1>2, <1>3, <1>9, SameLoads DEF IInv, DataOK
<1> QED BY <1>7, <1>8, <1>9, <1>10, Zenon DEF IInv

\* A dialog is answered.
LEMMA AnswerStep == ASSUME IInv, Answer PROVE IInv'
<1> DEFINE s == Front(stack)
           Proceeding(yes) == [op |-> "proceed", goal |-> Top.goal, yes |-> yes]
           choosing == [op |-> "choose"]
<1>1. In({"confirm"}) /\ clicks' = clicks
  BY DEF Answer
<1>2. /\ ~closed /\ Top \in Frame /\ Top.op = "confirm"
      /\ s \in Seq(Frame) /\ NumLoads(s) = NumLoads(stack) /\ (Busy(s) <=> Busy(stack))
  BY <1>1, Return DEF BusyOps
<1>3. choosing \in Frame /\ choosing.op \notin BusyOps \cup LoadOps
  BY DEF Frame, BusyOps, LoadOps
<1>4. \A yes \in BOOLEAN : Proceeding(yes) \in Frame /\ Proceeding(yes).op \notin BusyOps \cup LoadOps
  BY <1>2, FrameFields DEF Frame, BusyOps, LoadOps
<1>5. \/ stack' = Append(Append(s, Proceeding(TRUE)), choosing)
      \/ stack' = Append(s, Proceeding(FALSE))
      \/ stack' = s
  BY DEF Answer
<1>6. stack' \in Seq(Frame) /\ NumLoads(stack') = NumLoads(stack) /\ (Busy(stack') <=> Busy(stack))
  <2> HIDE DEF s, Proceeding, choosing
  <2>1. \A yes \in BOOLEAN :
          LET t == Append(s, Proceeding(yes))
          IN t \in Seq(Frame) /\ NumLoads(t) = NumLoads(stack) /\ (Busy(t) <=> Busy(stack))
    BY <1>2, <1>4, Push
  <2>2. LET t == Append(Append(s, Proceeding(TRUE)), choosing)
        IN t \in Seq(Frame) /\ NumLoads(t) = NumLoads(stack) /\ (Busy(t) <=> Busy(stack))
    BY <1>3, <2>1, Push
  <2> QED BY <1>2, <1>5, <2>1, <2>2
<1>7. UNCHANGED <<disk, nif, kfm, current, viewVars, posted, closed, rev, mishap>>
  BY DEF Answer
<1>8. clicks' \in 0 .. MaxClicks
  BY <1>1 DEF IInv, DataOK
<1> QED BY <1>2, <1>6, <1>7, <1>8, StackStep

\* A file is chosen, or none.
LEMMA ChooseStep == ASSUME IInv, Choose PROVE IInv'
<1>1. In({"choose"})
  BY DEF Choose
<1>2. /\ ~closed /\ Front(stack) \in Seq(Frame)
      /\ NumLoads(Front(stack)) = NumLoads(stack) /\ (Busy(Front(stack)) <=> Busy(stack))
  BY <1>1, Return DEF BusyOps
<1>3. clicks' \in 0 .. MaxClicks
  BY DEF Choose, IInv, DataOK
<1>4. CASE \E f \in Nif \cup Kfm : Save(f, Front(stack))
  BY <1>2, <1>3, <1>4, SaveStep
<1>5. CASE /\ stack' = Front(stack)
           /\ UNCHANGED <<disk, nif, kfm, current, viewVars, posted, closed, rev, mishap>>
  BY <1>2, <1>3, <1>5, StackStep
<1> QED BY <1>4, <1>5 DEF Choose

\* loadFile() posts a load and sets a wait cursor.
LEMMA ProceedOpenStep == ASSUME IInv, ProceedOpen PROVE IInv'
<1>1. In({"proceed"}) /\ Top.goal.do = "open"
  BY DEF ProceedOpen
<1>2. /\ ~closed /\ Top \in Frame /\ Top.op = "proceed"
      /\ Front(stack) \in Seq(Frame) /\ NumLoads(Front(stack)) = NumLoads(stack)
      /\ (Busy(Front(stack)) <=> Busy(stack))
  BY <1>1, Return DEF BusyOps
<1>3. Top.goal.file \in Nif \cup Kfm
  BY <1>1, <1>2, FrameFields, GoalFields
<1>4. stack' = Front(stack) /\ shown' = shown /\ enabled' = enabled
  BY DEF ProceedOpen
<1>5. cursor' \in Nat /\ posted' \in Nat /\ cursor' + posted <= cursor + posted'
  BY DEF ProceedOpen, IInv, DataOK
<1>6. DataOK'
  BY <1>2, <1>3, <1>5 DEF ProceedOpen, IInv, DataOK, Path
<1>7. FlagsOK'
  BY Zenon DEF IInv, FlagsOK, ProceedOpen
<1>8. EnabledOK => EnabledOK'
  BY <1>2, <1>4, Zenon DEF EnabledOK
<1>9. ViewsOK' /\ CursorOK' /\ EnabledOK'
  BY <1>2, <1>4, <1>5, <1>8, SameLoads
<1> QED BY <1>6, <1>7, <1>9, Zenon DEF IInv

\* A file of an archive is loaded at once.
LEMMA ProceedArchiveStep == ASSUME IInv, ProceedArchive PROVE IInv'
<1>1. In({"proceed"}) /\ Top.goal.do = "archive"
  BY DEF ProceedArchive
<1>2. /\ ~closed /\ Top \in Frame /\ Top.op = "proceed"
      /\ Front(stack) \in Seq(Frame) /\ NumLoads(Front(stack)) = NumLoads(stack)
  BY <1>1, Return DEF BusyOps
<1>3. Top.goal.file \in Path \cup {NoFile}
  BY <1>1, <1>2, FrameFields, GoalFields DEF Path
<1>4. posted \in Nat /\ posted' = posted /\ current' \in Path \cup {NoFile} /\ clicks' = clicks
  BY DEF ProceedArchive, IInv, DataOK
<1>5. posted <= posted' + 1
  BY <1>4
<1>6. BeginLoading("archive", Top.goal.file, Front(stack))
  BY DEF ProceedArchive
<1> QED BY <1>2, <1>3, <1>4, <1>5, <1>6, BeginLoadingStep, Zenon DEF LoadOps

\* The window is closed, and every handler with it.
LEMMA ProceedCloseStep == ASSUME IInv, ProceedClose PROVE IInv'
<1>1. DataOK'
  BY DEF ProceedClose, IInv, DataOK, viewVars
<1>2. FlagsOK' /\ closed'
  BY Zenon DEF ProceedClose, IInv, FlagsOK, viewVars
<1> QED BY <1>1, <1>2, Zenon DEF IInv

\* The document is edited.
LEMMA EditStep == ASSUME IInv, EditNif \/ EditKfm PROVE IInv'
<1>1. ~closed /\ clicks < MaxClicks /\ clicks' = clicks + 1
  BY DEF EditNif, EditKfm, Input, Click, EventLoop
<1>2. stack \in Seq(Frame) /\ clicks' \in 0 .. MaxClicks
  BY <1>1, ClicksAssumption DEF IInv, DataOK
<1>3. /\ stack' \in Seq(Frame) /\ NumLoads(stack') = NumLoads(stack)
      /\ (Busy(stack') <=> Busy(stack))
  BY <1>2, MixedStack, Zenon DEF EditNif, EditKfm
<1>4. shown' = shown /\ enabled' = enabled /\ cursor' = cursor /\ posted' = posted
  BY DEF EditNif, EditKfm, viewVars
<1>5. nif' \in Nat /\ kfm' \in Nat /\ rev' \in Nat
  BY DEF EditNif, EditKfm, IInv, DataOK
<1>6. UNCHANGED <<disk, current>>
  BY DEF EditNif, EditKfm
<1>7. DataOK'
  BY <1>2, <1>3, <1>4, <1>5, <1>6 DEF IInv, DataOK
<1>8. FlagsOK'
  BY Zenon DEF IInv, FlagsOK, EditNif, EditKfm, viewVars
<1>9. EnabledOK => EnabledOK'
  BY <1>3, <1>4, Zenon DEF EnabledOK
<1>10. ViewsOK' /\ CursorOK' /\ EnabledOK'
  BY <1>1, <1>3, <1>4, <1>9, SameLoads DEF IInv, DataOK
<1> QED BY <1>7, <1>8, <1>10, Zenon DEF IInv

\* A command of the user.
LEMMA ClickStep ==
  ASSUME IInv, ClickOpen \/ ClickArchive \/ ClickClose \/ ClickSaveAs \/ ClickSave \/ ClickReload
  PROVE  IInv'
<1>1. ~closed /\ clicks < MaxClicks /\ clicks' = clicks + 1
  BY DEF ClickOpen, ClickArchive, ClickClose, ClickSaveAs, ClickSave, ClickReload, Input, Click, EventLoop
<1>2. stack \in Seq(Frame) /\ clicks' \in 0 .. MaxClicks
  BY <1>1, ClicksAssumption DEF IInv, DataOK
<1>3. [op |-> "choose"] \in Frame /\ [op |-> "choose"].op \notin BusyOps
  BY DEF Frame, BusyOps
<1>4. CASE ClickOpen \/ ClickArchive \/ ClickClose
  <2>1. \E goal \in Goal : ConfirmThen(goal)
    BY <1>4 DEF ClickOpen, ClickArchive, ClickClose, Goal
  <2> QED BY <1>1, <1>2, <2>1, ConfirmThenStep
<1>5. CASE ClickSaveAs
  BY <1>1, <1>2, <1>3, <1>5, ShowStep DEF ClickSaveAs
<1>6. CASE ClickSave
  BY <1>1, <1>2, <1>3, <1>6, ShowStep, SaveStep DEF ClickSave
<1>7. CASE ClickReload
  <2>1. posted' = posted + 1 /\ UNCHANGED <<disk, nif, kfm, current, viewVars, stack, closed, rev, mishap>>
    BY <1>7 DEF ClickReload
  <2>2. cursor' = cursor /\ shown' = shown /\ enabled' = enabled /\ stack' = stack
    BY <2>1 DEF viewVars
  <2>3. cursor' \in Nat /\ posted' \in Nat /\ cursor' + posted <= cursor + posted'
    BY <2>1, <2>2 DEF IInv, DataOK
  <2>4. DataOK'
    BY <1>2, <2>1, <2>2, <2>3 DEF IInv, DataOK
  <2>5. FlagsOK'
    BY <2>1, Zenon DEF IInv, FlagsOK, viewVars
  <2>6. EnabledOK => EnabledOK'
    BY <2>2, Zenon DEF EnabledOK
  <2>7. ViewsOK' /\ CursorOK' /\ EnabledOK'
    BY <1>1, <1>2, <2>2, <2>3, <2>6, SameLoads
  <2> QED BY <2>4, <2>5, <2>7, Zenon DEF IInv
<1> QED BY <1>4, <1>5, <1>6, <1>7

\* Every step preserves the invariant.
LEMMA IInvNext == ASSUME IInv, [Next]_vars PROVE IInv'
<1>1. CASE Handlers
  BY <1>1, LoadStep, LoadedStep, NotLoadedStep, SaveEndStep, ProceedOpenStep, ProceedArchiveStep,
     ProceedCloseStep DEF Handlers
<1>2. CASE User
  BY <1>2, EditStep, ClickStep, AnswerStep, ChooseStep DEF User
<1>3. CASE UNCHANGED vars
  <2>1. DataOK'
    BY <1>3 DEF IInv, DataOK, vars, viewVars
  <2>2. FlagsOK' /\ closed' = closed
    BY <1>3, Zenon DEF IInv, FlagsOK, vars, viewVars
  <2>3. (ViewsOK <=> ViewsOK') /\ (CursorOK <=> CursorOK') /\ (EnabledOK <=> EnabledOK')
    BY <1>3 DEF ViewsOK, CursorOK, EnabledOK, vars, viewVars
  <2> QED BY <2>1, <2>2, <2>3, Zenon DEF IInv
<1> QED BY <1>1, <1>2, <1>3 DEF Next

\* The invariant holds in every state.
LEMMA Invariance == Spec => []IInv
<1>1. IInv /\ [Next]_vars => IInv'
  BY IInvNext
<1> QED BY <1>1, IInvInit, PTL DEF Spec

------------------------------------------------------------------------------
(* The theorems *)

\* Every variable of the window has its type (nifskope.h: the members of NifSkope).
THEOREM TypeCorrect == Spec => []TypeOK
<1>1. IInv => TypeOK
  BY Zenon DEF IInv, DataOK, FlagsOK, TypeOK
<1> QED BY <1>1, Invariance, PTL

\* A state with no load under way has its views connected and takes input, or is saving:
\* onLoadBegin, onLoadComplete and swapModels stay in step however loads nest.
THEOREM ViewsAreReconnected == Spec => []ViewsReconnected
<1>1. IInv => ViewsReconnected
  <2> SUFFICES ASSUME IInv, ~closed, Loads = {} PROVE shown /\ (enabled \/ Ops({"save"}) # {})
    BY DEF ViewsReconnected
  <2>1. LoadsOf(stack) = {}
    BY DEF Loads, Ops, LoadsOf, LoadOps
  <2>2. NumLoads(stack) = 0
    BY <2>1, FS_EmptySet DEF NumLoads
  <2>3. shown
    <3>1. Even(0)
      BY DEF Even
    <3> QED BY <2>2, <3>1, Zenon DEF IInv, ViewsOK
  <2>4. Busy(stack) => Ops({"save"}) # {}
    BY <2>1 DEF Busy, BusyOps, LoadOps, LoadsOf, Ops
  <2> QED BY <2>3, <2>4, Zenon DEF IInv, EnabledOK
<1> QED BY <1>1, Invariance, PTL

\* When no load is posted or under way there is no wait cursor: every one that loadFile()
\* sets is taken off by an onLoadComplete.
THEOREM CursorIsRestored == Spec => []CursorRestored
<1>1. IInv => CursorRestored
  <2> SUFFICES ASSUME IInv, ~closed, Loads = {}, posted = 0 PROVE cursor = 0
    BY DEF CursorRestored
  <2>1. LoadsOf(stack) = {}
    BY DEF Loads, Ops, LoadsOf, LoadOps
  <2>2. NumLoads(stack) = 0
    BY <2>1, FS_EmptySet DEF NumLoads
  <2>3. cursor <= posted + NumLoads(stack)
    BY Zenon DEF IInv, CursorOK
  <2> QED BY <2>2, <2>3 DEF IInv, DataOK
<1> QED BY <1>1, Invariance, PTL

------------------------------------------------------------------------------
(***************************************************************************)
(* The main promise of the window, for any files and any number of clicks: *)
(* while nothing is going on, a window that is not marked shows what its   *)
(* file holds, so closing it loses nothing.                                *)
(*                                                                         *)
(* The property speaks of an empty stack of handlers; the invariant has to *)
(* say of the others what they will leave behind.  Once closeEvent goes on *)
(* without a question the window will close, whatever else happens.  Until *)
(* then, and unless loads overlap, at most one load or save is under way,  *)
(* nothing runs inside it but the question whether to close, it is about   *)
(* the current file, and the window is disabled, so its model is not       *)
(* changed.                                                                *)
(***************************************************************************)

Ending(fr) == fr.op = "proceed" /\ fr.goal.do = "close"
Asking(fr) == fr.op = "confirm" /\ fr.goal.do = "close"

\* The window will close.
Ends(s) == \E i \in DOMAIN s : Ending(s[i])

\* Above a load or a save there is nothing but the question.
Tame(s) == \A i, j \in DOMAIN s : s[i].op \in BusyOps /\ j > i => Asking(s[j])

\* Loads and saves have kept their model, and load() and save() are about file f.
About(s, f) ==
  \A i \in DOMAIN s : s[i].op \in BusyOps => s[i].mixed = FALSE /\ (s[i].op # "archive" => s[i].file = f)

\* What the window promises when no handler is left.
Kept ==
  ~ Busy(stack) /\ posted = 0 /\ ~ modified /\ current \in Nif \cup Archived => nif = disk[current]

Good ==
  /\ Tame(stack)
  /\ About(stack, current)
  /\ Busy(stack) => ~ enabled
  /\ Kept

SInv == closed \/ mishap \/ Ends(stack) \/ Good

----------------------------------------------------------------------------
(* Stacks *)

LEMMA Appended ==
  ASSUME NEW s \in Seq(Frame), NEW fr \in Frame
  PROVE  /\ Append(s, fr) \in Seq(Frame) /\ Len(s) \in Nat
         /\ DOMAIN s = 1 .. Len(s) /\ DOMAIN Append(s, fr) = 1 .. Len(s) + 1
         /\ Append(s, fr)[Len(s) + 1] = fr
         /\ \A i \in 1 .. Len(s) : Append(s, fr)[i] = s[i]
OBVIOUS

\* A handler is entered where none is under way, or it is the question.
LEMMA PushTame ==
  ASSUME NEW s \in Seq(Frame), NEW fr \in Frame, Tame(s), Busy(s) => Asking(fr)
  PROVE  Tame(Append(s, fr))
<1> DEFINE t == Append(s, fr)
           n == Len(s) + 1
<1>1. /\ n \in Nat /\ DOMAIN s = 1 .. n - 1 /\ DOMAIN t = 1 .. n /\ t[n] = fr
      /\ \A i \in 1 .. n - 1 : t[i] = s[i]
  BY Appended
<1> HIDE DEF t, n
<1>2. ASSUME NEW i \in 1 .. n, NEW j \in 1 .. n, t[i].op \in BusyOps, j > i
      PROVE  Asking(t[j])
  <2>1. i \in DOMAIN s /\ s[i].op \in BusyOps
    BY <1>1, <1>2
  <2>2. CASE j = n
    BY <2>1, <2>2, <1>1 DEF Busy
  <2>3. CASE j # n
    <3>1. j \in DOMAIN s /\ t[j] = s[j]
      BY <2>3, <1>1
    <3> QED  BY <2>1, <3>1, <1>2 DEF Tame
  <2> QED  BY <2>2, <2>3
<1>3. Tame(t)
  BY <1>1, <1>2 DEF Tame
<1> QED  BY <1>3 DEF t

LEMMA PushAbout ==
  ASSUME NEW s \in Seq(Frame), NEW fr \in Frame, NEW f, About(s, f),
         fr.op \in BusyOps => fr.mixed = FALSE /\ (fr.op # "archive" => fr.file = f)
  PROVE  About(Append(s, fr), f)
<1> DEFINE t == Append(s, fr)
           n == Len(s) + 1
<1>1. /\ n \in Nat /\ DOMAIN s = 1 .. n - 1 /\ DOMAIN t = 1 .. n /\ t[n] = fr
      /\ \A i \in 1 .. n - 1 : t[i] = s[i]
  BY Appended
<1> HIDE DEF t, n
<1>2. ASSUME NEW i \in 1 .. n, t[i].op \in BusyOps
      PROVE  t[i].mixed = FALSE /\ (t[i].op # "archive" => t[i].file = f)
  <2>1. CASE i = n
    BY <2>1, <1>1, <1>2
  <2>2. CASE i # n
    <3>1. i \in DOMAIN s /\ t[i] = s[i]
      BY <2>2, <1>1
    <3> QED  BY <3>1, <1>2 DEF About
  <2> QED  BY <2>1, <2>2
<1>3. About(t, f)
  BY <1>1, <1>2 DEF About
<1> QED  BY <1>3 DEF t

LEMMA PushEnds ==
  ASSUME NEW s \in Seq(Frame), NEW fr \in Frame
  PROVE  Ends(Append(s, fr)) <=> Ends(s) \/ Ending(fr)
<1> DEFINE t == Append(s, fr)
           n == Len(s) + 1
<1>1. /\ n \in Nat /\ DOMAIN s = 1 .. n - 1 /\ DOMAIN t = 1 .. n /\ t[n] = fr
      /\ \A i \in 1 .. n - 1 : t[i] = s[i]
  BY Appended
<1>2. DOMAIN t = DOMAIN s \cup {n}
  BY <1>1
<1> HIDE DEF t, n
<1>3. ASSUME Ends(t) PROVE Ends(s) \/ Ending(fr)
  <2>1. PICK i \in DOMAIN t : Ending(t[i])
    BY <1>3 DEF Ends
  <2> QED  BY <1>1, <1>2, <2>1 DEF Ends
<1>4. ASSUME Ends(s) \/ Ending(fr) PROVE Ends(t)
  <2>1. CASE Ends(s)
    <3>1. PICK i \in DOMAIN s : Ending(s[i])
      BY <2>1 DEF Ends
    <3> QED  BY <1>1, <1>2, <3>1 DEF Ends
  <2>2. CASE Ending(fr)
    BY <2>2, <1>1, <1>2 DEF Ends
  <2> QED  BY <1>4, <2>1, <2>2
<1> QED  BY <1>3, <1>4 DEF t

\* A handler returns; if it is a load or a save, no other is under way.
LEMMA PopTame ==
  ASSUME NEW s \in Seq(Frame), s # <<>>
  PROVE  /\ Last(s) \in Frame /\ Front(s) \in Seq(Frame)
         /\ Tame(s) => Tame(Front(s)) /\ (~ Asking(Last(s)) => ~ Busy(Front(s)))
         /\ \A f : About(s, f) =>
              /\ About(Front(s), f)
              /\ Last(s).op \in BusyOps =>
                   Last(s).mixed = FALSE /\ (Last(s).op # "archive" => Last(s).file = f)
         /\ Ends(s) <=> Ends(Front(s)) \/ Ending(Last(s))
<1> DEFINE t == Front(s)
           n == Len(s)
           l == Last(s)
<1>1. l \in Frame /\ t \in Seq(Frame)
  BY Pop
<1>2. /\ n \in Nat /\ n > 0 /\ DOMAIN s = 1 .. n /\ DOMAIN t = 1 .. n - 1 /\ s[n] = l
      /\ \A i \in 1 .. n - 1 : t[i] = s[i]
  BY DEF Front, Last
<1> HIDE DEF t, n, l
<1>3. \A i \in DOMAIN t : i \in DOMAIN s /\ t[i] = s[i] /\ n > i
  BY <1>2
<1>4. n \in DOMAIN s
  BY <1>2
<1>5. Tame(s) => Tame(t)
  BY <1>3 DEF Tame
<1>6. Tame(s) /\ ~ Asking(l) => ~ Busy(t)
  BY <1>2, <1>3, <1>4 DEF Tame, Busy
<1>7. \A f : About(s, f) =>
        About(t, f) /\ (l.op \in BusyOps => l.mixed = FALSE /\ (l.op # "archive" => l.file = f))
  BY <1>2, <1>3, <1>4 DEF About
<1>8. Ends(s) <=> Ends(t) \/ Ending(l)
  <2>1. \A i : i \in DOMAIN s <=> i \in DOMAIN t \/ i = n
    BY <1>2
  <2> QED  BY <1>2, <1>3, <2>1 DEF Ends
<1> QED  BY <1>1, <1>5, <1>6, <1>7, <1>8 DEF t, l

\* Exchanging the model changes loads and saves only.
LEMMA MixedTame ==
  ASSUME NEW s \in Seq(Frame)
  PROVE  /\ ~ Busy(s) => Mixed(s) = s
         /\ Ends(s) => Ends(Mixed(s))
<1>1. ASSUME ~ Busy(s) PROVE Mixed(s) = s
  <2>1. \A i \in DOMAIN s : s[i].op \notin {"load", "archive", "save"}
    BY <1>1 DEF Busy, BusyOps
  <2>2. Mixed(s) = [i \in DOMAIN s |-> s[i]]
    BY <2>1 DEF Mixed
  <2> QED  BY <2>2
<1>2. ASSUME Ends(s) PROVE Ends(Mixed(s))
  <2>1. PICK i \in DOMAIN s : Ending(s[i])
    BY <1>2 DEF Ends
  <2>2. i \in DOMAIN Mixed(s) /\ Mixed(s)[i] = s[i]
    BY <2>1 DEF Mixed, Ending
  <2> QED  BY <2>1, <2>2 DEF Ends
<1> QED  BY <1>1, <1>2

----------------------------------------------------------------------------
(* What is lost stays lost *)

\* A failed save or overlapping loads are not forgotten.
LEMMA MishapStays == ASSUME FlagsOK, mishap, [Next]_vars PROVE mishap'
<1>1. CASE Handlers
  BY <1>1, Zenon DEF Handlers, Load, Loaded, NotLoaded, Saved, NotSaved, ProceedOpen, ProceedArchive, ProceedClose,
     BeginLoading, LoadComplete, FlagsOK
<1>2. CASE User
  BY <1>2, Zenon DEF User, EditNif, EditKfm, ClickOpen, ClickArchive, ClickClose, ClickSaveAs, ClickSave, ClickReload,
     Answer, Choose, ConfirmThen, Show, Save
<1>3. CASE UNCHANGED vars
  BY <1>3, Zenon DEF vars
<1> QED  BY <1>1, <1>2, <1>3, Zenon DEF Next

\* A step changes the stack by a handler that returns, another that is entered, and the
\* models exchanged below it.
StackSteps ==
  \/ stack' = stack
  \/ stack' = Mixed(stack)
  \/ \E fr \in Frame : stack' = Append(stack, fr) \/ stack' = Append(Mixed(stack), fr)
  \/ /\ stack # <<>> /\ ~ Ending(Last(stack))
     /\ \/ stack' = Front(stack)
        \/ \E fr, gr \in Frame : \/ stack' = Append(Front(stack), fr)
                                 \/ stack' = Append(Mixed(Front(stack)), fr)
                                 \/ stack' = Append(Append(Front(stack), fr), gr)

\* The end comes once it is decided.
LEMMA EndStays ==
  ASSUME IInv, Ends(stack), StackSteps
  PROVE  Ends(stack')
<1>1. stack \in Seq(Frame)
  BY DEF IInv, DataOK
<1>2. Mixed(stack) \in Seq(Frame) /\ Ends(Mixed(stack))
  BY <1>1, MixedStack, MixedTame
<1>3. CASE \E fr \in Frame : stack' = Append(stack, fr) \/ stack' = Append(Mixed(stack), fr)
  BY <1>1, <1>2, <1>3, PushEnds
<1>4. CASE /\ stack # <<>> /\ ~ Ending(Last(stack))
           /\ \/ stack' = Front(stack)
              \/ \E fr, gr \in Frame : \/ stack' = Append(Front(stack), fr)
                                       \/ stack' = Append(Mixed(Front(stack)), fr)
                                       \/ stack' = Append(Append(Front(stack), fr), gr)
  <2>1. Front(stack) \in Seq(Frame) /\ Ends(Front(stack))
    BY <1>1, <1>4, PopTame
  <2>2. Mixed(Front(stack)) \in Seq(Frame) /\ Ends(Mixed(Front(stack)))
    BY <2>1, MixedStack, MixedTame
  <2>3. \A fr \in Frame : Append(Front(stack), fr) \in Seq(Frame) /\ Ends(Append(Front(stack), fr))
    BY <2>1, Push, PushEnds
  <2> QED  BY <1>4, <2>1, <2>2, <2>3, PushEnds
<1> QED  BY <1>2, <1>3, <1>4 DEF StackSteps


----------------------------------------------------------------------------
(* What keeps the promise *)

\* Good is enough where nothing is under way.
LEMMA QuietGood ==
  ASSUME ~ Busy(stack'), Kept'
  PROVE  Good'
<1>1. Tame(stack') /\ About(stack', current')
  BY DEF Busy, Tame, About
<1> QED  BY <1>1, Zenon DEF Good

\* A load begins: where another is under way that is a mishap.
LEMMA BeginGood ==
  ASSUME IInv, NEW op \in LoadOps, NEW f \in Path \cup {NoFile}, NEW s \in Seq(Frame),
         Busy(s) => Busy(stack), op = "load" => f = current', BeginLoading(op, f, s)
  PROVE  SInv'
<1> DEFINE fr == [op |-> op, file |-> f, mixed |-> FALSE]
<1>1. CASE Busy(s)
  <2>1. Loads # {} \/ Ops({"save"}) # {}
    BY <1>1 DEF Busy, BusyOps, Loads, Ops
  <2> QED  BY <2>1, Zenon DEF BeginLoading, SInv
<1>2. CASE ~ Busy(s)
  <2>1. fr \in Frame /\ fr.op = op /\ fr.file = f /\ fr.mixed = FALSE /\ op \in BusyOps
    BY DEF Frame, LoadOps, BusyOps
  <2>2. stack' = Append(s, fr)
    BY <1>2, MixedTame DEF BeginLoading
  <2>3. Tame(s) /\ About(s, current')
    BY <1>2 DEF Busy, Tame, About
  <2>4. op # "archive" => f = current'
    BY DEF LoadOps
  <2> HIDE DEF fr
  <2>5. Tame(stack') /\ About(stack', current') /\ Busy(stack')
    BY <1>2, <2>1, <2>2, <2>3, <2>4, PushTame, PushAbout, Push
  <2>6. ~ enabled'
    BY Zenon DEF BeginLoading
  <2>7. Kept'
    BY <2>5, Zenon DEF Kept
  <2> QED  BY <2>5, <2>6, <2>7, Zenon DEF SInv, Good
<1> QED  BY <1>1, <1>2

\* A save begins.
LEMMA SaveGood ==
  ASSUME IInv, NEW f \in Nif \cup Kfm, NEW s \in Seq(Frame), ~ Busy(s), Save(f, s)
  PROVE  SInv'
<1> DEFINE fr == [op |-> "save", file |-> f, mixed |-> FALSE]
<1>1. fr \in Frame /\ fr.op = "save" /\ fr.file = f /\ fr.mixed = FALSE /\ fr.op \in BusyOps
  BY DEF Frame, BusyOps
<1>2. stack' = Append(s, fr) /\ current' = f
  BY DEF Save
<1>3. Tame(s) /\ About(s, f)
  BY DEF Busy, Tame, About
<1> HIDE DEF fr
<1>4. Tame(stack') /\ About(stack', current') /\ Busy(stack')
  BY <1>1, <1>2, <1>3, PushTame, PushAbout, Push
<1>5. ~ enabled'
  BY Zenon DEF Save
<1>6. Kept'
  BY <1>4, Zenon DEF Kept
<1> QED  BY <1>4, <1>5, <1>6, Zenon DEF SInv, Good

\* The innermost handler returns, unless it is the question whether to close: then no
\* load or save is under way.
LEMMA ReturnGood ==
  ASSUME IInv, Good, NEW ops, In(ops), ~ Asking(Top)
  PROVE  /\ stack \in Seq(Frame) /\ stack # <<>> /\ Top \in Frame /\ Top.op \in ops
         /\ Front(stack) \in Seq(Frame) /\ ~ Busy(Front(stack))
         /\ Top.op \in BusyOps => Top.mixed = FALSE /\ (Top.op # "archive" => Top.file = current)
<1>1. stack \in Seq(Frame) /\ stack # <<>> /\ Top.op \in ops /\ Top = Last(stack)
  BY DEF IInv, DataOK, In, Top
<1>2. Tame(stack) /\ About(stack, current)
  BY Zenon DEF Good
<1> QED  BY <1>1, <1>2, PopTame

\* Where the user can do something, no load or save is under way.
LEMMA InputGood ==
  ASSUME IInv, Good, Input
  PROVE  ~ Busy(stack) /\ stack \in Seq(Frame)
<1>1. enabled
  BY Zenon DEF Input
<1>2. stack \in Seq(Frame)
  BY DEF IInv, DataOK
<1> QED  BY <1>1, <1>2, Zenon DEF Good

----------------------------------------------------------------------------
(* The steps *)

LEMMA LoadKeeps == ASSUME IInv, Good, Load PROVE SInv'
<1>1. stack \in Seq(Frame) /\ current \in Path \cup {NoFile}
  BY DEF IInv, DataOK
<1>2. BeginLoading("load", current, stack) /\ current' = current
  BY DEF Load
<1>3. "load" \in LoadOps
  BY DEF LoadOps
<1> QED  BY <1>1, <1>2, <1>3, BeginGood

LEMMA LoadedKeeps == ASSUME IInv, Good, Loaded PROVE SInv'
<1>1. In({"load", "archive"}) /\ Readable(Top) /\ LoadComplete
  BY DEF Loaded
<1>2. ~ Asking(Top)
  BY <1>1 DEF In, Asking
<1>3. /\ Top.op \in {"load", "archive"} /\ Top.mixed = FALSE
      /\ Top.op # "archive" => Top.file = current
      /\ ~ Busy(Front(stack))
  BY <1>1, <1>2, ReturnGood DEF BusyOps
<1>4. stack' = Front(stack) /\ disk' = disk
  BY <1>1 DEF LoadComplete
<1>5. current' = Top.file
  BY <1>3 DEF Loaded
<1>6. Top.file \notin Kfm => nif' = disk[Top.file]
  BY <1>3 DEF Loaded
<1>7. current' \in Nif \cup Archived => nif' = disk'[current']
  BY <1>4, <1>5, <1>6, PathsAssumption
<1>8. Kept'
  BY <1>7, Zenon DEF Kept
<1>9. ~ Busy(stack')
  BY <1>3, <1>4
<1> QED  BY <1>8, <1>9, QuietGood DEF SInv

LEMMA NotLoadedKeeps == ASSUME IInv, Good, NotLoaded PROVE SInv'
<1>1. In({"load", "archive"}) /\ LoadComplete /\ current' = NoFile
  BY DEF NotLoaded
<1>2. ~ Asking(Top)
  BY <1>1 DEF In, Asking
<1>3. ~ Busy(stack')
  BY <1>1, <1>2, ReturnGood DEF LoadComplete
<1>4. current' \notin Nif \cup Archived
  BY <1>1, PathsAssumption
<1>5. Kept'
  BY <1>4, Zenon DEF Kept
<1> QED  BY <1>3, <1>5, QuietGood DEF SInv

LEMMA SavedKeeps == ASSUME IInv, Good, Saved PROVE SInv'
<1>1. In({"save"}) /\ stack' = Front(stack) /\ current' = current /\ nif' = nif
  BY DEF Saved
<1>2. ~ Asking(Top)
  BY <1>1 DEF In, Asking
<1>3. /\ Top \in Frame /\ Top.op = "save" /\ Top.mixed = FALSE /\ Top.file = current
      /\ ~ Busy(Front(stack))
  <2>1. /\ Top \in Frame /\ Top.op \in {"save"} /\ ~ Busy(Front(stack))
        /\ Top.op \in BusyOps => Top.mixed = FALSE /\ (Top.op # "archive" => Top.file = current)
    BY <1>1, <1>2, ReturnGood
  <2> QED  BY <2>1 DEF BusyOps
<1>4. Top.file \in Nif \cup Kfm
  BY <1>3, FrameFields
<1>5. PICK content \in Written(Top) : disk' = [disk EXCEPT ![Top.file] = content]
  BY DEF Saved
<1>6. Top.file \notin Kfm => content = nif
  BY <1>3, <1>5 DEF Written
<1>7. current \in DOMAIN disk
  BY <1>3, <1>4 DEF IInv, DataOK, Path
<1>8. current' \in Nif \cup Archived => nif' = disk'[current']
  BY <1>1, <1>3, <1>4, <1>5, <1>6, <1>7, PathsAssumption
<1>9. Kept'
  BY <1>8, Zenon DEF Kept
<1>10. ~ Busy(stack')
  BY <1>1, <1>3
<1> QED  BY <1>9, <1>10, QuietGood DEF SInv

LEMMA ProceedKeeps == ASSUME IInv, Good, ProceedOpen \/ ProceedArchive PROVE SInv'
<1>1. In({"proceed"})
  BY DEF ProceedOpen, ProceedArchive
<1>2. ~ Asking(Top)
  BY <1>1 DEF In, Asking
<1>3. Front(stack) \in Seq(Frame) /\ ~ Busy(Front(stack)) /\ Top \in Frame /\ Top.op = "proceed"
  <2>1. Front(stack) \in Seq(Frame) /\ ~ Busy(Front(stack)) /\ Top \in Frame /\ Top.op \in {"proceed"}
    BY <1>1, <1>2, ReturnGood
  <2> QED  BY <2>1
<1>4. CASE ProceedOpen
  <2>1. posted' # 0 /\ stack' = Front(stack)
    BY <1>4 DEF ProceedOpen, IInv, DataOK
  <2>2. Kept'
    BY <2>1, Zenon DEF Kept
  <2> QED  BY <1>3, <2>1, <2>2, QuietGood DEF SInv
<1>5. CASE ProceedArchive
  <2>1. BeginLoading("archive", Top.goal.file, Front(stack)) /\ Top.goal.do = "archive"
    BY <1>5 DEF ProceedArchive
  <2>2. Top.goal.file \in Path \cup {NoFile}
    BY <1>3, <2>1, FrameFields, GoalFields DEF Path
  <2>3. "archive" \in LoadOps
    BY DEF LoadOps
  <2> QED  BY <1>3, <2>1, <2>2, <2>3, BeginGood
<1> QED  BY <1>4, <1>5

\* A change of the stack that leaves what the window promises as it is.
LEMMA SameGood ==
  ASSUME Good, UNCHANGED <<disk, nif, kfm, current, viewVars, posted, closed, rev, mishap>>,
         Tame(stack'), About(stack', current), Busy(stack') <=> Busy(stack)
  PROVE  SInv'
<1>1. disk' = disk /\ nif' = nif /\ current' = current /\ modified' = modified /\ enabled' = enabled /\ posted' = posted
  BY DEF viewVars
<1>2. Kept'
  BY <1>1, Zenon DEF Good, Kept
<1>3. Tame(stack') /\ About(stack', current') /\ (Busy(stack') => ~ enabled')
  BY <1>1, Zenon DEF Good
<1> QED  BY <1>2, <1>3, Zenon DEF SInv, Good

\* The same where nothing is under way.
LEMMA QuietShowGood ==
  ASSUME IInv, Good, ~ Busy(stack), NEW s \in Seq(Frame), ~ Busy(s), NEW fr \in Frame, fr.op \notin BusyOps,
         stack' = Append(s, fr), UNCHANGED <<disk, nif, kfm, current, viewVars, posted, closed, rev, mishap>>
  PROVE  SInv'
<1>1. ~ Busy(stack')
  BY Push
<1>2. Tame(stack') /\ About(stack', current)
  BY <1>1 DEF Busy, Tame, About
<1> QED  BY <1>1, <1>2, SameGood

\* What saveConfirm makes of a goal.
LEMMA ConfirmFrames ==
  ASSUME NEW goal \in Goal
  PROVE  LET confirm == [op |-> "confirm", goal |-> goal]
             proceed == [op |-> "proceed", goal |-> goal, yes |-> FALSE]
         IN  /\ confirm \in Frame /\ confirm.op \notin BusyOps /\ (goal.do = "close" => Asking(confirm))
             /\ proceed \in Frame /\ proceed.op \notin BusyOps /\ (goal.do = "close" => Ending(proceed))
BY DEF Frame, BusyOps, Asking, Ending

LEMMA ConfirmKeeps ==
  ASSUME IInv, Good, NEW goal \in Goal, goal.do = "close" \/ ~ Busy(stack), ConfirmThen(goal)
  PROVE  SInv'
<1> DEFINE confirm == [op |-> "confirm", goal |-> goal]
           proceed == [op |-> "proceed", goal |-> goal, yes |-> FALSE]
<1>1. stack \in Seq(Frame)
  BY DEF IInv, DataOK
<1>2. /\ confirm \in Frame /\ confirm.op \notin BusyOps /\ (goal.do = "close" => Asking(confirm))
      /\ proceed \in Frame /\ proceed.op \notin BusyOps /\ (goal.do = "close" => Ending(proceed))
  BY ConfirmFrames
<1>3. /\ UNCHANGED <<disk, nif, kfm, current, viewVars, posted, closed, rev, mishap>>
      /\ stack' = Append(stack, confirm) \/ (~ modified /\ stack' = Append(stack, proceed))
  BY Zenon DEF ConfirmThen, Show
<1>4. Tame(stack) /\ About(stack, current)
  BY Zenon DEF Good
<1> HIDE DEF confirm, proceed
<1>5. CASE ~ Busy(stack)
  BY <1>1, <1>2, <1>3, <1>5, QuietShowGood
<1>6. CASE goal.do = "close" /\ stack' = Append(stack, confirm)
  <2>1. Tame(stack') /\ About(stack', current) /\ (Busy(stack') <=> Busy(stack))
    BY <1>1, <1>2, <1>4, <1>6, PushTame, PushAbout, Push
  <2> QED  BY <1>3, <2>1, SameGood
<1>7. CASE goal.do = "close" /\ stack' = Append(stack, proceed)
  BY <1>1, <1>2, <1>7, PushEnds DEF SInv
<1> QED  BY <1>3, <1>5, <1>6, <1>7

LEMMA AnswerKeeps == ASSUME IInv, Good, Answer PROVE SInv'
<1> DEFINE s == Front(stack)
           Proceeding(yes) == [op |-> "proceed", goal |-> Top.goal, yes |-> yes]
           choosing == [op |-> "choose"]
<1>1. In({"confirm"})
  BY DEF Answer
<1>2. UNCHANGED <<disk, nif, kfm, current, viewVars, posted, closed, rev, mishap>>
  BY DEF Answer
<1>3. /\ Top \in Frame /\ Top.op = "confirm" /\ Top = Last(stack)
      /\ s \in Seq(Frame) /\ stack \in Seq(Frame) /\ stack # <<>> /\ (Busy(s) <=> Busy(stack))
  <2>1. ~ closed /\ stack \in Seq(Frame) /\ stack # <<>> /\ Top.op \in {"confirm"} /\ Top = Last(stack)
    BY <1>1 DEF IInv, DataOK, In, Top
  <2>2. Top \in Frame /\ s \in Seq(Frame) /\ (Busy(stack) <=> Busy(s) \/ Top.op \in BusyOps)
    BY <2>1, Pop
  <2> QED  BY <2>1, <2>2 DEF BusyOps
<1>4. choosing \in Frame /\ choosing.op \notin BusyOps
  BY DEF Frame, BusyOps
<1>5. Top.goal \in Goal
  BY <1>3, FrameFields
<1>6. \A yes \in BOOLEAN : /\ Proceeding(yes) \in Frame /\ Proceeding(yes).op \notin BusyOps
                           /\ Asking(Top) => Ending(Proceeding(yes))
  BY <1>5 DEF Frame, BusyOps, Asking, Ending
<1>7. \/ stack' = Append(Append(s, Proceeding(TRUE)), choosing)
      \/ stack' = Append(s, Proceeding(FALSE))
      \/ stack' = s
  BY DEF Answer
<1>8. Tame(stack) /\ About(stack, current)
  BY Zenon DEF Good
<1>9. Tame(s) /\ About(s, current) /\ (~ Asking(Top) => ~ Busy(s))
  BY <1>3, <1>8, PopTame
<1> HIDE DEF s, Proceeding, choosing
<1>10. CASE stack' = s
  BY <1>2, <1>3, <1>9, <1>10, SameGood
<1>11. CASE stack' = Append(s, Proceeding(FALSE))
  <2>1. CASE Asking(Top)
    <3>1. Ends(stack')
      BY <1>3, <1>6, <1>11, <2>1, PushEnds
    <3> QED  BY <3>1, Zenon DEF SInv
  <2>2. CASE ~ Asking(Top)
    BY <1>2, <1>3, <1>6, <1>9, <1>11, <2>2, QuietShowGood
  <2> QED  BY <2>1, <2>2
<1>12. CASE stack' = Append(Append(s, Proceeding(TRUE)), choosing)
  <2>1. Append(s, Proceeding(TRUE)) \in Seq(Frame)
    BY <1>3, <1>6, Push
  <2>2. CASE Asking(Top)
    <3>1. Ends(Append(s, Proceeding(TRUE)))
      BY <1>3, <1>6, <2>2, PushEnds
    <3>2. Ends(stack')
      BY <1>4, <1>12, <2>1, <3>1, PushEnds
    <3> QED  BY <3>2, Zenon DEF SInv
  <2>3. CASE ~ Asking(Top)
    <3>1. ~ Busy(Append(s, Proceeding(TRUE)))
      BY <1>3, <1>6, <1>9, <2>3, Push
    <3> QED  BY <1>2, <1>3, <1>4, <1>9, <1>12, <2>1, <2>3, <3>1, QuietShowGood
  <2> QED  BY <2>2, <2>3
<1> QED  BY <1>7, <1>10, <1>11, <1>12

LEMMA ChooseKeeps == ASSUME IInv, Good, Choose PROVE SInv'
<1>1. In({"choose"})
  BY DEF Choose
<1>2. ~ Asking(Top)
  BY <1>1 DEF In, Asking
<1>3. /\ stack \in Seq(Frame) /\ stack # <<>> /\ Top.op \in {"choose"} /\ Top = Last(stack)
      /\ Front(stack) \in Seq(Frame) /\ ~ Busy(Front(stack))
  BY <1>1, <1>2, ReturnGood DEF Top
<1>4. CASE \E f \in Nif \cup Kfm : Save(f, Front(stack))
  BY <1>3, <1>4, SaveGood
<1>5. CASE /\ stack' = Front(stack)
           /\ UNCHANGED <<disk, nif, kfm, current, viewVars, posted, closed, rev, mishap>>
  <2>1. Busy(stack) <=> Busy(Front(stack))
    BY <1>3, Pop DEF BusyOps
  <2>2. Tame(stack') /\ About(stack', current)
    BY <1>3, <1>5 DEF Busy, Tame, About
  <2> QED  BY <1>5, <2>1, <2>2, SameGood
<1> QED  BY <1>4, <1>5 DEF Choose

LEMMA EditKeeps == ASSUME IInv, Good, EditNif \/ EditKfm \/ ClickReload PROVE SInv'
<1>1. ~ Busy(stack) /\ stack \in Seq(Frame)
  BY InputGood DEF EditNif, EditKfm, ClickReload
<1>2. CASE EditNif
  <2>1. stack' = stack
    BY <1>1, <1>2, MixedTame DEF EditNif
  <2>2. Kept'
    BY <1>2, Zenon DEF EditNif, Kept
  <2> QED  BY <1>1, <2>1, <2>2, QuietGood DEF SInv
<1>3. CASE EditKfm
  <2>1. stack' = stack /\ disk' = disk /\ nif' = nif /\ current' = current /\ posted' = posted /\ modified' = modified
    BY <1>3 DEF EditKfm, viewVars
  <2>2. Kept'
    BY <2>1, Zenon DEF Good, Kept
  <2> QED  BY <1>1, <2>1, <2>2, QuietGood DEF SInv
<1>4. CASE ClickReload
  <2>1. stack' = stack /\ posted' # 0
    BY <1>4 DEF ClickReload, IInv, DataOK
  <2>2. Kept'
    BY <2>1, Zenon DEF Kept
  <2> QED  BY <1>1, <2>1, <2>2, QuietGood DEF SInv
<1> QED  BY <1>2, <1>3, <1>4

LEMMA ClickKeeps ==
  ASSUME IInv, Good, ClickOpen \/ ClickArchive \/ ClickClose \/ ClickSaveAs \/ ClickSave
  PROVE  SInv'
<1>1. CASE ClickOpen
  <2>1. PICK f \in Nif \cup Kfm : ConfirmThen([do |-> "open", file |-> f])
    BY <1>1 DEF ClickOpen
  <2>2. [do |-> "open", file |-> f] \in Goal
    BY DEF Goal
  <2>3. ~ Busy(stack)
    BY <1>1, InputGood DEF ClickOpen
  <2> QED  BY <2>1, <2>2, <2>3, ConfirmKeeps
<1>2. CASE ClickArchive
  <2>1. PICK f \in Archived : ConfirmThen([do |-> "archive", file |-> f])
    BY <1>2 DEF ClickArchive
  <2>2. [do |-> "archive", file |-> f] \in Goal
    BY DEF Goal
  <2>3. ~ Busy(stack)
    BY <1>2, InputGood DEF ClickArchive
  <2> QED  BY <2>1, <2>2, <2>3, ConfirmKeeps
<1>3. CASE ClickClose
  <2>1. [do |-> "close"] \in Goal /\ [do |-> "close"].do = "close"
    BY DEF Goal
  <2>2. ConfirmThen([do |-> "close"])
    BY <1>3 DEF ClickClose
  <2> QED  BY <2>1, <2>2, ConfirmKeeps
<1>4. [op |-> "choose"] \in Frame /\ [op |-> "choose"].op \notin BusyOps
  BY DEF Frame, BusyOps
<1>5. ASSUME Input, Show([op |-> "choose"], stack) PROVE SInv'
  BY <1>4, <1>5, InputGood, QuietShowGood DEF Show
<1>6. CASE ClickSaveAs
  BY <1>5, <1>6 DEF ClickSaveAs
<1>7. CASE ClickSave
  <2>1. Input
    BY <1>7 DEF ClickSave
  <2>2. CASE current \in Nif \cup Kfm /\ Save(current, stack)
    BY <2>1, <2>2, InputGood, SaveGood
  <2>3. CASE Show([op |-> "choose"], stack)
    BY <1>5, <2>1, <2>3
  <2> QED  BY <1>7, <2>2, <2>3 DEF ClickSave
<1> QED  BY <1>1, <1>2, <1>3, <1>6, <1>7
----------------------------------------------------------------------------
(* Once the end is decided *)

\* The innermost handler that returns is not the one that closes.
LEMMA ReturnStack ==
  ASSUME IInv, NEW ops, In(ops), "proceed" \notin ops \/ Top.goal.do # "close"
  PROVE  stack # <<>> /\ ~ Ending(Last(stack)) /\ Top \in Frame /\ Top = Last(stack) /\ Top.op \in ops
<1>1. stack \in Seq(Frame) /\ stack # <<>> /\ Top.op \in ops /\ Top = Last(stack)
  BY DEF IInv, DataOK, In, Top
<1>2. Top \in Frame
  BY <1>1, Pop
<1> QED  BY <1>1, <1>2 DEF Ending

\* What the handlers do to the stack.
LEMMA HandlersStack == ASSUME IInv, Handlers PROVE closed' \/ StackSteps
<1>1. CASE Load
  <2>1. current \in Path \cup {NoFile}
    BY DEF IInv, DataOK
  <2>2. [op |-> "load", file |-> current, mixed |-> FALSE] \in Frame
    BY <2>1 DEF Frame
  <2>3. stack' = Append(Mixed(stack), [op |-> "load", file |-> current, mixed |-> FALSE])
    BY <1>1 DEF Load, BeginLoading
  <2> QED  BY <2>2, <2>3, Zenon DEF StackSteps
<1>2. CASE Loaded \/ NotLoaded
  <2>1. In({"load", "archive"}) /\ stack' = Front(stack)
    BY <1>2 DEF Loaded, NotLoaded, LoadComplete
  <2>2. stack # <<>> /\ ~ Ending(Last(stack))
    BY <2>1, ReturnStack
  <2> QED  BY <2>1, <2>2, Zenon DEF StackSteps
<1>3. CASE Saved \/ NotSaved
  <2>1. In({"save"}) /\ stack' = Front(stack)
    BY <1>3 DEF Saved, NotSaved
  <2>2. stack # <<>> /\ ~ Ending(Last(stack))
    BY <2>1, ReturnStack
  <2> QED  BY <2>1, <2>2, Zenon DEF StackSteps
<1>4. CASE ProceedOpen
  <2>1. In({"proceed"}) /\ Top.goal.do # "close" /\ stack' = Front(stack)
    BY <1>4 DEF ProceedOpen
  <2>2. stack # <<>> /\ ~ Ending(Last(stack))
    BY <2>1, ReturnStack
  <2> QED  BY <2>1, <2>2, Zenon DEF StackSteps
<1>5. CASE ProceedArchive
  <2>1. In({"proceed"}) /\ Top.goal.do = "archive" /\ Top.goal.do # "close"
    BY <1>5 DEF ProceedArchive
  <2>2. stack # <<>> /\ ~ Ending(Last(stack)) /\ Top \in Frame /\ Top.op = "proceed"
    <3>1. stack # <<>> /\ ~ Ending(Last(stack)) /\ Top \in Frame /\ Top.op \in {"proceed"}
      BY <2>1, ReturnStack
    <3> QED  BY <3>1
  <2>3. Top.goal.file \in Path
    BY <2>1, <2>2, FrameFields, GoalFields DEF Path
  <2>4. [op |-> "archive", file |-> Top.goal.file, mixed |-> FALSE] \in Frame
    BY <2>3 DEF Frame
  <2>5. stack' = Append(Mixed(Front(stack)), [op |-> "archive", file |-> Top.goal.file, mixed |-> FALSE])
    BY <1>5 DEF ProceedArchive, BeginLoading
  <2> QED  BY <2>2, <2>4, <2>5, Zenon DEF StackSteps
<1>6. CASE ProceedClose
  BY <1>6, Zenon DEF ProceedClose
<1> QED  BY <1>1, <1>2, <1>3, <1>4, <1>5, <1>6, Zenon DEF Handlers

\* A save puts its frame on the stack.
LEMMA SaveStack ==
  ASSUME NEW f \in Nif \cup Kfm, NEW s, Save(f, s)
  PROVE  \E fr \in Frame : stack' = Append(s, fr)
<1>1. [op |-> "save", file |-> f, mixed |-> FALSE] \in Frame
  BY DEF Frame
<1>2. stack' = Append(s, [op |-> "save", file |-> f, mixed |-> FALSE])
  BY DEF Save
<1> QED  BY <1>1, <1>2, Zenon

\* What the user does to it.
LEMMA UserStack == ASSUME IInv, User PROVE StackSteps
<1>1. [op |-> "choose"] \in Frame
  BY DEF Frame
<1>2. ASSUME NEW goal \in Goal, ConfirmThen(goal) PROVE StackSteps
  <2>1. [op |-> "confirm", goal |-> goal] \in Frame /\ [op |-> "proceed", goal |-> goal, yes |-> FALSE] \in Frame
    BY DEF Frame
  <2>2. \/ stack' = Append(stack, [op |-> "confirm", goal |-> goal])
        \/ stack' = Append(stack, [op |-> "proceed", goal |-> goal, yes |-> FALSE])
    BY <1>2, Zenon DEF ConfirmThen, Show
  <2> QED  BY <2>1, <2>2, Zenon DEF StackSteps
<1>3. CASE ClickOpen \/ ClickArchive \/ ClickClose
  <2>1. \E goal \in Goal : ConfirmThen(goal)
    BY <1>3 DEF ClickOpen, ClickArchive, ClickClose, Goal
  <2> QED  BY <1>2, <2>1
<1>4. ASSUME Show([op |-> "choose"], stack) PROVE StackSteps
  BY <1>1, <1>4, Zenon DEF Show, StackSteps
<1>5. CASE ClickSaveAs
  BY <1>4, <1>5, Zenon DEF ClickSaveAs
<1>6. CASE ClickSave
  <2>1. CASE current \in Nif \cup Kfm /\ Save(current, stack)
    BY <2>1, SaveStack, Zenon DEF StackSteps
  <2> QED  BY <1>4, <1>6, <2>1 DEF ClickSave
<1>7. CASE EditNif \/ EditKfm \/ ClickReload
  BY <1>7, Zenon DEF EditNif, EditKfm, ClickReload, StackSteps
<1>8. CASE Answer
  <2> DEFINE Proceeding(yes) == [op |-> "proceed", goal |-> Top.goal, yes |-> yes]
  <2>1. In({"confirm"})
    BY <1>8 DEF Answer
  <2>2. stack # <<>> /\ ~ Ending(Last(stack)) /\ Top \in Frame /\ Top.op = "confirm"
    <3>1. stack # <<>> /\ ~ Ending(Last(stack)) /\ Top \in Frame /\ Top.op \in {"confirm"}
      BY <2>1, ReturnStack
    <3> QED  BY <3>1
  <2>3. Proceeding(TRUE) \in Frame /\ Proceeding(FALSE) \in Frame
    BY <2>2, FrameFields DEF Frame
  <2>4. \/ stack' = Append(Append(Front(stack), Proceeding(TRUE)), [op |-> "choose"])
        \/ stack' = Append(Front(stack), Proceeding(FALSE))
        \/ stack' = Front(stack)
    BY <1>8 DEF Answer
  <2> HIDE DEF Proceeding
  <2> QED  BY <1>1, <2>2, <2>3, <2>4, Zenon DEF StackSteps
<1>9. CASE Choose
  <2>1. In({"choose"})
    BY <1>9 DEF Choose
  <2>2. stack # <<>> /\ ~ Ending(Last(stack))
    BY <2>1, ReturnStack
  <2>3. CASE \E f \in Nif \cup Kfm : Save(f, Front(stack))
    <3>1. \E fr \in Frame : stack' = Append(Front(stack), fr)
      BY <2>3, SaveStack
    <3> QED  BY <2>2, <3>1, <1>1, Zenon DEF StackSteps
  <2>4. CASE stack' = Front(stack)
    BY <2>2, <2>4, Zenon DEF StackSteps
  <2> QED  BY <1>9, <2>3, <2>4 DEF Choose
<1> QED  BY <1>3, <1>5, <1>6, <1>7, <1>8, <1>9, Zenon DEF User

----------------------------------------------------------------------------
(* The invariant *)

\* Nothing happens to a window that is closed.
LEMMA ClosedStays == ASSUME closed, [Next]_vars PROVE closed'
<1>1. ~ Handlers
  BY Zenon DEF Handlers, Load, Loaded, NotLoaded, Saved, NotSaved, ProceedOpen, ProceedArchive, ProceedClose,
     EventLoop, In
<1>2. ~ User
  BY Zenon DEF User, EditNif, EditKfm, ClickOpen, ClickArchive, ClickClose, ClickSaveAs, ClickSave, ClickReload,
     Answer, Choose, Input, Click, EventLoop, In
<1>3. UNCHANGED vars
  BY <1>1, <1>2, Zenon DEF Next
<1> QED  BY <1>3, Zenon DEF vars

\* Nothing is under way in a new window, and its file, if it has one, is still to be loaded.
LEMMA SInvInit == ASSUME Init PROVE SInv
<1>1. stack = <<>>
  BY DEF Init
<1>2. ~ Busy(stack)
  BY <1>1 DEF Busy
<1>3. Tame(stack) /\ About(stack, current)
  BY <1>1 DEF Tame, About
<1>4. (current = NoFile /\ posted = 0) \/ posted = 1
  BY DEF Init
<1>5. current \notin Nif \cup Archived \/ posted # 0
  BY <1>4, PathsAssumption
<1>6. Kept
  BY <1>5, Zenon DEF Kept
<1> QED  BY <1>2, <1>3, <1>6, Zenon DEF SInv, Good

\* Every step keeps it.
LEMMA SInvNext == ASSUME IInv, SInv, [Next]_vars PROVE SInv'
<1>1. CASE closed
  BY <1>1, ClosedStays, Zenon DEF SInv
<1>2. CASE mishap
  <2>1. FlagsOK
    BY Zenon DEF IInv
  <2> QED  BY <1>2, <2>1, MishapStays, Zenon DEF SInv
<1>3. CASE UNCHANGED vars
  <2>1. /\ disk' = disk /\ nif' = nif /\ current' = current /\ modified' = modified /\ enabled' = enabled
        /\ posted' = posted /\ stack' = stack /\ closed' = closed /\ mishap' = mishap
    BY <1>3 DEF vars, viewVars
  <2>2. (Kept <=> Kept') /\ (Good <=> Good')
    BY <2>1, Zenon DEF Kept, Good, Tame, About, Busy
  <2> QED  BY <2>1, <2>2, Zenon DEF SInv, Ends
<1>4. CASE Next /\ Ends(stack)
  <2>1. closed' \/ StackSteps
    BY <1>4, HandlersStack, UserStack, Zenon DEF Next
  <2> QED  BY <1>4, <2>1, EndStays, Zenon DEF SInv
<1>5. CASE Good /\ Handlers
  <2>1. NotSaved => mishap'
    BY Zenon DEF NotSaved
  <2>2. ProceedClose => closed'
    BY Zenon DEF ProceedClose
  <2> QED  BY <1>5, <2>1, <2>2, LoadKeeps, LoadedKeeps, NotLoadedKeeps, SavedKeeps, ProceedKeeps, Zenon
           DEF Handlers, SInv
<1>6. CASE Good /\ User
  BY <1>6, EditKeeps, ClickKeeps, AnswerKeeps, ChooseKeeps, Zenon DEF User
<1> QED  BY <1>1, <1>2, <1>3, <1>4, <1>5, <1>6, Zenon DEF SInv, Next

\* It says what the window promises.
LEMMA SInvSays == ASSUME SInv PROVE UnmarkedIsSaved
<1> SUFFICES ASSUME Idle, ~ mishap, ~ modified, current \in Nif \cup Archived
             PROVE  nif = disk[current]
  BY Zenon DEF UnmarkedIsSaved
<1>1. ~ closed /\ stack = <<>> /\ posted = 0
  BY Zenon DEF Idle
<1>2. ~ Ends(stack) /\ ~ Busy(stack)
  BY <1>1 DEF Ends, Busy
<1> QED  BY <1>1, <1>2, Zenon DEF SInv, Good, Kept

\* While nothing is going on, no save failed and no loads overlapped, a window that is not
\* marked as modified shows what its file holds (nifskope.cpp: load, save, closeEvent).
THEOREM UnmarkedWindowIsSaved == Spec => []UnmarkedIsSaved
<1>1. Init => SInv
  BY SInvInit
<1>2. IInv /\ SInv /\ [Next]_vars => SInv'
  BY SInvNext
<1>3. SInv => UnmarkedIsSaved
  BY SInvSays
<1> QED  BY <1>1, <1>2, <1>3, Invariance, PTL DEF Spec

=============================================================================
