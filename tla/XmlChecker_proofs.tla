-------------------------- MODULE XmlChecker_proofs --------------------------
(***************************************************************************)
(* Theorems about XmlChecker, for any number of threads, files and clicks. *)
(***************************************************************************)
EXTENDS XmlChecker, FiniteSetTheorems, FunctionTheorems, TLAPS

\* What is queued has not been taken since the queue was filled, and is counted by the
\* progress bar except between the first two statements of run().
QueueOK ==
  /\ IsInjective(queue)
  /\ \A f \in ToSet(queue) : taken[f] = 0
  /\ gui # "clear" => Len(queue) <= maximum

\* One thread at most is being deleted, by the GUI thread, which waits for it.
QuitOK ==
  /\ quit # {} => gui = "delete"
  /\ \A t, u \in quit : t = u

\* A thread that has a file to do has taken one.
FileTaken == \A t \in Thread : pc[t] \in {"lock", "test", "check"} => file[t] \in File

\* Nothing was ever started.
Fresh ==
  /\ ~btRun /\ finished = 0 /\ label = NoLabel
  /\ \A t \in Thread : ~isRunning(t)

\* The queue was filled, and what is no longer in it has been taken.
Filled ==
  /\ \A f \in File : taken[f] = 0 => f \in ToSet(queue)
  /\ maximum = Cardinality(File)
  /\ label # NoLabel => queue = <<>> /\ label = maximum

RunOK ==
  /\ gui = "clear" => interrupted
  /\ ~interrupted => Fresh \/ Filled

IInv ==
  /\ TypeOK
  /\ QueueOK
  /\ QuitOK
  /\ FileTaken
  /\ RunOK
  /\ NoReloadDuringTest
  /\ NoThreadOutlivesQueue

------------------------------------------------------------------------------
(* Queues *)

\* SetToSeq lists every file once.
LEMMA AllFiles ==
  LET q == SetToSeq(File)
  IN q \in Seq(File) /\ IsInjective(q) /\ ToSet(q) = File /\ Len(q) = Cardinality(File)
<1> DEFINE n == Cardinality(File)
<1> DEFINE q == SetToSeq(File)
<1>1. n \in Nat /\ ExistsBijection(1 .. n, File)
  BY FS_CardinalityType, FilesAssumption
<1>2. \E f \in [1 .. n -> File] : IsInjective(f)
  BY <1>1 DEF ExistsBijection, Bijection, Injection
<1>3. q \in [1 .. n -> File] /\ IsInjective(q)
  BY <1>2 DEF SetToSeq
<1>4. q \in Seq(File) /\ Len(q) = n /\ DOMAIN q = 1 .. n
  BY <1>1, <1>3
<1>5. IsFiniteSet(1 .. n) /\ Cardinality(1 .. n) = n
  BY <1>1, FS_Interval
<1>6. q \in Injection(1 .. n, File)
  BY <1>3 DEF Injection
<1>7. q \in Surjection(1 .. n, File)
  BY <1>5, <1>6, FS_Injection, FilesAssumption
<1>8. \A f \in File : \E i \in 1 .. n : q[i] = f
  <2> HIDE DEF n, q
  <2> QED BY <1>7 DEF Surjection
<1>9. ToSet(q) = File
  BY <1>3, <1>4, <1>8 DEF ToSet
<1> QED BY <1>3, <1>4, <1>9

\* Taking the head off a queue without repetitions.
LEMMA TailOfQueue ==
  ASSUME NEW q \in Seq(File), q # <<>>, IsInjective(q)
  PROVE  /\ Head(q) \in File /\ Head(q) \in ToSet(q) /\ Tail(q) \in Seq(File)
         /\ IsInjective(Tail(q)) /\ Len(Tail(q)) <= Len(q)
         /\ ToSet(Tail(q)) = ToSet(q) \ {Head(q)}
<1>1. Head(q) = q[1] /\ 1 \in DOMAIN q /\ Len(Tail(q)) = Len(q) - 1
  OBVIOUS
<1>2. \A i \in DOMAIN Tail(q) : i + 1 \in DOMAIN q /\ Tail(q)[i] = q[i + 1] /\ i + 1 # 1
  OBVIOUS
<1>3. \A j \in DOMAIN q : j = 1 \/ (j - 1 \in DOMAIN Tail(q) /\ Tail(q)[j - 1] = q[j])
  OBVIOUS
<1>4. IsInjective(Tail(q))
  <2> SUFFICES ASSUME NEW i \in DOMAIN Tail(q), NEW j \in DOMAIN Tail(q), Tail(q)[i] = Tail(q)[j]
               PROVE  i = j
    BY DEF IsInjective
  <2>1. i + 1 = j + 1 BY <1>2 DEF IsInjective
  <2> QED BY <2>1
<1>5. ToSet(Tail(q)) \subseteq ToSet(q) \ {Head(q)}
  BY <1>1, <1>2 DEF ToSet, IsInjective
<1>6. ToSet(q) \ {Head(q)} \subseteq ToSet(Tail(q))
  BY <1>1, <1>3 DEF ToSet
<1>7. Head(q) \in File /\ Tail(q) \in Seq(File) /\ Len(Tail(q)) <= Len(q)
  OBVIOUS
<1>8. Head(q) \in ToSet(q)
  BY <1>1 DEF ToSet
<1> QED BY <1>4, <1>5, <1>6, <1>7, <1>8

\* The empty queue.
LEMMA EmptyQueue ==
  /\ <<>> \in Seq(File) /\ IsInjective(<<>>) /\ ToSet(<<>>) = {} /\ Len(<<>>) = 0
BY DEF IsInjective, ToSet

\* The list of threads, one longer.
LEMMA ThreadAppended ==
  ASSUME NEW s \in Seq(Thread), NEW t \in Thread
  PROVE  /\ Append(s, t) \in Seq(Thread) /\ Len(Append(s, t)) >= 1
         /\ ToSet(s) \subseteq ToSet(Append(s, t)) /\ t \in ToSet(Append(s, t))
<1>1. Len(Append(s, t)) = Len(s) + 1 /\ Append(s, t)[Len(s) + 1] = t
  OBVIOUS
<1>2. \A i \in DOMAIN s : i \in DOMAIN Append(s, t) /\ Append(s, t)[i] = s[i]
  OBVIOUS
<1> QED BY <1>1, <1>2 DEF ToSet

\* The list of threads, without its last one.
LEMMA ThreadTaken ==
  ASSUME NEW s \in Seq(Thread), Len(s) > 1
  PROVE  /\ Last(s) \in Thread /\ Front(s) \in Seq(Thread) /\ Len(Front(s)) >= 1
         /\ ToSet(s) \subseteq ToSet(Front(s)) \cup {Last(s)}
<1>1. Len(Front(s)) = Len(s) - 1 /\ Front(s) \in Seq(Thread)
  BY DEF Front
<1>2. \A i \in DOMAIN s : i = Len(s) \/ (i \in DOMAIN Front(s) /\ Front(s)[i] = s[i])
  BY DEF Front
<1> QED BY <1>1, <1>2 DEF ToSet, Last

------------------------------------------------------------------------------
(* The inductive invariant *)

\* Nothing runs at first.
LEMMA InitInv == Init => IInv
<1> SUFFICES ASSUME Init PROVE IInv
  OBVIOUS
<1>1. PICK t \in Thread : threads = <<t>> /\ pc = [u \in Thread |-> IF u = t THEN "idle" ELSE None]
  BY DEF Init
<1>2. threads \in Seq(Thread) /\ Len(threads) >= 1
  BY <1>1
<1>3. pc \in [Thread -> WorkerSteps \cup {"idle", None}] /\ \A u \in Thread : ~isRunning(u)
  BY <1>1 DEF isRunning, WorkerSteps, None
<1>4. TypeOK
  <2>1. queue \in Seq(File) /\ loaded \in SUBSET File /\ quit \in SUBSET Thread
    BY EmptyQueue DEF Init
  <2>2. btRun \in BOOLEAN /\ interrupted \in BOOLEAN /\ label \in Nat \cup {NoLabel} /\ gui \in GuiSteps
    BY Zenon DEF Init, GuiSteps
  <2>4. finished \in Nat /\ maximum \in Nat /\ clicks \in 0 .. MaxClicks
    BY ClicksAssumption DEF Init, DefaultMaximum
  <2>3. file \in [Thread -> File \cup {None}] /\ taken \in [File -> 0 .. 1]
    BY DEF Init
  <2> QED BY <1>2, <1>3, <2>1, <2>2, <2>3, <2>4 DEF TypeOK
<1>5. QueueOK
  BY EmptyQueue DEF Init, QueueOK, DefaultMaximum
<1>6. QuitOK /\ RunOK /\ NoReloadDuringTest /\ NoThreadOutlivesQueue
  BY <1>3 DEF Init, QuitOK, RunOK, Fresh, NoReloadDuringTest, NoThreadOutlivesQueue
<1>7. FileTaken
  BY <1>3 DEF FileTaken, isRunning, WorkerSteps
<1> QED BY <1>4, <1>5, <1>6, <1>7 DEF IInv

\* A step of a worker thread.
LEMMA WorkerInv == ASSUME IInv, NEW t \in Thread, Worker(t) PROVE IInv'
<1> USE DEF IInv, WorkerSteps, None
<1>1. CASE MakeModels(t)
  <2> USE <1>1 DEF MakeModels, Goto, queueVars, windowVars
  <2>1. TypeOK'
    BY DEF TypeOK
  <2>2. QueueOK' /\ QuitOK' /\ FileTaken' /\ RunOK'
    BY DEF TypeOK, QueueOK, QuitOK, FileTaken, RunOK, Fresh, Filled, isRunning
  <2>3. NoReloadDuringTest' /\ NoThreadOutlivesQueue'
    BY DEF TypeOK, NoReloadDuringTest, Reading, NoThreadOutlivesQueue, isRunning, Listed
  <2> QED BY <2>1, <2>2, <2>3
<1>2. CASE Dequeue(t) /\ queue = <<>>
  <2> USE <1>2 DEF Dequeue, Goto, windowVars
  <2>1. TypeOK'
    BY DEF TypeOK
  <2>2. QueueOK' /\ QuitOK' /\ FileTaken' /\ RunOK'
    BY DEF TypeOK, QueueOK, QuitOK, FileTaken, RunOK, Fresh, Filled, isRunning
  <2>3. NoReloadDuringTest' /\ NoThreadOutlivesQueue'
    BY DEF TypeOK, NoReloadDuringTest, Reading, NoThreadOutlivesQueue, isRunning, Listed
  <2> QED BY <2>1, <2>2, <2>3
<1>3. CASE Dequeue(t) /\ queue # <<>>
  <2> DEFINE h == Head(queue)
  <2>1. /\ h \in File /\ h \in ToSet(queue) /\ Tail(queue) \in Seq(File)
        /\ IsInjective(Tail(queue)) /\ Len(Tail(queue)) <= Len(queue)
        /\ ToSet(Tail(queue)) = ToSet(queue) \ {h}
    BY <1>3, TailOfQueue DEF TypeOK, QueueOK
  <2>2. /\ pc[t] = "dequeue" /\ pc' = [pc EXCEPT ![t] = "lock"]
        /\ file' = [file EXCEPT ![t] = h]
        /\ queue' = Tail(queue)
        /\ taken' = [taken EXCEPT ![h] = @ + 1]
        /\ UNCHANGED <<loaded, finished, windowVars, clicks>>
    BY <1>3 DEF Dequeue, Goto
  <2>3. taken[h] = 0
    BY <2>1 DEF QueueOK
  <2> HIDE DEF h
  <2>4. TypeOK'
    BY <2>1, <2>2, <2>3, SMT DEF TypeOK, windowVars
  <2>5. Len(Tail(queue)) \in Nat /\ Len(queue) \in Nat
    BY <2>1 DEF TypeOK
  <2>6. QueueOK'
    BY <2>1, <2>2, <2>5, SMT DEF TypeOK, QueueOK, windowVars
  <2>7. QuitOK' /\ FileTaken'
    BY <2>1, <2>2 DEF TypeOK, QuitOK, FileTaken, windowVars
  <2>8. ~Fresh
    BY <2>2 DEF Fresh, isRunning
  <2>9. Filled => Filled'
    BY <2>1, <2>2, <1>3, SMT DEF Filled, TypeOK, windowVars
  <2>10. RunOK'
    BY <2>2, <2>8, <2>9 DEF RunOK, windowVars
  <2>11. NoReloadDuringTest' /\ NoThreadOutlivesQueue'
    BY <2>2 DEF TypeOK, NoReloadDuringTest, Reading, NoThreadOutlivesQueue, isRunning, Listed, windowVars
  <2> QED BY <2>4, <2>6, <2>7, <2>10, <2>11
<1>4. CASE ReadLock(t)
  <2> USE <1>4 DEF ReadLock, Goto, queueVars, windowVars
  <2>1. TypeOK'
    BY DEF TypeOK
  <2>2. QueueOK' /\ QuitOK' /\ FileTaken' /\ RunOK'
    BY DEF TypeOK, QueueOK, QuitOK, FileTaken, RunOK, Fresh, Filled, isRunning
  <2>3. NoReloadDuringTest'
    BY DEF TypeOK, NoReloadDuringTest, Reading, Writing
  <2>4. NoThreadOutlivesQueue'
    BY DEF TypeOK, NoThreadOutlivesQueue, isRunning, Listed
  <2> QED BY <2>1, <2>2, <2>3, <2>4
<1>5. CASE Test(t)
  <2> USE <1>5 DEF Test, Goto, windowVars
  <2>1. TypeOK'
    BY DEF TypeOK, FileTaken
  <2>2. QueueOK' /\ QuitOK' /\ FileTaken' /\ RunOK'
    BY DEF TypeOK, QueueOK, QuitOK, FileTaken, RunOK, Fresh, Filled, isRunning
  <2>3. NoReloadDuringTest' /\ NoThreadOutlivesQueue'
    BY DEF TypeOK, NoReloadDuringTest, Reading, NoThreadOutlivesQueue, isRunning, Listed
  <2> QED BY <2>1, <2>2, <2>3
<1>6. CASE CheckQuit(t)
  <2> USE <1>6 DEF CheckQuit, Goto, queueVars, windowVars
  <2>1. TypeOK'
    BY DEF TypeOK
  <2>2. QueueOK' /\ QuitOK' /\ FileTaken' /\ RunOK'
    BY DEF TypeOK, QueueOK, QuitOK, FileTaken, RunOK, Fresh, Filled, isRunning
  <2>3. NoReloadDuringTest' /\ NoThreadOutlivesQueue'
    BY DEF TypeOK, NoReloadDuringTest, Reading, NoThreadOutlivesQueue, isRunning, Listed
  <2> QED BY <2>1, <2>2, <2>3
<1>7. CASE Finish(t)
  <2> USE <1>7 DEF Finish, Goto, queueVars, windowVars
  <2>1. TypeOK'
    BY DEF TypeOK
  <2>2. QueueOK' /\ QuitOK' /\ FileTaken' /\ RunOK'
    BY DEF TypeOK, QueueOK, QuitOK, FileTaken, RunOK, Fresh, Filled, isRunning
  <2>3. NoReloadDuringTest' /\ NoThreadOutlivesQueue'
    BY DEF TypeOK, NoReloadDuringTest, Reading, NoThreadOutlivesQueue, isRunning, Listed
  <2> QED BY <2>1, <2>2, <2>3
<1> QED BY <1>1, <1>2, <1>3, <1>4, <1>5, <1>6, <1>7 DEF Worker

\* A step of the GUI thread inside a handler, or a `finished` event.
LEMMA GuiInv == ASSUME IInv, Gui PROVE IInv'
<1> USE DEF IInv
<1>1. CASE RunClear
  <2> USE <1>1 DEF RunClear, workerVars
  <2>1. TypeOK'
    BY EmptyQueue DEF TypeOK, GuiSteps
  <2>2. QueueOK'
    BY EmptyQueue DEF TypeOK, QueueOK
  <2>3. QuitOK' /\ FileTaken' /\ RunOK'
    BY DEF QuitOK, FileTaken, RunOK
  <2>4. NoReloadDuringTest' /\ NoThreadOutlivesQueue'
    BY DEF NoReloadDuringTest, NoThreadOutlivesQueue, isRunning, Listed
  <2> QED BY <2>1, <2>2, <2>3, <2>4
<1>2. CASE RunStart
  <2> DEFINE q == SetToSeq(File)
  <2>1. q \in Seq(File) /\ IsInjective(q) /\ ToSet(q) = File /\ Len(q) = Cardinality(File)
    BY AllFiles
  <2>2. /\ gui = "wait" /\ gui' = "idle"
        /\ queue' = q /\ maximum' = Len(q)
        /\ label' = NoLabel
        /\ taken' = [f \in File |-> 0]
        /\ loaded' = {}
        /\ interrupted' = FALSE
        /\ pc' = [t \in Thread |-> IF t \in Listed THEN "make" ELSE pc[t]]
        /\ UNCHANGED <<file, finished, threads, quit, btRun, clicks>>
    BY <1>2 DEF RunStart
  <2>3. Len(q) \in Nat
    BY <2>1
  <2> HIDE DEF q
  <2>4. TypeOK'
    <3>1. btRun' \in BOOLEAN /\ interrupted' \in BOOLEAN
      BY <2>2, Zenon DEF TypeOK
    <3>2. pc' \in [Thread -> WorkerSteps \cup {"idle", None}] /\ gui' \in GuiSteps
      BY <2>2 DEF TypeOK, WorkerSteps, GuiSteps
    <3>3. taken' \in [File -> 0 .. 1] /\ loaded' \in SUBSET File
      BY <2>2
    <3> QED BY <2>1, <2>2, <2>3, <3>1, <3>2, <3>3 DEF TypeOK
  <2>5. QueueOK'
    BY <2>1, <2>2, <2>3 DEF QueueOK
  <2>6. QuitOK' /\ FileTaken'
    BY <2>2 DEF TypeOK, QuitOK, FileTaken
  <2>7. Filled'
    BY <2>1, <2>2 DEF Filled
  <2>8. RunOK'
    BY <2>2, <2>7 DEF RunOK
  <2>9. NoReloadDuringTest' /\ NoThreadOutlivesQueue'
    BY <2>2 DEF TypeOK, NoReloadDuringTest, NoThreadOutlivesQueue, isRunning, Listed
  <2> QED BY <2>4, <2>5, <2>6, <2>8, <2>9
<1>3. CASE ReloadStep
  <2> USE <1>3 DEF ReloadStep, queueVars, workerVars
  <2>1. TypeOK'
    BY DEF TypeOK, GuiSteps
  <2>2. QueueOK' /\ QuitOK' /\ FileTaken' /\ RunOK'
    BY DEF QueueOK, QuitOK, FileTaken, RunOK, Fresh, Filled, isRunning
  <2>3. NoReloadDuringTest'
    BY DEF NoReloadDuringTest, Reading
  <2>4. NoThreadOutlivesQueue'
    BY DEF NoThreadOutlivesQueue, isRunning, Listed
  <2> QED BY <2>1, <2>2, <2>3, <2>4
<1>4. CASE ThreadFinished
  <2> USE <1>4 DEF ThreadFinished, queueVars
  <2>1. TypeOK'
    <3>1. btRun' \in BOOLEAN /\ label' \in Nat \cup {NoLabel}
      BY Zenon DEF TypeOK
    <3> QED BY <3>1 DEF TypeOK
  <2>2. QueueOK' /\ QuitOK' /\ FileTaken'
    BY DEF QueueOK, QuitOK, FileTaken
  <2>3. ~Fresh
    BY DEF Fresh
  <2>4. Filled => Filled'
    BY DEF Filled
  <2>5. RunOK'
    BY <2>3, <2>4 DEF RunOK
  <2>6. NoReloadDuringTest' /\ NoThreadOutlivesQueue'
    BY DEF NoReloadDuringTest, Reading, NoThreadOutlivesQueue, isRunning, Listed
  <2> QED BY <2>1, <2>2, <2>5, <2>6
<1>5. ASSUME NEW t \in Thread, ThreadDeleted(t) PROVE IInv'
  <2> USE <1>5 DEF ThreadDeleted, Goto, queueVars, None
  <2>1. TypeOK'
    BY DEF TypeOK, GuiSteps
  <2>2. QueueOK' /\ QuitOK' /\ FileTaken' /\ RunOK'
    BY DEF TypeOK, QueueOK, QuitOK, FileTaken, RunOK, Fresh, Filled, isRunning, WorkerSteps
  <2>3. NoReloadDuringTest'
    BY DEF TypeOK, NoReloadDuringTest
  <2>4. NoThreadOutlivesQueue'
    BY DEF TypeOK, NoThreadOutlivesQueue, isRunning, Listed, WorkerSteps
  <2> QED BY <2>1, <2>2, <2>3, <2>4
<1> QED BY <1>1, <1>2, <1>3, <1>4, <1>5 DEF Gui

\* A click.
LEMMA UserInv == ASSUME IInv, User PROVE IInv'
<1> USE DEF IInv
<1>1. CASE ClickRun
  <2> USE <1>1 DEF ClickRun, Click, queueVars, workerVars
  <2>1. TypeOK'
    <3>1. Len(queue) \in Nat /\ Len(queue) <= maximum
      BY DEF TypeOK, QueueOK
    <3>2. btRun' \in BOOLEAN /\ interrupted' \in BOOLEAN
      BY Zenon DEF TypeOK
    <3> QED BY <3>1, <3>2, ClicksAssumption DEF TypeOK, GuiSteps
  <2>2. QueueOK' /\ QuitOK' /\ FileTaken' /\ RunOK'
    BY DEF QueueOK, QuitOK, FileTaken, RunOK
  <2>3. NoReloadDuringTest' /\ NoThreadOutlivesQueue'
    BY DEF NoReloadDuringTest, NoThreadOutlivesQueue, isRunning, Listed
  <2> QED BY <2>1, <2>2, <2>3
<1>2. CASE RemoveThread
  <2> DEFINE t == Last(threads)
  <2>1. /\ t \in Thread /\ Front(threads) \in Seq(Thread) /\ Len(Front(threads)) >= 1
        /\ ToSet(threads) \subseteq ToSet(Front(threads)) \cup {t}
    BY <1>2, ThreadTaken DEF TypeOK, RemoveThread
  <2>2. /\ gui = "idle" /\ clicks < MaxClicks /\ clicks' = clicks + 1
        /\ threads' = Front(threads)
        /\ UNCHANGED <<queueVars, file, finished, btRun, maximum, label, interrupted>>
    BY <1>2 DEF RemoveThread, Click
  <2>3. \/ isRunning(t) /\ quit' = quit \cup {t} /\ gui' = "delete" /\ UNCHANGED pc
        \/ ~isRunning(t) /\ pc' = [pc EXCEPT ![t] = None] /\ UNCHANGED <<quit, gui>>
    BY <1>2 DEF RemoveThread
  <2> HIDE DEF t
  <2> USE <2>1, <2>2, <2>3 DEF queueVars, None, WorkerSteps
  <2>4. TypeOK'
    BY ClicksAssumption DEF TypeOK, GuiSteps
  <2>5. QueueOK'
    BY DEF QueueOK
  <2>6. QuitOK' /\ FileTaken'
    BY DEF TypeOK, QuitOK, FileTaken
  <2>7. RunOK'
    BY DEF TypeOK, RunOK, Fresh, Filled, isRunning
  <2>8. NoReloadDuringTest'
    BY DEF TypeOK, NoReloadDuringTest
  <2>9. NoThreadOutlivesQueue'
    BY DEF TypeOK, QuitOK, NoThreadOutlivesQueue, isRunning, Listed
  <2> QED BY <2>4, <2>5, <2>6, <2>7, <2>8, <2>9
<1>3. CASE ClickReload
  <2> USE <1>3 DEF ClickReload, Click, queueVars, workerVars
  <2>1. TypeOK'
    BY ClicksAssumption DEF TypeOK, GuiSteps
  <2>2. QueueOK' /\ QuitOK' /\ FileTaken' /\ RunOK'
    BY DEF QueueOK, QuitOK, FileTaken, RunOK, Fresh, Filled, isRunning
  <2>3. NoReloadDuringTest' /\ NoThreadOutlivesQueue'
    BY DEF NoReloadDuringTest, NoThreadOutlivesQueue, isRunning, Listed
  <2> QED BY <2>1, <2>2, <2>3
<1>4. CASE ClickClose
  <2> USE <1>4 DEF ClickClose, Click, workerVars
  <2>1. TypeOK'
    BY EmptyQueue, ClicksAssumption DEF TypeOK, GuiSteps
  <2>2. QueueOK'
    BY EmptyQueue DEF TypeOK, QueueOK
  <2>3. QuitOK' /\ FileTaken' /\ RunOK'
    BY DEF QuitOK, FileTaken, RunOK
  <2>4. NoReloadDuringTest' /\ NoThreadOutlivesQueue'
    BY DEF QuitOK, NoReloadDuringTest, NoThreadOutlivesQueue, isRunning, Listed
  <2> QED BY <2>1, <2>2, <2>3, <2>4
<1>5. ASSUME NEW t \in Thread, AddThread(t) PROVE IInv'
  <2>1. /\ threads' \in Seq(Thread) /\ Len(threads') >= 1
        /\ ToSet(threads) \subseteq ToSet(threads') /\ t \in ToSet(threads')
    BY <1>5, ThreadAppended DEF TypeOK, AddThread
  <2>2. /\ gui = "idle" /\ clicks < MaxClicks /\ clicks' = clicks + 1
        /\ pc[t] = None
        /\ pc' = [pc EXCEPT ![t] = IF btRun THEN "make" ELSE "idle"]
        /\ UNCHANGED <<queueVars, file, finished, quit, gui, btRun, maximum, label, interrupted>>
    BY <1>5 DEF AddThread, Click
  <2> USE <2>1, <2>2 DEF queueVars, None, WorkerSteps
  <2>3. TypeOK'
    BY ClicksAssumption DEF TypeOK
  <2>4. QueueOK'
    BY DEF QueueOK
  <2>5. QuitOK' /\ FileTaken'
    BY DEF TypeOK, QuitOK, FileTaken
  <2>6. RunOK'
    BY DEF TypeOK, RunOK, Fresh, Filled, isRunning
  <2>7. NoReloadDuringTest'
    BY DEF TypeOK, NoReloadDuringTest
  <2>8. NoThreadOutlivesQueue'
    BY DEF TypeOK, NoThreadOutlivesQueue, isRunning, Listed
  <2> QED BY <2>3, <2>4, <2>5, <2>6, <2>7, <2>8
<1> QED BY <1>1, <1>2, <1>3, <1>4, <1>5 DEF User

\* Every step preserves the invariant.
LEMMA NextInv == ASSUME IInv, [Next]_vars PROVE IInv'
<1>1. CASE UNCHANGED vars
  BY <1>1 DEF IInv, TypeOK, QueueOK, QuitOK, FileTaken, RunOK, Fresh, Filled, NoReloadDuringTest,
    NoThreadOutlivesQueue, Reading, isRunning, Listed, vars, queueVars, workerVars, windowVars
<1> QED BY <1>1, WorkerInv, GuiInv, UserInv DEF Next

\* The invariant says what it is there for.
LEMMA InvComplete == IInv => UninterruptedRunIsComplete
<1> SUFFICES ASSUME IInv, label # NoLabel, ~interrupted
             PROVE  (\A f \in File : taken[f] = 1) /\ label = Cardinality(File)
  BY DEF UninterruptedRunIsComplete
<1>1. Filled
  BY DEF IInv, RunOK, Fresh
<1>2. ToSet(queue) = {} /\ label = Cardinality(File)
  BY <1>1, EmptyQueue DEF Filled
<1>3. \A f \in File : taken[f] \in 0 .. 1 /\ taken[f] # 0
  BY <1>1, <1>2 DEF Filled, IInv, TypeOK
<1> QED BY <1>2, <1>3

------------------------------------------------------------------------------

\* The checker's state is well typed; in particular no file is taken twice and the
\* progress bar's maximum is never negative.
THEOREM CheckerTyped == Spec => []TypeOK
<1>1. IInv => TypeOK
  BY DEF IInv
<1> QED BY <1>1, InitInv, NextInv, PTL DEF Spec

\* A run nobody interrupts tests every file exactly once, however many threads are added
\* to it and removed from it.
THEOREM RunsComplete == Spec => []UninterruptedRunIsComplete
BY InvComplete, InitInv, NextInv, PTL DEF Spec

\* The XML description is never replaced under a file that is being tested.
THEOREM NoReload == Spec => []NoReloadDuringTest
<1>1. IInv => NoReloadDuringTest
  BY DEF IInv
<1> QED BY <1>1, InitInv, NextInv, PTL DEF Spec

\* No thread outlives the queue it takes from.
THEOREM QueueOutlivesThreads == Spec => []NoThreadOutlivesQueue
<1>1. IInv => NoThreadOutlivesQueue
  BY DEF IInv
<1> QED BY <1>1, InitInv, NextInv, PTL DEF Spec

==============================================================================
