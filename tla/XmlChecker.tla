----------------------------- MODULE XmlChecker -----------------------------
(***************************************************************************)
(* The XML checker: a window (TestShredder, in the GUI thread) fills a     *)
(* queue with files, worker threads (TestThread) take them out and load    *)
(* each one into a model of their own, under the read lock of the XML      *)
(* description.  Meanwhile the user stops and restarts the run, changes    *)
(* the number of threads, reloads the XML and closes the window.           *)
(*                                                                         *)
(* Signals from a worker are posted to the GUI thread's event loop.  Only  *)
(* `finished` does more than display something, so it is the only event.   *)
(***************************************************************************)
EXTENDS Integers, Sequences, FiniteSets, SequencesExt

CONSTANTS
  Thread,      \* the TestThread objects that can exist
  File,        \* the files of the directory
  KfmFile,     \* those that end in .kfm
  MaxClicks    \* bound: how often the user does something

ASSUME FilesAssumption == IsFiniteSet(File) /\ KfmFile \subseteq File
ASSUME ClicksAssumption == MaxClicks \in Nat
ASSUME ThreadsAssumption == Thread # {}

VARIABLES
  queue,       \* FileQueue::queue
  threads,     \* TestShredder::threads
  pc,          \* where TestThread::run is; "idle" when not running, "none": no such object
  file,        \* filepath: the file a thread works on
  quit,        \* the threads whose quit mutex their destructor holds
  gui,         \* where the GUI thread is; "idle" in its event loop
  finished,    \* how many `finished` signals are posted and not yet handled
  btRun,       \* the run button is down
  maximum,     \* progress->maximum()
  label,       \* the number of files the label reports; NoLabel when it is hidden
  taken,       \* how often each file has been taken since the queue was filled
  loaded,      \* the files that were loaded since the queue was filled
  interrupted, \* the run button or the close button was used since the queue was filled
  clicks

queueVars == <<queue, taken, loaded>>
workerVars == <<pc, file, finished>>
windowVars == <<threads, quit, gui, btRun, maximum, label, interrupted>>
vars == <<queueVars, workerVars, windowVars, clicks>>

NoLabel == -1
DefaultMaximum == 100   \* of a QProgressBar
None == "none"

WorkerSteps == {"make", "dequeue", "lock", "test", "check", "finish"}
GuiSteps == {"idle", "clear", "wait", "delete", "nifWait", "nif", "kfmWait", "kfm", "closed"}

isRunning(t) == pc[t] \in WorkerSteps
Listed == ToSet(threads)

\* XMLlock: one lock for nif.xml and one for kfm.xml, shared by readers.
Reading(files) == \E t \in Thread : pc[t] = "test" /\ file[t] \in files

\* A waiting or running writer keeps new readers out.
Writing(files) ==
  \/ gui \in {"nifWait", "nif"} /\ files \cap KfmFile = {}
  \/ gui \in {"kfmWait", "kfm"} /\ files \subseteq KfmFile

Init ==
  /\ queue = <<>>
  /\ \E t \in Thread : threads = <<t>> /\ pc = [u \in Thread |-> IF u = t THEN "idle" ELSE None]
  /\ file = [t \in Thread |-> None]
  /\ quit = {}
  /\ gui = "idle"
  /\ finished = 0
  /\ btRun = FALSE
  /\ maximum = DefaultMaximum
  /\ label = NoLabel
  /\ taken = [f \in File |-> 0]
  /\ loaded = {}
  /\ interrupted = FALSE
  /\ clicks = 0

------------------------------------------------------------------------------
(* TestThread::run *)

Goto(t, from, to) == pc[t] = from /\ pc' = [pc EXCEPT ![t] = to]

\* NifModel nif; KfmModel kfm: their constructors read the XML description.
MakeModels(t) ==
  /\ Goto(t, "make", "dequeue")
  /\ UNCHANGED <<queueVars, file, finished, windowVars, clicks>>

\* filepath = queue->dequeue()
Dequeue(t) ==
  /\ IF queue = <<>>
     THEN Goto(t, "dequeue", "finish") /\ UNCHANGED <<queue, file, taken>>
     ELSE /\ Goto(t, "dequeue", "lock")
          /\ file' = [file EXCEPT ![t] = Head(queue)]
          /\ queue' = Tail(queue)
          /\ taken' = [taken EXCEPT ![Head(queue)] = @ + 1]
  /\ UNCHANGED <<loaded, finished, windowVars, clicks>>

\* Mutant: no lock is taken.
ReadLockNone(t) ==
  /\ Goto(t, "lock", "test")
  /\ UNCHANGED <<queueVars, file, finished, windowVars, clicks>>

\* QReadLocker lck( lock )
ReadLock(t) ==
  /\ ~Writing({file[t]})
  /\ Goto(t, "lock", "test")
  /\ UNCHANGED <<queueVars, file, finished, windowVars, clicks>>

\* A NIF is loaded unless earlyRejection() turns it down; a KFM is not.
Test(t) ==
  /\ Goto(t, "test", "check")
  /\ \/ file[t] \notin KfmFile /\ loaded' = loaded \cup {file[t]}
     \/ UNCHANGED loaded
  /\ UNCHANGED <<queue, taken, file, finished, windowVars, clicks>>

\* Mutant: quit is looked at after the next file has been taken, which is then lost.
CheckQuitLate(t) ==
  /\ Goto(t, "check", IF t \in quit THEN "finish" ELSE "dequeue")
  /\ queue' = IF t \in quit /\ queue # <<>> THEN Tail(queue) ELSE queue
  /\ UNCHANGED <<taken, loaded, file, finished, windowVars, clicks>>

\* Mutant: quit.lock() instead of quit.tryLock().
CheckQuitBlocks(t) ==
  /\ t \notin quit
  /\ Goto(t, "check", "dequeue")
  /\ UNCHANGED <<queueVars, file, finished, windowVars, clicks>>

\* quit.tryLock()
CheckQuit(t) ==
  /\ Goto(t, "check", IF t \in quit THEN "finish" ELSE "dequeue")
  /\ UNCHANGED <<queueVars, file, finished, windowVars, clicks>>

\* Mutant: a thread that is being deleted is disconnected from the window.
FinishUnheard(t) ==
  /\ Goto(t, "finish", "idle")
  /\ finished' = IF t \in quit THEN finished ELSE finished + 1
  /\ file' = [file EXCEPT ![t] = None]
  /\ UNCHANGED <<queueVars, windowVars, clicks>>

\* The thread ends; QThread posts finished().
Finish(t) ==
  /\ Goto(t, "finish", "idle")
  /\ finished' = finished + 1
  /\ file' = [file EXCEPT ![t] = None]
  /\ UNCHANGED <<queueVars, windowVars, clicks>>

Worker(t) ==
  MakeModels(t) \/ Dequeue(t) \/ ReadLock(t) \/ Test(t) \/ CheckQuit(t) \/ Finish(t)

------------------------------------------------------------------------------
(* TestShredder.  The GUI thread blocks inside a handler where the handler *)
(* waits; `idle` means it is back in the event loop.                       *)

\* What the user does to the window.
Click == gui = "idle" /\ clicks < MaxClicks /\ clicks' = clicks + 1

\* run(), first line: what is still queued is taken off the progress bar.
ClickRun ==
  /\ Click
  /\ btRun' = ~btRun
  /\ maximum' = maximum - Len(queue)
  /\ interrupted' = TRUE
  /\ gui' = "clear"
  /\ UNCHANGED <<queueVars, workerVars, threads, quit, label>>

\* run(): queue.clear(), and the button is up or the threads are waited for.
RunClear ==
  /\ gui = "clear"
  /\ queue' = <<>>
  /\ gui' = IF btRun THEN "wait" ELSE "idle"
  /\ UNCHANGED <<taken, loaded, workerVars, threads, quit, btRun, maximum, label, interrupted, clicks>>

\* run(): no thread runs any more; the queue is filled and all threads started.
RunStart ==
  /\ gui = "wait"
  /\ \A t \in Listed : pc[t] = "idle"
  /\ queue' = SetToSeq(File)
  /\ maximum' = Len(queue')
  /\ label' = NoLabel
  /\ taken' = [f \in File |-> 0]
  /\ loaded' = {}
  /\ interrupted' = FALSE
  /\ pc' = [t \in Thread |-> IF t \in Listed THEN "make" ELSE pc[t]]
  /\ gui' = "idle"
  /\ UNCHANGED <<file, finished, threads, quit, btRun, clicks>>

\* renumberThreads( n ), one thread more: started if the button is down.
AddThread(t) ==
  /\ Click
  /\ pc[t] = None
  /\ threads' = Append(threads, t)
  /\ pc' = [pc EXCEPT ![t] = IF btRun THEN "make" ELSE "idle"]
  /\ UNCHANGED <<queueVars, file, finished, quit, gui, btRun, maximum, label, interrupted>>

\* renumberThreads( n ), one thread less: the destructor of the last one locks quit and
\* waits if the thread is running.
RemoveThread ==
  LET t == Last(threads)
  IN /\ Click
     /\ Len(threads) > 1
     /\ threads' = Front(threads)
     /\ IF isRunning(t)
        THEN quit' = quit \cup {t} /\ gui' = "delete" /\ UNCHANGED pc
        ELSE pc' = [pc EXCEPT ![t] = None] /\ UNCHANGED <<quit, gui>>
     /\ UNCHANGED <<queueVars, file, finished, btRun, maximum, label, interrupted>>

\* ~TestThread: wait() returns.
ThreadDeleted(t) ==
  /\ gui = "delete" /\ t \in quit
  /\ Goto(t, "idle", None)
  /\ quit' = quit \ {t}
  /\ gui' = "idle"
  /\ UNCHANGED <<queueVars, file, finished, threads, btRun, maximum, label, interrupted, clicks>>

\* xml(): NifModel::loadXML() and then KfmModel::loadXML(), each under its write lock.
ClickReload ==
  /\ Click
  /\ gui' = "nifWait"
  /\ UNCHANGED <<queueVars, workerVars, threads, quit, btRun, maximum, label, interrupted>>

ReloadStep ==
  /\ \/ gui = "nifWait" /\ ~Reading(File \ KfmFile) /\ gui' = "nif"
     \/ gui = "nif" /\ gui' = "kfmWait"
     \/ gui = "kfmWait" /\ ~Reading(KfmFile) /\ gui' = "kfm"
     \/ gui = "kfm" /\ gui' = "idle"
  /\ UNCHANGED <<queueVars, workerVars, threads, quit, btRun, maximum, label, interrupted, clicks>>

\* Mutant: the window closes whatever the threads do.
ClickCloseAtOnce ==
  /\ Click
  /\ queue' = <<>>
  /\ interrupted' = TRUE
  /\ gui' = "closed"
  /\ UNCHANGED <<taken, loaded, workerVars, threads, quit, btRun, maximum, label>>

\* closeEvent: refused while a thread runs, but the queue is cleared.  Else the window
\* goes, and the queue with it.
ClickClose ==
  /\ Click
  /\ queue' = <<>>
  /\ interrupted' = TRUE
  /\ gui' = IF \E t \in Listed : isRunning(t) THEN "idle" ELSE "closed"
  /\ UNCHANGED <<taken, loaded, workerVars, threads, quit, btRun, maximum, label>>

\* threadFinished: the run is over when nothing is queued and nobody runs.
ThreadFinished ==
  /\ gui = "idle" /\ finished > 0
  /\ finished' = finished - 1
  /\ IF queue = <<>> /\ \A t \in Listed : ~isRunning(t)
     THEN btRun' = FALSE /\ label' = maximum
     ELSE UNCHANGED <<btRun, label>>
  /\ UNCHANGED <<queueVars, pc, file, threads, quit, gui, maximum, interrupted, clicks>>

Gui == RunClear \/ RunStart \/ ReloadStep \/ ThreadFinished \/ \E t \in Thread : ThreadDeleted(t)

User == ClickRun \/ RemoveThread \/ ClickReload \/ ClickClose \/ \E t \in Thread : AddThread(t)

Next == Gui \/ User \/ \E t \in Thread : Worker(t)

\* The threads are scheduled, every file is done some time, and the event loop runs.
Fairness == WF_vars(Gui) /\ \A t \in Thread : WF_vars(Worker(t))

Spec == Init /\ [][Next]_vars /\ Fairness

------------------------------------------------------------------------------
(* Properties *)

TypeOK ==
  /\ queue \in Seq(File)
  /\ threads \in Seq(Thread) /\ Len(threads) >= 1
  /\ pc \in [Thread -> WorkerSteps \cup {"idle", None}]
  /\ file \in [Thread -> File \cup {None}]
  /\ quit \in SUBSET Thread
  /\ gui \in GuiSteps
  /\ finished \in Nat
  /\ btRun \in BOOLEAN
  /\ maximum \in Nat
  /\ label \in Nat \cup {NoLabel}
  /\ taken \in [File -> 0 .. 1]
  /\ loaded \in SUBSET File
  /\ interrupted \in BOOLEAN
  /\ clicks \in 0 .. MaxClicks

\* A run that nobody interrupts tests every file exactly once, whatever threads come
\* and go meanwhile, and the label reports their number.
UninterruptedRunIsComplete ==
  label # NoLabel /\ ~interrupted =>
    /\ \A f \in File : taken[f] = 1
    /\ label = Cardinality(File)

\* The description is never replaced under a file that is being tested.
NoReloadDuringTest ==
  /\ gui = "nif" => ~Reading(File \ KfmFile)
  /\ gui = "kfm" => ~Reading(KfmFile)

\* The window destroys the queue: no thread may be left that would take from it, nor a
\* thread without its list entry while the window is alive.
NoThreadOutlivesQueue ==
  \A t \in Thread : isRunning(t) => gui # "closed" /\ (t \in Listed \/ t \in quit)

\* The run button comes up again by itself.
RunEnds == btRun ~> ~btRun \/ gui = "closed"

\* The GUI thread never hangs in a handler: waiting for a thread, or for the XML lock.
GuiReturns == gui # "idle" ~> gui \in {"idle", "closed"}
==============================================================================
