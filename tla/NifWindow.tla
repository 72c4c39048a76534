------------------------------ MODULE NifWindow ------------------------------
(***************************************************************************)
(* A NifSkope window and its document: opening, reloading, saving and      *)
(* closing.                                                                *)
(*                                                                         *)
(* All of it runs in one thread, but its handlers nest.  load() is posted  *)
(* to the event loop; loading and saving a NIF process events for every    *)
(* block (sigProgress); and the dialogs run an event loop of their own.    *)
(* `stack` is the stack of handlers that are waiting inside one of these.  *)
(*                                                                         *)
(* The content of a file or of a model is a revision number; an edit makes *)
(* a new one.                                                              *)
(***************************************************************************)
EXTENDS Integers, Sequences, SequencesExt

CONSTANTS
  Nif,         \* the files with an absolute path that are not .kfm
  Kfm,         \* the .kfm files
  Archived,    \* the files inside an archive, which have a relative path
  MaxClicks    \* bound: how often the user does something to the window

\* The name of the document when there is none.
NoFile == ""

ASSUME PathsAssumption ==
  /\ Nif \cap Kfm = {} /\ Nif \cap Archived = {} /\ Kfm \cap Archived = {}
  /\ NoFile \notin Nif \cup Kfm \cup Archived
ASSUME ClicksAssumption == MaxClicks \in Nat

VARIABLES
  disk,        \* what each file holds
  nif, kfm,    \* what the two models hold
  current,     \* currentFile
  modified,    \* isWindowModified()
  enabled,     \* isEnabled()
  shown,       \* the views show the models, not their empty stand-ins
  cursor,      \* how many wait cursors are set
  posted,      \* how many load() are in the event queue
  stack,       \* the handlers that are running, the innermost last
  closed,
  rev,         \* the last revision made
  mishap,      \* a save failed, or a load began inside a load or a save
  clicks

viewVars == <<modified, enabled, shown, cursor>>
vars == <<disk, nif, kfm, current, viewVars, posted, stack, closed, rev, mishap, clicks>>

Path == Nif \cup Kfm \cup Archived
Unreadable == -1
Blank == 0

\* What a handler goes on to do when saveConfirm() returns TRUE.
Goal == [do : {"open"}, file : Nif \cup Kfm] \cup [do : {"archive"}, file : Archived] \cup [do : {"close"}]

Frame ==
  [op : {"load", "archive"}, file : Path \cup {NoFile}, mixed : BOOLEAN]
    \cup [op : {"save"}, file : Nif \cup Kfm, mixed : BOOLEAN]
    \cup [op : {"confirm"}, goal : Goal]
    \cup [op : {"proceed"}, goal : Goal, yes : BOOLEAN]
    \cup [op : {"choose"}]

Ops(ops) == {i \in DOMAIN stack : stack[i].op \in ops}
Loads == Ops({"load", "archive"})
Dialogs == Ops({"confirm", "choose"})
Top == Last(stack)

\* The innermost handler is waiting in op, if it is waiting at all.
In(ops) == ~closed /\ stack # <<>> /\ Top.op \in ops

\* Events are delivered unless a handler is just going on.  Loading and saving a NIF
\* delivers them; a KFM, or a path that cannot be opened, does not.
EventLoop == ~closed /\ ~In({"proceed"}) /\ (In({"load", "save"}) => Top.file \in Nif)

\* Every load and save that is under way goes on with a model that is no longer the one
\* it began with.
Mixed(s) ==
  [i \in DOMAIN s |-> IF s[i].op \in {"load", "archive", "save"} THEN [s[i] EXCEPT !.mixed = TRUE] ELSE s[i]]

Init ==
  /\ disk \in [Path -> {1, Unreadable}]
  /\ nif = Blank /\ kfm = Blank
  /\ \/ current = NoFile /\ posted = 0 /\ cursor = 0
     \/ current \in Nif \cup Kfm /\ posted = 1 /\ cursor = 1
  /\ modified = FALSE /\ enabled = TRUE /\ shown = TRUE
  /\ stack = <<>>
  /\ closed = FALSE
  /\ rev = 1
  /\ mishap = FALSE
  /\ clicks = 0

------------------------------------------------------------------------------
(* Loading *)

\* onLoadBegin, and the model is cleared.
BeginLoading(op, f, s) ==
  /\ stack' = Append(Mixed(s), [op |-> op, file |-> f, mixed |-> FALSE])
  /\ mishap' = (mishap \/ Loads # {} \/ Ops({"save"}) # {})
  /\ nif' = IF f \in Kfm THEN nif ELSE Blank
  /\ shown' = ~shown
  /\ enabled' = FALSE
  /\ UNCHANGED <<disk, kfm, modified, cursor, closed, rev>>

\* Mutant: load() gives up when something else is going on.
LoadIfIdle ==
  /\ EventLoop /\ posted > 0 /\ stack = <<>>
  /\ posted' = posted - 1
  /\ BeginLoading("load", current, stack)
  /\ UNCHANGED <<current, clicks>>

\* load() comes out of the event queue.
Load ==
  /\ EventLoop /\ posted > 0
  /\ posted' = posted - 1
  /\ BeginLoading("load", current, stack)
  /\ UNCHANGED <<current, clicks>>

\* onLoadComplete, both ways.
LoadComplete ==
  /\ shown' = ~shown
  /\ enabled' = TRUE
  /\ modified' = FALSE
  /\ cursor' = IF cursor > 0 THEN cursor - 1 ELSE 0
  /\ stack' = Front(stack)
  /\ UNCHANGED <<disk, posted, closed, mishap, clicks>>

\* load() knows nothing of archives.
Readable(fr) ==
  /\ fr.file \in IF fr.op = "load" THEN Nif \cup Kfm ELSE Archived
  /\ disk[fr.file] # Unreadable

\* What is posted is delivered before the first block is read.
Loaded ==
  /\ In({"load", "archive"}) /\ Readable(Top)
  /\ IF Top.file \in Kfm
     THEN kfm' = disk[Top.file] /\ UNCHANGED <<nif, rev>>
     ELSE /\ posted = 0
          /\ rev' = IF Top.mixed THEN rev + 1 ELSE rev
          /\ nif' = IF Top.mixed THEN rev' ELSE disk[Top.file]
          /\ UNCHANGED kfm
  /\ current' = IF Top.op = "archive" THEN Top.file ELSE current
  /\ LoadComplete

\* Mutant: the window keeps the name of the file that could not be read.
NotLoadedKeepsName ==
  /\ In({"load", "archive"}) /\ (Readable(Top) => Top.mixed)
  /\ nif' = Blank /\ kfm' = Blank
  /\ LoadComplete
  /\ UNCHANGED <<current, rev>>

\* Mutant: a load that fails does not emit completeLoading.
NotLoadedSilently ==
  /\ In({"load", "archive"}) /\ (Readable(Top) => Top.mixed)
  /\ stack' = Front(stack)
  /\ UNCHANGED <<disk, nif, kfm, current, viewVars, posted, closed, rev, mishap, clicks>>

\* The file cannot be read, or the model was exchanged while it was being filled.
NotLoaded ==
  /\ In({"load", "archive"}) /\ (Readable(Top) => Top.mixed)
  /\ nif' = Blank /\ kfm' = Blank
  /\ current' = NoFile
  /\ LoadComplete
  /\ UNCHANGED rev

------------------------------------------------------------------------------
(* Saving *)

\* save(): the spells that sanitize may edit the NIF, unseen because the window is
\* disabled.
Save(f, s) ==
  /\ current' = f
  /\ enabled' = FALSE
  /\ \E edits \in IF f \in Kfm THEN {0} ELSE {0, 1} :
       rev' = rev + edits /\ nif' = IF edits = 0 THEN nif ELSE rev'
  /\ stack' = Append(s, [op |-> "save", file |-> f, mixed |-> FALSE])
  /\ UNCHANGED <<disk, kfm, modified, shown, cursor, posted, closed, mishap>>

\* What the model gives to be written; a NIF may have been exchanged half way.
Written(fr) ==
  IF fr.file \in Kfm THEN {kfm} ELSE {nif} \cup IF fr.mixed THEN {Unreadable} ELSE {}

\* saveToFile and onSaveComplete: the file is emptied before it is written.
Saved ==
  /\ In({"save"})
  /\ Top.file \in Kfm \/ posted = 0
  /\ \E content \in Written(Top) : disk' = [disk EXCEPT ![Top.file] = content]
  /\ modified' = FALSE
  /\ enabled' = TRUE
  /\ stack' = Front(stack)
  /\ UNCHANGED <<nif, kfm, current, shown, cursor, posted, closed, rev, mishap, clicks>>

\* Mutant: the window is enabled again only if the file could be written.
NotSavedDisabled ==
  /\ In({"save"})
  /\ Top.file \in Kfm \/ posted = 0
  /\ disk' \in {disk, [disk EXCEPT ![Top.file] = Unreadable]}
  /\ mishap' = TRUE
  /\ stack' = Front(stack)
  /\ UNCHANGED <<nif, kfm, current, viewVars, posted, closed, rev, clicks>>

NotSaved ==
  /\ In({"save"})
  /\ Top.file \in Kfm \/ posted = 0
  /\ disk' \in {disk, [disk EXCEPT ![Top.file] = Unreadable]}
  /\ mishap' = TRUE
  /\ enabled' = TRUE
  /\ stack' = Front(stack)
  /\ UNCHANGED <<nif, kfm, current, modified, shown, cursor, posted, closed, rev, clicks>>

------------------------------------------------------------------------------
(* Dialogs, and what follows them *)

Show(frame, s) ==
  /\ stack' = Append(s, frame)
  /\ UNCHANGED <<disk, nif, kfm, current, viewVars, posted, closed, rev, mishap>>

\* saveConfirm(), the first thing these handlers do: it asks only if there is something
\* to save.
ConfirmThen(goal) ==
  Show(IF modified THEN [op |-> "confirm", goal |-> goal]
       ELSE [op |-> "proceed", goal |-> goal, yes |-> FALSE], stack)

\* The answer to saveConfirm().
Answer ==
  /\ In({"confirm"})
  /\ LET Proceed(yes) == Append(Front(stack), [op |-> "proceed", goal |-> Top.goal, yes |-> yes])
     IN \/ stack' = Append(Proceed(TRUE), [op |-> "choose"])
        \/ stack' = Proceed(FALSE)
        \/ stack' = Front(stack)
  /\ UNCHANGED <<disk, nif, kfm, current, viewVars, posted, closed, rev, mishap, clicks>>

\* saveAsDlg(): a file is chosen, or none.
Choose ==
  /\ In({"choose"})
  /\ \/ \E f \in Nif \cup Kfm : Save(f, Front(stack))
     \/ /\ stack' = Front(stack)
        /\ UNCHANGED <<disk, nif, kfm, current, viewVars, posted, closed, rev, mishap>>
  /\ UNCHANGED clicks

\* Mutant: a file that is open already is not loaded again.
ProceedOpenOther ==
  /\ In({"proceed"}) /\ Top.goal.do = "open"
  /\ current' = Top.goal.file
  /\ cursor' = cursor + 1
  /\ posted' = IF current = Top.goal.file THEN posted ELSE posted + 1
  /\ stack' = Front(stack)
  /\ UNCHANGED <<disk, nif, kfm, modified, enabled, shown, closed, rev, mishap, clicks>>

\* loadFile( f ): the name changes now, the document when load() is delivered.
ProceedOpen ==
  /\ In({"proceed"}) /\ Top.goal.do = "open"
  /\ current' = Top.goal.file
  /\ cursor' = cursor + 1
  /\ posted' = posted + 1
  /\ stack' = Front(stack)
  /\ UNCHANGED <<disk, nif, kfm, modified, enabled, shown, closed, rev, mishap, clicks>>

\* openArchiveFileString loads at once.
ProceedArchive ==
  /\ In({"proceed"}) /\ Top.goal.do = "archive"
  /\ BeginLoading("archive", Top.goal.file, Front(stack))
  /\ UNCHANGED <<current, posted, clicks>>

\* closeEvent accepts the event.
ProceedClose ==
  /\ In({"proceed"}) /\ Top.goal.do = "close"
  /\ closed' = TRUE
  /\ stack' = <<>>
  /\ UNCHANGED <<disk, nif, kfm, current, viewVars, posted, rev, mishap, clicks>>

------------------------------------------------------------------------------
(* What the user does.  A dialog is modal, and a disabled window takes no  *)
(* input; the window system may close it all the same.                     *)

Click == EventLoop /\ Dialogs = {} /\ clicks < MaxClicks /\ clicks' = clicks + 1
Input == Click /\ enabled

\* Any change of the NIF: dataChanged marks the window.
EditNif ==
  /\ Input
  /\ nif' = rev + 1 /\ rev' = rev + 1
  /\ modified' = TRUE
  /\ stack' = Mixed(stack)
  /\ UNCHANGED <<disk, kfm, current, enabled, shown, cursor, posted, closed, mishap>>

\* The KFM model is not connected.
EditKfm ==
  /\ Input /\ kfm # Blank
  /\ kfm' = rev + 1 /\ rev' = rev + 1
  /\ UNCHANGED <<disk, nif, current, viewVars, posted, stack, closed, mishap>>

ClickOpen == Input /\ \E f \in Nif \cup Kfm : ConfirmThen([do |-> "open", file |-> f])
ClickArchive == Input /\ \E f \in Archived : ConfirmThen([do |-> "archive", file |-> f])
ClickClose == Click /\ ConfirmThen([do |-> "close"])
ClickSaveAs == Input /\ Show([op |-> "choose"], stack)

\* A document out of an archive, or a new one, has no path to save it to.
ClickSave ==
  /\ Input
  /\ IF current \in Nif \cup Kfm THEN Save(current, stack) ELSE Show([op |-> "choose"], stack)

\* on_aReload_triggered, if the XML description could be read.
ClickReload ==
  /\ Input
  /\ posted' = posted + 1
  /\ UNCHANGED <<disk, nif, kfm, current, viewVars, stack, closed, rev, mishap>>

Handlers == Load \/ Loaded \/ NotLoaded \/ Saved \/ NotSaved \/ ProceedOpen \/ ProceedArchive \/ ProceedClose

User == \/ EditNif \/ EditKfm \/ ClickOpen \/ ClickArchive \/ ClickClose \/ ClickSaveAs
        \/ ClickSave \/ ClickReload \/ Answer \/ Choose

Next == Handlers \/ User

\* The event loop runs; the user need not answer a dialog.
Spec == Init /\ [][Next]_vars /\ WF_vars(Handlers)

------------------------------------------------------------------------------
(* Properties *)

TypeOK ==
  /\ disk \in [Path -> Int]
  /\ nif \in Nat /\ kfm \in Nat
  /\ current \in Path \cup {NoFile}
  /\ modified \in BOOLEAN /\ enabled \in BOOLEAN /\ shown \in BOOLEAN
  /\ cursor \in Nat /\ posted \in Nat
  /\ stack \in Seq(Frame)
  /\ closed \in BOOLEAN
  /\ rev \in Nat
  /\ mishap \in BOOLEAN
  /\ clicks \in 0 .. MaxClicks

Idle == ~closed /\ stack = <<>> /\ posted = 0

\* As long as no save failed and no two loads overlapped, a window that is not marked as
\* modified shows what its file holds: nothing can be lost by closing it.
UnmarkedIsSaved ==
  Idle /\ ~mishap /\ ~modified /\ current \in Nif \cup Archived => nif = disk[current]

\* When no load is under way the views are connected to the models and the window takes
\* input again, however loads were nested.
ViewsReconnected ==
  ~closed /\ Loads = {} => shown /\ (enabled \/ Ops({"save"}) # {})

\* The wait cursor goes when the last load is done.
CursorRestored == ~closed /\ Loads = {} /\ posted = 0 => cursor = 0

\* A load that was posted takes place, whatever dialogs are open.
PostedLoadsRun == posted > 0 ~> posted = 0 \/ closed

\* The window is not left disabled.
EnabledAgain == ~enabled ~> enabled \/ closed \/ Dialogs # {}

\* nifskope_ui.cpp: "You have unsaved changes to %1. Would you like to save them now?"
YesSaves == In({"proceed"}) /\ Top.yes => ~modified

==============================================================================
