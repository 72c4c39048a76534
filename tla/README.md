# A TLA+ model of NifSkope (uintSkope)

NifSkope opens, shows and edits NIF files: numbered lists of typed blocks that
link to each other by number. The specifications here model the parts of the
program where a state has to stay consistent through many operations or several
actors: the block list and its links, what is derived from them and kept up to date by hand, the spells
that rearrange whole branches, loading, undoing, the threads of the XML checker, and the
window whose handlers nest inside each other. They are checked by TLC on small
instances, and the main invariants are proved by TLAPS for all instances.

Paths are relative to the repository root (`src/model/...` is the application).

## 1. Inventory

| Component | State | Operations | Talks to | Hard behaviour | What makes it correct |
|---|---|---|---|---|---|
| **NifModel, blocks** `src/model/nifmodel.cpp` | the item tree: header, blocks, footer; link values; `lockUpdates`, `needUpdates` | insert, remove, move, reorder, convert, map links, set a value, resize an array, load, save | spells and views call it; it signals `linksChanged`, `dataChanged` | every change of the list renumbers every link; derived data may be held stale | links follow the blocks; what is stale is noted; a saved file describes itself |
| **NifModel, link caches** | `childLinks`, `parentLinks`, `rootLinks` | `updateLinks`, `checkLinks` | tree view, proxy model, scene, spells recurse over them | cycles in files, dangling numbers | no cycles, nothing else lost, all blocks below a root |
| **NifModel, loading** | the rows so far, the loop counter, the device, the map of ids | `load` and its recovery | the window | rows are appended but found by counting blocks of the file; broken and unknown blocks | what can be read is read, into the row of its type; ids become numbers |
| **NifItem rows** `src/data/nifitem.h` | child vector, cached row number, vectors of link rows | insert, take, remove children | NifModel finds links by these rows | hand-kept caches, 16 bits wide | `row()` is the row; the link rows lead to the links |
| **Condition caches** `src/data/nifitem.h`, `nifmodel.cpp` | a cached truth value of each row | evaluate, invalidate after an edit | every reader of rows | only direct dependents are reassessed | a cached condition is the condition |
| **Undo commands** `src/model/undocommands.cpp` | lists of persistent indices and values | redo, undo, merge | NifModel | indices that become invalid; commands merged | undo restores what was there |
| **Proxy model** `src/model/nifproxymodel.cpp` | a tree of block numbers | follow `linksChanged`, `rowsAboutToBeRemoved`, reset | views | kept in step step by step | it is the tree of the links |
| **State stack, spell book** `src/spellbook.cpp`, `src/model/basemodel.h` | `state`, `states`, the spell running | `cast`, hold and release updates | NifModel | early returns, nested states | what a cast begins it ends |
| **Branch spells** `src/spells/blocks.cpp` | the clipboard | copy, paste, duplicate, remove, crop, flatten, attach, sort | NifModel | each step renumbers the blocks that the next one names | the branch meant is the branch changed; nothing else is |
| **Animation spells** `src/spells/animation.cpp` | | attach a KF: blocks move from another document | two NifModels | inserts controllers in front of blocks it has looked up | sequences, controllers and palettes link to each other |
| **Tidying spells** `src/spells/sanitize.cpp`, `optimize.cpp` | | sort, prune, combine, split, remove | NifModel | change all numbers at once, by maps found before | the file shows what it showed |
| **XML checker** `src/ui/widgets/xmlcheck.cpp` | queue, list of threads, buttons, progress | run, change the number of threads, reload XML, close; each thread's loop | the XML description and its lock | real threads, waiting in the GUI thread | each file tested once, no hang, no use after destruction |
| **XML description** `src/xml/` | tables of blocks and compounds, `XMLlock` | load | all models | replaced while other threads read | not replaced during a test |
| **Main window** `src/nifskope.cpp`, `src/nifskope_ui.cpp` | `currentFile`, modified, enabled, views on models or stand-ins, cursors, posted loads | open, open from an archive, reload, save, save as, close | both models, dialogs | posted calls, event loops inside handlers, failures | nothing lost unasked; views and window come back |
| **KFM model** `src/model/kfmmodel.cpp` | its own item tree | load, save, set | window | | as a document of the window |
| Other spells, scene and view, widgets, settings, importers, file streams, versions, start-up, vendored `lib/` | | | | geometry, formatting, byte layouts, I/O | not modelled, see section 14 |

`PROJECT.json` lists the components with their files, and the hazards, each at its
line with the properties that catch it, or a note when none does.

## 2. Plan

Done, in this order:

1. `LinkGraph`, `LinkCache`: what `updateLinks` computes.
2. `NifGraph` (abstract), `NifBlocks` (the block list), refinement, proofs.
3. `XmlChecker` and its proofs.
4. `NifWindow` and its proofs, at last that an unmarked window shows what its file holds.
5. `RowConditions`, `UndoStack` against the abstract `EditHistory`.
6. `ItemRows`: the remembered row numbers and the link rows, against the child vector.
7. `NifProxyModel`: the tree kept step by step, against the tree of the link caches.
8. `Branches`: the spells on a branch; `AttachKf` composes it with a second document.
9. `Tidying`: the spells on a whole file.
10. `NifLoad` and its proofs.

To come:

11. `StateStack`: `setState`, `restoreState`, `resetState` under spells, loads and saves.
12. `HeaderStrings`: the string table of a file and the indices into it.
13. Expressions (`nifexpr.cpp`) and version numbers as operators against a reference; conditions on versions.
14. The spell that fixes invalid names, and copy and paste of single blocks into other documents.

Theorems proved: every invariant that a run checks, and the refinement of `NifGraph` (section 13).
Worth having next: that the commands on the stack restore what they undo (`UndoRestores`), and that copying and removing a branch do what
their names say (`BranchCopied`, `BranchRemoved`).

How the modules are connected:

- `LinkGraph` (operators) is extended by `LinkCache`, `NifBlocks`, `NifProxyModel`, `Branches` and `Tidying`.
- `RowConditions` (operators) is extended by `UndoStack`, `Branches` by `AttachKf`.
- `NifBlocks` instantiates `NifGraph`, `UndoStack` instantiates `EditHistory`.
- Modules `MC...` give constants their values; modules `..._proofs` hold the theorems. `LinkGraph_proofs` says what the operators of
  `LinkGraph` return and has the lemmas on recursion; `NifBlocks_proofs`, `ItemRows_proofs`, `UndoStack_proofs` and `Links_proofs`, the
  theorems of `LinkCache` and of `NifProxyModel`, extend it.

| Run | Asks | Distinct states |
|---|---|---|
| `blocks_three`, `blocks_held` | do links follow blocks, is staleness noted, does a saved file describe itself | 7 thousand, 85 thousand |
| `link_cache` | are cycles cut, and only these | 30 thousand: all graphs of three blocks |
| `nif_load` | is what can be read read | 339 thousand |
| `item_rows` | do remembered rows lead to the links | 131 thousand |
| `undo_stack` | do undo and redo restore documents and conditions | 175 thousand |
| `proxy_tree` | is the tree that of the links | 82 thousand |
| `branches` | do spells on branches change the branch meant and nothing else | 241 thousand |
| `tidying` | does a tidied file show what it showed | 78 thousand |
| `xml_checker` | do threads, queue and window agree, and end | 171 thousand |
| `nif_window` | is nothing lost, do views and window come back | 323 thousand |
| `nif_window_yes` | expects a violation, section 12 | until the violation |

## 3. Block list: `LinkGraph`, `LinkCache`, `NifGraph`, `NifBlocks`

`LinkGraph` has the pure algorithms: `CollectLinks` (links of a block in the order `updateLinks`
comes to them, each once: in each compound its own link rows before those in arrays and compounds, `nifmodel.cpp:2550-2578`), `CheckLinks` (the walk that drops a link back to a block on the current path),
`RootLinks` (blocks nobody links to). They are written with recursive functions and folds, so that modules with
proofs can use them: the domain of `Walk` are the frames of `checkLinks`, one for each turn of the loop of each call, with what is left of the
copied list and the cache as it is at that turn. `LinkCache` runs `updateLinks` on all contents of a few blocks, dangling
numbers included.

`NifBlocks` is the list. `block[b]` is the item at number `b`; `item[o]` holds its type,
the size field of its array (`num`), the rows the array really has (`rows`), and its links:
field 0 is a Ptr (`parentLinks`), rows 1.. of the array are Refs (`childLinks`). Types and objects are
constants; other values of a block have no influence on the list and are left out.
Each operation of `NifModel` is an action that ends in the update calls the code ends in, in the code's
order; `Update(todo, ...)` stands for these calls, which either run or, under `lockUpdates`, leave a flag.
`updateHeader` also resizes arrays when the version stores block sizes (`BlockSizes`), as
`updateArrays` does in the code. Loading is the initial state: any file of `Files`, whose footer and links
may be anything, after `reset()` (how such a document comes out of a file is `NifLoad`, section 4). `CastBegin`, `CastEnd`, `HoldUpdates` and `ReleaseUpdates` are `SpellBook::cast` and
`holdUpdates`; `CastEnd` may come with updates still held because one spell returns so
(`src/spells/blocks.cpp:1465`). `LoadIndex` is the part of copy and paste that works on single blocks.

`NifGraph` says what all that is for: a graph in which links name blocks. `NifBlocks`
implements it under the mapping that a link stands for the block that has its number now;
`LinksFollowBlocks` is `NifGraph!Spec` under the mapping. Moves and reorderings are stutters of the graph.
`Rewrite` allows any change of the links of one block, because the operations that write fields do that;
what is excluded is that an operation changes the meaning of a link of another block.

| Property | Why it could fail |
|---|---|
| `TypeOK` | arrays and sizes, rows beyond the size of an array hold nothing |
| `NumberedOnce` | blocks are taken out of the vector and put back at computed rows |
| `StaleIsNoted` | each handler decides itself which updates it calls, under hold or not |
| `WrittenFileDescribesItself` | header and footer are refreshed by some operations and not by others; `save` relies on `updateHeader` and `updateFooter`, and the latter on the cache |
| `LinksFollowBlocks` | seven operations renumber links, each with a map of its own |
| `NoCycles`, `OnlyCycleLinksDropped`, `DroppedLinksNeeded`, `EveryBlockBelowARoot` (`LinkCache`) | the cut is made during a walk whose order decides what is cut |

| Run | Instance | Bounds, and why they are enough |
|---|---|---|
| `blocks_three` | 3 objects, types with an array and with a Ptr | three blocks are the least number where a move shifts a block between its ends; one row per array suffices since renumbering treats every row alike |
| `blocks_held` | 2 objects, held updates, size fields edited apart from their arrays, conversions, `BlockSizes` | the flags do not depend on the number of blocks; one row is enough for an array to grow and to shrink |
| `link_cache` | 3 blocks, 2 rows each, links up to 3 | number 3 dangles; three blocks have cycles of length one, two and three and cycles that share a block |

`MaxLink` bounds link values; insertions that would raise a link past it are cut off (marked `bound` in the module).
Objects are symmetric; no liveness is checked with symmetry. `link_cache` stops after its step, hence `CHECK_DEADLOCK FALSE`.

## 4. Loading: `NifLoad`

One action is one turn of the loop of `NifModel::load`, or what ends it. `file` has the format (`old`: blocks carry
ids; `inline`: the type stands before each block; `typed`: the header lists types; `sized`: and sizes), the block at which the file
is cut off, whether it is on disk or in an archive, and of each block whether its type is known and how `loadItem` gets on with it: well, to the end but in
the wrong length, or not at all. `doc` are the rows appended so far: the block of the file whose type a row has and
the one whose contents it has. `c` is the loop counter, by which the row to load is found (`RowToLoad`); `place` is the
block the device stands at, or 0 after a block read in the wrong length in a file without sizes. `linkMap` maps ids to
numbers; `Fail` and `Finish` apply it. In a file with sizes the loader seeks to the next block whatever became of the last one (`nifmodel.cpp:1915`). A file on disk
(`QFile`, `basemodel.cpp:632`) can be sought beyond its end, which is noticed before the next block (`:1814`), if there is one, and not before the footer
(`:1945`); a file from an archive (a read-only `QBuffer`, `nifskope.cpp:886`) cannot, and the load fails at once (`CanSeek`, `Beyond`). A header that cannot be read ends a load before the loop, and is left
out like the values in a block.

| Property | Why it could fail |
|---|---|
| `ReadableIsRead` | each way a block can fail has its own way of moving the device on, and its own decision whether to go on; a file that ends in a block must not pass for one that was loaded, which it does if it has sizes, is on disk and ends in its last block |
| `NothingMisplaced` | an unknown block is skipped without a row while the counter goes on (`nifmodel.cpp:1904`), so counter and rows part |
| `LinksNameBlocks` | an id may be another block's number; links are mapped once, at the end or on failure |

The run loads every file of four blocks (any of them unknown, badly read or failing) in the three newer formats, cut anywhere
or nowhere, and old files of three blocks with ids equal to numbers of others. Four blocks give an unknown one with two behind it that
move up, and a good one after these. Files with sizes that are cut off in a block come from disk and from an archive; elsewhere the device makes
no difference. `CHECK_DEADLOCK FALSE`: a load ends.

## 5. Rows of items: `ItemRows`

`doc` is the sequence of the root's children: header, blocks, footer, each a tree given by paths. A node keeps what the
code keeps: `rowIdx` (-1 for not remembered) and the two sets of rows that are links or lead to links.
`insertBranch`, `insertChild`, `removeChild(ren)`, `takeChild`, `updateArrayItem`, `convertNiBlock`, `moveNiBlock`, block insertion and
removal are actions or parts of them, with the invalidations each makes; asking for a row (`row()`, by showing an
item) remembers it and the rows it asks on the way. `Width` is the number of rows a
`ushort` tells apart: 65536 in the code, 2 in the run.

| Property | Why it could fail |
|---|---|
| `LinksFound` | `updateLinks` looks for links only at the rows remembered as leading to links; these rows are never taken back when arrays shrink or a block becomes another type, and wrap around at `Width` |
| `OnlyFooterMisplaced` | an insertion invalidates rows by hand, and one path does not (`nifitem.h:328`) |

The properties also state the limits: links below rows that do not fit in `Width` are missed, and the footer may remember a row a new
last block has taken. Two blocks, of two types with a common ancestor (conversion goes over it) and of the ancestor; arrays of
links and of compounds with up to 3 rows, so that some rows lie beyond `Width`; at most `MaxRows` 8 rows in the document
(arrays do not grow past it); the items shown by themselves are those of the root (`ShownDepth` 0), deeper
rows are remembered on the way up from links. Two blocks suffice: an insertion before, between and behind. The bounds can
stop the run, hence `CHECK_DEADLOCK FALSE`.

## 6. Conditions and undo: `RowConditions`, `UndoStack`, `EditHistory`

`RowConditions` are operators: the rows of one compound, `Needs` saying which earlier rows a condition names.
`Fresh` computes all conditions from the values, `Evaluated` answers from caches as `evalCondition` does, and `Reassess` is
`invalidateDependentConditions`. Only direct dependents are evaluated again, so a condition can be kept right if it names all it depends
on and the conditions of the rows it names do, too: `NamesAll`.

`UndoStack` edits one compound and an array in it. `doc` has the values, the rows of the array (each made once, with
an identity of its own, as persistent indices need), and the condition caches. `undo` is the list of commands, the
place in it and the clean place. The stack class itself belongs to the widget library and is marked external. `Edit`, `Check` (a list of
check boxes), `Paste` over a selection, `PasteArray`, `SwapRows`, `ResizeArray`, `Undo`, `Redo`, `Save` and `Load` are the
ways values and commands come about; each sets values as often as the code does, which is sometimes twice.
Commands of one transaction are merged (`mergeWith`). `quiet` is history: fields last written by a command that
reassesses nothing. Values of a command are handed out in turn to those of its indices that are still valid; `ValidPlace` is the
turn of a row. `PasteAll` goes through the rows pasted on: the documents and the stacks after each of them are recursive functions.

`EditHistory` is the promise: a list of documents and a place in it; editing cuts the list, undo and redo move the
place. `UndoRestores` maps each place to the document that undoing or redoing to it would give. Rows of an array are not part of
the promise: undoing an array update leaves its rows, a TODO in `undocommands.cpp:204`. Nor is the value of a row in `Shifted`, which is mapped to `Lost`
for as long as the row is in it: a row that some merged command on the stack names behind a row that is no more.
Such a row does get the value of another one. Ctrl+Up pushes the command of the lower row first (`nifview.cpp:388-405`), a paste may be selected
from the bottom up; if the array is then made shorter by an edit of its size and an update, undoing the merged command skips the index of the
removed row but not its value (`undocommands.cpp:98` and `:120`), and the row before it gets that. Without the exception `undo_stack` finds this
after four states. All rows named before the removed one get their own values back, and `UndoRestores` says so.

| Property | Why it could fail |
|---|---|
| `ConditionsFollowEdits` | only direct dependents are reassessed, one after the other, from caches of each other |
| `UndoRestores` | merged commands hold values of several rows in lists that are walked together with indices which may have become invalid; redo and merge have to agree on what "old" is |

Three rows (a size, a row that needs it, one that needs both), an array of at most two rows, values 0 to 2, a selection of the
two array rows from bottom to top and one of the first two fields; `PasteArray` and the swaps name the array rows in both orders. `MaxMade` 3 array
rows ever: a third row is one that comes in place of one removed. On the stack `MaxCommands` 2 commands that set values and `MaxUpdates` 1 that
updates the array: two commands are the least for one to be undone with another before it, and a merged command, an edit of the size and an
update of the array together the least for only some indices of the merged command to be valid. The bounds can stop the
run, hence `CHECK_DEADLOCK FALSE`.

## 7. Tree of blocks: `NifProxyModel`

`refs` and `ptrs` are the links of NifModel, `caches` what `updateLinks` made of them, `tree` the items of the proxy model, each as the path
of numbers that leads to it. Every edit of links or numbers ends in `Links`: with updates held nothing is
computed and the tree loses only the rows announced as removed; otherwise the caches are computed and `Updated`
is `updateRoot` with `updateItem` below it, which prunes and extends; `Visited` are the paths along child links from the roots,
those `updateItem` gets to. `Reset` builds the tree from nothing. Held operations are counted in `held`.

| Property | Why it could fail |
|---|---|
| `TreeIsLinks` | an item is kept if its number is still a link, although the number may be another block now, with another subtree |
| `EveryBlockShown` | blocks only in cycles, or below items that were pruned |

Three blocks with two Refs each have every cycle and every shared child; one Ptr (an item that is shown and not followed) and one
operation while updates are held: a second one meets the same stale caches. Items below a Ptr are left out
of `TreeIsLinks`: the code does not update them when a child link becomes a Ptr.

## 8. Branches: `Branches`, `AttachKf`

`doc` is the sequence of blocks; number `b` is `doc[b + 1]`. A block keeps what the spells look at: a name, the first
controller, children, target, and for animation blocks palette, further Ptrs and names of nodes. `item` is an identity that the code
does not have; the properties use it to say which block is which after renumbering. Each spell is one action
(nothing else runs during a cast), made of the operations the code calls, in its order, on documents that are renumbered
between them: `InsertNiBlock`, `RemoveNiBlock`, `MapLinks`, `BlockLink`, `RemoveChildren`, `Populate`. The clipboard keeps a
branch as `CopyBranch` writes it: with numbers for links inside, type and name for links out. `copied` is the shape it had, for the property.

`AttachKf` adds a second document: `MoveAllNiBlocks` moves its blocks behind the open document's and maps the links of the moved blocks, and
`Joined` looks for, or makes, a multi-target controller, a manager and a palette, and links each sequence with them.

| Property | Why it could fail |
|---|---|
| `BranchCopied` | blocks are appended one by one while links are mapped by a table with three kinds of keys |
| `BranchRemoved` | removal in two rounds by numbers which each removal changes |
| `LinksKept` | every insertion and removal renumbers; steps use numbers from before |
| `BlocksKeepARoot` | flattening and attaching move links one by one; a child could fall off |
| `NoRecursiveLinks` | a copy put into a chain it is part of; controllers put in front of a chain |
| `SequencesAttached` | controllers, palette and manager are inserted at numbers that shift what was looked up |

`branches` starts from: all documents of two blocks, with two or three spells; all of three, with one or two; every acyclic graph of four
nodes, with one; chosen documents with a Ptr out of a branch, with three, so that the document can change between copy and paste;
and animated documents (chains with a manager, a multi-target controller, both in either order, none, one attached before), with two.
`room` bounds the blocks of each. The hard cases need shapes, not long histories: all shapes of four nodes
contain a child shared across a branch's border, before and behind it in the list. The documents stay acyclic: what spells do to
recursive links is not followed further. `CHECK_DEADLOCK FALSE`: the spells run out.

## 9. Tidying: `Tidying`

The same view of a document, with arrays of properties, children and Ptrs. The actions are `SanitizeLinkArrays` (collapse), `SanitizeBlockOrder`
(`AddTree` is the walk, `ReorderBlocks` the rewriting; `reorderBlocks` also refuses an order with a number twice, which cannot come from a list of the right
length, since every block is below a root and so is listed at least once), combining properties with the rounds it repeats (`CombinedRound`), splitting
shared ones, and removing bogus nodes. `Plain` gives the name a material is compared by: any name with "Material"
in it counts as "Material" (`optimize.cpp:58`).

| Property | Why it could fail |
|---|---|
| `ContentKept` | all numbers change at once by a map computed before |
| `PropertiesCombined` | equality depends on links that the same spell changes; rounds must go on long enough |
| `PropertiesSplit` | "first parent" is asked of a document that grows |
| `BogusNodesGone` | removal in a loop over numbers; a parent becomes empty only then |
| `BlocksInOrder` | shapes and bodies come before their parents, everything else after, constraints after both bodies |

Each kind of small file (materials, controlled materials, textures, nodes in nodes, bodies with constraints) comes with its blocks
in every order, as the spells are about order; up to three spells in a row where one enables another. `CHECK_DEADLOCK FALSE`:
the spells run out.

## 10. XML checker: `XmlChecker`

One thread of the model is one `TestThread`; its steps are those between which another thread can
act: making its models, `dequeue`, waiting for the read lock, the test under it, `quit.tryLock`, the end of `run`. The
GUI thread is `gui`: `idle` in its event loop, otherwise at the place in a handler where it waits or where
`run()` has counted the queue and not yet cleared it. A read lock is granted unless a writer has or
waits for the lock, as in the lock of the library; `nif.xml` and `kfm.xml` have one each.
`finished` counts posted `finished()` signals; other signals only display things.
A thread that ended is started again by the next run. A test is abstracted to whether the file was loaded; `loaded` and
`taken` are history, started again when the queue is filled. `interrupted` says whether the user
pressed run or close since then, for the properties; the code has no such variable.

| Property | What it says |
|---|---|
| `UninterruptedRunIsComplete` | the label appears only after each file was taken once, whatever threads came and went |
| `NoReloadDuringTest` | the description is not replaced under a test |
| `NoThreadOutlivesQueue` | the queue, a member of the window, is not destroyed before its users |
| `RunEnds` | the run button comes up again: some `finished` signal finds everything done |
| `GuiReturns` | no handler hangs, neither in `wait()` nor in the write lock |

The fairness is weak fairness of each thread and of the GUI thread: the operating system schedules
both, files are finite and reading one ends. The user is under no obligation. The run has two
threads, three files (one `.kfm`) and four uses of the controls; two threads and one file more than threads are
needed for a thread to take a second file while the other ends, four clicks for starting, removing a thread,
stopping and starting again. `CHECK_DEADLOCK FALSE`: the window may be closed, and the number of clicks is
bounded.

## 11. Main window: `NifWindow`

Everything happens in one thread, but handlers nest. `stack` holds the handlers that are
waiting inside another event loop: a load or a save of a NIF (`sigProgress` calls `processEvents` for each
block), a dialog, or a handler that is going on after a dialog (`proceed`). `load()` is posted by `loadFile` and `reload` with
a timer of zero; `posted` counts them. A posted load is delivered wherever events are processed,
inside a load or a save, too, and before the first block of a NIF has been read. The modal dialogs and the disabled
window keep user actions out, except that the window system can close a disabled window.

Contents are revision numbers; `Unreadable` is a file that cannot be loaded. A load or save under way
whose model is emptied and filled again by a nested one is `mixed`: its result is a revision nobody has
seen, or, when written, possibly a file that cannot be read. A failing write leaves either the old
file or a broken one, since the file is emptied first (`basemodel.cpp:655`).

`onLoadBegin`, `onLoadComplete`, `onSaveBegin` and `onSaveComplete` are parts of the actions of the handlers
that emit their signals. Left out: the setting that suppresses the save question (taken as off), the undo stack's
`isClean` (it adds reasons to ask, `modified` is the other one), recent files, several windows, a failing
`loadXML` (reload then does nothing).

| Property | What it says |
|---|---|
| `UnmarkedIsSaved` | an unmarked window shows what its file holds, so closing it loses nothing; a failed save and overlapping loads are left out, see section 12 |
| `ViewsReconnected` | the toggle of the views comes out right however loads nested and failed |
| `CursorRestored` | each wait cursor goes: `loadFile` sets one, each completed load takes one away, `reload` sets none |
| `PostedLoadsRun` | a posted load takes place whatever dialogs are open |
| `EnabledAgain` | the window is not left disabled by a load or a save |

Fairness is weak fairness of the handlers together: the event loop runs and loading ends; the user need not answer a
dialog, which is why `EnabledAgain` allows one. The run has two NIFs (opening another one and the same
one again), a KFM, a file in an archive and three user actions, enough for an edit, an operation that asks, and one
nested in the loading that follows. `CHECK_DEADLOCK FALSE`: the window may be closed, and user actions are
bounded.

## 12. Findings

| Run | The code | The text |
|---|---|---|
| `nif_window_yes` | after the answer Yes it goes on although the file dialog was cancelled and nothing saved (`nifskope_ui.cpp:889`) | "Would you like to save them now?" |

Seen while modelling, and not shown by a run of their own. Most are stated in a property as its exception, or
in a model as what the code does; the rest was left out of the models.

Window and checker:

- A nested load toggles the views back while the outer one goes on (`nifskope.cpp:366`).
- Reloading a file of an archive does not find it and clears the document (`nifskope.cpp:985`; `nifskope.h:186` calls it "reload the current file").
- A save that fails leaves `currentFile` at the name that could not be written (`nifskope.cpp:964`).
- Only the NIF model marks the window (`nifskope.cpp:188`; `EditKfm` in `NifWindow`): changes of a KFM are lost without a question.
- The comment on `on_aReload_triggered` also promises to parse `kfm.xml` again; the handler
  only calls `NifModel::loadXML()` (`nifskope_ui.cpp:1383`).
- A `.kfm` file is queued and counted by the XML checker, but `model == &nif && ...`
  (`xmlcheck.cpp:395`) keeps it from being loaded (`Test` in `XmlChecker`), against the tooltip "Check .kfm files".
- The threads make their models without the lock (`xmlcheck.cpp:373`; `nifmodel.h:78`: "protect them with a QReadLocker"), and
  a run that was interrupted reports files nobody tested (`xmlcheck.cpp:193`, `245`, `289`).
- `loadHeaderOnly` shows a message box (`nifmodel.cpp:2131`), also when a worker thread calls it.

Blocks, rows and loading:

- A paste that fails leaves updates held (`blocks.cpp:1465`), so that a save writes the header of an earlier
  block list, although `nifmodel.cpp:2031` says "Force update header and footer prior to save" (`CastEnd`; the exception in `WrittenFileDescribesItself`).
- After an unknown block in a file that names types ahead, later rows stay empty and the footer is loaded from a block, and the load
  succeeds; the code has a note on it: "if isNiBlock returned false, block numbering will be screwed up!!" (`nifmodel.cpp:1904`; `NothingMisplaced`).
- Early returns of `insertType` (`nifmodel.cpp:1095`, `1104`) leave a state pushed, and `resetState` (`basemodel.h:232`) clears all of them.
- The footer may remember the row that a new last block has taken (`nifitem.h:328`, `OnlyFooterMisplaced`), while
  `row()` is to "Return the row that this item is at." Link rows are only added, and those of the root's children are not noted in the root.
- `removeRows` announces one row more than it removes (`nifmodel.cpp:1645`), and `moveAllNiBlocks` announces its rows one row too
  early (`nifmodel.cpp:777`).
- A condition that depends on an edited row through another one keeps its cached value, and so does any after a merged command
  (`nifitem.h:517`, "Cached result of cond expression"; `NamesAll` and `quiet` in `ConditionsFollowEdits`).
- Undoing a merged command gives a row the value of a removed one that the command names before it (`undocommands.cpp:98`, `120`; `Shifted`, section 6).
- A file with block sizes, on disk, that ends in its last block is reported as loaded, with the footer unread (`nifmodel.cpp:1915`, `1945`; section 4).
- The proxy tree keeps an old subtree below an item whose number is now only a Ptr (left out of `TreeIsLinks`), and `xDataChanged` leaves out the last
  row or column of a range (`nifproxymodel.cpp:540`, `552`).

Spells:

- `blockLink` takes a controller that is block 0 for none (`blocks.cpp:440`); removing a branch removes blocks shared with others if
  their first parent is in the branch; a link out of a branch leads to the first block of the type and name.
- Duplicating a controller that is part of a chain makes a cycle of controllers, on which a later
  `blockLink` does not come to an end (`blocks.cpp:1852`, the first exception of `NoRecursiveLinks`).
- Attaching a parent to a node that is linked to otherwise than as a child leaves it two parents.
- Pasting into an empty document makes a Ptr to the old block 0 one to the branch itself.
- Attaching a KF to a root with a manager, with the multi-target controller missing or in front of it, makes a circle of links (the
  second exception of `NoRecursiveLinks`).
- A constraint with an empty entity, or in the lists of two bodies, can make the reordering give up with "failed to sanitize
  blocks order, corrupt nif tree?" (`sanitize.cpp:246`). Reordering twice may give another order when an entity is a root.
- Materials with different names that all have "Material" in them are combined, and only the first keeps its name (`optimize.cpp:58`).

## 13. Proofs

All theorems hold for any constants that satisfy the named assumptions of the module. The bounds are among the constants, so
the theorems hold for documents, histories and clicks of any number.

**`LinkGraph_proofs`.** What a recursive function or a fold returns has to be proved by induction, and the induction theorems
of the library take an operator, which no prover here can supply. The module therefore states both tools for sets, resting on `WFMin` alone (a set without a least
element is empty): `Induction` and `Recursion`. The latter says that a function exists whose value at a point is given by a function `G`
of its values at points of lower rank, in any well-founded order. `FoldExists` and the lemmas after it say what the folds `CollectLinks` and `KeepOnly` return.

The walk of `checkLinks` ends because a call leaves fewer blocks off its stack, and a turn less of its list (`FrameRank`, ordered
lexically; a number that no block has only has an empty list). So `Walk` satisfies its own equation (`WalkEquation`), and `FrameInduction` is the induction
over its frames. The argument then runs:

- the walk only takes links away (`WalkShrinks`), and none from the lists of the blocks above a call on the stack (`PathKept`);
- blocks are settled when no link leads out of them and they hold no cycle. A walk that comes into settled blocks changes nothing (`SettledWalk`), one
  that goes on elsewhere leaves them alone (`SettledKept`), and a frame settles its children or drops the links to them (`WalkDone`). After the loop
  over all blocks every block is settled, so there is no cycle;
- a link is dropped in a frame whose stack is a way from its target to its block, and the links of that way stay: those of the stack because of
  `PathKept`, those into settled blocks because of `SettledKept` (`Led` and `Staying` say this of each frame).

`CheckLinksPromise` puts this together. `BelowARoot`: going up from a block along links to it ends, since there is no cycle, and it ends at a
block that no link names, which is a root.

**`Links_proofs`: the link cache.** The inductive invariant is that the caches are what `updateLinks` makes of the fields, and that these are lists of numbers.

- `NoCyclesHolds`, `OnlyCycleLinksDroppedHolds`, `DroppedLinksNeededHolds`, `EveryBlockBelowARootHolds`

**`NifBlocks_proofs`.** The inductive invariant `Struct` is `StructOK` (the typing of the list and the items)
and `NumberedOnce`. `StructOK` alone is not inductive for the number of blocks, `NumberedOnce` alone needs the ranges
of the list. One lemma per operation shows that it is kept (`InsertStruct`, `RemoveStruct`, ...); the operations on
fields of one block share `FieldsStep`, those that permute share `PermuteStruct`. `Cached` adds `StaleIsNoted`, and
`WrittenFileDescribesItself` follows from `Cached` at each save, since an unlocked refresh computes the header from the list and
the footer from a cache that is fresh. `TypesHold` adds the derived data: header, footer and root links.

- `TypesHold`: `Spec => []TypeOK`
- `BlocksNumberedOnce`: `Spec => []NumberedOnce`
- `StaleCachesNoted`: `Spec => []StaleIsNoted`
- `SavedFileDescribesItself`: `Spec => []WrittenFileDescribesItself`

The refinement, `LinksImplementGraph`: `Spec => LinksFollowBlocks`, is proved step by step. `Seen` is what the links of an item
stand for; renumbering an item under a map changes what it shows exactly as the map moves the blocks
(`SeenRenumbered`). Move and reorder are stutters (`PermuteRefs`), insertion is `Create`, removal is `Destroy`, `mapLinks` is
`Redirect`, everything on fields is `Rewrite`; the tail of a handler changes no abstract link (`RefsAfter`), not
even when it resizes arrays.

**`Links_proofs`: the tree.** `linksChanged` prunes and extends whatever tree there is, so the proof asks of the tree it starts from only that no
item is without the item above it (`ProxyInv`). That has to hold while updates are held, too, when rows are removed from a tree
that is out of date. By `CheckLinksPromise` a path along child links meets no block twice; it is therefore no longer than there are blocks, and
`Visited` has all of them; `BelowARoot` gives each block such a path.

- `TreeIsLinksHolds`: `Spec => []TreeIsLinks`
- `EveryBlockShownHolds`: `Spec => []EveryBlockShown`

**`UndoStack_proofs`.** `RightAfterEdit` is the core: `invalidateDependentConditions` evaluates the dependents of the edited row from the caches of
the other rows. These are right before the edit, and the edit leaves right what does not depend on the row (`FreshSame`); the dependents follow by induction along the rows, as
a row that `NamesAll` only names rows that do. The invariant `UInv` says that of the document, with the rows in `quiet` left out, and that each command on the stack has as many
values as indices, which undo and redo of a merged command need, and that a command that updates an array has none. A paste is one step of many:
`PasteDocsExist` and `PasteUndosExist` say that its recursive functions exist, `PasteDocsRight` goes along them. The order comes from `FieldsAssumption`:
a condition names only earlier rows, the ones `invalidateDependentConditions` looks for from the edited row on.

- `ConditionsFollowEditsHolds`: `Spec => []ConditionsFollowEdits`

**`ItemRows_proofs`.** The invariant `RowsInv` has two parts. `Documents` asks of each tree that it is `Grown` (children are numbered from 1 without a gap,
nothing hangs in the air), `Placed` (a remembered row below the top is the row) and `Linked` (each item above a link keeps the row, cut
to `Width`, at which the way to it goes on). `RowsRight` is about the root's children: only the last one may remember a row other than its own.

- An insertion notes the rows that the items on the way remember, so `Linked` needs `Placed`; rows kept of children that are
  gone do no harm, since the search looks at what is there. `InsertChildren` keeps all three parts; an array of compounds is filled by a
  recursion over its elements (`StepsExist`, `StepByStep`).
- `updateLinks` is a recursion over the tree as well: `FoundRowsExist` says that it ends, because the way goes down and the tree has a depth, and `FoundStep`
  that what it finds below an item is right if it is right below the children. A link is found only if each row on its way fits in `Width`:
  a row that was cut leads to another child. `Linked` holds for such rows, too, but the search then goes wrong.

Results:

- `LinksFoundHolds`: `Spec => []LinksFound`
- `OnlyFooterMisplacedHolds`: `Spec => []OnlyFooterMisplaced`

**`XmlChecker_proofs`.** The invariant `IInv` adds to the properties: the queue has no repetitions and holds exactly
files not yet taken (`QueueOK`), what destructors and the list of threads have in common with who runs (`QuitOK`), a file in
hand was taken (`FileTaken`), and the central part `RunOK`: while a run is uninterrupted each file is queued or taken
once, and the maximum is the number of files. The label then appears only with the queue empty, so every file was taken.

- `CheckerTyped`, `RunsComplete`, `NoReload`, `QueueOutlivesThreads`

**`NifWindow_proofs`.** The properties speak of a window with nothing under way, so the invariant has to say what holds
with any number of loads, saves and dialogs nested in each other: the views are connected exactly if the number of loads on
the stack is even (`ViewsOK`: `swapModels` exchanges them at the begin and at the end of each), there are never more wait cursors than
loads posted or under way (`CursorOK`), and a disabled window has a load or a save on the stack (`EnabledOK`). Lemmas
`Push`, `Pop` and `MixedStack` say what entering, leaving and disturbing a handler do to these counts; `SameLoads`,
`BeginLoadingStep` and `LoadCompleteStep` carry the invariant over the three kinds of step.

- `TypeCorrect`, `ViewsAreReconnected`, `CursorIsRestored`

`UnmarkedIsSaved` speaks of a window in which nothing is going on, so the invariant has to say
what the handlers under way will leave behind: `SInv == closed \/ mishap \/ Ends(stack) \/ Good`. `Ends`: the close event is
going on without a question, and whatever happens the window will close. Otherwise `Good`: above a
load or a save on the stack there is nothing but the question whether to close (`Tame`); it has kept its model and
is about the current file (`About`); the window is disabled, so that nobody edits (`Busy(stack) => ~enabled`); and `Kept`, which
is the property for any stack without a load or a save. One lemma per action; `EndStays` covers all of them for a window that will close.

- `UnmarkedWindowIsSaved`: `Spec => []UnmarkedIsSaved`

**`NifLoad_proofs`.** Why the next block is read rightly depends on where the device is and how many rows there are:
`IInv == Typed /\ InStep /\ ReadableIsRead`, where `InStep` says that no row is ahead of the counter, that there is a row for each
block as long as none was unknown, that the device is at the next block if that can be reached, and
(`Within`) that it is past the block the file ends in only in a file with sizes on disk. `OldInv` adds for old files
what `linkMap` holds so far and that links are still ids.

- `Reading`: `Spec => []ReadableIsRead`
- `Misplacing`: `Spec => []NothingMisplaced`
- `MappingIds`: `Spec => []LinksNameBlocks`

**Only model-checked.**

- `UndoRestores` holds in the run's instance; a proof would need as an invariant what every command on the stack says of
  documents no longer there, rows that are gone included.
- The properties of `Branches`, `AttachKf` and `Tidying` relate documents before and after a spell that is a composition of folds; each would need a
  specification of every helper.
- The action properties of `NifWindow` and `XmlChecker` that say what must happen are liveness, and the provers handle neither fairness nor `ENABLED`.

`TypeOK` of `XmlChecker` and of `NifWindow` are proved and not checked by a run of their own; those of `LinkCache` and `NifLoad` document types. The
documents of `Branches` and `Tidying` are typed by their assumptions.

## 14. Not modelled

- Rendering, animation and picking (`src/gl`, `src/glview.cpp`) compute with real numbers and have no protocol of their own.
- File streams, values and types (`src/io`, `src/data/niftypes.cpp`, `nifvalue.cpp`) and importers and exporters are byte
  layouts and conversions. Combining shapes, tangent spaces and the other geometry spells likewise.
- Widgets and settings edit single values. Start-up sends file names to a running instance over UDP and is I/O.
- Vendored code in `lib/` is not the program's own.
- In what is modelled: the values of a block other than links and names; pasting onto a single link row, pasting over a block and the
  type menus of `blocks.cpp`; forwarding of `dataChanged` and mapping of indices in the proxy model; conditions on versions;
  the header as part of a load; several windows.
- The number of steps of `checkLinks`, which can be exponential (`nifmodel.cpp:2581`): cost is not a state.
- What section 2 lists as to come.

These areas are most of the repository's lines, and they have few states that several actors or long sequences of
operations could bring out of step.
