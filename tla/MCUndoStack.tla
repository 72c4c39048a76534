---------------------------- MODULE MCUndoStack ----------------------------
(* A compound with a size, and two rows that depend on it.                 *)
EXTENDS UndoStack

MCFields == 1 .. 3
MCNeeds == <<{}, {1}, {1, 2}>>
MCValues == <<0 .. 2, {0, 1}, {0}>>
MCFiles == {<<2, 1, 0, 1, 0>>}
MCSelections == {<<5, 4>>, <<1, 2>>}
MCClipboards == {<<0, 1>>}
=============================================================================
