---------------------------- MODULE MCCheckpoint ----------------------------
(***************************************************************************)
(* Values for model checking Checkpoint: two objects in the first block,   *)
(* the owner of everything and a thing, and another thing in the second.   *)
(***************************************************************************)
EXTENDS Checkpoint

CONSTANTS child, Note

NoteOnThing == {<<1, Note>>}
=============================================================================
