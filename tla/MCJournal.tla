----------------------------- MODULE MCJournal -----------------------------
(***************************************************************************)
(* Journal.tla on a file of three records with batches of one or two.     *)
(***************************************************************************)
EXTENDS Journal

CONSTANTS p1, p2

MCPayloads == {p1, p2}
MCPhases == {"prepared", "relocating"}

=============================================================================
