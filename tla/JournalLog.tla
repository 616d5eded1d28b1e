----------------------------- MODULE JournalLog -----------------------------
(***************************************************************************)
(* What the transaction journal promises its callers, with the file        *)
(* format left out: a log of records and an operation phase, of which a    *)
(* reader sees one version (visible) and a power loss leaves another       *)
(* (stable).  The two differ by at most the header written last, a batch   *)
(* of records is in a version whole or not at all, and once a record is    *)
(* stable no crash takes it away.  Journal.tla implements this module.     *)
(***************************************************************************)
EXTENDS Sequences

CONSTANTS Bodies,      \* what a record can say
          Phases,      \* operation phases
          FirstPhase,  \* the phase a new journal is created in
          Unreadable   \* a journal that TransactionJournal::load refuses

VARIABLES exists,   \* the journal file has been published under its name
          request,  \* the batch of records being appended
          visible,  \* the version load() returns now
          stable    \* the version load() returns after a power loss

vars == <<exists, request, visible, stable>>

Versions == [log : Seq(Bodies), phase : Phases] \cup {Unreadable}

Empty == [log |-> <<>>, phase |-> FirstPhase]

Init ==
    /\ exists = FALSE
    /\ request = <<>>
    /\ visible = Empty
    /\ stable = Empty

Create ==
    /\ ~exists
    /\ exists' = TRUE
    /\ UNCHANGED <<request, visible, stable>>

\* A caller asks for a batch, or gives one up.
Ask ==
    /\ exists
    /\ request' \in Seq(Bodies)
    /\ UNCHANGED <<exists, visible, stable>>

\* A header is written: the log grows by the whole batch, in the phase it had.
Extend ==
    /\ exists
    /\ visible = stable
    /\ visible # Unreadable
    /\ visible' = [visible EXCEPT !.log = @ \o request]
    /\ UNCHANGED <<exists, request, stable>>

\* A header is written: the phase changes and the log does not.
SetPhase ==
    /\ exists
    /\ visible = stable
    /\ visible # Unreadable
    /\ \E ph \in Phases : visible' = [visible EXCEPT !.phase = ph]
    /\ UNCHANGED <<exists, request, stable>>

\* The header reaches stable storage; the append may return with it.
Harden ==
    /\ stable' = visible
    /\ request' \in {request, <<>>}
    /\ UNCHANGED <<exists, visible>>

\* Power loss: the reader is back at the stable version.
Revert ==
    /\ visible' = stable
    /\ request' = <<>>
    /\ UNCHANGED <<exists, stable>>

\* Only a journal whose stable log is still empty may become unreadable.
Spoil ==
    /\ exists
    /\ stable # Unreadable => stable.log = <<>>
    /\ visible' = Unreadable
    /\ stable' \in {stable, Unreadable}
    /\ request' = <<>>
    /\ UNCHANGED exists

Next == Create \/ Ask \/ Extend \/ SetPhase \/ Harden \/ Revert \/ Spoil

Spec == Init /\ [][Next]_vars
=============================================================================
