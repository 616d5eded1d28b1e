------------------------------- MODULE MCScrub ------------------------------
(***************************************************************************)
(* Two workers, the smallest queue they may have and the window scrub_read *)
(* gives them; with the read of a rival, submissions wait for space.       *)
(***************************************************************************)
EXTENDS Scrub

CONSTANTS w1, w2, main, rival, stopper

MCWorkers == {w1, w2}
MCClients == {main, rival, stopper}
MCTasks == ((1 .. Passes) \X (1 .. Chunks)) \cup {rival}
=============================================================================
