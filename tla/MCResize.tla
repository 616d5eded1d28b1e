------------------------------ MODULE MCResize ------------------------------
(* Module Resize for TLC: one backup copy, a few blocks. *)
EXTENDS Resize

MCFixed == {0}

MCWorlds ==
    {{"shrink", "interrupt", "power"}, {"shrink", "interrupt", "commit"},
     {"shrink", "power", "commit"}, {"interrupt", "crash"}}

MCCrash == {{"shrink", "crash"}}
=============================================================================
