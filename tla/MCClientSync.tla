----------------------------- MODULE MCClientSync -----------------------------
(* Bounds for checking ClientSync.                                         *)
EXTENDS ClientSync

(* Several closes, resets or a pause with every kind of failure, or pauses *)
(* and a reset with a failure ...                                          *)
LiveBudgets ==
    {[resets |-> 0, pauses |-> 0, closes |-> 3, failures |-> 0, refreshes |-> 0],
     [resets |-> 2, pauses |-> 0, closes |-> 1, failures |-> 1, refreshes |-> 1],
     [resets |-> 0, pauses |-> 1, closes |-> 1, failures |-> 1, refreshes |-> 1],
     [resets |-> 1, pauses |-> 2, closes |-> 0, failures |-> 1, refreshes |-> 0]}
(* ... or one reset and one pause and nothing else.                        *)
PausedBudgets ==
    {[resets |-> 1, pauses |-> 1, closes |-> 0, failures |-> 0, refreshes |-> 0]}
=============================================================================
