----------------------------- MODULE DurableList -----------------------------
(***************************************************************************)
(* What the transfer journal promises.  The program holds a list that only *)
(* grows newer; a save acknowledges some version it held; after a restart  *)
(* the program holds a version at least as new as the last acknowledged    *)
(* one, and never one it did not hold before.                              *)
(***************************************************************************)
EXTENDS Naturals

VARIABLES held, acked

vars == <<held, acked>>

Init == held = 0 /\ acked = 0

Change == held' = held + 1 /\ UNCHANGED acked

Acknowledge == acked' \in acked .. held /\ UNCHANGED held

Restart == held' \in acked .. held /\ UNCHANGED acked

Next == Change \/ Acknowledge \/ Restart

Spec == Init /\ [][Next]_vars
===============================================================================
