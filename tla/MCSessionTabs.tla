----------------------------- MODULE MCSessionTabs -----------------------------
(***************************************************************************)
(* Instances of SessionTabs for TLC.                                       *)
(***************************************************************************)
EXTENDS SessionTabs, TLC

MCSymmetry == Permutations(Cmds) \cup Permutations(Workers)
              \cup Permutations(Tabs) \cup Permutations(Ops)
===============================================================================
