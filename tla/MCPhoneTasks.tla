---------------------------- MODULE MCPhoneTasks ----------------------------
(***************************************************************************)
(* Instances of PhoneTasks.                                                *)
(***************************************************************************)
EXTENDS PhoneTasks

CONSTANTS a, b, s1, s2

OneSystem == [t \in {a} |-> "system"]

OneUI == [t \in {a} |-> "ui"]

TwoUI == [t \in {a, b} |-> "ui"]

(* Reports and grants: with and without the system actions. *)
SystemSets == {{"read"}, {"read", "system"}}

UISets == {{}, {"ui"}}

OnlyUI == {{"ui"}}

AllFaults == {"invalidate", "restart", "origin"}
=============================================================================
