---------------------------- MODULE ToolEffects ----------------------------
(***************************************************************************)
(* What the mobile assistant promises about the outside world: an          *)
(* operation of a turn takes effect at most once, and what the turn        *)
(* finally reports is true for good.  "nothing" says that no operation     *)
(* took effect, "clean" that every effect is known; after either of them   *)
(* nothing more happens.  "maybe" leaves the question open.                *)
(***************************************************************************)
EXTENDS Naturals

CONSTANTS Turns, EffectOps

VARIABLES done,    \* how often each operation of each turn took effect
          report   \* "open" until the turn ends

EffectsInit == /\ done = [t \in Turns |-> [o \in EffectOps |-> 0]]
               /\ report = [t \in Turns |-> "open"]

(* The outside world carries an operation out. *)
TakeEffect(t, o) == /\ done[t][o] = 0
                    /\ report[t] \in {"open", "maybe"}
                    /\ done' = [done EXCEPT ![t][o] = 1]

(* Several turns may be closed by one step (a cleared chat, a new engine). *)
Close(t) ==
    \/ report'[t] = report[t]
    \/ /\ report[t] = "open"
       /\ \/ report'[t] \in {"clean", "maybe"}
          \/ report'[t] = "nothing" /\ \A o \in EffectOps : done[t][o] = 0

EffectsNext ==
    \/ /\ UNCHANGED done
       /\ DOMAIN report' = Turns /\ \A t \in Turns : Close(t)
    \/ /\ UNCHANGED report
       /\ \E t \in Turns, o \in EffectOps : TakeEffect(t, o)

EffectsSpec == EffectsInit /\ [][EffectsNext]_<<done, report>>
=============================================================================
