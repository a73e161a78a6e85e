--------------------------- MODULE ChannelManager ---------------------------
(***************************************************************************)
(* The channel manager: one goroutine serves a channel instance, the map   *)
(* "running" says which, and dashboard requests and credential changes     *)
(* start, stop and restart it at the same time.                            *)
(* Code: internal/channelmgr/manager.go, and the dashboard's               *)
(* channel_handlers.go, which calls it.                                    *)
(*                                                                         *)
(* One instance.  The manager's mutex covers single reads and writes of    *)
(* the map; every operation is a sequence of such steps.  A version stands *)
(* for the settings an instance is started with.                           *)
(***************************************************************************)
EXTENDS Naturals, FiniteSets

CONSTANTS Callers,      \* concurrent requests
          MaxStarts,    \* bound: goroutines started
          MaxRequests   \* bound: requests

ASSUME ChannelAssumption == MaxStarts \in Nat \ {0} /\ MaxRequests \in Nat

VARIABLES
    chStored,    \* the instance's row: enabled, and the version of its settings
    chRunning,   \* m.running: the registered goroutine, 0 if none
    chRun,       \* the goroutines
    chCaller,    \* requests under way
    chRequests

channelVars == <<chStored, chRunning, chRun, chCaller, chRequests>>

ChIdle == [pc |-> "idle", ver |-> 0, then |-> "idle", waits |-> 0]
ChRuns == 1 .. MaxStarts

ChannelInit ==
    /\ chStored = [enabled |-> FALSE, ver |-> 1]
    /\ chRunning = 0
    /\ chRun = [g \in ChRuns |-> [state |-> "none", cancelled |-> FALSE, ver |-> 0]]
    /\ chCaller = [c \in Callers |-> ChIdle]
    /\ chRequests = 0

ChBegin(c) ==
    /\ chCaller[c] = ChIdle
    /\ chRequests < MaxRequests /\ chRequests' = chRequests + 1

ChGoto(c, pc) == chCaller' = [chCaller EXCEPT ![c] = IF pc = "idle" THEN ChIdle ELSE [@ EXCEPT !.pc = pc]]

(* The dashboard saves the row, then calls UpdateInstance or AddInstance. *)
ChSave(c, enabled) ==
    /\ ChBegin(c)
    /\ chStored' = [enabled |-> enabled, ver |-> chStored.ver + 1]
    /\ chCaller' = [chCaller EXCEPT ![c] = [pc |-> IF enabled THEN "update" ELSE "disable",
                                            ver |-> chStored.ver + 1, then |-> "idle", waits |-> 0]]
    /\ UNCHANGED <<chRunning, chRun>>

(* The dashboard's delete: StopInstance, then the row goes. *)
ChDelete(c) ==
    /\ ChBegin(c)
    /\ chCaller' = [chCaller EXCEPT ![c] = [ChIdle EXCEPT !.pc = "stop", !.then = "remove"]]
    /\ UNCHANGED <<chStored, chRunning, chRun>>

ChRemove(c) ==
    /\ chCaller[c].pc = "remove"
    /\ chStored' = [chStored EXCEPT !.enabled = FALSE]
    /\ ChGoto(c, "idle")
    /\ UNCHANGED <<chRunning, chRun, chRequests>>

(* HandleCredentialChanged restarts what runs, with the settings it runs with. *)
ChCredential(c) ==
    /\ ChBegin(c) /\ chRunning # 0
    /\ chCaller' = [chCaller EXCEPT ![c] = [pc |-> "stop", ver |-> chRun[chRunning].ver,
                                            then |-> "start", waits |-> 0]]
    /\ UNCHANGED <<chStored, chRunning, chRun>>

(* UpdateInstance looks whether the instance runs. *)
ChLook(c) ==
    /\ chCaller[c].pc \in {"update", "disable"}
    /\ chCaller' = [chCaller EXCEPT ![c] =
          IF chCaller[c].pc = "disable"
          THEN IF chRunning # 0 THEN [@ EXCEPT !.pc = "stop", !.then = "idle"] ELSE ChIdle
          ELSE IF chRunning # 0 THEN [@ EXCEPT !.pc = "stop", !.then = "start"]
               ELSE [@ EXCEPT !.pc = "start"]]
    /\ UNCHANGED <<chStored, chRunning, chRun, chRequests>>

(* StopInstance: the entry is taken out and cancelled ... *)
ChStop(c) ==
    /\ chCaller[c].pc = "stop"
    /\ \/ /\ chRunning = 0
          /\ ChGoto(c, chCaller[c].then)
          /\ UNCHANGED <<chRunning, chRun>>
       \/ /\ chRunning # 0
          /\ chRunning' = 0
          /\ chRun' = [chRun EXCEPT ![chRunning].cancelled = TRUE]
          /\ chCaller' = [chCaller EXCEPT ![c].pc = "wait", ![c].waits = chRunning]
    /\ UNCHANGED <<chStored, chRequests>>

(* ... and its end is awaited, for five seconds at most. *)
ChWaited(c) ==
    /\ chCaller[c].pc = "wait"
    /\ ChGoto(c, chCaller[c].then)
    /\ UNCHANGED <<chStored, chRunning, chRun, chRequests>>

(* startInstance: the check ... *)
ChCheck(c) ==
    /\ chCaller[c].pc = "start"
    /\ ChGoto(c, IF chRunning # 0 THEN "idle" ELSE "launch")
    /\ UNCHANGED <<chStored, chRunning, chRun, chRequests>>

(* ... and, after the channel has been built, the entry and the goroutine; *)
(* building it may fail.                                                   *)
ChLaunch(c) ==
    /\ chCaller[c].pc = "launch"
    /\ ChGoto(c, "idle")
    /\ \/ \E g \in ChRuns :
             /\ chRun[g].state = "none"
             /\ \A h \in 1 .. g - 1 : chRun[h].state # "none"
             /\ chRunning' = g
             /\ chRun' = [chRun EXCEPT ![g] = [state |-> "live", cancelled |-> FALSE,
                                               ver |-> chCaller[c].ver]]
       \/ UNCHANGED <<chRunning, chRun>>
    /\ UNCHANGED <<chStored, chRequests>>

(* The channel's Start returns, on an error or once it is cancelled. *)
ChReturns(g) ==
    /\ chRun[g].state = "live"
    /\ chRun' = [chRun EXCEPT ![g].state = "exiting"]
    /\ UNCHANGED <<chStored, chRunning, chCaller, chRequests>>

(* Mutant: the entry stays. *)
ChExitsKeeping(g) ==
    /\ chRun[g].state = "exiting"
    /\ chRun' = [chRun EXCEPT ![g].state = "gone"]
    /\ UNCHANGED <<chStored, chRunning, chCaller, chRequests>>

(* The goroutine deletes the entry of its instance, whosever it is by now. *)
ChExits(g) ==
    /\ chRun[g].state = "exiting"
    /\ chRun' = [chRun EXCEPT ![g].state = "gone"]
    /\ chRunning' = 0
    /\ UNCHANGED <<chStored, chCaller, chRequests>>

ChStep(c) == ChLook(c) \/ ChStop(c) \/ ChWaited(c) \/ ChCheck(c) \/ ChLaunch(c) \/ ChRemove(c)

ChannelNext ==
    \/ \E c \in Callers : \/ \E enabled \in BOOLEAN : ChSave(c, enabled)
                          \/ ChDelete(c) \/ ChCredential(c) \/ ChStep(c)
    \/ \E g \in ChRuns : ChReturns(g) \/ ChExits(g)

ChannelSpec == ChannelInit /\ [][ChannelNext]_channelVars

-----------------------------------------------------------------------------
(* Properties.                                                             *)

(* Entries, goroutines and requests have their types. *)
ChannelTypeOK ==
    /\ chRunning \in 0 .. MaxStarts
    /\ \A g \in ChRuns : chRun[g].state \in {"none", "live", "exiting", "gone"}
    /\ \A c \in Callers : chCaller[c].pc \in {"idle", "update", "disable", "stop", "wait", "start",
                                               "launch", "remove"}

(* What the dashboard shows as running is served by a goroutine that has   *)
(* not ended, and StopInstance can cancel it: no entry outlives its        *)
(* goroutine, whoever registers or removes entries meanwhile.              *)
RegisteredRuns ==
    chRunning # 0 => chRun[chRunning].state \in {"live", "exiting"} /\ ~chRun[chRunning].cancelled

(* A channel that was told to stop ends, and leaves no entry behind. *)
CancelledEnds == \A g \in ChRuns :
    chRun[g].cancelled ~> chRun[g].state = "gone" /\ chRunning # g
=============================================================================
