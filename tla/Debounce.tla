------------------------------ MODULE Debounce ------------------------------
(***************************************************************************)
(* The debouncer of a chat channel: messages of a chat that come in quick  *)
(* succession are buffered and handed to the assistant as one, when the    *)
(* chat has been quiet for a while or the channel stops.                   *)
(* Code: internal/channel/slack/debounce.go and, without the wait group,   *)
(* internal/channel/telegram/debounce.go; window > 0.                      *)
(*                                                                         *)
(* A timer outlives its buffer: one that has fired and is then reset fires *)
(* again.  The callback of a timer waits for the mutex, takes whatever     *)
(* buffer its chat then has, and calls the handler outside the mutex.      *)
(***************************************************************************)
EXTENDS Integers, FiniteSets

CONSTANTS
    DbMsgs,   \* messages
    DbChatOf, \* the chat of each
    DbWaits   \* Slack: flushAll waits for the callbacks; Telegram: it does not

DbChats == {DbChatOf[m] : m \in DbMsgs}

ASSUME DbAssumption == DbWaits \in BOOLEAN

VARIABLES
    dbBuf,   \* buffers, each with its messages and whether its timer is armed
    dbLoose, \* armed timers of buffers that are gone, by chat
    dbFired, \* callbacks that wait for the mutex, by chat
    dbTaken, \* buffers taken, not handed over: the messages, and by whom
    dbWG,    \* timerWG; below zero, Done panics
    dbPc,    \* "run"; flushAll: "flush", then "ended"
    dbStop,  \* flushAll: the chats left, "stopped" where Stop was in time
    dbSent,  \* messages that add was called with
    dbDone   \* messages the handler was called with

dbVars == <<dbBuf, dbLoose, dbFired, dbTaken, dbWG, dbPc, dbStop, dbSent, dbDone>>

DbNone == [on |-> FALSE, msgs |-> {}, armed |-> FALSE]

DbInit ==
    /\ dbBuf = [c \in DbChats |-> DbNone]
    /\ dbLoose = [c \in DbChats |-> 0] /\ dbFired = [c \in DbChats |-> 0]
    /\ dbTaken = {} /\ dbWG = 0
    /\ dbPc = "run" /\ dbStop = [c \in DbChats |-> "no"]
    /\ dbSent = {} /\ dbDone = {}

\* The process is there: no panic, and the channel has not stopped.
DbUp == dbWG >= 0 /\ dbPc # "ended"

WG(n) == IF DbWaits THEN n ELSE 0

\* Mutant: the timer is stopped and not reset.
DbBufferedStopped(c, m) == [on |-> TRUE, msgs |-> dbBuf[c].msgs \union {m}, armed |-> ~dbBuf[c].on]

\* The buffer with one more message; its timer is reset, fired or not.
DbBuffered(c, m) == [on |-> TRUE, msgs |-> dbBuf[c].msgs \union {m}, armed |-> TRUE]

\* add
DbAdd(m) ==
    LET c == DbChatOf[m] IN
    /\ DbUp /\ dbPc = "run" /\ m \notin dbSent
    /\ dbSent' = dbSent \union {m}
    /\ dbBuf' = [dbBuf EXCEPT ![c] = DbBuffered(c, m)]
    /\ dbWG' = IF dbBuf[c].on THEN dbWG ELSE dbWG + WG(1)
    /\ UNCHANGED <<dbLoose, dbFired, dbTaken, dbPc, dbStop, dbDone>>

\* The timer of a buffer fires: its callback starts.
DbFire(c) ==
    /\ DbUp
    /\ \/ /\ dbBuf[c].armed
          /\ dbBuf' = [dbBuf EXCEPT ![c].armed = FALSE]
          /\ UNCHANGED dbLoose
       \/ /\ dbLoose[c] > 0
          /\ dbLoose' = [dbLoose EXCEPT ![c] = @ - 1]
          /\ UNCHANGED dbBuf
    /\ dbFired' = [dbFired EXCEPT ![c] = @ + 1]
    /\ UNCHANGED <<dbTaken, dbWG, dbPc, dbStop, dbSent, dbDone>>

\* flush takes the buffer that the chat has; its timer may still be armed.
DbTake(c, by) ==
    /\ dbTaken' = dbTaken \union {[msgs |-> dbBuf[c].msgs, by |-> by]}
    /\ dbBuf' = [dbBuf EXCEPT ![c] = DbNone]
    /\ dbLoose' = [dbLoose EXCEPT ![c] = IF dbBuf[c].armed THEN @ + 1 ELSE @]

\* A callback gets the mutex.
DbFlush(c) ==
    /\ DbUp /\ dbFired[c] > 0
    /\ dbFired' = [dbFired EXCEPT ![c] = @ - 1]
    /\ \/ dbBuf[c].on /\ DbTake(c, "timer") /\ UNCHANGED dbWG
       \/ /\ ~dbBuf[c].on
          /\ dbWG' = dbWG - WG(1)
          /\ UNCHANGED <<dbBuf, dbLoose, dbTaken>>
    /\ UNCHANGED <<dbPc, dbStop, dbSent, dbDone>>

\* The handler takes the merged message; a callback then ends.
DbHandle(b) ==
    /\ DbUp /\ b \in dbTaken
    /\ dbTaken' = dbTaken \ {b}
    /\ dbDone' = dbDone \union b.msgs
    /\ dbWG' = dbWG - (IF b.by = "timer" THEN WG(1) ELSE 0)
    /\ UNCHANGED <<dbBuf, dbLoose, dbFired, dbPc, dbStop, dbSent>>

\* flushAll: the timers of the buffers are stopped ...
DbFlushAll ==
    /\ DbUp /\ dbPc = "run"
    /\ dbPc' = "flush"
    /\ dbStop' = [c \in DbChats |-> CASE dbBuf[c].on /\ dbBuf[c].armed -> "stopped"
                                      [] dbBuf[c].on /\ ~dbBuf[c].armed -> "fired"
                                      [] OTHER -> "no"]
    /\ dbBuf' = [c \in DbChats |-> [dbBuf[c] EXCEPT !.armed = FALSE]]
    /\ UNCHANGED <<dbLoose, dbFired, dbTaken, dbWG, dbSent, dbDone>>

DbFlushing == \E b \in dbTaken : b.by = "stop"

\* ... the buffers flushed one by one ...
DbStopFlush(c) ==
    /\ DbUp /\ dbPc = "flush" /\ ~DbFlushing
    /\ dbStop[c] # "no"
    /\ dbStop' = [dbStop EXCEPT ![c] = "no"]
    /\ dbWG' = dbWG - (IF dbStop[c] = "stopped" THEN WG(1) ELSE 0)
    /\ \/ dbBuf[c].on /\ DbTake(c, "stop")
       \/ ~dbBuf[c].on /\ UNCHANGED <<dbBuf, dbLoose, dbTaken>>
    /\ UNCHANGED <<dbFired, dbPc, dbSent, dbDone>>

\* ... and, in Slack, the callbacks waited for.  Start returns.
DbEnd ==
    /\ DbUp /\ dbPc = "flush" /\ ~DbFlushing
    /\ \A c \in DbChats : dbStop[c] = "no"
    /\ dbWG = 0
    /\ dbPc' = "ended"
    /\ UNCHANGED <<dbBuf, dbLoose, dbFired, dbTaken, dbWG, dbStop, dbSent, dbDone>>

DbNext ==
    \/ \E m \in DbMsgs : DbAdd(m)
    \/ \E c \in DbChats : DbFire(c) \/ DbFlush(c) \/ DbStopFlush(c)
    \/ \E b \in dbTaken : DbHandle(b)
    \/ DbFlushAll \/ DbEnd

DbSpec == DbInit /\ [][DbNext]_dbVars

-----------------------------------------------------------------------------
(* Properties.                                                             *)

\* Buffers, timers and callbacks have their types; only a buffer has a timer.
DbTypeOK ==
    /\ \A c \in DbChats : /\ dbBuf[c].msgs \subseteq DbMsgs
                          /\ dbBuf[c].armed => dbBuf[c].on
                          /\ dbLoose[c] \in Nat /\ dbFired[c] \in Nat
    /\ dbWG \in Int /\ dbPc \in {"run", "flush", "ended"}
    /\ dbSent \subseteq DbMsgs /\ dbDone \subseteq DbMsgs

\* Nothing is dropped and nothing handed over twice, however timers, resets
\* and the stop interleave: a message is in one buffer, in one batch or done.
DbOnePlace ==
    \A m \in dbSent :
        Cardinality({c \in DbChats : m \in dbBuf[c].msgs})
            + Cardinality({b \in dbTaken : m \in b.msgs})
            + (IF m \in dbDone THEN 1 ELSE 0) = 1

\* A buffer always has something that will flush it: an armed timer, a
\* callback on its way or flushAll.
DbNoOrphan ==
    \A c \in DbChats : dbBuf[c].on => dbBuf[c].armed \/ dbFired[c] > 0 \/ dbStop[c] # "no"

\* Each Add on timerWG is balanced by one Done.  (slack/debounce.go)
DbBalanced == dbWG >= 0

\* Again and again everything that came is handed over, unless the process
\* stops before.
DbDelivered == []<>(dbSent = dbDone \/ ~DbUp)

\* Both at once: nothing is lost, and nothing is left lying.
DbSafe == DbOnePlace /\ DbNoOrphan
=============================================================================
