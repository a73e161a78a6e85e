---------------------------- MODULE Confirmations ----------------------------
(***************************************************************************)
(* Confirmations of operations in a Telegram chat: the question with its   *)
(* buttons, the click, the wait, a newer question, the deadline.           *)
(* Code: internal/channel/telegram/confirm.go and the dispatch loop of     *)
(* telegram.go.                                                            *)
(*                                                                         *)
(* One group chat.  Updates are dispatched one at a time; the operations   *)
(* run in goroutines of their own.  A message keeps its buttons until an   *)
(* edit, which may fail, removes them, so that any of them can be clicked  *)
(* at any time after it was sent.                                          *)
(***************************************************************************)
EXTENDS Naturals, FiniteSets

CONSTANTS
    CfOps,   \* operations to confirm; an operation stands for its nonce and message
    CfUsers  \* the people in the chat who may use the bot

Verdicts == {"1", "0"}

VARIABLES
    cfSender,  \* confirmSenders of the chat: who wrote last
    cfOp,      \* Confirm of each operation: where it is, who is expected, replyCh
    cfPending, \* confirmState.pending
    cfLate,    \* operations past ExpiresAt
    cfHand,    \* HandleConfirmCallback between takeBound and the send
    cfYes,     \* history: operations whose expected user said yes in time ...
    cfNo       \* ... or no, or whose question was replaced before an answer

cfVars == <<cfSender, cfOp, cfPending, cfLate, cfHand, cfYes, cfNo>>

CfNone == [op |-> "none", verdict |-> "none"]

CfInit ==
    /\ cfSender = "none"
    /\ cfOp = [o \in CfOps |-> [pc |-> "idle", from |-> "none", ch |-> "none"]]
    /\ cfPending = {} /\ cfLate = {} /\ cfHand = CfNone
    /\ cfYes = {} /\ cfNo = {}

\* RecordTurnSender, for every message of the chat.
CfMessage(u) ==
    /\ cfHand = CfNone /\ cfSender # u
    /\ cfSender' = u
    /\ UNCHANGED <<cfOp, cfPending, cfLate, cfHand, cfYes, cfNo>>

\* ConfirmerFor, in the assistant: the answer is expected from who wrote last.
CfConfirmerFor(o) ==
    /\ cfOp[o].pc = "idle" /\ cfSender # "none"
    /\ cfOp' = [cfOp EXCEPT ![o].pc = "ready", ![o].from = cfSender]
    /\ UNCHANGED <<cfSender, cfPending, cfLate, cfHand, cfYes, cfNo>>

\* Confirm sends the question, or cannot; it is registered only afterwards.
CfAsk(o) ==
    /\ cfOp[o].pc = "ready"
    /\ \E pc \in {"sent", "failed"} : cfOp' = [cfOp EXCEPT ![o].pc = pc]
    /\ UNCHANGED <<cfSender, cfPending, cfLate, cfHand, cfYes, cfNo>>

\* A send on the buffered channel, dropped when it is full.
CfReply(op, v) == [op EXCEPT !.ch = IF @ = "none" THEN v ELSE @]

\* Mutant: older questions stay answerable.
CfReplacedNone(o) == {}

\* The questions that a new one of o replaces.
CfReplaced(o) == {q \in cfPending : q # o /\ cfOp[q].from = cfOp[o].from}

\* confirmState.set
CfSet(o) ==
    /\ cfOp[o].pc = "sent"
    /\ cfPending' = (cfPending \ CfReplaced(o)) \union {o}
    /\ cfOp' = [q \in CfOps |-> IF q \in CfReplaced(o) THEN CfReply(cfOp[q], "0")
                                ELSE IF q = o THEN [cfOp[o] EXCEPT !.pc = "waiting"]
                                ELSE cfOp[q]]
    /\ cfNo' = cfNo \union CfReplaced(o)
    /\ UNCHANGED <<cfSender, cfLate, cfHand, cfYes>>

\* takeBound accepts a click of u on the message of o.
CfBound(o, u) == o \in cfPending /\ o \notin cfLate /\ cfOp[o].from = u

\* HandleConfirmCallback: a click is accepted, which uses up the nonce, or
\* answered as no longer active; an expired question is forgotten.
CfClick(o, u, v) ==
    /\ cfHand = CfNone
    /\ cfOp[o].pc \notin {"idle", "ready", "failed"}
    /\ \/ /\ CfBound(o, u)
          /\ cfPending' = cfPending \ {o}
          /\ cfHand' = [op |-> o, verdict |-> v]
          /\ cfYes' = IF v = "1" /\ cfOp[o].from = u /\ o \notin cfLate
                      THEN cfYes \union {o} ELSE cfYes
          /\ cfNo' = IF v = "0" THEN cfNo \union {o} ELSE cfNo
       \/ /\ o \in cfPending \intersect cfLate
          /\ cfPending' = cfPending \ {o}
          /\ UNCHANGED <<cfHand, cfYes, cfNo>>
    /\ UNCHANGED <<cfSender, cfOp, cfLate>>

\* ... and its verdict sent to whoever waits.
CfSend ==
    /\ cfHand # CfNone
    /\ cfOp' = [cfOp EXCEPT ![cfHand.op] = CfReply(@, cfHand.verdict)]
    /\ cfHand' = CfNone
    /\ UNCHANGED <<cfSender, cfPending, cfLate, cfYes, cfNo>>

CfExpires(o) ==
    /\ cfOp[o].pc \in {"ready", "sent", "waiting"} /\ o \notin cfLate
    /\ cfLate' = cfLate \union {o}
    /\ UNCHANGED <<cfSender, cfOp, cfPending, cfHand, cfYes, cfNo>>

\* The select of Confirm and its deferred abandon: a verdict, the deadline,
\* or the turn is cancelled; with several ready it takes any.
CfReturn(o) ==
    /\ cfOp[o].pc = "waiting"
    /\ \/ /\ cfOp[o].ch # "none"
          /\ cfOp' = [cfOp EXCEPT ![o].pc = IF cfOp[o].ch = "1" THEN "approved" ELSE "denied"]
       \/ /\ o \in cfLate
          /\ cfOp' = [cfOp EXCEPT ![o].pc = "timeout"]
    /\ cfPending' = cfPending \ {o}
    /\ UNCHANGED <<cfSender, cfLate, cfHand, cfYes, cfNo>>

CfCancelled(o) ==
    /\ cfOp[o].pc = "waiting"
    /\ cfOp' = [cfOp EXCEPT ![o].pc = "cancelled"]
    /\ cfPending' = cfPending \ {o}
    /\ UNCHANGED <<cfSender, cfLate, cfHand, cfYes, cfNo>>

CfNext ==
    \/ \E u \in CfUsers : CfMessage(u)
    \/ \E o \in CfOps :
          \/ CfConfirmerFor(o) \/ CfAsk(o) \/ CfSet(o) \/ CfExpires(o) \/ CfReturn(o)
          \/ CfCancelled(o)
          \/ \E u \in CfUsers, v \in Verdicts : CfClick(o, u, v)
    \/ CfSend

CfSpec == CfInit /\ [][CfNext]_cfVars

-----------------------------------------------------------------------------
(* Properties.                                                             *)

CfOver == {"approved", "denied", "timeout", "cancelled", "failed"}

\* Questions, answers and senders have their types.
CfTypeOK ==
    /\ cfSender \in CfUsers \union {"none"}
    /\ \A o \in CfOps : /\ cfOp[o].pc \in {"idle", "ready", "sent", "waiting"} \union CfOver
                        /\ cfOp[o].from \in CfUsers \union {"none"}
                        /\ cfOp[o].ch \in Verdicts \union {"none"}
    /\ cfPending \subseteq CfOps /\ cfLate \subseteq CfOps

\* An operation is approved only by the click of the user it was bound to,
\* made in time, and never once it was denied or replaced by a newer
\* question: whatever the order of click, replacement and deadline.
CfApprovedRightly == \A o \in CfOps : cfOp[o].pc = "approved" => o \in cfYes \ cfNo

\* At any time one question per person can be answered, and only one that
\* somebody still waits for.
CfOneAnswerable ==
    /\ \A o, q \in cfPending : cfOp[o].from = cfOp[q].from => o = q
    /\ \A o \in cfPending : cfOp[o].pc = "waiting" /\ cfOp[o].ch = "none"

\* Every question comes to an end: by an answer, its deadline or the turn's.
CfSettles == \A o \in CfOps : cfOp[o].pc \in {"ready", "sent", "waiting"} ~> cfOp[o].pc \in CfOver

\* Both at once, in every order of questions, clicks, sends and deadlines.
CfSafe == CfApprovedRightly /\ CfOneAnswerable
=============================================================================
