---------------------------- MODULE TalkProofs ----------------------------
(***************************************************************************)
(* Proofs about what is agreed in a conversation: the answer to a          *)
(* question, the approval of a tool call and what the assistant's turns    *)
(* make of it, and the budget sub-agents share.                            *)
(***************************************************************************)
EXTENDS Debounce, Confirmations, AssistantTurns, Orchestrator, FiniteSetTheorems,
        WellFoundedInduction, TLAPS

-----------------------------------------------------------------------------
(* Confirmations.                                                          *)

CfRec == [pc : {"idle", "ready", "sent", "waiting"} \union CfOver,
          from : CfUsers \union {"none"}, ch : Verdicts \union {"none"}]

CfTyped ==
    /\ cfSender \in CfUsers \union {"none"}
    /\ cfOp \in [CfOps -> CfRec]
    /\ cfPending \subseteq CfOps /\ cfLate \subseteq CfOps
    /\ cfHand \in {CfNone} \union [op : CfOps, verdict : Verdicts]
    /\ cfYes \subseteq CfOps /\ cfNo \subseteq CfOps

(* The click on the question of o is accepted and its verdict not yet sent. *)
Taken(o) == cfHand # CfNone /\ cfHand.op = o

(* A yes, in hand, in the channel or returned, was given by the one it was *)
(* asked of and not taken back.                                            *)
YesStands(o) ==
    /\ Taken(o) => o \notin cfPending /\ (cfHand.verdict = "1" => o \in cfYes \ cfNo)
    /\ cfOp[o].ch = "1" => o \in cfYes \ cfNo
    /\ cfOp[o].pc = "approved" => o \in cfYes \ cfNo

(* A question that is still to be asked or answered has no answer yet.     *)
Unanswered(o) ==
    /\ cfOp[o].pc \in {"idle", "ready", "sent"} \/ o \in cfPending =>
          o \notin cfNo /\ cfOp[o].ch = "none" /\ ~Taken(o)
    /\ o \in cfPending => cfOp[o].pc = "waiting"

OnePerPerson == \A o, q \in cfPending : cfOp[o].from = cfOp[q].from => o = q

CfIInv ==
    /\ CfTyped
    /\ \A o \in CfOps : YesStands(o) /\ Unanswered(o)
    /\ OnePerPerson

(* The first state.                                                        *)
LEMMA CfInitInv == CfInit => CfIInv
<1> SUFFICES ASSUME CfInit PROVE CfIInv  OBVIOUS
<1>1. CfTyped  BY DEF CfInit, CfTyped, CfRec
<1>2. \A o \in CfOps : YesStands(o) /\ Unanswered(o)
  BY DEF CfInit, YesStands, Unanswered, Taken
<1>3. OnePerPerson  BY DEF CfInit, OnePerPerson
<1> QED  BY <1>1, <1>2, <1>3 DEF CfIInv

(* A step about one operation that leaves the pending questions, or takes  *)
(* this one out of them.                                                   *)
LEMMA CfOneMoves ==
    ASSUME CfIInv, NEW o \in CfOps, NEW r \in CfRec, cfOp' = [cfOp EXCEPT ![o] = r],
           cfPending' = cfPending \/ cfPending' = cfPending \ {o},
           cfHand' = cfHand, cfYes' = cfYes, cfNo' = cfNo, cfLate' \subseteq CfOps,
           cfSender' = cfSender,
           r.ch = cfOp[o].ch, r.pc = "approved" => r.ch = "1" \/ cfOp[o].pc = "approved",
           o \in cfPending' => r.pc = "waiting" /\ r.from = cfOp[o].from,
           r.pc \in {"idle", "ready", "sent"} => cfOp[o].pc \in {"idle", "ready", "sent"}
    PROVE  CfIInv'
<1>1. CfTyped'  BY DEF CfIInv, CfTyped
<1>2. cfOp \in [CfOps -> CfRec] /\ cfPending \subseteq CfOps
      /\ \A q \in CfOps : YesStands(q) /\ Unanswered(q)
  BY DEF CfIInv, CfTyped
<1>3. ASSUME NEW q \in CfOps PROVE (YesStands(q) /\ Unanswered(q))'
  <2>1. CASE q = o
    <3>1. cfOp'[q] = r  BY <1>2, <2>1
    <3> QED  BY <1>2, <2>1, <3>1 DEF YesStands, Unanswered, Taken
  <2>2. CASE q # o
    <3>1. cfOp'[q] = cfOp[q] /\ (q \in cfPending' <=> q \in cfPending)  BY <1>2, <2>2
    <3> QED  BY <1>2, <3>1 DEF YesStands, Unanswered, Taken
  <2> QED  BY <2>1, <2>2
<1>4. OnePerPerson'
  <2>1. \A q \in cfPending' : q \in cfPending /\ cfOp'[q].from = cfOp[q].from  BY <1>2
  <2> QED  BY <2>1 DEF CfIInv, OnePerPerson
<1> QED  BY <1>1, <1>3, <1>4 DEF CfIInv

(* Every step but the new question, the click and the sent verdict.        *)
LEMMA CfMovesInv ==
    ASSUME CfIInv, NEW o \in CfOps,
           CfConfirmerFor(o) \/ CfAsk(o) \/ CfReturn(o) \/ CfCancelled(o)
    PROVE  CfIInv'
<1>1. /\ cfOp \in [CfOps -> CfRec] /\ cfOp[o] \in CfRec /\ cfSender \in CfUsers \union {"none"}
      /\ cfLate \subseteq CfOps /\ YesStands(o) /\ Unanswered(o)
  BY DEF CfIInv, CfTyped
<1>2. CASE CfConfirmerFor(o)
  <2> DEFINE r == [cfOp[o] EXCEPT !.pc = "ready", !.from = cfSender]
  <2>1. r \in CfRec /\ r.pc = "ready" /\ r.ch = cfOp[o].ch  BY <1>1 DEF CfRec
  <2>2. cfOp' = [cfOp EXCEPT ![o] = r]  BY <1>1, <1>2 DEF CfConfirmerFor, CfRec
  <2>3. o \notin cfPending  BY <1>1, <1>2 DEF CfConfirmerFor, Unanswered
  <2>4. cfOp[o].pc = "idle" /\ UNCHANGED <<cfSender, cfPending, cfLate, cfHand, cfYes, cfNo>>
    BY <1>2 DEF CfConfirmerFor
  <2> HIDE DEF r
  <2> QED  BY <1>1, <2>1, <2>2, <2>3, <2>4, CfOneMoves
<1>3. ASSUME NEW pc \in {"sent", "failed"}, CfAsk(o), cfOp' = [cfOp EXCEPT ![o].pc = pc]
      PROVE  CfIInv'
  <2> DEFINE r == [cfOp[o] EXCEPT !.pc = pc]
  <2>1. r \in CfRec /\ r.pc = pc /\ r.ch = cfOp[o].ch  BY <1>1 DEF CfRec, CfOver
  <2>2. cfOp' = [cfOp EXCEPT ![o] = r]  BY <1>3
  <2>3. o \notin cfPending  BY <1>1, <1>3 DEF CfAsk, Unanswered
  <2>4. cfOp[o].pc = "ready" /\ UNCHANGED <<cfSender, cfPending, cfLate, cfHand, cfYes, cfNo>>
    BY <1>3 DEF CfAsk
  <2> HIDE DEF r
  <2> QED  BY <1>1, <2>1, <2>2, <2>3, <2>4, CfOneMoves
<1>4. ASSUME NEW pc \in {"approved", "denied", "timeout", "cancelled"},
             cfOp' = [cfOp EXCEPT ![o].pc = pc], pc = "approved" => cfOp[o].ch = "1",
             cfPending' = cfPending \ {o},
             UNCHANGED <<cfSender, cfLate, cfHand, cfYes, cfNo>>
      PROVE  CfIInv'
  <2> DEFINE r == [cfOp[o] EXCEPT !.pc = pc]
  <2>1. r \in CfRec /\ r.pc = pc /\ r.ch = cfOp[o].ch  BY <1>1 DEF CfRec, CfOver
  <2>2. cfOp' = [cfOp EXCEPT ![o] = r]  BY <1>4
  <2> HIDE DEF r
  <2> QED  BY <1>1, <1>4, <2>1, <2>2, CfOneMoves
<1>5. CASE CfReturn(o) \/ CfCancelled(o)
  <2>1. /\ cfPending' = cfPending \ {o} /\ UNCHANGED <<cfSender, cfLate, cfHand, cfYes, cfNo>>
        /\ \E pc \in {"approved", "denied", "timeout", "cancelled"} :
              cfOp' = [cfOp EXCEPT ![o].pc = pc] /\ (pc = "approved" => cfOp[o].ch = "1")
    BY <1>5 DEF CfReturn, CfCancelled
  <2> QED  BY <1>4, <2>1
<1> QED  BY <1>2, <1>3, <1>5 DEF CfAsk

(* A new question replaces those of the same person.                       *)
LEMMA CfSetInv == ASSUME CfIInv, NEW o \in CfOps, CfSet(o) PROVE CfIInv'
<1>1. /\ CfTyped /\ cfOp \in [CfOps -> CfRec] /\ cfPending \subseteq CfOps
      /\ \A q \in CfOps : YesStands(q) /\ Unanswered(q)
  BY DEF CfIInv, CfTyped
<1> DEFINE W == [cfOp[o] EXCEPT !.pc = "waiting"]
<1>2. W \in CfRec /\ W.pc = "waiting" /\ W.ch = cfOp[o].ch /\ W.from = cfOp[o].from
  BY <1>1 DEF CfRec
<1> HIDE DEF W
<1>3. ASSUME NEW q \in CfReplaced(o)
      PROVE  /\ q \in CfOps /\ q \in cfPending /\ q # o /\ cfOp[q].from = cfOp[o].from
             /\ CfReply(cfOp[q], "0") \in CfRec
             /\ CfReply(cfOp[q], "0").ch = "0" /\ CfReply(cfOp[q], "0").pc = "waiting"
  <2>1. q \in CfOps /\ q \in cfPending /\ q # o /\ cfOp[q].from = cfOp[o].from
    BY <1>1, <1>3 DEF CfReplaced
  <2>2. cfOp[q] \in CfRec /\ cfOp[q].ch = "none" /\ cfOp[q].pc = "waiting"
    BY <1>1, <2>1 DEF Unanswered
  <2> QED  BY <2>1, <2>2 DEF CfReply, CfRec, Verdicts
<1>4. /\ cfPending' = (cfPending \ CfReplaced(o)) \union {o}
      /\ \A q \in CfReplaced(o) : cfOp'[q] = CfReply(cfOp[q], "0")
      /\ cfOp'[o] = W
      /\ \A q \in CfOps : q \notin CfReplaced(o) /\ q # o => cfOp'[q] = cfOp[q]
      /\ cfNo' = cfNo \union CfReplaced(o)
      /\ UNCHANGED <<cfSender, cfLate, cfHand, cfYes>>
      /\ cfOp[o].pc = "sent"
  BY <1>3 DEF CfSet, W
<1>5. cfOp' \in [CfOps -> CfRec]
  <2>1. \A q \in CfOps : cfOp'[q] \in CfRec  BY <1>1, <1>2, <1>3, <1>4
  <2>2. cfOp' = [q \in CfOps |-> cfOp'[q]]  BY DEF CfSet
  <2> QED  BY <2>1, <2>2
<1>6. CfTyped'  BY <1>1, <1>3, <1>4, <1>5 DEF CfTyped
<1>7. ASSUME NEW q \in CfOps PROVE (YesStands(q) /\ Unanswered(q))'
  <2>1. Taken(q)' = Taken(q) /\ cfHand' = cfHand  BY <1>4 DEF Taken
  <2>2. CASE q = o
    <3>1. q \notin CfReplaced(o) /\ cfOp[q].pc = "sent"  BY <1>3, <1>4, <2>2
    <3> QED  BY <1>1, <1>2, <1>4, <2>1, <2>2, <3>1 DEF YesStands, Unanswered
  <2>3. CASE q \in CfReplaced(o)
    <3>1. q \notin cfPending' /\ ~Taken(q)  BY <1>1, <1>3, <1>4, <2>3 DEF Unanswered
    <3> QED  BY <1>3, <1>4, <2>1, <2>3, <3>1 DEF YesStands, Unanswered
  <2>4. CASE q # o /\ q \notin CfReplaced(o)
    BY <1>1, <1>4, <2>1, <2>4 DEF YesStands, Unanswered
  <2> QED  BY <2>2, <2>3, <2>4
<1>8. OnePerPerson'
  <2>1. \A q \in cfPending' : cfOp'[q].from = cfOp[q].from  BY <1>1, <1>2, <1>4
  <2>2. \A q \in cfPending' : q = o \/ (q \in cfPending /\ cfOp[q].from # cfOp[o].from)
    BY <1>4 DEF CfReplaced
  <2> QED  BY <2>1, <2>2 DEF CfIInv, OnePerPerson
<1> QED  BY <1>6, <1>7, <1>8 DEF CfIInv

(* A click, accepted or not.                                               *)
LEMMA CfClickInv ==
    ASSUME CfIInv, NEW o \in CfOps, NEW u \in CfUsers, NEW v \in Verdicts, CfClick(o, u, v)
    PROVE  CfIInv'
<1>1. /\ CfTyped /\ cfOp \in [CfOps -> CfRec] /\ cfPending \subseteq CfOps
      /\ \A q \in CfOps : YesStands(q) /\ Unanswered(q)
      /\ cfHand = CfNone /\ o \in cfPending /\ cfPending' = cfPending \ {o}
      /\ UNCHANGED <<cfSender, cfOp, cfLate>>
  BY DEF CfIInv, CfTyped, CfClick, CfBound
<1>2. OnePerPerson'  BY <1>1 DEF CfIInv, OnePerPerson
<1>3. CASE UNCHANGED <<cfHand, cfYes, cfNo>>
  <2>1. CfTyped'  BY <1>1, <1>3 DEF CfTyped
  <2>2. \A q \in CfOps : (YesStands(q) /\ Unanswered(q))'
    BY <1>1, <1>3 DEF YesStands, Unanswered, Taken
  <2> QED  BY <1>2, <2>1, <2>2 DEF CfIInv
<1>4. CASE /\ cfHand' = [op |-> o, verdict |-> v]
           /\ cfYes' = IF v = "1" THEN cfYes \union {o} ELSE cfYes
           /\ cfNo' = IF v = "0" THEN cfNo \union {o} ELSE cfNo
  <2>1. CfTyped'  BY <1>1, <1>4 DEF CfTyped
  <2>2. cfHand'.op = o /\ cfHand'.verdict = v /\ v \in {"0", "1"}  BY <1>4 DEF Verdicts
  <2>3. ASSUME NEW q \in CfOps PROVE (YesStands(q) /\ Unanswered(q))'
    <3>1. CASE q = o
      <4>1. o \notin cfNo /\ cfOp[o].ch = "none" /\ cfOp[o].pc = "waiting"
        BY <1>1 DEF Unanswered
      <4> QED  BY <1>1, <1>4, <2>2, <3>1, <4>1 DEF YesStands, Unanswered, Taken
    <3>2. CASE q # o
      <4>1. ~Taken(q)' /\ ~Taken(q)  BY <1>1, <2>2, <3>2 DEF Taken
      <4> QED  BY <1>1, <1>4, <3>2, <4>1 DEF YesStands, Unanswered
    <3> QED  BY <3>1, <3>2
  <2> QED  BY <1>2, <2>1, <2>3 DEF CfIInv
<1> QED  BY <1>1, <1>3, <1>4 DEF CfClick, CfBound

(* The verdict reaches the channel, unless there is one.                   *)
LEMMA CfSendInv == ASSUME CfIInv, CfSend PROVE CfIInv'
<1>1. /\ CfTyped /\ cfOp \in [CfOps -> CfRec] /\ cfPending \subseteq CfOps
      /\ \A q \in CfOps : YesStands(q) /\ Unanswered(q)
      /\ cfHand # CfNone /\ cfHand \in [op : CfOps, verdict : Verdicts]
  BY DEF CfIInv, CfTyped, CfSend
<1> DEFINE o == cfHand.op
           r == CfReply(cfOp[o], cfHand.verdict)
<1>2. o \in CfOps /\ cfOp[o] \in CfRec /\ Taken(o)  BY <1>1 DEF Taken
<1>3. /\ r \in CfRec /\ r.pc = cfOp[o].pc /\ r.from = cfOp[o].from
      /\ r.ch = cfOp[o].ch \/ r.ch = cfHand.verdict
  BY <1>1, <1>2 DEF CfReply, CfRec
<1>4. /\ cfOp' = [cfOp EXCEPT ![o] = r] /\ cfHand' = CfNone
      /\ UNCHANGED <<cfSender, cfPending, cfLate, cfYes, cfNo>>
  BY DEF CfSend
<1> HIDE DEF r
<1>5. CfTyped'  BY <1>1, <1>2, <1>3, <1>4 DEF CfTyped
<1>6. ASSUME NEW q \in CfOps PROVE (YesStands(q) /\ Unanswered(q))'
  <2>1. ~Taken(q)'  BY <1>4 DEF Taken
  <2>2. CASE q = o
    <3>1. cfOp'[q] = r /\ q \notin cfPending'  BY <1>1, <1>2, <1>4, <2>2 DEF YesStands
    <3>2. cfOp[q].pc \notin {"idle", "ready", "sent"}  BY <1>1, <1>2, <2>2 DEF Unanswered
    <3> QED  BY <1>1, <1>2, <1>3, <1>4, <2>1, <2>2, <3>1, <3>2 DEF YesStands, Unanswered
  <2>3. CASE q # o
    <3>1. cfOp'[q] = cfOp[q] /\ ~Taken(q)  BY <1>1, <1>4, <2>3 DEF Taken
    <3> QED  BY <1>1, <1>4, <2>1, <3>1 DEF YesStands, Unanswered
  <2> QED  BY <2>2, <2>3
<1>7. OnePerPerson'
  <2>1. \A q \in cfPending' : q \in cfPending /\ cfOp'[q].from = cfOp[q].from
    BY <1>1, <1>2, <1>3, <1>4
  <2> QED  BY <2>1 DEF CfIInv, OnePerPerson
<1> QED  BY <1>5, <1>6, <1>7 DEF CfIInv

(* Every step keeps the invariant.                                         *)
LEMMA CfStepInv == ASSUME CfIInv, [CfNext]_cfVars PROVE CfIInv'
<1>1. CASE UNCHANGED <<cfOp, cfPending, cfHand, cfYes, cfNo>>
           /\ cfSender' \in CfUsers \union {"none"} /\ cfLate' \subseteq CfOps
  <2>1. CfTyped'  BY <1>1 DEF CfIInv, CfTyped
  <2>2. \A q \in CfOps : (YesStands(q) /\ Unanswered(q))'
    BY <1>1 DEF CfIInv, YesStands, Unanswered, Taken
  <2>3. OnePerPerson'  BY <1>1 DEF CfIInv, OnePerPerson
  <2> QED  BY <2>1, <2>2, <2>3 DEF CfIInv
<1>2. CASE UNCHANGED cfVars  BY <1>1, <1>2 DEF cfVars, CfIInv, CfTyped
<1>3. ASSUME NEW u \in CfUsers, CfMessage(u) PROVE CfIInv'
  BY <1>1, <1>3 DEF CfMessage, CfIInv, CfTyped
<1>4. ASSUME NEW o \in CfOps, CfExpires(o) PROVE CfIInv'
  BY <1>1, <1>4 DEF CfExpires, CfIInv, CfTyped
<1> QED  BY <1>2, <1>3, <1>4, CfMovesInv, CfSetInv, CfClickInv, CfSendInv DEF CfNext

(* An operation is approved only by whom it was put to, in time and before *)
(* a newer question, and one question per person can be answered: for any  *)
(* number of operations and people.                                        *)
THEOREM CfSafety == CfSpec => []CfSafe
<1>1. CfIInv => CfSafe
  BY DEF CfIInv, CfSafe, CfApprovedRightly, CfOneAnswerable, YesStands, Unanswered,
         OnePerPerson, CfTyped
<1> QED  BY <1>1, CfInitInv, CfStepInv, PTL DEF CfSpec

(* The invariant contains the types.                                       *)
LEMMA CfTypedOK == CfIInv => CfTypeOK
BY DEF CfIInv, CfTyped, CfTypeOK, CfRec
-----------------------------------------------------------------------------
(* The assistant's turns.                                                  *)

TurnShape(t) ==
    t \in [pc : {t.pc}, i : {t.i}, calls : {t.calls}, overflow : {t.overflow},
           batch : {t.batch}, ledger : {t.ledger}, taint : {t.taint}, replan : {t.replan},
           mcp : {t.mcp}, asked : {t.asked}, forced : {t.forced}, hard : {t.hard},
           hist : {t.hist}, out : {t.out}]

TurnFields(t) ==
    /\ t.pc \in {"new", "read", "compress", "llm", "tools", "done"}
    /\ t.i \in 0 .. AsMaxIter /\ t.calls \in Nat
    /\ t.overflow \in BOOLEAN /\ t.taint \in BOOLEAN /\ t.mcp \in BOOLEAN /\ t.forced \in BOOLEAN
    /\ t.out \in {"none", "error", "reply", "text"}

(* Two calls pay for an iteration, one more has overflowed.                *)
CallsPaid(t) ==
    /\ t.pc = "tools" => t.i < AsMaxIter /\ ~t.overflow /\ t.calls <= 2 * t.i + 2
    /\ t.pc \in {"read", "compress", "llm"} => t.calls <= 2 * t.i + (IF t.overflow THEN 1 ELSE 0)
    /\ t.pc \in {"new", "done"} => t.calls = 0
    /\ t.overflow => t.i < AsMaxIter

(* What a turn believes to have achieved, a tool it ran itself achieved.   *)
McpDone(ran, m) == \E r \in ran : r.of = m /\ r.by = m /\ r.good /\ r.tool \in AsMcp
ForcedDone(ran, m) == \E r \in ran : r.of = m /\ r.by = m /\ r.good /\ r.tool = AsForced[m]

Evidence(ran, m, t) ==
    /\ t.mcp => McpDone(ran, m)
    /\ t.forced => ForcedDone(ran, m)
    /\ t.out = "text" => /\ m \in AsMcpAsked => McpDone(ran, m)
                         /\ AsForced[m] # "none" => ForcedDone(ran, m)

TurnOk(ran, m, t) == TurnShape(t) /\ TurnFields(t) /\ CallsPaid(t) /\ Evidence(ran, m, t)

(* A call waits for approval when its turn is over; a turn that has seen   *)
(* remote output has none waiting outside the analysis set.                *)
PendingOk ==
    asPending # AsNoCall =>
        /\ asPending.of \in AsMsgs /\ asTurn[asPending.of].pc = "done"
        /\ AsNeedsApproval(asPending.of, asPending.tool)
        /\ asTurn[asPending.of].taint => asPending.tool \in AsAnalysis

RanOk(r) ==
    /\ r.tainted => r.tool \in AsAnalysis
    /\ AsNeedsApproval(r.of, r.tool) =>
          /\ r.of \in AsMsgs /\ asTurn[r.of].pc = "done"
          /\ asPending # AsNoCall => asPending.tool # r.tool \/ asPending.of # r.of
          /\ r.by # r.of /\ AsText[r.by] = "yes" /\ AsCanApprove(r.by, r)

RanOnce == \A r, q \in asRan :
    AsNeedsApproval(r.of, r.tool) /\ q.tool = r.tool /\ q.of = r.of => q = r

AsIInv ==
    /\ asTurn = [m \in AsMsgs |-> asTurn[m]]
    /\ \A m \in AsMsgs : TurnOk(asRan, m, asTurn[m])
    /\ PendingOk
    /\ \A r \in asRan : RanOk(r)
    /\ RanOnce

(* The first state.                                                        *)
LEMMA AsInitInv == AsInit => AsIInv
<1> SUFFICES ASSUME AsInit PROVE AsIInv  OBVIOUS
<1>1. TurnShape(AsIdle)  BY DEF TurnShape, AsIdle
<1>2. TurnFields(AsIdle) /\ CallsPaid(AsIdle)
  BY AsAssumption DEF TurnFields, CallsPaid, AsIdle
<1>3. \A m \in AsMsgs : Evidence(asRan, m, AsIdle)  BY DEF Evidence, AsIdle
<1>4. \A m \in AsMsgs : TurnOk(asRan, m, asTurn[m])
  BY <1>1, <1>2, <1>3 DEF AsInit, TurnOk
<1> QED  BY <1>4 DEF AsInit, AsIInv, PendingOk, RanOnce

(* One turn moves on, with more tools run than before.                     *)
LEMMA OneTurn ==
    ASSUME AsIInv, NEW m \in AsMsgs, NEW t, asTurn' = [asTurn EXCEPT ![m] = t],
           asTurn[m].pc # "done", asRan \subseteq asRan', TurnOk(asRan', m, t)
    PROVE  /\ asTurn' = [q \in AsMsgs |-> asTurn'[q]] /\ asTurn'[m] = t
           /\ \A q \in AsMsgs : TurnOk(asRan', q, asTurn'[q])
           /\ \A q \in AsMsgs : asTurn[q].pc = "done" => asTurn'[q] = asTurn[q]
<1>1. asTurn = [q \in AsMsgs |-> asTurn[q]] /\ \A q \in AsMsgs : TurnOk(asRan, q, asTurn[q])
  BY DEF AsIInv
<1>2. asTurn' = [q \in AsMsgs |-> asTurn'[q]] /\ asTurn'[m] = t
      /\ \A q \in AsMsgs \ {m} : asTurn'[q] = asTurn[q]
  BY <1>1
<1>3. ASSUME NEW q \in AsMsgs, q # m PROVE TurnOk(asRan', q, asTurn'[q])
  <2>1. TurnOk(asRan, q, asTurn[q]) /\ asTurn'[q] = asTurn[q]  BY <1>1, <1>2, <1>3
  <2>2. /\ McpDone(asRan, q) => McpDone(asRan', q)
        /\ ForcedDone(asRan, q) => ForcedDone(asRan', q)
    BY DEF McpDone, ForcedDone
  <2> QED  BY <2>1, <2>2 DEF TurnOk, Evidence
<1> QED  BY <1>2, <1>3

(* A turn moves on, runs nothing, and leaves what waits or takes it.       *)
LEMMA NothingRun ==
    ASSUME AsIInv, NEW m \in AsMsgs, NEW t, asTurn' = [asTurn EXCEPT ![m] = t],
           asTurn[m].pc # "done", asRan' = asRan, TurnOk(asRan, m, t),
           asPending' = asPending \/ asPending' = AsNoCall
    PROVE  AsIInv'
<1>1. /\ asTurn' = [q \in AsMsgs |-> asTurn'[q]]
      /\ \A q \in AsMsgs : TurnOk(asRan', q, asTurn'[q])
      /\ \A q \in AsMsgs : asTurn[q].pc = "done" => asTurn'[q] = asTurn[q]
  <2>1. TurnOk(asRan', m, t) /\ asRan \subseteq asRan'  OBVIOUS
  <2> QED  BY <2>1, OneTurn
<1>2. PendingOk'  BY <1>1 DEF AsIInv, PendingOk
<1>3. \A r \in asRan' : RanOk(r)'
  <2> SUFFICES ASSUME NEW r \in asRan PROVE RanOk(r)'  OBVIOUS
  <2>1. RanOk(r)  BY DEF AsIInv
  <2> QED  BY <1>1, <2>1 DEF RanOk
<1>4. RanOnce'  BY DEF AsIInv, RanOnce
<1> QED  BY <1>1, <1>2, <1>3, <1>4 DEF AsIInv

(* The turn that ends.                                                     *)
Over(m, out) == [AsIdle EXCEPT !.pc = "done", !.out = out, !.taint = asTurn[m].taint]

(* Over ends a turn with the evidence it had.                              *)
LEMMA OverOk ==
    ASSUME AsIInv, NEW m \in AsMsgs, NEW out \in {"error", "reply", "text"}
    PROVE  /\ TurnShape(Over(m, out)) /\ TurnFields(Over(m, out)) /\ CallsPaid(Over(m, out))
           /\ Over(m, out).pc = "done" /\ Over(m, out).out = out
           /\ Over(m, out).taint = asTurn[m].taint
           /\ Over(m, out).mcp = FALSE /\ Over(m, out).forced = FALSE
<1>1. asTurn[m].taint \in BOOLEAN  BY DEF AsIInv, TurnOk, TurnFields
<1>2. TurnShape(AsIdle) /\ AsIdle.i = 0 /\ AsIdle.calls = 0 /\ AsIdle.overflow = FALSE
      /\ AsIdle.mcp = FALSE /\ AsIdle.forced = FALSE
  BY DEF TurnShape, AsIdle
<1>3. TurnShape(Over(m, out))  BY <1>2 DEF TurnShape, Over
<1>4. /\ Over(m, out).pc = "done" /\ Over(m, out).out = out
      /\ Over(m, out).taint = asTurn[m].taint /\ Over(m, out).mcp = FALSE
      /\ Over(m, out).forced = FALSE /\ Over(m, out).i = 0 /\ Over(m, out).calls = 0
      /\ Over(m, out).overflow = FALSE
  BY <1>2 DEF TurnShape, Over
<1>5. /\ Over(m, out).taint \in BOOLEAN /\ Over(m, out).mcp \in BOOLEAN
      /\ Over(m, out).forced \in BOOLEAN /\ Over(m, out).overflow \in BOOLEAN
  BY <1>1, <1>4, Zenon
<1>6. Over(m, out).i \in 0 .. AsMaxIter  BY <1>4, AsAssumption
<1>7. TurnFields(Over(m, out))  BY <1>4, <1>5, <1>6 DEF TurnFields
<1>8. CallsPaid(Over(m, out))  BY <1>4 DEF CallsPaid
<1> QED  BY <1>3, <1>4, <1>7, <1>8

(* A turn ends without a text of the model, or with one that was earned.   *)
LEMMA AgentEndInv ==
    ASSUME AsIInv, NEW m \in AsMsgs, NEW out \in {"error", "reply", "text"}, AsEnd(m, out),
           asTurn[m].pc # "done", asRan' = asRan,
           asPending' = asPending \/ asPending' = AsNoCall,
           out = "text" => /\ m \in AsMcpAsked => asTurn[m].mcp
                           /\ AsForced[m] # "none" => asTurn[m].forced
    PROVE  AsIInv'
<1> DEFINE t == Over(m, out)
<1>1. asTurn' = [asTurn EXCEPT ![m] = t]  BY DEF AsEnd, Over
<1>2. /\ TurnShape(t) /\ TurnFields(t) /\ CallsPaid(t)
      /\ t.out = out /\ t.mcp = FALSE /\ t.forced = FALSE
  BY OverOk
<1> HIDE DEF t
<1>3. Evidence(asRan, m, asTurn[m])  BY DEF AsIInv, TurnOk
<1>4. Evidence(asRan, m, t)  BY <1>2, <1>3 DEF Evidence
<1>5. TurnOk(asRan, m, t)  BY <1>2, <1>4 DEF TurnOk
<1> QED  BY <1>1, <1>5, NothingRun

(* A turn goes on with the same evidence.                                  *)
LEMMA GoesOn ==
    ASSUME AsIInv, NEW m \in AsMsgs, NEW t, asTurn' = [asTurn EXCEPT ![m] = t],
           asTurn[m].pc # "done", asRan' = asRan, asPending' = asPending \/ asPending' = AsNoCall,
           TurnShape(t), TurnFields(t), CallsPaid(t),
           t.mcp = asTurn[m].mcp, t.forced = asTurn[m].forced, t.out = asTurn[m].out
    PROVE  AsIInv'
<1>1. Evidence(asRan, m, asTurn[m])  BY DEF AsIInv, TurnOk
<1>2. Evidence(asRan, m, t)  BY <1>1 DEF Evidence
<1>3. TurnOk(asRan, m, t)  BY <1>2 DEF TurnOk
<1> QED  BY <1>3, NothingRun

(* A call of the turn runs: it needs no approval and is not blocked.       *)
LEMMA OwnRun ==
    ASSUME AsIInv, NEW m \in AsMsgs, NEW t, asTurn' = [asTurn EXCEPT ![m] = t],
           asTurn[m].pc # "done", NEW tool, NEW res \in AsResults,
           AsRun(m, [tool |-> tool, of |-> m], res),
           ~AsNeedsApproval(m, tool), ~AsBlocked(asTurn[m], tool),
           TurnOk(asRan', m, t), asPending' = asPending
    PROVE  AsIInv'
<1> DEFINE n == [tool |-> tool, of |-> m, by |-> m, good |-> res = "ok",
                 tainted |-> asTurn[m].taint]
<1>1. n.tool = tool /\ n.of = m /\ (n.tainted <=> asTurn[m].taint)  OBVIOUS
<1>2. asRan \subseteq asRan' /\ (\A r \in asRan' : r \in asRan \/ r = n)
  BY DEF AsRun
<1> HIDE DEF n
<1>3. /\ asTurn' = [q \in AsMsgs |-> asTurn'[q]]
      /\ \A q \in AsMsgs : TurnOk(asRan', q, asTurn'[q])
      /\ \A q \in AsMsgs : asTurn[q].pc = "done" => asTurn'[q] = asTurn[q]
  BY <1>2, OneTurn
<1>4. PendingOk'  BY <1>3 DEF AsIInv, PendingOk
<1>5. ASSUME NEW r \in asRan' PROVE RanOk(r)'
  <2>1. CASE r \in asRan
    <3>1. RanOk(r)  BY <2>1 DEF AsIInv
    <3> QED  BY <1>3, <3>1 DEF RanOk
  <2>2. CASE r = n  BY <1>1, <2>2 DEF RanOk, AsBlocked
  <2> QED  BY <1>2, <2>1, <2>2
<1>6. RanOnce'
  <2>1. \A r \in asRan' : AsNeedsApproval(r.of, r.tool) => r \in asRan  BY <1>1, <1>2
  <2>2. RanOnce  BY DEF AsIInv
  <2> QED  BY <2>1, <2>2 DEF RanOnce
<1> QED  BY <1>3, <1>4, <1>5, <1>6 DEF AsIInv

(* A message says yes: the call that waits is taken and runs.              *)
LEMMA ApprovedRun ==
    ASSUME AsIInv, NEW m \in AsMsgs, asTurn[m].pc = "new", AsEnd(m, "reply"),
           asPending # AsNoCall, AsText[m] = "yes", AsCanApprove(m, asPending),
           asPending' = AsNoCall, NEW res \in AsResults, AsRun(m, asPending, res)
    PROVE  AsIInv'
<1> DEFINE t == Over(m, "reply")
           n == [tool |-> asPending.tool, of |-> asPending.of, by |-> m, good |-> res = "ok",
                 tainted |-> asTurn[asPending.of].taint]
<1>1. /\ n.tool = asPending.tool /\ n.of = asPending.of /\ n.by = m
      /\ (n.tainted <=> asTurn[asPending.of].taint)
  OBVIOUS
<1>2. asRan \subseteq asRan' /\ (\A r \in asRan' : r \in asRan \/ r = n)
  BY DEF AsRun
<1>3. asTurn' = [asTurn EXCEPT ![m] = t]  BY DEF AsEnd, Over
<1>4. /\ TurnShape(t) /\ TurnFields(t) /\ CallsPaid(t)
      /\ t.out = "reply" /\ t.mcp = FALSE /\ t.forced = FALSE
  BY OverOk
<1> HIDE DEF n, t
<1>5. TurnOk(asRan', m, t)  BY <1>4 DEF TurnOk, Evidence
<1>6. /\ asTurn' = [q \in AsMsgs |-> asTurn'[q]]
      /\ \A q \in AsMsgs : TurnOk(asRan', q, asTurn'[q])
      /\ \A q \in AsMsgs : asTurn[q].pc = "done" => asTurn'[q] = asTurn[q]
  BY <1>2, <1>3, <1>5, OneTurn
<1>7. /\ asPending.of \in AsMsgs /\ asTurn[asPending.of].pc = "done" /\ asPending.of # m
      /\ asTurn[asPending.of].taint => asPending.tool \in AsAnalysis
  BY DEF AsIInv, PendingOk
<1>8. ASSUME NEW r \in asRan' PROVE RanOk(r)'
  <2>1. CASE r \in asRan
    <3>1. RanOk(r)  BY <2>1 DEF AsIInv
    <3> QED  BY <1>6, <3>1 DEF RanOk
  <2>2. CASE r = n  BY <1>1, <1>6, <1>7, <2>2 DEF RanOk, AsCanApprove
  <2> QED  BY <1>2, <2>1, <2>2
<1>9. RanOnce'
  <2>1. ASSUME NEW r \in asRan PROVE AsNeedsApproval(r.of, r.tool) => r.tool # n.tool \/ r.of # n.of
    <3>1. RanOk(r)  BY DEF AsIInv
    <3> QED  BY <1>1, <3>1 DEF RanOk
  <2>2. RanOnce  BY DEF AsIInv
  <2> QED  BY <1>2, <2>1, <2>2 DEF RanOnce
<1>10. PendingOk'  BY DEF PendingOk
<1> QED  BY <1>6, <1>8, <1>9, <1>10 DEF AsIInv

(* A call that needs approval waits, and ends its turn.                    *)
LEMMA NowPending ==
    ASSUME AsIInv, NEW m \in AsMsgs, asTurn[m].pc # "done", AsEnd(m, "reply"), NEW tool,
           AsNeedsApproval(m, tool), ~AsBlocked(asTurn[m], tool),
           asPending' = [tool |-> tool, of |-> m], asRan' = asRan
    PROVE  AsIInv'
<1> DEFINE t == Over(m, "reply")
<1>1. asTurn' = [asTurn EXCEPT ![m] = t]  BY DEF AsEnd, Over
<1>2. /\ TurnShape(t) /\ TurnFields(t) /\ CallsPaid(t) /\ t.pc = "done"
      /\ t.out = "reply" /\ t.mcp = FALSE /\ t.forced = FALSE /\ t.taint = asTurn[m].taint
  BY OverOk
<1> HIDE DEF t
<1>3. TurnOk(asRan', m, t)  BY <1>2 DEF TurnOk, Evidence
<1>4. /\ asTurn' = [q \in AsMsgs |-> asTurn'[q]] /\ asTurn'[m] = t
      /\ \A q \in AsMsgs : TurnOk(asRan', q, asTurn'[q])
      /\ \A q \in AsMsgs : asTurn[q].pc = "done" => asTurn'[q] = asTurn[q]
  BY <1>1, <1>3, OneTurn
<1>5. PendingOk'  BY <1>2, <1>4 DEF PendingOk, AsBlocked
<1>6. ASSUME NEW r \in asRan' PROVE RanOk(r)'
  <2>1. RanOk(r)  BY DEF AsIInv
  <2> QED  BY <1>4, <2>1 DEF RanOk
<1>7. RanOnce'  BY DEF AsIInv, RanOnce
<1> QED  BY <1>4, <1>5, <1>6, <1>7 DEF AsIInv

-----------------------------------------------------------------------------
(* The steps of a turn.                                                    *)

(* A turn starts: it takes an approval, or begins to work.                 *)
LEMMA AsBeginInv == ASSUME AsIInv, NEW m \in AsMsgs, AsBegin(m) PROVE AsIInv'
<1>1. asTurn[m].pc = "new" /\ asPending' = AsNoCall  BY DEF AsBegin, AsAfterTake
<1>2. CASE /\ asPending # AsNoCall /\ AsText[m] = "yes" /\ AsCanApprove(m, asPending)
           /\ AsEnd(m, "reply") /\ \E res \in AsResults : AsRun(m, asPending, res)
  BY <1>1, <1>2, ApprovedRun
<1>3. CASE asRan' = asRan /\ (AsEnd(m, "reply") \/ AsEnd(m, "error"))
  BY <1>1, <1>3, AgentEndInv
<1>4. CASE asRan' = asRan /\ asTurn' = [asTurn EXCEPT ![m].pc = "read"]
  <2>1. TurnOk(asRan, m, asTurn[m])  BY DEF AsIInv
  <2> DEFINE s == asTurn[m]
             t == [s EXCEPT !.pc = "read"]
  <2>2. /\ TurnShape(t) /\ t.pc = "read" /\ t.i = s.i /\ t.calls = s.calls
        /\ t.overflow = s.overflow /\ t.taint = s.taint /\ t.mcp = s.mcp
        /\ t.forced = s.forced /\ t.out = s.out
    BY <2>1 DEF TurnOk, TurnShape
  <2>3. asTurn' = [asTurn EXCEPT ![m] = t]  BY <1>4
  <2> HIDE DEF t
  <2>4. TurnFields(t)  BY <2>1, <2>2 DEF TurnOk, TurnFields
  <2>5. CallsPaid(t)  BY <1>1, <2>1, <2>2 DEF TurnOk, CallsPaid, TurnFields
  <2> QED  BY <1>1, <1>4, <2>2, <2>3, <2>4, <2>5, GoesOn
<1> QED  BY <1>1, <1>2, <1>3, <1>4 DEF AsBegin, AsReply

(* A turn reads its history, or compresses it.                             *)
LEMMA AsReadInv == ASSUME AsIInv, NEW m \in AsMsgs, AsRead(m) \/ AsCompress(m) PROVE AsIInv'
<1>1. asTurn[m].pc \in {"read", "compress"} /\ UNCHANGED <<asPending, asRan>>
  BY DEF AsRead, AsCompress
<1>2. TurnOk(asRan, m, asTurn[m])  BY DEF AsIInv
<1>3. ASSUME NEW pc \in {"compress", "llm"}, NEW hist,
             asTurn' = [asTurn EXCEPT ![m].hist = hist, ![m].pc = pc]
      PROVE  AsIInv'
  <2> DEFINE s == asTurn[m]
             t == [s EXCEPT !.hist = hist, !.pc = pc]
  <2>2. /\ TurnShape(t) /\ t.pc = pc /\ t.i = s.i /\ t.calls = s.calls
        /\ t.overflow = s.overflow /\ t.taint = s.taint /\ t.mcp = s.mcp
        /\ t.forced = s.forced /\ t.out = s.out
    BY <1>2 DEF TurnOk, TurnShape
  <2>3. asTurn' = [asTurn EXCEPT ![m] = t]  BY <1>2, <1>3 DEF AsIInv
  <2> HIDE DEF t
  <2>4. TurnFields(t)  BY <1>2, <2>2 DEF TurnOk, TurnFields
  <2>5. CallsPaid(t)  BY <1>1, <1>2, <2>2 DEF TurnOk, CallsPaid
  <2> QED  BY <1>1, <2>2, <2>3, <2>4, <2>5, GoesOn
<1>4. CASE asTurn' = [asTurn EXCEPT ![m].pc = "llm"]
  <2>1. asTurn' = [asTurn EXCEPT ![m].hist = asTurn[m].hist, ![m].pc = "llm"]
    <3> DEFINE s == asTurn[m]
    <3>1. [s EXCEPT !.hist = s.hist, !.pc = "llm"] = [s EXCEPT !.pc = "llm"]
      BY <1>2 DEF TurnOk, TurnShape
    <3> QED  BY <1>2, <1>4, <3>1 DEF AsIInv
  <2> QED  BY <1>3, <2>1
<1>5. CASE AsRead(m) /\ ~AsEnd(m, "error")
  <2>1. PICK large \in BOOLEAN :
           asTurn' = [asTurn EXCEPT ![m].hist = GetHistory,
                        ![m].pc = IF large /\ Len(GetHistory) >= 4 THEN "compress" ELSE "llm"]
    BY <1>5 DEF AsRead
  <2> DEFINE pc == IF large /\ Len(GetHistory) >= 4 THEN "compress" ELSE "llm"
  <2>2. pc \in {"compress", "llm"} /\ asTurn' = [asTurn EXCEPT ![m].hist = GetHistory, ![m].pc = pc]
    BY <2>1
  <2> HIDE DEF pc
  <2> QED  BY <1>3, <2>2
<1>6. CASE AsCompress(m)
  <2>1. \/ asTurn' = [asTurn EXCEPT ![m].pc = "llm"]
        \/ \E hist : asTurn' = [asTurn EXCEPT ![m].pc = "llm", ![m].hist = hist]
    BY <1>6 DEF AsCompress
  <2>2. ASSUME NEW hist, asTurn' = [asTurn EXCEPT ![m].pc = "llm", ![m].hist = hist]
        PROVE  asTurn' = [asTurn EXCEPT ![m].hist = hist, ![m].pc = "llm"]
    <3> DEFINE s == asTurn[m]
    <3>1. [s EXCEPT !.hist = hist, !.pc = "llm"] = [s EXCEPT !.pc = "llm", !.hist = hist]
      BY <1>2 DEF TurnOk, TurnShape
    <3> QED  BY <1>2, <2>2, <3>1 DEF AsIInv
  <2> QED  BY <1>3, <1>4, <2>1, <2>2
<1>7. CASE AsEnd(m, "error")  BY <1>1, <1>7, AgentEndInv
<1> QED  BY <1>5, <1>6, <1>7

(* The fields that a step moves have their types, the others are kept.     *)
LEMMA FieldsKept ==
    ASSUME NEW s, TurnFields(s), NEW u,
           u.pc \in {"new", "read", "compress", "llm", "tools", "done"},
           u.i \in 0 .. AsMaxIter, u.calls \in Nat, u.overflow \in BOOLEAN,
           u.taint = s.taint, u.mcp = s.mcp, u.forced = s.forced, u.out = s.out
    PROVE  TurnFields(u)
<1>1. u.taint \in BOOLEAN /\ u.mcp \in BOOLEAN /\ u.forced \in BOOLEAN
  BY Zenon DEF TurnFields
<1>2. u.out \in {"none", "error", "reply", "text"}  BY DEF TurnFields
<1> QED  BY <1>1, <1>2 DEF TurnFields

(* A model call: an overflow, an error, an answer or a batch.              *)
LEMMA AsModelInv == ASSUME AsIInv, NEW m \in AsMsgs, AsModel(m) PROVE AsIInv'
<1> DEFINE s  == asTurn[m]
           t  == [s EXCEPT !.calls = @ + 1]
           ok == [t EXCEPT !.overflow = FALSE]
<1>1. TurnOk(asRan, m, s)  BY DEF AsIInv
<1>2. TurnShape(s) /\ TurnFields(s) /\ CallsPaid(s)  BY <1>1 DEF TurnOk
<1>3. /\ TurnShape(t) /\ t.pc = s.pc /\ t.i = s.i /\ t.calls = s.calls + 1
      /\ t.overflow = s.overflow /\ t.taint = s.taint /\ t.mcp = s.mcp /\ t.forced = s.forced
      /\ t.out = s.out /\ t.asked = s.asked /\ t.hist = s.hist /\ t.replan = s.replan
      /\ t.hard = s.hard
  BY <1>2 DEF TurnShape
<1>4. /\ t.pc = "llm" /\ t.i < AsMaxIter /\ UNCHANGED <<asPending, asRan>>
      /\ \/ AsOverflow(m, t) \/ AsEnd(m, "error") \/ AsAnswer(m, ok)
         \/ \E b \in AsBatches : AsCalls(m, ok, b)
  BY DEF AsModel
<1> HIDE DEF t
<1>5. /\ TurnShape(ok) /\ ok.pc = "llm" /\ ok.i = s.i /\ ok.calls = s.calls + 1
      /\ ok.overflow = FALSE /\ ok.taint = s.taint /\ ok.mcp = s.mcp /\ ok.forced = s.forced
      /\ ok.out = s.out /\ ok.asked = s.asked /\ ok.replan = s.replan /\ ok.hard = s.hard
  BY <1>3, <1>4 DEF TurnShape
<1> HIDE DEF ok
<1>6. /\ s.pc = "llm" /\ s.i \in Nat /\ s.i < AsMaxIter /\ AsMaxIter \in Nat /\ s.calls \in Nat
      /\ s.calls + 1 <= 2 * s.i + 2 /\ (~s.overflow => s.calls <= 2 * s.i)
  BY <1>2, <1>3, <1>4, AsAssumption DEF TurnFields, CallsPaid
<1>7. CASE AsEnd(m, "error") \/ AsEnd(m, "reply")  BY <1>4, <1>6, <1>7, AgentEndInv
<1>8. CASE AsOverflow(m, t) /\ ~t.overflow
  <2>1. PICK pc \in {"compress", "llm"} :
           asTurn' = [asTurn EXCEPT ![m] = [t EXCEPT !.overflow = TRUE, !.pc = pc]]
    BY <1>8 DEF AsOverflow
  <2> DEFINE u == [t EXCEPT !.overflow = TRUE, !.pc = pc]
  <2>2. /\ TurnShape(u) /\ u.pc = pc /\ u.i = s.i /\ u.calls = s.calls + 1
        /\ u.overflow = TRUE /\ u.taint = s.taint /\ u.mcp = s.mcp /\ u.forced = s.forced
        /\ u.out = s.out
    BY <1>3 DEF TurnShape
  <2>3. asTurn' = [asTurn EXCEPT ![m] = u]  BY <2>1
  <2> HIDE DEF u
  <2>4. TurnFields(u)
    <3>1. u.i \in 0 .. AsMaxIter /\ u.calls \in Nat  BY <1>6, <2>2
    <3>2. u.overflow \in BOOLEAN  BY <2>2, Zenon
    <3>3. u.pc \in {"new", "read", "compress", "llm", "tools", "done"}  BY <2>2
    <3> QED  BY <1>2, <2>2, <3>1, <3>2, <3>3, FieldsKept
  <2>5. CallsPaid(u)  BY <1>3, <1>6, <1>8, <2>2 DEF CallsPaid
  <2> QED  BY <1>4, <1>6, <2>2, <2>3, <2>4, <2>5, GoesOn
<1>9. ASSUME NEW u, asTurn' = [asTurn EXCEPT ![m] = u], TurnShape(u), u.pc = "llm",
             u.i = s.i + 1, u.calls = s.calls + 1, u.overflow = FALSE, u.taint = s.taint,
             u.mcp = s.mcp, u.forced = s.forced, u.out = s.out
      PROVE  AsIInv'
  <2>1. TurnFields(u)
    <3>1. u.i \in 0 .. AsMaxIter /\ u.calls \in Nat  BY <1>6, <1>9
    <3>2. u.overflow \in BOOLEAN  BY <1>9, Zenon
    <3>3. u.pc \in {"new", "read", "compress", "llm", "tools", "done"}  BY <1>9
    <3> QED  BY <1>2, <1>9, <3>1, <3>2, <3>3, FieldsKept
  <2>2. CallsPaid(u)  BY <1>6, <1>9 DEF CallsPaid
  <2> QED  BY <1>4, <1>6, <1>9, <2>1, <2>2, GoesOn
<1>10. CASE asTurn' = [asTurn EXCEPT ![m] = [ok EXCEPT !.asked = TRUE, !.i = ok.i + 1]]
  <2> DEFINE u == [ok EXCEPT !.asked = TRUE, !.i = ok.i + 1]
  <2>1. /\ TurnShape(u) /\ u.pc = "llm" /\ u.i = s.i + 1 /\ u.calls = s.calls + 1
        /\ u.overflow = FALSE /\ u.taint = s.taint /\ u.mcp = s.mcp /\ u.forced = s.forced
        /\ u.out = s.out
    BY <1>5 DEF TurnShape
  <2>2. asTurn' = [asTurn EXCEPT ![m] = u]  BY <1>10
  <2> HIDE DEF u
  <2> QED  BY <1>9, <2>1, <2>2
<1>11. CASE asTurn' = [asTurn EXCEPT ![m] = [ok EXCEPT !.replan = TRUE, !.i = ok.i + 1]]
  <2> DEFINE u == [ok EXCEPT !.replan = TRUE, !.i = ok.i + 1]
  <2>1. /\ TurnShape(u) /\ u.pc = "llm" /\ u.i = s.i + 1 /\ u.calls = s.calls + 1
        /\ u.overflow = FALSE /\ u.taint = s.taint /\ u.mcp = s.mcp /\ u.forced = s.forced
        /\ u.out = s.out
    BY <1>5 DEF TurnShape
  <2>2. asTurn' = [asTurn EXCEPT ![m] = u]  BY <1>11
  <2> HIDE DEF u
  <2> QED  BY <1>9, <2>1, <2>2
<1>12. ASSUME NEW b,
              asTurn' = [asTurn EXCEPT ![m] = [ok EXCEPT !.pc = "tools", !.batch = b,
                                                         !.hard = ok.hard + 1]]
       PROVE  AsIInv'
  <2> DEFINE u == [ok EXCEPT !.pc = "tools", !.batch = b, !.hard = ok.hard + 1]
  <2>1. /\ TurnShape(u) /\ u.pc = "tools" /\ u.i = s.i /\ u.calls = s.calls + 1
        /\ u.overflow = FALSE /\ u.taint = s.taint /\ u.mcp = s.mcp /\ u.forced = s.forced
        /\ u.out = s.out
    BY <1>5 DEF TurnShape
  <2>2. asTurn' = [asTurn EXCEPT ![m] = u]  BY <1>12
  <2> HIDE DEF u
  <2>3. TurnFields(u)
    <3>1. u.i \in 0 .. AsMaxIter /\ u.calls \in Nat  BY <1>6, <2>1
    <3>2. u.overflow \in BOOLEAN  BY <2>1, Zenon
    <3>3. u.pc \in {"new", "read", "compress", "llm", "tools", "done"}  BY <2>1
    <3> QED  BY <1>2, <2>1, <3>1, <3>2, <3>3, FieldsKept
  <2>4. CallsPaid(u)  BY <1>6, <2>1 DEF CallsPaid
  <2> QED  BY <1>4, <1>6, <2>1, <2>2, <2>3, <2>4, GoesOn
<1>13. CASE AsEnd(m, "text") /\ (m \in AsMcpAsked => ok.mcp)
              /\ (AsForced[m] # "none" => ok.forced)
  BY <1>4, <1>5, <1>6, <1>13, AgentEndInv
<1>14. CASE AsAnswer(m, ok)
  BY <1>7, <1>10, <1>13, <1>14 DEF AsAnswer, AsReply, AsTextReply
<1>15. ASSUME NEW b \in AsBatches, AsCalls(m, ok, b) PROVE AsIInv'
  BY <1>7, <1>11, <1>12, <1>15 DEF AsCalls, AsReply
<1>16. CASE AsOverflow(m, t) /\ t.overflow  BY <1>7, <1>16 DEF AsOverflow
<1> QED  BY <1>4, <1>7, <1>8, <1>14, <1>15, <1>16

(* The iterations are used up.                                             *)
LEMMA AsExhaustedInv == ASSUME AsIInv, NEW m \in AsMsgs, AsExhausted(m) PROVE AsIInv'
<1>1. asTurn[m].pc # "done" /\ UNCHANGED <<asPending, asRan>>  BY DEF AsExhausted
<1>2. \/ AsEnd(m, "reply") \/ AsEnd(m, "error")
      \/ AsEnd(m, "text") /\ (m \in AsMcpAsked => asTurn[m].mcp)
                          /\ (AsForced[m] # "none" => asTurn[m].forced)
  BY DEF AsExhausted, AsReply, AsTextReply
<1> QED  BY <1>1, <1>2, AgentEndInv

(* What the batch's next call leaves of the turn.                          *)
LEMMA Advanced ==
    ASSUME NEW t, TurnShape(t), TurnFields(t), CallsPaid(t), t.pc = "tools"
    PROVE  LET u == AsAdvance(t) IN
           /\ TurnShape(u) /\ TurnFields(u) /\ CallsPaid(u) /\ u.taint = t.taint
           /\ u.mcp = t.mcp /\ u.forced = t.forced /\ u.out = t.out
<1> DEFINE u == AsAdvance(t)
<1>1. t.i \in Nat /\ t.i < AsMaxIter /\ t.overflow = FALSE /\ t.calls \in Nat
      /\ t.calls <= 2 * t.i + 2 /\ AsMaxIter \in Nat
  BY AsAssumption DEF TurnFields, CallsPaid
<1>2. CASE Len(t.batch) = 1
  <2>1. /\ TurnShape(u) /\ u.pc = "llm" /\ u.i = t.i + 1 /\ u.calls = t.calls
        /\ u.overflow = t.overflow /\ u.taint = t.taint /\ u.mcp = t.mcp /\ u.forced = t.forced
        /\ u.out = t.out
    BY <1>2 DEF TurnShape, AsAdvance
  <2> HIDE DEF u
  <2>2. TurnFields(u)  BY <1>1, <2>1 DEF TurnFields
  <2>3. CallsPaid(u)  BY <1>1, <2>1 DEF CallsPaid
  <2> QED  BY <2>1, <2>2, <2>3 DEF u
<1>3. CASE Len(t.batch) # 1
  <2>1. /\ TurnShape(u) /\ u.pc = t.pc /\ u.i = t.i /\ u.calls = t.calls
        /\ u.overflow = t.overflow /\ u.taint = t.taint /\ u.mcp = t.mcp /\ u.forced = t.forced
        /\ u.out = t.out
    BY <1>3 DEF TurnShape, AsAdvance
  <2> HIDE DEF u
  <2>2. TurnFields(u)  BY <2>1 DEF TurnFields
  <2>3. CallsPaid(u)  BY <2>1 DEF CallsPaid
  <2> QED  BY <2>1, <2>2, <2>3 DEF u
<1> QED  BY <1>2, <1>3

(* A call that was made before in the turn is answered from its cache.     *)
LEMMA AsCachedInv == ASSUME AsIInv, NEW m \in AsMsgs, AsCached(m) PROVE AsIInv'
<1> DEFINE t == AsAdvance(asTurn[m])
<1>1. TurnOk(asRan, m, asTurn[m]) /\ asTurn[m].pc = "tools"  BY DEF AsIInv, AsCached
<1>2. /\ TurnShape(t) /\ TurnFields(t) /\ CallsPaid(t)
      /\ t.mcp = asTurn[m].mcp /\ t.forced = asTurn[m].forced /\ t.out = asTurn[m].out
  BY <1>1, Advanced DEF TurnOk
<1>3. asTurn' = [asTurn EXCEPT ![m] = t] /\ UNCHANGED <<asPending, asRan>>
  BY DEF AsCached
<1> HIDE DEF t
<1> QED  BY <1>1, <1>2, <1>3, GoesOn

(* What a turn knows after a tool, and that the runs bear it out.          *)
LEMMA Learned ==
    ASSUME AsIInv, NEW m \in AsMsgs, NEW tool, NEW good \in BOOLEAN, asTurn[m].pc = "tools",
           asRan \subseteq asRan',
           good => \E r \in asRan' : r.of = m /\ r.by = m /\ r.good /\ r.tool = tool
    PROVE  TurnOk(asRan', m, AsAdvance(AsLearned(m, asTurn[m], tool, good)))
<1> DEFINE s == asTurn[m]
           t == AsLearned(m, s, tool, good)
           u == AsAdvance(t)
<1>1. TurnOk(asRan, m, s) /\ TurnShape(s) /\ TurnFields(s) /\ CallsPaid(s)
  BY DEF AsIInv, TurnOk
<1> DEFINE a == [s EXCEPT !.ledger = @ \union {tool}]
           b == [a EXCEPT !.taint = @ \/ (good /\ tool \in AsRemote)]
           c == [b EXCEPT !.mcp = @ \/ (good /\ tool \in AsMcp)]
<1>2. t = [c EXCEPT !.forced = @ \/ (good /\ tool = AsForced[m])]  BY DEF AsLearned
<1>3. /\ TurnShape(a) /\ a.pc = s.pc /\ a.i = s.i /\ a.calls = s.calls
      /\ a.overflow = s.overflow /\ a.taint = s.taint /\ a.mcp = s.mcp /\ a.forced = s.forced
      /\ a.out = s.out
  BY <1>1 DEF TurnShape
<1> HIDE DEF a
<1>4. /\ TurnShape(b) /\ b.pc = s.pc /\ b.i = s.i /\ b.calls = s.calls
      /\ b.overflow = s.overflow /\ b.mcp = s.mcp /\ b.forced = s.forced
      /\ b.out = s.out /\ b.taint = (a.taint \/ (good /\ tool \in AsRemote))
  BY <1>3 DEF TurnShape
<1>5. b.taint \in BOOLEAN  BY <1>4
<1> HIDE DEF b
<1>6. /\ TurnShape(c) /\ c.pc = s.pc /\ c.i = s.i /\ c.calls = s.calls
      /\ c.overflow = s.overflow /\ c.forced = s.forced /\ c.taint = b.taint
      /\ c.out = s.out /\ c.mcp = (b.mcp \/ (good /\ tool \in AsMcp))
  BY <1>4 DEF TurnShape
<1>7. c.mcp \in BOOLEAN /\ (c.mcp => s.mcp \/ (good /\ tool \in AsMcp))  BY <1>4, <1>6
<1> HIDE DEF c
<1>8. /\ TurnShape(t) /\ t.pc = s.pc /\ t.i = s.i /\ t.calls = s.calls
      /\ t.overflow = s.overflow /\ t.taint = b.taint /\ t.mcp = c.mcp
      /\ t.out = s.out /\ t.forced = (c.forced \/ (good /\ tool = AsForced[m]))
  BY <1>2, <1>6 DEF TurnShape
<1>9. t.forced \in BOOLEAN /\ (t.forced => s.forced \/ (good /\ tool = AsForced[m]))
  BY <1>6, <1>8
<1> HIDE DEF t
<1>10. t.taint \in BOOLEAN /\ t.mcp \in BOOLEAN  BY <1>5, <1>7, <1>8
<1>11. TurnFields(t)
  BY <1>1, <1>8, <1>9, <1>10 DEF TurnFields
<1>12. CallsPaid(t)  BY <1>1, <1>8 DEF CallsPaid
<1>13. /\ TurnShape(u) /\ TurnFields(u) /\ CallsPaid(u)
       /\ u.mcp = t.mcp /\ u.forced = t.forced /\ u.out = s.out
  BY <1>8, <1>11, <1>12, Advanced
<1> HIDE DEF u
<1>14. /\ McpDone(asRan, m) \/ (good /\ tool \in AsMcp) => McpDone(asRan', m)
       /\ ForcedDone(asRan, m) \/ (good /\ tool = AsForced[m]) => ForcedDone(asRan', m)
  BY DEF McpDone, ForcedDone
<1>15. Evidence(asRan', m, u)
  BY <1>1, <1>7, <1>8, <1>9, <1>13, <1>14 DEF TurnOk, Evidence
<1>16. TurnOk(asRan', m, u)  BY <1>13, <1>15 DEF TurnOk
<1> QED  BY <1>16 DEF u, t

(* One call of a batch.                                                    *)
LEMMA AsCallInv == ASSUME AsIInv, NEW m \in AsMsgs, AsCall(m) PROVE AsIInv'
<1> DEFINE t    == asTurn[m]
           tool == Head(t.batch)
           call == [tool |-> tool, of |-> m]
<1>1. t.pc = "tools" /\ TurnOk(asRan, m, t)  BY DEF AsCall, AsIInv
<1>2. \/ AsEnd(m, "error") /\ UNCHANGED <<asPending, asRan>>
      \/ AsBlocked(t, tool) /\ AsAfter(m, t, tool, FALSE) /\ UNCHANGED <<asPending, asRan>>
      \/ /\ ~AsBlocked(t, tool) /\ AsNeedsApproval(m, tool)
         /\ asPending' = call /\ AsReply(m) /\ UNCHANGED asRan
      \/ /\ ~AsBlocked(t, tool) /\ ~AsNeedsApproval(m, tool) /\ UNCHANGED asPending
         /\ \E res \in AsResults : AsRun(m, call, res) /\ AsAfter(m, t, tool, res = "ok")
  BY DEF AsCall
<1> HIDE DEF tool
<1>3. CASE AsEnd(m, "error") /\ UNCHANGED <<asPending, asRan>>  BY <1>1, <1>3, AgentEndInv
<1>4. CASE AsAfter(m, t, tool, FALSE) /\ UNCHANGED <<asPending, asRan>>
  <2>1. CASE AsReply(m)  BY <1>1, <1>4, <2>1, AgentEndInv DEF AsReply
  <2>2. CASE asTurn' = [asTurn EXCEPT ![m] = AsAdvance(AsLearned(m, t, tool, FALSE))]
    <3> DEFINE u == AsAdvance(AsLearned(m, t, tool, FALSE))
    <3>1. TurnOk(asRan', m, u)  BY <1>1, <1>4, Learned
    <3>2. TurnOk(asRan, m, u)  BY <1>4, <3>1
    <3>3. asTurn' = [asTurn EXCEPT ![m] = u]  BY <2>2
    <3> HIDE DEF u
    <3> QED  BY <1>1, <1>4, <3>2, <3>3, NothingRun
  <2> QED  BY <1>4, <2>1, <2>2 DEF AsAfter
<1>5. CASE /\ ~AsBlocked(t, tool) /\ AsNeedsApproval(m, tool)
           /\ asPending' = call /\ AsReply(m) /\ UNCHANGED asRan
  BY <1>1, <1>5, NowPending DEF AsReply
<1>6. ASSUME ~AsBlocked(t, tool), ~AsNeedsApproval(m, tool), UNCHANGED asPending,
             NEW res \in AsResults, AsRun(m, call, res), AsAfter(m, t, tool, res = "ok")
      PROVE  AsIInv'
  <2>1. /\ asRan \subseteq asRan'
        /\ res = "ok" => \E r \in asRan' : r.of = m /\ r.by = m /\ r.good /\ r.tool = tool
    <3> DEFINE n == [tool |-> tool, of |-> m, by |-> m, good |-> res = "ok",
                     tainted |-> asTurn[m].taint]
    <3>1. asRan' = IF res = "absent" THEN asRan ELSE asRan \union {n}  BY <1>6 DEF AsRun
    <3>2. n.of = m /\ n.by = m /\ (n.good <=> res = "ok") /\ n.tool = tool  OBVIOUS
    <3> HIDE DEF n
    <3> QED  BY <3>1, <3>2
  <2>2. ASSUME NEW u, asTurn' = [asTurn EXCEPT ![m] = u], TurnOk(asRan', m, u)
        PROVE  AsIInv'
    BY <1>1, <1>6, <2>2, OwnRun
  <2>3. CASE AsReply(m)
    <3> DEFINE u == Over(m, "reply")
    <3>1. asTurn' = [asTurn EXCEPT ![m] = u]  BY <2>3 DEF AsReply, AsEnd, Over
    <3>2. /\ TurnShape(u) /\ TurnFields(u) /\ CallsPaid(u)
          /\ u.out = "reply" /\ u.mcp = FALSE /\ u.forced = FALSE
      BY OverOk
    <3> HIDE DEF u
    <3>3. TurnOk(asRan', m, u)  BY <3>2 DEF TurnOk, Evidence
    <3> QED  BY <2>2, <3>1, <3>3
  <2>4. CASE asTurn' = [asTurn EXCEPT ![m] = AsAdvance(AsLearned(m, t, tool, res = "ok"))]
    <3> DEFINE u == AsAdvance(AsLearned(m, t, tool, res = "ok"))
    <3>1. TurnOk(asRan', m, u)  BY <1>1, <2>1, Learned
    <3>2. asTurn' = [asTurn EXCEPT ![m] = u]  BY <2>4
    <3> HIDE DEF u
    <3> QED  BY <2>2, <3>1, <3>2
  <2> QED  BY <1>6, <2>3, <2>4 DEF AsAfter
<1> QED  BY <1>2, <1>3, <1>4, <1>5, <1>6

(* Every step keeps the invariant.                                         *)
LEMMA AsStepInv == ASSUME AsIInv, [AsNext]_asVars PROVE AsIInv'
<1>1. CASE UNCHANGED asVars
  <2>1. UNCHANGED <<asTurn, asPending, asRan>>  BY <1>1 DEF asVars
  <2> QED  BY <2>1 DEF AsIInv, PendingOk, RanOk, RanOnce
<1>2. ASSUME NEW m \in AsMsgs, AsStep(m) PROVE AsIInv'
  BY <1>2, AsBeginInv, AsReadInv, AsModelInv, AsExhaustedInv, AsCachedInv, AsCallInv DEF AsStep
<1> QED  BY <1>1, <1>2 DEF AsNext

(* The invariant holds in every reachable state.                           *)
THEOREM AsInductive == AsSpec => []AsIInv
<1> QED  BY AsInitInv, AsStepInv, PTL DEF AsSpec

(* What the invariant says of what was run, and of how turns end.          *)
LEMMA AsIInvSafe == AsIInv => AsSafe /\ AsBounded
<1> SUFFICES ASSUME AsIInv PROVE AsSafe /\ AsBounded  OBVIOUS
<1>1. AsApprovedOnce  BY DEF AsIInv, RanOk, RanOnce, AsApprovedOnce
<1>2. AsBoundary  BY DEF AsIInv, RanOk, AsBoundary
<1>3. AsCallsBounded
  <2> SUFFICES ASSUME NEW m \in AsMsgs PROVE asTurn[m].calls <= 2 * AsMaxIter
    BY DEF AsCallsBounded
  <2>1. TurnFields(asTurn[m]) /\ CallsPaid(asTurn[m])  BY DEF AsIInv, TurnOk
  <2> QED  BY <2>1, AsAssumption DEF TurnFields, CallsPaid
<1>4. AsDoneAsAsked
  BY DEF AsIInv, TurnOk, Evidence, McpDone, ForcedDone, AsDoneAsAsked
<1> QED  BY <1>1, <1>2, <1>3, <1>4 DEF AsSafe, AsBounded

(* Whatever the model answers and however the chat's turns overlap: what   *)
(* needs approval runs once, on the word of who may give it; nothing       *)
(* outside the analysis set runs after remote output; a turn is short, and *)
(* a text ends it only when what was asked for was done.                   *)
THEOREM AsSafety == AsSpec => [](AsSafe /\ AsBounded)
<1> QED  BY AsInductive, AsIInvSafe, PTL

-----------------------------------------------------------------------------
(* Sub-agents.  The shared token budget, for any number of agents, any     *)
(* budget and any cost of a call: the overrun bound is not inductive, as a *)
(* call that passed the check has not been charged yet.  OverrunInv        *)
(* charges the calls in flight at their highest cost.                      *)

(* What is left, less what the calls in flight may still cost. *)
OverrunInv == Limited =>
    remaining - Cardinality(InFlight) * TokensPerCall >= 1 - NAgents * TokensPerCall

IInv == BudgetTypeOK /\ OverrunInv /\ BudgetErrorTruthful

(* The agents are finitely many, so those in flight are counted. *)
LEMMA AgentsCount ==
    NAgents \in Nat /\ IsFiniteSet(Agents) /\ Cardinality(Agents) = NAgents
<1>1. NAgents \in Nat  BY OrchestratorAssumption DEF NAgents
<1> QED  BY <1>1, FS_Interval DEF Agents

(* The calls in flight are counted, and are no more than the agents.       *)
LEMMA InFlightCount ==
    IsFiniteSet(InFlight) /\ Cardinality(InFlight) \in 0 .. NAgents
<1>1. InFlight \subseteq Agents  BY DEF InFlight
<1>2. IsFiniteSet(InFlight)  BY <1>1, AgentsCount, FS_Subset
<1>3. Cardinality(InFlight) <= NAgents  BY <1>1, AgentsCount, FS_Subset
<1> QED  BY <1>2, <1>3, AgentsCount, FS_CardinalityType

(* Multiplication as the steps use it: one more or one less call. *)
LEMMA Times ==
    ASSUME NEW n \in Nat, NEW m \in Nat, NEW t \in Nat, n <= m
    PROVE  n * t \in Nat /\ n * t <= m * t /\ (n + 1) * t = n * t + t
BY Z3

(* No call is in flight, and nothing is spent.                             *)
LEMMA InitIInv == Init => IInv
<1> SUFFICES ASSUME Init PROVE IInv  OBVIOUS
<1> USE OrchestratorAssumption
<1>1. NewAgent \in AgentType  BY DEF NewAgent, AgentType
<1>2. BudgetTypeOK
  <2>1. remaining \in Int  BY DEF Init
  <2>2. agent \in [Agents -> AgentType]  BY <1>1 DEF Init
  <2>3. cancelled \in BOOLEAN  BY Zenon DEF Init
  <2> QED  BY <2>1, <2>2, <2>3 DEF BudgetTypeOK
<1>3. InFlight = {}  BY DEF Init, InFlight, NewAgent
<1>4. OverrunInv
  <2>1. Cardinality(InFlight) = 0  BY <1>3, FS_EmptySet
  <2>2. NAgents >= 1  BY DEF NAgents
  <2>3. NAgents * TokensPerCall >= 0  BY AgentsCount, Times, Z3
  <2> QED  BY <2>1, <2>3, AgentsCount, Z3 DEF OverrunInv, Limited, Init
<1>5. BudgetErrorTruthful  BY DEF Init, BudgetErrorTruthful, NewAgent
<1> QED  BY <1>2, <1>4, <1>5 DEF IInv

(* An agent enters or leaves the calls in flight, one at a time. *)
LEMMA StepInFlight ==
    ASSUME BudgetTypeOK, NEW a \in Agents, NEW r \in AgentType,
           agent' = [agent EXCEPT ![a] = r]
    PROVE  /\ r.pc \in {"calling", "deduct"} => InFlight' = InFlight \cup {a}
           /\ r.pc \notin {"calling", "deduct"} => InFlight' = InFlight \ {a}
BY DEF BudgetTypeOK, InFlight

AgentCalls(r) == r.pc \in {"calling", "deduct"}

(* The count after one agent moved, by where it was and is.                *)
LEMMA CountInFlight ==
    ASSUME BudgetTypeOK, NEW a \in Agents, NEW r \in AgentType,
           agent' = [agent EXCEPT ![a] = r]
    PROVE  /\ Cardinality(InFlight)' \in Nat
           /\ AgentCalls(r) /\ AgentCalls(agent[a]) => Cardinality(InFlight)' = Cardinality(InFlight)
           /\ AgentCalls(r) /\ ~AgentCalls(agent[a]) => Cardinality(InFlight)' = Cardinality(InFlight) + 1
           /\ ~AgentCalls(r) /\ AgentCalls(agent[a]) => Cardinality(InFlight)' = Cardinality(InFlight) - 1
           /\ ~AgentCalls(r) /\ ~AgentCalls(agent[a]) => Cardinality(InFlight)' = Cardinality(InFlight)
<1>1. a \in InFlight <=> AgentCalls(agent[a])  BY DEF InFlight, AgentCalls
<1>2. Cardinality(InFlight) \in Nat  BY InFlightCount
<1>3. Cardinality(InFlight \cup {a}) =
        IF a \in InFlight THEN Cardinality(InFlight) ELSE Cardinality(InFlight) + 1
  BY InFlightCount, FS_AddElement
<1>4. Cardinality(InFlight \ {a}) =
        IF a \in InFlight THEN Cardinality(InFlight) - 1 ELSE Cardinality(InFlight)
  BY InFlightCount, FS_RemoveElement
<1>5. IsFiniteSet(InFlight \cup {a}) /\ IsFiniteSet(InFlight \ {a})
  BY InFlightCount, FS_AddElement, FS_RemoveElement
<1>6. Cardinality(InFlight \cup {a}) \in Nat /\ Cardinality(InFlight \ {a}) \in Nat
  BY <1>5, FS_CardinalityType
<1>7. CASE AgentCalls(r)
  <2>1. InFlight' = InFlight \cup {a}  BY <1>7, StepInFlight DEF AgentCalls
  <2> QED  BY <2>1, <1>1, <1>3, <1>6, <1>7
<1>8. CASE ~AgentCalls(r)
  <2>1. InFlight' = InFlight \ {a}  BY <1>8, StepInFlight DEF AgentCalls
  <2> QED  BY <2>1, <1>1, <1>4, <1>6, <1>8
<1> QED  BY <1>7, <1>8

(* An ended agent is an agent. *)
LEMMA EndedType ==
    ASSUME BudgetTypeOK, NEW a \in Agents, NEW e \in {"none", "context", "budget", "llm"}
    PROVE  Ended(a, e) \in AgentType /\ Ended(a, e).pc = "done" /\ Ended(a, e).err = e
BY DEF BudgetTypeOK, AgentType, Ended

(* An agent ends, or moves on, without touching the counter. *)
LEMMA QuietStep ==
    ASSUME IInv, NEW a \in Agents, NEW r \in AgentType,
           agent' = [agent EXCEPT ![a] = r], remaining' = remaining, cancelled' \in BOOLEAN,
           AgentCalls(r) => AgentCalls(agent[a]),
           r.err = "budget" => agent[a].err = "budget" \/ (Limited /\ remaining <= 0)
    PROVE  IInv'
<1>1. BudgetTypeOK'  BY DEF IInv, BudgetTypeOK
<1>2. BudgetErrorTruthful'  BY DEF IInv, BudgetTypeOK, BudgetErrorTruthful, Limited
<1>3. Cardinality(InFlight)' <= Cardinality(InFlight) /\ Cardinality(InFlight)' \in Nat
  <2>1. Cardinality(InFlight) \in Nat  BY InFlightCount
  <2>2. BudgetTypeOK  BY DEF IInv
  <2>3. Cardinality(InFlight)' \in Nat  BY <2>2, CountInFlight
  <2>4. Cardinality(InFlight)' = Cardinality(InFlight)
          \/ Cardinality(InFlight)' = Cardinality(InFlight) - 1
    BY <2>2, CountInFlight, Zenon
  <2> QED  BY <2>1, <2>3, <2>4
<1>4. OverrunInv'
  <2>1. Cardinality(InFlight)' * TokensPerCall <= Cardinality(InFlight) * TokensPerCall
        /\ Cardinality(InFlight)' * TokensPerCall \in Nat
        /\ Cardinality(InFlight) * TokensPerCall \in Nat
        /\ NAgents * TokensPerCall \in Nat
    BY <1>3, InFlightCount, AgentsCount, Times, OrchestratorAssumption
  <2> QED  BY <2>1 DEF IInv, OverrunInv, BudgetTypeOK, Limited
<1> QED  BY <1>1, <1>2, <1>4 DEF IInv

(* The soft check lets one more call start only while a token is left, and *)
(* at most the other agents are in flight then.                            *)
LEMMA BudgetCheckIInv ==
    ASSUME IInv, NEW a \in Agents, BudgetCheck(a)
    PROVE  IInv'
<1>0. BudgetTypeOK  BY DEF IInv
<1> DEFINE r == [agent[a] EXCEPT !.pc = "calling"]
<1>1. CASE Depleted
  <2>1. agent' = [agent EXCEPT ![a] = Ended(a, "budget")]  BY <1>1 DEF BudgetCheck
  <2> QED  BY <2>1, <1>0, <1>1, EndedType, QuietStep
           DEF BudgetCheck, Depleted, AgentCalls, BudgetTypeOK
<1>2. CASE ~Depleted
  <2>1. agent' = [agent EXCEPT ![a] = r]  BY <1>2 DEF BudgetCheck
  <2>2. r \in AgentType /\ r.pc = "calling" /\ r.err = agent[a].err
    BY <1>0 DEF BudgetTypeOK, AgentType
  <2>3. AgentCalls(r) /\ ~AgentCalls(agent[a])  BY <2>2 DEF AgentCalls, BudgetCheck
  <2>4. Cardinality(InFlight)' = Cardinality(InFlight) + 1
    BY <1>0, <2>1, <2>2, <2>3, CountInFlight
  <2>5. BudgetTypeOK'  BY <1>0, <2>1, <2>2 DEF BudgetTypeOK, BudgetCheck
  <2>6. BudgetErrorTruthful'
    BY <1>0, <2>1, <2>2 DEF IInv, BudgetTypeOK, BudgetErrorTruthful, BudgetCheck, Limited
  <2>7. OverrunInv'
    <3>1. Cardinality(InFlight)' \in 0 .. NAgents
      <4>1. InFlight' \subseteq Agents  BY DEF InFlight
      <4> QED  BY <4>1, AgentsCount, FS_Subset, FS_CardinalityType
    <3>2. Cardinality(InFlight)' * TokensPerCall <= NAgents * TokensPerCall
          /\ Cardinality(InFlight)' * TokensPerCall \in Nat /\ NAgents * TokensPerCall \in Nat
      BY <3>1, AgentsCount, Times, OrchestratorAssumption
    <3>3. Limited => remaining' >= 1 /\ remaining' \in Int
      BY <1>0, <1>2 DEF Depleted, BudgetCheck, BudgetTypeOK
    <3> QED  BY <3>2, <3>3 DEF OverrunInv, Limited
  <2> QED  BY <2>5, <2>6, <2>7 DEF IInv
<1> QED  BY <1>1, <1>2

(* A deduction takes at most what the call in flight was counted for. *)
LEMMA DeductIInv ==
    ASSUME IInv, NEW a \in Agents, Deduct(a)
    PROVE  IInv'
<1>0. BudgetTypeOK /\ agent[a] \in AgentType  BY DEF IInv, BudgetTypeOK
<1> DEFINE r == IF Limited /\ remaining' <= 0 THEN Ended(a, "budget")
                ELSE IF agent[a].final \/ agent[a].turns >= MaxTurns THEN Ended(a, "none")
                ELSE [agent[a] EXCEPT !.pc = "turn"]
<1>1. agent' = [agent EXCEPT ![a] = r]  BY DEF Deduct
<1>2. /\ r \in AgentType /\ r.pc \in {"done", "turn"}
      /\ r.err = "budget" => agent[a].err = "budget" \/ (Limited /\ remaining' <= 0)
  <2>1. [agent[a] EXCEPT !.pc = "turn"] \in AgentType
        /\ [agent[a] EXCEPT !.pc = "turn"].pc = "turn"
        /\ [agent[a] EXCEPT !.pc = "turn"].err = agent[a].err
    BY <1>0 DEF AgentType
  <2> QED  BY <2>1, <1>0, EndedType
<1> HIDE DEF r
<1>3. agent[a].cost \in 0 .. TokensPerCall /\ TokensPerCall \in Nat
  BY <1>0, OrchestratorAssumption DEF AgentType
<1>4. remaining \in Int /\ remaining' \in Int
      /\ (Limited => remaining' = remaining - agent[a].cost) /\ (~Limited => remaining' = remaining)
  BY <1>0, <1>3 DEF BudgetTypeOK, Deduct, Charged
<1>5. BudgetTypeOK'  BY <1>0, <1>1, <1>2, <1>4 DEF BudgetTypeOK, Deduct
<1>6. remaining' <= remaining  BY <1>3, <1>4
<1>7. BudgetErrorTruthful'
  <2> SUFFICES ASSUME NEW b \in Agents, agent'[b].err = "budget"
               PROVE  Limited /\ remaining' <= 0
    BY DEF BudgetErrorTruthful, Limited
  <2>1. agent[b].err = "budget" \/ (Limited /\ remaining' <= 0)
    BY <1>0, <1>1, <1>2 DEF BudgetTypeOK
  <2> QED  BY <2>1, <1>4, <1>6 DEF IInv, BudgetErrorTruthful
<1>8. OverrunInv'
  <2>1. AgentCalls(agent[a]) /\ ~AgentCalls(r)  BY <1>2 DEF AgentCalls, Deduct
  <2>2. Cardinality(InFlight)' = Cardinality(InFlight) - 1 /\ Cardinality(InFlight)' \in Nat
    BY <1>0, <1>1, <1>2, <2>1, CountInFlight
  <2>3. Cardinality(InFlight) = Cardinality(InFlight)' + 1  BY <2>2, InFlightCount
  <2>4. Cardinality(InFlight) * TokensPerCall
          = Cardinality(InFlight)' * TokensPerCall + TokensPerCall
        /\ Cardinality(InFlight)' * TokensPerCall \in Nat
    BY <2>2, <2>3, <1>3, Times
  <2>5. NAgents * TokensPerCall \in Nat  BY AgentsCount, <1>3, Times
  <2> QED  BY <2>4, <2>5, <1>3, <1>4 DEF IInv, OverrunInv, Limited
<1> QED  BY <1>5, <1>7, <1>8 DEF IInv

(* Every step keeps the budget, each call counted at its highest cost.     *)
LEMMA NextIInv == IInv /\ [Next]_vars => IInv'
<1> SUFFICES ASSUME IInv, [Next]_vars PROVE IInv'  OBVIOUS
<1>0. BudgetTypeOK /\ OverrunInv /\ BudgetErrorTruthful /\ cancelled \in BOOLEAN
      /\ \A a \in Agents : agent[a] \in AgentType
  BY DEF IInv, BudgetTypeOK
<1>1. ASSUME NEW a \in Agents, Acquire(a) PROVE IInv'
  <2> DEFINE r == [agent[a] EXCEPT !.pc = "turn"]
  <2>1. r \in AgentType /\ r.pc = "turn" /\ r.err = agent[a].err  BY <1>0 DEF AgentType
  <2>2. agent' = [agent EXCEPT ![a] = r]  BY <1>0, <1>1 DEF Acquire, BudgetTypeOK
  <2> QED  BY <2>1, <2>2, <1>0, <1>1, QuietStep DEF Acquire, AgentCalls
<1>2. ASSUME NEW a \in Agents, AcquireCancelled(a) \/ TurnCancelled(a) PROVE IInv'
  BY <1>0, <1>2, EndedType, QuietStep DEF AcquireCancelled, TurnCancelled, AgentCalls
<1>3. ASSUME NEW a \in Agents, BudgetCheck(a) PROVE IInv'  BY <1>3, BudgetCheckIInv
<1>4. ASSUME NEW a \in Agents, CompleteOK(a) PROVE IInv'
  <2>1. PICK t \in 0 .. TokensPerCall, f \in BOOLEAN :
          agent' = [agent EXCEPT ![a] = [agent[a] EXCEPT
                       !.pc = "deduct", !.turns = NextTurn(a),
                       !.tokens = agent[a].tokens + t, !.cost = t, !.final = f]]
    BY <1>4 DEF CompleteOK
  <2> DEFINE r == [agent[a] EXCEPT !.pc = "deduct", !.turns = NextTurn(a),
                       !.tokens = agent[a].tokens + t, !.cost = t, !.final = f]
  <2>2. r \in AgentType /\ r.err = agent[a].err
    <3>1. agent[a] \in AgentType  BY <1>0
    <3>2. t \in Nat  BY OrchestratorAssumption
    <3>3. agent[a].tokens + t \in Nat /\ NextTurn(a) \in Nat  BY <3>1, <3>2 DEF AgentType, NextTurn
    <3> HIDE DEF NextTurn
    <3> QED  BY <3>1, <3>3 DEF AgentType
  <2>3. AgentCalls(agent[a])  BY <1>4 DEF CompleteOK, AgentCalls
  <2>4. agent' = [agent EXCEPT ![a] = r]  BY <2>1
  <2> QED  BY <2>2, <2>3, <2>4, <1>0, <1>4, QuietStep DEF CompleteOK
<1>5. ASSUME NEW a \in Agents, CompleteError(a) PROVE IInv'
  BY <1>0, <1>5, EndedType, QuietStep DEF CompleteError, AgentCalls
<1>6. ASSUME NEW a \in Agents, Deduct(a) PROVE IInv'  BY <1>6, DeductIInv
<1>7. ASSUME NEW a \in Agents, Timeout(a) PROVE IInv'
  <2> DEFINE r == [agent[a] EXCEPT !.expired = TRUE]
  <2>1. r \in AgentType /\ r.pc = agent[a].pc /\ r.err = agent[a].err  BY <1>0 DEF AgentType
  <2>2. agent' = [agent EXCEPT ![a] = r]  BY <1>0, <1>7 DEF Timeout, BudgetTypeOK
  <2> QED  BY <2>1, <2>2, <1>0, <1>7, QuietStep DEF Timeout, AgentCalls
<1>8. CASE Finish \/ Cancel \/ UNCHANGED vars
  <2>1. remaining' = remaining /\ agent' = agent  BY <1>8 DEF Finish, Cancel, vars
  <2>2. cancelled' \in BOOLEAN  BY <1>0, <1>8 DEF Finish, Cancel, vars
  <2>3. InFlight' = InFlight  BY <2>1 DEF InFlight
  <2>4. BudgetTypeOK'  BY <1>0, <2>1, <2>2 DEF BudgetTypeOK
  <2>5. OverrunInv'  BY <1>0, <2>1, <2>3 DEF OverrunInv, Limited
  <2>6. BudgetErrorTruthful'  BY <1>0, <2>1 DEF BudgetErrorTruthful, Limited
  <2> QED  BY <2>4, <2>5, <2>6 DEF IInv
<1> QED  BY <1>1, <1>2, <1>3, <1>4, <1>5, <1>6, <1>7, <1>8 DEF Next, AgentStep

(* However the check, the call and the deduction of the agents interleave, *)
(* the budget of orchestrator.go is overrun by less than one full call of  *)
(* every agent.                                                            *)
THEOREM OverrunIsBounded == Spec => []OverrunBounded
<1>1. IInv => OverrunBounded
  <2> SUFFICES ASSUME IInv, Limited PROVE remaining >= 1 - NAgents * TokensPerCall
    BY DEF OverrunBounded
  <2>1. Cardinality(InFlight) * TokensPerCall \in Nat /\ NAgents * TokensPerCall \in Nat
    BY InFlightCount, AgentsCount, Times, OrchestratorAssumption
  <2> QED  BY <2>1 DEF IInv, OverrunInv, BudgetTypeOK
<1> QED  BY InitIInv, NextIInv, <1>1, PTL DEF Spec

(* An agent of runner.go that reports ErrBudgetExhausted is never          *)
(* contradicted by the counter, then or later.                             *)
THEOREM BudgetErrorIsTruthful == Spec => []BudgetErrorTruthful
<1>1. IInv => BudgetErrorTruthful  BY DEF IInv
<1> QED  BY InitIInv, NextIInv, <1>1, PTL DEF Spec

(* Both together: what the shared counter of orchestrator.go guarantees,   *)
(* for any number of agents, any budget and any cost of a call.            *)
THEOREM BudgetIsKept == Spec => []BudgetKept
<1>1. OverrunBounded /\ BudgetErrorTruthful => BudgetKept  BY DEF BudgetKept
<1> QED  BY OverrunIsBounded, BudgetErrorIsTruthful, <1>1, PTL

(* Once the summary is taken every agent is done, and stays as it is.      *)
SummaryInv == SummaryFinal /\ (summary.done => Waited)

(* No step moves an agent once the summary is taken.                       *)
LEMMA SummaryStep == ASSUME SummaryInv, [Next]_vars PROVE SummaryInv'
<1>1. CASE summary.done
  <2>1. \A a \in Agents : ~AgentStep(a) /\ ~Timeout(a)
    BY <1>1 DEF SummaryInv, Waited, AgentStep, Acquire, AcquireCancelled, TurnCancelled,
       BudgetCheck, CompleteOK, CompleteError, Deduct, Timeout
  <2>2. UNCHANGED <<agent, summary>>  BY <1>1, <2>1 DEF Next, Finish, Cancel, vars
  <2>3. Succeeded' = Succeeded  BY <2>2 DEF Succeeded
  <2>4. TotalTokens' = TotalTokens  BY <2>2 DEF TotalTokens
  <2>5. Waited' = Waited  BY <2>2 DEF Waited
  <2> QED  BY <2>2, <2>3, <2>4, <2>5 DEF SummaryInv, SummaryFinal
<1>2. CASE ~summary.done
  <2>1. CASE Finish
    <3>1. agent' = agent /\ Waited /\ summary'.success = Cardinality(Succeeded)
          /\ summary'.tokens = TotalTokens
      BY <2>1 DEF Finish
    <3>2. Succeeded' = Succeeded  BY <3>1 DEF Succeeded
    <3>3. TotalTokens' = TotalTokens  BY <3>1 DEF TotalTokens
    <3>4. Waited' = Waited  BY <3>1 DEF Waited
    <3> QED  BY <3>1, <3>2, <3>3, <3>4 DEF SummaryInv, SummaryFinal
  <2>2. CASE ~Finish
    <3>1. UNCHANGED summary
      BY <2>2 DEF Next, vars, Cancel, AgentStep, Acquire, AcquireCancelled, TurnCancelled,
         BudgetCheck, CompleteOK, CompleteError, Deduct, Timeout
    <3> QED  BY <1>2, <3>1 DEF SummaryInv, SummaryFinal
  <2> QED  BY <2>1, <2>2
<1> QED  BY <1>1, <1>2

(* What Run reports stays true of the agents' results: none of them can    *)
(* change any more when eg.Wait has returned, not by a late timeout or a   *)
(* cancellation either.                                                    *)
THEOREM SummaryStaysTrue == Spec => []SummaryFinal
<1>1. Init => SummaryInv  BY DEF Init, SummaryInv, SummaryFinal, NoSummary
<1>2. SummaryInv => SummaryFinal  BY DEF SummaryInv
<1> QED  BY <1>1, <1>2, SummaryStep, PTL DEF Spec

-----------------------------------------------------------------------------
(* The tokens.  First what a fold over the agents is.                      *)

(* The element a fold takes out of a set. *)
Picked(s) == CHOOSE x \in s : TRUE

(* What a sum over the subset s of the agents is, by what it is over less. *)
SumRule(f, g, s) == IF s = {} THEN 0 ELSE f[Picked(s)] + g[s \ {Picked(s)}]

Obeys(D, f, g) == \A s \in SUBSET D : g[s] = SumRule(f, g, s)

IsSum(D, f, g) == g = [s \in SUBSET D |-> SumRule(f, g, s)]

(* The fold of the model is the recursive function it stands for.          *)
LEMMA SumIsFold ==
    ASSUME NEW D, NEW f, DOMAIN f = D
    PROVE  SumOf(f) = (CHOOSE g : IsSum(D, f, g))[D]
BY Zenon DEF SumOf, FoldFunction, FoldFunctionOnSet, MapThenFoldSet, IsSum, SumRule, Picked

(* A set that is not empty has the element that is picked.                 *)
LEMMA PickedIn == ASSUME NEW s, s # {} PROVE Picked(s) \in s
BY Zenon DEF Picked

(* Induction over the subsets of a finite set: of the sets that break a    *)
(* rule one has only proper subsets that keep it.                          *)
LEMMA SmallestSet ==
    ASSUME NEW D, IsFiniteSet(D), NEW B, B \subseteq SUBSET D, B # {}
    PROVE  \E s \in B : \A x \in s : s \ {x} \notin B
<1>1. PICK R : R = StrictSubsetOrdering(D)  OBVIOUS
<1>2. B \subseteq FiniteSubsetsOf(D)  BY FS_FiniteSubsetsOfFinite
<1>3. IsWellFoundedOn(R, FiniteSubsetsOf(D))
  BY <1>1, FS_StrictSubsetOrderingWellFounded
<1>4. PICK s \in B : \A t \in B : <<t, s>> \notin R  BY <1>2, <1>3, WFMin, Zenon
<1>5. \A x \in s : <<s \ {x}, s>> \in R
  <2>1. \A x \in s : /\ s \ {x} \in SUBSET D /\ s \in SUBSET D
                     /\ s \ {x} \subseteq s /\ s \ {x} # s
    OBVIOUS
  <2> QED  BY <1>1, <2>1 DEF StrictSubsetOrdering
<1> QED  BY <1>4, <1>5

(* A finite set that is not empty has a greatest element.                  *)
LEMMA GreatestIn ==
    ASSUME NEW D, IsFiniteSet(D), NEW f \in [D -> Int], NEW s \in SUBSET D, s # {}
    PROVE  \E x \in s : \A y \in s : f[y] <= f[x]
<1> DEFINE Tops(u) == {x \in u : \A y \in u : f[y] <= f[x]}
           B == {u \in SUBSET D : u # {} /\ Tops(u) = {}}
<1>1. SUFFICES ASSUME B # {} PROVE FALSE  BY Zenon
<1>2. PICK u \in B : \A x \in u : u \ {x} \notin B  BY <1>1, SmallestSet
<1>3. PICK x \in u : TRUE  BY <1>2
<1>4. u \in SUBSET D /\ u \ {x} \in SUBSET D  BY <1>2
<1>5. CASE u \ {x} = {}
  <2>1. u = {x} /\ f[x] \in Int  BY <1>3, <1>4, <1>5
  <2>2. x \in Tops(u)  BY <2>1
  <2> QED  BY <1>2, <2>2
<1>6. CASE u \ {x} # {}
  <2>1. PICK m \in u \ {x} : \A y \in u \ {x} : f[y] <= f[m]  BY <1>2, <1>4, <1>6
  <2>2. \A y \in u : f[y] \in Int  BY <1>4
  <2>3. CASE f[x] <= f[m]
    <3>1. m \in Tops(u)  BY <2>1, <2>3
    <3> QED  BY <1>2, <3>1
  <2>4. CASE ~(f[x] <= f[m])
    <3>1. x \in Tops(u)  BY <1>3, <2>1, <2>2, <2>4
    <3> QED  BY <1>2, <3>1
  <2> QED  BY <2>3, <2>4
<1> QED  BY <1>5, <1>6

(* What comes before x in D, in the order of f.                            *)
Lesser(D, f, x) == {y \in D : f[y] < f[x]}

(* The elements of a finite set can be counted off in their order: for     *)
(* every number below the set's size one has that many before it.          *)
LEMMA CountedOff ==
    ASSUME NEW D, IsFiniteSet(D), NEW f \in [D -> Int],
           \A x, y \in D : f[x] = f[y] => x = y
    PROVE  \A k \in 0 .. Cardinality(D) - 1 : \E x \in D : Cardinality(Lesser(D, f, x)) = k
<1> DEFINE Before(u, x) == Lesser(u, f, x)
           Good(u) == \A k \in 0 .. Cardinality(u) - 1 : \E x \in u : Cardinality(Before(u, x)) = k
           B == {u \in SUBSET D : ~Good(u)}
<1>1. SUFFICES ASSUME B # {} PROVE FALSE
  <2>1. Good(D)  BY <1>1
  <2> QED  BY <2>1
<1>2. PICK u \in B : \A x \in u : u \ {x} \notin B  BY <1>1, SmallestSet
<1>3. u \in SUBSET D /\ IsFiniteSet(u) /\ Cardinality(u) \in Nat
  BY <1>2, FS_Subset, FS_CardinalityType
<1>4. u # {}
  <2> SUFFICES ASSUME u = {} PROVE FALSE  OBVIOUS
  <2>1. Cardinality(u) = 0  BY FS_EmptySet
  <2>2. Good(u)  BY <2>1
  <2> QED  BY <1>2, <2>2
<1>5. PICK m \in u : \A y \in u : f[y] <= f[m]  BY <1>3, <1>4, GreatestIn
<1> DEFINE v == u \ {m}
<1>6. Cardinality(v) = Cardinality(u) - 1  BY <1>3, FS_RemoveElement
<1>7. Good(v)
  <2>1. v \in SUBSET D /\ v \notin B  BY <1>2, <1>3
  <2> QED  BY <2>1
<1>8. ASSUME NEW k \in 0 .. Cardinality(u) - 1
      PROVE  \E x \in u : Cardinality(Before(u, x)) = k
  <2>1. CASE k = Cardinality(u) - 1
    <3>1. Before(u, m) = v
      <4>1. \A y \in u : f[y] \in Int /\ f[m] \in Int  BY <1>3
      <4>2. \A y \in v : f[y] # f[m]  BY <1>3
      <4>3. \A y \in v : f[y] < f[m]  BY <1>5, <4>1, <4>2
      <4>4. ~(f[m] < f[m])  BY <4>1
      <4> QED  BY <4>3, <4>4 DEF Lesser
    <3> QED  BY <1>6, <2>1, <3>1
  <2>2. CASE k # Cardinality(u) - 1
    <3>1. k \in 0 .. Cardinality(v) - 1  BY <1>3, <1>6, <2>2
    <3>2. PICK x \in v : Cardinality(Before(v, x)) = k
      <4> HIDE DEF v, Before
      <4> QED  BY <1>7, <3>1
    <3>3. ~(f[m] < f[x])
      <4>1. f[m] \in Int /\ f[x] \in Int /\ f[x] <= f[m]  BY <1>3, <1>5
      <4>2. x # m /\ f[x] # f[m]  BY <1>3
      <4> QED  BY <4>1, <4>2
    <3>4. Before(v, x) = Before(u, x)  BY <3>3 DEF Lesser
    <3> QED  BY <3>2, <3>4
  <2> QED  BY <2>1, <2>2
<1> QED  BY <1>2, <1>8

(* There is such a function: from one right for the sets with n elements   *)
(* at most, one step of the rule makes one right for those with n + 1.     *)
LEMMA SumExists ==
    ASSUME NEW D, IsFiniteSet(D), NEW f \in [D -> Int]
    PROVE  \E g : IsSum(D, f, g)
<1> DEFINE Right(g, n) == \A s \in SUBSET D : Cardinality(s) <= n => g[s] = SumRule(f, g, s)
           Good(n) == \E g : Right(g, n) /\ g = [s \in SUBSET D |-> g[s]]
           B == {s \in SUBSET D : ~Good(Cardinality(s))}
<1>1. \A s \in SUBSET D : IsFiniteSet(s) /\ Cardinality(s) \in Nat /\ Cardinality(s) <= Cardinality(D)
  <2> SUFFICES ASSUME NEW s \in SUBSET D
      PROVE IsFiniteSet(s) /\ Cardinality(s) \in Nat /\ Cardinality(s) <= Cardinality(D)  OBVIOUS
  <2>1. IsFiniteSet(s) /\ Cardinality(s) <= Cardinality(D)  BY FS_Subset
  <2> QED  BY <2>1, FS_CardinalityType
<1>2. Good(0)
  <2> DEFINE z == [s \in SUBSET D |-> 0]
  <2>1. \A s \in SUBSET D : Cardinality(s) <= 0 => z[s] = SumRule(f, z, s)
    <3> SUFFICES ASSUME NEW s \in SUBSET D, Cardinality(s) <= 0 PROVE s = {}
      BY DEF SumRule
    <3>1. Cardinality(s) = 0 /\ IsFiniteSet(s)  BY <1>1
    <3> QED  BY <3>1, FS_EmptySet
  <2>2. z = [s \in SUBSET D |-> z[s]]  OBVIOUS
  <2> HIDE DEF z
  <2> QED  BY <2>1, <2>2
<1>3. ASSUME NEW n \in Nat, Good(n) PROVE Good(n + 1)
  <2>1. PICK g : Right(g, n) /\ g = [s \in SUBSET D |-> g[s]]  BY <1>3
  <2> DEFINE h == [s \in SUBSET D |-> SumRule(f, g, s)]
  <2>2. \A s \in SUBSET D : h[s] = SumRule(f, g, s)  OBVIOUS
  <2>3. h = [s \in SUBSET D |-> h[s]]  OBVIOUS
  <2> HIDE DEF h
  <2>4. ASSUME NEW s \in SUBSET D, Cardinality(s) <= n + 1 PROVE h[s] = SumRule(f, h, s)
    <3>1. CASE s = {}  BY <3>1, <2>2 DEF SumRule
    <3>2. CASE s # {}
      <4>1. Picked(s) \in s  BY <3>2, PickedIn
      <4>2. Cardinality(s \ {Picked(s)}) = Cardinality(s) - 1 /\ s \ {Picked(s)} \in SUBSET D
        BY <1>1, <4>1, FS_RemoveElement
      <4>3. Cardinality(s \ {Picked(s)}) <= n  BY <1>1, <2>4, <4>2
      <4>4. g[s \ {Picked(s)}] = h[s \ {Picked(s)}]  BY <2>1, <2>2, <4>2, <4>3
      <4> QED  BY <2>2, <3>2, <4>4 DEF SumRule
    <3> QED  BY <3>1, <3>2
  <2>5. Right(h, n + 1)  BY <2>4
  <2> QED  BY <2>3, <2>5
<1>4. Good(Cardinality(D))
  <2> HIDE DEF Good
  <2>1. ASSUME B # {} PROVE FALSE
    <3>1. PICK s \in B : \A x \in s : s \ {x} \notin B  BY <2>1, SmallestSet
    <3>2. s # {}  BY <1>2, <3>1, FS_EmptySet
    <3>3. PICK x \in s : TRUE  BY <3>2
    <3>4. Cardinality(s \ {x}) = Cardinality(s) - 1 /\ s \ {x} \in SUBSET D
      BY <1>1, <3>1, FS_RemoveElement
    <3>5. Cardinality(s \ {x}) \in Nat /\ Cardinality(s) = Cardinality(s \ {x}) + 1
      BY <1>1, <3>1, <3>4
    <3>6. Good(Cardinality(s \ {x}))  BY <3>1, <3>3, <3>4
    <3>7. Good(Cardinality(s \ {x}) + 1)  BY <1>3, <3>5, <3>6
    <3> QED  BY <3>1, <3>5, <3>7
  <2> QED  BY <2>1
<1>5. PICK g : Right(g, Cardinality(D)) /\ g = [s \in SUBSET D |-> g[s]]  BY <1>4
<1>6. \A s \in SUBSET D : g[s] = SumRule(f, g, s)  BY <1>1, <1>5
<1>7. g = [s \in SUBSET D |-> SumRule(f, g, s)]  BY <1>5, <1>6
<1> QED  BY <1>7 DEF IsSum

(* So the sum obeys the rule.                                              *)
LEMMA SumObeys ==
    ASSUME NEW D, IsFiniteSet(D), NEW f \in [D -> Int]
    PROVE  \E g : SumOf(f) = g[D] /\ Obeys(D, f, g)
<1> DEFINE g == CHOOSE h : IsSum(D, f, h)
<1>1. SumOf(f) = g[D]  BY SumIsFold
<1>2. IsSum(D, f, g)
  <2>1. \E h : IsSum(D, f, h)  BY SumExists
  <2> QED  BY <2>1, Zenon
<1> HIDE DEF g
<1>3. Obeys(D, f, g)  BY <1>2 DEF IsSum, Obeys
<1> QED  BY <1>1, <1>3

(* The sum of natural numbers is one, and that of zeros is zero.           *)
LEMMA SumOfNats ==
    ASSUME NEW D, IsFiniteSet(D), NEW f \in [D -> Nat]
    PROVE  /\ SumOf(f) \in Nat
           /\ (\A x \in D : f[x] = 0) => SumOf(f) = 0
<1>0. f \in [D -> Int]  OBVIOUS
<1>1. PICK g : SumOf(f) = g[D] /\ Obeys(D, f, g)
  BY <1>0, SumObeys, Zenon
<1> DEFINE Ok(s) == g[s] \in Nat /\ ((\A x \in D : f[x] = 0) => g[s] = 0)
           B == {s \in SUBSET D : ~Ok(s)}
<1>2. ASSUME B # {} PROVE FALSE
  <2>1. PICK s \in B : \A x \in s : s \ {x} \notin B  BY <1>2, SmallestSet
  <2>2. s # {}
    <3>1. {} \in SUBSET D /\ g[{}] = 0  BY <1>1, Zenon DEF Obeys, SumRule
    <3> QED  BY <2>1, <3>1
  <2>3. Picked(s) \in s  BY <2>2, PickedIn
  <2>4. s \in SUBSET D /\ s \ {Picked(s)} \in SUBSET D /\ Picked(s) \in D  BY <2>1, <2>3
  <2>5. Ok(s \ {Picked(s)})  BY <2>1, <2>3, <2>4
  <2>6. g[s] = f[Picked(s)] + g[s \ {Picked(s)}]  BY <1>1, <2>2, <2>4 DEF Obeys, SumRule
  <2>7. Ok(s)  BY <2>4, <2>5, <2>6
  <2> QED  BY <2>1, <2>7
<1>3. Ok(D)  BY <1>2
<1> QED  BY <1>1, <1>3

(* One term changes, and the sum by as much.                               *)
LEMMA SumMoves ==
    ASSUME NEW D, IsFiniteSet(D), NEW f \in [D -> Nat], NEW a \in D, NEW k \in Nat
    PROVE  SumOf([f EXCEPT ![a] = k]) = SumOf(f) + (k - f[a])
<1> DEFINE e == [f EXCEPT ![a] = k]
<1>a. e \in [D -> Int] /\ f \in [D -> Int]  OBVIOUS
<1>0. e[a] = k /\ \A x \in D : x # a => e[x] = f[x]  OBVIOUS
<1> HIDE DEF e
<1>1. PICK g : SumOf(f) = g[D] /\ Obeys(D, f, g)
  BY <1>a, SumObeys, Zenon
<1>2. PICK h : SumOf(e) = h[D] /\ Obeys(D, e, h)
  BY <1>a, SumObeys, Zenon
<1> DEFINE d == k - f[a]
           Ok(s) == /\ g[s] \in Int
                    /\ a \in s => h[s] = g[s] + d
                    /\ a \notin s => h[s] = g[s]
           B == {s \in SUBSET D : ~Ok(s)}
<1>3. d \in Int /\ k = f[a] + d  OBVIOUS
<1> HIDE DEF d
<1>4. ASSUME B # {} PROVE FALSE
  <2>1. PICK s \in B : \A x \in s : s \ {x} \notin B  BY <1>4, SmallestSet
  <2>2. s # {}
    <3>1. {} \in SUBSET D /\ g[{}] = 0 /\ h[{}] = 0  BY <1>1, <1>2, Zenon DEF Obeys, SumRule
    <3>2. Ok({})  BY <3>1
    <3> QED  BY <2>1, <3>2
  <2>3. Picked(s) \in s  BY <2>2, PickedIn
  <2>4. s \in SUBSET D /\ s \ {Picked(s)} \in SUBSET D /\ Picked(s) \in D  BY <2>1, <2>3
  <2>5. Ok(s \ {Picked(s)})  BY <2>1, <2>3, <2>4
  <2>6. /\ g[s] = f[Picked(s)] + g[s \ {Picked(s)}]
        /\ h[s] = e[Picked(s)] + h[s \ {Picked(s)}]
    BY <1>1, <1>2, <2>2, <2>4 DEF Obeys, SumRule
  <2>7. Ok(s)
    <3>1. f[Picked(s)] \in Int  BY <2>4
    <3>2. CASE Picked(s) = a  BY <1>0, <1>3, <2>3, <2>5, <2>6, <3>1, <3>2
    <3>3. CASE Picked(s) # a  BY <1>0, <1>3, <2>3, <2>4, <2>5, <2>6, <3>1, <3>3
    <3> QED  BY <3>2, <3>3
  <2> QED  BY <2>1, <2>7
<1>5. Ok(D)  BY <1>4
<1> QED  BY <1>1, <1>2, <1>5 DEF d, e

(* What the agents hold of the budget without its having been charged.     *)
Uncharged(r) == IF r.pc = "deduct" THEN r.cost ELSE 0

Held == SumOf([a \in Agents |-> Uncharged(agent[a])])

Conserved == Limited => TotalTokens - Held = MaxTokens - remaining

(* One agent's record changes, and the two sums by what changed in it.     *)
LEMMA TokensMove ==
    ASSUME BudgetTypeOK, NEW a \in Agents, NEW r \in AgentType,
           agent' = [agent EXCEPT ![a] = r]
    PROVE  /\ TotalTokens' = TotalTokens + (r.tokens - agent[a].tokens)
           /\ Held' = Held + (Uncharged(r) - Uncharged(agent[a]))
           /\ TotalTokens \in Nat /\ Held \in Nat
<1> DEFINE f == [b \in Agents |-> agent[b].tokens]
           h == [b \in Agents |-> Uncharged(agent[b])]
<1>1. f \in [Agents -> Nat]  BY DEF BudgetTypeOK, AgentType
<1>2. \A q \in AgentType : Uncharged(q) \in Nat
  BY OrchestratorAssumption DEF AgentType, Uncharged
<1>3. h \in [Agents -> Nat]  BY <1>2 DEF BudgetTypeOK
<1>4. r.tokens \in Nat /\ Uncharged(r) \in Nat  BY <1>2 DEF AgentType
<1>5. [b \in Agents |-> agent'[b].tokens] = [f EXCEPT ![a] = r.tokens]  BY DEF BudgetTypeOK
<1>6. [b \in Agents |-> Uncharged(agent'[b])] = [h EXCEPT ![a] = Uncharged(r)]
  <2> HIDE DEF Uncharged
  <2> QED  BY DEF BudgetTypeOK
<1>7. f[a] = agent[a].tokens /\ h[a] = Uncharged(agent[a])  OBVIOUS
<1>8. TotalTokens = SumOf(f) /\ Held = SumOf(h)
      /\ TotalTokens' = SumOf([f EXCEPT ![a] = r.tokens])
      /\ Held' = SumOf([h EXCEPT ![a] = Uncharged(r)])
  BY <1>5, <1>6, Zenon DEF TotalTokens, Held
<1> HIDE DEF f, h
<1>9. SumOf([f EXCEPT ![a] = r.tokens]) = SumOf(f) + (r.tokens - f[a])
  BY <1>1, <1>4, AgentsCount, SumMoves
<1>10. SumOf([h EXCEPT ![a] = Uncharged(r)]) = SumOf(h) + (Uncharged(r) - h[a])
  BY <1>3, <1>4, AgentsCount, SumMoves
<1>11. SumOf(f) \in Nat /\ SumOf(h) \in Nat  BY <1>1, <1>3, AgentsCount, SumOfNats
<1> QED  BY <1>7, <1>8, <1>9, <1>10, <1>11, Zenon

(* Nothing is used at first.                                               *)
LEMMA ConservedAtFirst == Init => Conserved
<1> SUFFICES ASSUME Init PROVE Conserved  OBVIOUS
<1> DEFINE f == [a \in Agents |-> agent[a].tokens]
           h == [a \in Agents |-> Uncharged(agent[a])]
<1>1. \A a \in Agents : f[a] = 0 /\ h[a] = 0  BY DEF Init, NewAgent, Uncharged
<1>2. f \in [Agents -> Nat] /\ h \in [Agents -> Nat]
  BY DEF Init, NewAgent, Uncharged
<1>3. TotalTokens = SumOf(f) /\ Held = SumOf(h)  BY Zenon DEF TotalTokens, Held
<1> HIDE DEF f, h
<1>4. SumOf(f) = 0 /\ SumOf(h) = 0  BY <1>1, <1>2, AgentsCount, SumOfNats
<1>5. remaining = MaxTokens /\ MaxTokens \in Nat  BY OrchestratorAssumption DEF Init
<1> QED  BY <1>3, <1>4, <1>5 DEF Conserved

(* Every step keeps the account: what an answer adds to the result is held *)
(* until Deduct takes it from the counter, and no other step touches it.   *)
LEMMA ConservedStep ==
    ASSUME BudgetTypeOK, Conserved, [Next]_vars PROVE Conserved'
<1>0. remaining \in Int /\ \A a \in Agents : agent[a] \in AgentType
  BY DEF BudgetTypeOK
<1>1. ASSUME NEW a \in Agents, NEW r \in AgentType, agent' = [agent EXCEPT ![a] = r],
             remaining' = remaining,
             r.tokens - Uncharged(r) = agent[a].tokens - Uncharged(agent[a])
      PROVE  Conserved'
  <2>1. /\ TotalTokens' = TotalTokens + (r.tokens - agent[a].tokens)
        /\ Held' = Held + (Uncharged(r) - Uncharged(agent[a]))
        /\ TotalTokens \in Nat /\ Held \in Nat
    BY <1>1, TokensMove
  <2>2. r.tokens \in Nat /\ agent[a].tokens \in Nat
        /\ Uncharged(r) \in Nat /\ Uncharged(agent[a]) \in Nat
    BY <1>0, <1>1, OrchestratorAssumption DEF AgentType, Uncharged
  <2> QED  BY <1>0, <1>1, <2>1, <2>2, OrchestratorAssumption DEF Conserved, Limited
<1>2. ASSUME NEW a \in Agents, Acquire(a) PROVE Conserved'
  <2> DEFINE r == [agent[a] EXCEPT !.pc = "turn"]
  <2>1. r \in AgentType  BY <1>0 DEF AgentType
  <2>2. agent' = [agent EXCEPT ![a] = r]  BY <1>0, <1>2 DEF Acquire, BudgetTypeOK
  <2>3. r.tokens = agent[a].tokens /\ Uncharged(r) = 0 /\ Uncharged(agent[a]) = 0
    BY <1>0, <1>2 DEF Acquire, Uncharged, AgentType
  <2> HIDE DEF r
  <2> QED  BY <1>1, <1>2, <2>1, <2>2, <2>3 DEF Acquire
<1>3. ASSUME NEW a \in Agents, NEW e \in {"none", "context", "budget", "llm"},
             agent[a].pc # "deduct", remaining' = remaining,
             agent' = [agent EXCEPT ![a] = Ended(a, e)]
      PROVE  Conserved'
  <2>1. Ended(a, e) \in AgentType  BY <1>0, <1>3, EndedType
  <2>2. Ended(a, e).tokens = agent[a].tokens /\ Uncharged(Ended(a, e)) = 0
        /\ Uncharged(agent[a]) = 0
    BY <1>0, <1>3 DEF Ended, Uncharged, AgentType
  <2> QED  BY <1>1, <1>3, <2>1, <2>2
<1>4. ASSUME NEW a \in Agents, AcquireCancelled(a) \/ TurnCancelled(a) \/ CompleteError(a)
      PROVE  Conserved'
  BY <1>3, <1>4 DEF AcquireCancelled, TurnCancelled, CompleteError
<1>5. ASSUME NEW a \in Agents, BudgetCheck(a) PROVE Conserved'
  <2> DEFINE r == [agent[a] EXCEPT !.pc = "calling"]
  <2>1. CASE Depleted  BY <1>3, <1>5, <2>1 DEF BudgetCheck
  <2>2. CASE ~Depleted
    <3>1. r \in AgentType  BY <1>0 DEF AgentType
    <3>2. agent' = [agent EXCEPT ![a] = r]  BY <1>0, <1>5, <2>2 DEF BudgetCheck, BudgetTypeOK
    <3>3. r.tokens = agent[a].tokens /\ Uncharged(r) = 0 /\ Uncharged(agent[a]) = 0
      BY <1>0, <1>5 DEF BudgetCheck, Uncharged, AgentType
    <3> HIDE DEF r
    <3> QED  BY <1>1, <1>5, <3>1, <3>2, <3>3 DEF BudgetCheck
  <2> QED  BY <2>1, <2>2
<1>6. ASSUME NEW a \in Agents, CompleteOK(a) PROVE Conserved'
  <2>1. PICK t \in 0 .. TokensPerCall, f \in BOOLEAN :
          agent' = [agent EXCEPT ![a] = [agent[a] EXCEPT
                       !.pc = "deduct", !.turns = NextTurn(a),
                       !.tokens = agent[a].tokens + t, !.cost = t, !.final = f]]
    BY <1>6 DEF CompleteOK
  <2> DEFINE r == [agent[a] EXCEPT !.pc = "deduct", !.turns = NextTurn(a),
                       !.tokens = agent[a].tokens + t, !.cost = t, !.final = f]
  <2>2. agent[a] \in AgentType /\ t \in Nat /\ t \in 0 .. TokensPerCall
    BY <1>0, OrchestratorAssumption
  <2>3. agent[a].tokens + t \in Nat /\ NextTurn(a) \in Nat  BY <2>2 DEF AgentType, NextTurn
  <2>4. r \in AgentType  BY <2>2, <2>3 DEF AgentType
  <2>5. r.tokens = agent[a].tokens + t /\ Uncharged(r) = t /\ Uncharged(agent[a]) = 0
        /\ agent[a].tokens \in Nat
    BY <1>6, <2>2 DEF CompleteOK, Uncharged, AgentType
  <2>6. agent' = [agent EXCEPT ![a] = r]  BY <2>1
  <2>7. remaining' = remaining  BY <1>6 DEF CompleteOK
  <2> HIDE DEF r
  <2>8. r.tokens - Uncharged(r) = agent[a].tokens - Uncharged(agent[a])  BY <2>2, <2>5
  <2> QED  BY <1>1, <2>4, <2>6, <2>7, <2>8
<1>7. ASSUME NEW a \in Agents, Deduct(a) PROVE Conserved'
  <2>1. PICK r : /\ agent' = [agent EXCEPT ![a] = r]
                 /\ r \in {Ended(a, "budget"), Ended(a, "none"), [agent[a] EXCEPT !.pc = "turn"]}
    <3> DEFINE over == Limited /\ remaining' <= 0
               last == agent[a].final \/ agent[a].turns >= MaxTurns
               r == IF over THEN Ended(a, "budget") ELSE IF last THEN Ended(a, "none")
                    ELSE [agent[a] EXCEPT !.pc = "turn"]
    <3>1. agent' = [agent EXCEPT ![a] = r]  BY <1>7, Zenon DEF Deduct
    <3> HIDE DEF over, last
    <3>2. r \in {Ended(a, "budget"), Ended(a, "none"), [agent[a] EXCEPT !.pc = "turn"]}
      OBVIOUS
    <3> QED  BY <3>1, <3>2
  <2>2. agent[a] \in AgentType /\ agent[a].pc = "deduct"  BY <1>0, <1>7 DEF Deduct
  <2>3. ASSUME NEW q, q = [agent[a] EXCEPT !.pc = "turn"]
        PROVE  q \in AgentType /\ q.tokens = agent[a].tokens /\ q.pc = "turn"
    BY <2>2, <2>3 DEF AgentType
  <2>4. ASSUME NEW q, NEW e \in {"none", "budget"}, q = Ended(a, e)
        PROVE  q \in AgentType /\ q.tokens = agent[a].tokens /\ q.pc = "done"
    <3>1. q \in AgentType  BY <1>0, <2>4, EndedType
    <3> QED  BY <2>2, <2>4, <3>1 DEF Ended, AgentType
  <2>5. r \in AgentType /\ r.tokens = agent[a].tokens /\ r.pc # "deduct"
    BY <2>1, <2>3, <2>4
  <2>6. Uncharged(r) = 0 /\ Uncharged(agent[a]) = agent[a].cost  BY <2>2, <2>5 DEF Uncharged
  <2>7. /\ TotalTokens' = TotalTokens + (r.tokens - agent[a].tokens)
        /\ Held' = Held + (Uncharged(r) - Uncharged(agent[a]))
        /\ TotalTokens \in Nat /\ Held \in Nat
    BY <2>1, <2>5, TokensMove
  <2>8. agent[a].tokens \in Nat /\ agent[a].cost \in Nat
    BY <2>2, OrchestratorAssumption DEF AgentType
  <2>9. Limited => remaining' = remaining - agent[a].cost  BY <1>7 DEF Deduct, Charged
  <2> QED
    BY <1>0, <2>5, <2>6, <2>7, <2>8, <2>9, OrchestratorAssumption DEF Conserved, Limited
<1>8. ASSUME NEW a \in Agents, Timeout(a) PROVE Conserved'
  <2> DEFINE r == [agent[a] EXCEPT !.expired = TRUE]
  <2>1. r \in AgentType  BY <1>0 DEF AgentType
  <2>2. agent' = [agent EXCEPT ![a] = r]  BY <1>0, <1>8 DEF Timeout, BudgetTypeOK
  <2>3. r.tokens = agent[a].tokens /\ Uncharged(r) = Uncharged(agent[a])
    BY <1>0 DEF Uncharged, AgentType
  <2> HIDE DEF r
  <2> QED  BY <1>1, <1>8, <2>1, <2>2, <2>3 DEF Timeout
<1>9. CASE Finish \/ Cancel \/ UNCHANGED vars
  <2>1. remaining' = remaining /\ agent' = agent  BY <1>9 DEF Finish, Cancel, vars
  <2> QED  BY <2>1, Zenon DEF Conserved, TotalTokens, Held
<1> QED  BY <1>2, <1>4, <1>5, <1>6, <1>7, <1>8, <1>9 DEF Next, AgentStep

(* TokensConserved says the same in the model's words.                     *)
LEMMA ConservedIs == Conserved <=> TokensConserved
BY Zenon DEF Conserved, TokensConserved, Held, Uncharged

(* However calls, deductions, timeouts and cancellations interleave, for   *)
(* any number of agents, every token in a result has been taken from the   *)
(* counter of orchestrator.go or is about to be, and the totals Run reports *)
(* are those of the results.                                               *)
THEOREM SummaryIsExact == Spec => []SummaryExact
<1>1. IInv => BudgetTypeOK  BY DEF IInv
<1>2. TokensConserved /\ SummaryFinal => SummaryExact  BY DEF SummaryExact
<1> QED
  BY <1>1, <1>2, InitIInv, NextIInv, ConservedAtFirst, ConservedStep, ConservedIs,
     SummaryStaysTrue, PTL DEF Spec

(* The total is a natural number, as every result's is.                    *)
LEMMA TotalIsNat == BudgetTypeOK => TotalTokens \in Nat
<1> SUFFICES ASSUME BudgetTypeOK PROVE TotalTokens \in Nat  OBVIOUS
<1> DEFINE f == [a \in Agents |-> agent[a].tokens]
<1>1. f \in [Agents -> Nat]  BY DEF BudgetTypeOK, AgentType
<1>2. TotalTokens = SumOf(f)  BY Zenon DEF TotalTokens
<1> HIDE DEF f
<1> QED  BY <1>1, <1>2, AgentsCount, SumOfNats

(* What Run reports is a count of agents and a sum of what they used.      *)
SummaryTyped == summary \in [done : BOOLEAN, success : Nat, tokens : Nat]

(* The counts are taken once, from results that have their types.          *)
LEMMA SummaryTypeStep ==
    ASSUME BudgetTypeOK, SummaryTyped, [Next]_vars PROVE SummaryTyped'
<1>1. CASE Finish
  <2>1. IsFiniteSet(Succeeded)  BY AgentsCount, FS_Subset DEF Succeeded
  <2>2. Cardinality(Succeeded) \in Nat /\ TotalTokens \in Nat
    BY <2>1, FS_CardinalityType, TotalIsNat
  <2> QED  BY <1>1, <2>2 DEF Finish, SummaryTyped
<1>2. CASE ~Finish
  <2>1. summary' = summary
    BY <1>2 DEF Next, vars, Cancel, AgentStep, Acquire, AcquireCancelled, TurnCancelled,
       BudgetCheck, CompleteOK, CompleteError, Deduct, Timeout
  <2> QED  BY <2>1 DEF SummaryTyped
<1> QED  BY <1>1, <1>2

(* Every variable of the sub-agents has its type (Run, Runner.Run).        *)
THEOREM AgentsTyped == Spec => []TypeOK
<1>1. Init => SummaryTyped  BY DEF Init, NoSummary, SummaryTyped
<1>2. IInv => BudgetTypeOK  BY DEF IInv
<1>3. BudgetTypeOK /\ SummaryTyped => TypeOK  BY DEF TypeOK, SummaryTyped
<1> QED  BY <1>1, <1>2, <1>3, InitIInv, NextIInv, SummaryTypeStep, PTL DEF Spec

-----------------------------------------------------------------------------
(* The debouncer.  A message that came is in the buffer of its chat, in    *)
(* one batch or done, in one of them only; a buffer has what flushes it.   *)

DbShape ==
    /\ dbBuf = [c \in DbChats |-> dbBuf[c]]
    /\ \A c \in DbChats :
          /\ dbBuf[c] = [on |-> dbBuf[c].on, msgs |-> dbBuf[c].msgs, armed |-> dbBuf[c].armed]
          /\ \A m \in dbBuf[c].msgs : m \in dbSent /\ DbChatOf[m] = c
    /\ dbLoose \in [DbChats -> Nat] /\ dbFired \in [DbChats -> Nat]
    /\ dbStop = [c \in DbChats |-> dbStop[c]]
    /\ dbSent \subseteq DbMsgs /\ dbDone \subseteq dbSent
    /\ \A b \in dbTaken : b.msgs \subseteq dbSent

DbInBuffer(m) == m \in dbBuf[DbChatOf[m]].msgs
DbInBatch(m)  == \E b \in dbTaken : m \in b.msgs

DbPlaced ==
    \A m \in dbSent :
       /\ DbInBuffer(m) \/ DbInBatch(m) \/ m \in dbDone
       /\ ~(DbInBuffer(m) /\ DbInBatch(m))
       /\ m \in dbDone => ~DbInBuffer(m) /\ ~DbInBatch(m)
       /\ \A b, d \in dbTaken : m \in b.msgs /\ m \in d.msgs => b = d

DbIInv == DbShape /\ DbPlaced /\ DbNoOrphan

\* Where a message of a chat may be.
LEMMA DbChatKnown == \A m \in DbMsgs : DbChatOf[m] \in DbChats
BY DEF DbChats

\* Exactly one place, counted as the property counts.
LEMMA DbCounted == ASSUME DbShape, DbPlaced PROVE DbOnePlace
<1> SUFFICES ASSUME NEW m \in dbSent
             PROVE  Cardinality({c \in DbChats : m \in dbBuf[c].msgs})
                      + Cardinality({b \in dbTaken : m \in b.msgs})
                      + (IF m \in dbDone THEN 1 ELSE 0) = 1
  BY DEF DbOnePlace
<1>1. DbChatOf[m] \in DbChats BY DbChatKnown DEF DbShape
<1>2. Cardinality({c \in DbChats : m \in dbBuf[c].msgs}) = IF DbInBuffer(m) THEN 1 ELSE 0
  <2>1. CASE DbInBuffer(m)
    <3>1. {c \in DbChats : m \in dbBuf[c].msgs} = {DbChatOf[m]}
      BY <1>1, <2>1 DEF DbShape, DbInBuffer
    <3> QED BY <2>1, <3>1, FS_Singleton
  <2>2. CASE ~DbInBuffer(m)
    <3>1. {c \in DbChats : m \in dbBuf[c].msgs} = {}
      BY <1>1, <2>2 DEF DbShape, DbInBuffer
    <3> QED BY <2>2, <3>1, FS_EmptySet
  <2> QED BY <2>1, <2>2
<1>3. Cardinality({b \in dbTaken : m \in b.msgs}) = IF DbInBatch(m) THEN 1 ELSE 0
  <2>1. CASE DbInBatch(m)
    <3>1. PICK b \in dbTaken : m \in b.msgs BY <2>1 DEF DbInBatch
    <3>2. {d \in dbTaken : m \in d.msgs} = {b} BY <3>1 DEF DbPlaced
    <3> QED BY <2>1, <3>2, FS_Singleton
  <2>2. CASE ~DbInBatch(m)
    <3>1. {b \in dbTaken : m \in b.msgs} = {} BY <2>2 DEF DbInBatch
    <3> QED BY <2>2, <3>1, FS_EmptySet
  <2> QED BY <2>1, <2>2
<1>4. /\ DbInBuffer(m) \/ DbInBatch(m) \/ m \in dbDone
      /\ ~(DbInBuffer(m) /\ DbInBatch(m))
      /\ m \in dbDone => ~DbInBuffer(m) /\ ~DbInBatch(m)
  BY DEF DbPlaced
<1> QED BY <1>2, <1>3, <1>4

\* A buffer taken becomes one batch with the same messages.
LEMMA DbTakes ==
    ASSUME DbIInv, NEW c \in DbChats, NEW by, DbTake(c, by), dbSent' = dbSent, dbDone' = dbDone,
           dbFired' \in [DbChats -> Nat], dbStop' = [x \in DbChats |-> dbStop'[x]],
           \A x \in DbChats \ {c} : dbFired'[x] = dbFired[x] /\ dbStop'[x] = dbStop[x]
    PROVE  DbIInv'
<1>1. PICK n, b : n = DbNone /\ b = [msgs |-> dbBuf[c].msgs, by |-> by] OBVIOUS
<1>2. /\ n = [on |-> FALSE, msgs |-> {}, armed |-> FALSE] /\ n.msgs = {} /\ n.on = FALSE
      /\ n = [on |-> n.on, msgs |-> n.msgs, armed |-> n.armed]
      /\ b.msgs = dbBuf[c].msgs
  BY <1>1 DEF DbNone
<1>3. /\ dbTaken' = dbTaken \union {b} /\ dbBuf' = [dbBuf EXCEPT ![c] = n]
      /\ dbLoose' = [dbLoose EXCEPT ![c] = IF dbBuf[c].armed THEN @ + 1 ELSE @]
  BY <1>1 DEF DbTake
<1>4. /\ dbBuf' = [x \in DbChats |-> dbBuf'[x]] /\ dbBuf'[c] = n
      /\ \A x \in DbChats \ {c} : dbBuf'[x] = dbBuf[x]
  BY <1>3 DEF DbIInv, DbShape
<1>5. dbLoose' \in [DbChats -> Nat] BY <1>3 DEF DbIInv, DbShape
<1>6. b.msgs \subseteq dbSent BY <1>2 DEF DbIInv, DbShape
<1>7. DbShape' BY <1>2, <1>3, <1>4, <1>5, <1>6, Zenon DEF DbIInv, DbShape
<1>8. \A m \in dbSent : DbChatOf[m] \in DbChats BY DbChatKnown DEF DbIInv, DbShape
<1>9. \A m \in b.msgs : DbInBuffer(m) /\ DbChatOf[m] = c
  BY <1>2 DEF DbIInv, DbShape, DbInBuffer
<1>10. \A m \in dbSent : DbInBuffer(m)' <=> DbInBuffer(m) /\ m \notin b.msgs
  BY <1>2, <1>4, <1>8, <1>9 DEF DbInBuffer
<1>11. \A m \in dbSent : DbInBatch(m)' <=> DbInBatch(m) \/ m \in b.msgs
  BY <1>3 DEF DbInBatch
<1>12. ASSUME NEW m \in dbSent, NEW d \in dbTaken', NEW e \in dbTaken', m \in d.msgs, m \in e.msgs
       PROVE  d = e
  <2>1. CASE m \in b.msgs
    <3>1. ~DbInBatch(m) BY <1>9, <2>1 DEF DbIInv, DbPlaced
    <3> QED BY <1>3, <1>12, <3>1 DEF DbInBatch
  <2>2. CASE m \notin b.msgs BY <1>3, <1>12, <2>2 DEF DbIInv, DbPlaced
  <2> QED BY <2>1, <2>2
<1>13. DbPlaced'
  <2> SUFFICES ASSUME NEW m \in dbSent
               PROVE  /\ DbInBuffer(m)' \/ DbInBatch(m)' \/ m \in dbDone'
                      /\ ~(DbInBuffer(m)' /\ DbInBatch(m)')
                      /\ m \in dbDone' => ~DbInBuffer(m)' /\ ~DbInBatch(m)'
                      /\ \A d, e \in dbTaken' : m \in d.msgs /\ m \in e.msgs => d = e
    BY Zenon DEF DbPlaced
  <2>1. /\ DbInBuffer(m) \/ DbInBatch(m) \/ m \in dbDone
        /\ ~(DbInBuffer(m) /\ DbInBatch(m))
        /\ m \in dbDone => ~DbInBuffer(m) /\ ~DbInBatch(m)
    BY DEF DbIInv, DbPlaced
  <2>2. m \in b.msgs => DbInBuffer(m) BY <1>9
  <2> QED BY <1>10, <1>11, <1>12, <2>1, <2>2, Zenon
<1>14. DbNoOrphan' BY <1>2, <1>4, Zenon DEF DbIInv, DbNoOrphan
<1> QED BY <1>7, <1>13, <1>14 DEF DbIInv

\* A step that moves no message.
LEMMA DbStill ==
    ASSUME DbIInv, dbSent' = dbSent, dbDone' = dbDone, dbTaken' = dbTaken,
           dbBuf' = [c \in DbChats |-> dbBuf'[c]],
           \A c \in DbChats : /\ dbBuf'[c].msgs = dbBuf[c].msgs
                              /\ dbBuf'[c] = [on |-> dbBuf'[c].on, msgs |-> dbBuf'[c].msgs,
                                              armed |-> dbBuf'[c].armed],
           dbLoose' \in [DbChats -> Nat], dbFired' \in [DbChats -> Nat],
           dbStop' = [c \in DbChats |-> dbStop'[c]], DbNoOrphan'
    PROVE  DbIInv'
<1>1. DbShape' BY Zenon DEF DbIInv, DbShape
<1>2. \A m \in dbSent : DbChatOf[m] \in DbChats BY DbChatKnown DEF DbIInv, DbShape
<1>3. \A m \in dbSent : DbInBuffer(m)' <=> DbInBuffer(m) BY <1>2 DEF DbInBuffer
<1>4. \A m \in dbSent : DbInBatch(m)' <=> DbInBatch(m) BY Zenon DEF DbInBatch
<1>5. DbPlaced' BY <1>3, <1>4, Zenon DEF DbIInv, DbPlaced
<1> QED BY <1>1, <1>5 DEF DbIInv

\* add: the message is in the buffer of its chat, whose timer is armed.
LEMMA DbAddInv == ASSUME DbIInv, NEW m \in DbMsgs, DbAdd(m) PROVE DbIInv'
<1> DEFINE c == DbChatOf[m]
<1>1. PICK n : n = DbBuffered(c, m) OBVIOUS
<1>2. /\ n.on = TRUE /\ n.msgs = dbBuf[c].msgs \union {m} /\ n.armed = TRUE
      /\ n = [on |-> n.on, msgs |-> n.msgs, armed |-> n.armed]
  BY <1>1 DEF DbBuffered
<1>3. /\ m \notin dbSent /\ dbSent' = dbSent \union {m} /\ dbBuf' = [dbBuf EXCEPT ![c] = n]
      /\ dbLoose' = dbLoose /\ dbFired' = dbFired /\ dbTaken' = dbTaken /\ dbStop' = dbStop
      /\ dbDone' = dbDone
  BY <1>1 DEF DbAdd
<1>4. c \in DbChats BY DbChatKnown
<1> HIDE DEF c
<1>5. /\ dbBuf' = [x \in DbChats |-> dbBuf'[x]] /\ dbBuf'[c] = n
      /\ \A x \in DbChats \ {c} : dbBuf'[x] = dbBuf[x]
  BY <1>3, <1>4 DEF DbIInv, DbShape
<1>6. \A k \in n.msgs : k \in dbSent' /\ DbChatOf[k] = c
  BY <1>2, <1>3, <1>4 DEF DbIInv, DbShape, c
<1>7. dbSent' \subseteq DbMsgs /\ dbDone' \subseteq dbSent' /\ \A b \in dbTaken' : b.msgs \subseteq dbSent'
  BY <1>3 DEF DbIInv, DbShape
<1>8. DbShape'
  <2>1. ASSUME NEW x \in DbChats
        PROVE  /\ dbBuf'[x] = [on |-> dbBuf'[x].on, msgs |-> dbBuf'[x].msgs, armed |-> dbBuf'[x].armed]
               /\ \A k \in dbBuf'[x].msgs : k \in dbSent' /\ DbChatOf[k] = x
    <3>1. CASE x = c BY <1>2, <1>5, <1>6, <3>1, Zenon
    <3>2. CASE x # c
      <4>1. dbBuf'[x] = dbBuf[x] BY <1>5, <3>2
      <4> QED BY <1>3, <4>1 DEF DbIInv, DbShape
    <3> QED BY <3>1, <3>2
  <2> QED BY <1>3, <1>5, <1>7, <2>1, Zenon DEF DbIInv, DbShape
<1>9. \A k \in dbSent : DbChatOf[k] \in DbChats BY DbChatKnown DEF DbIInv, DbShape
<1>10. \A k \in dbSent : DbInBuffer(k)' <=> DbInBuffer(k)
  BY <1>2, <1>3, <1>5, <1>9 DEF DbInBuffer
<1>11. \A k : DbInBatch(k)' <=> DbInBatch(k) BY <1>3, Zenon DEF DbInBatch
<1>12. DbInBuffer(m)' BY <1>2, <1>5 DEF DbInBuffer, c
<1>13. ~DbInBatch(m) /\ m \notin dbDone BY <1>3 DEF DbIInv, DbShape, DbInBatch
<1>14. DbPlaced'
  <2> SUFFICES ASSUME NEW k \in dbSent'
               PROVE  /\ DbInBuffer(k)' \/ DbInBatch(k)' \/ k \in dbDone'
                      /\ ~(DbInBuffer(k)' /\ DbInBatch(k)')
                      /\ k \in dbDone' => ~DbInBuffer(k)' /\ ~DbInBatch(k)'
                      /\ \A d, e \in dbTaken' : k \in d.msgs /\ k \in e.msgs => d = e
    BY Zenon DEF DbPlaced
  <2>1. CASE k = m
    BY <1>3, <1>11, <1>12, <1>13, <2>1, Zenon DEF DbInBatch
  <2>2. CASE k \in dbSent
    BY <1>3, <1>10, <1>11, <2>2, Zenon DEF DbIInv, DbPlaced
  <2> QED BY <1>3, <2>1, <2>2
<1>15. DbNoOrphan' BY <1>2, <1>3, <1>5, Zenon DEF DbIInv, DbNoOrphan
<1> QED BY <1>8, <1>14, <1>15 DEF DbIInv

\* A timer fires: its callback is on its way.
LEMMA DbFireInv == ASSUME DbIInv, NEW c \in DbChats, DbFire(c) PROVE DbIInv'
<1>1. /\ dbFired' = [dbFired EXCEPT ![c] = @ + 1] /\ dbTaken' = dbTaken /\ dbStop' = dbStop
      /\ dbSent' = dbSent /\ dbDone' = dbDone
      /\ \/ dbBuf' = [dbBuf EXCEPT ![c].armed = FALSE] /\ dbLoose' = dbLoose
         \/ /\ dbLoose[c] > 0 /\ dbLoose' = [dbLoose EXCEPT ![c] = @ - 1]
            /\ dbBuf' = dbBuf
  BY DEF DbFire
<1>2. /\ dbFired' \in [DbChats -> Nat] /\ dbFired'[c] > 0
      /\ \A x \in DbChats \ {c} : dbFired'[x] = dbFired[x]
  BY <1>1 DEF DbIInv, DbShape
<1>3. dbLoose' \in [DbChats -> Nat] BY <1>1 DEF DbIInv, DbShape
<1>4. /\ dbBuf' = [x \in DbChats |-> dbBuf'[x]]
      /\ \A x \in DbChats : /\ dbBuf'[x].msgs = dbBuf[x].msgs /\ dbBuf'[x].on = dbBuf[x].on
                            /\ dbBuf'[x] = [on |-> dbBuf'[x].on, msgs |-> dbBuf'[x].msgs,
                                            armed |-> dbBuf'[x].armed]
                            /\ x # c => dbBuf'[x] = dbBuf[x]
  <2>1. CASE dbBuf' = dbBuf BY <2>1 DEF DbIInv, DbShape
  <2>2. CASE dbBuf' = [dbBuf EXCEPT ![c].armed = FALSE]
    <3>1. PICK n : n = [dbBuf[c] EXCEPT !.armed = FALSE] OBVIOUS
    <3>2. dbBuf' = [dbBuf EXCEPT ![c] = n] BY <2>2, <3>1
    <3>3. /\ n.on = dbBuf[c].on /\ n.msgs = dbBuf[c].msgs
          /\ n = [on |-> n.on, msgs |-> n.msgs, armed |-> n.armed]
      <4>1. PICK t, off : t = dbBuf[c] /\ off = FALSE OBVIOUS
      <4>2. n = [t EXCEPT !.armed = off] BY <3>1, <4>1
      <4>3. t = [on |-> t.on, msgs |-> t.msgs, armed |-> t.armed]
        BY <4>1, Zenon DEF DbIInv, DbShape
      <4> QED BY <4>1, <4>2, <4>3
    <3>4. /\ dbBuf' = [x \in DbChats |-> dbBuf'[x]] /\ dbBuf'[c] = n
          /\ \A x \in DbChats \ {c} : dbBuf'[x] = dbBuf[x]
      BY <3>2 DEF DbIInv, DbShape
    <3> QED BY <3>3, <3>4, Zenon DEF DbIInv, DbShape
  <2> QED BY <1>1, <2>1, <2>2
<1>5. DbNoOrphan' BY <1>1, <1>2, <1>4, Zenon DEF DbIInv, DbNoOrphan
<1>6. dbStop' = [x \in DbChats |-> dbStop'[x]] BY <1>1, Zenon DEF DbIInv, DbShape
<1> QED BY <1>1, <1>2, <1>3, <1>4, <1>5, <1>6, DbStill

\* A callback takes the buffer that the chat has, if any.
LEMMA DbFlushInv == ASSUME DbIInv, NEW c \in DbChats, DbFlush(c) PROVE DbIInv'
<1>1. /\ dbFired[c] > 0 /\ dbFired' = [dbFired EXCEPT ![c] = @ - 1]
      /\ dbStop' = dbStop /\ dbSent' = dbSent /\ dbDone' = dbDone
  BY DEF DbFlush
<1>2. /\ dbFired' \in [DbChats -> Nat]
      /\ \A x \in DbChats \ {c} : dbFired'[x] = dbFired[x]
  BY <1>1 DEF DbIInv, DbShape
<1>3. dbStop' = [x \in DbChats |-> dbStop'[x]] BY <1>1, Zenon DEF DbIInv, DbShape
<1>4. CASE DbTake(c, "timer") BY <1>1, <1>2, <1>3, <1>4, DbTakes
<1>5. CASE ~dbBuf[c].on /\ UNCHANGED <<dbBuf, dbLoose, dbTaken>>
  <2>1. DbNoOrphan' BY <1>1, <1>2, <1>5, Zenon DEF DbIInv, DbNoOrphan
  <2>2. /\ dbBuf' = [x \in DbChats |-> dbBuf'[x]]
        /\ \A x \in DbChats : /\ dbBuf'[x].msgs = dbBuf[x].msgs
                              /\ dbBuf'[x] = [on |-> dbBuf'[x].on, msgs |-> dbBuf'[x].msgs,
                                              armed |-> dbBuf'[x].armed]
    BY <1>5, Zenon DEF DbIInv, DbShape
  <2>3. dbLoose' \in [DbChats -> Nat] BY <1>5 DEF DbIInv, DbShape
  <2> QED BY <1>1, <1>2, <1>3, <1>5, <2>1, <2>2, <2>3, DbStill
<1> QED BY <1>4, <1>5 DEF DbFlush

\* The handler takes a batch.
LEMMA DbHandleInv == ASSUME DbIInv, NEW b \in dbTaken, DbHandle(b) PROVE DbIInv'
<1>1. /\ dbTaken' = dbTaken \ {b} /\ dbDone' = dbDone \union b.msgs
      /\ dbBuf' = dbBuf /\ dbLoose' = dbLoose /\ dbFired' = dbFired /\ dbStop' = dbStop
      /\ dbSent' = dbSent
  BY DEF DbHandle
<1>2. DbShape' BY <1>1 DEF DbIInv, DbShape
<1>3. \A m : DbInBuffer(m)' <=> DbInBuffer(m) BY <1>1, Zenon DEF DbInBuffer
<1>4. \A m \in dbSent : DbInBatch(m)' <=> DbInBatch(m) /\ m \notin b.msgs
  BY <1>1 DEF DbInBatch, DbIInv, DbPlaced
<1>5. \A m \in b.msgs : DbInBatch(m) BY DEF DbInBatch
<1>6. DbPlaced' BY <1>1, <1>3, <1>4, <1>5 DEF DbIInv, DbPlaced
<1>7. DbNoOrphan' BY <1>1, Zenon DEF DbIInv, DbNoOrphan
<1> QED BY <1>2, <1>6, <1>7 DEF DbIInv

\* flushAll stops the timers, and will flush every buffer.
LEMMA DbFlushAllInv == ASSUME DbIInv, DbFlushAll PROVE DbIInv'
<1>1. /\ dbStop' = [c \in DbChats |-> CASE dbBuf[c].on /\ dbBuf[c].armed -> "stopped"
                                        [] dbBuf[c].on /\ ~dbBuf[c].armed -> "fired"
                                        [] OTHER -> "no"]
      /\ dbBuf' = [c \in DbChats |-> [dbBuf[c] EXCEPT !.armed = FALSE]]
      /\ dbLoose' = dbLoose /\ dbFired' = dbFired /\ dbTaken' = dbTaken /\ dbSent' = dbSent
      /\ dbDone' = dbDone
  BY DEF DbFlushAll
<1>2. ASSUME NEW c \in DbChats
      PROVE  /\ dbBuf'[c].msgs = dbBuf[c].msgs /\ dbBuf'[c].on = dbBuf[c].on
             /\ dbBuf'[c] = [on |-> dbBuf'[c].on, msgs |-> dbBuf'[c].msgs,
                             armed |-> dbBuf'[c].armed]
             /\ dbBuf[c].on => dbStop'[c] # "no"
  <2>1. dbBuf'[c] = [dbBuf[c] EXCEPT !.armed = FALSE] BY <1>1
  <2>2. dbBuf[c] = [on |-> dbBuf[c].on, msgs |-> dbBuf[c].msgs, armed |-> dbBuf[c].armed]
    BY DEF DbIInv, DbShape
  <2>3. ASSUME dbBuf[c].on PROVE dbStop'[c] # "no"
    <3>1. CASE dbBuf[c].armed BY <1>1, <2>3, <3>1
    <3>2. CASE ~dbBuf[c].armed BY <1>1, <2>3, <3>2
    <3> QED BY <3>1, <3>2
  <2> QED BY <2>1, <2>2, <2>3
<1>3. DbNoOrphan' BY <1>2, Zenon DEF DbNoOrphan
<1>4. dbBuf' = [c \in DbChats |-> dbBuf'[c]] /\ dbStop' = [c \in DbChats |-> dbStop'[c]]
  BY <1>1
<1>5. dbLoose' \in [DbChats -> Nat] /\ dbFired' \in [DbChats -> Nat]
  BY <1>1 DEF DbIInv, DbShape
<1> QED BY <1>1, <1>2, <1>3, <1>4, <1>5, DbStill

\* flushAll flushes a buffer.
LEMMA DbStopFlushInv == ASSUME DbIInv, NEW c \in DbChats, DbStopFlush(c) PROVE DbIInv'
<1>1. /\ dbStop' = [dbStop EXCEPT ![c] = "no"] /\ dbFired' = dbFired
      /\ dbSent' = dbSent /\ dbDone' = dbDone
  BY DEF DbStopFlush
<1>2. /\ dbStop' = [x \in DbChats |-> dbStop'[x]]
      /\ \A x \in DbChats \ {c} : dbStop'[x] = dbStop[x]
  BY <1>1 DEF DbIInv, DbShape
<1>3. dbFired' \in [DbChats -> Nat] BY <1>1 DEF DbIInv, DbShape
<1>4. CASE DbTake(c, "stop") BY <1>1, <1>2, <1>3, <1>4, DbTakes
<1>5. CASE ~dbBuf[c].on /\ UNCHANGED <<dbBuf, dbLoose, dbTaken>>
  <2>1. DbNoOrphan' BY <1>1, <1>2, <1>5, Zenon DEF DbIInv, DbNoOrphan
  <2>2. /\ dbBuf' = [x \in DbChats |-> dbBuf'[x]]
        /\ \A x \in DbChats : /\ dbBuf'[x].msgs = dbBuf[x].msgs
                              /\ dbBuf'[x] = [on |-> dbBuf'[x].on, msgs |-> dbBuf'[x].msgs,
                                              armed |-> dbBuf'[x].armed]
    BY <1>5, Zenon DEF DbIInv, DbShape
  <2>3. dbLoose' \in [DbChats -> Nat] BY <1>5 DEF DbIInv, DbShape
  <2> QED BY <1>1, <1>2, <1>3, <1>5, <2>1, <2>2, <2>3, DbStill
<1> QED BY <1>4, <1>5 DEF DbStopFlush

\* No message came yet.
LEMMA DbInitInv == ASSUME DbInit PROVE DbIInv
<1>1. DbShape BY DEF DbInit, DbShape, DbNone
<1>2. DbPlaced BY DEF DbInit, DbPlaced
<1>3. DbNoOrphan BY DEF DbInit, DbNone, DbNoOrphan
<1> QED BY <1>1, <1>2, <1>3 DEF DbIInv

\* Every step of the debouncer keeps the invariant.
LEMMA DbStepInv == ASSUME DbIInv, [DbNext]_dbVars PROVE DbIInv'
<1>1. CASE DbEnd \/ UNCHANGED dbVars
  <2>1. /\ dbBuf' = dbBuf /\ dbLoose' = dbLoose /\ dbFired' = dbFired /\ dbTaken' = dbTaken
        /\ dbStop' = dbStop /\ dbSent' = dbSent /\ dbDone' = dbDone
    BY <1>1 DEF DbEnd, dbVars
  <2>2. DbShape' BY <2>1, Zenon DEF DbIInv, DbShape
  <2>3. DbPlaced' BY <2>1, Zenon DEF DbIInv, DbPlaced, DbInBuffer, DbInBatch
  <2>4. DbNoOrphan' BY <2>1, Zenon DEF DbIInv, DbNoOrphan
  <2> QED BY <2>2, <2>3, <2>4 DEF DbIInv
<1>2. CASE DbNext /\ ~DbEnd
  BY <1>2, DbAddInv, DbFireInv, DbFlushInv, DbStopFlushInv, DbHandleInv, DbFlushAllInv, Zenon
     DEF DbNext
<1> QED BY <1>1, <1>2

\* Nothing is lost, nothing handed over twice and nothing left lying.
LEMMA DbIInvSafe == ASSUME DbIInv PROVE DbSafe
BY DbCounted DEF DbIInv, DbSafe

\* A timer is armed only for a buffer; the count of callbacks is a number.
DbKinds ==
    /\ \A c \in DbChats : dbBuf[c].armed => dbBuf[c].on
    /\ dbWG \in Int /\ dbPc \in {"run", "flush", "ended"}

\* What a callback is counted for.
LEMMA DbCount == WG(1) \in Int
BY DEF WG

(* Every message, timer, callback and shutdown step keeps the kinds. *)
LEMMA DbKindsStep == ASSUME DbIInv, DbKinds, [DbNext]_dbVars PROVE DbKinds'
<1>0. dbBuf = [c \in DbChats |-> dbBuf[c]]  BY Zenon DEF DbIInv, DbShape
<1>1. ASSUME NEW m \in DbMsgs, DbAdd(m) PROVE DbKinds'
  <2>1. \A c \in DbChats : dbBuf'[c] = IF c = DbChatOf[m] THEN DbBuffered(DbChatOf[m], m)
                                       ELSE dbBuf[c]
    BY <1>0, <1>1, DbChatKnown DEF DbAdd
  <2>2. \A c \in DbChats : dbBuf'[c].armed => dbBuf'[c].on
    BY <2>1 DEF DbKinds, DbBuffered
  <2> QED  BY <1>1, <2>2, DbCount DEF DbAdd, DbKinds
<1>2. ASSUME NEW c \in DbChats, DbFire(c) PROVE DbKinds'
  <2>1. dbBuf[c] = [on |-> dbBuf[c].on, msgs |-> dbBuf[c].msgs, armed |-> dbBuf[c].armed]
    BY Zenon DEF DbIInv, DbShape
  <2>2. dbBuf' = dbBuf \/ dbBuf' = [dbBuf EXCEPT ![c].armed = FALSE]
    BY <1>2 DEF DbFire
  <2>3. \A x \in DbChats : dbBuf'[x].armed => dbBuf'[x].on
    <3>1. CASE dbBuf' = dbBuf  BY <3>1 DEF DbKinds
    <3>2. CASE dbBuf' = [dbBuf EXCEPT ![c].armed = FALSE]
      BY <1>0, <2>1, <3>2 DEF DbKinds
    <3> QED  BY <2>2, <3>1, <3>2
  <2> QED  BY <1>2, <2>3 DEF DbFire, DbKinds
<1>3. ASSUME NEW c \in DbChats, DbFlush(c) PROVE DbKinds'
  <2>1. dbBuf' = dbBuf \/ dbBuf' = [dbBuf EXCEPT ![c] = DbNone]
    BY <1>3 DEF DbFlush, DbTake
  <2>2. \A x \in DbChats : dbBuf'[x].armed => dbBuf'[x].on
    BY <1>0, <2>1 DEF DbKinds, DbNone
  <2>3. dbWG' \in Int  BY <1>3, DbCount DEF DbFlush, DbKinds
  <2> QED  BY <1>3, <2>2, <2>3 DEF DbFlush, DbKinds
<1>4. ASSUME NEW c \in DbChats, DbStopFlush(c) PROVE DbKinds'
  <2>1. dbBuf' = dbBuf \/ dbBuf' = [dbBuf EXCEPT ![c] = DbNone]
    BY <1>4 DEF DbStopFlush, DbTake
  <2>2. \A x \in DbChats : dbBuf'[x].armed => dbBuf'[x].on
    BY <1>0, <2>1 DEF DbKinds, DbNone
  <2>3. dbWG' \in Int  BY <1>4, DbCount DEF DbStopFlush, DbKinds
  <2> QED  BY <1>4, <2>2, <2>3 DEF DbStopFlush, DbKinds
<1>5. ASSUME NEW b \in dbTaken, DbHandle(b) PROVE DbKinds'
  BY <1>5, DbCount DEF DbHandle, DbKinds
<1>6. CASE DbFlushAll
  <2>1. \A x \in DbChats :
           dbBuf'[x] = [[on |-> dbBuf[x].on, msgs |-> dbBuf[x].msgs, armed |-> dbBuf[x].armed]
                          EXCEPT !.armed = FALSE]
    BY <1>6, Zenon DEF DbFlushAll, DbIInv, DbShape
  <2>2. \A x \in DbChats : dbBuf'[x].armed => dbBuf'[x].on  BY <2>1
  <2> QED  BY <1>6, <2>2 DEF DbFlushAll, DbKinds
<1>7. CASE DbEnd \/ UNCHANGED dbVars
  BY <1>7 DEF DbEnd, dbVars, DbKinds
<1> QED  BY <1>1, <1>2, <1>3, <1>4, <1>5, <1>6, <1>7 DEF DbNext

\* Every variable of the debouncer has its type.
LEMMA DbTyped == DbSpec => []DbTypeOK
<1>1. DbInit => DbKinds  BY DEF DbInit, DbNone, DbKinds
<1>2. DbIInv /\ DbKinds => DbTypeOK  BY DEF DbIInv, DbShape, DbKinds, DbTypeOK
<1> QED  BY <1>1, <1>2, DbInitInv, DbStepInv, DbKindsStep, PTL DEF DbSpec

-----------------------------------------------------------------------------
(* The types of the assistant's turns.  A row, and what a turn has read of *)
(* the rows, stands for ids that were given out; a summary made of a       *)
(* summary takes its id from a row all the same.                           *)

AsIds(n)   == 1 .. n - 1
HistRec(n) == [id : 0 .. n - 1, of : SUBSET AsIds(n)]

HistOk(h, n) == h \in Seq(HistRec(n)) /\ \A k \in 2 .. Len(h) : h[k].id # 0

Callable == UNION {{b[k] : k \in DOMAIN b} : b \in AsBatches}

TurnKinds(t, n) ==
    /\ HistOk(t.hist, n) /\ (t.pc = "compress" => Len(t.hist) >= 4)
    /\ t.batch \in Seq(Callable) /\ (t.pc = "tools" <=> t.batch # <<>>)

StoreOk ==
    /\ asNextId \in Nat \ {0} /\ IsFiniteSet(asRows)
    /\ asRows \subseteq [id : AsIds(asNextId), of : SUBSET AsIds(asNextId)]
    /\ \A r, q \in asRows : r.id = q.id => r = q

AsKinds ==
    /\ StoreOk /\ asReview \subseteq AsMsgs
    /\ \A m \in AsMsgs : TurnKinds(asTurn[m], asNextId)

\* What was read stays good while ids are given out.
LEMMA KindsGrow ==
    ASSUME NEW t, NEW n \in Nat \ {0}, NEW q \in Nat \ {0}, n <= q, TurnKinds(t, n)
    PROVE  TurnKinds(t, q)
<1>1. HistRec(n) \subseteq HistRec(q)  BY DEF HistRec, AsIds
<1>2. Seq(HistRec(n)) \subseteq Seq(HistRec(q))  BY <1>1
<1> QED  BY <1>2 DEF TurnKinds, HistOk

\* A saved message has a new id.
LEMMA SaveKeeps ==
    ASSUME StoreOk, NEW saved \in BOOLEAN, AsSave(saved)
    PROVE  StoreOk' /\ asNextId <= asNextId'
<1>1. CASE UNCHANGED <<asRows, asNextId>>  BY <1>1 DEF StoreOk
<1>2. CASE /\ asRows' = asRows \union {[id |-> asNextId, of |-> {asNextId}]}
           /\ asNextId' = asNextId + 1
  <2> DEFINE n == [id |-> asNextId, of |-> {asNextId}]
  <2>1. asNextId' \in Nat \ {0} /\ asNextId <= asNextId'  BY <1>2 DEF StoreOk
  <2>2. IsFiniteSet(asRows')  BY <1>2, FS_AddElement DEF StoreOk
  <2>3. AsIds(asNextId) \subseteq AsIds(asNextId') /\ asNextId \in AsIds(asNextId')
    BY <1>2 DEF StoreOk, AsIds
  <2>4. \A r \in asRows : r.id \in AsIds(asNextId) /\ r.id # asNextId
    BY DEF StoreOk, AsIds
  <2>5. asRows' \subseteq [id : AsIds(asNextId'), of : SUBSET AsIds(asNextId')]
    BY <1>2, <2>3 DEF StoreOk
  <2>6. \A r \in asRows' : r \in asRows \/ r = n  BY <1>2
  <2>7. n.id = asNextId /\ \A r, q \in asRows : r.id = q.id => r = q  BY DEF StoreOk
  <2> HIDE DEF n
  <2>8. \A r, q \in asRows' : r.id = q.id => r = q  BY <2>4, <2>6, <2>7
  <2> QED  BY <2>1, <2>2, <2>5, <2>8 DEF StoreOk
<1> QED  BY <1>1, <1>2 DEF AsSave

\* One turn moves on; ids may be given out.
LEMMA OneMoves ==
    ASSUME AsIInv, AsKinds, StoreOk', asNextId <= asNextId', asReview' \subseteq AsMsgs,
           NEW m \in AsMsgs, NEW t, asTurn' = [asTurn EXCEPT ![m] = t], TurnKinds(t, asNextId')
    PROVE  AsKinds'
<1>1. \A q \in AsMsgs : asTurn'[q] = IF q = m THEN t ELSE asTurn[q]  BY DEF AsIInv
<1>2. asNextId \in Nat \ {0} /\ asNextId' \in Nat \ {0}  BY DEF AsKinds, StoreOk
<1>3. ASSUME NEW q \in AsMsgs PROVE TurnKinds(asTurn'[q], asNextId')
  <2>1. TurnKinds(asTurn[q], asNextId)  BY DEF AsKinds
  <2>2. TurnKinds(asTurn[q], asNextId')  BY <1>2, <2>1, KindsGrow
  <2> QED  BY <1>1, <2>2
<1> QED  BY <1>3 DEF AsKinds

\* A turn ends: nothing read and nothing to call is left.
LEMMA EndKinds ==
    ASSUME AsIInv, AsKinds, StoreOk', asNextId <= asNextId', asReview' \subseteq AsMsgs,
           NEW m \in AsMsgs, NEW out \in {"error", "reply", "text"}, AsEnd(m, out)
    PROVE  AsKinds'
<1> DEFINE t == Over(m, out)
<1>1. asTurn' = [asTurn EXCEPT ![m] = t]  BY DEF AsEnd, Over
<1>2. t.hist = <<>> /\ t.batch = <<>> /\ t.pc = "done"  BY DEF Over, AsIdle
<1> HIDE DEF t
<1>3. TurnKinds(t, asNextId')  BY <1>2 DEF TurnKinds, HistOk
<1> QED  BY <1>1, <1>3, OneMoves

\* One more than those that come before: what GetHistory looks for.
LEMMA NthById ==
    ASSUME NEW R, IsFiniteSet(R), \A r \in R : r.id \in Int,
           \A r, q \in R : r.id = q.id => r = q
    PROVE  \A k \in 1 .. Cardinality(R) :
              \E r \in R : Cardinality({q \in R : q.id <= r.id}) = k
<1>1. PICK f : f = [r \in R |-> r.id]  OBVIOUS
<1>2. f \in [R -> Int] /\ \A r \in R : f[r] = r.id  BY <1>1
<1>3. \A r, q \in R : f[r] = f[q] => r = q  BY <1>2
<1>4. \A k \in 0 .. Cardinality(R) - 1 : \E r \in R : Cardinality(Lesser(R, f, r)) = k
  BY <1>2, <1>3, CountedOff
<1> SUFFICES ASSUME NEW k \in 1 .. Cardinality(R)
             PROVE  \E r \in R : Cardinality({q \in R : q.id <= r.id}) = k
  OBVIOUS
<1>5. Cardinality(R) \in Nat /\ k - 1 \in 0 .. Cardinality(R) - 1  BY FS_CardinalityType
<1>6. PICK r \in R : Cardinality(Lesser(R, f, r)) = k - 1  BY <1>4, <1>5
<1>7. PICK less : less = {q \in R : q.id < r.id}  OBVIOUS
<1>8. Lesser(R, f, r) = less  BY <1>2, <1>7 DEF Lesser
<1>9. {q \in R : q.id <= r.id} = less \union {r}
  <2>1. \A q \in R : q.id <= r.id <=> q.id < r.id \/ q = r
    <3> SUFFICES ASSUME NEW q \in R PROVE q.id <= r.id <=> q.id < r.id \/ q = r  OBVIOUS
    <3>1. q.id \in Int /\ r.id \in Int /\ (q.id = r.id => q = r)  OBVIOUS
    <3> QED  BY <3>1
  <2> QED  BY <1>7, <2>1
<1>10. r \notin less /\ IsFiniteSet(less)
  <2>1. r.id \in Int /\ less \subseteq R  BY <1>7
  <2> QED  BY <1>7, <2>1, FS_Subset
<1>11. Cardinality(less \union {r}) = Cardinality(less) + 1  BY <1>10, FS_AddElement
<1>12. Cardinality(less) = k - 1  BY <1>6, <1>8
<1>13. Cardinality(less \union {r}) = k  BY <1>5, <1>11, <1>12
<1>14. Cardinality({q \in R : q.id <= r.id}) = k  BY <1>9, <1>13, Zenon
<1> QED  BY <1>14, Zenon

\* GetHistory reads rows, in some number.
LEMMA HistoryRead == ASSUME StoreOk PROVE HistOk(GetHistory, asNextId)
<1> DEFINE newest(n) == {r \in asRows : Cardinality({q \in asRows : q.id >= r.id}) <= n}
           chosen == newest(AsLimit)
           pick(k) == CHOOSE r \in chosen : Cardinality({q \in chosen : q.id <= r.id}) = k
           n == Cardinality(chosen)
<1>1. chosen \subseteq asRows  OBVIOUS
<1>2. GetHistory = [k \in 1 .. n |-> pick(k)]  BY Zenon DEF GetHistory
<1> HIDE DEF chosen
<1>3. IsFiniteSet(chosen) /\ n \in Nat  BY <1>1, FS_Subset, FS_CardinalityType DEF StoreOk
<1>4. \A r \in chosen : r.id \in Int  BY <1>1 DEF StoreOk, AsIds
<1>5. \A r, q \in chosen : r.id = q.id => r = q  BY <1>1 DEF StoreOk
<1>6. \A k \in 1 .. n : \E r \in chosen : Cardinality({q \in chosen : q.id <= r.id}) = k
  BY <1>3, <1>4, <1>5, NthById
<1>7. \A k \in 1 .. n : pick(k) \in chosen  BY <1>6, Zenon
<1> HIDE DEF pick, n
<1>8. \A k \in 1 .. n : pick(k) \in HistRec(asNextId) /\ pick(k).id # 0
  <2> SUFFICES ASSUME NEW k \in 1 .. n
               PROVE  pick(k) \in HistRec(asNextId) /\ pick(k).id # 0  OBVIOUS
  <2>1. pick(k) \in asRows  BY <1>1, <1>7
  <2> QED  BY <2>1 DEF StoreOk, HistRec, AsIds
<1>9. GetHistory \in Seq(HistRec(asNextId)) /\ Len(GetHistory) = n
  BY <1>2, <1>3, <1>8
<1>10. \A k \in 2 .. n : k \in 1 .. n  BY <1>3
<1>11. \A k \in 2 .. n : GetHistory[k].id # 0  BY <1>2, <1>8, <1>10
<1> QED  BY <1>9, <1>11, Zenon DEF HistOk

\* The history a turn has read, or compressed.
LEMMA ReadKinds ==
    ASSUME AsIInv, AsKinds, NEW m \in AsMsgs, AsRead(m) PROVE AsKinds'
<1>0. CASE AsEnd(m, "error")
  BY <1>0, EndKinds DEF AsRead, AsKinds, StoreOk
<1> SUFFICES ASSUME ~AsEnd(m, "error") PROVE AsKinds'  BY <1>0
<1> DEFINE s == asTurn[m]
           h == GetHistory
<1>1. PICK pc \in {"compress", "llm"} :
         /\ pc = "compress" => Len(h) >= 4
         /\ asTurn' = [asTurn EXCEPT ![m].hist = h, ![m].pc = pc]
  <2>1. PICK large \in BOOLEAN :
           asTurn' = [asTurn EXCEPT ![m].hist = GetHistory,
                        ![m].pc = IF large /\ Len(GetHistory) >= 4 THEN "compress" ELSE "llm"]
    BY DEF AsRead
  <2> QED  BY <2>1
<1>2. s.pc = "read" /\ UNCHANGED <<asRows, asNextId, asReview>>  BY DEF AsRead
<1>3. TurnShape(s) /\ TurnKinds(s, asNextId)  BY DEF AsIInv, TurnOk, AsKinds
<1> DEFINE t == [s EXCEPT !.hist = h, !.pc = pc]
<1>4. t.hist = h /\ t.pc = pc /\ t.batch = s.batch  BY <1>3 DEF TurnShape
<1>5. asTurn' = [asTurn EXCEPT ![m] = t]  BY <1>1 DEF AsIInv
<1>6. HistOk(h, asNextId)  BY HistoryRead DEF AsKinds
<1> HIDE DEF t, h
<1>7. TurnKinds(t, asNextId)  BY <1>1, <1>2, <1>3, <1>4, <1>6 DEF TurnKinds
<1>8. StoreOk' /\ asNextId \in Nat  BY <1>2 DEF AsKinds, StoreOk
<1>9. TurnKinds(t, asNextId') /\ asNextId <= asNextId' /\ asReview' \subseteq AsMsgs
  BY <1>2, <1>7, <1>8 DEF AsKinds
<1> QED  BY <1>5, <1>8, <1>9, OneMoves

\* A summary stands where the last summarized message was, for them all.
LEMMA SummaryStored ==
    ASSUME StoreOk, NEW h, HistOk(h, asNextId), Len(h) >= 4,
           asRows' = AsReplaced(h), asNextId' = asNextId
    PROVE  /\ StoreOk'
           /\ HistOk(<<[id |-> 0, of |-> AsStandsFor(h)]>> \o SubSeq(h, AsHalf(h) + 1, Len(h)),
                     asNextId)
<1> DEFINE last == h[AsHalf(h)].id
           n    == [id |-> last, of |-> AsStandsFor(h)]
<1>1. h \in Seq(HistRec(asNextId)) /\ Len(h) \in Nat  BY DEF HistOk
<1>2. AsHalf(h) \in 2 .. Len(h) /\ AsHalf(h) \in Nat  BY <1>1 DEF AsHalf
<1>3. \A k \in 1 .. Len(h) : h[k] \in HistRec(asNextId)  BY <1>1
<1>4. \A k \in 2 .. Len(h) : k \in 1 .. Len(h)  BY <1>1
<1>5. last \in AsIds(asNextId)
  BY <1>2, <1>3, <1>4 DEF HistOk, HistRec, AsIds, StoreOk
<1>6. AsStandsFor(h) \subseteq AsIds(asNextId)
  <2>1. \A k \in 1 .. AsHalf(h) : k \in 1 .. Len(h)  BY <1>1, <1>2
  <2>2. \A k \in 1 .. Len(h) : h[k].of \subseteq AsIds(asNextId)  BY <1>3 DEF HistRec
  <2> QED  BY <2>1, <2>2 DEF AsStandsFor
<1>7. asRows' = {r \in asRows : r.id > last} \union {n}  BY DEF AsReplaced
<1>8. StoreOk'
  <2>1. PICK later : later = {r \in asRows : r.id > last}  OBVIOUS
  <2>2. IsFiniteSet(asRows')
    <3>1. IsFiniteSet(asRows) /\ later \subseteq asRows  BY <2>1 DEF StoreOk
    <3>2. IsFiniteSet(later)  BY <3>1, FS_Subset
    <3>3. asRows' = later \union {n}  BY <1>7, <2>1, Zenon
    <3> HIDE DEF n
    <3> QED  BY <3>2, <3>3, FS_AddElement
  <2>3. n \in [id : AsIds(asNextId), of : SUBSET AsIds(asNextId)]  BY <1>5, <1>6
  <2>4. asRows' \subseteq [id : AsIds(asNextId), of : SUBSET AsIds(asNextId)]
    BY <1>7, <2>3 DEF StoreOk
  <2>5. n.id = last  OBVIOUS
  <2> HIDE DEF n, last
  <2>6. \A r \in asRows' : r = n \/ (r \in asRows /\ r.id > last)  BY <1>7
  <2>7. \A r \in asRows : ~(r.id > last /\ r.id = last)  BY <1>5 DEF StoreOk, AsIds
  <2>8. \A r, q \in asRows' : r.id = q.id => r = q  BY <2>5, <2>6, <2>7 DEF StoreOk
  <2> QED  BY <2>2, <2>4, <2>8 DEF StoreOk
<1> DEFINE s    == [id |-> 0, of |-> AsStandsFor(h)]
           kept == SubSeq(h, AsHalf(h) + 1, Len(h))
<1>9. s \in HistRec(asNextId)  BY <1>6 DEF HistRec, StoreOk
<1>10. /\ kept \in Seq(HistRec(asNextId)) /\ Len(kept) = Len(h) - AsHalf(h)
       /\ \A k \in 1 .. Len(kept) : kept[k] = h[AsHalf(h) + k]
  BY <1>1, <1>2
<1>11. \A k \in 1 .. Len(kept) : kept[k].id # 0
  <2> SUFFICES ASSUME NEW k \in 1 .. Len(kept) PROVE kept[k].id # 0  OBVIOUS
  <2> HIDE DEF kept
  <2>1. AsHalf(h) + k \in 2 .. Len(h)  BY <1>1, <1>2, <1>10
  <2> QED  BY <1>10, <2>1 DEF HistOk
<1> HIDE DEF s, kept
<1>12. /\ <<s>> \o kept \in Seq(HistRec(asNextId)) /\ Len(<<s>> \o kept) = 1 + Len(kept)
       /\ \A k \in 2 .. Len(kept) + 1 : (<<s>> \o kept)[k] = kept[k - 1]
  BY <1>9, <1>10
<1>13. \A k \in 2 .. Len(<<s>> \o kept) : (<<s>> \o kept)[k].id # 0
  <2> SUFFICES ASSUME NEW k \in 2 .. Len(kept) + 1 PROVE (<<s>> \o kept)[k].id # 0
    BY <1>10, <1>12
  <2>1. k - 1 \in 1 .. Len(kept)  BY <1>1, <1>2, <1>10
  <2> QED  BY <1>11, <1>12, <2>1
<1> QED  BY <1>8, <1>12, <1>13 DEF HistOk, s, kept

\* The older half is summarized, or the history kept.
LEMMA CompressKinds ==
    ASSUME AsIInv, AsKinds, NEW m \in AsMsgs, AsCompress(m) PROVE AsKinds'
<1> DEFINE s == asTurn[m]
           h == s.hist
           g == <<[id |-> 0, of |-> AsStandsFor(h)]>> \o SubSeq(h, AsHalf(h) + 1, Len(h))
<1>1. s.pc = "compress" /\ UNCHANGED <<asNextId, asReview>>  BY DEF AsCompress
<1>2. TurnShape(s) /\ TurnKinds(s, asNextId) /\ StoreOk /\ asNextId \in Nat
  BY DEF AsIInv, TurnOk, AsKinds, StoreOk
<1>3. HistOk(h, asNextId) /\ Len(h) >= 4 /\ s.batch = <<>>
  BY <1>1, <1>2 DEF TurnKinds
<1>4. asNextId <= asNextId' /\ asReview' \subseteq AsMsgs  BY <1>1, <1>2 DEF AsKinds
<1>5. ASSUME NEW x, asTurn' = [asTurn EXCEPT ![m] = [s EXCEPT !.pc = "llm", !.hist = x]],
             HistOk(x, asNextId), StoreOk'
      PROVE  AsKinds'
  <2> DEFINE t == [s EXCEPT !.pc = "llm", !.hist = x]
  <2>1. t.hist = x /\ t.pc = "llm" /\ t.batch = s.batch  BY <1>2 DEF TurnShape
  <2>2. asTurn' = [asTurn EXCEPT ![m] = t]  BY <1>5
  <2> HIDE DEF t, h, s
  <2>3. TurnKinds(t, asNextId')  BY <1>1, <1>3, <1>5, <2>1 DEF TurnKinds
  <2> QED  BY <1>4, <1>5, <2>2, <2>3, OneMoves
<1>6. CASE asRows' = AsReplaced(h) /\ asTurn' = [asTurn EXCEPT ![m].pc = "llm", ![m].hist = g]
  <2>1. StoreOk' /\ HistOk(g, asNextId)
    <3> HIDE DEF h
    <3> QED  BY <1>1, <1>2, <1>3, <1>6, SummaryStored
  <2>2. asTurn' = [asTurn EXCEPT ![m] = [s EXCEPT !.pc = "llm", !.hist = g]]
    <3> HIDE DEF g
    <3> QED  BY <1>6 DEF AsIInv
  <2> HIDE DEF g
  <2> QED  BY <1>5, <2>1, <2>2, Zenon
<1>7. CASE asTurn' = [asTurn EXCEPT ![m].pc = "llm"] /\ UNCHANGED asRows
  <2>1. [s EXCEPT !.pc = "llm"] = [s EXCEPT !.pc = "llm", !.hist = h]  BY <1>2 DEF TurnShape
  <2>2. asTurn' = [asTurn EXCEPT ![m] = [s EXCEPT !.pc = "llm", !.hist = h]]
    BY <1>7, <2>1
  <2>3. StoreOk'  BY <1>1, <1>2, <1>7 DEF StoreOk
  <2> QED  BY <1>3, <1>5, <2>2, <2>3, Zenon
<1> QED  BY <1>6, <1>7 DEF AsCompress

\* A message begins its turn.
LEMMA BeginKinds ==
    ASSUME AsIInv, AsKinds, NEW m \in AsMsgs, AsBegin(m) PROVE AsKinds'
<1> DEFINE s == asTurn[m]
<1>1. s.pc = "new" /\ asReview' \subseteq AsMsgs  BY DEF AsBegin, AsKinds
<1>2. TurnShape(s) /\ TurnKinds(s, asNextId) /\ StoreOk
  BY DEF AsIInv, TurnOk, AsKinds
<1>3. CASE AsReply(m)
  BY <1>1, <1>2, <1>3, SaveKeeps, EndKinds DEF AsReply
<1>4. CASE AsSave(FALSE) /\ AsEnd(m, "error")
  BY <1>1, <1>2, <1>4, SaveKeeps, EndKinds
<1>5. CASE AsSave(TRUE) /\ asTurn' = [asTurn EXCEPT ![m].pc = "read"]
  <2> DEFINE t == [s EXCEPT !.pc = "read"]
  <2>1. t.hist = s.hist /\ t.pc = "read" /\ t.batch = s.batch  BY <1>2 DEF TurnShape
  <2>2. asTurn' = [asTurn EXCEPT ![m] = t]  BY <1>5
  <2> HIDE DEF t
  <2>3. StoreOk' /\ asNextId <= asNextId'  BY <1>2, <1>5, SaveKeeps
  <2>4. asNextId \in Nat \ {0} /\ asNextId' \in Nat \ {0}  BY <1>2, <2>3 DEF StoreOk
  <2>5. TurnKinds(t, asNextId)  BY <1>1, <1>2, <2>1 DEF TurnKinds
  <2>6. TurnKinds(t, asNextId')  BY <2>3, <2>4, <2>5, KindsGrow
  <2> QED  BY <1>1, <2>2, <2>3, <2>6, OneMoves
<1> QED  BY <1>3, <1>4, <1>5 DEF AsBegin

\* A turn ends and may be reviewed.
LEMMA TextKinds ==
    ASSUME AsIInv, AsKinds, NEW m \in AsMsgs, NEW t, AsTextReply(m, t) PROVE AsKinds'
<1>1. PICK saved \in BOOLEAN : AsSave(saved) /\ AsReviewed(m, t, saved)  BY DEF AsTextReply
<1>2. asReview' \subseteq AsMsgs  BY <1>1 DEF AsReviewed, AsKinds
<1>3. StoreOk' /\ asNextId <= asNextId'  BY <1>1, SaveKeeps DEF AsKinds
<1> QED  BY <1>2, <1>3, EndKinds DEF AsTextReply

\* A turn ends with a reply or an error.
LEMMA ReplyKinds ==
    ASSUME AsIInv, AsKinds, NEW m \in AsMsgs, asReview' = asReview,
           AsReply(m) \/ (AsEnd(m, "error") /\ UNCHANGED <<asRows, asNextId>>)
    PROVE  AsKinds'
<1>1. asReview' \subseteq AsMsgs  BY DEF AsKinds
<1>2. CASE AsReply(m)
  BY <1>1, <1>2, SaveKeeps, EndKinds DEF AsReply, AsKinds
<1>3. CASE AsEnd(m, "error") /\ UNCHANGED <<asRows, asNextId>>
  <2>1. StoreOk' /\ asNextId <= asNextId'  BY <1>3 DEF AsKinds, StoreOk
  <2> QED  BY <1>1, <1>3, <2>1, EndKinds
<1> QED  BY <1>2, <1>3

\* A turn goes on with the messages as they are.
LEMMA OnKinds ==
    ASSUME AsIInv, AsKinds, NEW m \in AsMsgs, UNCHANGED <<asRows, asNextId, asReview>>,
           NEW t, asTurn' = [asTurn EXCEPT ![m] = t], TurnKinds(t, asNextId)
    PROVE  AsKinds'
<1>1. StoreOk' /\ asNextId <= asNextId' /\ asReview' \subseteq AsMsgs  BY DEF AsKinds, StoreOk
<1>2. TurnKinds(t, asNextId')  OBVIOUS
<1> QED  BY <1>1, <1>2, OneMoves

\* A batch of the model.
LEMMA BatchKinds ==
    ASSUME NEW b \in AsBatches PROVE b \in Seq(Callable) /\ b # <<>>
<1>1. b \in Seq({b[k] : k \in DOMAIN b}) /\ b # <<>>  BY AsAssumption
<1>2. {b[k] : k \in DOMAIN b} \subseteq Callable  BY DEF Callable
<1> QED  BY <1>1, <1>2

\* The model answers.
LEMMA ModelKinds ==
    ASSUME AsIInv, AsKinds, NEW m \in AsMsgs, AsModel(m) PROVE AsKinds'
<1> DEFINE s  == asTurn[m]
           t  == [s EXCEPT !.calls = @ + 1]
           ok == [t EXCEPT !.overflow = FALSE]
<1>1. TurnShape(s) /\ TurnKinds(s, asNextId)  BY DEF AsIInv, TurnOk, AsKinds
<1>2. TurnShape(t) /\ t.pc = s.pc /\ t.hist = s.hist /\ t.batch = s.batch
  BY <1>1 DEF TurnShape
<1>3. /\ t.pc = "llm"
      /\ \/ AsOverflow(m, t) /\ UNCHANGED <<asRows, asNextId, asReview>>
         \/ AsEnd(m, "error") /\ UNCHANGED <<asRows, asNextId, asReview>>
         \/ AsAnswer(m, ok)
         \/ \E b \in AsBatches : AsCalls(m, ok, b) /\ UNCHANGED asReview
  BY DEF AsModel
<1> HIDE DEF t
<1>4. TurnShape(ok) /\ ok.pc = "llm" /\ ok.hist = s.hist /\ ok.batch = s.batch
  BY <1>2, <1>3 DEF TurnShape
<1> HIDE DEF ok
<1>5. HistOk(s.hist, asNextId) /\ s.batch = <<>>
  BY <1>1, <1>2, <1>3 DEF TurnKinds
<1> HIDE DEF s
<1>6. CASE AsOverflow(m, t) /\ ~t.overflow /\ UNCHANGED <<asRows, asNextId, asReview>>
  <2>1. PICK pc \in {"compress", "llm"} :
           /\ pc = "compress" => Len(t.hist) >= 4
           /\ asTurn' = [asTurn EXCEPT ![m] = [t EXCEPT !.overflow = TRUE, !.pc = pc]]
    BY <1>6 DEF AsOverflow
  <2> DEFINE u == [t EXCEPT !.overflow = TRUE, !.pc = pc]
  <2>2. u.hist = t.hist /\ u.batch = t.batch /\ u.pc = pc  BY <1>2 DEF TurnShape
  <2>3. asTurn' = [asTurn EXCEPT ![m] = u]  BY <2>1
  <2> HIDE DEF u
  <2>4. /\ HistOk(u.hist, asNextId) /\ u.batch = <<>> /\ u.pc # "tools"
        /\ u.pc = "compress" => Len(u.hist) >= 4
    BY <1>2, <1>5, <2>1, <2>2
  <2>5. TurnKinds(u, asNextId)  BY <2>4 DEF TurnKinds
  <2> QED  BY <1>6, <2>3, <2>5, OnKinds
<1>7. CASE AsOverflow(m, t) /\ t.overflow /\ UNCHANGED <<asRows, asNextId, asReview>>
  BY <1>7, ReplyKinds DEF AsOverflow
<1>8. ASSUME NEW u, u.pc = "llm", u.hist = s.hist, u.batch = s.batch,
             asTurn' = [asTurn EXCEPT ![m] = u], UNCHANGED <<asRows, asNextId, asReview>>
      PROVE  AsKinds'
  <2>1. TurnKinds(u, asNextId)  BY <1>5, <1>8 DEF TurnKinds
  <2> QED  BY <1>8, <2>1, OnKinds
<1>9. CASE AsAnswer(m, ok)
  <2>1. CASE /\ asTurn' = [asTurn EXCEPT ![m] = [ok EXCEPT !.asked = TRUE, !.i = ok.i + 1]]
             /\ UNCHANGED <<asRows, asNextId, asReview>>
    <3> DEFINE u == [ok EXCEPT !.asked = TRUE, !.i = ok.i + 1]
    <3>1. u.pc = "llm" /\ u.hist = s.hist /\ u.batch = s.batch  BY <1>4 DEF TurnShape
    <3>2. asTurn' = [asTurn EXCEPT ![m] = u]  BY <2>1
    <3> HIDE DEF u
    <3> QED  BY <1>8, <2>1, <3>1, <3>2
  <2>2. CASE AsReply(m) /\ UNCHANGED asReview  BY <2>2, ReplyKinds
  <2>3. CASE AsEnd(m, "error") /\ UNCHANGED <<asRows, asNextId, asReview>>  BY <2>3, ReplyKinds
  <2>4. CASE AsTextReply(m, ok)  BY <2>4, TextKinds
  <2> QED  BY <1>9, <2>1, <2>2, <2>3, <2>4 DEF AsAnswer
<1>10. ASSUME NEW b \in AsBatches, AsCalls(m, ok, b), UNCHANGED asReview PROVE AsKinds'
  <2>1. CASE AsReply(m)  BY <1>10, <2>1, ReplyKinds
  <2>2. CASE /\ asTurn' = [asTurn EXCEPT ![m] = [ok EXCEPT !.replan = TRUE, !.i = ok.i + 1]]
             /\ UNCHANGED <<asRows, asNextId>>
    <3> DEFINE u == [ok EXCEPT !.replan = TRUE, !.i = ok.i + 1]
    <3>1. u.pc = "llm" /\ u.hist = s.hist /\ u.batch = s.batch  BY <1>4 DEF TurnShape
    <3>2. asTurn' = [asTurn EXCEPT ![m] = u]  BY <2>2
    <3> HIDE DEF u
    <3> QED  BY <1>8, <1>10, <2>2, <3>1, <3>2
  <2>3. CASE /\ asTurn' = [asTurn EXCEPT ![m] = [ok EXCEPT !.pc = "tools", !.batch = b,
                                                          !.hard = ok.hard + 1]]
             /\ UNCHANGED <<asRows, asNextId>>
    <3> DEFINE u == [ok EXCEPT !.pc = "tools", !.batch = b, !.hard = ok.hard + 1]
    <3>1. u.pc = "tools" /\ u.hist = s.hist /\ u.batch = b  BY <1>4 DEF TurnShape
    <3>2. asTurn' = [asTurn EXCEPT ![m] = u]  BY <2>3
    <3> HIDE DEF u
    <3>3. TurnKinds(u, asNextId)  BY <1>5, <3>1, BatchKinds DEF TurnKinds
    <3> QED  BY <1>10, <2>3, <3>2, <3>3, OnKinds
  <2> QED  BY <1>10, <2>1, <2>2, <2>3 DEF AsCalls
<1>11. CASE AsEnd(m, "error") /\ UNCHANGED <<asRows, asNextId, asReview>>  BY <1>11, ReplyKinds
<1> QED  BY <1>3, <1>6, <1>7, <1>9, <1>10, <1>11

\* The loop is exhausted.
LEMMA ExhaustedKinds ==
    ASSUME AsIInv, AsKinds, NEW m \in AsMsgs, AsExhausted(m) PROVE AsKinds'
BY ReplyKinds, TextKinds DEF AsExhausted

\* What is left of a batch is a batch, or the turn goes back to the model.
LEMMA AdvanceKinds ==
    ASSUME NEW t, NEW n, TurnShape(t), TurnKinds(t, n), t.pc = "tools"
    PROVE  TurnKinds(AsAdvance(t), n)
<1> DEFINE u == AsAdvance(t)
<1>1. t.batch \in Seq(Callable) /\ t.batch # <<>> /\ HistOk(t.hist, n)  BY DEF TurnKinds
<1>2. CASE Len(t.batch) = 1
  <2>1. u.hist = t.hist /\ u.pc = "llm" /\ u.batch = <<>>
    BY <1>2 DEF TurnShape, AsAdvance
  <2> HIDE DEF u
  <2>2. TurnKinds(u, n)  BY <1>1, <2>1 DEF TurnKinds
  <2> QED  BY <2>2 DEF u
<1>3. CASE Len(t.batch) # 1
  <2>1. u.hist = t.hist /\ u.pc = "tools" /\ u.batch = Tail(t.batch)
    BY <1>3 DEF TurnShape, AsAdvance
  <2>2. Len(t.batch) \in Nat /\ Len(t.batch) # 0  BY <1>1
  <2>3. /\ Tail(t.batch) \in Seq(Callable) /\ Len(Tail(t.batch)) = Len(t.batch) - 1
        /\ Len(Tail(t.batch)) # 0
    BY <1>1, <1>3, <2>2
  <2>4. Tail(t.batch) # <<>>
    <3>1. Len(<<>>) = 0  OBVIOUS
    <3> QED  BY <2>3, <3>1, Zenon
  <2> HIDE DEF u
  <2>5. TurnKinds(u, n)  BY <1>1, <2>1, <2>3, <2>4 DEF TurnKinds
  <2> QED  BY <2>5 DEF u
<1> QED  BY <1>2, <1>3

\* What a turn learns leaves its batch and its history.
LEMMA LearnedKinds ==
    ASSUME NEW m, NEW t, NEW n, NEW tool, NEW good, TurnShape(t), TurnKinds(t, n), t.pc = "tools"
    PROVE  /\ TurnShape(AsLearned(m, t, tool, good)) /\ AsLearned(m, t, tool, good).pc = "tools"
           /\ TurnKinds(AsLearned(m, t, tool, good), n)
<1> DEFINE a == [t EXCEPT !.ledger = @ \union {tool}]
           b == [a EXCEPT !.taint = @ \/ (good /\ tool \in AsRemote)]
           c == [b EXCEPT !.mcp = @ \/ (good /\ tool \in AsMcp)]
           u == AsLearned(m, t, tool, good)
<1>1. u = [c EXCEPT !.forced = @ \/ (good /\ tool = AsForced[m])]  BY DEF AsLearned
<1>2. TurnShape(a) /\ a.pc = t.pc /\ a.hist = t.hist /\ a.batch = t.batch  BY DEF TurnShape
<1> HIDE DEF a, u
<1>3. TurnShape(b) /\ b.pc = t.pc /\ b.hist = t.hist /\ b.batch = t.batch
  BY <1>2 DEF TurnShape
<1> HIDE DEF b
<1>4. TurnShape(c) /\ c.pc = t.pc /\ c.hist = t.hist /\ c.batch = t.batch
  BY <1>3 DEF TurnShape
<1> HIDE DEF c
<1>5. TurnShape(u) /\ u.pc = t.pc /\ u.hist = t.hist /\ u.batch = t.batch
  BY <1>1, <1>4 DEF TurnShape
<1>6. TurnKinds(u, n)  BY <1>5 DEF TurnKinds
<1> QED  BY <1>5, <1>6 DEF u

\* A call answered from the ledger, or made.
LEMMA ToolKinds ==
    ASSUME AsIInv, AsKinds, NEW m \in AsMsgs, AsCached(m) \/ AsCall(m) PROVE AsKinds'
<1> DEFINE t == asTurn[m]
<1>1. TurnShape(t) /\ TurnKinds(t, asNextId)  BY DEF AsIInv, TurnOk, AsKinds
<1>2. t.pc = "tools" /\ asReview' = asReview  BY DEF AsCached, AsCall
<1>3. CASE AsCached(m)
  <2>1. asTurn' = [asTurn EXCEPT ![m] = AsAdvance(t)] /\ UNCHANGED <<asRows, asNextId>>
    BY <1>3 DEF AsCached
  <2>2. TurnKinds(AsAdvance(t), asNextId)
    <3> HIDE DEF t
    <3> QED  BY <1>1, <1>2, AdvanceKinds
  <2> QED  BY <1>2, <2>1, <2>2, OnKinds
<1>4. ASSUME NEW tool, NEW good, AsAfter(m, t, tool, good) PROVE AsKinds'
  <2>1. CASE AsReply(m)  BY <1>2, <2>1, ReplyKinds
  <2>2. CASE /\ asTurn' = [asTurn EXCEPT ![m] = AsAdvance(AsLearned(m, t, tool, good))]
             /\ UNCHANGED <<asRows, asNextId>>
    <3>1. TurnKinds(AsAdvance(AsLearned(m, t, tool, good)), asNextId)
      <4> HIDE DEF t
      <4>1. /\ TurnShape(AsLearned(m, t, tool, good)) /\ AsLearned(m, t, tool, good).pc = "tools"
            /\ TurnKinds(AsLearned(m, t, tool, good), asNextId)
        BY <1>1, <1>2, LearnedKinds
      <4> QED  BY <4>1, AdvanceKinds
    <3> QED  BY <1>2, <2>2, <3>1, OnKinds
  <2> QED  BY <1>4, <2>1, <2>2 DEF AsAfter
<1>5. CASE AsCall(m)
  <2>1. \/ AsEnd(m, "error") /\ UNCHANGED <<asRows, asNextId>>
        \/ AsReply(m) \/ \E tool, good : AsAfter(m, t, tool, good)
    BY <1>5 DEF AsCall
  <2> QED  BY <1>2, <1>4, <2>1, ReplyKinds
<1> QED  BY <1>3, <1>5

\* The first messages are numbered from one.
LEMMA FirstKinds == AsInit => AsKinds
<1> SUFFICES ASSUME AsInit PROVE AsKinds  OBVIOUS
<1> DEFINE row == [k \in 1 .. AsStored |-> [id |-> k, of |-> {k}]]
<1>1. asNextId = AsStored + 1 /\ AsStored \in Nat  BY AsAssumption DEF AsInit
<1>2. AsIds(asNextId) = 1 .. AsStored  BY <1>1 DEF AsIds
<1>3. asRows = {row[k] : k \in 1 .. AsStored}  BY DEF AsInit
<1>4. IsFiniteSet(asRows)
  <2>1. IsFiniteSet(1 .. AsStored)  BY <1>1, FS_Interval
  <2>2. row \in Surjection(1 .. AsStored, asRows)  BY <1>3 DEF Surjection
  <2> HIDE DEF row
  <2> QED  BY <2>1, <2>2, FS_Surjection
<1>5. StoreOk
  <2>1. \A r \in asRows : \E k \in 1 .. AsStored : r = [id |-> k, of |-> {k}]  BY <1>3
  <2>2. asRows \subseteq [id : AsIds(asNextId), of : SUBSET AsIds(asNextId)]
    BY <1>2, <2>1
  <2>3. \A r, q \in asRows : r.id = q.id => r = q  BY <2>1
  <2> QED  BY <1>1, <1>4, <2>2, <2>3 DEF StoreOk
<1>6. TurnKinds(AsIdle, asNextId)
  <2>1. AsIdle.hist = <<>> /\ AsIdle.batch = <<>> /\ AsIdle.pc = "new"  BY DEF AsIdle
  <2> QED  BY <2>1 DEF TurnKinds, HistOk
<1> QED  BY <1>5, <1>6 DEF AsInit, AsKinds

\* Turns, approvals, rows and executions have their types, whatever the model
\* answers and however turns and summaries overlap.
LEMMA AsTyped == AsSpec => []AsTypeOK
<1>1. ASSUME AsIInv, AsKinds, [AsNext]_asVars PROVE AsKinds'
  <2>1. CASE UNCHANGED asVars  BY <1>1, <2>1 DEF asVars, AsKinds, StoreOk
  <2>2. ASSUME NEW m \in AsMsgs, AsStep(m) PROVE AsKinds'
    BY <1>1, <2>2, BeginKinds, ReadKinds, CompressKinds, ModelKinds, ExhaustedKinds, ToolKinds
       DEF AsStep
  <2> QED  BY <1>1, <2>1, <2>2 DEF AsNext
<1>2. ASSUME AsIInv, AsKinds PROVE AsTypeOK
  <2>1. \A m \in AsMsgs : TurnFields(asTurn[m]) /\ TurnKinds(asTurn[m], asNextId)
    BY <1>2 DEF AsIInv, TurnOk, AsKinds
  <2>2. \A m \in AsMsgs :
           /\ asTurn[m].pc \in {"new", "read", "compress", "llm", "tools", "done"}
           /\ asTurn[m].i \in 0..AsMaxIter
           /\ asTurn[m].out \in {"none", "error", "reply", "text"}
           /\ (asTurn[m].pc = "tools") <=> (asTurn[m].batch # <<>>)
    BY <2>1 DEF TurnFields, TurnKinds
  <2>3. asPending = AsNoCall \/ asPending.of \in AsMsgs  BY <1>2 DEF AsIInv, PendingOk
  <2>4. \A r \in asRows : r.id \in 1..(asNextId - 1) /\ r.of \subseteq 1..(asNextId - 1)
    BY <1>2 DEF AsKinds, StoreOk, AsIds
  <2> QED  BY <1>2, <2>2, <2>3, <2>4 DEF AsTypeOK, AsKinds
<1> QED  BY <1>1, <1>2, FirstKinds, AsInductive, PTL DEF AsSpec
=============================================================================
