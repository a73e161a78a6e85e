--------------------------- MODULE AssistantTurns ----------------------------
(***************************************************************************)
(* The assistant (internal/assistant): HandleMessage on the messages of    *)
(* one chat.  A web chat starts a goroutine per message, so turns overlap; *)
(* they share the chat's one pending approval and its stored history, and  *)
(* everything else (iteration, exploration ledger, taint, the history read *)
(* at the start) belongs to a turn.                                        *)
(*                                                                         *)
(* A turn takes a pending approval, or saves its message, reads the        *)
(* history, perhaps compresses it, and then alternates model calls and     *)
(* batches of tool calls.  The model and the tools are external: a model   *)
(* call ends with a text, one of AsBatches, an overflow or an error, a     *)
(* tool with a result or an error.  Prompt building, streaming and status  *)
(* notifications change no state here and are left out; a stored message   *)
(* is its row id and what it stands for.                                   *)
(***************************************************************************)
EXTENDS Naturals, Sequences, FiniteSets

CONSTANTS
    AsMsgs,      \* the messages
    AsText,      \* AsText[m]: "yes" or "no" for an approval word, else "text"
    AsAdmins,    \* the messages of an administrator
    AsForced,    \* AsForced[m]: the tool a trigger word of m forces, or "none"
    AsMcpAsked,  \* messages that ask for an MCP operation
    AsBatches,   \* the batches of tool calls the model may answer with
    AsManual, AsPrompt,  \* tools of approval level manual, prompt
    AsTerminal,  \* tools whose result ends the turn (translate)
    AsRemote,    \* tools that bring remote output into the turn
    AsAnalysis,  \* tools still allowed after that
    AsMcp,       \* the MCP invocations
    AsNoDedup,   \* tools that opt out of the ledger's cache
    AsStored,    \* bound: messages in the history when the behaviour begins
    AsLimit,     \* historyLimit
    AsMaxIter,   \* maxIterations
    AsThreshold  \* tool iterations of a turn worth a skill review

ASSUME AsAssumption ==
    /\ IsFiniteSet(AsMsgs) /\ AsAdmins \union AsMcpAsked \subseteq AsMsgs
    /\ AsText \in [AsMsgs -> {"yes", "no", "text"}]
    /\ \A b \in AsBatches : b # <<>> /\ b \in Seq({b[k] : k \in DOMAIN b})
    /\ AsStored \in Nat /\ AsLimit \in Nat \ {0} /\ AsMaxIter \in Nat \ {0}

VARIABLES
    asTurn,    \* asTurn[m]: the state of m's turn
    asPending, \* the call awaiting approval, or AsNoCall
    asRows,    \* the stored messages: [id, of], of = the ids it stands for
    asNextId,  \* the next row id
    asRan,     \* history: the tools run: [tool, of, by, good, tainted]
    asReview   \* turns with a skill.review task

asVars == <<asTurn, asPending, asRows, asNextId, asRan, asReview>>

\* A call is named by its tool and its turn: a turn ends with the first of its
\* calls that waits for approval.
AsNoCall == [tool |-> "none", of |-> "none"]
AsIdle == [pc |-> "new", i |-> 0, calls |-> 0, overflow |-> FALSE, batch |-> <<>>,
           ledger |-> {}, taint |-> FALSE, replan |-> FALSE, mcp |-> FALSE,
           asked |-> FALSE, forced |-> FALSE, hard |-> 0, hist |-> <<>>, out |-> "none"]

AsInit ==
    /\ asTurn = [m \in AsMsgs |-> AsIdle]
    /\ asPending = AsNoCall
    /\ asRows = {[id |-> k, of |-> {k}] : k \in 1..AsStored}
    /\ asNextId = AsStored + 1
    /\ asRan = {} /\ asReview = {}

-----------------------------------------------------------------------------

\* SaveMessage and saveAssistantResponse: one more row, or an error.
AsSave(saved) ==
    IF saved THEN /\ asRows' = asRows \union {[id |-> asNextId, of |-> {asNextId}]}
                  /\ asNextId' = asNextId + 1
             ELSE UNCHANGED <<asRows, asNextId>>

\* GetHistory: the last AsLimit rows, by id.
GetHistory ==
    LET newest(n) == {r \in asRows : Cardinality({q \in asRows : q.id >= r.id}) <= n}
        chosen == newest(AsLimit)
    IN [k \in 1..Cardinality(chosen) |->
          CHOOSE r \in chosen : Cardinality({q \in chosen : q.id <= r.id}) = k]

\* The turn ends, with an error, a fixed reply or the model's text.
AsEnd(m, out) ==
    asTurn' = [asTurn EXCEPT ![m] = [AsIdle EXCEPT !.pc = "done", !.out = out,
                                        !.taint = asTurn[m].taint]]

\* The answer of a turn that ends with a reply: finishResponse, the awaiting
\* notice, the executed and cancelled notices.
AsReply(m) == AsEnd(m, "reply") /\ \E saved \in BOOLEAN : AsSave(saved)

\* maybeEnqueueSkillReview, after the reply was saved; the rate limit may refuse.
AsReviewed(m, t, saved) ==
    \/ asReview' = asReview
    \/ ~t.taint /\ t.hard >= AsThreshold /\ saved /\ asReview' = asReview \union {m}

AsTextReply(m, t) == /\ AsEnd(m, "text")
                     /\ \E saved \in BOOLEAN : AsSave(saved) /\ AsReviewed(m, t, saved)

-----------------------------------------------------------------------------

\* What executing a call leads to; a skill disabled meanwhile does not run.
AsResults == {"ok", "error", "absent"}
AsRun(m, call, res) ==
    asRan' = IF res = "absent" THEN asRan
             ELSE asRan \union {[tool |-> call.tool, of |-> call.of, by |-> m,
                                 good |-> res = "ok", tainted |-> asTurn[call.of].taint]}

\* canApprove
AsCanApprove(m, call) == call.tool \in AsManual => m \in AsAdmins

\* Mutant: the approval stays.
AsAfterTakeKept == asPending

\* What approvals.take leaves.
AsAfterTake == AsNoCall

\* The start of HandleMessage: approvals.take, and unless the message answers
\* the approval, SaveMessage; a failed save ends the turn.
AsBegin(m) ==
    /\ asTurn[m].pc = "new"
    /\ asPending' = AsAfterTake
    /\ IF asPending # AsNoCall /\ AsText[m] # "text"
       THEN IF AsText[m] = "yes" /\ AsCanApprove(m, asPending)
            THEN AsReply(m) /\ \E res \in AsResults : AsRun(m, asPending, res)
            ELSE AsReply(m) /\ UNCHANGED asRan
       ELSE /\ UNCHANGED asRan
            /\ \/ AsSave(TRUE) /\ asTurn' = [asTurn EXCEPT ![m].pc = "read"]
               \/ AsSave(FALSE) /\ AsEnd(m, "error")
    /\ UNCHANGED asReview

\* GetHistory, which may fail, and compressIfNeeded when the last request was
\* large.
AsRead(m) ==
    /\ asTurn[m].pc = "read"
    /\ \/ \E large \in BOOLEAN :
             asTurn' = [asTurn EXCEPT ![m].hist = GetHistory,
                           ![m].pc = IF large /\ Len(GetHistory) >= 4 THEN "compress" ELSE "llm"]
       \/ AsEnd(m, "error")
    /\ UNCHANGED <<asPending, asRows, asNextId, asRan, asReview>>

AsHalf(h) == Len(h) \div 2
AsStandsFor(h) == UNION {h[k].of : k \in 1..AsHalf(h)}

\* ReplaceMessagesWithSummary: up to the last summarized id, with its id.
AsReplaced(h) ==
    LET last == h[AsHalf(h)].id
    IN {r \in asRows : r.id > last} \union {[id |-> last, of |-> AsStandsFor(h)]}

\* The summary of the older half; a failure keeps the history.
AsCompress(m) ==
    LET h == asTurn[m].hist
        kept == SubSeq(h, AsHalf(h) + 1, Len(h))
        summary == [id |-> 0, of |-> AsStandsFor(h)]
    IN /\ asTurn[m].pc = "compress"
       /\ \/ /\ asRows' = AsReplaced(h)
             /\ asTurn' = [asTurn EXCEPT ![m].pc = "llm", ![m].hist = <<summary>> \o kept]
          \/ asTurn' = [asTurn EXCEPT ![m].pc = "llm"] /\ UNCHANGED asRows
       /\ UNCHANGED <<asPending, asNextId, asRan, asReview>>

-----------------------------------------------------------------------------

\* Mutant: every overflow is retried.
AsOverflowAlways(m, t) ==
    asTurn' = [asTurn EXCEPT ![m] = [t EXCEPT !.pc = IF Len(t.hist) >= 4 THEN "compress" ELSE "llm"]]

\* Context too large: compress and retry the iteration, unless the call before
\* overflowed as well.
AsOverflow(m, t) ==
    IF t.overflow THEN AsEnd(m, "error")
    ELSE asTurn' = [asTurn EXCEPT ![m] = [t EXCEPT !.overflow = TRUE,
                       !.pc = IF Len(t.hist) >= 4 THEN "compress" ELSE "llm"]]

\* A text answer: an MCP request without evidence gets one more try, a forced
\* tool that did not succeed is an error.
AsAnswer(m, t) ==
    IF m \in AsMcpAsked /\ ~t.mcp
    THEN IF ~t.asked /\ t.i + 1 < AsMaxIter
         THEN /\ asTurn' = [asTurn EXCEPT ![m] = [t EXCEPT !.asked = TRUE, !.i = t.i + 1]]
              /\ UNCHANGED <<asRows, asNextId, asReview>>
         ELSE AsReply(m) /\ UNCHANGED asReview
    ELSE IF AsForced[m] # "none" /\ ~t.forced
         THEN AsEnd(m, "error") /\ UNCHANGED <<asRows, asNextId, asReview>>
         ELSE AsTextReply(m, t)

\* A batch: a terminal tool among others is refused, once with another try.
AsCalls(m, t, b) ==
    IF Len(b) # 1 /\ \E k \in 1..Len(b) : b[k] \in AsTerminal
    THEN IF t.replan THEN AsReply(m)
         ELSE /\ asTurn' = [asTurn EXCEPT ![m] = [t EXCEPT !.replan = TRUE, !.i = t.i + 1]]
              /\ UNCHANGED <<asRows, asNextId>>
    ELSE /\ asTurn' = [asTurn EXCEPT ![m] = [t EXCEPT !.pc = "tools", !.batch = b,
                                                      !.hard = t.hard + 1]]
         /\ UNCHANGED <<asRows, asNextId>>

\* The model answers, within the iterations left.
AsModel(m) ==
    LET t == [asTurn[m] EXCEPT !.calls = @ + 1]
        ok == [t EXCEPT !.overflow = FALSE]
    IN /\ t.pc = "llm" /\ t.i < AsMaxIter
       /\ \/ AsOverflow(m, t) /\ UNCHANGED <<asRows, asNextId, asReview>>
          \/ AsEnd(m, "error") /\ UNCHANGED <<asRows, asNextId, asReview>>
          \/ AsAnswer(m, ok)
          \/ \E b \in AsBatches : AsCalls(m, ok, b) /\ UNCHANGED asReview
       /\ UNCHANGED <<asPending, asRan>>

\* The loop is exhausted: any partial text is saved, and the turn is an error
\* unless it owes the notice that no MCP operation was verified.
AsExhausted(m) ==
    LET t == asTurn[m]
    IN /\ t.pc = "llm" /\ t.i = AsMaxIter
       /\ IF m \in AsMcpAsked /\ ~t.mcp THEN AsReply(m) /\ UNCHANGED asReview
          ELSE IF AsForced[m] # "none" /\ ~t.forced
          THEN AsEnd(m, "error") /\ UNCHANGED <<asRows, asNextId, asReview>>
          ELSE AsTextReply(m, t)
       /\ UNCHANGED <<asPending, asRan>>

-----------------------------------------------------------------------------

\* The rest of the batch, and the next iteration after its last call.
AsAdvance(t) ==
    IF Len(t.batch) = 1 THEN [t EXCEPT !.batch = <<>>, !.pc = "llm", !.i = t.i + 1]
    ELSE [t EXCEPT !.batch = Tail(t.batch)]

\* The ledger already holds the same call: the cached result, no execution.
AsCached(m) ==
    LET t == asTurn[m]
    IN /\ t.pc = "tools" /\ Head(t.batch) \in t.ledger \ AsNoDedup
       /\ asTurn' = [asTurn EXCEPT ![m] = AsAdvance(t)]
       /\ UNCHANGED <<asPending, asRows, asNextId, asRan, asReview>>

\* executeSkill's refusals after remote output, before any approval.
AsBlocked(t, tool) == t.taint /\ tool \notin AsAnalysis

AsNeedsApproval(m, tool) ==
    tool \in AsPrompt \/ (tool \in AsManual /\ m \notin AsAdmins)

\* A terminal tool is not attempted before a forced one.  It always ends the
\* turn, so terminalAttempted is never seen set.
AsTooEarly(m, t, tool) ==
    tool \in AsTerminal /\ AsForced[m] \notin {"none", tool} /\ ~t.forced

\* What the turn knows after a tool ended.  A remote tool brings its output in.
AsLearned(m, t, tool, good) ==
    [t EXCEPT !.ledger = @ \union {tool},
              !.taint = @ \/ (good /\ tool \in AsRemote),
              !.mcp = @ \/ (good /\ tool \in AsMcp),
              !.forced = @ \/ (good /\ tool = AsForced[m])]

\* A terminal tool, and an MCP invocation that did not succeed, end the turn.
AsAfter(m, t, tool, good) ==
    IF tool \in AsTerminal \/ (tool \in AsMcp /\ ~good) THEN AsReply(m)
    ELSE /\ asTurn' = [asTurn EXCEPT ![m] = AsAdvance(AsLearned(m, t, tool, good))]
         /\ UNCHANGED <<asRows, asNextId>>

\* One call of the batch, in the order HandleMessage and executeSkill decide.
AsCall(m) ==
    LET t == asTurn[m]
        tool == Head(t.batch)
        call == [tool |-> tool, of |-> m]
    IN /\ t.pc = "tools" /\ tool \notin t.ledger \ AsNoDedup
       /\ CASE AsTooEarly(m, t, tool) ->
                  AsEnd(m, "error") /\ UNCHANGED <<asRows, asNextId, asPending, asRan>>
            [] ~AsTooEarly(m, t, tool) /\ AsBlocked(t, tool) ->
                  AsAfter(m, t, tool, FALSE) /\ UNCHANGED <<asPending, asRan>>
            [] ~AsTooEarly(m, t, tool) /\ ~AsBlocked(t, tool) /\ AsNeedsApproval(m, tool) ->
                  asPending' = call /\ AsReply(m) /\ UNCHANGED asRan
            [] OTHER ->
                  /\ \E res \in AsResults : AsRun(m, call, res) /\ AsAfter(m, t, tool, res = "ok")
                  /\ UNCHANGED asPending
       /\ UNCHANGED asReview

AsStep(m) == AsBegin(m) \/ AsRead(m) \/ AsCompress(m) \/ AsModel(m) \/ AsExhausted(m)
                \/ AsCached(m) \/ AsCall(m)

AsNext == \E m \in AsMsgs : AsStep(m)

AsSpec == AsInit /\ [][AsNext]_asVars

-----------------------------------------------------------------------------

\* Turns, approvals, rows and executions have their types.
AsTypeOK ==
    /\ \A m \in AsMsgs :
          /\ asTurn[m].pc \in {"new", "read", "compress", "llm", "tools", "done"}
          /\ asTurn[m].i \in 0..AsMaxIter
          /\ asTurn[m].out \in {"none", "error", "reply", "text"}
          /\ (asTurn[m].pc = "tools") <=> (asTurn[m].batch # <<>>)
    /\ asPending = AsNoCall \/ asPending.of \in AsMsgs
    /\ \A r \in asRows : r.id \in 1..(asNextId - 1) /\ r.of \subseteq 1..(asNextId - 1)
    /\ asReview \subseteq AsMsgs

\* approvals.take hands a call to one message only: a tool that needs approval
\* runs at most once per call, on the word of a later message that may give it,
\* however many answers and other calls of the chat overlap.
AsApprovedOnce ==
    \A r \in asRan : AsNeedsApproval(r.of, r.tool) =>
        /\ r.by # r.of /\ AsText[r.by] = "yes" /\ AsCanApprove(r.by, r)
        /\ \A q \in asRan : q.tool = r.tool /\ q.of = r.of => q = r

\* The SSH analysis boundary: once a turn has seen remote output, none of its
\* calls runs a tool outside the analysis set, not later in the same batch and
\* not through an approval given by another message.
AsBoundary == \A r \in asRan : r.tainted => r.tool \in AsAnalysis

\* HandleMessage bounds its model calls although an overflow retries without
\* counting an iteration: at most two calls per iteration.
AsCallsBounded == \A m \in AsMsgs : asTurn[m].calls <= 2 * AsMaxIter

\* The model's text ends a turn only when what the message asked for, a forced
\* tool or an MCP invocation, succeeded in a call of that very turn.
AsDoneAsAsked ==
    \A m \in AsMsgs : asTurn[m].out = "text" =>
        /\ m \in AsMcpAsked =>
              \E r \in asRan : r.of = m /\ r.by = m /\ r.good /\ r.tool \in AsMcp
        /\ AsForced[m] # "none" =>
              \E r \in asRan : r.of = m /\ r.by = m /\ r.good /\ r.tool = AsForced[m]

\* Compression loses no message: each one ever saved is still stored, or one of
\* the stored summaries was made from it, also when turns compress histories
\* they read before another turn replaced them.
AsNothingForgotten == \A k \in 1..(asNextId - 1) : \E r \in asRows : k \in r.of

\* Every message that was taken up is answered or fails: no turn loops
\* between overflow, compression and replanning.
AsAllAnswered == \A m \in AsMsgs : asTurn[m].pc # "new" ~> asTurn[m].pc = "done"

\* Neither a second answer nor another turn's approval runs what it may not.
AsSafe == AsApprovedOnce /\ AsBoundary

\* A turn is short, and done only when what was asked is.
AsBounded == AsCallsBounded /\ AsDoneAsAsked
=============================================================================
