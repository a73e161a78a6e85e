----------------------------- MODULE ChatImport -----------------------------
(***************************************************************************)
(* The import of a chat export: uploads and cancellations over the         *)
(* dashboard, the staged file they share, the run's row, the task behind   *)
(* it and its handler, which resumes after a crash.                        *)
(* Code: internal/dashboard/import_handlers.go,                            *)
(* internal/scheduler/handlers/import_claude_export.go and                 *)
(* import_reindex.go, internal/storage/sqlite/imported.go.                 *)
(*                                                                         *)
(* One export, whose content names its run, its file and its task.  It has *)
(* a memory and a message of two chunks.  The import worker has one slot.  *)
(* The task queue is a module of its own (TaskQueue); here a task is       *)
(* pending, running or over.                                               *)
(***************************************************************************)
EXTENDS Naturals

CONSTANTS
    ImUploads,   \* upload requests of this export
    ImMaxFaults  \* bound on crashes and failing statements

ImJobs == {"import", "reindex"}

VARIABLES
    imUp,      \* where each upload request is
    imCancel,  \* the cancel request
    imAsk,     \* the reindex request
    imZip,     \* the staged file exists
    imRow,     \* import_runs: the status of each job's run
    imTask,    \* the task of each job
    imJob,     \* the handler at work and its position
    imFacts,   \* copies of the imported memory
    imKeyed,   \* its imported_fact_keys row
    imMsg,     \* the message is archived
    imVec,     \* its chunks with a vector
    imFaults,  \* crashes and failures so far
    imBroken   \* history: a row that says running was left without its task

imVars == <<imUp, imCancel, imAsk, imZip, imRow, imTask, imJob, imFacts, imKeyed, imMsg,
            imVec, imFaults, imBroken>>

ImIdle == [job |-> "none", pc |-> "idle"]

ImInit ==
    /\ imUp = [u \in ImUploads |-> "new"] /\ imCancel = "new" /\ imAsk = "new"
    /\ imZip = FALSE
    /\ imRow = [j \in ImJobs |-> "none"] /\ imTask = [j \in ImJobs |-> "none"]
    /\ imJob = ImIdle
    /\ imFacts = 0 /\ imKeyed = FALSE /\ imMsg = FALSE /\ imVec = 0
    /\ imFaults = 0 /\ imBroken = {}

ImActive(j) == imTask[j] \in {"pending", "running"}

ImFault == imFaults < ImMaxFaults /\ imFaults' = imFaults + 1

\* UpsertImportRun; where it fails, that is only logged.
ImWrites(j, status) ==
    \/ imRow' = [imRow EXCEPT ![j] = status] /\ UNCHANGED imFaults
    \/ UNCHANGED imRow /\ ImFault

ImData == <<imFacts, imKeyed, imMsg, imVec>>

-----------------------------------------------------------------------------
(* Requests.                                                               *)

\* stageUpload: the rename puts the file at its name, whoever staged it before.
ImStage(u) ==
    /\ imUp[u] = "new"
    /\ imUp' = [imUp EXCEPT ![u] = "staged"] /\ imZip' = TRUE
    /\ UNCHANGED <<imCancel, imAsk, imRow, imTask, imJob, ImData, imFaults, imBroken>>

\* GetImportRun decides: a row that cannot be read counts as none.
ImLookup(u) ==
    /\ imUp[u] = "staged"
    /\ \/ /\ imUp' = [imUp EXCEPT ![u] = CASE imRow["import"] = "running" -> "answered"
                                           [] imRow["import"] = "done"    -> "discard"
                                           [] OTHER                       -> "record"]
          /\ UNCHANGED imFaults
       \/ imUp' = [imUp EXCEPT ![u] = "record"] /\ ImFault
    /\ UNCHANGED <<imCancel, imAsk, imZip, imRow, imTask, imJob, ImData, imBroken>>

\* discardStaged
ImDiscard(u) ==
    /\ imUp[u] = "discard"
    /\ imUp' = [imUp EXCEPT ![u] = "answered"] /\ imZip' = FALSE
    /\ UNCHANGED <<imCancel, imAsk, imRow, imTask, imJob, ImData, imFaults, imBroken>>

\* The row is written before the task.
ImRecord(u) ==
    /\ imUp[u] = "record"
    /\ imUp' = [imUp EXCEPT ![u] = "enqueue"]
    /\ ImWrites("import", "running")
    /\ UNCHANGED <<imCancel, imAsk, imZip, imTask, imJob, ImData, imBroken>>

\* CreateTaskIfNotExists: created, or there already, or failed.  A task that
\* is there but whose handler has reported will not report again.
ImEnqueue(u) ==
    /\ imUp[u] = "enqueue"
    /\ imUp' = [imUp EXCEPT ![u] = "answered"]
    /\ \/ /\ ~ImActive("import") /\ imTask' = [imTask EXCEPT !["import"] = "pending"]
          /\ UNCHANGED <<imFaults, imBroken>>
       \/ /\ ImActive("import") /\ UNCHANGED <<imTask, imFaults>>
          /\ imBroken' = IF imJob = [job |-> "import", pc |-> "over"]
                         THEN imBroken \union {"import"} ELSE imBroken
       \/ ImFault /\ imBroken' = imBroken \union {"import"} /\ UNCHANGED imTask
    /\ UNCHANGED <<imCancel, imAsk, imZip, imRow, imJob, ImData>>

\* handleImportCancel: the task if it is still pending, then the row.
ImCancelTask ==
    /\ imCancel = "new" /\ imRow["import"] # "none"
    /\ IF imTask["import"] = "pending"
       THEN imCancel' = "row" /\ imTask' = [imTask EXCEPT !["import"] = "over"]
       ELSE imCancel' = "answered" /\ UNCHANGED imTask
    /\ UNCHANGED <<imUp, imAsk, imZip, imRow, imJob, ImData, imFaults, imBroken>>

ImCancelRow ==
    /\ imCancel = "row"
    /\ imCancel' = "answered" /\ ImWrites("import", "canceled")
    /\ imBroken' = IF imFaults' = imFaults THEN imBroken ELSE imBroken \union {"import"}
    /\ UNCHANGED <<imUp, imAsk, imZip, imTask, imJob, ImData>>

\* handleImportReindex: the task, then the row.
ImReindexTask ==
    /\ imAsk = "new" /\ ~ImActive("reindex")
    /\ imAsk' = "row" /\ imTask' = [imTask EXCEPT !["reindex"] = "pending"]
    /\ UNCHANGED <<imUp, imCancel, imZip, imRow, imJob, ImData, imFaults, imBroken>>

\* The row, which the handler may have finished with by now.
ImReindexRow ==
    /\ imAsk = "row"
    /\ imAsk' = "answered" /\ ImWrites("reindex", "running")
    /\ imBroken' = IF imTask["reindex"] = "over" \/ imJob = [job |-> "reindex", pc |-> "over"]
                   THEN imBroken \union {"reindex"} ELSE imBroken
    /\ UNCHANGED <<imUp, imCancel, imZip, imTask, imJob, ImData>>

-----------------------------------------------------------------------------
(* The handler.  It reports the run's end before the worker ends the task. *)

ImAt(pc) == imJob.pc = pc
ImGoes(pc) == imJob' = [imJob EXCEPT !.pc = pc]
ImRequests == <<imUp, imCancel, imAsk>>

ImClaim(j) ==
    /\ imJob = ImIdle /\ imTask[j] = "pending"
    /\ imTask' = [imTask EXCEPT ![j] = "running"]
    /\ imJob' = [job |-> j, pc |-> "begin"]
    /\ UNCHANGED <<ImRequests, imZip, imRow, ImData, imFaults, imBroken>>

\* writeRun "running", then the zip is opened.
ImBegin ==
    /\ ImAt("begin")
    /\ ImWrites(imJob.job, "running")
    /\ ImGoes(IF imJob.job = "reindex" THEN "embed" ELSE "open")
    /\ UNCHANGED <<ImRequests, imZip, imTask, ImData, imBroken>>

ImOpen ==
    /\ ImAt("open")
    /\ ImGoes(IF imZip THEN "fact" ELSE "fail")
    /\ UNCHANGED <<ImRequests, imZip, imRow, imTask, ImData, imFaults, imBroken>>

\* importMemories: the fact, unless its key is known, and then its key.
ImFact ==
    /\ ImAt("fact")
    /\ IF imKeyed THEN ImGoes("conv") /\ UNCHANGED imFacts
       ELSE ImGoes("key") /\ imFacts' = imFacts + 1
    /\ UNCHANGED <<ImRequests, imZip, imRow, imTask, imKeyed, imMsg, imVec, imFaults, imBroken>>

ImKey ==
    /\ ImAt("key")
    /\ ImGoes("conv") /\ imKeyed' = TRUE
    /\ UNCHANGED <<ImRequests, imZip, imRow, imTask, imFacts, imMsg, imVec, imFaults, imBroken>>

\* importConversations: an insert that ignores what is there.
ImConversations ==
    /\ ImAt("conv")
    /\ ImGoes("embed") /\ imMsg' = TRUE
    /\ UNCHANGED <<ImRequests, imZip, imRow, imTask, imFacts, imKeyed, imVec, imFaults, imBroken>>

\* embedPendingMessages takes the messages without any vector and saves one
\* chunk after the other, or a placeholder for a message that cannot be embedded;
\* after the batch its progress goes into the row.
ImEmbed ==
    /\ ImAt("embed")
    /\ IF imMsg /\ imVec = 0
       THEN \/ ImGoes("chunk") /\ imVec' = 1 /\ UNCHANGED <<imRow, imFaults>>
            \/ UNCHANGED imJob /\ imVec' = 2 /\ ImWrites(imJob.job, "running")
       ELSE /\ ImGoes(IF imJob.job = "import" THEN "remove" ELSE "report")
            /\ UNCHANGED <<imVec, imRow, imFaults>>
    /\ UNCHANGED <<ImRequests, imZip, imTask, imFacts, imKeyed, imMsg, imBroken>>

ImChunk ==
    /\ ImAt("chunk")
    /\ ImGoes("embed") /\ imVec' = 2 /\ ImWrites(imJob.job, "running")
    /\ UNCHANGED <<ImRequests, imZip, imTask, imFacts, imKeyed, imMsg, imBroken>>

ImRemove ==
    /\ ImAt("remove")
    /\ ImGoes("report") /\ imZip' = FALSE
    /\ UNCHANGED <<ImRequests, imRow, imTask, ImData, imFaults, imBroken>>

\* A statement of the handler fails, and with it the run.
ImError ==
    /\ imJob.pc \in {"fact", "key", "conv", "embed", "chunk"}
    /\ ImFault /\ ImGoes("fail")
    /\ UNCHANGED <<ImRequests, imZip, imRow, imTask, ImData, imBroken>>

\* writeRun with the final status; a failure is only logged.
ImReport ==
    /\ imJob.pc \in {"report", "fail"}
    /\ ImGoes("over")
    /\ ImWrites(imJob.job, IF ImAt("fail") THEN "failed" ELSE "done")
    /\ imBroken' = IF imFaults' = imFaults THEN imBroken ELSE imBroken \union {imJob.job}
    /\ UNCHANGED <<ImRequests, imZip, imTask, ImData>>

\* CompleteTask or FailTask: the task had its one attempt.
ImEnd ==
    /\ ImAt("over")
    /\ imTask' = [imTask EXCEPT ![imJob.job] = "over"] /\ imJob' = ImIdle
    /\ UNCHANGED <<ImRequests, imZip, imRow, ImData, imFaults, imBroken>>

-----------------------------------------------------------------------------
\* Requests that a crash leaves half done, by the job whose row is then wrong.
ImCut == (IF imCancel = "row" \/ \E u \in ImUploads : imUp[u] = "enqueue"
          THEN {"import"} ELSE {})

\* Mutant: the sweep looks only at tasks that are still pending.
ImSweptEager == imZip /\ imTask["import"] = "pending"

\* SweepStagedImports keeps the file of an active task.
ImSwept == imZip /\ ImActive("import")

\* The process dies and starts again: requests and handler are gone, the
\* staged files are swept before the worker starts.
ImCrash ==
    /\ ImFault
    /\ imUp' = [u \in ImUploads |-> IF imUp[u] = "new" THEN "new" ELSE "answered"]
    /\ imCancel' = IF imCancel = "new" THEN "new" ELSE "answered"
    /\ imAsk' = IF imAsk = "new" THEN "new" ELSE "answered"
    /\ imJob' = ImIdle /\ imZip' = ImSwept
    /\ imBroken' = imBroken \union ImCut
    /\ UNCHANGED <<imRow, imTask, ImData>>

\* CleanupStaleTasks puts back a task whose handler died.
ImReclaim(j) ==
    /\ imTask[j] = "running" /\ imJob.job # j
    /\ imTask' = [imTask EXCEPT ![j] = "pending"]
    /\ UNCHANGED <<ImRequests, imZip, imRow, imJob, ImData, imFaults, imBroken>>

ImRequest(u) == ImStage(u) \/ ImLookup(u) \/ ImDiscard(u) \/ ImRecord(u) \/ ImEnqueue(u)

ImHandle ==
    \/ ImBegin \/ ImOpen \/ ImFact \/ ImKey \/ ImConversations \/ ImEmbed \/ ImChunk
    \/ ImRemove \/ ImReport \/ ImEnd \/ \E j \in ImJobs : ImClaim(j)

ImNext ==
    \/ \E u \in ImUploads : ImRequest(u)
    \/ ImCancelTask \/ ImCancelRow \/ ImReindexTask \/ ImReindexRow
    \/ ImHandle \/ ImError \/ ImCrash
    \/ \E j \in ImJobs : ImReclaim(j)

-----------------------------------------------------------------------------
ImTypeOK ==
    /\ imZip \in BOOLEAN /\ imKeyed \in BOOLEAN /\ imMsg \in BOOLEAN /\ imVec \in 0 .. 2
    /\ \A j \in ImJobs : /\ imRow[j] \in {"none", "running", "done", "failed", "canceled"}
                       /\ imTask[j] \in {"none", "pending", "running", "over"}
    /\ imBroken \subseteq ImJobs

(* A run that is reported as done has archived everything: its memory with *)
(* the key that keeps it from being imported again, its message, and a     *)
(* vector, however often it was interrupted, resumed or uploaded again     *)
(* (Handle).                                                               *)
ImDoneMeansDone ==
    imRow["import"] = "done" => imKeyed /\ imMsg /\ imVec > 0

(* A memory is saved twice only when a crash or an error came between the  *)
(* fact and its key (importMemories).                                      *)
ImFactsOnce == imFacts <= 1 + imFaults

(* The staged file is not taken from under a task that has yet to read it: *)
(* not by another upload of the same content, by a cancellation or by the  *)
(* sweep after a crash (discardStaged, SweepStagedImports).                *)
ImZipKept == ImActive("import") => imZip \/ imMsg

(* What an import promises over interruptions and repeated uploads: it is  *)
(* complete when it says so, and it can be resumed until then.             *)
ImSafe == ImDoneMeansDone /\ ImFactsOnce /\ ImZipKept

(* A run that says running ends, unless its row was written where no task  *)
(* will follow: by a request that died or failed between row and task,     *)
(* after the handler's own report, or instead of a report that failed      *)
(* (handleImportClaudeExport, handleImportReindex, writeRun).              *)
ImSettles ==
    \A j \in ImJobs : imRow[j] = "running" ~> (imRow[j] # "running" \/ j \in imBroken)
=============================================================================
