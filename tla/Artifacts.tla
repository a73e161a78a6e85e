------------------------------ MODULE Artifacts ------------------------------
(***************************************************************************)
(* The store of downloaded artifacts: a file and a row for each, quota     *)
(* reservations in memory, and the sweeper that reconciles the three.      *)
(* Code: internal/httpartifact; the rows: storage/sqlite/httpartifact.go.  *)
(*                                                                         *)
(* One owner; a download reserves, and if it is committed occupies, one    *)
(* unit of the quota.  Begin is atomic: a row without a file means nothing *)
(* to the sweeper.  The steps of Commit and of Sweep interleave.           *)
(***************************************************************************)
EXTENDS Naturals, FiniteSets

CONSTANTS
    ArIds,      \* downloads
    ArQuota,    \* QuotaUser, in downloads; QuotaGlobal is no less
    ArMaxFaults \* bound: crashes, failed writes and queries

ASSUME ArAssumption == ArQuota \in Nat /\ ArMaxFaults \in Nat /\ IsFiniteSet(ArIds)

VARIABLES
    arRow,      \* the rows: state, the boot of the lease, past lease or TTL
    arFile,     \* the files: "none", "part", "final"
    arWriter,   \* the writers: "idle", "open", "renamed", "done", "failed"
    arReserved, \* reservedByUser of the owner
    arBoot,     \* bootGen
    arSweep,    \* Sweep: where it is, the rows it knows, the entries left
    arFaults,
    arBlind     \* history: partial files judged while the rows could not be read

arVars == <<arRow, arFile, arWriter, arReserved, arBoot, arSweep, arFaults, arBlind>>

ArNoRow == [state |-> "none", boot |-> 0, leased |-> FALSE, old |-> FALSE]
ArNoRows == [f \in ArIds |-> ArNoRow]
ArIdle == [pc |-> "idle", known |-> ArNoRows, left |-> {}]

ArInit ==
    /\ arRow = ArNoRows
    /\ arFile = [f \in ArIds |-> "none"] /\ arWriter = [f \in ArIds |-> "idle"]
    /\ arReserved = 0 /\ arBoot = 1
    /\ arSweep = ArIdle /\ arFaults = 0 /\ arBlind = {}

ArFault == arFaults < ArMaxFaults /\ arFaults' = arFaults + 1

\* SumHTTPArtifactBytes; the size of a partial row is still zero.
ArUsed == Cardinality({f \in ArIds : arRow[f].state = "ready"})

\* release: a reservation that the sweep reset meanwhile is not there to return.
ArReleased == IF arReserved > 0 THEN arReserved - 1 ELSE 0

-----------------------------------------------------------------------------
(* Writers.                                                                *)

\* reserve
ArReserve == ArUsed + arReserved + 1 <= ArQuota /\ arReserved' = arReserved + 1

ArBegin(f) ==
    /\ arWriter[f] = "idle" /\ ArReserve
    /\ arRow' = [arRow EXCEPT ![f] = [state |-> "partial", boot |-> arBoot,
                                      leased |-> TRUE, old |-> FALSE]]
    /\ arFile' = [arFile EXCEPT ![f] = "part"]
    /\ arWriter' = [arWriter EXCEPT ![f] = "open"]
    /\ UNCHANGED <<arBoot, arSweep, arFaults, arBlind>>

\* Commit, up to the rename; a file that was swept away fails it.
ArRename(f) ==
    /\ arWriter[f] = "open"
    /\ \/ /\ arFile[f] = "part"
          /\ arFile' = [arFile EXCEPT ![f] = "final"]
          /\ arWriter' = [arWriter EXCEPT ![f] = "renamed"]
          /\ UNCHANGED <<arRow, arReserved>>
       \/ /\ arFile[f] # "part"
          /\ arRow' = [arRow EXCEPT ![f] = ArNoRow]
          /\ arReserved' = ArReleased
          /\ arWriter' = [arWriter EXCEPT ![f] = "failed"]
          /\ UNCHANGED arFile
    /\ UNCHANGED <<arBoot, arSweep, arFaults, arBlind>>

\* The close before the rename fails: Commit returns without a clean-up.
ArCloseFails(f) ==
    /\ arWriter[f] = "open" /\ ArFault
    /\ arWriter' = [arWriter EXCEPT ![f] = "failed"]
    /\ UNCHANGED <<arRow, arFile, arReserved, arBoot, arSweep, arBlind>>

\* An update of a row that is gone changes nothing, and is no error.
ArUpdated(f, r) == IF arRow[f] = ArNoRow THEN arRow ELSE [arRow EXCEPT ![f] = r]

\* The rest of Commit: the row becomes ready, or cannot be written.
ArReady(f) ==
    /\ arWriter[f] = "renamed"
    /\ arReserved' = ArReleased
    /\ \/ /\ arRow' = ArUpdated(f, [arRow[f] EXCEPT !.state = "ready", !.boot = 0, !.leased = FALSE])
          /\ arWriter' = [arWriter EXCEPT ![f] = "done"]
          /\ UNCHANGED <<arFile, arFaults>>
       \/ /\ ArFault
          /\ arFile' = [arFile EXCEPT ![f] = "none"]
          /\ arWriter' = [arWriter EXCEPT ![f] = "failed"]
          /\ UNCHANGED arRow
    /\ UNCHANGED <<arBoot, arSweep, arBlind>>

ArAbort(f) ==
    /\ arWriter[f] = "open"
    /\ arFile' = [arFile EXCEPT ![f] = IF @ = "part" THEN "none" ELSE @]
    /\ arRow' = [arRow EXCEPT ![f] = ArNoRow]
    /\ arReserved' = ArReleased
    /\ arWriter' = [arWriter EXCEPT ![f] = "failed"]
    /\ UNCHANGED <<arBoot, arSweep, arFaults, arBlind>>

-----------------------------------------------------------------------------
(* Owners.                                                                 *)

\* Open of a ready row whose file is missing.
ArOpen(f) ==
    /\ arRow[f].state = "ready" /\ ~arRow[f].old /\ arFile[f] # "final"
    /\ arRow' = [arRow EXCEPT ![f].state = "unavailable"]
    /\ UNCHANGED <<arFile, arWriter, arReserved, arBoot, arSweep, arFaults, arBlind>>

\* Delete, in any state of the row.
ArDelete(f) ==
    /\ arRow[f] # ArNoRow /\ ~arRow[f].old
    /\ arRow' = [arRow EXCEPT ![f] = ArNoRow]
    /\ arFile' = [arFile EXCEPT ![f] = IF @ = "final" THEN "none" ELSE @]
    /\ UNCHANGED <<arWriter, arReserved, arBoot, arSweep, arFaults, arBlind>>

-----------------------------------------------------------------------------
(* Sweep.                                                                  *)

\* Rows past their TTL go, with their files.
ArSweepExpired ==
    /\ arSweep.pc = "idle"
    /\ LET old == {f \in ArIds : arRow[f] # ArNoRow /\ arRow[f].old} IN
       /\ arRow' = [f \in ArIds |-> IF f \in old THEN ArNoRow ELSE arRow[f]]
       /\ arFile' = [f \in ArIds |-> IF f \in old /\ arFile[f] = "final" THEN "none" ELSE arFile[f]]
    /\ arSweep' = [arSweep EXCEPT !.pc = "list"]
    /\ UNCHANGED <<arWriter, arReserved, arBoot, arFaults, arBlind>>

\* knownStorageNames; a query that fails knows nothing.
ArSweepList ==
    /\ arSweep.pc = "list"
    /\ \/ arSweep' = [arSweep EXCEPT !.pc = "dir", !.known = arRow] /\ UNCHANGED arFaults
       \/ arSweep' = [arSweep EXCEPT !.pc = "dir", !.known = ArNoRows] /\ ArFault
    /\ UNCHANGED <<arRow, arFile, arWriter, arReserved, arBoot, arBlind>>

\* ReadDir
ArSweepDir ==
    /\ arSweep.pc = "dir"
    /\ arSweep' = [arSweep EXCEPT !.pc = "files",
                      !.left = {<<f, arFile[f]>> : f \in {g \in ArIds : arFile[g] # "none"}}]
    /\ UNCHANGED <<arRow, arFile, arWriter, arReserved, arBoot, arFaults, arBlind>>

\* leaseLive reads the rows anew.
ArLeaseLive(f) == arRow[f] # ArNoRow /\ arRow[f].boot = arBoot /\ arRow[f].leased

\* Mutant: the lease is the one that was listed.
ArGoneStale(f, name) ==
    LET known == arSweep.known[f]
    IN IF name = "part" THEN ~(known.boot = arBoot /\ known.leased)
       ELSE known.state \notin {"ready", "unavailable"}

\* The sweep's verdict on a file.
ArGone(f, name) == IF name = "part" THEN ~ArLeaseLive(f)
                   ELSE arSweep.known[f].state \notin {"ready", "unavailable"}

\* A partial file without a lease, or whose lease cannot be read, is removed
\* (the row is not: the sweep deletes by the file's name, not by the row's
\* id), and so is a committed one that no ready row was known for, with its
\* row.
ArSweepFile(f, name) ==
    /\ arSweep.pc = "files" /\ <<f, name>> \in arSweep.left
    /\ arSweep' = [arSweep EXCEPT !.left = @ \ {<<f, name>>}]
    /\ LET gone    == ArGone(f, name)
           removed == [arFile EXCEPT ![f] = IF @ = name THEN "none" ELSE @]
       IN \/ /\ arFile' = IF gone THEN removed ELSE arFile
             /\ arRow' = IF gone /\ name = "final" /\ arSweep.known[f] # ArNoRow
                         THEN [arRow EXCEPT ![f] = ArNoRow] ELSE arRow
             /\ UNCHANGED <<arFaults, arBlind>>
          \/ /\ name = "part" /\ ArFault
             /\ arFile' = removed
             /\ arBlind' = arBlind \union {f}
             /\ UNCHANGED arRow
    /\ UNCHANGED <<arWriter, arReserved, arBoot>>

\* Known ready rows without a file become unavailable; then the reservations
\* are reset.
ArSweepEnd ==
    /\ arSweep.pc = "files" /\ arSweep.left = {}
    /\ LET k(f) == arSweep.known[f] IN
       arRow' = [f \in ArIds |->
                    IF k(f).state = "ready" /\ arFile[f] # "final" /\ arRow[f] # ArNoRow
                    THEN [k(f) EXCEPT !.state = "unavailable", !.old = arRow[f].old]
                    ELSE arRow[f]]
    /\ arReserved' = 0
    /\ arSweep' = ArIdle
    /\ UNCHANGED <<arFile, arWriter, arBoot, arFaults, arBlind>>

ArSweeping == \/ ArSweepExpired \/ ArSweepList \/ ArSweepDir \/ ArSweepEnd
              \/ \E e \in arSweep.left : ArSweepFile(e[1], e[2])

-----------------------------------------------------------------------------
(* Time and the process.                                                   *)

\* The lease of a row passes, which nothing renews, or its TTL.
ArLeaseEnds(f) ==
    /\ arRow[f].leased
    /\ arRow' = [arRow EXCEPT ![f].leased = FALSE]
    /\ UNCHANGED <<arFile, arWriter, arReserved, arBoot, arSweep, arFaults, arBlind>>

ArExpires(f) ==
    /\ arRow[f] # ArNoRow /\ ~arRow[f].old
    /\ arRow' = [arRow EXCEPT ![f].old = TRUE]
    /\ UNCHANGED <<arFile, arWriter, arReserved, arBoot, arSweep, arFaults, arBlind>>

\* The process dies and comes back with a new generation.
ArRestart ==
    /\ ArFault
    /\ arBoot' = arBoot + 1 /\ arReserved' = 0 /\ arSweep' = ArIdle
    /\ arWriter' = [f \in ArIds |-> IF arWriter[f] \in {"open", "renamed"} THEN "failed"
                                    ELSE arWriter[f]]
    /\ UNCHANGED <<arRow, arFile, arBlind>>

ArNext ==
    \/ \E f \in ArIds :
          \/ ArBegin(f) \/ ArRename(f) \/ ArCloseFails(f) \/ ArReady(f) \/ ArAbort(f)
          \/ ArOpen(f) \/ ArDelete(f) \/ ArLeaseEnds(f) \/ ArExpires(f)
    \/ ArSweeping \/ ArRestart

ArSpec == ArInit /\ [][ArNext]_arVars

-----------------------------------------------------------------------------
(* Properties.                                                             *)

ArRowType(r) ==
    /\ r.state \in {"none", "partial", "ready", "unavailable"}
    /\ r.boot \in Nat /\ r.leased \in BOOLEAN /\ r.old \in BOOLEAN

\* Rows, files and writers have their types.
ArTypeOK ==
    /\ \A f \in ArIds : /\ ArRowType(arRow[f]) /\ ArRowType(arSweep.known[f])
                        /\ arFile[f] \in {"none", "part", "final"}
                        /\ arWriter[f] \in {"idle", "open", "renamed", "done", "failed"}
    /\ arReserved \in 0 .. Cardinality(ArIds)
    /\ arSweep.pc \in {"idle", "list", "dir", "files"}

\* The sweeper never takes the file of a download in progress, whatever it
\* saw of the store before: while the lease lasts, the file is there, unless
\* the store could not be read.
ArLivePartKept ==
    \A f \in ArIds : arWriter[f] = "open" /\ ArLeaseLive(f) => arFile[f] = "part" \/ f \in arBlind

\* What the quota leaves is never exceeded.  (Begin: "The reservation is held
\* until Commit or Abort.")
ArQuotaKept == ArUsed <= ArQuota

\* What a dead process left half written goes away.
ArLeftoversGo ==
    \A f \in ArIds : arFile[f] = "part" /\ arWriter[f] = "failed" ~> arFile[f] # "part"
=============================================================================
