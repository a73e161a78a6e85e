---------------------------- MODULE Credentials ----------------------------
(***************************************************************************)
(* One secret of a skill: its row in the credentials table, its row among  *)
(* the config overrides, the cache each store keeps of its table, and the  *)
(* value the skill was told.  Requests change either row; a start-up loads *)
(* both, moves the override into the credentials and tells the skill.      *)
(* Code: internal/credential/store.go, internal/config/store.go,           *)
(* internal/storage/sqlite/credential_store.go, the credential and config  *)
(* handlers of internal/dashboard, and the order of the steps in           *)
(* cmd/iulita/main.go.                                                     *)
(*                                                                         *)
(* Neither store holds its lock over a statement, so that requests run     *)
(* between one's row and its cache.  No value comes from the environment,  *)
(* the keyring or the base configuration; encryption is not shown.         *)
(***************************************************************************)
EXTENDS Naturals, FiniteSets

CONSTANTS
    CrOps,       \* requests
    CrOld,       \* the override's value before anything runs
    CrMaxFaults  \* bound on crashes and failing statements

CrKinds == {"set", "rotate", "delete", "setOverride", "deleteOverride"}

\* A request stores a value of its own.
CrValues == CrOps \union {CrOld}

ASSUME CrAssumption == "none" \notin CrValues /\ CrMaxFaults \in Nat

CrNone == [id |-> 0, val |-> "none"]

VARIABLES
    crRow,    \* the credential in the table ...
    crCache,  \* ... and in the store's cache
    crIds,    \* ids handed out
    crOver,   \* the override in its table ...
    crOvers,  \* ... and in that store's cache
    crSkill,  \* what the skill was told last
    crBoot,   \* where the start-up is
    crOp,     \* the requests
    crGone,   \* history: a request deleted the secret, or its override
    crRaced,  \* history: since the start, requests overlapped
    crShade,  \* history: the skill was told an override that a credential hides
    crFaults

crVars == <<crRow, crCache, crIds, crOver, crOvers, crSkill, crBoot, crOp, crGone, crRaced,
            crShade, crFaults>>

CrNew == [kind |-> "none", pc |-> "new", seen |-> 0, read |-> "none"]

CrInit ==
    /\ crRow = CrNone /\ crCache = CrNone /\ crIds = 0
    /\ crOver = CrOld /\ crOvers = "none"
    /\ crSkill = "none" /\ crBoot = "down"
    /\ crOp = [o \in CrOps |-> CrNew]
    /\ crGone = FALSE /\ crRaced = FALSE /\ crShade = FALSE /\ crFaults = 0

CrFault == crFaults < CrMaxFaults /\ crFaults' = crFaults + 1

CrTables == <<crRow, crIds, crOver>>
CrCaches == <<crCache, crOvers>>
CrPast   == <<crGone, crRaced, crShade>>

\* GetEffective: the credential, then the override.
CrEffective == IF crCache.val # "none" THEN crCache.val ELSE crOvers

-----------------------------------------------------------------------------
(* Start-up.  There is no publisher until the migration is over.           *)

\* LoadOverrides and LoadAll; one that fails ends the process.
CrLoad ==
    /\ crBoot = "down"
    /\ crCache' = crRow /\ crOvers' = crOver /\ crBoot' = "migrate"
    /\ UNCHANGED <<CrTables, crSkill, crOp, CrPast, crFaults>>

\* Mutant: the override goes first.
CrMigrateLate ==
    /\ crBoot = "migrate"
    /\ crBoot' = "moved"
    /\ IF crCache.val = "none" /\ crOvers # "none" THEN crOver' = "none" ELSE UNCHANGED crOver
    /\ UNCHANGED <<crRow, crIds, CrCaches, crSkill, crOp, CrPast, crFaults>>

\* MigrateFromConfigOverrides: a key that has a credential is left alone.
CrMigrate ==
    /\ crBoot = "migrate"
    /\ IF crCache.val = "none" /\ crOvers # "none"
       THEN \/ /\ crRow' = [id |-> crIds + 1, val |-> crOvers] /\ crIds' = crIds + 1
               /\ crBoot' = "moved" /\ UNCHANGED crFaults
            \/ CrFault /\ crBoot' = "replay" /\ UNCHANGED <<crRow, crIds>>
       ELSE crBoot' = "replay" /\ UNCHANGED <<crRow, crIds, crFaults>>
    /\ UNCHANGED <<crOver, CrCaches, crSkill, crOp, CrPast>>

CrMoved ==
    /\ crBoot = "moved"
    /\ crCache' = crRow /\ crBoot' = "drop"
    /\ UNCHANGED <<CrTables, crOvers, crSkill, crOp, CrPast, crFaults>>

\* The override goes last; where that fails, it stays and is hidden.
CrDrop ==
    /\ crBoot = "drop"
    /\ crBoot' = "replay"
    /\ \/ crOver' = "none" /\ crOvers' = "none" /\ UNCHANGED crFaults
       \/ CrFault /\ UNCHANGED <<crOver, crOvers>>
    /\ UNCHANGED <<crRow, crIds, crCache, crSkill, crOp, CrPast>>

\* ReplayOverrides, then ReplayCredentials: what is told last stands.
CrReplay ==
    /\ crBoot = "replay"
    /\ crBoot' = "up" /\ crSkill' = CrEffective
    /\ UNCHANGED <<CrTables, CrCaches, crOp, CrPast, crFaults>>

-----------------------------------------------------------------------------
(* Requests.                                                               *)

CrBusy == {o \in CrOps : crOp[o].pc \notin {"new", "done"}}

CrGoes(o, pc) == crOp' = [crOp EXCEPT ![o].pc = pc]

\* The request comes in: Set looks for the name in the cache, Rotate and
\* Delete name a row.
CrBegin(o, kind) ==
    /\ crBoot = "up" /\ crOp[o].pc = "new"
    /\ kind \in {"rotate", "delete"} => crRow.id # 0
    /\ crOp' = [crOp EXCEPT ![o] =
         [@ EXCEPT !.kind = kind, !.pc = "write",
                   !.seen = IF kind = "delete" THEN crRow.id ELSE crCache.id]]
    /\ crRaced' = (crRaced \/ CrBusy # {})
    /\ UNCHANGED <<CrTables, CrCaches, crSkill, crBoot, crGone, crShade, crFaults>>

\* Set, and Rotate's Set: UpdateCredential by id, which matches nothing when
\* the row is gone, or SaveCredential, which the unique index refuses when
\* there is a row.
CrWrite(o) ==
    /\ crOp[o].pc = "write" /\ crOp[o].kind \in {"set", "rotate"}
    /\ \/ /\ crOp[o].seen # 0
          /\ crRow' = IF crRow.id = crOp[o].seen THEN [crRow EXCEPT !.val = o] ELSE crRow
          /\ CrGoes(o, "cache") /\ UNCHANGED <<crIds, crFaults>>
       \/ /\ crOp[o].seen = 0 /\ crRow.id = 0
          /\ crRow' = [id |-> crIds + 1, val |-> o] /\ crIds' = crIds + 1
          /\ crOp' = [crOp EXCEPT ![o] = [@ EXCEPT !.pc = "cache", !.seen = crIds + 1]]
          /\ UNCHANGED crFaults
       \/ /\ crOp[o].seen = 0 /\ crRow.id # 0
          /\ CrGoes(o, "done") /\ UNCHANGED <<crRow, crIds, crFaults>>
       \/ CrFault /\ CrGoes(o, "done") /\ UNCHANGED <<crRow, crIds>>
    /\ UNCHANGED <<crOver, CrCaches, crSkill, crBoot, CrPast>>

\* DeleteCredential, SaveConfigOverride, DeleteConfigOverride.
CrChange(o) ==
    /\ crOp[o].pc = "write" /\ crOp[o].kind \in {"delete", "setOverride", "deleteOverride"}
    /\ \/ /\ CrGoes(o, "cache")
          /\ crRow' = IF crOp[o].kind = "delete" /\ crRow.id = crOp[o].seen THEN CrNone ELSE crRow
          /\ crOver' = CASE crOp[o].kind = "setOverride"    -> o
                         [] crOp[o].kind = "deleteOverride" -> "none"
                         [] OTHER                           -> crOver
          /\ crGone' = (crGone \/ crOp[o].kind # "setOverride")
          /\ UNCHANGED crFaults
       \/ CrFault /\ CrGoes(o, "done") /\ UNCHANGED <<crRow, crOver, crGone>>
    /\ UNCHANGED <<crIds, CrCaches, crSkill, crBoot, crRaced, crShade>>

\* Mutant: a deleted credential stays in the cache.
CrCachedStill(o) == IF crOp[o].kind \in {"set", "rotate"} THEN [id |-> crOp[o].seen, val |-> o]
                    ELSE crCache

\* What the request makes of the credentials' cache.
CrCached(o) == CASE crOp[o].kind \in {"set", "rotate"} -> [id |-> crOp[o].seen, val |-> o]
                 [] crOp[o].kind = "delete"            -> CrNone
                 [] OTHER                              -> crCache

CrCaching(o) ==
    /\ crOp[o].pc = "cache" /\ CrGoes(o, "publish")
    /\ crCache' = CrCached(o)
    /\ crOvers' = CASE crOp[o].kind = "setOverride"    -> o
                    [] crOp[o].kind = "deleteOverride" -> "none"
                    [] OTHER                           -> crOvers
    /\ UNCHANGED <<CrTables, crSkill, crBoot, CrPast, crFaults>>

CrOnOverride(o) == crOp[o].kind \in {"setOverride", "deleteOverride"}

CrReadOverride(o) == crOvers   \* mutant: the override is read for both

\* The subscriber of a credential reads the effective value, that of a
\* setting the override alone.
CrRead(o) == IF CrOnOverride(o) THEN crOvers ELSE CrEffective

CrPublish(o) ==
    /\ crOp[o].pc = "publish"
    /\ crOp' = [crOp EXCEPT ![o] = [@ EXCEPT !.pc = "tell", !.read = CrRead(o)]]
    /\ UNCHANGED <<CrTables, CrCaches, crSkill, crBoot, CrPast, crFaults>>

\* OnConfigChanged.  Rotate has a second write to do.
CrTell(o) ==
    /\ crOp[o].pc = "tell"
    /\ CrGoes(o, IF crOp[o].kind = "rotate" THEN "again" ELSE "done")
    /\ crSkill' = crOp[o].read
    /\ crShade' = (CrOnOverride(o) /\ crCache.val # "none")
    /\ UNCHANGED <<CrTables, CrCaches, crBoot, crGone, crRaced, crFaults>>

\* rotated_at, with the whole of the row Rotate's Set wrote; that it fails is
\* only logged.
CrAgain(o) ==
    /\ crOp[o].pc = "again" /\ CrGoes(o, "done")
    /\ \/ /\ crRow' = IF crRow.id = crOp[o].seen THEN [crRow EXCEPT !.val = o] ELSE crRow
          /\ UNCHANGED crFaults
       \/ CrFault /\ UNCHANGED crRow
    /\ UNCHANGED <<crIds, crOver, CrCaches, crSkill, crBoot, CrPast>>

\* The process dies, also in the middle of a migration.
CrCrash ==
    /\ crBoot # "down" /\ CrFault
    /\ crBoot' = "down" /\ crCache' = CrNone /\ crOvers' = "none" /\ crSkill' = "none"
    /\ crOp' = [o \in CrOps |-> IF o \in CrBusy THEN [crOp[o] EXCEPT !.pc = "done"] ELSE crOp[o]]
    /\ crRaced' = FALSE /\ crShade' = FALSE
    /\ UNCHANGED <<CrTables, crGone>>

CrNext ==
    \/ CrLoad \/ CrMigrate \/ CrMoved \/ CrDrop \/ CrReplay \/ CrCrash
    \/ \E o \in CrOps :
          \/ \E kind \in CrKinds : CrBegin(o, kind)
          \/ CrWrite(o) \/ CrChange(o) \/ CrCaching(o) \/ CrPublish(o) \/ CrTell(o) \/ CrAgain(o)

CrSpec == CrInit /\ [][CrNext]_crVars

-----------------------------------------------------------------------------

CrTypeOK ==
    /\ {crRow.val, crCache.val, crOver, crOvers, crSkill} \subseteq CrValues \union {"none"}
    /\ crRow.id \in Nat /\ crCache.id \in Nat /\ crIds \in Nat
    /\ crBoot \in {"down", "migrate", "moved", "drop", "replay", "up"}
    /\ \A o \in CrOps :
          /\ crOp[o].kind \in CrKinds \union {"none"}
          /\ crOp[o].pc \in {"new", "write", "cache", "publish", "tell", "again", "done"}
    /\ {crGone, crRaced, crShade} \subseteq BOOLEAN /\ crFaults \in 0 .. CrMaxFaults

(* A secret is in one of the two tables until a request deletes it,        *)
(* wherever a start-up or a request dies (MigrateFromConfigOverrides).     *)
(* While no request is under way, and if none overlapped since the start,  *)
(* the caches agree with their tables, and the skill has the value that    *)
(* counts, unless it was told of an override that a credential hides.      *)
CrSafe ==
    /\ ~crGone => crRow.val # "none" \/ crOver # "none"
    /\ crBoot = "up" /\ CrBusy = {} /\ ~crRaced =>
          /\ crCache = crRow /\ crOvers = crOver
          /\ ~crShade => crSkill = CrEffective
=============================================================================
