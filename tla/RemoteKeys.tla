----------------------------- MODULE RemoteKeys ------------------------------
(***************************************************************************)
(* Managed SSH keys (internal/remoteaccess/keys.go): keys installed on,    *)
(* verified against, removed from and looked for on one account of one     *)
(* host.  Each operation checks and marks the installation under the       *)
(* catalog's lock, runs one approved execution without it, and records the *)
(* result under it again; operations on other keys, and observations of    *)
(* the same key, go on meanwhile.  The catalog in memory is changed before *)
(* it is saved; a save that fails leaves the change there and breaks the   *)
(* service until a restart, which reads the file.                          *)
(*                                                                         *)
(* The execution is abstracted to its login, its script and its outcome    *)
(* (RemoteExec has the rest), and authorized_keys to the set of managed    *)
(* keys in it.  When the connection or the service is lost, a script that  *)
(* was sent may take effect at any later time: the lock on the host orders *)
(* it with other scripts that write, but logins and inspections take none. *)
(***************************************************************************)
EXTENDS Naturals, FiniteSets

CONSTANTS
    KyKeys,     \* the installations, each of a key of its own
    KyOlds,     \* the sets of them that may be installed, and verified a moment ago, at first
    KyMaxOps,   \* bound: operations started
    KyMaxFaults \* bound: failed saves, and restarts of a service that is not broken

ASSUME KyAssumption ==
    IsFiniteSet(KyKeys) /\ KyOlds \subseteq SUBSET KyKeys /\ KyMaxOps \in Nat /\ KyMaxFaults \in Nat

VARIABLES
    kyCat,    \* the installations in memory: state, and execution id (0: none)
    kyDisk,   \* the installations in the catalog file
    kyBroken, \* a save failed
    kyFresh,  \* installations whose last login was verified less than five minutes ago
    kyHost,   \* the managed keys in authorized_keys
    kyOps,    \* the operations under way
    kyLate,   \* scripts nobody waits for any more, that may yet take effect
    kyCount,  \* operations started, and faults
    kyStray,  \* history: late scripts that took effect after they had been belied
    kyEver    \* history: some key was verified

kyVars == <<kyCat, kyDisk, kyBroken, kyFresh, kyHost, kyOps, kyLate, kyCount, kyStray, kyEver>>
kyFile == <<kyCat, kyDisk, kyBroken, kyCount>>
kyPast == <<kyFresh, kyStray, kyEver>>

KyPending == {"install_pending", "verification_pending", "remove_pending"}
KyStates == KyPending \union
    {"none", "install_failed", "install_unknown", "installed_unverified", "verified",
     "remove_failed", "remove_unknown", "removed"}

\* Key operations an owner may have under way (remoteKeyOperation).
KyActive == 2

KyInit ==
    /\ \E old \in KyOlds :
          /\ kyCat = [k \in KyKeys |->
                [state |-> IF k \in old THEN "verified" ELSE "none", exec |-> 0]]
          /\ kyFresh = old /\ kyHost = old /\ kyEver = (old # {})
    /\ kyDisk = kyCat /\ kyBroken = FALSE
    /\ kyOps = {} /\ kyLate = {} /\ kyStray = {}
    /\ kyCount = [ops |-> 0, faults |-> 0]

-----------------------------------------------------------------------------
(* save: memory has the change whether the file gets it or not.             *)

KySaved(cat, started) ==
    /\ kyCat' = cat /\ kyDisk' = cat
    /\ kyCount' = [kyCount EXCEPT !.ops = @ + started]
    /\ UNCHANGED kyBroken

KySaveFails(cat, started) ==
    /\ kyCount.faults < KyMaxFaults
    /\ kyCount' = [ops |-> kyCount.ops + started, faults |-> kyCount.faults + 1]
    /\ kyCat' = cat /\ kyDisk' \in {kyDisk, cat} /\ kyBroken' = TRUE

\* The catalog is saved for something else: an execution, a route, a grant.
KyOtherSave ==
    /\ KySaved(kyCat, 0) \/ KySaveFails(kyCat, 0)
    /\ UNCHANGED <<kyHost, kyOps, kyLate, kyPast>>

-----------------------------------------------------------------------------
(* The first lock period of an operation.                                   *)

\* What it remembers; login: the key its route logs in with, if it is a managed one.
KyNewOp(op, k, login) ==
    [op |-> op, key |-> k, login |-> login, id |-> kyCount.ops + 1,
     prior |-> kyCat[k], out |-> "none"]

\* plan refuses a broken service.
KyMayStart ==
    /\ ~kyBroken /\ kyCount.ops < KyMaxOps
    /\ Cardinality(kyOps) < KyActive

\* The mark is on disk before anything runs; an operation whose mark cannot be
\* saved ends there, and the mark stays in memory.
KyStart(op, k, login, mark) ==
    /\ KyMayStart
    /\ LET cat == [kyCat EXCEPT ![k].state = mark]
       IN \/ KySaved(cat, 1) /\ kyOps' = kyOps \union {KyNewOp(op, k, login)}
          \/ KySaveFails(cat, 1) /\ UNCHANGED kyOps
    /\ UNCHANGED <<kyHost, kyLate, kyPast>>

InstallPublicKey(k) ==
    /\ kyCat[k].state = "none"
    /\ KyStart("install", k, {}, "install_pending")

\* The login is by the key itself.
VerifyInstallation(k) ==
    /\ kyCat[k].state \in {"installed_unverified", "install_unknown"}
    /\ KyStart("verify", k, {k}, "verification_pending")

\* Only with another key that was verified within five minutes, which logs in.
RemovePublicKey(k, alt) ==
    /\ k # alt /\ kyCat[alt].state = "verified" /\ alt \in kyFresh
    /\ kyCat[k].state \in {"verified", "installed_unverified", "install_unknown",
                           "remove_failed", "remove_unknown"}
    /\ KyStart("remove", k, {alt}, "remove_pending")

\* ReconcilePublicKey looks, and marks and saves nothing.
ReconcilePublicKey(k) ==
    /\ kyCat[k].state \notin KyPending \union {"none"}
    /\ KyMayStart
    /\ kyCount' = [kyCount EXCEPT !.ops = @ + 1]
    /\ kyOps' = kyOps \union {KyNewOp("reconcile", k, {})}
    /\ UNCHANGED <<kyCat, kyDisk, kyBroken, kyHost, kyLate, kyPast>>

-----------------------------------------------------------------------------
(* The approved execution.                                                  *)

KyMoves(o, out) == kyOps' = (kyOps \ {o}) \union {[o EXCEPT !.out = out]}

\* It was not made ("refused"), or made and cancelled or not connected.
KyRefuse(o) ==
    /\ o.out = "none"
    /\ \E out \in {"refused", "failed"} : KyMoves(o, out)
    /\ UNCHANGED <<kyFile, kyHost, kyLate, kyPast>>

\* Scripts of this kind on these keys, once the host was seen to be as if they
\* had not run.
KyBelie(op, keys) ==
    {[s EXCEPT !.belied = @ \/ (s.op = op /\ s.key \in keys)] : s \in kyLate}

\* The login succeeds, by a key that is there, and the command is sent.
KySend(o) ==
    /\ o.out = "none" /\ o.login \subseteq kyHost
    /\ KyMoves(o, "sent")
    /\ kyLate' = KyBelie("remove", o.login)
    /\ UNCHANGED <<kyFile, kyHost, kyPast>>

\* The script of an operation that changes the host.
KyScript(o) == [op |-> o.op, key |-> o.key, id |-> o.id, belied |-> FALSE]

\* The host when the script has done its work.
KyDone(s) == IF s.op = "install" THEN kyHost \union {s.key} ELSE kyHost \ {s.key}

\* A script that installs or removes: it did what it should, the removal only
\* of a line that was there; or it failed, perhaps after the rename (its sync or
\* its readback); or nobody knows.
KyChange(o) ==
    /\ o.op \in {"install", "remove"} /\ o.out = "sent"
    /\ \/ /\ o.op = "remove" => o.key \in kyHost
          /\ kyHost' = KyDone(o) /\ KyMoves(o, "completed") /\ UNCHANGED kyLate
       \/ kyHost' \in {kyHost, KyDone(o)} /\ KyMoves(o, "failed") /\ UNCHANGED kyLate
       \/ /\ kyLate' = kyLate \union {KyScript(o)} /\ KyMoves(o, "unknown")
          /\ UNCHANGED kyHost
    /\ UNCHANGED <<kyFile, kyPast>>

\* The login's command true, and the inspection, which says by its exit status
\* whether the line is there; failed stands for every other outcome, also for
\* one that nobody knows.
KyLook(o) ==
    /\ o.op \in {"verify", "reconcile"} /\ o.out = "sent"
    /\ \/ KyMoves(o, "failed") /\ UNCHANGED kyLate
       \/ o.op = "verify" /\ KyMoves(o, "completed") /\ UNCHANGED kyLate
       \/ /\ o.op = "reconcile" /\ o.key \in kyHost
          /\ KyMoves(o, "exit_0") /\ UNCHANGED kyLate
       \/ /\ o.op = "reconcile" /\ o.key \notin kyHost
          /\ KyMoves(o, "exit_3") /\ kyLate' = KyBelie("install", {o.key})
    /\ UNCHANGED <<kyFile, kyHost, kyPast>>

\* A script that nobody waits for takes effect; one that died never does.
KyLand(s) ==
    /\ kyLate' = kyLate \ {s} /\ kyHost' = KyDone(s)
    /\ kyStray' = IF s.belied /\ kyHost' # kyHost THEN kyStray \union {s} ELSE kyStray
    /\ UNCHANGED <<kyFile, kyOps, kyFresh, kyEver>>

-----------------------------------------------------------------------------
(* The second lock period.                                                  *)

KyResult(o) ==
    CASE o.op = "install" ->
            (CASE o.out = "completed" -> "installed_unverified"
               [] o.out = "unknown" -> "install_unknown"
               [] OTHER -> "install_failed")
      [] o.op = "verify" ->
            (IF o.out = "completed" THEN "verified" ELSE "installed_unverified")
      [] o.op = "remove" ->
            (CASE o.out = "completed" -> "removed"
               [] o.out = "unknown" -> "remove_unknown"
               [] OTHER -> "remove_failed")
      [] o.op = "reconcile" ->
            (CASE o.out = "exit_0" -> "installed_unverified"
               [] o.out = "exit_3" -> "removed"
               [] OTHER -> o.prior.state)

\* Mutant: an observation is always written.
KyCurrentAlways(o) == TRUE

\* An observation is written only over the installation it was made of.  (It
\* also clears the time of the last login, which is asked for only when the
\* state is verified.)
KyCurrent(o) == o.op = "reconcile" => kyCat[o.key] = o.prior

KyRecord(o) ==
    [kyCat EXCEPT ![o.key] = [state |-> KyResult(o),
                              exec |-> IF o.out = "refused" THEN 0 ELSE o.id]]

\* Also in a broken service, where the save may succeed.
KyFinish(o) ==
    /\ o.out \notin {"none", "sent"}
    /\ kyOps' = kyOps \ {o}
    /\ IF KyCurrent(o)
       THEN /\ KySaved(KyRecord(o), 0) \/ KySaveFails(KyRecord(o), 0)
            /\ kyFresh' = IF o.op = "verify" /\ o.out = "completed"
                          THEN kyFresh \union {o.key} ELSE kyFresh
            /\ kyEver' = (kyEver \/ KyResult(o) = "verified")
       ELSE UNCHANGED <<kyFile, kyFresh, kyEver>>
    /\ UNCHANGED <<kyHost, kyLate, kyStray>>

\* Five minutes pass.
KyStale(k) ==
    /\ k \in kyFresh
    /\ kyFresh' = kyFresh \ {k}
    /\ UNCHANGED <<kyFile, kyHost, kyOps, kyLate, kyStray, kyEver>>

\* NewService: the file says what was under way.
KyReopened ==
    [k \in KyKeys |-> [kyDisk[k] EXCEPT !.state =
        CASE @ = "install_pending" -> "install_unknown"
          [] @ = "verification_pending" -> "installed_unverified"
          [] @ = "remove_pending" -> "remove_unknown"
          [] OTHER -> @]]

\* One that repairs a broken service is not counted: each failed save has one.
KyRestart ==
    /\ kyBroken \/ kyCount.faults < KyMaxFaults
    /\ kyCount' = [kyCount EXCEPT !.faults = IF kyBroken THEN @ ELSE @ + 1]
    /\ kyCat' = KyReopened /\ kyDisk' = KyReopened /\ kyBroken' = FALSE
    /\ kyOps' = {}
    /\ kyLate' = kyLate \union
          {KyScript(o) : o \in {p \in kyOps : p.op \in {"install", "remove"} /\ p.out = "sent"}}
    /\ UNCHANGED <<kyHost, kyPast>>

KyNext ==
    \/ \E k \in KyKeys : \/ InstallPublicKey(k) \/ VerifyInstallation(k)
                         \/ ReconcilePublicKey(k) \/ KyStale(k)
                         \/ \E alt \in KyKeys : RemovePublicKey(k, alt)
    \/ \E o \in kyOps : KyRefuse(o) \/ KySend(o) \/ KyChange(o) \/ KyLook(o) \/ KyFinish(o)
    \/ \E s \in kyLate : KyLand(s)
    \/ KyOtherSave \/ KyRestart

KySpec == KyInit /\ [][KyNext]_kyVars

-----------------------------------------------------------------------------

\* Installations, operations, scripts and the host have their types.
KyTypeOK ==
    /\ {kyCat, kyDisk} \subseteq [KyKeys -> [state : KyStates, exec : 0..KyMaxOps]]
    /\ kyFresh \subseteq KyKeys /\ kyHost \subseteq KyKeys
    /\ \A o \in kyOps : /\ o.op \in {"install", "verify", "remove", "reconcile"}
                        /\ o.key \in KyKeys /\ o.prior.state \in KyStates
    /\ \A s \in kyLate \union kyStray : s.op \in {"install", "remove"} /\ s.key \in KyKeys
    /\ kyEver \in BOOLEAN /\ kyBroken \in BOOLEAN

\* A script of this kind took effect after the host was seen to be without it.
KyStrayed(op, k) == \E s \in kyStray : s.op = op /\ s.key = k

\* RemovePublicKey never removes the last verified key: once a key has been
\* verified the host always keeps a managed key, also when removals with each
\* other as the alternate, observations, failed saves and restarts overlap.
\* There is one way to lose it: a removal whose outcome nobody knows takes
\* effect after its key has logged in again.
KyLastKey == kyEver => kyHost # {} \/ \E k \in KyKeys : KyStrayed("remove", k)

\* The inventory, in memory and in the file, is right where it is definite: a
\* key it calls verified is on the host, one it calls removed is not, although
\* both were written after the lock was given up, perhaps from an observation
\* made before a removal, and not all of it was saved.  What makes it wrong is
\* only a script that comes after a login or an inspection has belied it.
KyTruthful ==
    \A k \in KyKeys : \A cat \in {kyCat, kyDisk} :
        /\ cat[k].state = "verified" => k \in kyHost \/ KyStrayed("remove", k)
        /\ cat[k].state = "removed" => k \notin kyHost \/ KyStrayed("install", k)

\* At most one operation at a time changes an installation, which is marked for
\* it; a mark without one is found only in a service that a failed save broke,
\* and where no operation can begin.
KyOneWriter ==
    \A k \in KyKeys :
        LET writers == {o \in kyOps : o.key = k /\ o.op # "reconcile"}
        IN /\ Cardinality(writers) <= 1
           /\ writers # {} => kyCat[k].state \in KyPending /\ kyDisk[k].state \in KyPending
           /\ kyCat[k].state \in KyPending /\ ~kyBroken => writers # {}

\* A marked installation is not left pending, unless a failed save has stopped
\* the service; a restart ends that too.
KySettles ==
    \A k \in KyKeys : (kyCat[k].state \in KyPending)
                         ~> (kyBroken \/ kyCat[k].state \notin KyPending)

\* What the inventory keeps although the host is changed outside the lock: it
\* is right where it is definite, one operation writes at a time, and the last
\* key stays.
KySafe == KyTruthful /\ KyOneWriter /\ KyLastKey
=============================================================================
