----------------------------- MODULE MobileOAuth -----------------------------
(***************************************************************************)
(* The credential store of the mobile API (internal/mobile/oauthstore) and *)
(* the token endpoint that drives it (internal/mobile/browseroauth): one   *)
(* owner, one installation, several sign-ins of it.  Each sign-in makes a  *)
(* credential family: a code (or a CLI device code), and then one refresh  *)
(* and one access token per generation.  Every operation is one SQLite     *)
(* transaction (WithRequest) on the OAuth database, so every action is one *)
(* transaction; what another transaction can be ordered in between is two  *)
(* actions: the account check and the grant, a rolled-back replay and the  *)
(* clean-up that keeps its revocation, a commit and the answer that tells. *)
(*                                                                         *)
(* Time is abstracted to a family being past the limit that applies to it  *)
(* (its deadline while provisional, thirty days once active).  Keys,       *)
(* signatures, scopes, CSRF and PKCE are taken to verify: a request that   *)
(* fails one of them changes nothing.                                      *)
(***************************************************************************)
EXTENDS Integers, Sequences, FiniteSets

CONSTANTS
    OaFams,       \* the sign-ins, each with the family it may create
    OaCli,        \* those of a command line, by device code
    OaMaxGen,     \* bound: generations of a family (the store caps its rows)
    OaMaxVersion, \* bound: changes of the account's security state
    OaMaxEvents   \* bound: account changes, replays, revocations, expiries

ASSUME OaAssumption == /\ IsFiniteSet(OaFams) /\ OaCli \subseteq OaFams
                       /\ OaMaxGen \in Nat
                       /\ OaMaxVersion \in Nat /\ OaMaxEvents \in Nat

VARIABLES
    oaAcct,    \* the account's security version (password, disabled, epoch)
    oaLook,    \* versions read without the account guard and not yet synced
    oaOwner,   \* oauth_owners: [epoch, stamp]
    oaDev,     \* oauth_devices: [known, epoch, revoked, activated]
    oaFlow,    \* the browser flow of a sign-in: [phase, stamp]
    oaGrant,   \* the code or device request it led to: [state, stamp]
    oaFam,     \* oauth_families
    oaRow,     \* oauth_sessions: per family, generation g at index g + 1
    oaDone,    \* oauth_completions: families whose proof was recorded
    oaHeld,    \* the refresh generation the phone holds, -1 for none
    oaCleanup, \* revocations whose request rolled back: WithRequest owes them
    oaEvents,  \* how many of the bounded events there were
    oaDead,    \* history: families whose authority was withdrawn
    oaSpent    \* history: how often each credential was redeemed

oaStored == <<oaOwner, oaDev, oaFam, oaRow, oaDone>>
oaVars == <<oaEvents, oaAcct, oaLook, oaFlow, oaGrant, oaHeld, oaCleanup, oaDead, oaSpent,
            oaStored>>

OaStages == {"pending", "recovery", "active"}
NoFam == [present |-> FALSE, stage |-> "pending", ownerEpoch |-> 0,
          deviceEpoch |-> 0, generation |-> 0, revoked |-> FALSE,
          over |-> FALSE, version |-> 0]

OaInit ==
    /\ oaAcct = 0 /\ oaLook = {} /\ oaEvents = 0
    /\ oaOwner = [epoch |-> 1, stamp |-> 0]
    /\ oaDev = [known |-> FALSE, epoch |-> 1, revoked |-> FALSE, activated |-> FALSE]
    /\ oaFlow = [f \in OaFams |-> [phase |-> "none", stamp |-> 0]]
    /\ oaGrant = [f \in OaFams |-> [state |-> "none", stamp |-> 0]]
    /\ oaFam = [f \in OaFams |-> NoFam]
    /\ oaRow = [f \in OaFams |-> <<>>]
    /\ oaDone = {} /\ oaCleanup = {} /\ oaDead = {}
    /\ oaHeld = [f \in OaFams |-> -1]
    /\ oaSpent = [c \in OaFams \X (0..OaMaxGen + 1) |-> 0]

-----------------------------------------------------------------------------
(* The checks every use of a credential makes.                              *)

\* Mutant: the family's own revocation is not looked at.
OaLiveUnrevoked(f) ==
    /\ oaFam[f].present /\ ~oaFam[f].over /\ ~oaDev.revoked
    /\ oaFam[f].ownerEpoch = oaOwner.epoch /\ oaFam[f].deviceEpoch = oaDev.epoch

\* live: the family is not revoked, not past its limit, and of the epochs its
\* owner and its device have now.
OaLive(f) ==
    LET fam == oaFam[f]
    IN /\ fam.present /\ ~fam.revoked /\ ~fam.over
       /\ ~oaDev.revoked
       /\ fam.ownerEpoch = oaOwner.epoch
       /\ fam.deviceEpoch = oaDev.epoch

Row(f, g) == oaRow[f][g + 1]
OaIssued(f) == {g \in 0..OaMaxGen : g + 1 <= Len(oaRow[f])}

\* get: what the stored row must agree with.  Only the refresh of a completed
\* recovery may carry the device epoch from before its own proof.
OaBound(f, g, kind) ==
    LET row == Row(f, g)
    IN /\ OaLive(f)
       /\ g = oaFam[f].generation
       /\ row.stage = oaFam[f].stage
       /\ \/ row.deviceEpoch = oaFam[f].deviceEpoch
          \/ /\ kind = "refresh" /\ row.stage = "recovery"
             /\ row.deviceEpoch + 1 = oaFam[f].deviceEpoch
             /\ f \in oaDone

RefreshOk(f, g) == g \in OaIssued(f) /\ Row(f, g).refresh /\ OaBound(f, g, "refresh")
AccessOk(f, g)  == g \in OaIssued(f) /\ Row(f, g).access /\ OaBound(f, g, "access")

\* revoke: the family and every row of it.
Silenced(rows) == [i \in DOMAIN rows |-> [rows[i] EXCEPT !.refresh = FALSE, !.access = FALSE]]
OaRevoked(f) == [oaFam EXCEPT ![f].revoked = TRUE]

\* The account guard is held from SyncAccount to the end of the request, so
\* whatever follows it finds the account as it was stamped.
Guarded == oaOwner.stamp = oaAcct

-----------------------------------------------------------------------------
(* The account.                                                             *)

\* One of the events the model bounds.
OaEvent == oaEvents < OaMaxEvents /\ oaEvents' = oaEvents + 1

\* A password change, a disable, a sign-out everywhere: another database.
OaAccountChange ==
    /\ OaEvent
    /\ oaAcct < OaMaxVersion
    /\ oaAcct' = oaAcct + 1
    /\ UNCHANGED <<oaLook, oaStored, oaFlow, oaGrant, oaHeld, oaCleanup, oaDead, oaSpent>>

\* verifyReserved and verifyExecutionAuthority read the account without its
\* guard; what they read is synced later, perhaps after it has changed again.
OaLookup ==
    /\ oaLook' = oaLook \union {oaAcct}
    /\ oaLook' # oaLook
    /\ UNCHANGED <<oaEvents, oaAcct, oaStored, oaFlow, oaGrant, oaHeld, oaCleanup, oaDead, oaSpent>>

Present == {f \in OaFams : oaFam[f].present}

\* Mutant: the epoch is derived from the version that was read.
SyncAccountDerived(v) ==
    oaOwner' = [epoch |-> v + 1, stamp |-> v] /\ UNCHANGED <<oaFam, oaDead>>

SyncAccount(v) ==
    IF oaOwner.stamp = v
    THEN UNCHANGED <<oaOwner, oaFam, oaDead>>
    ELSE /\ oaOwner' = [epoch |-> oaOwner.epoch + 1, stamp |-> v]
         /\ oaFam' = [f \in OaFams |->
                        [oaFam[f] EXCEPT !.revoked = @ \/ oaFam[f].present]]
         /\ oaDead' = oaDead \union Present

\* The sync of a guarded request, or of an earlier unguarded look.
OaSync(v) ==
    /\ v \in {oaAcct} \union oaLook
    /\ oaLook' = oaLook \ {v}
    /\ SyncAccount(v)
    /\ UNCHANGED <<oaEvents, oaAcct, oaDev, oaRow, oaDone, oaFlow, oaGrant, oaHeld, oaCleanup, oaSpent>>

-----------------------------------------------------------------------------
(* The browser flow and the grants it makes.                                *)

OaFlowRest == UNCHANGED <<oaEvents, oaAcct, oaLook, oaOwner, oaRow, oaDone, oaHeld, oaCleanup,
                          oaDead, oaSpent>>

\* CreateBrowserFlow, for an app's code or for a CLI's device request.
OaBegin(f) ==
    /\ oaFlow[f].phase = "none"
    /\ oaFlow' = [oaFlow EXCEPT ![f].phase = "login"]
    /\ oaGrant' = [oaGrant EXCEPT ![f].state = IF f \in OaCli THEN "pending" ELSE "none"]
    /\ UNCHANGED <<oaDev, oaFam>> /\ OaFlowRest

\* LoginBrowserFlow binds the account version the password was checked against.
OaLogin(f) ==
    /\ oaFlow[f].phase = "login"
    /\ oaFlow' = [oaFlow EXCEPT ![f].phase = "consent", ![f].stamp = oaAcct]
    /\ UNCHANGED <<oaDev, oaFam, oaGrant>> /\ OaFlowRest

\* PrepareAuthorization: a new device is pending; one whose key was proved
\* before is only recovered.
NewFamily ==
    [present |-> TRUE,
     stage |-> IF oaDev.activated THEN "recovery" ELSE "pending",
     ownerEpoch |-> oaOwner.epoch, deviceEpoch |-> oaDev.epoch,
     generation |-> 0, revoked |-> FALSE, over |-> FALSE, version |-> oaAcct]

\* AuthorizeBrowserFlow: consent given, the flow consumed, the family made and
\* the code issued (or the device request approved) in one transaction.
OaConsent(f) ==
    /\ Guarded
    /\ oaFlow[f].phase = "consent" /\ oaFlow[f].stamp = oaAcct
    /\ ~oaDev.revoked
    /\ f \in OaCli => oaGrant[f].state = "pending"
    /\ oaFam' = [oaFam EXCEPT ![f] = NewFamily]
    /\ oaDev' = [oaDev EXCEPT !.known = TRUE]
    /\ oaGrant' = [oaGrant EXCEPT ![f] =
          [state |-> IF f \in OaCli THEN "approved" ELSE "code",
           stamp |-> oaOwner.stamp]]
    /\ oaFlow' = [oaFlow EXCEPT ![f].phase = "consumed"]
    /\ OaFlowRest

\* Consent refused.
OaDeny(f) ==
    /\ Guarded
    /\ oaFlow[f].phase = "consent" /\ oaFlow[f].stamp = oaAcct
    /\ oaFlow' = [oaFlow EXCEPT ![f].phase = "consumed"]
    /\ oaGrant' = [oaGrant EXCEPT ![f].state = "denied"]
    /\ UNCHANGED <<oaDev, oaFam>> /\ OaFlowRest

-----------------------------------------------------------------------------
(* The token endpoint.                                                      *)

OaTokenRest == UNCHANGED <<oaAcct, oaLook, oaOwner, oaDev, oaFlow, oaDone>>

\* create: the row of the family's current generation.
NewRow(fam) == [stage |-> fam.stage, deviceEpoch |-> fam.deviceEpoch,
                refresh |-> TRUE, access |-> TRUE]

\* The answer may not reach the phone, which then keeps what it had.
Answered(f, g) == \/ oaHeld' = [oaHeld EXCEPT ![f] = g]
                  \/ UNCHANGED oaHeld

\* InvalidateAuthorizeCodeSession and Consume
OaGrantUsed(f) == [oaGrant EXCEPT ![f].state = "used"]

\* The first tokens, for a code or an approved device code, which is spent.
OaRedeem(f) ==
    /\ Guarded /\ OaLive(f)
    /\ \/ oaGrant[f].state = "code"
       \/ oaGrant[f].state = "approved" /\ oaGrant[f].stamp = oaOwner.stamp
    /\ oaGrant' = OaGrantUsed(f)
    /\ oaRow' = [oaRow EXCEPT ![f] = <<NewRow(oaFam[f])>>]
    /\ oaSpent' = [oaSpent EXCEPT ![<<f, 0>>] = @ + 1]
    /\ Answered(f, 0)
    /\ UNCHANGED <<oaEvents, oaFam, oaCleanup, oaDead>> /\ OaTokenRest

\* A code comes back that is no longer active: Fosite revokes, the request
\* fails and is rolled back, and the revocation is owed.
OaReplayCode(f) ==
    /\ OaEvent
    /\ Guarded
    /\ f \notin OaCli /\ oaGrant[f].state = "used" /\ oaFam[f].present
    /\ oaCleanup' = oaCleanup \union {f}
    /\ UNCHANGED <<oaFam, oaRow, oaGrant, oaHeld, oaDead, oaSpent>> /\ OaTokenRest

\* FinalizeRefresh: a completed proof makes the family active.
Finalized(f) ==
    IF oaFam[f].stage # "active" /\ f \in oaDone
    THEN [oaFam[f] EXCEPT !.stage = "active"] ELSE oaFam[f]

\* RotateRefreshToken: the old generation ends with the access tokens.
OaRotated(f, g) ==
    [i \in DOMAIN oaRow[f] |->
        [oaRow[f][i] EXCEPT !.access = FALSE, !.refresh = @ /\ i # g + 1]]

OaRefresh(f, g) ==
    /\ Guarded /\ RefreshOk(f, g) /\ g < OaMaxGen
    /\ LET fam == [Finalized(f) EXCEPT !.generation = @ + 1]
       IN /\ oaFam' = [oaFam EXCEPT ![f] = fam]
          /\ oaRow' = [oaRow EXCEPT ![f] = Append(OaRotated(f, g), NewRow(fam))]
    /\ oaSpent' = [oaSpent EXCEPT ![<<f, g + 1>>] = @ + 1]
    /\ Answered(f, g + 1)
    /\ UNCHANGED <<oaEvents, oaGrant, oaCleanup, oaDead>> /\ OaTokenRest

\* A refresh token that verifies but is no longer good: reuse, to Fosite.
OaReplayRefresh(f, g) ==
    /\ OaEvent
    /\ Guarded /\ g \in OaIssued(f) /\ ~RefreshOk(f, g)
    /\ oaCleanup' = oaCleanup \union {f}
    /\ UNCHANGED <<oaFam, oaRow, oaGrant, oaHeld, oaDead, oaSpent>> /\ OaTokenRest

\* The clean-up transaction of WithRequest; by now others may have committed.
OaCleanUp(f) ==
    /\ f \in oaCleanup
    /\ oaCleanup' = oaCleanup \ {f}
    /\ oaFam' = OaRevoked(f)
    /\ oaRow' = [oaRow EXCEPT ![f] = Silenced(@)]
    /\ oaGrant' = [oaGrant EXCEPT ![f].state = IF @ = "code" THEN "used" ELSE @]
    /\ oaDead' = oaDead \union {f}
    /\ UNCHANGED <<oaEvents, oaHeld, oaSpent>> /\ OaTokenRest

\* The process ends between the rollback and the clean-up, which is not redone.
OaCrash ==
    /\ oaCleanup # {}
    /\ oaCleanup' = {}
    /\ UNCHANGED <<oaEvents, oaFam, oaRow, oaGrant, oaHeld, oaDead, oaSpent>> /\ OaTokenRest

\* RevokeFamily, and RevokeCredential for whoever holds a token of the family.
OaRevoke(f) ==
    /\ OaEvent
    /\ oaFam[f].present /\ f \notin oaDead
    /\ oaFam' = OaRevoked(f)
    /\ oaRow' = [oaRow EXCEPT ![f] = Silenced(@)]
    /\ oaGrant' = [oaGrant EXCEPT ![f].state = IF @ = "code" THEN "used" ELSE @]
    /\ oaDead' = oaDead \union {f}
    /\ UNCHANGED <<oaHeld, oaSpent, oaCleanup>> /\ OaTokenRest

-----------------------------------------------------------------------------
(* The installation proof, the device and the clock.                        *)

OaDeviceRest == UNCHANGED <<oaAcct, oaLook, oaOwner, oaFlow, oaGrant, oaHeld, oaCleanup,
                            oaSpent>>

\* FinishInstallation, called with the claims of an access token that was good
\* when the call began.  A recovery moves the device and this family to a new
\* epoch and revokes the other families.
OaFinish(f, g) ==
    /\ OaLive(f) /\ g \in OaIssued(f)
    /\ oaFam[f].stage # "active" /\ Row(f, g).stage = oaFam[f].stage
    /\ f \notin oaDone
    /\ Row(f, g).deviceEpoch = oaFam[f].deviceEpoch
    /\ oaFam[f].stage = "recovery" => oaDev.activated
    /\ oaDone' = oaDone \union {f}
    /\ IF oaFam[f].stage = "recovery"
       THEN LET epoch == oaDev.epoch + 1
            IN /\ oaDev' = [oaDev EXCEPT !.epoch = epoch]
               /\ oaFam' = [h \in OaFams |->
                     IF h = f THEN [oaFam[f] EXCEPT !.deviceEpoch = epoch]
                     ELSE [oaFam[h] EXCEPT !.revoked = @ \/ oaFam[h].present]]
               /\ oaRow' = [oaRow EXCEPT ![f] =
                     [i \in DOMAIN @ |-> [@[i] EXCEPT !.access = FALSE]]]
               /\ oaDead' = oaDead \union (Present \ {f})
       ELSE /\ oaDev' = [oaDev EXCEPT !.activated = TRUE]
            /\ UNCHANGED <<oaFam, oaRow, oaDead>>
    /\ UNCHANGED oaEvents /\ OaDeviceRest

\* RevokeDeviceOperation.
OaRevokeDevice ==
    /\ OaEvent
    /\ oaDev.known /\ ~oaDev.revoked
    /\ oaDev' = [oaDev EXCEPT !.epoch = @ + 1, !.revoked = TRUE]
    /\ oaFam' = [f \in OaFams |-> [oaFam[f] EXCEPT !.revoked = @ \/ oaFam[f].present]]
    /\ oaDead' = oaDead \union Present
    /\ UNCHANGED <<oaRow, oaDone>> /\ OaDeviceRest

\* The family's deadline or its thirty days pass.
OaTimeUp(f) ==
    /\ OaEvent
    /\ oaFam[f].present /\ ~oaFam[f].over
    /\ oaFam' = [oaFam EXCEPT ![f].over = TRUE]
    /\ UNCHANGED <<oaDev, oaRow, oaDone, oaDead>> /\ OaDeviceRest

\* Sweep, seven days after that, takes the family with its rows and its proof.
OaSweep(f) ==
    /\ oaFam[f].present /\ oaFam[f].over
    /\ oaFam' = [oaFam EXCEPT ![f].present = FALSE]
    /\ oaRow' = [oaRow EXCEPT ![f] = <<>>]
    /\ oaDone' = oaDone \ {f}
    /\ UNCHANGED <<oaEvents, oaDev, oaDead>> /\ OaDeviceRest

OaSignIn(f) == \/ OaBegin(f)
               \/ OaLogin(f) \/ OaConsent(f) \/ OaDeny(f) \/ OaRedeem(f)

OaNext ==
    \/ OaAccountChange \/ OaLookup \/ OaCrash \/ OaRevokeDevice
    \/ \E v \in 0..OaMaxVersion : OaSync(v)
    \/ \E f \in OaFams : \/ OaSignIn(f) \/ OaReplayCode(f) \/ OaCleanUp(f)
                         \/ OaRevoke(f) \/ OaTimeUp(f) \/ OaSweep(f)
    \/ \E f \in OaFams, g \in 0..OaMaxGen :
          OaRefresh(f, g) \/ OaReplayRefresh(f, g) \/ OaFinish(f, g)

OaSpec == OaInit /\ [][OaNext]_oaVars

-----------------------------------------------------------------------------
(* Properties.                                                              *)

\* Every row, grant and epoch of the store has its type.
OaTypeOK ==
    /\ oaAcct \in 0..OaMaxVersion /\ oaLook \subseteq 0..OaMaxVersion
    /\ oaOwner.epoch \in Nat /\ oaOwner.stamp \in 0..OaMaxVersion
    /\ oaDev \in [known : BOOLEAN, epoch : Nat, revoked : BOOLEAN, activated : BOOLEAN]
    /\ \A f \in OaFams :
          /\ oaFam[f].stage \in OaStages /\ oaFam[f].generation \in 0..OaMaxGen
          /\ oaGrant[f].state \in {"none", "pending", "code", "approved", "denied", "used"}
          /\ \A i \in DOMAIN oaRow[f] : oaRow[f][i].stage \in OaStages
          /\ oaHeld[f] \in -1..OaMaxGen
    /\ oaDone \subseteq OaFams /\ oaCleanup \subseteq OaFams /\ oaDead \subseteq OaFams

\* A code, a device code and each refresh token buy new tokens at most once,
\* whatever is replayed, rolled back or lost (InvalidateAuthorizeCodeSession,
\* RotateRefreshToken).
OaRedeemOnce == \A c \in DOMAIN oaSpent : oaSpent[c] <= 1

\* A family whose authority was withdrawn - a replay cleaned up, a revocation,
\* its device revoked, another sign-in recovering the device, the account
\* changed - never has a usable token again, also when a refresh that was
\* already under way committed in between.
OaWithdrawn ==
    \A f \in oaDead : \A g \in OaIssued(f) : ~RefreshOk(f, g) /\ ~AccessOk(f, g)

\* Once the account's present version has been synced, as every request does
\* first, only credentials consented to under that version are usable, also
\* when a slow request syncs an older version in between.
OaAccountBound ==
    Guarded => \A f \in OaFams : \A g \in OaIssued(f) :
        RefreshOk(f, g) \/ AccessOk(f, g) => oaFam[f].version = oaAcct

\* An access token with scopes exists only for a family whose installation
\* proof is recorded, on an activated device; a token issued before the proof
\* never acquires them.
OaProofFirst ==
    \A f \in OaFams : \A g \in OaIssued(f) :
        Row(f, g).stage = "active" => f \in oaDone /\ oaDev.activated

\* The phone that received every answer is never locked out: unless its
\* authority was withdrawn or its time is up, the refresh token it holds works,
\* through the proof and the epoch change of a recovery.
OaHeldWorks ==
    \A f \in OaFams :
        /\ oaFam[f].present /\ ~oaFam[f].over /\ f \notin oaDead
        /\ oaHeld[f] >= 0 /\ oaHeld[f] = oaFam[f].generation
        => RefreshOk(f, oaHeld[f])

\* A token that is refused once is refused for good.
OaNoResurrection ==
    [][\A f \in OaFams : \A g \in OaIssued(f) :
          /\ ~RefreshOk(f, g) => ~RefreshOk(f, g)'
          /\ ~AccessOk(f, g) => ~AccessOk(f, g)']_oaVars

\* What the token store keeps, through replays, lost answers, rollbacks, slow
\* requests and crashes: grants are spent once, authority that was withdrawn
\* or belongs to an earlier account is worthless, scopes follow the proof, and
\* an honest phone is not locked out.
OaSafe == OaRedeemOnce /\ OaWithdrawn /\ OaAccountBound /\ OaProofFirst /\ OaHeldWorks
=============================================================================
