---------------------------- MODULE AccessProofs ----------------------------
(***************************************************************************)
(* Proofs about authority that is given and taken away: the credential     *)
(* store of the mobile apps, for any number of sign-ins, generations and   *)
(* account versions; and remote access, for any number of requests,        *)
(* executions, keys, changes and failures.                                 *)
(***************************************************************************)
EXTENDS MobileOAuth, RemoteExec, RemoteKeys, Credentials, SequenceTheorems,
        FiniteSetTheorems, TLAPS

-----------------------------------------------------------------------------
(* The credential store.                                                   *)

FamilyRec == [present : BOOLEAN, stage : OaStages, ownerEpoch : Nat, deviceEpoch : Nat,
              generation : 0 .. OaMaxGen, revoked : BOOLEAN, over : BOOLEAN, version : Nat]

RowRec == [stage : OaStages, deviceEpoch : Nat, refresh : BOOLEAN, access : BOOLEAN]

(* OaTypeOK, with every field. *)
StoreTyped ==
    /\ oaAcct \in 0 .. OaMaxVersion /\ oaLook \subseteq 0 .. OaMaxVersion
    /\ oaOwner \in [epoch : Nat, stamp : 0 .. OaMaxVersion]
    /\ oaDev \in [known : BOOLEAN, epoch : Nat, revoked : BOOLEAN, activated : BOOLEAN]
    /\ oaFlow \in [OaFams -> [phase : {"none", "login", "consent", "consumed"}, stamp : Nat]]
    /\ oaGrant \in [OaFams -> [state : {"none", "pending", "code", "approved", "denied", "used"},
                               stamp : Nat]]
    /\ oaFam \in [OaFams -> FamilyRec]
    /\ oaRow \in [OaFams -> Seq(RowRec)]
    /\ oaDone \subseteq OaFams /\ oaCleanup \subseteq OaFams /\ oaDead \subseteq OaFams
    /\ oaHeld \in [OaFams -> -1 .. OaMaxGen]
    /\ oaSpent \in [OaFams \X (0 .. OaMaxGen + 1) -> Nat]

(* A sign-in consents at most once, and everything comes after that. *)
Begun(f) ==
    oaFlow[f].phase # "consumed" =>
        /\ ~oaFam[f].present /\ f \notin oaDead /\ f \notin oaCleanup
        /\ oaGrant[f].state \notin {"code", "approved", "used"}
        /\ oaRow[f] = <<>> /\ oaHeld[f] = -1
        /\ \A g \in 0 .. OaMaxGen + 1 : oaSpent[<<f, g>>] = 0

(* What was redeemed, once: the grant, and the generations up to the last. *)
Spent(f) ==
    /\ oaGrant[f].state \in {"code", "approved"} =>
          /\ oaRow[f] = <<>> /\ oaHeld[f] = -1 /\ oaFam[f].generation = 0
          /\ oaSpent[<<f, 0>>] = 0
    /\ \A g \in 0 .. OaMaxGen + 1 :
          oaSpent[<<f, g>>] <= 1 /\ (g > oaFam[f].generation => oaSpent[<<f, g>>] = 0)

(* The authority of a family, and what withdraws it. *)
Authority(f) ==
    LET fam == oaFam[f] IN
    /\ fam.revoked <=> f \in oaDead
    /\ fam.ownerEpoch <= oaOwner.epoch /\ fam.deviceEpoch <= oaDev.epoch
    /\ fam.present /\ fam.ownerEpoch = oaOwner.epoch => fam.version = oaOwner.stamp
    /\ fam.present /\ ~fam.revoked =>
          /\ fam.ownerEpoch = oaOwner.epoch /\ fam.deviceEpoch = oaDev.epoch
          /\ ~oaDev.revoked
    /\ fam.present /\ fam.stage = "active" => f \in oaDone
    /\ f \in oaDone => oaDev.activated

(* The rows of a family agree with it, the row of its generation entirely  *)
(* but for the epoch that its own recovery has just moved.                 *)
Rows(f) ==
    LET fam == oaFam[f]
        row == Row(f, fam.generation) IN
    /\ \A i \in DOMAIN oaRow[f] : oaRow[f][i].stage = "active" => f \in oaDone
    /\ oaRow[f] # <<>> =>
          /\ fam.present /\ Len(oaRow[f]) = fam.generation + 1
          /\ row.stage = fam.stage
          /\ \/ row.deviceEpoch = fam.deviceEpoch
             \/ row.stage = "recovery" /\ f \in oaDone /\ row.deviceEpoch + 1 = fam.deviceEpoch
          /\ row.refresh \/ fam.revoked
    /\ oaRow[f] = <<>> /\ fam.present => oaHeld[f] = -1

FamilyInv(f) == Begun(f) /\ Spent(f) /\ Authority(f) /\ Rows(f)

OaIInv == StoreTyped /\ \A f \in OaFams : FamilyInv(f)

(* The assumptions on the constants, as the proofs use them. *)
LEMMA OaConstants ==
    /\ OaMaxGen \in Nat /\ OaMaxVersion \in Nat /\ OaMaxEvents \in Nat
    /\ 0 .. OaMaxGen + 1 = 0 .. (OaMaxGen + 1)
    /\ \A g \in 0 .. OaMaxGen : g \in 0 .. OaMaxGen + 1 /\ g + 1 \in 0 .. OaMaxGen + 1
BY OaAssumption

(* No family, no row and no consent yet.                                   *)
LEMMA OaInitInv == OaInit => OaIInv
<1> SUFFICES ASSUME OaInit PROVE OaIInv  OBVIOUS
<1> USE OaConstants DEF OaInit, NoFam
<1>1. StoreTyped
  BY DEF StoreTyped, FamilyRec, RowRec, OaStages
<1>2. ASSUME NEW f \in OaFams PROVE FamilyInv(f)
  BY DEF FamilyInv, Begun, Spent, Authority, Rows, OaStages
<1> QED  BY <1>1, <1>2 DEF OaIInv

(* A step that leaves the store alone, but for the account, what was read  *)
(* of it, and the clean-ups that are owed.                                 *)
LEMMA OaIdle ==
    ASSUME OaIInv, oaAcct' \in 0 .. OaMaxVersion, oaLook' \subseteq 0 .. OaMaxVersion,
           oaCleanup' \subseteq {f \in OaFams : oaFlow[f].phase = "consumed"},
           UNCHANGED <<oaFlow, oaGrant, oaHeld, oaDead, oaSpent, oaStored>>
    PROVE  OaIInv'
<1> USE DEF OaIInv, oaStored
<1>1. StoreTyped'  BY DEF StoreTyped
<1>2. ASSUME NEW h \in OaFams PROVE FamilyInv(h)'
  BY DEF FamilyInv, Begun, Spent, Authority, Rows, Row
<1> QED  BY <1>1, <1>2

(* Nothing about any family changes with the account, a look at it, the    *)
(* crash that forgets a clean-up, or a reported replay.                    *)
LEMMA OaQuiet ==
    ASSUME OaIInv,
           \/ OaAccountChange \/ OaLookup \/ OaCrash
           \/ \E f \in OaFams : OaReplayCode(f) \/ \E g \in 0 .. OaMaxGen : OaReplayRefresh(f, g)
    PROVE  OaIInv'
<1> USE DEF OaIInv, oaStored
<1>0. oaCleanup \subseteq {f \in OaFams : oaFlow[f].phase = "consumed"}
  BY DEF StoreTyped, FamilyInv, Begun
<1>1. CASE OaAccountChange
  <2>1. oaAcct + 1 \in 0 .. OaMaxVersion
    BY <1>1, OaConstants DEF OaAccountChange, StoreTyped
  <2> QED  BY <1>0, <1>1, <2>1, OaIdle DEF OaAccountChange, StoreTyped
<1>5. CASE OaLookup
  BY <1>0, <1>5, OaIdle DEF OaLookup, StoreTyped
<1>2. CASE OaCrash
  BY <1>2, OaIdle DEF OaCrash, OaTokenRest, StoreTyped
<1>3. ASSUME NEW f \in OaFams, OaReplayCode(f) PROVE OaIInv'
  <2>1. oaFlow[f].phase = "consumed"  BY <1>3 DEF OaReplayCode, FamilyInv, Begun
  <2> QED  BY <1>0, <1>3, <2>1, OaIdle DEF OaReplayCode, OaTokenRest, StoreTyped
<1>4. ASSUME NEW f \in OaFams, NEW g \in 0 .. OaMaxGen, OaReplayRefresh(f, g) PROVE OaIInv'
  <2>1. oaRow[f] # <<>>  BY <1>4 DEF OaReplayRefresh, OaIssued
  <2>2. oaFlow[f].phase = "consumed"  BY <2>1 DEF FamilyInv, Begun
  <2> QED  BY <1>0, <1>4, <2>2, OaIdle DEF OaReplayRefresh, OaTokenRest, StoreTyped
<1> QED  BY <1>1, <1>2, <1>3, <1>4, <1>5

(* What withdraws the authority of every family that is there.             *)
Withdrawn(r) == [r EXCEPT !.revoked = @ \/ r.present]

(* Withdrawn marks a family that is there, and touches nothing else.       *)
LEMMA WithdrawnRec ==
    ASSUME NEW r \in FamilyRec
    PROVE  /\ Withdrawn(r) \in FamilyRec
           /\ Withdrawn(r).present = r.present /\ Withdrawn(r).stage = r.stage
           /\ Withdrawn(r).ownerEpoch = r.ownerEpoch /\ Withdrawn(r).deviceEpoch = r.deviceEpoch
           /\ Withdrawn(r).generation = r.generation /\ Withdrawn(r).version = r.version
           /\ Withdrawn(r).over = r.over
           /\ Withdrawn(r).revoked <=> r.revoked \/ r.present
<1>1. (r.revoked \/ r.present) \in BOOLEAN  OBVIOUS
<1> DEFINE b == r.revoked \/ r.present
<1>2. Withdrawn(r) = [r EXCEPT !.revoked = b]  BY DEF Withdrawn
<1> HIDE DEF b
<1>3. b \in BOOLEAN  BY <1>1 DEF b
<1>4. [r EXCEPT !.revoked = b] \in FamilyRec  BY <1>3 DEF FamilyRec
<1>5. /\ Withdrawn(r).present = r.present /\ Withdrawn(r).stage = r.stage
      /\ Withdrawn(r).ownerEpoch = r.ownerEpoch /\ Withdrawn(r).deviceEpoch = r.deviceEpoch
      /\ Withdrawn(r).generation = r.generation /\ Withdrawn(r).version = r.version
      /\ Withdrawn(r).over = r.over /\ Withdrawn(r).revoked = b
  BY <1>2 DEF FamilyRec
<1> QED  BY <1>2, <1>4, <1>5 DEF b

(* The account was synced with another version: every family there ends.  *)
LEMMA OaSyncInv ==
    ASSUME OaIInv, NEW v \in 0 .. OaMaxVersion, OaSync(v)
    PROVE  OaIInv'
<1> USE OaConstants DEF OaIInv
<1>1. CASE oaOwner.stamp = v
  BY <1>1, OaIdle DEF OaSync, SyncAccount, oaStored, StoreTyped, FamilyInv, Begun
<1>2. CASE oaOwner.stamp # v
  <2>0. oaFam' = [f \in OaFams |-> Withdrawn(oaFam[f])]
    BY <1>2, Zenon DEF OaSync, SyncAccount, Withdrawn
  <2>1. \A f \in OaFams : oaFam[f] \in FamilyRec  BY DEF StoreTyped
  <2>2. \A f \in OaFams : oaFam'[f] = Withdrawn(oaFam[f])  BY <2>0
  <2>3. oaFam' \in [OaFams -> FamilyRec]  BY <2>0, <2>1, WithdrawnRec
  <2> USE <1>2 DEF OaSync, SyncAccount, Present
  <2>4. StoreTyped'
    <3> HIDE DEF Withdrawn
    <3> QED  BY <2>3 DEF StoreTyped
  <2>6. /\ oaOwner'.epoch = oaOwner.epoch + 1 /\ oaOwner'.stamp = v /\ oaOwner.epoch \in Nat
        /\ UNCHANGED <<oaDev, oaRow, oaDone, oaFlow, oaGrant, oaHeld, oaCleanup, oaSpent>>
    BY DEF StoreTyped
  <2>5. ASSUME NEW h \in OaFams PROVE FamilyInv(h)'
    <3>0. h \in oaDead' <=> (h \in oaDead \/ oaFam[h].present)  OBVIOUS
    <3>1. Begun(h)' /\ Spent(h)'
      BY <2>1, <2>2, <3>0, WithdrawnRec DEF FamilyInv, Begun, Spent
    <3> HIDE DEF Withdrawn, SyncAccount, OaSync, Present
    <3>4. oaFam[h] \in FamilyRec /\ FamilyInv(h)  BY <2>1
    <3>2. Authority(h)'
      BY SMTT(30), <2>2, <2>6, <3>0, <3>4, WithdrawnRec DEF FamilyInv, Begun, Authority, FamilyRec
    <3>3. Rows(h)'
      BY SMTT(30), <2>2, <2>6, <3>4, WithdrawnRec DEF FamilyInv, Rows, Row
    <3> QED  BY <3>1, <3>2, <3>3 DEF FamilyInv
  <2> QED  BY <2>4, <2>5
<1> QED  BY <1>1, <1>2

(* A family that a step does not touch.                                    *)
LEMMA OaOthers ==
    ASSUME OaIInv, NEW h \in OaFams,
           oaFlow'[h] = oaFlow[h], oaGrant'[h] = oaGrant[h], oaFam'[h] = oaFam[h],
           oaRow'[h] = oaRow[h], oaHeld'[h] = oaHeld[h],
           \A g \in 0 .. OaMaxGen + 1 : oaSpent'[<<h, g>>] = oaSpent[<<h, g>>],
           h \in oaDone' <=> h \in oaDone, h \in oaDead' <=> h \in oaDead,
           h \in oaCleanup' => h \in oaCleanup,
           oaOwner' = oaOwner, oaDev'.epoch = oaDev.epoch, oaDev'.revoked = oaDev.revoked,
           oaDev.activated => oaDev'.activated
    PROVE  FamilyInv(h)'
<1>0. FamilyInv(h)  BY DEF OaIInv
<1>1. Begun(h)' /\ Spent(h)'  BY <1>0, OaConstants DEF FamilyInv, Begun, Spent
<1>2. Authority(h)'  BY <1>0 DEF FamilyInv, Authority
<1>3. Rows(h)'  BY <1>0 DEF FamilyInv, Rows, Row
<1> QED  BY <1>1, <1>2, <1>3 DEF FamilyInv

(* A sign-in before its consent. *)
LEMMA OaFlowInv ==
    ASSUME OaIInv, NEW f \in OaFams, OaBegin(f) \/ OaLogin(f) \/ OaDeny(f)
    PROVE  OaIInv'
<1> USE OaConstants DEF OaIInv
<1>1. /\ UNCHANGED <<oaAcct, oaLook, oaStored, oaHeld, oaCleanup, oaDead, oaSpent>>
      /\ oaFlow[f].phase # "consumed"
      /\ oaGrant'[f].state \notin {"code", "approved", "used"}
      /\ oaFlow' \in [OaFams -> [phase : {"none", "login", "consent", "consumed"}, stamp : Nat]]
      /\ oaGrant' \in [OaFams -> [state : {"none", "pending", "code", "approved", "denied", "used"},
                                  stamp : Nat]]
      /\ \A h \in OaFams : h # f => oaFlow'[h] = oaFlow[h] /\ oaGrant'[h] = oaGrant[h]
  <2>1. CASE OaBegin(f)
    BY ZenonT(30), <2>1 DEF OaBegin, OaFlowRest, StoreTyped, oaStored
  <2>2. CASE OaLogin(f)
    <3>1. oaGrant[f].state \notin {"code", "approved", "used"}
      BY <2>2 DEF OaLogin, FamilyInv, Begun
    <3>2. oaAcct \in Nat  BY DEF StoreTyped
    <3> DEFINE seen == [oaFlow EXCEPT ![f].phase = "consent"]
               T == [OaFams -> [phase : {"none", "login", "consent", "consumed"}, stamp : Nat]]
    <3>3. seen \in T /\ \A h \in OaFams : h # f => seen[h] = oaFlow[h]  BY DEF StoreTyped
    <3>4. oaFlow' = [seen EXCEPT ![f].stamp = oaAcct] /\ UNCHANGED oaGrant
          /\ UNCHANGED <<oaAcct, oaLook, oaStored, oaHeld, oaCleanup, oaDead, oaSpent>>
          /\ oaFlow[f].phase # "consumed"
      BY <2>2 DEF OaLogin, OaFlowRest, oaStored
    <3> HIDE DEF seen
    <3>5. oaFlow' \in T /\ \A h \in OaFams : h # f => oaFlow'[h] = oaFlow[h]
      BY <3>2, <3>3, <3>4
    <3> QED  BY <3>1, <3>4, <3>5 DEF StoreTyped
  <2>3. CASE OaDeny(f)
    BY ZenonT(30), <2>3 DEF OaDeny, OaFlowRest, StoreTyped, oaStored
  <2> QED  BY <2>1, <2>2, <2>3
<1> USE <1>1 DEF oaStored
<1>2. StoreTyped'  BY DEF StoreTyped
<1>3. FamilyInv(f)'
  BY DEF FamilyInv, Begun, Spent, Authority, Rows, Row
<1>4. ASSUME NEW h \in OaFams, h # f PROVE FamilyInv(h)'
  BY <1>4, OaOthers
<1> QED  BY <1>2, <1>3, <1>4

(* Consent makes the family, of the epochs that stand. *)
LEMMA OaConsentInv ==
    ASSUME OaIInv, NEW f \in OaFams, OaConsent(f)
    PROVE  OaIInv'
<1> USE OaConstants DEF OaIInv, OaConsent, OaFlowRest, Guarded
<1>1. NewFamily \in FamilyRec
  BY DEF NewFamily, FamilyRec, StoreTyped, OaStages
<1>2. StoreTyped'  BY <1>1 DEF StoreTyped
<1>3. oaFam'[f] = NewFamily  BY DEF StoreTyped
<1>4. FamilyInv(f)'
  <2>0. FamilyInv(f) /\ oaFlow'[f].phase = "consumed" /\ oaFlow[f].phase = "consent"
    BY DEF StoreTyped
  <2>1. Begun(f)' /\ Spent(f)'
    BY <1>3, <2>0 DEF FamilyInv, Begun, Spent, NewFamily, StoreTyped
  <2>2. /\ oaDev'.epoch = oaDev.epoch /\ oaDev'.revoked = oaDev.revoked
        /\ oaDev'.activated = oaDev.activated
        /\ UNCHANGED <<oaOwner, oaDead, oaDone, oaRow, oaHeld, oaAcct>>
    BY DEF StoreTyped
  <2>3. Authority(f)'
    BY <1>3, <2>0, <2>2 DEF FamilyInv, Begun, Authority, NewFamily, StoreTyped
  <2>4. Rows(f)'
    BY <1>3, <2>0, <2>2 DEF FamilyInv, Begun, Rows, Row
  <2> QED  BY <2>1, <2>3, <2>4 DEF FamilyInv
<1>5. ASSUME NEW h \in OaFams, h # f PROVE FamilyInv(h)'
  BY <1>5, OaOthers DEF StoreTyped
<1> QED  BY <1>2, <1>4, <1>5

(* The first tokens. *)
LEMMA OaRedeemInv ==
    ASSUME OaIInv, NEW f \in OaFams, OaRedeem(f)
    PROVE  OaIInv'
<1> USE OaConstants DEF OaIInv, OaRedeem, OaTokenRest, OaGrantUsed
<1>0. FamilyInv(f) /\ oaFam[f] \in FamilyRec /\ 0 \in 0 .. OaMaxGen + 1  BY DEF StoreTyped
<1>1. /\ oaGrant[f].state \in {"code", "approved"} /\ oaFlow[f].phase = "consumed"
      /\ oaFam[f].present /\ ~oaFam[f].revoked /\ oaFam[f].generation = 0
      /\ oaSpent[<<f, 0>>] = 0 /\ oaRow[f] = <<>>
  BY <1>0 DEF OaLive, FamilyInv, Begun, Spent
<1>2. /\ NewRow(oaFam[f]) \in RowRec
      /\ NewRow(oaFam[f]).stage = oaFam[f].stage /\ NewRow(oaFam[f]).refresh
      /\ NewRow(oaFam[f]).deviceEpoch = oaFam[f].deviceEpoch
  BY <1>0 DEF NewRow, RowRec, FamilyRec
<1>3. /\ UNCHANGED <<oaFlow, oaFam, oaDone, oaDead, oaCleanup, oaOwner, oaDev>>
      /\ oaAcct' = oaAcct /\ oaLook' = oaLook
  OBVIOUS
<1>8. /\ oaGrant'[f].state = "used" /\ oaSpent'[<<f, 0>>] = oaSpent[<<f, 0>>] + 1
      /\ \A h \in OaFams : h # f => oaGrant'[h] = oaGrant[h]
  BY <1>0 DEF StoreTyped
<1>9. /\ oaHeld' \in [OaFams -> -1 .. OaMaxGen]
      /\ \A h \in OaFams : h # f => oaHeld'[h] = oaHeld[h]
  <2>1. 0 \in -1 .. OaMaxGen /\ oaHeld \in [OaFams -> -1 .. OaMaxGen]  BY DEF StoreTyped
  <2>2. Answered(f, 0)  OBVIOUS
  <2> HIDE DEF OaIInv, OaRedeem
  <2> QED  BY <2>1, <2>2 DEF Answered
<1> DEFINE row == NewRow(oaFam[f])
<1> HIDE DEF row
<1>10. oaRow' = [oaRow EXCEPT ![f] = <<row>>]  BY DEF row
<1>11. oaRow'[f] = <<row>> /\ \A h \in OaFams : h # f => oaRow'[h] = oaRow[h]
  BY <1>10 DEF StoreTyped
<1>4. \A h \in OaFams, g \in 0 .. OaMaxGen + 1 :
          <<h, g>> # <<f, 0>> => oaSpent'[<<h, g>>] = oaSpent[<<h, g>>]
  BY DEF StoreTyped
<1>5. StoreTyped'
  <2>1. oaRow' \in [OaFams -> Seq(RowRec)]
    <3>1. <<row>> \in Seq(RowRec)  BY <1>2 DEF row
    <3> QED  BY <1>10, <3>1 DEF StoreTyped
  <2>2. oaGrant' \in [OaFams -> [state : {"none", "pending", "code", "approved", "denied", "used"},
                                  stamp : Nat]]
    BY DEF StoreTyped
  <2>3. oaSpent' \in [OaFams \X (0 .. OaMaxGen + 1) -> Nat]  BY SMTT(30), <1>0 DEF StoreTyped
  <2> QED  BY <1>3, <1>9, <2>1, <2>2, <2>3 DEF StoreTyped
<1>6. FamilyInv(f)'
  <2>1. Begun(f)'  BY <1>1, <1>3 DEF Begun
  <2>2. Spent(f)'  BY <1>0, <1>1, <1>3, <1>4, <1>8 DEF FamilyInv, Spent
  <2>3. Authority(f)'  BY <1>0, <1>3 DEF FamilyInv, Authority
  <2>4. Rows(f)'
    <3> HIDE DEF OaRedeem, OaIInv
    <3>1. DOMAIN <<row>> = {1} /\ <<row>>[1] = row /\ Len(<<row>>) = 1 /\ <<row>> # <<>>  OBVIOUS
    <3>2. row.stage = "active" => f \in oaDone
      BY <1>0, <1>1, <1>2 DEF FamilyInv, Authority, row
    <3>4. row.stage = oaFam[f].stage /\ row.refresh /\ row.deviceEpoch = oaFam[f].deviceEpoch
      BY <1>2 DEF row
    <3> QED  BY <1>1, <1>3, <1>11, <3>1, <3>2, <3>4 DEF Rows, Row
  <2> QED  BY <2>1, <2>2, <2>3, <2>4 DEF FamilyInv
<1>7. ASSUME NEW h \in OaFams, h # f PROVE FamilyInv(h)'
  <2>1. \A g \in 0 .. OaMaxGen + 1 : oaSpent'[<<h, g>>] = oaSpent[<<h, g>>]  BY <1>4, <1>7
  <2> QED  BY <1>3, <1>7, <1>8, <1>9, <1>11, <2>1, OaOthers
<1> QED  BY <1>5, <1>6, <1>7

(* RotateRefreshToken keeps the length of the rows, their stages and their *)
(* epochs.                                                                 *)
LEMMA RotatedRows ==
    ASSUME NEW f \in OaFams, NEW g \in 0 .. OaMaxGen, oaRow[f] \in Seq(RowRec)
    PROVE  /\ OaRotated(f, g) \in Seq(RowRec) /\ Len(OaRotated(f, g)) = Len(oaRow[f])
           /\ DOMAIN OaRotated(f, g) = DOMAIN oaRow[f]
           /\ \A i \in DOMAIN oaRow[f] :
                 /\ OaRotated(f, g)[i].stage = oaRow[f][i].stage
                 /\ OaRotated(f, g)[i].deviceEpoch = oaRow[f][i].deviceEpoch
                 /\ OaRotated(f, g)[i].access = FALSE
                 /\ OaRotated(f, g)[i].refresh => oaRow[f][i].refresh
                 /\ i = g + 1 => ~OaRotated(f, g)[i].refresh
<1> DEFINE r == oaRow[f]
           bit(i) == r[i].refresh /\ i # g + 1
           rot(i) == [r[i] EXCEPT !.access = FALSE, !.refresh = bit(i)]
<1>1. OaRotated(f, g) = [i \in DOMAIN r |-> rot(i)]  BY Zenon DEF OaRotated
<1>2. ASSUME NEW i \in DOMAIN r
      PROVE  /\ rot(i) \in RowRec /\ rot(i).stage = r[i].stage
             /\ rot(i).deviceEpoch = r[i].deviceEpoch
             /\ rot(i).access = FALSE /\ rot(i).refresh = bit(i)
  <2>1. r[i] \in RowRec  OBVIOUS
  <2>2. bit(i) \in BOOLEAN  OBVIOUS
  <2> HIDE DEF bit, r
  <2> QED  BY <2>1, <2>2 DEF RowRec
<1>3. r \in Seq(RowRec)  OBVIOUS
<1>4. DOMAIN r = 1 .. Len(r) /\ Len(r) \in Nat  BY <1>3
<1>5. [i \in DOMAIN r |-> rot(i)] \in Seq(RowRec) /\ Len([i \in DOMAIN r |-> rot(i)]) = Len(r)
  <2> HIDE DEF rot, r
  <2> DEFINE fn == [i \in DOMAIN r |-> rot(i)]
  <2>1. \A i \in DOMAIN r : rot(i) \in RowRec  BY <1>2
  <2> HIDE DEF rot, r
  <2>2. fn \in [1 .. Len(r) -> RowRec]  BY <2>1, <1>4
  <2>3. fn \in Seq(RowRec)  BY <2>2, <1>4, SeqDef
  <2>4. Len(fn) = Len(r)
    <3> HIDE DEF fn
    <3> QED  BY <2>2, <2>3, <1>4, LenProperties
  <2> QED  BY <2>3, <2>4
<1>6. \A i \in DOMAIN r : [j \in DOMAIN r |-> rot(j)][i] = rot(i)  OBVIOUS
<1> QED
  <2>1. \A i \in DOMAIN r : bit(i) => r[i].refresh /\ i # g + 1  OBVIOUS
  <2> HIDE DEF rot, bit
  <2> QED  BY <1>1, <1>2, <1>5, <1>6, <2>1

(* The next generation of a family. *)
NextGen(f) == [Finalized(f) EXCEPT !.generation = @ + 1]

(* NextGen: the next number, the same epochs, and a row that agrees.       *)
LEMMA NextGenRec ==
    ASSUME NEW f \in OaFams, oaFam[f] \in FamilyRec, oaFam[f].generation < OaMaxGen
    PROVE  /\ NextGen(f) \in FamilyRec
           /\ NextGen(f).generation = oaFam[f].generation + 1
           /\ NextGen(f).present = oaFam[f].present /\ NextGen(f).over = oaFam[f].over
           /\ NextGen(f).ownerEpoch = oaFam[f].ownerEpoch
           /\ NextGen(f).deviceEpoch = oaFam[f].deviceEpoch
           /\ NextGen(f).revoked = oaFam[f].revoked /\ NextGen(f).version = oaFam[f].version
           /\ NextGen(f).stage = "active" => f \in oaDone \/ oaFam[f].stage = "active"
           /\ NewRow(NextGen(f)) \in RowRec /\ NewRow(NextGen(f)).refresh
           /\ NewRow(NextGen(f)).stage = NextGen(f).stage
           /\ NewRow(NextGen(f)).deviceEpoch = NextGen(f).deviceEpoch
<1> USE OaConstants
<1>1. /\ Finalized(f) \in FamilyRec /\ Finalized(f).generation = oaFam[f].generation
      /\ Finalized(f).present = oaFam[f].present /\ Finalized(f).over = oaFam[f].over
      /\ Finalized(f).ownerEpoch = oaFam[f].ownerEpoch
      /\ Finalized(f).deviceEpoch = oaFam[f].deviceEpoch
      /\ Finalized(f).revoked = oaFam[f].revoked /\ Finalized(f).version = oaFam[f].version
      /\ Finalized(f).stage = "active" => f \in oaDone \/ oaFam[f].stage = "active"
  BY DEF Finalized, FamilyRec, OaStages
<1> DEFINE fin == Finalized(f)
<1>2. NextGen(f) = [fin EXCEPT !.generation = @ + 1]  BY Zenon DEF NextGen
<1> HIDE DEF fin
<1>3. fin \in FamilyRec /\ fin.generation + 1 \in 0 .. OaMaxGen
  <2>1. oaFam[f].generation \in 0 .. OaMaxGen  BY DEF FamilyRec
  <2>2. fin \in FamilyRec /\ fin.generation = oaFam[f].generation  BY <1>1 DEF fin
  <2> QED  BY <2>1, <2>2
<1>4. /\ NextGen(f) \in FamilyRec /\ NextGen(f).generation = fin.generation + 1
      /\ NextGen(f).present = fin.present /\ NextGen(f).over = fin.over
      /\ NextGen(f).ownerEpoch = fin.ownerEpoch /\ NextGen(f).deviceEpoch = fin.deviceEpoch
      /\ NextGen(f).revoked = fin.revoked /\ NextGen(f).version = fin.version
      /\ NextGen(f).stage = fin.stage
  BY <1>2, <1>3 DEF FamilyRec
<1>5. /\ NewRow(NextGen(f)) \in RowRec /\ NewRow(NextGen(f)).refresh
      /\ NewRow(NextGen(f)).stage = NextGen(f).stage
      /\ NewRow(NextGen(f)).deviceEpoch = NextGen(f).deviceEpoch
  <2> HIDE DEF NextGen
  <2> QED  BY <1>4 DEF NewRow, RowRec, FamilyRec
<1>6. /\ fin.generation = oaFam[f].generation /\ fin.present = oaFam[f].present
      /\ fin.over = oaFam[f].over /\ fin.ownerEpoch = oaFam[f].ownerEpoch
      /\ fin.deviceEpoch = oaFam[f].deviceEpoch /\ fin.revoked = oaFam[f].revoked
      /\ fin.version = oaFam[f].version
      /\ fin.stage = "active" => f \in oaDone \/ oaFam[f].stage = "active"
  BY <1>1 DEF fin
<1> QED
  <2> HIDE DEF NextGen, NewRow
  <2> QED  BY <1>4, <1>5, <1>6

(* A generation follows the last, and takes its place. *)
LEMMA OaRefreshInv ==
    ASSUME OaIInv, NEW f \in OaFams, NEW g \in 0 .. OaMaxGen, OaRefresh(f, g)
    PROVE  OaIInv'
<1> USE OaConstants DEF OaIInv
<1>0. FamilyInv(f) /\ oaFam[f] \in FamilyRec /\ oaRow[f] \in Seq(RowRec)  BY DEF StoreTyped
<1>1. /\ g = oaFam[f].generation /\ g < OaMaxGen /\ oaRow[f] # <<>> /\ oaFam[f].present
      /\ ~oaFam[f].revoked /\ oaFlow[f].phase = "consumed"
      /\ oaGrant[f].state \notin {"code", "approved"} /\ Len(oaRow[f]) = g + 1
  BY SMTT(30), <1>0 DEF OaRefresh, RefreshOk, OaBound, OaLive, OaIssued, FamilyInv, Begun, Spent, Rows
<1> DEFINE fam == NextGen(f)
           rot == OaRotated(f, g)
           row == NewRow(NextGen(f))
<1>2. /\ oaFam' = [oaFam EXCEPT ![f] = fam]
      /\ oaRow' = [oaRow EXCEPT ![f] = Append(rot, row)]
      /\ oaSpent' = [oaSpent EXCEPT ![<<f, g + 1>>] = @ + 1]
      /\ Answered(f, g + 1)
      /\ UNCHANGED <<oaGrant, oaCleanup, oaDead, oaAcct, oaLook, oaOwner, oaDev, oaFlow, oaDone>>
  BY Zenon DEF OaRefresh, OaTokenRest, NextGen
<1>3. /\ rot \in Seq(RowRec) /\ Len(rot) = g + 1 /\ DOMAIN rot = DOMAIN oaRow[f]
      /\ \A i \in DOMAIN rot : rot[i].stage = oaRow[f][i].stage
  <2> HIDE DEF OaRefresh, OaIInv
  <2>1. /\ OaRotated(f, g) \in Seq(RowRec) /\ Len(OaRotated(f, g)) = Len(oaRow[f])
        /\ DOMAIN OaRotated(f, g) = DOMAIN oaRow[f]
        /\ \A i \in DOMAIN oaRow[f] : OaRotated(f, g)[i].stage = oaRow[f][i].stage
    BY <1>0, RotatedRows, ZenonT(30)
  <2> HIDE DEF OaRotated
  <2> QED  BY <1>1, <2>1
<1>4. /\ fam \in FamilyRec /\ fam.generation = g + 1 /\ fam.present
      /\ fam.ownerEpoch = oaFam[f].ownerEpoch /\ fam.deviceEpoch = oaFam[f].deviceEpoch
      /\ fam.revoked = oaFam[f].revoked /\ fam.version = oaFam[f].version
      /\ fam.stage = "active" => f \in oaDone \/ oaFam[f].stage = "active"
      /\ row \in RowRec /\ row.refresh /\ row.stage = fam.stage
      /\ row.deviceEpoch = fam.deviceEpoch
  BY <1>0, <1>1, NextGenRec
<1> HIDE DEF fam, rot, row
<1>5. /\ oaFam'[f] = fam /\ oaRow'[f] = Append(rot, row)
      /\ \A h \in OaFams : h # f => oaFam'[h] = oaFam[h] /\ oaRow'[h] = oaRow[h]
  BY <1>2 DEF StoreTyped
<1>6. /\ oaSpent'[<<f, g + 1>>] = oaSpent[<<f, g + 1>>] + 1
      /\ \A h \in OaFams, c \in 0 .. OaMaxGen + 1 :
            <<h, c>> # <<f, g + 1>> => oaSpent'[<<h, c>>] = oaSpent[<<h, c>>]
      /\ oaSpent' \in [OaFams \X (0 .. OaMaxGen + 1) -> Nat]
  BY SMTT(30), <1>2 DEF StoreTyped
<1>7. /\ oaHeld' \in [OaFams -> -1 .. OaMaxGen]
      /\ \A h \in OaFams : h # f => oaHeld'[h] = oaHeld[h]
  <2>1. g + 1 \in -1 .. OaMaxGen  BY <1>1
  <2> QED  BY ZenonT(30), <1>2, <2>1 DEF StoreTyped, Answered
<1>8. /\ Append(rot, row) \in Seq(RowRec) /\ Len(Append(rot, row)) = g + 2
      /\ Append(rot, row)[g + 2] = row
      /\ \A i \in 1 .. g + 1 : Append(rot, row)[i] = rot[i]
      /\ DOMAIN Append(rot, row) = 1 .. g + 2 /\ DOMAIN rot = 1 .. g + 1
      /\ Append(rot, row) # <<>>
  BY <1>3, <1>4
<1>9. StoreTyped'
  <2>1. oaFam' \in [OaFams -> FamilyRec] /\ oaRow' \in [OaFams -> Seq(RowRec)]
    BY <1>2, <1>4, <1>8 DEF StoreTyped
  <2> QED  BY <1>2, <1>6, <1>7, <2>1 DEF StoreTyped
<1>10. FamilyInv(f)'
  <2>1. Begun(f)'  BY <1>1, <1>2 DEF Begun
  <2>2. Spent(f)'  BY SMTT(30), <1>0, <1>1, <1>2, <1>4, <1>5, <1>6 DEF FamilyInv, Spent
  <2>3. Authority(f)'
    <3>1. Authority(f)  BY <1>0 DEF FamilyInv
    <3> QED  BY <1>1, <1>2, <1>4, <1>5, <3>1 DEF Authority
  <2>4. Rows(f)'
    <3>1. Authority(f) /\ Rows(f)  BY <1>0 DEF FamilyInv
    <3>2. row.stage = "active" => f \in oaDone  BY <1>1, <1>4, <3>1 DEF Authority
    <3>3. \A i \in DOMAIN rot : rot[i].stage = "active" => f \in oaDone
      BY <1>3, <3>1 DEF Rows
    <3>4. \A i \in 1 .. g + 2 : i \in 1 .. g + 1 \/ i = g + 2  OBVIOUS
    <3>5. \A i \in DOMAIN oaRow'[f] : oaRow'[f][i].stage = "active" => f \in oaDone
      BY <1>5, <1>8, <3>2, <3>3, <3>4
    <3>6. oaFam'[f].generation + 1 = g + 2  BY <1>4, <1>5
    <3>7. oaRow'[f][oaFam'[f].generation + 1] = row  BY <1>5, <1>8, <3>6
    <3> QED  BY <1>2, <1>4, <1>5, <1>8, <3>5, <3>6, <3>7 DEF Rows, Row
  <2> QED  BY <2>1, <2>2, <2>3, <2>4 DEF FamilyInv
<1>11. ASSUME NEW h \in OaFams, h # f PROVE FamilyInv(h)'
  <2>1. \A c \in 0 .. OaMaxGen + 1 : oaSpent'[<<h, c>>] = oaSpent[<<h, c>>]  BY <1>6, <1>11
  <2> QED  BY <1>2, <1>5, <1>7, <1>11, <2>1, OaOthers
<1> QED  BY <1>9, <1>10, <1>11

(* A row for a row. *)
LEMMA RowForRow ==
    ASSUME NEW r \in Seq(RowRec), NEW q \in [DOMAIN r -> RowRec]
    PROVE  /\ q \in Seq(RowRec) /\ Len(q) = Len(r) /\ DOMAIN q = DOMAIN r
           /\ q = <<>> <=> r = <<>>
<1>1. DOMAIN r = 1 .. Len(r) /\ Len(r) \in Nat  OBVIOUS
<1>2. q \in Seq(RowRec)  BY <1>1, SeqDef
<1>3. DOMAIN q = 1 .. Len(q) /\ Len(q) \in Nat  BY <1>2
<1>4. Len(q) = Len(r)  BY <1>1, <1>2, LenProperties
<1> QED  BY <1>1, <1>2, <1>3, <1>4

(* Rows that lose their tokens keep the rest. *)
LEMMA SilencedRows ==
    ASSUME NEW r \in Seq(RowRec)
    PROVE  /\ Silenced(r) \in [DOMAIN r -> RowRec]
           /\ \A i \in DOMAIN r :
                 /\ Silenced(r)[i].stage = r[i].stage
                 /\ Silenced(r)[i].deviceEpoch = r[i].deviceEpoch
                 /\ ~Silenced(r)[i].refresh /\ ~Silenced(r)[i].access
<1>1. \A i \in DOMAIN r : r[i] \in RowRec  OBVIOUS
<1> QED  BY <1>1 DEF Silenced, RowRec

(* A family is revoked with its rows. *)
LEMMA OaRevokedInv ==
    ASSUME OaIInv, NEW f \in OaFams, OaCleanUp(f) \/ OaRevoke(f)
    PROVE  OaIInv'
<1> USE OaConstants DEF OaIInv
<1>0. FamilyInv(f) /\ oaFam[f] \in FamilyRec /\ oaRow[f] \in Seq(RowRec)  BY DEF StoreTyped
<1>1. oaFlow[f].phase = "consumed"
  BY <1>0 DEF OaCleanUp, OaRevoke, FamilyInv, Begun
<1>2. /\ oaFam' = [oaFam EXCEPT ![f].revoked = TRUE]
      /\ oaRow' = [oaRow EXCEPT ![f] = Silenced(oaRow[f])]
      /\ oaGrant' = [oaGrant EXCEPT ![f].state = IF @ = "code" THEN "used" ELSE @]
      /\ oaDead' = oaDead \union {f} /\ oaCleanup' \subseteq oaCleanup
      /\ UNCHANGED <<oaHeld, oaSpent, oaAcct, oaLook, oaOwner, oaDev, oaFlow, oaDone>>
  BY DEF OaCleanUp, OaRevoke, OaRevoked, OaTokenRest
<1> DEFINE rows == Silenced(oaRow[f])
<1>3. /\ rows \in Seq(RowRec) /\ Len(rows) = Len(oaRow[f]) /\ DOMAIN rows = DOMAIN oaRow[f]
      /\ rows = <<>> <=> oaRow[f] = <<>>
      /\ \A i \in DOMAIN oaRow[f] : /\ rows[i].stage = oaRow[f][i].stage
                                    /\ rows[i].deviceEpoch = oaRow[f][i].deviceEpoch
  <2>1. rows \in [DOMAIN oaRow[f] -> RowRec]  BY <1>0, SilencedRows
  <2> HIDE DEF rows
  <2>2. /\ rows \in Seq(RowRec) /\ Len(rows) = Len(oaRow[f]) /\ DOMAIN rows = DOMAIN oaRow[f]
        /\ rows = <<>> <=> oaRow[f] = <<>>
    BY <1>0, <2>1, RowForRow
  <2> QED  BY <1>0, <2>2, SilencedRows DEF rows
<1> HIDE DEF rows
<1>4. oaRow' = [oaRow EXCEPT ![f] = rows]  BY <1>2 DEF rows
<1>5. /\ oaFam'[f] = [oaFam[f] EXCEPT !.revoked = TRUE] /\ oaRow'[f] = rows
      /\ oaGrant'[f].state = IF oaGrant[f].state = "code" THEN "used" ELSE oaGrant[f].state
      /\ \A h \in OaFams : h # f => /\ oaFam'[h] = oaFam[h] /\ oaRow'[h] = oaRow[h]
                                    /\ oaGrant'[h] = oaGrant[h]
  BY <1>2, <1>4 DEF StoreTyped
<1>6. /\ oaFam'[f].present = oaFam[f].present /\ oaFam'[f].stage = oaFam[f].stage
      /\ oaFam'[f].ownerEpoch = oaFam[f].ownerEpoch
      /\ oaFam'[f].deviceEpoch = oaFam[f].deviceEpoch
      /\ oaFam'[f].generation = oaFam[f].generation
      /\ oaFam'[f].version = oaFam[f].version /\ oaFam'[f].revoked
      /\ oaFam'[f] \in FamilyRec
  BY <1>0, <1>5 DEF FamilyRec
<1>7. StoreTyped'
  <2>1. oaFam' \in [OaFams -> FamilyRec]  BY <1>2, <1>5, <1>6 DEF StoreTyped
  <2>2. oaRow' \in [OaFams -> Seq(RowRec)]  BY <1>3, <1>4 DEF StoreTyped
  <2>3. oaGrant' \in [OaFams -> [state : {"none", "pending", "code", "approved", "denied", "used"},
                                 stamp : Nat]]
    BY ZenonT(30), <1>2 DEF StoreTyped
  <2> QED  BY <1>2, <2>1, <2>2, <2>3 DEF StoreTyped
<1>8. FamilyInv(f)'
  <2>1. Begun(f) /\ Spent(f) /\ Authority(f) /\ Rows(f)  BY <1>0 DEF FamilyInv
  <2>2. Begun(f)'  BY <1>1, <1>2 DEF Begun
  <2>3. Spent(f)'  BY <1>2, <1>3, <1>5, <1>6, <2>1 DEF Spent
  <2>4. Authority(f)'  BY <1>2, <1>6, <2>1 DEF Authority
  <2>5. Rows(f)'
    <3>1. oaRow[f] # <<>> => oaFam[f].generation + 1 \in DOMAIN oaRow[f]
      <4>1. oaRow[f] # <<>> => Len(oaRow[f]) = oaFam[f].generation + 1  BY <2>1 DEF Rows
      <4>2. DOMAIN oaRow[f] = 1 .. Len(oaRow[f]) /\ oaFam[f].generation \in Nat
        BY <1>0 DEF FamilyRec
      <4> QED  BY <4>1, <4>2
    <3> QED  BY <1>2, <1>3, <1>5, <1>6, <2>1, <3>1 DEF Rows, Row
  <2> QED  BY <2>2, <2>3, <2>4, <2>5 DEF FamilyInv
<1>9. ASSUME NEW h \in OaFams, h # f PROVE FamilyInv(h)'
  BY <1>2, <1>5, <1>9, OaOthers
<1> QED  BY <1>7, <1>8, <1>9

(* The device is revoked, and every family with it. *)
LEMMA OaRevokeDeviceInv ==
    ASSUME OaIInv, OaRevokeDevice
    PROVE  OaIInv'
<1> USE OaConstants DEF OaIInv
<1>0. oaFam' = [f \in OaFams |-> Withdrawn(oaFam[f])]
  BY Zenon DEF OaRevokeDevice, Withdrawn
<1>1. \A f \in OaFams : oaFam[f] \in FamilyRec  BY DEF StoreTyped
<1>2. \A f \in OaFams : oaFam'[f] = Withdrawn(oaFam[f])  BY <1>0
<1>3. oaFam' \in [OaFams -> FamilyRec]  BY <1>0, <1>1, WithdrawnRec
<1>4. /\ oaDev'.epoch = oaDev.epoch + 1 /\ oaDev'.revoked /\ oaDev'.activated = oaDev.activated
      /\ oaDev.epoch \in Nat
      /\ oaDev' \in [known : BOOLEAN, epoch : Nat, revoked : BOOLEAN, activated : BOOLEAN]
      /\ oaDead' = oaDead \union Present
      /\ UNCHANGED <<oaRow, oaDone, oaAcct, oaLook, oaOwner, oaFlow, oaGrant, oaHeld,
                     oaCleanup, oaSpent>>
  <2>1. /\ oaDev' = [oaDev EXCEPT !.epoch = @ + 1, !.revoked = TRUE]
        /\ oaDead' = oaDead \union Present
        /\ UNCHANGED <<oaRow, oaDone, oaAcct, oaLook, oaOwner, oaFlow, oaGrant, oaHeld,
                       oaCleanup, oaSpent>>
    BY DEF OaRevokeDevice, OaDeviceRest
  <2>2. oaDev \in [known : BOOLEAN, epoch : Nat, revoked : BOOLEAN, activated : BOOLEAN]
    BY DEF StoreTyped
  <2> DEFINE dev == [[oaDev EXCEPT !.epoch = @ + 1] EXCEPT !.revoked = TRUE]
             moved == [oaDev EXCEPT !.epoch = @ + 1]
  <2> HIDE DEF OaIInv
  <2>3. /\ moved \in [known : BOOLEAN, epoch : Nat, revoked : BOOLEAN, activated : BOOLEAN]
        /\ moved.epoch = oaDev.epoch + 1 /\ moved.activated = oaDev.activated
        /\ oaDev.epoch \in Nat
    BY <2>2
  <2>4. oaDev' = dev  BY <2>1
  <2>5. oaDev' = [moved EXCEPT !.revoked = TRUE]  BY <2>4
  <2> HIDE DEF moved
  <2> QED  BY <2>1, <2>3, <2>5
<1> HIDE DEF Withdrawn
<1>5. StoreTyped'
  BY <1>3, <1>4 DEF StoreTyped, Present
<1>6. ASSUME NEW h \in OaFams PROVE FamilyInv(h)'
  <2>0. h \in oaDead' <=> (h \in oaDead \/ oaFam[h].present)  BY <1>4 DEF Present
  <2>1. Begun(h) /\ Spent(h) /\ Authority(h) /\ Rows(h)  BY DEF FamilyInv
  <2>2. oaFam[h] \in FamilyRec /\ oaFam'[h] = Withdrawn(oaFam[h])  BY <1>1, <1>2
  <2>3. Begun(h)' /\ Spent(h)'
    BY <1>4, <2>0, <2>1, <2>2, WithdrawnRec DEF Begun, Spent
  <2>4. Authority(h)'
    BY <1>4, <2>0, <2>1, <2>2, WithdrawnRec DEF Authority, FamilyRec
  <2>5. Rows(h)'
    BY <1>4, <2>1, <2>2, WithdrawnRec DEF Rows, Row
  <2> QED  BY <2>3, <2>4, <2>5 DEF FamilyInv
<1> QED  BY <1>5, <1>6

(* The limit of a family passes, and the sweep takes it. *)
LEMMA OaClockInv ==
    ASSUME OaIInv, NEW f \in OaFams, OaTimeUp(f) \/ OaSweep(f)
    PROVE  OaIInv'
<1> USE OaConstants DEF OaIInv
<1>0. Begun(f) /\ Spent(f) /\ Authority(f) /\ Rows(f) /\ oaFam[f] \in FamilyRec
  BY DEF StoreTyped, FamilyInv
<1>1. oaFam[f].present /\ oaFlow[f].phase = "consumed"
  BY <1>0 DEF OaTimeUp, OaSweep, Begun
<1>2. /\ oaFam' \in [OaFams -> FamilyRec]
      /\ \A h \in OaFams : h # f => oaFam'[h] = oaFam[h]
      /\ oaFam'[f].stage = oaFam[f].stage /\ oaFam'[f].ownerEpoch = oaFam[f].ownerEpoch
      /\ oaFam'[f].deviceEpoch = oaFam[f].deviceEpoch
      /\ oaFam'[f].generation = oaFam[f].generation
      /\ oaFam'[f].version = oaFam[f].version /\ oaFam'[f].revoked = oaFam[f].revoked
      /\ OaTimeUp(f) => oaFam'[f].present
      /\ OaSweep(f) => ~oaFam'[f].present
  <2>1. \/ OaTimeUp(f) /\ oaFam' = [oaFam EXCEPT ![f] = [oaFam[f] EXCEPT !.over = TRUE]]
        \/ OaSweep(f) /\ oaFam' = [oaFam EXCEPT ![f] = [oaFam[f] EXCEPT !.present = FALSE]]
    BY DEF OaTimeUp, OaSweep, StoreTyped
  <2>2. oaFam \in [OaFams -> FamilyRec]  BY DEF StoreTyped
  <2>3. OaSweep(f) => ~OaTimeUp(f)  BY DEF OaTimeUp, OaSweep
  <2> HIDE DEF OaIInv
  <2>4. CASE OaTimeUp(f)
    <3> DEFINE r == [oaFam[f] EXCEPT !.over = TRUE]
    <3>1. r \in FamilyRec /\ r.stage = oaFam[f].stage /\ r.ownerEpoch = oaFam[f].ownerEpoch
          /\ r.deviceEpoch = oaFam[f].deviceEpoch /\ r.generation = oaFam[f].generation
          /\ r.version = oaFam[f].version /\ r.revoked = oaFam[f].revoked
          /\ r.present = oaFam[f].present
      BY <1>0 DEF FamilyRec
    <3> HIDE DEF r
    <3>2. oaFam' = [oaFam EXCEPT ![f] = r]  BY <2>1, <2>3, <2>4 DEF r
    <3> QED  BY <1>1, <2>2, <2>3, <2>4, <3>1, <3>2
  <2>5. CASE OaSweep(f)
    <3> DEFINE r == [oaFam[f] EXCEPT !.present = FALSE]
    <3>1. r \in FamilyRec /\ r.stage = oaFam[f].stage /\ r.ownerEpoch = oaFam[f].ownerEpoch
          /\ r.deviceEpoch = oaFam[f].deviceEpoch /\ r.generation = oaFam[f].generation
          /\ r.version = oaFam[f].version /\ r.revoked = oaFam[f].revoked
          /\ ~r.present
      BY <1>0 DEF FamilyRec
    <3> HIDE DEF r
    <3>2. oaFam' = [oaFam EXCEPT ![f] = r]  BY <2>1, <2>3, <2>5 DEF r
    <3> QED  BY <2>2, <2>3, <2>5, <3>1, <3>2
  <2> QED  BY <2>4, <2>5
<1>3. /\ UNCHANGED <<oaDev, oaDead, oaAcct, oaLook, oaOwner, oaFlow, oaGrant, oaHeld,
                     oaCleanup, oaSpent>>
      /\ \A h \in OaFams : h # f => oaRow'[h] = oaRow[h] /\ (h \in oaDone' <=> h \in oaDone)
      /\ oaRow' \in [OaFams -> Seq(RowRec)] /\ oaDone' \subseteq OaFams
      /\ \/ oaFam'[f].present /\ oaRow'[f] = oaRow[f] /\ oaDone' = oaDone
         \/ ~oaFam'[f].present /\ oaRow'[f] = <<>> /\ f \notin oaDone'
  <2>0. oaRow \in [OaFams -> Seq(RowRec)] /\ oaDone \subseteq OaFams  BY DEF StoreTyped
  <2> HIDE DEF OaIInv
  <2>1. CASE OaTimeUp(f)
    BY <1>2, <2>0, <2>1 DEF OaTimeUp, OaDeviceRest
  <2>2. CASE OaSweep(f)
    <3>1. <<>> \in Seq(RowRec)  OBVIOUS
    <3> QED  BY <1>2, <2>0, <2>2, <3>1 DEF OaSweep, OaDeviceRest
  <2> QED  BY <2>1, <2>2
<1>4. StoreTyped'  BY <1>2, <1>3 DEF StoreTyped
<1>5. FamilyInv(f)'
  <2>2. Begun(f)'  BY <1>1, <1>3 DEF Begun
  <2>3. Spent(f)'  BY <1>0, <1>2, <1>3 DEF Spent
  <2>4. Authority(f)'  BY <1>0, <1>1, <1>2, <1>3 DEF Authority
  <2>5. Rows(f)'  BY <1>0, <1>1, <1>2, <1>3 DEF Rows, Row
  <2> QED  BY <2>2, <2>3, <2>4, <2>5 DEF FamilyInv
<1>6. ASSUME NEW h \in OaFams, h # f PROVE FamilyInv(h)'
  BY <1>2, <1>3, <1>6, OaOthers
<1> QED  BY <1>4, <1>5, <1>6

(* Access tokens end, refresh tokens stay. *)
AccessEnded(rows) == [i \in DOMAIN rows |-> [rows[i] EXCEPT !.access = FALSE]]

(* AccessEnded ends the access tokens of rows and keeps the rest.          *)
LEMMA AccessEndedRows ==
    ASSUME NEW r \in Seq(RowRec)
    PROVE  /\ AccessEnded(r) \in [DOMAIN r -> RowRec]
           /\ \A i \in DOMAIN r :
                 /\ AccessEnded(r)[i].stage = r[i].stage
                 /\ AccessEnded(r)[i].deviceEpoch = r[i].deviceEpoch
                 /\ AccessEnded(r)[i].refresh = r[i].refresh /\ ~AccessEnded(r)[i].access
<1>1. \A i \in DOMAIN r : r[i] \in RowRec  OBVIOUS
<1> QED  BY <1>1 DEF AccessEnded, RowRec

(* The proof of a new device activates it. *)
LEMMA OaActivateInv ==
    ASSUME OaIInv, NEW f \in OaFams, NEW g \in 0 .. OaMaxGen, OaFinish(f, g),
           oaFam[f].stage # "recovery"
    PROVE  OaIInv'
<1> USE OaConstants DEF OaIInv
<1>0. Begun(f) /\ Spent(f) /\ Authority(f) /\ Rows(f)  BY DEF FamilyInv
<1>1. /\ oaDone' = oaDone \union {f}
      /\ UNCHANGED <<oaFam, oaRow, oaDead, oaAcct, oaLook, oaOwner, oaFlow, oaGrant, oaHeld,
                     oaCleanup, oaSpent>>
      /\ oaDev' = [oaDev EXCEPT !.activated = TRUE]
  BY DEF OaFinish, OaDeviceRest
<1>2. /\ oaDev' \in [known : BOOLEAN, epoch : Nat, revoked : BOOLEAN, activated : BOOLEAN]
      /\ oaDev'.epoch = oaDev.epoch /\ oaDev'.revoked = oaDev.revoked /\ oaDev'.activated
  BY <1>1 DEF StoreTyped
<1>3. StoreTyped'  BY <1>1, <1>2 DEF StoreTyped
<1>4. FamilyInv(f)'
  <2>1. Begun(f)' /\ Spent(f)'  BY <1>0, <1>1 DEF Begun, Spent
  <2>2. Authority(f)'  BY <1>0, <1>1, <1>2 DEF Authority
  <2>3. Rows(f)'  BY <1>0, <1>1 DEF Rows, Row
  <2> QED  BY <2>1, <2>2, <2>3 DEF FamilyInv
<1>5. ASSUME NEW h \in OaFams, h # f PROVE FamilyInv(h)'
  BY <1>1, <1>2, <1>5, OaOthers
<1> QED  BY <1>3, <1>4, <1>5

(* The proof of a recovery moves the device and its family to a new epoch  *)
(* and withdraws the others.                                               *)
LEMMA OaRecoverInv ==
    ASSUME OaIInv, NEW f \in OaFams, NEW g \in 0 .. OaMaxGen, OaFinish(f, g),
           oaFam[f].stage = "recovery"
    PROVE  OaIInv'
<1> USE OaConstants DEF OaIInv
<1>0. Begun(f) /\ Spent(f) /\ Authority(f) /\ Rows(f) /\ oaFam[f] \in FamilyRec
      /\ oaRow[f] \in Seq(RowRec)
  BY DEF FamilyInv, StoreTyped
<1> DEFINE epoch == oaDev.epoch + 1
           mine == [oaFam[f] EXCEPT !.deviceEpoch = epoch]
           rows == AccessEnded(oaRow[f])
<1>1. /\ oaFam[f].present /\ ~oaFam[f].revoked /\ oaDev.activated /\ ~oaDev.revoked
      /\ oaFam[f].deviceEpoch = oaDev.epoch /\ f \notin oaDone /\ f \notin oaDead
      /\ oaFlow[f].phase = "consumed"
  BY <1>0 DEF OaFinish, OaLive, Authority, Begun
<1>2. /\ oaDev' = [oaDev EXCEPT !.epoch = epoch]
      /\ oaFam' = [h \in OaFams |-> IF h = f THEN mine ELSE Withdrawn(oaFam[h])]
      /\ oaRow' = [oaRow EXCEPT ![f] = rows]
      /\ oaDead' = oaDead \union (Present \ {f})
      /\ oaDone' = oaDone \union {f}
      /\ UNCHANGED <<oaAcct, oaLook, oaOwner, oaFlow, oaGrant, oaHeld, oaCleanup, oaSpent>>
  BY DEF OaFinish, OaDeviceRest, AccessEnded, Withdrawn
<1>3. /\ oaDev' \in [known : BOOLEAN, epoch : Nat, revoked : BOOLEAN, activated : BOOLEAN]
      /\ oaDev'.epoch = epoch /\ oaDev'.revoked = oaDev.revoked
      /\ oaDev'.activated = oaDev.activated /\ oaDev.epoch \in Nat
  <2>1. oaDev \in [known : BOOLEAN, epoch : Nat, revoked : BOOLEAN, activated : BOOLEAN]
    BY DEF StoreTyped
  <2>2. epoch \in Nat /\ oaDev.epoch \in Nat  BY <2>1
  <2> HIDE DEF epoch, OaIInv
  <2> QED  BY <1>2, <2>1, <2>2
<1>4. /\ rows \in Seq(RowRec) /\ Len(rows) = Len(oaRow[f]) /\ DOMAIN rows = DOMAIN oaRow[f]
      /\ rows = <<>> <=> oaRow[f] = <<>>
      /\ \A i \in DOMAIN oaRow[f] : /\ rows[i].stage = oaRow[f][i].stage
                                    /\ rows[i].deviceEpoch = oaRow[f][i].deviceEpoch
                                    /\ rows[i].refresh = oaRow[f][i].refresh
  <2>1. rows \in [DOMAIN oaRow[f] -> RowRec]  BY <1>0, AccessEndedRows
  <2> HIDE DEF rows
  <2>2. /\ rows \in Seq(RowRec) /\ Len(rows) = Len(oaRow[f]) /\ DOMAIN rows = DOMAIN oaRow[f]
        /\ rows = <<>> <=> oaRow[f] = <<>>
    BY <1>0, <2>1, RowForRow
  <2> QED  BY <1>0, <2>2, AccessEndedRows DEF rows
<1> HIDE DEF rows
<1>5. /\ mine \in FamilyRec /\ mine.deviceEpoch = epoch /\ mine.present /\ ~mine.revoked
      /\ mine.stage = "recovery" /\ mine.ownerEpoch = oaFam[f].ownerEpoch
      /\ mine.generation = oaFam[f].generation /\ mine.version = oaFam[f].version
  BY <1>0, <1>1, <1>3 DEF FamilyRec
<1> HIDE DEF mine, epoch
<1>6. /\ oaFam'[f] = mine /\ \A h \in OaFams : h # f => oaFam'[h] = Withdrawn(oaFam[h])
      /\ oaRow'[f] = rows /\ \A h \in OaFams : h # f => oaRow'[h] = oaRow[h]
  BY <1>2 DEF StoreTyped
<1>7. StoreTyped'
  <2>1. oaFam' \in [OaFams -> FamilyRec]
    <3>1. \A h \in OaFams : oaFam[h] \in FamilyRec  BY DEF StoreTyped
    <3> HIDE DEF Withdrawn
    <3> QED  BY <1>2, <1>5, <3>1, WithdrawnRec
  <2>2. oaRow' \in [OaFams -> Seq(RowRec)]  BY <1>2, <1>4 DEF StoreTyped
  <2> QED  BY <1>2, <1>3, <2>1, <2>2 DEF StoreTyped, Present
<1>8. FamilyInv(f)'
  <2>0. f \notin oaDead' /\ f \in oaDone'  BY <1>1, <1>2
  <2>1. Begun(f)' /\ Spent(f)'
    BY <1>0, <1>1, <1>2, <1>4, <1>5, <1>6 DEF Begun, Spent
  <2>2. Authority(f)'
    BY <1>0, <1>1, <1>2, <1>3, <1>5, <1>6, <2>0 DEF Authority, epoch
  <2>3. Rows(f)'
    <3>1. oaRow[f] # <<>> => oaFam[f].generation + 1 \in DOMAIN oaRow[f]
      <4>1. oaRow[f] # <<>> => Len(oaRow[f]) = oaFam[f].generation + 1  BY <1>0 DEF Rows
      <4>2. DOMAIN oaRow[f] = 1 .. Len(oaRow[f]) /\ oaFam[f].generation \in Nat
        BY <1>0 DEF FamilyRec
      <4> QED  BY <4>1, <4>2
    <3>2. \A i \in DOMAIN oaRow'[f] : oaRow'[f][i].stage = "active" => f \in oaDone'
      BY <1>4, <1>6, <2>0
    <3>3. oaRow'[f] # <<>> =>
            LET row == Row(f, oaFam[f].generation) IN
            /\ oaRow[f] # <<>> /\ Row(f, oaFam[f].generation)'.stage = row.stage
            /\ Row(f, oaFam[f].generation)'.deviceEpoch = row.deviceEpoch
            /\ Row(f, oaFam[f].generation)'.refresh = row.refresh
            /\ oaFam'[f].generation = oaFam[f].generation
            /\ row.stage = "recovery" /\ row.deviceEpoch = oaDev.epoch
      BY <1>0, <1>1, <1>4, <1>5, <1>6, <3>1 DEF Rows, Row
    <3>4. oaRow'[f] # <<>> => Len(oaRow'[f]) = oaFam'[f].generation + 1
      BY <1>0, <1>4, <1>5, <1>6 DEF Rows
    <3>5. oaFam'[f].present /\ oaFam'[f].stage = "recovery" /\ oaFam'[f].deviceEpoch = oaDev.epoch + 1
      BY <1>5, <1>6 DEF epoch
    <3>6. oaRow'[f] # <<>> => Row(f, oaFam[f].generation)'.refresh \/ oaFam'[f].revoked
      BY <1>0, <1>1, <3>3 DEF Rows
    <3>7. oaRow'[f] = <<>> => oaHeld'[f] = -1
      BY <1>0, <1>1, <1>2, <1>4, <1>6 DEF Rows
    <3> QED  BY <2>0, <3>2, <3>3, <3>4, <3>5, <3>6, <3>7 DEF Rows, Row
  <2> QED  BY <2>1, <2>2, <2>3 DEF FamilyInv
<1>9. ASSUME NEW h \in OaFams, h # f PROVE FamilyInv(h)'
  <2>0. /\ h \in oaDead' <=> (h \in oaDead \/ oaFam[h].present)
        /\ h \in oaDone' <=> h \in oaDone
    BY <1>2, <1>9 DEF Present
  <2>1. Begun(h) /\ Spent(h) /\ Authority(h) /\ Rows(h)  BY DEF FamilyInv
  <2>2. oaFam[h] \in FamilyRec /\ oaFam'[h] = Withdrawn(oaFam[h]) /\ oaRow'[h] = oaRow[h]
    BY <1>6, <1>9 DEF StoreTyped
  <2> HIDE DEF OaIInv, Withdrawn
  <2>3. Begun(h)' /\ Spent(h)'
    BY <1>2, <2>0, <2>1, <2>2, WithdrawnRec DEF Begun, Spent
  <2>4. Authority(h)'
    <3>1. /\ oaFam[h].deviceEpoch \in Nat /\ oaFam'[h].deviceEpoch = oaFam[h].deviceEpoch
          /\ oaFam[h].deviceEpoch <= oaDev.epoch
      BY <2>1, <2>2, WithdrawnRec DEF Authority, FamilyRec
    <3>2. oaFam'[h].deviceEpoch <= oaDev'.epoch  BY <1>3, <3>1 DEF epoch
    <3>3. /\ oaFam'[h].present = oaFam[h].present /\ oaFam'[h].stage = oaFam[h].stage
          /\ oaFam'[h].ownerEpoch = oaFam[h].ownerEpoch
          /\ oaFam'[h].version = oaFam[h].version
          /\ oaFam'[h].revoked <=> oaFam[h].revoked \/ oaFam[h].present
      BY <2>2, WithdrawnRec
    <3> QED  BY <1>2, <1>3, <2>0, <2>1, <3>2, <3>3 DEF Authority
  <2>5. Rows(h)'
    <3>1. /\ oaFam'[h].present = oaFam[h].present /\ oaFam'[h].stage = oaFam[h].stage
          /\ oaFam'[h].generation = oaFam[h].generation
          /\ oaFam'[h].deviceEpoch = oaFam[h].deviceEpoch
          /\ oaFam'[h].revoked <=> oaFam[h].revoked \/ oaFam[h].present
      BY <2>2, WithdrawnRec
    <3>2. Rows(h) /\ oaRow'[h] = oaRow[h] /\ (h \in oaDone' <=> h \in oaDone) /\ oaHeld' = oaHeld
      BY <1>2, <2>0, <2>1, <2>2
    <3> QED  BY <3>1, <3>2 DEF Rows, Row
  <2> QED  BY <2>3, <2>4, <2>5 DEF FamilyInv
<1> QED  BY <1>7, <1>8, <1>9

(* Every operation of the store keeps what it keeps. *)
LEMMA OaStepInv == OaIInv /\ [OaNext]_oaVars => OaIInv'
<1> SUFFICES ASSUME OaIInv, [OaNext]_oaVars PROVE OaIInv'  OBVIOUS
<1>1. CASE UNCHANGED oaVars
  BY <1>1 DEF oaVars, oaStored, OaIInv, StoreTyped, FamilyInv, Begun, Spent, Authority, Rows, Row
<1>2. CASE OaAccountChange \/ OaLookup \/ OaCrash
  BY <1>2, OaQuiet
<1>3. CASE OaRevokeDevice
  BY <1>3, OaRevokeDeviceInv
<1>4. ASSUME NEW v \in 0 .. OaMaxVersion, OaSync(v) PROVE OaIInv'
  BY <1>4, OaSyncInv
<1>5. ASSUME NEW f \in OaFams,
             \/ OaSignIn(f) \/ OaReplayCode(f) \/ OaCleanUp(f)
             \/ OaRevoke(f) \/ OaTimeUp(f) \/ OaSweep(f)
      PROVE  OaIInv'
  <2>1. CASE OaBegin(f) \/ OaLogin(f) \/ OaDeny(f)  BY <2>1, OaFlowInv
  <2>2. CASE OaConsent(f)  BY <2>2, OaConsentInv
  <2>3. CASE OaRedeem(f)  BY <2>3, OaRedeemInv
  <2>4. CASE OaReplayCode(f)  BY <2>4, OaQuiet
  <2>5. CASE OaCleanUp(f) \/ OaRevoke(f)  BY <2>5, OaRevokedInv
  <2>6. CASE OaTimeUp(f) \/ OaSweep(f)  BY <2>6, OaClockInv
  <2> QED  BY <1>5, <2>1, <2>2, <2>3, <2>4, <2>5, <2>6 DEF OaSignIn
<1>6. ASSUME NEW f \in OaFams, NEW g \in 0 .. OaMaxGen,
             OaRefresh(f, g) \/ OaReplayRefresh(f, g) \/ OaFinish(f, g)
      PROVE  OaIInv'
  <2>1. CASE OaRefresh(f, g)  BY <2>1, OaRefreshInv
  <2>2. CASE OaReplayRefresh(f, g)  BY <2>2, OaQuiet
  <2>3. CASE OaFinish(f, g)  BY <2>3, OaActivateInv, OaRecoverInv
  <2> QED  BY <1>6, <2>1, <2>2, <2>3
<1> QED  BY <1>1, <1>2, <1>3, <1>4, <1>5, <1>6, Zenon DEF OaNext

(* The inductive invariant of the store holds. *)
THEOREM OaInductive == OaSpec => []OaIInv
BY OaInitInv, OaStepInv, PTL DEF OaSpec

(* The types of the store. *)
LEMMA OaTyped == OaIInv => OaTypeOK
<1> SUFFICES ASSUME OaIInv PROVE OaTypeOK  OBVIOUS
<1>1. StoreTyped  BY DEF OaIInv
<1>2. ASSUME NEW f \in OaFams
      PROVE  /\ oaFam[f].stage \in OaStages /\ oaFam[f].generation \in 0 .. OaMaxGen
             /\ oaGrant[f].state \in {"none", "pending", "code", "approved", "denied", "used"}
             /\ \A i \in DOMAIN oaRow[f] : oaRow[f][i].stage \in OaStages
             /\ oaHeld[f] \in -1 .. OaMaxGen
  <2>1. oaFam[f] \in FamilyRec /\ oaRow[f] \in Seq(RowRec)  BY <1>1 DEF StoreTyped
  <2>2. \A i \in DOMAIN oaRow[f] : oaRow[f][i] \in RowRec  BY <2>1
  <2> QED  BY <1>1, <2>1, <2>2 DEF StoreTyped, FamilyRec, RowRec
<1> QED  BY <1>1, <1>2 DEF OaTypeOK, StoreTyped

(* What makes a token good, given what the store keeps: the family lives,  *)
(* the token is of its generation and its flag stands; an access token     *)
(* must also be of the family's present device epoch.                      *)
LEMMA OaGood ==
    ASSUME OaIInv, NEW f \in OaFams, NEW g \in 0 .. OaMaxGen, g \in OaIssued(f)
    PROVE  LET fam == oaFam[f] IN
           /\ OaLive(f) <=> ~fam.revoked /\ ~fam.over
           /\ RefreshOk(f, g) <=> OaLive(f) /\ g = fam.generation /\ Row(f, g).refresh
           /\ AccessOk(f, g) <=> /\ OaLive(f) /\ g = fam.generation /\ Row(f, g).access
                                 /\ Row(f, g).deviceEpoch = fam.deviceEpoch
<1>1. oaRow[f] \in Seq(RowRec) /\ Authority(f) /\ Rows(f)  BY DEF OaIInv, FamilyInv, StoreTyped
<1>2. oaRow[f] # <<>>  BY <1>1 DEF OaIssued
<1>3. oaFam[f].present  BY <1>1, <1>2 DEF Rows
<1>4. OaLive(f) <=> ~oaFam[f].revoked /\ ~oaFam[f].over
  BY <1>1, <1>3 DEF Authority, OaLive
<1>5. Row(f, oaFam[f].generation).stage = oaFam[f].stage
  BY <1>1, <1>2 DEF Rows
<1>6. \/ Row(f, oaFam[f].generation).deviceEpoch = oaFam[f].deviceEpoch
      \/ /\ Row(f, oaFam[f].generation).stage = "recovery" /\ f \in oaDone
         /\ Row(f, oaFam[f].generation).deviceEpoch + 1 = oaFam[f].deviceEpoch
  BY <1>1, <1>2 DEF Rows
<1>7. RefreshOk(f, g) <=> OaLive(f) /\ g = oaFam[f].generation /\ Row(f, g).refresh
  <2> HIDE DEF OaLive, Row
  <2> QED  BY <1>5, <1>6 DEF RefreshOk, OaBound
<1>8. AccessOk(f, g) <=> /\ OaLive(f) /\ g = oaFam[f].generation /\ Row(f, g).access
                         /\ Row(f, g).deviceEpoch = oaFam[f].deviceEpoch
  <2> HIDE DEF OaLive, Row
  <2> QED  BY <1>5 DEF AccessOk, OaBound
<1> QED  BY <1>4, <1>7, <1>8

(* The same of every token, in a state and in the next. *)
GoodTokens ==
    \A f \in OaFams : \A g \in OaIssued(f) :
        LET fam == oaFam[f] IN
        /\ OaLive(f) <=> ~fam.revoked /\ ~fam.over
        /\ RefreshOk(f, g) <=> OaLive(f) /\ g = fam.generation /\ Row(f, g).refresh
        /\ AccessOk(f, g) <=> /\ OaLive(f) /\ g = fam.generation /\ Row(f, g).access
                              /\ Row(f, g).deviceEpoch = fam.deviceEpoch

(* OaGood, of every family and row at once.                                *)
LEMMA OaGoodTokens == OaIInv => GoodTokens
<1>1. \A f \in OaFams : \A g \in OaIssued(f) : g \in 0 .. OaMaxGen  BY DEF OaIssued
<1> QED  BY <1>1, OaGood, Zenon DEF GoodTokens

(* The same after a step.                                                  *)
LEMMA OaGoodTokensNext == OaIInv' => GoodTokens'
BY OaGoodTokens, PTL

(* The store keeps its promises in every state of the invariant. *)
LEMMA OaIInvSafe == OaIInv => OaSafe
<1> SUFFICES ASSUME OaIInv PROVE OaSafe  OBVIOUS
<1>1. OaRedeemOnce
  <2>1. \A f \in OaFams, g \in 0 .. OaMaxGen + 1 : oaSpent[<<f, g>>] <= 1
    BY DEF OaIInv, FamilyInv, Spent
  <2>2. DOMAIN oaSpent = OaFams \X (0 .. OaMaxGen + 1)  BY DEF OaIInv, StoreTyped
  <2> QED  BY <2>1, <2>2 DEF OaRedeemOnce
<1>2. OaWithdrawn
  <2> SUFFICES ASSUME NEW f \in oaDead, NEW g \in OaIssued(f)
               PROVE  ~RefreshOk(f, g) /\ ~AccessOk(f, g)
    BY DEF OaWithdrawn
  <2>1. f \in OaFams  BY DEF OaIInv, StoreTyped
  <2>2. oaFam[f].revoked  BY <2>1 DEF OaIInv, FamilyInv, Authority
  <2> QED  BY <2>2 DEF RefreshOk, AccessOk, OaBound, OaLive
<1>3. OaAccountBound
  <2> SUFFICES ASSUME Guarded, NEW f \in OaFams, NEW g \in OaIssued(f),
                      RefreshOk(f, g) \/ AccessOk(f, g)
               PROVE  oaFam[f].version = oaAcct
    BY DEF OaAccountBound
  <2>1. OaLive(f)  BY DEF RefreshOk, AccessOk, OaBound
  <2> QED  BY <2>1 DEF OaIInv, FamilyInv, Authority, OaLive, Guarded
<1>4. OaProofFirst
  <2> SUFFICES ASSUME NEW f \in OaFams, NEW g \in OaIssued(f), Row(f, g).stage = "active"
               PROVE  f \in oaDone /\ oaDev.activated
    BY DEF OaProofFirst
  <2>1. oaRow[f] \in Seq(RowRec) /\ Authority(f) /\ Rows(f)
    BY DEF OaIInv, FamilyInv, StoreTyped
  <2>2. g + 1 \in DOMAIN oaRow[f]  BY <2>1 DEF OaIssued
  <2> QED  BY <2>1, <2>2 DEF Rows, Row, Authority
<1>5. OaHeldWorks
  <2> SUFFICES ASSUME NEW f \in OaFams, oaFam[f].present, ~oaFam[f].over, f \notin oaDead,
                      oaHeld[f] >= 0, oaHeld[f] = oaFam[f].generation
               PROVE  RefreshOk(f, oaHeld[f])
    BY DEF OaHeldWorks
  <2> DEFINE g == oaFam[f].generation
  <2>1. oaRow[f] \in Seq(RowRec) /\ Authority(f) /\ Rows(f) /\ g \in 0 .. OaMaxGen
    BY DEF OaIInv, FamilyInv, StoreTyped, FamilyRec
  <2>2. ~oaFam[f].revoked /\ oaRow[f] # <<>>  BY <2>1 DEF Authority, Rows
  <2>3. Len(oaRow[f]) = g + 1 /\ Row(f, g).refresh  BY <2>1, <2>2 DEF Rows
  <2>4. g \in OaIssued(f)  BY <2>1, <2>3 DEF OaIssued
  <2> HIDE DEF g
  <2> QED  BY <2>1, <2>2, <2>3, <2>4, OaGood DEF g
<1> QED  BY <1>1, <1>2, <1>3, <1>4, <1>5 DEF OaSafe

(* Grants and refresh tokens are redeemed at most once, authority that was *)
(* withdrawn or belongs to an earlier account is worthless, scopes follow  *)
(* the installation proof, and a phone that got every answer keeps a good  *)
(* token: for any number of sign-ins, generations and account changes.     *)
THEOREM OaSafety == OaSpec => []OaSafe
BY OaInductive, OaIInvSafe, PTL

(* What no step gives back to a family that has tokens. *)
Kept(f) ==
    \/ oaRow'[f] = <<>>
    \/ /\ oaFam[f].revoked => oaFam'[f].revoked
       /\ oaFam[f].over => oaFam'[f].over
       /\ oaFam[f].generation <= oaFam'[f].generation
       /\ \A i \in DOMAIN oaRow[f] :
             /\ oaRow'[f][i].stage = oaRow[f][i].stage
             /\ oaRow'[f][i].deviceEpoch = oaRow[f][i].deviceEpoch
             /\ oaRow'[f][i].refresh => oaRow[f][i].refresh
             /\ oaRow'[f][i].access => oaRow[f][i].access
       /\ \/ oaFam'[f].deviceEpoch = oaFam[f].deviceEpoch
          \/ \A i \in DOMAIN oaRow[f] : ~oaRow'[f][i].access

(* A family whose record changes in its revocation or its limit at most.   *)
LEMMA KeptFlags ==
    ASSUME NEW f \in OaFams, oaFam[f] \in FamilyRec,
           oaRow'[f] = oaRow[f], oaFam'[f].generation = oaFam[f].generation,
           oaFam'[f].deviceEpoch = oaFam[f].deviceEpoch,
           oaFam[f].revoked => oaFam'[f].revoked, oaFam[f].over => oaFam'[f].over
    PROVE  Kept(f)
<1>1. oaFam[f].generation \in Nat  BY OaConstants DEF FamilyRec
<1> QED  BY <1>1 DEF Kept

(* Every step keeps what the tokens of a family have lost. *)
LEMMA OaKept ==
    ASSUME OaIInv, [OaNext]_oaVars, NEW f \in OaFams, oaRow[f] # <<>>
    PROVE  Kept(f)
<1>0. /\ oaFam[f] \in FamilyRec /\ oaRow[f] \in Seq(RowRec) /\ oaFlow[f].phase = "consumed"
      /\ oaFam[f].present
  BY DEF OaIInv, StoreTyped, FamilyInv, Begun, Rows
<1>a. oaFam \in [OaFams -> FamilyRec] /\ oaRow \in [OaFams -> Seq(RowRec)]
  BY DEF OaIInv, StoreTyped
<1>1. ASSUME oaFam'[f] = oaFam[f], oaRow'[f] = oaRow[f] PROVE Kept(f)
  BY <1>0, <1>1, KeptFlags
<1>2. ASSUME oaFam'[f] = Withdrawn(oaFam[f]), oaRow'[f] = oaRow[f] PROVE Kept(f)
  <2> HIDE DEF Withdrawn
  <2>1. /\ oaFam'[f].generation = oaFam[f].generation
        /\ oaFam'[f].deviceEpoch = oaFam[f].deviceEpoch
        /\ oaFam[f].revoked => oaFam'[f].revoked
        /\ oaFam[f].over => oaFam'[f].over
    BY <1>0, <1>2, WithdrawnRec
  <2> QED  BY <1>0, <1>2, <2>1, KeptFlags
<1>3. CASE UNCHANGED oaVars
  BY <1>1, <1>3 DEF oaVars, oaStored
<1>4. CASE OaAccountChange \/ OaLookup \/ OaCrash
  BY <1>1, <1>4 DEF OaAccountChange, OaLookup, OaCrash, oaStored, OaTokenRest
<1>5. CASE OaRevokeDevice
  <2>1. oaFam' = [h \in OaFams |-> Withdrawn(oaFam[h])] /\ oaRow' = oaRow
    BY <1>5, Zenon DEF OaRevokeDevice, Withdrawn
  <2> QED  BY <1>2, <2>1
<1>6. ASSUME NEW v \in 0 .. OaMaxVersion, OaSync(v) PROVE Kept(f)
  <2>1. CASE oaOwner.stamp = v
    BY <1>1, <1>6, <2>1 DEF OaSync, SyncAccount
  <2>2. CASE oaOwner.stamp # v
    <3>1. oaFam' = [h \in OaFams |-> Withdrawn(oaFam[h])] /\ oaRow' = oaRow
      BY <1>6, <2>2, Zenon DEF OaSync, SyncAccount, Withdrawn
    <3> QED  BY <1>2, <3>1
  <2> QED  BY <2>1, <2>2
<1>7. ASSUME NEW h \in OaFams,
             \/ OaSignIn(h) \/ OaReplayCode(h) \/ OaCleanUp(h)
             \/ OaRevoke(h) \/ OaTimeUp(h) \/ OaSweep(h)
      PROVE  Kept(f)
  <2>1. CASE OaBegin(h) \/ OaLogin(h) \/ OaDeny(h) \/ OaReplayCode(h)
    BY <1>1, <2>1 DEF OaBegin, OaLogin, OaDeny, OaReplayCode, OaFlowRest, OaTokenRest
  <2>2. CASE OaConsent(h)
    BY <1>0, <1>1, <1>a, <2>2 DEF OaConsent, OaFlowRest
  <2>3. CASE OaRedeem(h)
    <3>1. oaRow[h] = <<>>  BY <2>3 DEF OaRedeem, OaIInv, FamilyInv, Spent
    <3> QED  BY <1>1, <1>a, <2>3, <3>1 DEF OaRedeem
  <2>4. CASE OaCleanUp(h) \/ OaRevoke(h)
    <3>1. oaFam' = OaRevoked(h) /\ oaRow' = [oaRow EXCEPT ![h] = Silenced(oaRow[h])]
      BY <2>4 DEF OaCleanUp, OaRevoke
    <3>2. CASE h = f
      <4>1. oaRow'[f] = Silenced(oaRow[f]) /\ oaFam'[f] = [oaFam[f] EXCEPT !.revoked = TRUE]
        BY <1>a, <3>1, <3>2 DEF OaRevoked
      <4>2. /\ oaFam'[f].revoked /\ oaFam'[f].over = oaFam[f].over
            /\ oaFam'[f].generation = oaFam[f].generation /\ oaFam[f].generation \in Nat
            /\ oaFam'[f].deviceEpoch = oaFam[f].deviceEpoch
        BY <1>0, <4>1, OaConstants DEF FamilyRec
      <4>3. \A i \in DOMAIN oaRow[f] :
               /\ oaRow'[f][i].stage = oaRow[f][i].stage
               /\ oaRow'[f][i].deviceEpoch = oaRow[f][i].deviceEpoch
               /\ ~oaRow'[f][i].refresh /\ ~oaRow'[f][i].access
        BY <1>0, <4>1, SilencedRows
      <4> QED  BY <4>2, <4>3 DEF Kept
    <3>3. CASE h # f
      BY <1>1, <1>a, <3>1, <3>3 DEF OaRevoked
    <3> QED  BY <3>2, <3>3
  <2>5. CASE OaTimeUp(h)
    <3>1. CASE h = f
      <4>1. oaRow' = oaRow /\ oaFam'[f] = [oaFam[f] EXCEPT !.over = TRUE]
        BY <1>a, <2>5, <3>1 DEF OaTimeUp
      <4>2. /\ oaFam'[f].generation = oaFam[f].generation
            /\ oaFam'[f].deviceEpoch = oaFam[f].deviceEpoch
            /\ oaFam'[f].revoked = oaFam[f].revoked /\ oaFam'[f].over
        BY <1>0, <4>1 DEF FamilyRec
      <4> QED  BY <1>0, <4>1, <4>2, KeptFlags
    <3>2. CASE h # f  BY <1>1, <1>a, <2>5, <3>2 DEF OaTimeUp
    <3> QED  BY <3>1, <3>2
  <2>6. CASE OaSweep(h)
    <3>1. CASE h = f
      <4>1. oaRow'[f] = <<>>  BY <1>a, <2>6, <3>1 DEF OaSweep
      <4> QED  BY <4>1 DEF Kept
    <3>2. CASE h # f  BY <1>1, <1>a, <2>6, <3>2 DEF OaSweep
    <3> QED  BY <3>1, <3>2
  <2> QED  BY <1>7, <2>1, <2>2, <2>3, <2>4, <2>5, <2>6 DEF OaSignIn
<1>8. ASSUME NEW h \in OaFams, NEW g \in 0 .. OaMaxGen,
             OaRefresh(h, g) \/ OaReplayRefresh(h, g) \/ OaFinish(h, g)
      PROVE  Kept(f)
  <2>1. CASE OaReplayRefresh(h, g)
    BY <1>1, <2>1 DEF OaReplayRefresh
  <2>2. CASE OaRefresh(h, g)
    <3>1. /\ oaFam' = [oaFam EXCEPT ![h] = NextGen(h)]
          /\ oaRow' = [oaRow EXCEPT ![h] = Append(OaRotated(h, g), NewRow(NextGen(h)))]
      BY <2>2, Zenon DEF OaRefresh, NextGen
    <3>2. CASE h # f  BY <1>1, <1>a, <3>1, <3>2
    <3>3. CASE h = f
      <4> HIDE DEF OaIInv
      <4>1. oaFam[f].generation < OaMaxGen
        BY <2>2, <3>3 DEF OaRefresh, RefreshOk, OaBound
      <4>2. /\ NextGen(f).generation = oaFam[f].generation + 1
            /\ NextGen(f).deviceEpoch = oaFam[f].deviceEpoch
            /\ NextGen(f).revoked = oaFam[f].revoked /\ NextGen(f).over = oaFam[f].over
            /\ NewRow(NextGen(f)) \in RowRec
        BY <1>0, <4>1, NextGenRec, Zenon
      <4> DEFINE rot == OaRotated(f, g)
                 row == NewRow(NextGen(f))
      <4>3. /\ rot \in Seq(RowRec) /\ DOMAIN rot = DOMAIN oaRow[f]
            /\ \A i \in DOMAIN oaRow[f] :
                  /\ rot[i].stage = oaRow[f][i].stage
                  /\ rot[i].deviceEpoch = oaRow[f][i].deviceEpoch
                  /\ ~rot[i].access
                  /\ rot[i].refresh => oaRow[f][i].refresh
        <5>1. /\ rot \in Seq(RowRec) /\ Len(rot) = Len(oaRow[f])
              /\ DOMAIN rot = DOMAIN oaRow[f]
              /\ \A i \in DOMAIN oaRow[f] :
                    /\ rot[i].stage = oaRow[f][i].stage
                    /\ rot[i].deviceEpoch = oaRow[f][i].deviceEpoch
                    /\ rot[i].access = FALSE
                    /\ rot[i].refresh => oaRow[f][i].refresh
                    /\ i = g + 1 => ~rot[i].refresh
          BY <1>0, RotatedRows, Zenon
        <5> HIDE DEF rot
        <5> QED  BY <5>1
      <4> HIDE DEF rot, row
      <4>4. oaFam'[f] = NextGen(f) /\ oaRow'[f] = Append(rot, row)
        BY <1>a, <3>1, <3>3 DEF rot, row
      <4>5. \A i \in DOMAIN rot : oaRow'[f][i] = rot[i]
        BY <4>2, <4>3, <4>4 DEF row
      <4>6. oaFam[f].generation <= oaFam[f].generation + 1
        BY <1>0, OaConstants DEF FamilyRec
      <4> QED  BY <4>2, <4>3, <4>4, <4>5, <4>6 DEF Kept
    <3> QED  BY <3>2, <3>3
  <2>3. CASE OaFinish(h, g) /\ oaFam[h].stage # "recovery"
    BY <1>1, <2>3 DEF OaFinish
  <2>4. CASE OaFinish(h, g) /\ oaFam[h].stage = "recovery"
    <3> DEFINE mine == [oaFam[h] EXCEPT !.deviceEpoch = oaDev.epoch + 1]
    <3>1. /\ oaFam' = [x \in OaFams |-> IF x = h THEN mine ELSE Withdrawn(oaFam[x])]
          /\ oaRow' = [oaRow EXCEPT ![h] = AccessEnded(oaRow[h])]
      BY <2>4 DEF OaFinish, AccessEnded, Withdrawn
    <3>2. CASE h # f
      <4>1. oaFam'[f] = Withdrawn(oaFam[f]) /\ oaRow'[f] = oaRow[f]
        BY <1>a, <3>1, <3>2
      <4> QED  BY <1>2, <4>1
    <3>3. CASE h = f
      <4>1. oaFam'[f] = mine /\ oaRow'[f] = AccessEnded(oaRow[f])
        BY <1>a, <3>1, <3>3
      <4>2. /\ oaFam'[f].revoked = oaFam[f].revoked /\ oaFam'[f].over = oaFam[f].over
            /\ oaFam'[f].generation = oaFam[f].generation /\ oaFam[f].generation \in Nat
        BY <1>0, <3>3, <4>1, OaConstants DEF FamilyRec
      <4>3. \A i \in DOMAIN oaRow[f] :
               /\ oaRow'[f][i].stage = oaRow[f][i].stage
               /\ oaRow'[f][i].deviceEpoch = oaRow[f][i].deviceEpoch
               /\ oaRow'[f][i].refresh = oaRow[f][i].refresh /\ ~oaRow'[f][i].access
        BY <1>0, <4>1, AccessEndedRows
      <4> QED  BY <4>2, <4>3 DEF Kept
    <3> QED  BY <3>2, <3>3
  <2> QED  BY <1>8, <2>1, <2>2, <2>3, <2>4
<1> QED  BY <1>3, <1>4, <1>5, <1>6, <1>7, <1>8, Zenon DEF OaNext

(* A token that is refused once is refused for good, whatever is rotated,  *)
(* recovered, synced or revoked afterwards.                                *)
THEOREM OaRefusedForGood == OaSpec => OaNoResurrection
<1>1. ASSUME OaIInv, OaIInv', [OaNext]_oaVars, NEW f \in OaFams, NEW g \in OaIssued(f)
      PROVE  /\ ~RefreshOk(f, g) => ~RefreshOk(f, g)'
             /\ ~AccessOk(f, g) => ~AccessOk(f, g)'
  <2>1. g \in 0 .. OaMaxGen /\ oaRow[f] \in Seq(RowRec) /\ oaFam[f] \in FamilyRec
    BY <1>1 DEF OaIssued, OaIInv, StoreTyped
  <2>2. oaRow[f] # <<>> /\ g + 1 \in DOMAIN oaRow[f]  BY <2>1 DEF OaIssued
  <2>3. Kept(f)  BY <1>1, <2>2, OaKept
  <2> SUFFICES ASSUME g \in OaIssued(f)'
               PROVE  /\ RefreshOk(f, g)' => RefreshOk(f, g)
                      /\ AccessOk(f, g)' => AccessOk(f, g)
    BY DEF RefreshOk, AccessOk
  <2>4. oaRow'[f] # <<>>
    <3>1. oaRow'[f] \in Seq(RowRec)  BY <1>1 DEF OaIInv, StoreTyped
    <3> QED  BY <2>1, <3>1 DEF OaIssued
  <2>5. /\ OaLive(f) <=> ~oaFam[f].revoked /\ ~oaFam[f].over
        /\ RefreshOk(f, g) <=> OaLive(f) /\ g = oaFam[f].generation /\ Row(f, g).refresh
        /\ AccessOk(f, g) <=> /\ OaLive(f) /\ g = oaFam[f].generation /\ Row(f, g).access
                              /\ Row(f, g).deviceEpoch = oaFam[f].deviceEpoch
    BY <1>1, <2>1, OaGood
  <2>6. /\ OaLive(f)' <=> ~oaFam'[f].revoked /\ ~oaFam'[f].over
        /\ RefreshOk(f, g)' <=> OaLive(f)' /\ g = oaFam'[f].generation /\ Row(f, g)'.refresh
        /\ AccessOk(f, g)' <=> /\ OaLive(f)' /\ g = oaFam'[f].generation /\ Row(f, g)'.access
                               /\ Row(f, g)'.deviceEpoch = oaFam'[f].deviceEpoch
    BY <1>1, OaGoodTokensNext DEF GoodTokens
  <2>7. /\ g <= oaFam[f].generation /\ oaFam[f].generation \in Nat /\ g \in Nat
    BY <1>1, <2>1, <2>2, OaConstants DEF OaIssued, OaIInv, FamilyInv, Rows, FamilyRec
  <2>8. /\ oaFam[f].revoked => oaFam'[f].revoked
        /\ oaFam[f].over => oaFam'[f].over
        /\ oaFam[f].generation <= oaFam'[f].generation
        /\ Row(f, g)'.deviceEpoch = Row(f, g).deviceEpoch
        /\ Row(f, g)'.refresh => Row(f, g).refresh
        /\ Row(f, g)'.access => Row(f, g).access
        /\ oaFam'[f].deviceEpoch = oaFam[f].deviceEpoch \/ ~Row(f, g)'.access
    BY <2>2, <2>3, <2>4 DEF Kept, Row
  <2> HIDE DEF Row, OaLive, RefreshOk, AccessOk, Kept, OaIInv, OaIssued
  <2>9. g = oaFam'[f].generation => g = oaFam[f].generation  BY <2>7, <2>8
  <2> QED  BY <2>5, <2>6, <2>8, <2>9
<1>2. OaIInv /\ OaIInv' /\ [OaNext]_oaVars =>
        [\A f \in OaFams : \A g \in OaIssued(f) :
            /\ ~RefreshOk(f, g) => ~RefreshOk(f, g)'
            /\ ~AccessOk(f, g) => ~AccessOk(f, g)']_oaVars
  BY <1>1
<1> QED  BY <1>2, OaInductive, PTL DEF OaSpec, OaNoResurrection

-----------------------------------------------------------------------------
(* Managed keys.                                                           *)

KyOpNames == {"install", "verify", "remove", "reconcile"}
KyOuts == {"none", "refused", "failed", "sent", "unknown", "completed", "exit_0", "exit_3"}
KyRow == [state : KyStates, exec : 0 .. KyMaxOps]
KyOpRec == [op : KyOpNames, key : KyKeys, login : SUBSET KyKeys, id : 0 .. KyMaxOps,
            prior : KyRow, out : KyOuts]
KyScriptRec == [op : {"install", "remove"}, key : KyKeys, id : 0 .. KyMaxOps, belied : BOOLEAN]

KeysTyped ==
    /\ kyCat \in [KyKeys -> KyRow] /\ kyDisk \in [KyKeys -> KyRow]
    /\ kyFresh \subseteq KyKeys /\ kyHost \subseteq KyKeys
    /\ kyOps \subseteq KyOpRec /\ kyLate \subseteq KyScriptRec /\ kyStray \subseteq KyScriptRec
    /\ kyCount \in [ops : 0 .. KyMaxOps, faults : 0 .. KyMaxFaults]
    /\ kyEver \in BOOLEAN /\ kyBroken \in BOOLEAN

(* What an operation that writes leaves in its installation.               *)
KyMark(op) == CASE op = "install" -> "install_pending"
                [] op = "verify" -> "verification_pending"
                [] OTHER -> "remove_pending"

(* A late script that nothing has belied; a late script that installs.     *)
Unbelied(op, k) == \E s \in kyLate : s.op = op /\ s.key = k /\ ~s.belied
Awaited(k) == \E s \in kyLate : s.op = "install" /\ s.key = k

(* An operation and its installation, in memory and in the file.           *)
KyOpInv(o) ==
    /\ o.op # "reconcile" => /\ kyCat[o.key].state = KyMark(o.op)
                             /\ kyDisk[o.key].state = KyMark(o.op)
    /\ o.op = "reconcile" => /\ kyCat[o.key].state \notin {"none", "install_pending"}
                             /\ o.prior.state \notin KyPending \union {"none"}
    /\ o.op = "verify" => o.login = {o.key}

(* Whether a key is there, and a script is expected that would change it.  *)
There(k) == (k \in kyHost \/ KyStrayed("remove", k)) /\ ~Unbelied("remove", k)
Gone(k) == (k \notin kyHost \/ KyStrayed("install", k)) /\ ~Unbelied("install", k)
Never(k) == k \notin kyHost /\ ~Awaited(k)

(* What an execution has found is still so, as far as it can be known.     *)
KyFound(o) ==
    /\ o.out \in {"exit_0", "exit_3"} => o.op = "reconcile"
    /\ o.out = "completed" => o.op # "reconcile"
    /\ o.op = "install" /\ o.out \in {"none", "sent"} => Never(o.key)
    /\ o.op = "verify" /\ o.out \in {"sent", "completed"} => There(o.key)
    /\ o.op = "remove" /\ o.out = "completed" => Never(o.key)
    /\ o.out = "exit_3" => Gone(o.key)

Writes(o, k) == o.key = k /\ o.op # "reconcile"

(* A mark has its one operation, unless a save has failed.                 *)
Marked(k) ==
    /\ kyCat[k].state \in KyPending /\ ~kyBroken => \E o \in kyOps : Writes(o, k)
    /\ \A o, p \in kyOps : Writes(o, k) /\ Writes(p, k) => o = p

(* A row of the catalog, in memory or in the file, and the host.           *)
RowInv(st, k) ==
    /\ st = "verified" => There(k)
    /\ st = "removed" => Gone(k)
    /\ st = "none" => Never(k)
Inventory(k) == RowInv(kyCat[k].state, k) /\ RowInv(kyDisk[k].state, k)

(* A key that a late script is to install is not there, and no second      *)
(* script is to install it.                                                *)
OnceInstalled ==
    /\ \A s \in kyLate : s.op = "install" => s.key \notin kyHost
    /\ \A s, t \in kyLate : s.op = "install" /\ t.op = "install" /\ s.key = t.key => s = t

(* A key that nothing is to remove stays on the host.                      *)
Removes(k) == \E o \in kyOps : o.op = "remove" /\ o.key = k
Leaving(k) == Unbelied("remove", k) \/ Removes(k)
OneStays == kyEver => \/ \E k \in kyHost : ~Leaving(k)
                      \/ \E k \in KyKeys : KyStrayed("remove", k)

KyIInv == /\ KeysTyped /\ OneStays /\ OnceInstalled
          /\ \A o \in kyOps : KyOpInv(o) /\ KyFound(o)
          /\ \A k \in KyKeys : Marked(k) /\ Inventory(k)

(* No operation, and the keys that the host had before.                    *)
LEMMA KyInitInv == KyInit => KyIInv
<1> SUFFICES ASSUME KyInit PROVE KyIInv  OBVIOUS
<1> USE KyAssumption DEF KyInit
<1>0. PICK old \in KyOlds :
        /\ kyCat = [k \in KyKeys |->
              [state |-> IF k \in old THEN "verified" ELSE "none", exec |-> 0]]
        /\ kyFresh = old /\ kyHost = old /\ kyEver = (old # {})
  OBVIOUS
<1>1. KeysTyped
  <2>1. kyCat \in [KyKeys -> KyRow]  BY <1>0 DEF KyRow, KyStates, KyPending
  <2>2. kyCount \in [ops : 0 .. KyMaxOps, faults : 0 .. KyMaxFaults]  OBVIOUS
  <2> QED  BY <1>0, <2>1, <2>2 DEF KeysTyped
<1>2. OneStays  BY <1>0 DEF OneStays, Leaving, Removes, Unbelied
<1>3. \A k \in KyKeys : Marked(k) /\ Inventory(k)
  BY <1>0 DEF Marked, Inventory, RowInv, There, Gone, Never, Unbelied, Awaited, KyPending
<1>4. OnceInstalled  BY DEF OnceInstalled
<1> QED  BY <1>1, <1>2, <1>3, <1>4 DEF KyIInv

(* A save: every row of the file is the old one or the one in memory, and  *)
(* the service goes on only if all of them are those in memory.            *)
LEMMA KySaves ==
    ASSUME KyIInv, NEW cat \in [KyKeys -> KyRow], NEW n \in {0, 1},
           kyCount.ops + n <= KyMaxOps, KySaved(cat, n) \/ KySaveFails(cat, n)
    PROVE  /\ kyCat' = cat /\ kyDisk' \in [KyKeys -> KyRow]
           /\ \A k \in KyKeys : kyDisk'[k] \in {kyDisk[k], cat[k]}
           /\ kyBroken' \in BOOLEAN /\ (kyBroken' \/ (kyDisk' = cat /\ kyBroken' = kyBroken))
           /\ kyCount' \in [ops : 0 .. KyMaxOps, faults : 0 .. KyMaxFaults]
<1> USE KyAssumption
<1>1. KeysTyped  BY DEF KyIInv
<1>2. CASE KySaved(cat, n)
  <2>1. kyCount' \in [ops : 0 .. KyMaxOps, faults : 0 .. KyMaxFaults]
    BY <1>1, <1>2 DEF KySaved, KeysTyped
  <2> QED  BY <1>1, <1>2, <2>1 DEF KySaved, KeysTyped
<1>3. CASE KySaveFails(cat, n)
  <2>1. kyCount' \in [ops : 0 .. KyMaxOps, faults : 0 .. KyMaxFaults]
    BY <1>1, <1>3 DEF KySaveFails, KeysTyped
  <2> QED  BY <1>1, <1>3, <2>1 DEF KySaveFails, KeysTyped
<1> QED  BY <1>2, <1>3

(* The first lock period of an operation that writes.                      *)
LEMMA KyStartInv ==
    ASSUME KyIInv, NEW op \in {"install", "verify", "remove"}, NEW k \in KyKeys,
           NEW login \in SUBSET KyKeys,
           KyStart(op, k, login, KyMark(op)),
           kyCat[k].state \notin KyPending,
           op = "install" <=> kyCat[k].state = "none",
           op = "verify" => login = {k},
           op = "remove" => \E alt \in KyKeys : k # alt /\ kyCat[alt].state = "verified"
    PROVE  KyIInv'
<1> USE KyAssumption DEF KyIInv
<1> DEFINE cat == [kyCat EXCEPT ![k].state = KyMark(op)]
           new == KyNewOp(op, k, login)
<1>1. /\ UNCHANGED <<kyHost, kyLate, kyFresh, kyStray, kyEver>>
      /\ ~kyBroken /\ kyCount.ops < KyMaxOps
      /\ \/ KySaved(cat, 1) /\ kyOps' = kyOps \union {new}
         \/ KySaveFails(cat, 1) /\ kyOps' = kyOps
  BY DEF KyStart, KyMayStart, kyPast
<1>2. KyMark(op) \in KyStates /\ KyMark(op) \in KyPending
  BY DEF KyMark, KyStates, KyPending
<1>3. cat \in [KyKeys -> KyRow]  BY <1>2 DEF KeysTyped, KyRow
<1>4. /\ cat[k].state = KyMark(op) /\ \A h \in KyKeys : h # k => cat[h] = kyCat[h]
  BY DEF KeysTyped, KyRow
<1>5. /\ new \in KyOpRec /\ new.op = op /\ new.key = k /\ new.out = "none" /\ new.login = login
  BY <1>1 DEF KyNewOp, KyOpRec, KyOpNames, KyOuts, KeysTyped
<1> HIDE DEF cat, new
<1>6. /\ kyCat' = cat /\ kyDisk' \in [KyKeys -> KyRow]
      /\ \A h \in KyKeys : kyDisk'[h] \in {kyDisk[h], cat[h]}
      /\ kyBroken' \in BOOLEAN
      /\ kyCount' \in [ops : 0 .. KyMaxOps, faults : 0 .. KyMaxFaults]
  <2>1. kyCount.ops + 1 <= KyMaxOps  BY <1>1 DEF KeysTyped
  <2> QED  BY <1>1, <1>3, <2>1, KySaves
<1>7. \/ kyBroken' /\ kyOps' = kyOps
      \/ kyDisk' = cat /\ kyBroken' = kyBroken /\ kyOps' = kyOps \union {new}
  BY <1>1 DEF KySaved, KySaveFails
<1>8. \A o \in kyOps : o.op \in KyOpNames /\ o.key \in KyKeys
  BY DEF KeysTyped, KyOpRec
<1>9. \A o \in kyOps : o.key = k => o.op = "reconcile"
  BY <1>8 DEF KyOpInv, KyMark, KyPending
<1>10. KeysTyped'  BY <1>1, <1>3, <1>5, <1>6, <1>7 DEF KeysTyped
<1>11. ASSUME NEW o \in kyOps' PROVE KyOpInv(o)' /\ KyFound(o)'
  <2>1. CASE o \in kyOps
    <3>1. KyOpInv(o) /\ KyFound(o)  BY <2>1
    <3>2. KyFound(o)'
      BY <1>1, <3>1 DEF KyFound, There, Gone, Never, Unbelied, Awaited, KyStrayed
    <3>3. CASE o.key # k
      BY <1>4, <1>6, <1>8, <2>1, <3>1, <3>2, <3>3 DEF KyOpInv
    <3>4. CASE o.key = k
      <4>1. o.op = "reconcile" /\ op # "install"  BY <1>9, <2>1, <3>1, <3>4 DEF KyOpInv
      <4>2. KyMark(op) \notin {"none", "install_pending"}  BY <4>1 DEF KyMark
      <4> QED  BY <1>4, <1>6, <3>1, <3>2, <3>4, <4>1, <4>2 DEF KyOpInv
    <3> QED  BY <3>3, <3>4
  <2>2. CASE o = new /\ kyDisk' = cat
    <3>1. KyOpInv(o)'  BY <1>4, <1>5, <1>6, <2>2 DEF KyOpInv
    <3>2. op = "install" => Never(k)  BY DEF Inventory, RowInv
    <3> QED  BY <1>1, <1>5, <2>2, <3>1, <3>2 DEF KyFound, Never, Awaited
  <2> QED  BY <1>7, <2>1, <2>2
<1>12. ASSUME NEW h \in KyKeys PROVE Marked(h)'
  <2>1. CASE h # k
    BY <1>1, <1>4, <1>5, <1>6, <1>7, <2>1 DEF Marked, Writes
  <2>2. CASE h = k
    BY <1>5, <1>7, <1>9, <2>2 DEF Marked, Writes
  <2> QED  BY <2>1, <2>2
<1>13. ASSUME NEW h \in KyKeys PROVE Inventory(h)'
  <2>1. \A st : RowInv(st, h) => RowInv(st, h)'
    BY <1>1 DEF RowInv, There, Gone, Never, Unbelied, Awaited, KyStrayed
  <2>2. RowInv(kyCat[h].state, h) /\ RowInv(kyDisk[h].state, h)  BY DEF Inventory
  <2>3. \A st : st = KyMark(op) => RowInv(st, h)'  BY DEF RowInv, KyMark
  <2>4. kyCat'[h].state \in {kyCat[h].state, KyMark(op)}  BY <1>4, <1>6
  <2>5. kyDisk'[h].state \in {kyDisk[h].state, kyCat'[h].state}  BY <1>6
  <2>6. \A st : st = kyCat'[h].state => RowInv(st, h)'  BY <2>1, <2>2, <2>3, <2>4
  <2>7. \A st : st = kyDisk'[h].state => RowInv(st, h)'  BY <2>1, <2>2, <2>5, <2>6
  <2> QED  BY <2>6, <2>7 DEF Inventory
<1>14. OneStays'
  <2>0. \A h : Unbelied("remove", h)' <=> Unbelied("remove", h)  BY <1>1 DEF Unbelied
  <2>1. CASE op = "remove"
    <3>1. PICK alt \in KyKeys : k # alt /\ kyCat[alt].state = "verified"  BY <2>1
    <3>2. There(alt)  BY <3>1 DEF Inventory, RowInv
    <3>3. ~Removes(alt)
      BY <1>8, <3>1 DEF Removes, KyOpInv, KyMark
    <3>4. ~Removes(alt)'  BY <1>5, <1>7, <3>1, <3>3 DEF Removes
    <3> QED  BY <1>1, <2>0, <3>1, <3>2, <3>4 DEF OneStays, Leaving, There, KyStrayed
  <2>2. CASE op # "remove"
    <3>1. \A h : Removes(h)' => Removes(h)  BY <1>5, <1>7, <2>2 DEF Removes
    <3> QED  BY <1>1, <2>0, <3>1 DEF OneStays, Leaving, KyStrayed
  <2> QED  BY <2>1, <2>2
<1>15. OnceInstalled'  BY <1>1 DEF OnceInstalled
<1> QED  BY <1>10, <1>11, <1>12, <1>13, <1>14, <1>15

(* The operations that write begin as the lemma above has it.              *)
LEMMA KyBeginInv ==
    ASSUME KyIInv, NEW k \in KyKeys,
           \/ InstallPublicKey(k) \/ VerifyInstallation(k)
           \/ \E alt \in KyKeys : RemovePublicKey(k, alt)
    PROVE  KyIInv'
<1>1. CASE InstallPublicKey(k)
  <2>1. KyMark("install") = "install_pending"  BY DEF KyMark
  <2>2. KyStart("install", k, {}, "install_pending") /\ kyCat[k].state = "none"
    BY <1>1 DEF InstallPublicKey
  <2> QED  BY <2>1, <2>2, KyStartInv DEF KyPending
<1>2. CASE VerifyInstallation(k)
  <2>1. KyMark("verify") = "verification_pending"  BY DEF KyMark
  <2>2. /\ KyStart("verify", k, {k}, "verification_pending")
        /\ kyCat[k].state \in {"installed_unverified", "install_unknown"}
    BY <1>2 DEF VerifyInstallation
  <2>3. {k} \in SUBSET KyKeys  OBVIOUS
  <2> QED  BY <2>1, <2>2, <2>3, KyStartInv DEF KyPending
<1>3. ASSUME NEW alt \in KyKeys, RemovePublicKey(k, alt) PROVE KyIInv'
  <2>1. KyMark("remove") = "remove_pending"  BY DEF KyMark
  <2>2. /\ KyStart("remove", k, {alt}, "remove_pending")
        /\ k # alt /\ kyCat[alt].state = "verified"
        /\ kyCat[k].state \in {"verified", "installed_unverified", "install_unknown",
                               "remove_failed", "remove_unknown"}
    BY <1>3 DEF RemovePublicKey
  <2>3. {alt} \in SUBSET KyKeys  OBVIOUS
  <2> QED  BY <2>1, <2>2, <2>3, KyStartInv DEF KyPending
<1> QED  BY <1>1, <1>2, <1>3

(* An observation begins.                                                  *)
LEMMA KyObserveInv ==
    ASSUME KyIInv, NEW k \in KyKeys, ReconcilePublicKey(k)
    PROVE  KyIInv'
<1> USE KyAssumption DEF KyIInv
<1> DEFINE new == KyNewOp("reconcile", k, {})
<1>1. /\ UNCHANGED <<kyCat, kyDisk, kyBroken, kyHost, kyLate, kyFresh, kyStray, kyEver>>
      /\ kyOps' = kyOps \union {new} /\ kyCount.ops < KyMaxOps
      /\ kyCount' = [kyCount EXCEPT !.ops = @ + 1]
      /\ kyCat[k].state \notin KyPending \union {"none"}
  BY DEF ReconcilePublicKey, KyMayStart, kyPast
<1>2. /\ new \in KyOpRec /\ new.op = "reconcile" /\ new.key = k /\ new.out = "none"
      /\ new.prior = kyCat[k]
  BY <1>1 DEF KyNewOp, KyOpRec, KyOpNames, KyOuts, KeysTyped
<1> HIDE DEF new
<1>3. KeysTyped'
  <2>1. kyCount' \in [ops : 0 .. KyMaxOps, faults : 0 .. KyMaxFaults]  BY <1>1 DEF KeysTyped
  <2> QED  BY <1>1, <1>2, <2>1 DEF KeysTyped
<1>4. ASSUME NEW o \in kyOps' PROVE KyOpInv(o)' /\ KyFound(o)'
  <2>1. CASE o \in kyOps
    BY <1>1, <2>1 DEF KyOpInv, KyFound, There, Gone, Never, Unbelied, Awaited, KyStrayed
  <2>2. CASE o = new  BY <1>1, <1>2, <2>2 DEF KyOpInv, KyFound, KyPending
  <2> QED  BY <1>1, <2>1, <2>2
<1>5. ASSUME NEW h \in KyKeys PROVE Marked(h)' /\ Inventory(h)'
  <2>1. Marked(h)'  BY <1>1, <1>2 DEF Marked, Writes
  <2>2. Inventory(h)'
    BY <1>1 DEF Inventory, RowInv, There, Gone, Never, Unbelied, Awaited, KyStrayed
  <2> QED  BY <2>1, <2>2
<1>6. OneStays'
  <2>1. \A h : Leaving(h)' => Leaving(h)  BY <1>1, <1>2 DEF Leaving, Removes, Unbelied
  <2> QED  BY <1>1, <2>1 DEF OneStays, KyStrayed
<1>7. OnceInstalled'  BY <1>1 DEF OnceInstalled
<1> QED  BY <1>3, <1>4, <1>5, <1>6, <1>7

(* An operation moves on: nobody else is disturbed.                        *)
LEMMA KyMoved ==
    ASSUME KyIInv, NEW o \in kyOps, NEW out \in KyOuts, KyMoves(o, out), UNCHANGED kyFile
    PROVE  /\ kyOps' \subseteq KyOpRec
           /\ \A p \in kyOps' : \/ p \in kyOps /\ p # o
                                \/ /\ p.op = o.op /\ p.key = o.key /\ p.login = o.login
                                   /\ p.out = out
           /\ \A p \in kyOps' : KyOpInv(p)'
           /\ \A k \in KyKeys : Marked(k)'
           /\ \A k : Removes(k)' => Removes(k)
<1> USE DEF KyIInv
<1> DEFINE new == [o EXCEPT !.out = out]
<1>1. kyOps' = (kyOps \ {o}) \union {new}  BY DEF KyMoves
<1>2. o \in KyOpRec /\ kyOps \subseteq KyOpRec  BY DEF KeysTyped
<1>3. /\ new \in KyOpRec /\ new.op = o.op /\ new.key = o.key /\ new.login = o.login
      /\ new.prior = o.prior /\ new.out = out
  BY <1>2 DEF KyOpRec
<1> HIDE DEF new
<1>4. UNCHANGED <<kyCat, kyDisk, kyBroken>>  BY DEF kyFile
<1>5. \A p \in kyOps' : KyOpInv(p)'  BY <1>1, <1>3, <1>4 DEF KyOpInv
<1>6. \A k \in KyKeys : Marked(k)'  BY <1>1, <1>3, <1>4 DEF Marked, Writes
<1>7. \A k : Removes(k)' => Removes(k)  BY <1>1, <1>3 DEF Removes
<1>8. \A p \in kyOps' : (p \in kyOps /\ p # o) \/ p = new  BY <1>1
<1> QED  BY <1>1, <1>2, <1>3, <1>5, <1>6, <1>7, <1>8

(* Belying marks scripts of the kind it names on the keys it names.        *)
LEMMA KyBelied ==
    ASSUME KyIInv, NEW op, NEW keys, kyLate' = KyBelie(op, keys), UNCHANGED kyHost
    PROVE  /\ kyLate' \subseteq KyScriptRec /\ OnceInstalled'
           /\ \A p, k : Unbelied(p, k)' => Unbelied(p, k)
           /\ \A k : Awaited(k)' => Awaited(k)
           /\ \A k \in keys : ~Unbelied(op, k)'
<1> USE DEF KyIInv
<1> DEFINE F(s) == [s EXCEPT !.belied = @ \/ (s.op = op /\ s.key \in keys)]
<1>1. kyLate' = {F(s) : s \in kyLate}  BY DEF KyBelie
<1>2. ASSUME NEW s \in kyLate
      PROVE  /\ F(s) \in KyScriptRec /\ F(s).op = s.op /\ F(s).key = s.key
             /\ s.belied => F(s).belied
             /\ s.op = op /\ s.key \in keys => F(s).belied
  <2>1. s \in KyScriptRec  BY <1>2 DEF KeysTyped
  <2>2. (s.belied \/ (s.op = op /\ s.key \in keys)) \in BOOLEAN  BY <2>1 DEF KyScriptRec
  <2> QED  BY <2>1, <2>2 DEF KyScriptRec
<1> HIDE DEF F
<1>3. kyLate' \subseteq KyScriptRec  BY <1>1, <1>2
<1>4. \A p, k : Unbelied(p, k)' => Unbelied(p, k)  BY <1>1, <1>2 DEF Unbelied
<1>5. \A k : Awaited(k)' => Awaited(k)  BY <1>1, <1>2 DEF Awaited
<1>6. \A k \in keys : ~Unbelied(op, k)'  BY <1>1, <1>2 DEF Unbelied
<1>7. OnceInstalled'
  <2>1. \A s \in kyLate' : s.op = "install" => s.key \notin kyHost'
    BY <1>1, <1>2 DEF OnceInstalled
  <2>2. ASSUME NEW s \in kyLate', NEW t \in kyLate', s.op = "install", t.op = "install",
               s.key = t.key
        PROVE  s = t
    <3>1. PICK s0 \in kyLate, t0 \in kyLate : s = F(s0) /\ t = F(t0)  BY <1>1
    <3>2. s0 = t0  BY <1>2, <2>2, <3>1 DEF OnceInstalled
    <3> QED  BY <3>1, <3>2
  <2> QED  BY <2>1, <2>2 DEF OnceInstalled
<1> QED  BY <1>3, <1>4, <1>5, <1>6, <1>7

(* An execution moves on and the host stays: at most scripts are belied.   *)
LEMMA KyQuietInv ==
    ASSUME KyIInv, NEW o \in kyOps, NEW out \in KyOuts, KyMoves(o, out),
           UNCHANGED <<kyFile, kyHost, kyPast>>,
           kyLate' \subseteq KyScriptRec, OnceInstalled',
           \A p, k : Unbelied(p, k)' => Unbelied(p, k),
           \A k : Awaited(k)' => Awaited(k),
           \A p : p.op = o.op /\ p.key = o.key /\ p.login = o.login /\ p.out = out
                     => KyFound(p)'
    PROVE  KyIInv'
<1> USE DEF KyIInv
<1>1. UNCHANGED <<kyCat, kyDisk, kyBroken, kyCount, kyHost, kyFresh, kyStray, kyEver>>
  BY DEF kyFile, kyPast
<1>2. /\ kyOps' \subseteq KyOpRec
      /\ \A p \in kyOps' : \/ p \in kyOps /\ p # o
                           \/ /\ p.op = o.op /\ p.key = o.key /\ p.login = o.login
                              /\ p.out = out
      /\ \A p \in kyOps' : KyOpInv(p)'
      /\ \A k \in KyKeys : Marked(k)'
      /\ \A k : Removes(k)' => Removes(k)
  BY KyMoved
<1>3. KeysTyped'  BY <1>1, <1>2 DEF KeysTyped
<1>4. \A k : (There(k) => There(k)') /\ (Gone(k) => Gone(k)') /\ (Never(k) => Never(k)')
  BY <1>1 DEF There, Gone, Never, KyStrayed
<1>5. \A p \in kyOps' : KyFound(p)'
  <2>1. \A p \in kyOps : KyFound(p) => KyFound(p)'  BY <1>4 DEF KyFound
  <2> QED  BY <1>2, <2>1
<1>6. \A k \in KyKeys : Inventory(k)'  BY <1>1, <1>4 DEF Inventory, RowInv
<1>7. OneStays'
  <2>1. \A k : Leaving(k)' => Leaving(k)  BY <1>2 DEF Leaving
  <2> QED  BY <1>1, <2>1 DEF OneStays, KyStrayed
<1> QED  BY <1>2, <1>3, <1>5, <1>6, <1>7

(* Refused, or sent after a login.                                         *)
LEMMA KySendInv ==
    ASSUME KyIInv, NEW o \in kyOps, KyRefuse(o) \/ KySend(o)
    PROVE  KyIInv'
<1> USE DEF KyIInv
<1>1. CASE KyRefuse(o)
  <2>1. PICK out \in {"refused", "failed"} : KyMoves(o, out)  BY <1>1 DEF KyRefuse
  <2>2. UNCHANGED <<kyFile, kyHost, kyPast, kyLate>>  BY <1>1 DEF KyRefuse
  <2>3. out \in KyOuts  BY <2>1 DEF KyOuts
  <2>4. \A p : p.op = o.op /\ p.key = o.key /\ p.login = o.login /\ p.out = out
                  => KyFound(p)'
    BY <2>1 DEF KyFound
  <2>5. kyLate' \subseteq KyScriptRec /\ OnceInstalled'
    BY <2>2 DEF KeysTyped, OnceInstalled
  <2>6. \A p, k : Unbelied(p, k)' => Unbelied(p, k)  BY <2>2 DEF Unbelied
  <2>7. \A k : Awaited(k)' => Awaited(k)  BY <2>2 DEF Awaited
  <2> QED  BY <2>1, <2>2, <2>3, <2>4, <2>5, <2>6, <2>7, KyQuietInv
<1>2. CASE KySend(o)
  <2>1. /\ o.out = "none" /\ o.login \subseteq kyHost /\ KyMoves(o, "sent")
        /\ kyLate' = KyBelie("remove", o.login) /\ UNCHANGED <<kyFile, kyHost, kyPast>>
    BY <1>2 DEF KySend
  <2>2. "sent" \in KyOuts  BY DEF KyOuts
  <2>3. /\ kyLate' \subseteq KyScriptRec /\ OnceInstalled'
        /\ \A p, k : Unbelied(p, k)' => Unbelied(p, k)
        /\ \A k : Awaited(k)' => Awaited(k)
        /\ \A k \in o.login : ~Unbelied("remove", k)'
    BY <2>1, KyBelied
  <2>4. KyOpInv(o) /\ KyFound(o)  OBVIOUS
  <2>5. ASSUME NEW p, p.op = o.op, p.key = o.key, p.login = o.login, p.out = "sent"
        PROVE  KyFound(p)'
    <3>1. p.op = "install" => Never(p.key)'  BY <2>1, <2>3, <2>4, <2>5 DEF KyFound, Never
    <3>2. p.op = "verify" => There(p.key)'
      BY <2>1, <2>3, <2>4, <2>5 DEF KyOpInv, There
    <3> QED  BY <2>5, <3>1, <3>2 DEF KyFound
  <2> QED  BY <2>1, <2>2, <2>3, <2>5, KyQuietInv
<1> QED  BY <1>1, <1>2

(* The login's command and the inspection leave the host as it is.         *)
LEMMA KyLookInv ==
    ASSUME KyIInv, NEW o \in kyOps, KyLook(o)
    PROVE  KyIInv'
<1> USE DEF KyIInv
<1>1. o.op \in {"verify", "reconcile"} /\ o.out = "sent"
      /\ UNCHANGED <<kyFile, kyHost, kyPast>> /\ KyOpInv(o) /\ KyFound(o)
  BY DEF KyLook
<1>2. ASSUME NEW out \in {"failed", "completed", "exit_0"}, KyMoves(o, out),
             UNCHANGED kyLate, out = "completed" => o.op = "verify",
             out = "exit_0" => o.op = "reconcile"
      PROVE  KyIInv'
  <2>1. out \in KyOuts  BY DEF KyOuts
  <2>2. \A k : There(k) => There(k)'
    BY <1>1, <1>2 DEF There, KyStrayed, Unbelied, kyPast
  <2>3. \A p : p.op = o.op /\ p.key = o.key /\ p.login = o.login /\ p.out = out
                  => KyFound(p)'
    BY <1>1, <1>2, <2>2 DEF KyFound
  <2>4. kyLate' \subseteq KyScriptRec /\ OnceInstalled'
    BY <1>1, <1>2 DEF KeysTyped, OnceInstalled
  <2>5. \A p, k : Unbelied(p, k)' => Unbelied(p, k)  BY <1>2 DEF Unbelied
  <2>6. \A k : Awaited(k)' => Awaited(k)  BY <1>2 DEF Awaited
  <2> QED  BY <1>1, <1>2, <2>1, <2>3, <2>4, <2>5, <2>6, KyQuietInv
<1>3. CASE /\ o.op = "reconcile" /\ o.key \notin kyHost
           /\ KyMoves(o, "exit_3") /\ kyLate' = KyBelie("install", {o.key})
  <2>1. "exit_3" \in KyOuts  BY DEF KyOuts
  <2>2. /\ kyLate' \subseteq KyScriptRec /\ OnceInstalled'
        /\ \A p, k : Unbelied(p, k)' => Unbelied(p, k)
        /\ \A k : Awaited(k)' => Awaited(k)
        /\ \A k \in {o.key} : ~Unbelied("install", k)'
    BY <1>1, <1>3, KyBelied
  <2>3. Gone(o.key)'  BY <1>1, <1>3, <2>2 DEF Gone
  <2>4. \A p : p.op = o.op /\ p.key = o.key /\ p.login = o.login /\ p.out = "exit_3"
                  => KyFound(p)'
    BY <1>3, <2>3 DEF KyFound
  <2> QED  BY <1>1, <1>3, <2>1, <2>2, <2>4, KyQuietInv
<1> QED  BY <1>2, <1>3 DEF KyLook

(* Where nothing is to change a row or a finding, the host may change.     *)
LEMMA KyHostMoves ==
    ASSUME KyIInv, NEW op \in {"install", "remove"}, NEW k \in KyKeys,
           kyHost' \in {kyHost, IF op = "install" THEN kyHost \union {k} ELSE kyHost \ {k}},
           kyStray \subseteq kyStray',
           \A p, h : Unbelied(p, h)' => Unbelied(p, h) \/ (p = op /\ h = k),
           \A h : Awaited(h)' => Awaited(h) \/ (op = "install" /\ h = k),
           NEW h \in KyKeys, h # k
    PROVE  /\ There(h) => There(h)'
           /\ Gone(h) => Gone(h)'
           /\ Never(h) => Never(h)'
           /\ h \in kyHost' <=> h \in kyHost
<1>1. h \in kyHost' <=> h \in kyHost  OBVIOUS
<1>2. \A p : KyStrayed(p, h) => KyStrayed(p, h)'  BY DEF KyStrayed
<1> QED  BY <1>1, <1>2 DEF There, Gone, Never

(* A script that changes the host, or may yet.                             *)
LEMMA KyChangeInv ==
    ASSUME KyIInv, NEW o \in kyOps, KyChange(o)
    PROVE  KyIInv'
<1> USE DEF KyIInv
<1> DEFINE k == o.key
<1>1. /\ o.op \in {"install", "remove"} /\ o.out = "sent" /\ KyOpInv(o) /\ KyFound(o)
      /\ o \in KyOpRec /\ k \in KyKeys
      /\ UNCHANGED <<kyCat, kyDisk, kyBroken, kyCount, kyFresh, kyStray, kyEver>>
  BY DEF KyChange, kyFile, kyPast, KeysTyped, KyOpRec
<1>2. PICK out \in {"completed", "failed", "unknown"} :
        /\ KyMoves(o, out)
        /\ kyHost' \in {kyHost, KyDone(o)}
        /\ out = "completed" => /\ kyHost' = KyDone(o)
                                /\ o.op = "remove" => k \in kyHost
        /\ IF out = "unknown" THEN kyLate' = kyLate \union {KyScript(o)} /\ kyHost' = kyHost
                              ELSE kyLate' = kyLate
  BY DEF KyChange
<1> DEFINE s == KyScript(o)
<1>3. s \in KyScriptRec /\ s.op = o.op /\ s.key = k /\ ~s.belied
  BY <1>1 DEF KyScript, KyScriptRec, KyOpRec
<1> HIDE DEF s
<1>4. kyHost' \in {kyHost, IF o.op = "install" THEN kyHost \union {k} ELSE kyHost \ {k}}
  BY <1>2 DEF KyDone
<1>5. kyLate' \in {kyLate, kyLate \union {s}} /\ (kyLate' = kyLate \/ kyHost' = kyHost)
  BY <1>2 DEF s
<1>6. /\ \A p, h : Unbelied(p, h)' => Unbelied(p, h) \/ (p = o.op /\ h = k)
      /\ \A h : Awaited(h)' => Awaited(h) \/ (o.op = "install" /\ h = k)
  BY <1>3, <1>5 DEF Unbelied, Awaited
<1>7. /\ kyOps' \subseteq KyOpRec
      /\ \A p \in kyOps' : \/ p \in kyOps /\ p # o
                           \/ /\ p.op = o.op /\ p.key = o.key /\ p.login = o.login
                              /\ p.out = out
      /\ \A p \in kyOps' : KyOpInv(p)'
      /\ \A h \in KyKeys : Marked(h)'
      /\ \A h : Removes(h)' => Removes(h)
  <2>1. out \in KyOuts  BY DEF KyOuts
  <2> QED  BY <1>1, <1>2, <2>1, KyMoved DEF kyFile
<1>8. \A h \in KyKeys : h # k => /\ There(h) => There(h)'
                                 /\ Gone(h) => Gone(h)'
                                 /\ Never(h) => Never(h)'
                                 /\ h \in kyHost' <=> h \in kyHost
  BY <1>1, <1>4, <1>6, KyHostMoves
<1>9. KeysTyped'  BY <1>1, <1>3, <1>4, <1>5, <1>7 DEF KeysTyped
<1>10. ASSUME NEW p \in kyOps' PROVE KyFound(p)'
  <2>1. CASE p \in kyOps /\ p # o
    <3>1. KyOpInv(p) /\ KyFound(p) /\ p.key \in KyKeys /\ p.op \in KyOpNames
      BY <2>1 DEF KeysTyped, KyOpRec
    <3>2. CASE p.key # k  BY <1>8, <3>1, <3>2 DEF KyFound
    <3>3. CASE p.key = k
      <4>1. p.op = "reconcile"  BY <1>1, <2>1, <3>3 DEF Marked, Writes
      <4>2. o.op # "install"  BY <1>1, <3>1, <3>3, <4>1 DEF KyOpInv, KyMark
      <4>3. Gone(k) => Gone(k)'
        <5>1. o.op = "remove"  BY <1>1, <4>2
        <5>2. k \in kyHost' => k \in kyHost  BY <1>4, <5>1
        <5>3. Unbelied("install", k)' => Unbelied("install", k)  BY <1>6, <5>1
        <5> QED  BY <1>1, <5>2, <5>3 DEF Gone, KyStrayed
      <4> QED  BY <3>1, <3>3, <4>1, <4>3 DEF KyFound
    <3> QED  BY <3>2, <3>3
  <2>2. CASE p.op = o.op /\ p.key = k /\ p.out = out
    <3>1. o.op = "remove" /\ out = "completed" => Never(k)'
      <4> SUFFICES ASSUME o.op = "remove", out = "completed" PROVE Never(k)'  OBVIOUS
      <4>1. ~Awaited(k)  BY <1>2 DEF OnceInstalled, Awaited
      <4>2. k \notin kyHost'  BY <1>2 DEF KyDone
      <4> QED  BY <1>6, <4>1, <4>2 DEF Never
    <3> QED  BY <1>1, <2>2, <3>1 DEF KyFound
  <2> QED  BY <1>7, <2>1, <2>2
<1>11. ASSUME NEW h \in KyKeys PROVE Inventory(h)'
  <2>1. CASE h # k
    <3>1. \A st : RowInv(st, h) => RowInv(st, h)'  BY <1>8, <2>1 DEF RowInv
    <3> QED  BY <1>1, <3>1 DEF Inventory
  <2>2. CASE h = k
    <3>1. kyCat[k].state \in KyPending /\ kyDisk[k].state \in KyPending
      BY <1>1 DEF KyOpInv, KyMark, KyPending
    <3> QED  BY <1>1, <2>2, <3>1 DEF Inventory, RowInv, KyPending
  <2> QED  BY <2>1, <2>2
<1>12. OneStays'
  <2>1. o.op = "remove" => Leaving(k)  BY DEF Leaving, Removes
  <2>2. \A h : Leaving(h)' => Leaving(h)
    BY <1>6, <1>7, <2>1 DEF Leaving
  <2>3. \A h \in kyHost : ~Leaving(h) => h \in kyHost'  BY <1>1, <1>4, <2>1
  <2> QED  BY <1>1, <2>2, <2>3 DEF OneStays, KyStrayed
<1>13. OnceInstalled'
  <2>1. o.op = "install" => k \notin kyHost /\ ~Awaited(k)  BY <1>1 DEF KyFound, Never
  <2>2. CASE kyLate' = kyLate
    <3>1. \A t \in kyLate' : t.op = "install" => t.key \notin kyHost'
      BY <1>4, <2>1, <2>2 DEF OnceInstalled, Awaited
    <3> QED  BY <2>2, <3>1 DEF OnceInstalled
  <2>3. CASE kyLate' = kyLate \union {s} /\ kyHost' = kyHost
    BY <1>3, <2>1, <2>3 DEF OnceInstalled, Awaited
  <2> QED  BY <1>5, <2>2, <2>3
<1> QED  BY <1>7, <1>9, <1>10, <1>11, <1>12, <1>13

(* A late script lands, or never will.                                     *)
LEMMA KyLandInv ==
    ASSUME KyIInv, NEW s \in kyLate, KyLand(s)
    PROVE  KyIInv'
<1> USE DEF KyIInv
<1> DEFINE k == s.key
<1>1. /\ kyLate' = kyLate \ {s} /\ kyHost' \in {kyHost, KyDone(s)}
      /\ kyStray' = IF s.belied /\ kyHost' # kyHost THEN kyStray \union {s} ELSE kyStray
      /\ UNCHANGED <<kyCat, kyDisk, kyBroken, kyCount, kyOps, kyFresh, kyEver>>
      /\ s \in KyScriptRec /\ s.op \in {"install", "remove"} /\ k \in KyKeys
  BY DEF KyLand, kyFile, KeysTyped, KyScriptRec
<1>2. kyHost' \in {kyHost, IF s.op = "install" THEN kyHost \union {k} ELSE kyHost \ {k}}
  BY <1>1 DEF KyDone
<1>3. /\ \A p, h : Unbelied(p, h)' => Unbelied(p, h)
      /\ \A h : Awaited(h)' => Awaited(h)
  BY <1>1 DEF Unbelied, Awaited
<1>4. kyStray \subseteq kyStray' /\ \A p, h : KyStrayed(p, h) => KyStrayed(p, h)'
  BY <1>1 DEF KyStrayed
<1>5. \A h \in KyKeys : h # k => /\ There(h) => There(h)'
                                 /\ Gone(h) => Gone(h)'
                                 /\ Never(h) => Never(h)'
                                 /\ h \in kyHost' <=> h \in kyHost
  BY <1>1, <1>2, <1>3, <1>4, KyHostMoves
<1>6. ~s.belied => Unbelied(s.op, k)  BY DEF Unbelied
<1>7. s.op = "install" => Awaited(k)  BY DEF Awaited
<1>8. /\ There(k) => There(k)'
      /\ Gone(k) => Gone(k)'
      /\ Never(k) => Never(k)'
  <2>1. s.belied /\ kyHost' # kyHost => KyStrayed(s.op, k)'  BY <1>1 DEF KyStrayed
  <2>2. There(k) => There(k)'
    <3> SUFFICES ASSUME There(k), ~KyStrayed("remove", k)' PROVE k \in kyHost'
      BY <1>3 DEF There
    <3>1. k \in kyHost  BY <1>4 DEF There
    <3>2. s.op = "remove" => kyHost' = kyHost  BY <1>6, <2>1 DEF There
    <3> QED  BY <1>1, <1>2, <3>1, <3>2
  <2>3. Gone(k) => Gone(k)'
    <3> SUFFICES ASSUME Gone(k), ~KyStrayed("install", k)' PROVE k \notin kyHost'
      BY <1>3 DEF Gone
    <3>1. k \notin kyHost  BY <1>4 DEF Gone
    <3>2. s.op = "install" => kyHost' = kyHost  BY <1>6, <2>1 DEF Gone
    <3> QED  BY <1>1, <1>2, <3>1, <3>2
  <2>4. Never(k) => Never(k)'  BY <1>1, <1>2, <1>3, <1>7 DEF Never
  <2> QED  BY <2>2, <2>3, <2>4
<1>9. \A h \in KyKeys : /\ There(h) => There(h)'
                        /\ Gone(h) => Gone(h)'
                        /\ Never(h) => Never(h)'
  BY <1>5, <1>8
<1>10. KeysTyped'  BY <1>1, <1>2 DEF KeysTyped
<1>11. ASSUME NEW o \in kyOps' PROVE KyOpInv(o)' /\ KyFound(o)'
  <2>1. KyOpInv(o) /\ KyFound(o) /\ o.key \in KyKeys  BY <1>1 DEF KeysTyped, KyOpRec
  <2> QED  BY <1>1, <1>9, <2>1 DEF KyOpInv, KyFound
<1>12. ASSUME NEW h \in KyKeys PROVE Marked(h)' /\ Inventory(h)'
  <2>1. Marked(h)'  BY <1>1 DEF Marked, Writes
  <2>2. Inventory(h)'  BY <1>1, <1>9 DEF Inventory, RowInv
  <2> QED  BY <2>1, <2>2
<1>13. OneStays'
  <2>1. \A h : Leaving(h)' => Leaving(h)  BY <1>1, <1>3 DEF Leaving, Removes
  <2>2. CASE kyHost' = kyHost \/ s.op = "install"
    BY <1>1, <1>2, <1>4, <2>1, <2>2 DEF OneStays
  <2>3. CASE s.op = "remove" /\ s.belied /\ kyHost' # kyHost
    <3>1. KyStrayed("remove", k)'  BY <1>1, <2>3 DEF KyStrayed
    <3> QED  BY <1>1, <3>1 DEF OneStays
  <2>4. CASE s.op = "remove" /\ ~s.belied
    <3>1. Leaving(k)  BY <1>6, <2>4 DEF Leaving
    <3>2. \A h \in kyHost : ~Leaving(h) => h \in kyHost'  BY <1>1, <1>2, <3>1
    <3> QED  BY <1>1, <1>4, <2>1, <3>2 DEF OneStays
  <2> QED  BY <1>1, <2>2, <2>3, <2>4
<1>14. OnceInstalled'
  <2>1. ASSUME NEW t \in kyLate', t.op = "install" PROVE t.key \notin kyHost'
    <3>1. t \in kyLate /\ t # s /\ t.key \notin kyHost  BY <1>1, <2>1 DEF OnceInstalled
    <3>2. s.op = "install" => t.key # k  BY <2>1, <3>1 DEF OnceInstalled
    <3> QED  BY <1>2, <3>1, <3>2
  <2> QED  BY <1>1, <2>1 DEF OnceInstalled
<1> QED  BY <1>10, <1>11, <1>12, <1>13, <1>14

(* Only the catalog changes: rows, in memory and in the file, that the     *)
(* host bears out, and no new operation.                                   *)
LEMMA KyRowsInv ==
    ASSUME KyIInv, NEW cat \in [KyKeys -> KyRow], KySaved(cat, 0) \/ KySaveFails(cat, 0),
           UNCHANGED <<kyHost, kyLate, kyStray>>, kyOps' \subseteq kyOps,
           kyFresh' \subseteq KyKeys, kyEver' \in BOOLEAN,
           \A k \in KyKeys : RowInv(cat[k].state, k),
           \A o \in kyOps' : /\ o.op # "reconcile" => cat[o.key] = kyCat[o.key]
                             /\ o.op = "reconcile" =>
                                    cat[o.key].state \notin {"none", "install_pending"},
           \A k \in KyKeys : cat[k].state \in KyPending /\ ~kyBroken
                                => \E o \in kyOps' : Writes(o, k),
           kyEver' => kyEver \/ \E k \in KyKeys : There(k) /\ ~Removes(k)
    PROVE  KyIInv'
<1> USE KyAssumption DEF KyIInv
<1>1. /\ kyCat' = cat /\ kyDisk' \in [KyKeys -> KyRow]
      /\ \A k \in KyKeys : kyDisk'[k] \in {kyDisk[k], cat[k]}
      /\ kyBroken' \in BOOLEAN /\ (kyBroken' \/ (kyDisk' = cat /\ kyBroken' = kyBroken))
      /\ kyCount' \in [ops : 0 .. KyMaxOps, faults : 0 .. KyMaxFaults]
  <2>1. kyCount.ops + 0 <= KyMaxOps /\ 0 \in {0, 1}  BY DEF KeysTyped
  <2> QED  BY <2>1, KySaves
<1>2. KeysTyped'  BY <1>1 DEF KeysTyped
<1>3. \A k : (There(k) <=> There(k)') /\ (Gone(k) <=> Gone(k)') /\ (Never(k) <=> Never(k)')
  BY DEF There, Gone, Never, Unbelied, Awaited, KyStrayed
<1>4. ASSUME NEW o \in kyOps' PROVE KyOpInv(o)' /\ KyFound(o)'
  <2>1. KyOpInv(o) /\ KyFound(o) /\ o.key \in KyKeys  BY DEF KeysTyped, KyOpRec
  <2>2. KyFound(o)'  BY <1>3, <2>1 DEF KyFound
  <2>3. KyOpInv(o)'
    <3>1. o.op # "reconcile" => cat[o.key] = kyCat[o.key]  OBVIOUS
    <3>2. kyDisk'[o.key] \in {kyDisk[o.key], cat[o.key]}  BY <1>1, <2>1
    <3>3. o.op = "reconcile" => cat[o.key].state \notin {"none", "install_pending"}  OBVIOUS
    <3> QED  BY <1>1, <2>1, <3>1, <3>2, <3>3 DEF KyOpInv
  <2> QED  BY <2>2, <2>3
<1>5. ASSUME NEW k \in KyKeys PROVE Marked(k)' /\ Inventory(k)'
  <2>1. Marked(k)
    OBVIOUS
  <2>2. kyCat'[k].state \in KyPending /\ ~kyBroken' => \E o \in kyOps' : Writes(o, k)
    BY <1>1
  <2>3. Marked(k)'  BY <2>1, <2>2 DEF Marked, Writes
  <2>4. \A st : RowInv(st, k) => RowInv(st, k)'  BY <1>3 DEF RowInv
  <2>5. RowInv(kyDisk[k].state, k) /\ RowInv(cat[k].state, k)  BY DEF Inventory
  <2>6. kyDisk'[k] = kyDisk[k] \/ kyDisk'[k] = cat[k]  BY <1>1
  <2> QED  BY <1>1, <2>3, <2>4, <2>5, <2>6 DEF Inventory
<1>6. OneStays'
  <2>1. \A k : Leaving(k)' => Leaving(k)  BY DEF Leaving, Removes, Unbelied
  <2>2. ASSUME NEW k \in KyKeys, There(k), ~Removes(k) PROVE OneStays'
    BY <2>1, <2>2 DEF OneStays, There, Leaving, KyStrayed
  <2>3. CASE kyEver  BY <2>1, <2>3 DEF OneStays, KyStrayed
  <2> QED  BY <2>2, <2>3 DEF OneStays
<1>7. OnceInstalled'  BY DEF OnceInstalled
<1> QED  BY <1>2, <1>4, <1>5, <1>6, <1>7

(* Five minutes pass; the catalog is saved for something else.             *)
LEMMA KyAsideInv ==
    ASSUME KyIInv, KyOtherSave \/ \E k \in KyKeys : KyStale(k)
    PROVE  KyIInv'
<1>1. CASE KyOtherSave
  <2>1. /\ kyCat \in [KyKeys -> KyRow] /\ kyFresh \subseteq KyKeys /\ kyEver \in BOOLEAN
        /\ \A o \in kyOps : KyOpInv(o)
    BY DEF KyIInv, KeysTyped
  <2>2. /\ KySaved(kyCat, 0) \/ KySaveFails(kyCat, 0)
        /\ UNCHANGED <<kyHost, kyLate, kyStray, kyOps, kyFresh, kyEver>>
    BY <1>1 DEF KyOtherSave, kyPast
  <2>3. /\ \A k \in KyKeys : RowInv(kyCat[k].state, k)
        /\ \A o \in kyOps' : o.op = "reconcile" =>
               kyCat[o.key].state \notin {"none", "install_pending"}
        /\ \A k \in KyKeys : kyCat[k].state \in KyPending /\ ~kyBroken
                                => \E o \in kyOps' : Writes(o, k)
    BY <2>2 DEF KyIInv, KyOpInv, Inventory, Marked
  <2> QED  BY <2>1, <2>2, <2>3, KyRowsInv
<1>2. ASSUME NEW k \in KyKeys, KyStale(k) PROVE KyIInv'
  <2>1. /\ kyFresh' = kyFresh \ {k}
        /\ UNCHANGED <<kyCat, kyDisk, kyBroken, kyCount, kyHost, kyOps, kyLate, kyStray, kyEver>>
    BY <1>2 DEF KyStale, kyFile
  <2> QED
    BY <2>1 DEF KyIInv, KeysTyped, OneStays, OnceInstalled, KyOpInv, KyFound, Marked, Writes,
                Inventory, RowInv, There, Gone, Never, Leaving, Removes, Unbelied, Awaited,
                KyStrayed
<1> QED  BY <1>1, <1>2

(* The second lock period.                                                 *)
LEMMA KyFinishInv ==
    ASSUME KyIInv, NEW o \in kyOps, KyFinish(o)
    PROVE  KyIInv'
<1> USE KyAssumption DEF KyIInv
<1> DEFINE k == o.key  cat == KyRecord(o)  res == KyResult(o)
<1>1. /\ o \in KyOpRec /\ k \in KyKeys /\ o.op \in KyOpNames /\ KyOpInv(o) /\ KyFound(o)
      /\ kyOps' = kyOps \ {o} /\ UNCHANGED <<kyHost, kyLate, kyStray>>
  BY DEF KeysTyped, KyOpRec, KyFinish
<1>2. CASE ~KyCurrent(o)
  <2>1. UNCHANGED <<kyCat, kyDisk, kyBroken, kyCount, kyFresh, kyEver>> /\ o.op = "reconcile"
    BY <1>2 DEF KyFinish, KyCurrent, kyFile
  <2>2. KeysTyped'  BY <1>1, <2>1 DEF KeysTyped
  <2>3. \A p \in kyOps' : KyOpInv(p)' /\ KyFound(p)'
    BY <1>1, <2>1 DEF KyOpInv, KyFound, There, Gone, Never, Unbelied, Awaited, KyStrayed
  <2>4. \A h \in KyKeys : Marked(h)'  BY <1>1, <2>1 DEF Marked, Writes
  <2>5. \A h \in KyKeys : Inventory(h)'
    BY <1>1, <2>1 DEF Inventory, RowInv, There, Gone, Never, Unbelied, Awaited, KyStrayed
  <2>6. OneStays'
    BY <1>1, <2>1 DEF OneStays, Leaving, Removes, Unbelied, KyStrayed
  <2>7. OnceInstalled'  BY <1>1 DEF OnceInstalled
  <2> QED  BY <2>2, <2>3, <2>4, <2>5, <2>6, <2>7
<1>3. CASE KyCurrent(o)
  <2>1. /\ KySaved(cat, 0) \/ KySaveFails(cat, 0)
        /\ kyFresh' \subseteq kyFresh \union {k}
        /\ kyEver' = (kyEver \/ res = "verified")
    BY <1>3 DEF KyFinish
  <2>2. /\ res \in KyStates /\ res \notin KyPending \union {"none"}
        /\ res = "verified" => There(k) /\ ~Removes(k)
        /\ res = "removed" => Gone(k)
    <3>0. o.out = "completed" => o.op # "reconcile"  BY <1>1 DEF KyFound
    <3>1. CASE o.op = "install"
      BY <3>1 DEF KyResult, KyStates, KyPending
    <3>2. CASE o.op = "verify"
      <4>1. ~Removes(k)  BY <1>1, <3>2 DEF Removes, Marked, Writes
      <4> QED  BY <1>1, <3>2, <4>1 DEF KyResult, KyStates, KyPending, KyFound
    <3>3. CASE o.op = "remove"
      <4>1. Never(k) => Gone(k)  BY DEF Never, Gone, Awaited, Unbelied
      <4> QED  BY <1>1, <3>3, <4>1 DEF KyResult, KyStates, KyPending, KyFound
    <3>4. CASE o.op = "reconcile"
      <4>1. kyCat[k] = o.prior  BY <1>3, <3>4 DEF KyCurrent
      <4>2. o.prior.state \in KyStates /\ o.prior.state \notin KyPending \union {"none"}
        BY <1>1, <3>4 DEF KyOpInv, KyOpRec, KyRow
      <4>3. RowInv(o.prior.state, k)  BY <1>1, <4>1 DEF Inventory
      <4>4. o.prior.state = "verified" => ~Removes(k)
        BY <1>1, <4>1 DEF Removes, KyOpInv, KyMark
      <4>5. res \in {"installed_unverified", "removed", o.prior.state}
            /\ (res = "removed" => o.out = "exit_3" \/ o.prior.state = "removed")
            /\ (res = "verified" => o.prior.state = "verified")
        BY <3>4 DEF KyResult
      <4> HIDE DEF res
      <4>6. o.out = "exit_3" => Gone(k)  BY <1>1 DEF KyFound
      <4> QED  BY <4>2, <4>3, <4>4, <4>5, <4>6 DEF RowInv, KyStates, KyPending
    <3> QED  BY <1>1, <3>1, <3>2, <3>3, <3>4 DEF KyOpNames
  <2>3. cat = [kyCat EXCEPT ![k] = [state |-> res, exec |-> IF o.out = "refused" THEN 0 ELSE o.id]]
    BY DEF KyRecord
  <2> HIDE DEF res
  <2>4. /\ cat \in [KyKeys -> KyRow] /\ cat[k].state = res
        /\ \A h \in KyKeys : h # k => cat[h] = kyCat[h]
    BY <1>1, <2>2, <2>3 DEF KeysTyped, KyRow, KyOpRec
  <2> HIDE DEF cat
  <2>5. kyFresh' \subseteq KyKeys /\ kyEver' \in BOOLEAN  BY <1>1, <2>1 DEF KeysTyped
  <2>6. ASSUME NEW p \in kyOps', p.key = k PROVE p.op = "reconcile"
    <3> SUFFICES ASSUME p.op # "reconcile" PROVE FALSE  OBVIOUS
    <3>1. p \in kyOps /\ p # o /\ KyOpInv(p) /\ KyOpInv(o)  BY <1>1
    <3>2. kyCat[k].state \in KyPending  BY <2>6, <3>1 DEF KyOpInv, KyMark, KyPending
    <3>3. o.op # "reconcile"  BY <1>1, <1>3, <3>2 DEF KyCurrent, KyOpInv
    <3> QED  BY <1>1, <2>6, <3>1, <3>3 DEF Marked, Writes
  <2>7. \A h \in KyKeys : RowInv(cat[h].state, h)
    <3>1. RowInv(res, k)  BY <2>2 DEF RowInv
    <3> QED  BY <2>4, <3>1 DEF Inventory
  <2>8. ASSUME NEW p \in kyOps'
        PROVE  /\ p.op # "reconcile" => cat[p.key] = kyCat[p.key]
               /\ p.op = "reconcile" => cat[p.key].state \notin {"none", "install_pending"}
    <3>1. p \in kyOps /\ p.key \in KyKeys /\ KyOpInv(p)  BY <1>1 DEF KeysTyped, KyOpRec
    <3>2. CASE p.key = k  BY <2>2, <2>4, <2>6, <3>2 DEF KyPending
    <3>3. CASE p.key # k  BY <2>4, <3>1, <3>3 DEF KyOpInv
    <3> QED  BY <3>2, <3>3
  <2>9. ASSUME NEW h \in KyKeys, cat[h].state \in KyPending, ~kyBroken
        PROVE  \E p \in kyOps' : Writes(p, h)
    <3>1. h # k  BY <2>2, <2>4, <2>9
    <3>2. PICK p \in kyOps : Writes(p, h)  BY <2>4, <2>9, <3>1 DEF Marked
    <3>3. p \in kyOps'  BY <1>1, <3>1, <3>2 DEF Writes
    <3> QED  BY <3>2, <3>3
  <2>10. kyEver' => kyEver \/ \E h \in KyKeys : There(h) /\ ~Removes(h)
    BY <1>1, <2>1, <2>2
  <2>11. kyOps' \subseteq kyOps  BY <1>1
  <2> QED  BY <1>1, <2>1, <2>4, <2>5, <2>7, <2>8, <2>9, <2>10, <2>11, KyRowsInv
<1> QED  BY <1>2, <1>3

(* A restart: the file says what was under way, and nobody waits for its   *)
(* scripts any more.                                                       *)
LEMMA KyRestartInv == ASSUME KyIInv, KyRestart PROVE KyIInv'
<1> USE KyAssumption DEF KyIInv
<1>1. /\ kyOps' = {} /\ kyCat' = KyReopened /\ kyDisk' = KyReopened /\ kyBroken' = FALSE
      /\ UNCHANGED <<kyHost, kyFresh, kyStray, kyEver>>
      /\ kyBroken \/ kyCount.faults < KyMaxFaults
      /\ kyCount' = [kyCount EXCEPT !.faults = IF kyBroken THEN @ ELSE @ + 1]
  BY DEF KyRestart, kyPast
<1> DEFINE sent == {p \in kyOps : p.op \in {"install", "remove"} /\ p.out = "sent"}
<1>2. kyLate' = kyLate \union {KyScript(o) : o \in sent}  BY DEF KyRestart
<1>3. ASSUME NEW o \in sent
      PROVE  /\ KyScript(o) \in KyScriptRec /\ KyScript(o).op = o.op /\ KyScript(o).key = o.key
             /\ ~KyScript(o).belied
             /\ KyOpInv(o) /\ KyFound(o) /\ o.key \in KyKeys
  BY DEF KyScript, KyScriptRec, KyOpRec, KeysTyped
<1>4. \A t \in kyLate' : t \in kyLate \/ \E o \in sent : t = KyScript(o)  BY <1>2
<1>5. ASSUME NEW k \in KyKeys
      PROVE  /\ KyReopened[k] \in KyRow /\ KyReopened[k].state \notin KyPending
             /\ KyReopened[k].state \in {"verified", "removed", "none"}
                   => KyReopened[k].state = kyDisk[k].state
  <2>1. kyDisk[k] \in KyRow  BY DEF KeysTyped
  <2>2. KyReopened[k] = [kyDisk[k] EXCEPT !.state =
            CASE @ = "install_pending" -> "install_unknown"
              [] @ = "verification_pending" -> "installed_unverified"
              [] @ = "remove_pending" -> "remove_unknown"
              [] OTHER -> @]
    BY DEF KyReopened
  <2> QED  BY <2>1, <2>2 DEF KyRow, KyStates, KyPending
<1>6. KeysTyped'
  <2>1. KyReopened \in [KyKeys -> KyRow]  BY <1>5 DEF KyReopened
  <2>2. kyCount' \in [ops : 0 .. KyMaxOps, faults : 0 .. KyMaxFaults]
    BY <1>1 DEF KeysTyped
  <2>3. kyLate' \subseteq KyScriptRec  BY <1>2, <1>3 DEF KeysTyped
  <2> QED  BY <1>1, <2>1, <2>2, <2>3 DEF KeysTyped
<1>7. ASSUME NEW k \in KyKeys, kyDisk[k].state \notin KyPending
      PROVE  /\ Unbelied("remove", k)' => Unbelied("remove", k)
             /\ Unbelied("install", k)' => Unbelied("install", k)
             /\ Awaited(k)' => Awaited(k)
  <2>1. \A o \in sent : o.key # k
    BY <1>3, <1>7 DEF KyOpInv, KyMark, KyPending
  <2> QED  BY <1>3, <1>4, <2>1 DEF Unbelied, Awaited
<1>8. ASSUME NEW k \in KyKeys PROVE Marked(k)' /\ Inventory(k)'
  <2>1. Marked(k)'  BY <1>1, <1>5 DEF Marked
  <2>2. ASSUME NEW st, st = KyReopened[k].state PROVE RowInv(st, k)'
    <3>1. st \in {"verified", "removed", "none"} =>
              st = kyDisk[k].state /\ RowInv(st, k) /\ kyDisk[k].state \notin KyPending
      BY <1>5, <2>2 DEF Inventory
    <3> QED  BY <1>1, <1>7, <3>1 DEF RowInv, There, Gone, Never, KyStrayed
  <2>3. kyCat'[k].state = KyReopened[k].state /\ kyDisk'[k].state = KyReopened[k].state
    BY <1>1
  <2> QED  BY <2>1, <2>2, <2>3 DEF Inventory
<1>9. OneStays'
  <2>1. ASSUME NEW h, Leaving(h)' PROVE Leaving(h)
    <3>1. Unbelied("remove", h)'  BY <1>1, <2>1 DEF Leaving, Removes
    <3>2. PICK t \in kyLate' : t.op = "remove" /\ t.key = h /\ ~t.belied
      BY <3>1 DEF Unbelied
    <3> QED  BY <1>3, <1>4, <3>2 DEF Leaving, Unbelied, Removes
  <2> QED  BY <1>1, <2>1 DEF OneStays, KyStrayed
<1>10. OnceInstalled'
  <2>1. ASSUME NEW t \in kyLate', t.op = "install" PROVE t.key \notin kyHost'
    BY <1>1, <1>3, <1>4, <2>1 DEF OnceInstalled, KyFound, Never
  <2>2. ASSUME NEW t \in kyLate', NEW u \in kyLate', t.op = "install", u.op = "install",
               t.key = u.key
        PROVE  t = u
    <3>1. CASE t \in kyLate /\ u \in kyLate  BY <2>2, <3>1 DEF OnceInstalled
    <3>2. ASSUME NEW x \in kyLate, NEW o \in sent, x.op = "install", o.op = "install",
                 x.key = o.key
          PROVE  FALSE
      BY <1>3, <3>2 DEF KyFound, Never, Awaited
    <3>3. ASSUME NEW o \in sent, NEW p \in sent, o.key = p.key PROVE o = p
      BY <1>3, <3>3 DEF Marked, Writes
    <3> QED  BY <1>3, <1>4, <2>2, <3>1, <3>2, <3>3
  <2> QED  BY <2>1, <2>2 DEF OnceInstalled
<1> QED  BY <1>1, <1>6, <1>8, <1>9, <1>10

(* Every step of the keys keeps the invariant.                             *)
LEMMA KyStepInv == KyIInv /\ [KyNext]_kyVars => KyIInv'
<1> SUFFICES ASSUME KyIInv, [KyNext]_kyVars PROVE KyIInv'  OBVIOUS
<1>1. CASE UNCHANGED kyVars
  BY <1>1 DEF kyVars, KyIInv, KeysTyped, OneStays, OnceInstalled, KyOpInv, KyFound, Marked,
              Writes, Inventory, RowInv, There, Gone, Never, Leaving, Removes, Unbelied,
              Awaited, KyStrayed
<1>2. ASSUME NEW k \in KyKeys, InstallPublicKey(k) \/ VerifyInstallation(k) PROVE KyIInv'
  BY <1>2, KyBeginInv
<1>3. ASSUME NEW k \in KyKeys, NEW alt \in KyKeys, RemovePublicKey(k, alt) PROVE KyIInv'
  BY <1>3, KyBeginInv
<1>4. ASSUME NEW k \in KyKeys, ReconcilePublicKey(k) PROVE KyIInv'
  BY <1>4, KyObserveInv
<1>5. ASSUME NEW k \in KyKeys, KyStale(k) PROVE KyIInv'
  BY <1>5, KyAsideInv
<1>6. ASSUME NEW o \in kyOps, KyRefuse(o) \/ KySend(o) PROVE KyIInv'
  BY <1>6, KySendInv
<1>7. ASSUME NEW o \in kyOps, KyChange(o) PROVE KyIInv'  BY <1>7, KyChangeInv
<1>8. ASSUME NEW o \in kyOps, KyLook(o) PROVE KyIInv'  BY <1>8, KyLookInv
<1>9. ASSUME NEW o \in kyOps, KyFinish(o) PROVE KyIInv'  BY <1>9, KyFinishInv
<1>10. ASSUME NEW s \in kyLate, KyLand(s) PROVE KyIInv'  BY <1>10, KyLandInv
<1>11. CASE KyOtherSave  BY <1>11, KyAsideInv
<1>12. CASE KyRestart  BY <1>12, KyRestartInv
<1> QED
  BY <1>1, <1>2, <1>3, <1>4, <1>5, <1>6, <1>7, <1>8, <1>9, <1>10, <1>11, <1>12 DEF KyNext

(* The inductive invariant of managed keys holds (keys.go): the catalog in *)
(* memory and in its file, the operations under way, the scripts that      *)
(* nobody waits for and the host agree, over failed saves and restarts.    *)
THEOREM KyInductive == KySpec => []KyIInv
BY KyInitInv, KyStepInv, PTL DEF KySpec

(* What KySafe asks for is in the invariant.                               *)
LEMMA KyIInvSafe == KyIInv => KySafe
<1> SUFFICES ASSUME KyIInv PROVE KySafe  OBVIOUS
<1>1. KyTruthful  BY DEF KyIInv, Inventory, RowInv, There, Gone, KyTruthful
<1>2. KyOneWriter
  <2> SUFFICES ASSUME NEW k \in KyKeys
               PROVE  LET writers == {o \in kyOps : o.key = k /\ o.op # "reconcile"}
                      IN /\ Cardinality(writers) <= 1
                         /\ writers # {} => /\ kyCat[k].state \in KyPending
                                            /\ kyDisk[k].state \in KyPending
                         /\ kyCat[k].state \in KyPending /\ ~kyBroken => writers # {}
    BY DEF KyOneWriter
  <2> DEFINE W == {o \in kyOps : o.key = k /\ o.op # "reconcile"}
  <2>1. Marked(k) /\ \A o \in kyOps : o \in W <=> Writes(o, k)  BY DEF KyIInv, Writes
  <2>2. Cardinality(W) <= 1
    <3>1. CASE W = {}  BY <3>1, FS_EmptySet
    <3>2. ASSUME NEW o \in W PROVE Cardinality(W) <= 1
      <4>1. W = {o}  BY <2>1 DEF Marked, Writes
      <4>2. Cardinality(W) = 1  BY <4>1, FS_Singleton
      <4> QED  BY <4>2
    <3> QED  BY <3>1, <3>2
  <2>3. ASSUME NEW o \in W
        PROVE  kyCat[k].state \in KyPending /\ kyDisk[k].state \in KyPending
    BY <2>3 DEF KyIInv, KyOpInv, KyMark, KyPending
  <2>4. kyCat[k].state \in KyPending /\ ~kyBroken => W # {}  BY <2>1 DEF Marked
  <2> QED  BY <2>2, <2>3, <2>4
<1>3. KyLastKey  BY DEF KyIInv, OneStays, KyLastKey
<1> QED  BY <1>1, <1>2, <1>3 DEF KySafe

(* Whatever overlaps on the host, is lost or cannot be saved: the          *)
(* inventory is right where it is definite, one operation at a time        *)
(* changes an installation, and once a key was verified some managed key   *)
(* stays, unless a script that nobody waited for came after a login or an  *)
(* inspection had shown the host without it.                               *)
THEOREM KySafety == KySpec => []KySafe
BY KyInductive, KyIInvSafe, PTL

(* The invariant gives the catalog and the operations their types.         *)
LEMMA KyTyped == KyIInv => KyTypeOK
BY DEF KyIInv, KeysTyped, KyTypeOK, KyOpNames, KyOpRec, KyScriptRec, KyRow

-----------------------------------------------------------------------------
(* Executions.                                                             *)

Hash == Nat \X Nat
PreviewRec == [hash : Hash, exec : Nat, made : BOOLEAN]
ExecRec == [req : RxReqs \union {"none"}, state : RxStates, hash : Hash]
CatRec == [enabled : BOOLEAN, policy : 0 .. RxMaxPolicy, granted : BOOLEAN,
           grant : 0 .. RxMaxPolicy, uses : Nat,
           preview : [RxReqs -> PreviewRec], claim : [RxReqs -> BOOLEAN],
           exec : [RxExecs -> ExecRec]]

RxTyped ==
    /\ rxCat \in CatRec /\ rxDisk \in CatRec /\ rxBroken \in BOOLEAN
    /\ rxAt \in [RxExecs -> {"none", "confirm", "run", "ran", "done"}]
    /\ rxCtx \subseteq RxExecs /\ rxFire \subseteq RxReqs /\ rxLate \subseteq RxReqs
    /\ rxRes \in [RxExecs -> {"none", "completed", "exit_failed", "unknown_outcome", "failed"}]
    /\ rxSent \in [RxExecs -> BOOLEAN]
    /\ rxUsed \in [0 .. RxMaxPolicy -> Nat]
    /\ rxFaults \in Nat

(* The states that admit that the command ran. *)
Told == {"dispatch_started", "completed", "exit_failed", "unknown_outcome"}

(* An execution in a catalog belongs to the one approval or claim that it  *)
(* used up there, and agrees with where its call is.                       *)
ExecInv(cat, e, at, fire, sent) ==
    LET x == cat.exec[e] IN
    /\ x.state # "none" =>
          /\ x.req \in RxReqs
          /\ RxKind[x.req] = "approved" => cat.preview[x.req].made /\ cat.preview[x.req].exec = e
          /\ RxKind[x.req] = "firing" => cat.claim[x.req] /\ x.req \notin fire
    /\ at[e] = "none" => x.state = "none"
    /\ at[e] = "confirm" => x.state = "awaiting_approval"
    /\ at[e] \in {"run", "ran"} => x.state = "dispatch_started"
    /\ sent[e] => x.state \in Told

(* A catalog, in memory or on disk. *)
CatInv(cat, at, fire, sent, used) ==
    /\ \A e \in RxExecs : ExecInv(cat, e, at, fire, sent)
    /\ \A d, e \in RxExecs :
          /\ cat.exec[d].state # "none" /\ cat.exec[e].state # "none"
          /\ cat.exec[d].req = cat.exec[e].req /\ RxKind[cat.exec[d].req] = "firing"
          => d = e
    /\ \A r \in fire : cat.claim[r] /\ RxKind[r] = "firing"
    /\ used[cat.grant] <= cat.uses /\ cat.grant <= cat.policy
    /\ IsFiniteSet(RxLiveExecs(cat)) /\ Cardinality(RxLiveExecs(cat)) <= RxSlots

(* The calls. *)
CallInv(e) ==
    /\ rxSent[e] => rxAt[e] \in {"ran", "done"}
    /\ rxAt[e] = "ran" => rxRes[e] # "none" /\ (rxSent[e] => rxRes[e] \in Told)
    /\ rxAt[e] = "confirm" /\ RxKind[rxCat.exec[e].req] = "approved" =>
          rxCat.exec[e].hash = rxCat.preview[rxCat.exec[e].req].hash

(* The uses of a grant: none is counted that the file does not know of.    *)
UsesInv ==
    /\ rxDisk.policy <= rxCat.policy
    /\ \A p \in 0 .. RxMaxPolicy : /\ rxUsed[p] <= RxMaxUses
                                   /\ p > rxDisk.policy => rxUsed[p] = 0

RxIInv ==
    /\ RxTyped /\ UsesInv
    /\ CatInv(rxCat, rxAt, rxFire, rxSent, rxUsed)
    /\ CatInv(rxDisk, rxAt, rxFire, rxSent, rxUsed)
    /\ \A e \in RxExecs : CallInv(e)

(* The first catalog, before any call.                                     *)
LEMMA RxInitInv == RxInit => RxIInv
<1> SUFFICES ASSUME RxInit PROVE RxIInv  OBVIOUS
<1> USE RxAssumption
<1>1. \A e \in RxExecs : rxCat.exec[e] = RxNoExec  BY DEF RxInit
<1>2. RxLiveExecs(rxCat) = {}
  <2>1. \A e \in RxExecs : rxCat.exec[e].state = "none"  BY <1>1 DEF RxNoExec
  <2> QED  BY <2>1 DEF RxLiveExecs, RxLiveStates
<1>3. rxCat \in CatRec
  <2>1. NoPreview \in PreviewRec /\ RxNoExec \in ExecRec
    BY DEF NoPreview, RxNoExec, PreviewRec, ExecRec, Hash, RxStates
  <2>2. /\ [r \in RxReqs |-> NoPreview] \in [RxReqs -> PreviewRec]
        /\ [e \in RxExecs |-> RxNoExec] \in [RxExecs -> ExecRec]
        /\ [r \in RxReqs |-> FALSE] \in [RxReqs -> BOOLEAN]
    BY <2>1
  <2> HIDE DEF NoPreview, RxNoExec
  <2> QED  BY <2>2 DEF RxInit, CatRec
<1>4. RxTyped  BY <1>3 DEF RxTyped, RxInit
<1>5. CatInv(rxCat, rxAt, rxFire, rxSent, rxUsed)
  <2>1. \A e \in RxExecs : ExecInv(rxCat, e, rxAt, rxFire, rxSent)
    BY <1>1 DEF ExecInv, RxNoExec, RxInit
  <2>2. \A e \in RxExecs : rxCat.exec[e].state = "none"  BY <1>1 DEF RxNoExec
  <2>3. rxUsed[rxCat.grant] <= rxCat.uses /\ rxCat.grant <= rxCat.policy  BY DEF RxInit
  <2>4. Cardinality(RxLiveExecs(rxCat)) <= RxSlots /\ IsFiniteSet(RxLiveExecs(rxCat))
    BY <1>2, FS_EmptySet
  <2>5. \A r \in rxFire : FALSE  BY DEF RxInit
  <2> QED  BY <2>1, <2>2, <2>3, <2>4, <2>5 DEF CatInv
<1>6. \A e \in RxExecs : CallInv(e)  BY DEF CallInv, RxInit
<1>7. UsesInv  BY DEF UsesInv, RxInit
<1>8. rxDisk = rxCat  BY DEF RxInit
<1> QED  BY <1>4, <1>5, <1>6, <1>7, <1>8 DEF RxIInv

(* The catalog on disk that a step does not replace. *)
LEMMA OldCat ==
    ASSUME NEW c \in CatRec, NEW at, NEW fire, NEW sent, NEW used,
           NEW at2, NEW fire2, NEW sent2, CatInv(c, at, fire, sent, used),
           fire2 \subseteq fire,
           \A e \in RxExecs :
              /\ \/ at2[e] = at[e] \/ at2[e] = "done"
                 \/ at[e] = "run" /\ at2[e] = "ran"
              /\ sent2[e] => sent[e] \/ at[e] = "run"
    PROVE  CatInv(c, at2, fire2, sent2, used)
<1>1. \A e \in RxExecs : ExecInv(c, e, at2, fire2, sent2)
  BY DEF CatInv, ExecInv, Told
<1> QED  BY <1>1 DEF CatInv

(* What a save does: the change is in memory, and the file has it or not.  *)
LEMMA Saves ==
    ASSUME NEW cat, RxSaved(cat) \/ RxSaveFails(cat), rxFaults \in Nat, rxBroken \in BOOLEAN
    PROVE  /\ rxCat' = cat /\ rxDisk' \in {rxDisk, cat} /\ rxBroken' \in BOOLEAN
           /\ rxFaults' \in Nat
<1>1. CASE RxSaved(cat)  BY <1>1 DEF RxSaved
<1>2. CASE RxSaveFails(cat)  BY <1>2 DEF RxSaveFails
<1> QED  BY <1>1, <1>2

(* The step lemma of a step that changes the catalog: it is enough that    *)
(* the new catalog, and the old one, are right for what the calls do.      *)
LEMMA RxChange ==
    ASSUME RxIInv, NEW cat \in CatRec, RxSaved(cat) \/ RxSaveFails(cat),
           cat.policy >= rxCat.policy,
           rxAt' \in [RxExecs -> {"none", "confirm", "run", "ran", "done"}],
           rxCtx' \subseteq RxExecs, rxFire' \subseteq RxReqs,
           UNCHANGED <<rxRes, rxLate, rxSent, rxUsed>>,
           CatInv(cat, rxAt', rxFire', rxSent, rxUsed),
           rxDisk' # cat => CatInv(rxDisk, rxAt', rxFire', rxSent, rxUsed),
           \A e \in RxExecs : CallInv(e)'
    PROVE  RxIInv'
<1> USE RxAssumption DEF RxIInv
<1>1. rxCat' = cat /\ rxDisk' \in {rxDisk, cat} /\ rxBroken' \in BOOLEAN /\ rxFaults' \in Nat
  BY Saves DEF RxTyped
<1>2. RxTyped'  BY <1>1 DEF RxTyped
<1>3. UsesInv'
  <2>1. rxDisk'.policy >= rxDisk.policy /\ rxDisk'.policy <= rxCat'.policy
    BY SMTT(30), <1>1 DEF UsesInv, RxTyped, CatRec
  <2>2. rxDisk.policy \in Nat /\ rxDisk'.policy \in Nat  BY SMTT(30), <1>1 DEF RxTyped, CatRec
  <2> QED  BY <2>1, <2>2 DEF UsesInv
<1>4. CatInv(rxCat, rxAt, rxFire, rxSent, rxUsed)'  BY <1>1
<1>5. CatInv(rxDisk, rxAt, rxFire, rxSent, rxUsed)'  BY <1>1
<1> QED  BY <1>2, <1>3, <1>4, <1>5

-----------------------------------------------------------------------------
(* What the changes do to a catalog, field by field.                       *)

(* A step that changes only the calls and not the catalog.                 *)
LEMMA RxCalls ==
    ASSUME RxIInv, UNCHANGED <<rxCat, rxDisk, rxBroken, rxFaults, rxUsed>>,
           rxAt' \in [RxExecs -> {"none", "confirm", "run", "ran", "done"}],
           rxCtx' \subseteq RxExecs, rxFire' \subseteq rxFire, rxLate' \subseteq RxReqs,
           rxRes' \in [RxExecs -> {"none", "completed", "exit_failed",
                                   "unknown_outcome", "failed"}],
           rxSent' \in [RxExecs -> BOOLEAN],
           \A e \in RxExecs :
              /\ \/ rxAt'[e] = rxAt[e] \/ rxAt'[e] = "done"
                 \/ rxAt[e] = "run" /\ rxAt'[e] = "ran"
              /\ rxSent'[e] => rxSent[e] \/ rxAt[e] = "run"
              /\ CallInv(e)'
    PROVE  RxIInv'
<1> USE RxAssumption DEF RxIInv
<1>1. RxTyped'  BY DEF RxTyped
<1>2. UsesInv'  BY DEF UsesInv
<1>3. CatInv(rxCat, rxAt', rxFire', rxSent', rxUsed)  BY SMTT(30), OldCat DEF RxTyped
<1>4. CatInv(rxDisk, rxAt', rxFire', rxSent', rxUsed)  BY SMTT(30), OldCat DEF RxTyped
<1>5. CatInv(rxCat, rxAt, rxFire, rxSent, rxUsed)'  BY <1>3
<1>6. CatInv(rxDisk, rxAt, rxFire, rxSent, rxUsed)'  BY <1>4
<1> QED  BY <1>1, <1>2, <1>5, <1>6

(* RxSetState, on any catalog. *)
LEMMA SetState ==
    ASSUME NEW c \in CatRec, NEW e \in RxExecs, NEW s \in RxStates
    PROVE  LET d == [c EXCEPT !.exec[e].state = s] IN
           /\ d \in CatRec
           /\ d.exec[e].state = s /\ d.exec[e].req = c.exec[e].req
           /\ d.exec[e].hash = c.exec[e].hash
           /\ \A x \in RxExecs \ {e} : d.exec[x] = c.exec[x]
           /\ d.preview = c.preview /\ d.claim = c.claim /\ d.policy = c.policy
           /\ d.uses = c.uses /\ d.grant = c.grant /\ d.enabled = c.enabled
           /\ d.granted = c.granted
<1> DEFINE x == [c.exec[e] EXCEPT !.state = s]
           xs == [c.exec EXCEPT ![e] = x]
           d == [c EXCEPT !.exec = xs]
<1>1. c.exec \in [RxExecs -> ExecRec]  BY DEF CatRec
<1>2. x \in ExecRec /\ x.state = s /\ x.req = c.exec[e].req /\ x.hash = c.exec[e].hash
  BY <1>1 DEF ExecRec
<1>3. [c EXCEPT !.exec[e].state = s] = d  OBVIOUS
<1> HIDE DEF x
<1>4. xs \in [RxExecs -> ExecRec] /\ xs[e] = x /\ \A y \in RxExecs \ {e} : xs[y] = c.exec[y]
  BY <1>1, <1>2
<1> HIDE DEF xs
<1>5. /\ d \in CatRec /\ d.exec = xs
      /\ d.preview = c.preview /\ d.claim = c.claim /\ d.policy = c.policy
      /\ d.uses = c.uses /\ d.grant = c.grant /\ d.enabled = c.enabled
      /\ d.granted = c.granted
  BY <1>4 DEF CatRec
<1> HIDE DEF d
<1> QED  BY <1>2, <1>3, <1>4, <1>5

(* A catalog in which one execution moved on is right, when its new state  *)
(* is right for its call and takes no slot that it did not have.           *)
LEMMA Settled ==
    ASSUME NEW c \in CatRec, NEW d \in CatRec, NEW at, NEW at2, NEW fire, NEW sent,
           NEW used, NEW used2, CatInv(c, at, fire, sent, used), NEW e \in RxExecs,
           d.exec[e].req = c.exec[e].req,
           \A x \in RxExecs \ {e} : d.exec[x] = c.exec[x] /\ at2[x] = at[x],
           d.preview = c.preview, d.claim = c.claim, d.policy = c.policy,
           d.grant = c.grant, used2[d.grant] <= d.uses,
           c.exec[e].state \in RxLiveStates, d.exec[e].state # "none",
           at2[e] = "done" \/ (at2[e] = "run" /\ d.exec[e].state = "dispatch_started"),
           sent[e] => d.exec[e].state \in Told
    PROVE  CatInv(d, at2, fire, sent, used2)
<1>1. \A x \in RxExecs : ExecInv(d, x, at2, fire, sent)
  <2>1. ExecInv(d, e, at2, fire, sent)
    BY DEF CatInv, ExecInv, RxLiveStates
  <2>2. ASSUME NEW x \in RxExecs \ {e} PROVE ExecInv(d, x, at2, fire, sent)
    BY <2>2 DEF CatInv, ExecInv
  <2> QED  BY <2>1, <2>2
<1>2. RxLiveExecs(d) \subseteq RxLiveExecs(c)  BY DEF RxLiveExecs
<1>3. /\ IsFiniteSet(RxLiveExecs(d))
      /\ Cardinality(RxLiveExecs(d)) <= RxSlots
  <2>1. /\ IsFiniteSet(RxLiveExecs(c)) /\ Cardinality(RxLiveExecs(c)) <= RxSlots
    BY DEF CatInv
  <2>2. Cardinality(RxLiveExecs(d)) <= Cardinality(RxLiveExecs(c))
    BY <1>2, <2>1, FS_Subset
  <2>3. IsFiniteSet(RxLiveExecs(d))  BY <1>2, <2>1, FS_Subset
  <2>4. Cardinality(RxLiveExecs(d)) \in Nat /\ Cardinality(RxLiveExecs(c)) \in Nat
    BY <2>1, <2>3, FS_CardinalityType
  <2> QED  BY <2>1, <2>2, <2>3, <2>4, RxAssumption
<1>4. \A x, y \in RxExecs :
          /\ d.exec[x].state # "none" /\ d.exec[y].state # "none"
          /\ d.exec[x].req = d.exec[y].req /\ RxKind[d.exec[x].req] = "firing"
          => x = y
  <2>1. \A x \in RxExecs : /\ d.exec[x].req = c.exec[x].req
                           /\ d.exec[x].state # "none" => c.exec[x].state # "none"
    BY DEF RxLiveStates
  <2> QED  BY <2>1 DEF CatInv
<1>5. \A r \in fire : d.claim[r] /\ RxKind[r] = "firing"  BY DEF CatInv
<1>6. d.grant <= d.policy  BY DEF CatInv
<1> QED  BY <1>1, <1>3, <1>4, <1>5, <1>6 DEF CatInv

(* A catalog whose executions stayed, with other previews, claims, grants  *)
(* or settings.                                                            *)
LEMMA RxEdited ==
    ASSUME NEW c \in CatRec, NEW d \in CatRec, NEW at, NEW fire, NEW fire2, NEW sent,
           NEW used, CatInv(c, at, fire, sent, used), d.exec = c.exec,
           \A e \in RxExecs : c.exec[e].state # "none" =>
              /\ RxKind[c.exec[e].req] = "approved" =>
                    d.preview[c.exec[e].req] = c.preview[c.exec[e].req]
              /\ RxKind[c.exec[e].req] = "firing" =>
                    d.claim[c.exec[e].req] /\ c.exec[e].req \notin fire2,
           \A r \in fire2 : d.claim[r] /\ RxKind[r] = "firing",
           used[d.grant] <= d.uses, d.grant <= d.policy
    PROVE  CatInv(d, at, fire2, sent, used)
<1>1. \A e \in RxExecs : ExecInv(d, e, at, fire2, sent)
  BY DEF CatInv, ExecInv
<1>2. RxLiveExecs(d) = RxLiveExecs(c)  BY DEF RxLiveExecs
<1> QED  BY <1>1, <1>2 DEF CatInv

(* The file when a failed save left the old one. *)
LEMMA OldDisk ==
    ASSUME RxIInv, rxFire' \subseteq rxFire,
           \A e \in RxExecs : \/ rxAt'[e] = rxAt[e] \/ rxAt'[e] = "done"
                              \/ rxAt[e] = "run" /\ rxAt'[e] = "ran"
    PROVE  CatInv(rxDisk, rxAt', rxFire', rxSent, rxUsed)
BY OldCat DEF RxIInv, RxTyped

(* A preview. *)
LEMMA RxPreviewInv == ASSUME RxIInv, NEW r \in RxReqs, RxPreview(r) PROVE RxIInv'
<1> DEFINE p == [hash |-> PlanHash(r), exec |-> 0, made |-> TRUE]
           ps == [rxCat.preview EXCEPT ![r] = p]
           cat == [rxCat EXCEPT !.preview = ps]
<1>1. rxCat \in CatRec /\ CatInv(rxCat, rxAt, rxFire, rxSent, rxUsed)
  BY DEF RxIInv, RxTyped
<1>2. p \in PreviewRec
  BY <1>1, RxAssumption DEF PreviewRec, Hash, PlanHash, CatRec
<1>3. /\ RxSaved(cat) \/ RxSaveFails(cat)
      /\ ~rxCat.preview[r].made
      /\ UNCHANGED <<rxAt, rxCtx, rxRes, rxFire, rxLate, rxSent, rxUsed>>
  BY DEF RxPreview, rxCall, RxRest
<1> HIDE DEF p
<1>4. rxCat.preview \in [RxReqs -> PreviewRec]  BY <1>1 DEF CatRec
<1>5. ps \in [RxReqs -> PreviewRec] /\ \A q \in RxReqs \ {r} : ps[q] = rxCat.preview[q]
  BY <1>2, <1>4
<1> HIDE DEF ps
<1>6. /\ cat \in CatRec /\ cat.exec = rxCat.exec /\ cat.preview = ps
      /\ cat.claim = rxCat.claim /\ cat.policy = rxCat.policy
      /\ cat.uses = rxCat.uses /\ cat.grant = rxCat.grant
  BY <1>1, <1>5 DEF CatRec
<1> HIDE DEF cat
<1>7. \A e \in RxExecs : rxCat.exec[e].state # "none"
            /\ RxKind[rxCat.exec[e].req] = "approved" =>
              rxCat.exec[e].req \in RxReqs \ {r}
  BY <1>1, <1>3 DEF CatInv, ExecInv
<1>8. CatInv(cat, rxAt, rxFire, rxSent, rxUsed)
  <2>1. \A e \in RxExecs : rxCat.exec[e].state # "none" =>
              /\ RxKind[rxCat.exec[e].req] = "approved" =>
                    cat.preview[rxCat.exec[e].req] = rxCat.preview[rxCat.exec[e].req]
              /\ RxKind[rxCat.exec[e].req] = "firing" =>
                    cat.claim[rxCat.exec[e].req] /\ rxCat.exec[e].req \notin rxFire
    BY <1>1, <1>5, <1>6, <1>7 DEF CatInv, ExecInv
  <2>2. /\ \A q \in rxFire : cat.claim[q] /\ RxKind[q] = "firing"
        /\ rxUsed[cat.grant] <= cat.uses /\ cat.grant <= cat.policy
    BY <1>1, <1>6 DEF CatInv
  <2> QED  BY <1>1, <1>6, <2>1, <2>2, RxEdited
<1>9. CatInv(rxDisk, rxAt', rxFire', rxSent, rxUsed)  BY <1>3, OldDisk
<1>10. rxCat' = cat  BY <1>3 DEF RxSaved, RxSaveFails
<1>11. \A e \in RxExecs : CallInv(e)'
  <2> SUFFICES ASSUME NEW e \in RxExecs PROVE CallInv(e)'  OBVIOUS
  <2>1. CallInv(e)  BY DEF RxIInv
  <2>2. rxAt[e] = "confirm" => rxCat.exec[e].state # "none"  BY <1>1 DEF CatInv, ExecInv
  <2>3. rxCat'.exec = rxCat.exec /\ rxCat'.preview = ps  BY <1>6, <1>10
  <2>4. rxAt[e] = "confirm" /\ RxKind[rxCat.exec[e].req] = "approved" =>
            ps[rxCat.exec[e].req] = rxCat.preview[rxCat.exec[e].req]
    BY <2>2, <1>5, <1>7
  <2> QED  BY <1>3, <2>1, <2>3, <2>4 DEF CallInv
<1>12. /\ rxAt' \in [RxExecs -> {"none", "confirm", "run", "ran", "done"}]
       /\ rxCtx' \subseteq RxExecs /\ rxFire' \subseteq RxReqs
       /\ cat.policy >= rxCat.policy
  BY <1>1, <1>3, <1>6, RxAssumption DEF RxIInv, RxTyped, CatRec
<1> QED  BY <1>3, <1>6, <1>8, <1>9, <1>11, <1>12, RxChange

(* A claim of a firing: no execution has used it. *)
LEMMA RxClaimInv == ASSUME RxIInv, NEW r \in RxReqs, RxClaim(r) PROVE RxIInv'
<1> DEFINE ks == [rxCat.claim EXCEPT ![r] = TRUE]
           cat == [rxCat EXCEPT !.claim = ks]
<1>1. rxCat \in CatRec /\ CatInv(rxCat, rxAt, rxFire, rxSent, rxUsed)
  BY DEF RxIInv, RxTyped
<1>2. /\ RxKind[r] = "firing" /\ ~rxCat.claim[r]
      /\ UNCHANGED <<rxAt, rxCtx, rxRes, rxLate, rxSent, rxUsed>>
      /\ \/ RxSaved(cat) /\ rxFire' = rxFire \union {r}
         \/ RxSaveFails(cat) /\ rxFire' = rxFire
  BY DEF RxClaim, RxRest
<1>3. /\ ks \in [RxReqs -> BOOLEAN] /\ ks[r]
      /\ \A q \in RxReqs \ {r} : ks[q] = rxCat.claim[q]
  BY <1>1 DEF CatRec
<1> HIDE DEF ks
<1>4. /\ cat \in CatRec /\ cat.exec = rxCat.exec /\ cat.preview = rxCat.preview
      /\ cat.claim = ks /\ cat.policy = rxCat.policy
      /\ cat.uses = rxCat.uses /\ cat.grant = rxCat.grant
  BY <1>1, <1>3 DEF CatRec
<1> HIDE DEF cat
<1>5. CatInv(cat, rxAt, rxFire', rxSent, rxUsed)
  <2>1. \A e \in RxExecs : rxCat.exec[e].state # "none" =>
              /\ RxKind[rxCat.exec[e].req] = "approved" =>
                    cat.preview[rxCat.exec[e].req] = rxCat.preview[rxCat.exec[e].req]
              /\ RxKind[rxCat.exec[e].req] = "firing" =>
                    cat.claim[rxCat.exec[e].req] /\ rxCat.exec[e].req \notin rxFire'
    BY <1>1, <1>2, <1>3, <1>4 DEF CatInv, ExecInv
  <2>2. \A q \in rxFire' : cat.claim[q] /\ RxKind[q] = "firing"
    <3>1. rxFire \subseteq RxReqs  BY DEF RxIInv, RxTyped
    <3> QED  BY <1>1, <1>2, <1>3, <1>4, <3>1 DEF CatInv
  <2>3. rxUsed[cat.grant] <= cat.uses /\ cat.grant <= cat.policy
    BY <1>1, <1>4 DEF CatInv
  <2> QED  BY <1>1, <1>4, <2>1, <2>2, <2>3, RxEdited
<1>6. ASSUME rxDisk' # cat PROVE CatInv(rxDisk, rxAt', rxFire', rxSent, rxUsed)
  <2>1. rxFire' = rxFire  BY <1>2, <1>6 DEF RxSaved
  <2> QED  BY <1>2, <2>1, OldDisk
<1>7. rxCat' = cat  BY <1>2 DEF RxSaved, RxSaveFails
<1>8. \A e \in RxExecs : CallInv(e)'
  BY <1>2, <1>4, <1>7 DEF CallInv, RxIInv
<1>9. /\ rxAt' \in [RxExecs -> {"none", "confirm", "run", "ran", "done"}]
      /\ rxCtx' \subseteq RxExecs /\ rxFire' \subseteq RxReqs
      /\ cat.policy >= rxCat.policy
  BY <1>1, <1>2, <1>4, RxAssumption DEF RxIInv, RxTyped, CatRec
<1>10. CatInv(cat, rxAt', rxFire', rxSent, rxUsed)  BY <1>2, <1>5
<1> QED  BY <1>2, <1>4, <1>6, <1>8, <1>9, <1>10, RxChange

(* A step that changes no catalog. *)
LEMMA RxCallStepInv ==
    ASSUME RxIInv,
           \/ \E r \in RxReqs : RxPreviewExpires(r) \/ RxDenied(r)
           \/ \E e \in RxExecs : RxRun(e) \/ RxCancel(e)
    PROVE  RxIInv'
<1>1. RxTyped /\ \A e \in RxExecs : CallInv(e)  BY DEF RxIInv
<1>2. ASSUME NEW r \in RxReqs, RxPreviewExpires(r) PROVE RxIInv'
  <2>1. /\ UNCHANGED <<rxCat, rxDisk, rxBroken, rxFaults, rxAt, rxCtx, rxRes, rxFire,
                       rxSent, rxUsed>>
        /\ rxLate' \subseteq RxReqs
    BY <1>1, <1>2 DEF RxPreviewExpires, rxCall, RxTyped
  <2>2. \A e \in RxExecs : CallInv(e)'  BY <1>1, <2>1 DEF CallInv
  <2> QED  BY <1>1, <2>1, <2>2, RxCalls DEF RxTyped
<1>3. ASSUME NEW r \in RxReqs, RxDenied(r) PROVE RxIInv'
  <2>1. /\ UNCHANGED <<rxCat, rxDisk, rxBroken, rxFaults, rxAt, rxCtx, rxRes, rxLate,
                       rxSent, rxUsed>>
        /\ rxFire' \subseteq rxFire
    BY <1>3 DEF RxDenied, RxRest
  <2>2. \A e \in RxExecs : CallInv(e)'  BY <1>1, <2>1 DEF CallInv
  <2> QED  BY <1>1, <2>1, <2>2, RxCalls DEF RxTyped
<1>4. ASSUME NEW e \in RxExecs, RxCancel(e) PROVE RxIInv'
  <2>1. /\ UNCHANGED <<rxCat, rxDisk, rxBroken, rxFaults, rxAt, rxRes, rxFire, rxLate,
                       rxSent, rxUsed>>
        /\ rxCtx' \subseteq RxExecs
    BY <1>1, <1>4 DEF RxCancel, RxRest, RxTyped
  <2>2. \A x \in RxExecs : CallInv(x)'  BY <1>1, <2>1 DEF CallInv
  <2> QED  BY <1>1, <2>1, <2>2, RxCalls DEF RxTyped
<1>5. ASSUME NEW e \in RxExecs, RxRun(e) PROVE RxIInv'
  <2>1. PICK res \in {"completed", "exit_failed", "unknown_outcome", "failed"},
             ran \in BOOLEAN :
           /\ rxRes' = [rxRes EXCEPT ![e] = res]
           /\ rxSent' = [rxSent EXCEPT ![e] = ran]
           /\ res = "failed" => ran = FALSE
    BY <1>5 DEF RxRun
  <2>2. /\ rxAt[e] = "run" /\ rxAt' = [rxAt EXCEPT ![e] = "ran"]
        /\ UNCHANGED <<rxCat, rxDisk, rxBroken, rxFaults, rxCtx, rxFire, rxLate, rxUsed>>
    BY <1>5 DEF RxRun, RxStep
  <2>3. \A x \in RxExecs : CallInv(x)'
    BY <1>1, <2>1, <2>2 DEF CallInv, RxTyped, Told
  <2>4. /\ rxAt' \in [RxExecs -> {"none", "confirm", "run", "ran", "done"}]
        /\ rxRes' \in [RxExecs -> {"none", "completed", "exit_failed",
                                   "unknown_outcome", "failed"}]
        /\ rxSent' \in [RxExecs -> BOOLEAN]
    BY <1>1, <2>1, <2>2 DEF RxTyped
  <2>5. \A x \in RxExecs :
              /\ \/ rxAt'[x] = rxAt[x] \/ rxAt'[x] = "done"
                 \/ rxAt[x] = "run" /\ rxAt'[x] = "ran"
              /\ rxSent'[x] => rxSent[x] \/ rxAt[x] = "run"
    BY <1>1, <2>1, <2>2 DEF RxTyped
  <2> QED  BY <1>1, <2>2, <2>3, <2>4, <2>5, RxCalls DEF RxTyped
<1> QED  BY <1>2, <1>3, <1>4, <1>5

(* An execution that ends, refused, failed or with what its run answered.  *)
LEMMA RxEnds ==
    ASSUME RxIInv, NEW e \in RxExecs, NEW s \in RxStates \ {"none"},
           LET cat == RxSetState(e, s) IN RxSaved(cat) \/ RxSaveFails(cat),
           rxCat.exec[e].state \in RxLiveStates, rxSent[e] => s \in Told,
           RxStep(e, "done"), UNCHANGED <<rxCtx, rxRes, rxFire, rxLate, rxSent, rxUsed>>
    PROVE  RxIInv'
<1> DEFINE cat == [rxCat EXCEPT !.exec[e].state = s]
<1>1. rxCat \in CatRec /\ CatInv(rxCat, rxAt, rxFire, rxSent, rxUsed)
  BY DEF RxIInv, RxTyped
<1>2. RxSaved(cat) \/ RxSaveFails(cat)  BY DEF RxSetState
<1>3. /\ cat \in CatRec
      /\ cat.exec[e].state = s /\ cat.exec[e].req = rxCat.exec[e].req
      /\ \A x \in RxExecs \ {e} : cat.exec[x] = rxCat.exec[x]
      /\ cat.preview = rxCat.preview /\ cat.claim = rxCat.claim
      /\ cat.policy = rxCat.policy /\ cat.uses = rxCat.uses /\ cat.grant = rxCat.grant
  BY <1>1, SetState
<1> HIDE DEF cat
<1>4. /\ rxAt'[e] = "done" /\ \A x \in RxExecs \ {e} : rxAt'[x] = rxAt[x]
      /\ rxAt' \in [RxExecs -> {"none", "confirm", "run", "ran", "done"}]
  BY DEF RxStep, RxIInv, RxTyped
<1>5. CatInv(cat, rxAt', rxFire, rxSent, rxUsed)
  <2>1. /\ cat.exec[e].req = rxCat.exec[e].req
        /\ \A x \in RxExecs \ {e} : cat.exec[x] = rxCat.exec[x] /\ rxAt'[x] = rxAt[x]
        /\ cat.preview = rxCat.preview /\ cat.claim = rxCat.claim
        /\ cat.policy = rxCat.policy /\ cat.grant = rxCat.grant
        /\ rxUsed[cat.grant] <= cat.uses
        /\ rxCat.exec[e].state \in RxLiveStates
        /\ cat.exec[e].state # "none"
        /\ rxAt'[e] = "done" \/ (rxAt'[e] = "run" /\ cat.exec[e].state = "dispatch_started")
        /\ rxSent[e] => cat.exec[e].state \in Told
    BY <1>1, <1>3, <1>4 DEF CatInv
  <2>2. cat \in CatRec  BY <1>3
  <2> QED  BY <1>1, <2>1, <2>2, Settled
<1>6. CatInv(rxDisk, rxAt', rxFire', rxSent, rxUsed)  BY <1>4, OldDisk
<1>7. rxCat' = cat  BY <1>2 DEF RxSaved, RxSaveFails
<1>8. \A x \in RxExecs : CallInv(x)'
  BY <1>3, <1>4, <1>7 DEF CallInv, RxIInv
<1>9. /\ rxCtx' \subseteq RxExecs /\ rxFire' \subseteq RxReqs /\ cat.policy >= rxCat.policy
  BY <1>1, <1>3, RxAssumption DEF RxIInv, RxTyped, CatRec
<1> QED  BY <1>2, <1>3, <1>4, <1>5, <1>6, <1>8, <1>9, RxChange

(* A refusal, a missing secret and a recorded result. *)
LEMMA RxEndsInv ==
    ASSUME RxIInv, NEW e \in RxExecs, RxRefused(e) \/ RxNoCredential(e) \/ RxFinish(e)
    PROVE  RxIInv'
<1>1. CatInv(rxCat, rxAt, rxFire, rxSent, rxUsed) /\ CallInv(e)  BY DEF RxIInv
<1>2. CASE RxRefused(e)
  <2>1. /\ rxAt[e] = "confirm" /\ RxStep(e, "done")
        /\ LET cat == RxSetState(e, "cancelled") IN RxSaved(cat) \/ RxSaveFails(cat)
        /\ UNCHANGED <<rxCtx, rxRes, rxFire, rxLate, rxSent, rxUsed>>
    BY <1>2 DEF RxRefused, RxRest
  <2>2. rxCat.exec[e].state \in RxLiveStates /\ ~rxSent[e]
    BY <1>1, <2>1 DEF CatInv, ExecInv, CallInv, RxLiveStates
  <2>3. "cancelled" \in RxStates \ {"none"}  BY DEF RxStates
  <2> QED  BY <2>1, <2>2, <2>3, RxEnds
<1>3. CASE RxNoCredential(e)
  <2>1. /\ rxAt[e] = "confirm" /\ RxStep(e, "done")
        /\ LET cat == RxSetState(e, "failed") IN RxSaved(cat) \/ RxSaveFails(cat)
        /\ UNCHANGED <<rxCtx, rxRes, rxFire, rxLate, rxSent, rxUsed>>
    BY <1>3 DEF RxNoCredential, RxRest
  <2>2. rxCat.exec[e].state \in RxLiveStates /\ ~rxSent[e]
    BY <1>1, <2>1 DEF CatInv, ExecInv, CallInv, RxLiveStates
  <2>3. "failed" \in RxStates \ {"none"}  BY DEF RxStates
  <2> QED  BY <2>1, <2>2, <2>3, RxEnds
<1>4. CASE RxFinish(e)
  <2>1. /\ rxAt[e] = "ran" /\ RxStep(e, "done")
        /\ LET cat == RxSetState(e, rxRes[e]) IN RxSaved(cat) \/ RxSaveFails(cat)
        /\ UNCHANGED <<rxCtx, rxRes, rxFire, rxLate, rxSent, rxUsed>>
    BY <1>4 DEF RxFinish, RxRest
  <2>2. rxCat.exec[e].state \in RxLiveStates /\ (rxSent[e] => rxRes[e] \in Told)
    BY <1>1, <2>1 DEF CatInv, ExecInv, CallInv, RxLiveStates
  <2>3. rxRes[e] \in RxStates \ {"none"}
    BY <1>1, <2>1 DEF CallInv, RxIInv, RxTyped, RxStates
  <2> QED  BY <2>1, <2>2, <2>3, RxEnds
<1> QED  BY <1>2, <1>3, <1>4

(* A dispatch takes a use that the grant still has. *)
LEMMA RxDispatchInv == ASSUME RxIInv, NEW e \in RxExecs, RxDispatch(e) PROVE RxIInv'
<1> DEFINE mid == [rxCat EXCEPT !.exec[e].state = "dispatch_started"]
           cat == [mid EXCEPT !.uses = RxUses(e)]
<1>1. /\ rxCat \in CatRec /\ rxDisk \in CatRec
      /\ CatInv(rxCat, rxAt, rxFire, rxSent, rxUsed)
      /\ CatInv(rxDisk, rxAt, rxFire, rxSent, rxUsed)
      /\ rxUsed \in [0 .. RxMaxPolicy -> Nat] /\ UsesInv
  BY DEF RxIInv, RxTyped
<1>2. /\ rxAt[e] = "confirm" /\ StillApproved(e)
      /\ \/ RxSaved(cat) /\ RxStep(e, "run")
         \/ RxSaveFails(cat) /\ RxStep(e, "done")
      /\ rxUsed' = IF RxFiring(e) /\ rxDisk' = cat
                    THEN [rxUsed EXCEPT ![rxCat.grant] = @ + 1] ELSE rxUsed
      /\ UNCHANGED <<rxCtx, rxRes, rxFire, rxLate, rxSent>>
  BY DEF RxDispatch, RxSetState
<1>3. /\ mid \in CatRec
      /\ mid.exec[e].state = "dispatch_started" /\ mid.exec[e].req = rxCat.exec[e].req
      /\ mid.exec[e].hash = rxCat.exec[e].hash
      /\ \A x \in RxExecs \ {e} : mid.exec[x] = rxCat.exec[x]
      /\ mid.preview = rxCat.preview /\ mid.claim = rxCat.claim
      /\ mid.policy = rxCat.policy /\ mid.uses = rxCat.uses /\ mid.grant = rxCat.grant
  <2>1. "dispatch_started" \in RxStates  BY DEF RxStates
  <2> QED  BY <1>1, <2>1, SetState
<1> HIDE DEF mid
<1>4. rxCat.uses \in Nat /\ RxUses(e) \in Nat /\ RxUses(e) >= rxCat.uses
  BY <1>1 DEF CatRec, RxUses
<1>5. /\ cat \in CatRec /\ cat.exec = mid.exec /\ cat.preview = mid.preview
      /\ cat.claim = mid.claim /\ cat.policy = mid.policy /\ cat.grant = mid.grant
      /\ cat.uses = RxUses(e)
  BY <1>3, <1>4 DEF CatRec
<1> HIDE DEF cat
<1>6. rxCat' = cat /\ rxDisk' \in {rxDisk, cat} /\ rxBroken' \in BOOLEAN /\ rxFaults' \in Nat
  BY <1>2, Saves DEF RxIInv, RxTyped
<1>7. /\ rxCat.exec[e].state = "awaiting_approval" /\ ~rxSent[e]
      /\ RxFiring(e) => rxCat.uses < RxMaxUses
  BY <1>1, <1>2 DEF CatInv, ExecInv, RxIInv, CallInv, StillApproved, RxPlans, RxFiring
<1>8. /\ rxAt'[e] \in {"run", "done"} /\ \A x \in RxExecs \ {e} : rxAt'[x] = rxAt[x]
      /\ rxAt' \in [RxExecs -> {"none", "confirm", "run", "ran", "done"}]
      /\ rxDisk' # cat => rxAt'[e] = "done" /\ rxDisk' = rxDisk /\ rxUsed' = rxUsed
  BY <1>2, <1>6 DEF RxStep, RxIInv, RxTyped, RxSaved
<1>9. /\ rxCat.grant \in 0 .. RxMaxPolicy /\ rxCat.grant <= rxCat.policy
      /\ rxUsed[rxCat.grant] \in Nat /\ rxUsed[rxCat.grant] <= rxCat.uses
      /\ rxUsed' \in [0 .. RxMaxPolicy -> Nat]
      /\ rxUsed'[rxCat.grant] <= RxUses(e)
      /\ rxUsed'[rxCat.grant] <= RxMaxUses
      /\ \A p \in 0 .. RxMaxPolicy : p # rxCat.grant => rxUsed'[p] = rxUsed[p]
  <2>1. /\ rxCat.grant \in 0 .. RxMaxPolicy /\ rxCat.grant <= rxCat.policy
        /\ rxUsed[rxCat.grant] \in Nat /\ rxUsed[rxCat.grant] <= rxCat.uses
    BY <1>1 DEF CatInv, CatRec
  <2>2. CASE RxFiring(e) /\ rxDisk' = cat
    <3>1. rxUsed' = [rxUsed EXCEPT ![rxCat.grant] = @ + 1]  BY <1>2, <2>2
    <3>2. RxUses(e) = rxCat.uses + 1 /\ rxCat.uses < RxMaxUses
      BY <1>7, <2>2 DEF RxUses
    <3> QED  BY SMTT(30), <1>1, <1>4, <2>1, <3>1, <3>2, RxAssumption
  <2>3. CASE ~(RxFiring(e) /\ rxDisk' = cat)
    <3>1. rxUsed' = rxUsed  BY <1>2, <2>3
    <3> QED  BY <1>1, <1>4, <2>1, <3>1, RxAssumption DEF UsesInv
  <2> QED  BY <2>2, <2>3
<1>10. RxTyped'  BY <1>2, <1>5, <1>6, <1>8, <1>9, <1>1 DEF RxTyped, RxIInv
<1>11. UsesInv'
  <2>1. /\ rxDisk.policy \in Nat /\ rxCat.policy \in Nat /\ rxDisk.policy <= rxCat.policy
        /\ rxCat'.policy = rxCat.policy
    BY <1>1, <1>3, <1>5, <1>6, RxAssumption DEF UsesInv, CatRec
  <2>2. CASE rxDisk' = cat
    <3>1. rxDisk'.policy = rxCat.policy  BY <1>3, <1>5, <2>2
    <3>2. ASSUME NEW p \in 0 .. RxMaxPolicy
          PROVE  rxUsed'[p] <= RxMaxUses /\ (p > rxCat.policy => rxUsed'[p] = 0)
      <4>1. CASE p = rxCat.grant  BY <1>9, <2>1, <4>1, RxAssumption
      <4>2. CASE p # rxCat.grant  BY <1>1, <1>9, <2>1, <4>2, RxAssumption DEF UsesInv
      <4> QED  BY <4>1, <4>2
    <3> QED  BY <2>1, <3>1, <3>2 DEF UsesInv
  <2>3. CASE rxDisk' # cat  BY <1>1, <1>8, <2>1, <2>3 DEF UsesInv
  <2> QED  BY <2>2, <2>3
<1>12. CatInv(cat, rxAt', rxFire, rxSent, rxUsed')
  <2>1. /\ cat.exec[e].req = rxCat.exec[e].req
        /\ cat.exec[e].state = "dispatch_started"
        /\ \A x \in RxExecs \ {e} : cat.exec[x] = rxCat.exec[x] /\ rxAt'[x] = rxAt[x]
        /\ cat.preview = rxCat.preview /\ cat.claim = rxCat.claim
        /\ cat.policy = rxCat.policy /\ cat.grant = rxCat.grant
        /\ rxUsed'[cat.grant] <= cat.uses
        /\ rxCat.exec[e].state \in RxLiveStates
        /\ cat.exec[e].state # "none"
        /\ rxAt'[e] = "done" \/ (rxAt'[e] = "run" /\ cat.exec[e].state = "dispatch_started")
        /\ rxSent[e] => cat.exec[e].state \in Told
    BY <1>3, <1>5, <1>7, <1>8, <1>9 DEF RxLiveStates, Told
  <2> QED  BY <1>1, <1>5, <2>1, Settled
<1>13. CatInv(rxDisk, rxAt, rxFire, rxSent, rxUsed)'
  <2>1. CASE rxDisk' = cat  BY <1>2, <1>12, <2>1
  <2>2. CASE rxDisk' # cat
    <3>1. CatInv(rxDisk, rxAt', rxFire', rxSent, rxUsed)  BY <1>2, <1>8, <2>2, OldDisk
    <3> QED  BY <1>2, <1>8, <2>2, <3>1
  <2> QED  BY <2>1, <2>2
<1>14. CatInv(rxCat, rxAt, rxFire, rxSent, rxUsed)'  BY <1>2, <1>6, <1>12
<1>15. \A x \in RxExecs : CallInv(x)'
  BY <1>2, <1>3, <1>5, <1>6, <1>7, <1>8 DEF CallInv, RxIInv
<1> QED  BY <1>10, <1>11, <1>13, <1>14, <1>15 DEF RxIInv

(* A change that the owner makes: the catalog cat is the one in memory,    *)
(* with another grant or other settings, at the next revision.             *)
LEMMA RxOwnerChange ==
    ASSUME RxIInv, NEW cat \in CatRec, RxSaved(cat) \/ RxSaveFails(cat),
           cat.policy = rxCat.policy + 1, cat.exec = rxCat.exec,
           cat.preview = rxCat.preview, cat.claim = rxCat.claim,
           \/ cat.grant = rxCat.grant /\ cat.uses = rxCat.uses
           \/ cat.grant = rxCat.policy + 1,
           rxCtx' \subseteq RxExecs,
           UNCHANGED <<rxAt, rxRes, rxFire, rxLate, rxSent, rxUsed>>
    PROVE  RxIInv'
<1>1. /\ rxCat \in CatRec /\ rxDisk \in CatRec
      /\ CatInv(rxCat, rxAt, rxFire, rxSent, rxUsed) /\ UsesInv
  BY DEF RxIInv, RxTyped
<1>2. /\ rxCat.policy \in Nat /\ cat.grant \in 0 .. RxMaxPolicy /\ cat.uses \in Nat
      /\ cat.policy \in 0 .. RxMaxPolicy /\ rxDisk.policy \in Nat
      /\ rxCat.grant \in Nat /\ rxCat.grant <= rxCat.policy
  BY <1>1, RxAssumption DEF CatRec, CatInv
<1>3. rxUsed[cat.grant] <= cat.uses /\ cat.grant <= cat.policy
  BY <1>1, <1>2, RxAssumption DEF CatInv, UsesInv
<1>4. CatInv(cat, rxAt, rxFire, rxSent, rxUsed)
  <2>1. \A e \in RxExecs : rxCat.exec[e].state # "none" =>
              /\ RxKind[rxCat.exec[e].req] = "approved" =>
                    cat.preview[rxCat.exec[e].req] = rxCat.preview[rxCat.exec[e].req]
              /\ RxKind[rxCat.exec[e].req] = "firing" =>
                    cat.claim[rxCat.exec[e].req] /\ rxCat.exec[e].req \notin rxFire
    BY <1>1 DEF CatInv, ExecInv
  <2>2. \A q \in rxFire : cat.claim[q] /\ RxKind[q] = "firing"
    BY <1>1 DEF CatInv
  <2> QED  BY <1>1, <1>3, <2>1, <2>2, RxEdited
<1>5. CatInv(cat, rxAt', rxFire', rxSent, rxUsed)  BY <1>4
<1>6. CatInv(rxDisk, rxAt', rxFire', rxSent, rxUsed)  BY OldDisk
<1>7. rxCat' = cat  BY DEF RxSaved, RxSaveFails
<1>8. \A e \in RxExecs : CallInv(e)'  BY <1>7 DEF CallInv, RxIInv
<1>9. /\ rxAt' \in [RxExecs -> {"none", "confirm", "run", "ran", "done"}]
      /\ rxFire' \subseteq RxReqs /\ cat.policy >= rxCat.policy
  BY <1>2 DEF RxIInv, RxTyped
<1> QED  BY <1>5, <1>6, <1>8, <1>9, RxChange

(* The settings and the grant. *)
LEMMA RxOwnerInv ==
    ASSUME RxIInv,
           RxPut \/ RxPutGrant \/ RxPutRunbook \/ \E on \in BOOLEAN : RxSetEnabled(on)
    PROVE  RxIInv'
<1>1. rxCat \in CatRec /\ rxCtx \subseteq RxExecs  BY DEF RxIInv, RxTyped
<1>2. rxCat.policy \in 0 .. RxMaxPolicy  BY <1>1 DEF CatRec
<1>3. ASSUME NEW on \in BOOLEAN, NEW new,
             new = [rxCat EXCEPT !.enabled = on, !.policy = @ + 1],
             rxCat.policy < RxMaxPolicy
      PROVE  /\ new \in CatRec /\ new.policy = rxCat.policy + 1 /\ new.exec = rxCat.exec
             /\ new.preview = rxCat.preview /\ new.claim = rxCat.claim
             /\ new.grant = rxCat.grant /\ new.uses = rxCat.uses
  <2> DEFINE n == rxCat.policy + 1
             one == [rxCat EXCEPT !.enabled = on]
  <2>1. n \in 0 .. RxMaxPolicy  BY <1>2, <1>3, RxAssumption
  <2>2. /\ one \in CatRec /\ one.policy = rxCat.policy /\ one.exec = rxCat.exec
        /\ one.preview = rxCat.preview /\ one.claim = rxCat.claim
        /\ one.grant = rxCat.grant /\ one.uses = rxCat.uses
    BY <1>1 DEF CatRec
  <2>3. new = [one EXCEPT !.policy = n]  BY <1>3
  <2> HIDE DEF n, one
  <2>4. /\ new \in CatRec /\ new.policy = n /\ new.exec = one.exec
        /\ new.preview = one.preview /\ new.claim = one.claim
        /\ new.grant = one.grant /\ new.uses = one.uses
    BY <2>1, <2>2, <2>3 DEF CatRec
  <2> QED  BY <2>2, <2>4 DEF n
<1>4. ASSUME NEW on \in BOOLEAN, RxSetEnabled(on) PROVE RxIInv'
  <2> DEFINE new == [rxCat EXCEPT !.enabled = on, !.policy = @ + 1]
  <2>1. /\ RxSaved(new) \/ RxSaveFails(new)
        /\ rxCtx' \subseteq RxExecs
        /\ UNCHANGED <<rxAt, rxRes, rxFire, rxLate, rxSent, rxUsed>>
    BY <1>1, <1>4 DEF RxSetEnabled, RxRest, RxActive
  <2>2. rxCat.policy < RxMaxPolicy  BY <1>4 DEF RxSetEnabled
  <2>3. /\ new \in CatRec /\ new.policy = rxCat.policy + 1 /\ new.exec = rxCat.exec
        /\ new.preview = rxCat.preview /\ new.claim = rxCat.claim
        /\ new.grant = rxCat.grant /\ new.uses = rxCat.uses
    BY <1>3, <2>2
  <2> HIDE DEF new
  <2> QED  BY <2>1, <2>3, RxOwnerChange
<1>5. ASSUME NEW cat \in CatRec, RxChanged(cat), cat.policy = rxCat.policy,
             cat.exec = rxCat.exec, cat.preview = rxCat.preview,
             cat.claim = rxCat.claim,
             \/ cat.grant = rxCat.grant /\ cat.uses = rxCat.uses
             \/ cat.grant = rxCat.policy + 1
      PROVE  RxIInv'
  <2> DEFINE new == [cat EXCEPT !.policy = @ + 1]
  <2>1. /\ RxSaved(new) \/ RxSaveFails(new)
        /\ rxCat.policy < RxMaxPolicy
        /\ rxCtx' \subseteq RxExecs
        /\ UNCHANGED <<rxAt, rxRes, rxFire, rxLate, rxSent, rxUsed>>
    BY <1>1, <1>5 DEF RxChanged, RxRest, RxActive
  <2>2. /\ new \in CatRec /\ new.policy = rxCat.policy + 1 /\ new.exec = rxCat.exec
        /\ new.preview = rxCat.preview /\ new.claim = rxCat.claim
        /\ new.grant = cat.grant /\ new.uses = cat.uses
    BY <1>2, <1>5, <2>1, RxAssumption DEF CatRec
  <2> HIDE DEF new
  <2> QED  BY <1>5, <2>1, <2>2, RxOwnerChange
<1>6. CASE RxPut  BY <1>1, <1>5, <1>6 DEF RxPut
<1>7. CASE RxPutGrant
  <2> DEFINE n == rxCat.policy + 1
             one == [rxCat EXCEPT !.granted = TRUE]
             two == [one EXCEPT !.uses = 0]
             cat == [two EXCEPT !.grant = n]
  <2>1. /\ one \in CatRec /\ one.policy = rxCat.policy /\ one.exec = rxCat.exec
        /\ one.preview = rxCat.preview /\ one.claim = rxCat.claim
    BY <1>1 DEF CatRec
  <2>2. RxChanged(cat)  BY <1>7 DEF RxPutGrant
  <2>3. n \in 0 .. RxMaxPolicy  BY <1>2, <2>2, RxAssumption DEF RxChanged
  <2> HIDE DEF one
  <2>4. /\ two \in CatRec /\ two.policy = one.policy /\ two.exec = one.exec
        /\ two.preview = one.preview /\ two.claim = one.claim
    BY <2>1 DEF CatRec
  <2> HIDE DEF two, n
  <2>5. /\ cat \in CatRec /\ cat.policy = two.policy /\ cat.exec = two.exec
        /\ cat.preview = two.preview /\ cat.claim = two.claim /\ cat.grant = n
    BY <2>3, <2>4 DEF CatRec
  <2> HIDE DEF cat
  <2>6. cat.grant = rxCat.policy + 1  BY <2>5 DEF n
  <2> QED  BY <1>5, <2>1, <2>2, <2>4, <2>5, <2>6
<1>8. CASE RxPutRunbook
  <2> DEFINE cat == [rxCat EXCEPT !.granted = FALSE]
  <2>1. /\ cat \in CatRec /\ cat.policy = rxCat.policy /\ cat.exec = rxCat.exec
        /\ cat.preview = rxCat.preview /\ cat.claim = rxCat.claim
        /\ cat.grant = rxCat.grant /\ cat.uses = rxCat.uses
    BY <1>1 DEF CatRec
  <2>2. RxChanged(cat)  BY <1>8 DEF RxPutRunbook
  <2> HIDE DEF cat
  <2> QED  BY <1>5, <2>1, <2>2
<1> QED  BY <1>4, <1>6, <1>7, <1>8

(* The start of an execution uses up the approval or the claim, and one of *)
(* the owner's slots.                                                      *)
LEMMA RxBeginInv ==
    ASSUME RxIInv, NEW r \in RxReqs, NEW e \in RxExecs, RxBegin(r, e) PROVE RxIInv'
<1> DEFINE x == [req |-> r, state |-> "awaiting_approval", hash |-> PlanHash(r)]
           xs == [rxCat.exec EXCEPT ![e] = x]
           n == IF RxKind[r] = "approved" THEN e ELSE rxCat.preview[r].exec
           p == [rxCat.preview[r] EXCEPT !.exec = n]
           ps == [rxCat.preview EXCEPT ![r] = p]
           mid == [rxCat EXCEPT !.exec = xs]
           cat == [mid EXCEPT !.preview = ps]
<1>1. /\ rxCat \in CatRec /\ rxDisk \in CatRec
      /\ CatInv(rxCat, rxAt, rxFire, rxSent, rxUsed) /\ UsesInv
      /\ rxAt \in [RxExecs -> {"none", "confirm", "run", "ran", "done"}]
      /\ rxFire \subseteq RxReqs /\ \A d \in RxExecs : CallInv(d)
  BY DEF RxIInv, RxTyped
<1>2. /\ RxKind[r] = "approved" => Approves(r)
      /\ RxKind[r] = "firing" => r \in rxFire
      /\ rxCat.exec[e].state = "none" /\ rxAt[e] = "none" /\ RxRoom
      /\ rxFire' = rxFire \ {r}
      /\ UNCHANGED <<rxCtx, rxRes, rxLate, rxSent, rxUsed>>
  BY DEF RxBegin, RxRest
<1>3. rxCat.preview \in [RxReqs -> PreviewRec] /\ rxCat.exec \in [RxExecs -> ExecRec]
  BY <1>1 DEF CatRec
<1>4. cat = [rxCat EXCEPT !.exec[e] = [req |-> r, state |-> "awaiting_approval",
                                       hash |-> PlanHash(r)],
                          !.preview[r].exec = IF RxKind[r] = "approved" THEN e ELSE @]
  BY <1>1 DEF CatRec
<1>5. \/ RxSaved(cat) /\ rxAt' = [rxAt EXCEPT ![e] = "confirm"]
      \/ RxSaveFails(cat) /\ rxAt' = [rxAt EXCEPT ![e] = "done"]
  BY <1>4 DEF RxBegin
<1>6. x \in ExecRec /\ x.req = r /\ x.state = "awaiting_approval" /\ x.hash = PlanHash(r)
  BY <1>1, RxAssumption DEF ExecRec, Hash, PlanHash, CatRec, RxStates
<1> HIDE DEF x
<1>7. xs \in [RxExecs -> ExecRec] /\ xs[e] = x /\ \A d \in RxExecs \ {e} : xs[d] = rxCat.exec[d]
  BY <1>3, <1>6
<1> HIDE DEF xs
<1>8. n \in Nat /\ (RxKind[r] = "approved" => n = e)  BY <1>3, RxAssumption DEF PreviewRec
<1> HIDE DEF n
<1>9. /\ p \in PreviewRec /\ p.exec = n /\ p.made = rxCat.preview[r].made
      /\ p.hash = rxCat.preview[r].hash
  BY <1>3, <1>8 DEF PreviewRec
<1> HIDE DEF p
<1>10. ps \in [RxReqs -> PreviewRec] /\ ps[r] = p
       /\ \A q \in RxReqs \ {r} : ps[q] = rxCat.preview[q]
  BY <1>3, <1>9
<1> HIDE DEF ps
<1>11. /\ mid \in CatRec /\ mid.exec = xs
       /\ mid.claim = rxCat.claim /\ mid.policy = rxCat.policy
       /\ mid.uses = rxCat.uses /\ mid.grant = rxCat.grant
  BY <1>1, <1>7 DEF CatRec
<1> HIDE DEF mid
<1>12. /\ cat \in CatRec /\ cat.exec = xs /\ cat.preview = ps
       /\ cat.claim = rxCat.claim /\ cat.policy = rxCat.policy
       /\ cat.uses = rxCat.uses /\ cat.grant = rxCat.grant
  BY <1>10, <1>11 DEF CatRec
<1> HIDE DEF cat
<1>13. ASSUME NEW d \in RxExecs \ {e}, rxCat.exec[d].state # "none",
              RxKind[rxCat.exec[d].req] # "asked"
       PROVE  rxCat.exec[d].req \in RxReqs \ {r}
  <2>1. ExecInv(rxCat, d, rxAt, rxFire, rxSent)  BY <1>1 DEF CatInv
  <2>2. /\ rxCat.exec[d].req \in RxReqs
        /\ RxKind[rxCat.exec[d].req] \in {"approved", "firing"}
    BY <1>13, <2>1, RxAssumption DEF ExecInv
  <2>3. CASE RxKind[rxCat.exec[d].req] = "approved"
    <3>1. rxCat.preview[rxCat.exec[d].req].exec = d  BY <1>13, <2>1, <2>3 DEF ExecInv
    <3>2. d # 0  BY RxAssumption
    <3> QED  BY <1>2, <2>2, <2>3, <3>1, <3>2 DEF Approves
  <2>4. CASE RxKind[rxCat.exec[d].req] = "firing"
    BY <1>2, <1>13, <2>1, <2>2, <2>4 DEF ExecInv
  <2> QED  BY <2>2, <2>3, <2>4
<1>14. ~rxSent[e] /\ (RxKind[r] = "approved" => rxCat.preview[r].made)
       /\ (RxKind[r] = "firing" => rxCat.claim[r])
  BY <1>1, <1>2 DEF CallInv, Approves, CatInv
<1>15. /\ rxAt'[e] \in {"confirm", "done"} /\ \A d \in RxExecs \ {e} : rxAt'[d] = rxAt[d]
       /\ rxAt' \in [RxExecs -> {"none", "confirm", "run", "ran", "done"}]
  BY <1>1, <1>5
<1>16. \A d \in RxExecs : ExecInv(cat, d, rxAt', rxFire', rxSent)
  <2>1. ExecInv(cat, e, rxAt', rxFire', rxSent)
    BY <1>2, <1>6, <1>7, <1>8, <1>9, <1>10, <1>12, <1>14, <1>15 DEF ExecInv
  <2>2. ASSUME NEW d \in RxExecs \ {e} PROVE ExecInv(cat, d, rxAt', rxFire', rxSent)
    <3>1. ExecInv(rxCat, d, rxAt, rxFire, rxSent) /\ cat.exec[d] = rxCat.exec[d]
          /\ rxAt'[d] = rxAt[d]
      BY <1>1, <1>7, <1>12, <1>15 DEF CatInv
    <3>2. ASSUME rxCat.exec[d].state # "none", RxKind[rxCat.exec[d].req] # "asked"
          PROVE  cat.preview[rxCat.exec[d].req] = rxCat.preview[rxCat.exec[d].req]
      BY <1>10, <1>12, <1>13, <3>2
    <3> QED  BY <1>2, <1>12, <3>1, <3>2 DEF ExecInv
  <2> QED  BY <2>1, <2>2
<1>17. /\ IsFiniteSet(RxLiveExecs(cat))
       /\ Cardinality(RxLiveExecs(cat)) <= RxSlots
  <2>1. RxLiveExecs(cat) = RxLiveExecs(rxCat) \union {e} /\ e \notin RxLiveExecs(rxCat)
    BY <1>2, <1>6, <1>7, <1>12 DEF RxLiveExecs, RxLiveStates
  <2>2. IsFiniteSet(RxLiveExecs(rxCat))  BY <1>1 DEF CatInv
  <2>3. Cardinality(RxLiveExecs(cat)) = Cardinality(RxLiveExecs(rxCat)) + 1
        /\ IsFiniteSet(RxLiveExecs(cat))
    BY <2>1, <2>2, FS_AddElement
  <2>4. Cardinality(RxLiveExecs(rxCat)) \in Nat  BY <2>2, FS_CardinalityType
  <2> QED  BY <1>2, <2>3, <2>4, RxAssumption DEF RxRoom
<1>18. \A d, f \in RxExecs :
          /\ cat.exec[d].state # "none" /\ cat.exec[f].state # "none"
          /\ cat.exec[d].req = cat.exec[f].req /\ RxKind[cat.exec[d].req] = "firing"
          => d = f
  BY <1>1, <1>6, <1>7, <1>12, <1>13 DEF CatInv
<1>19. CatInv(cat, rxAt', rxFire', rxSent, rxUsed)
  <2>1. \A q \in rxFire' : cat.claim[q] /\ RxKind[q] = "firing"
    BY <1>1, <1>2, <1>12 DEF CatInv
  <2>2. rxUsed[cat.grant] <= cat.uses /\ cat.grant <= cat.policy
    BY <1>1, <1>12 DEF CatInv
  <2> QED  BY <1>16, <1>17, <1>18, <2>1, <2>2 DEF CatInv
<1>20. ASSUME rxDisk' # cat PROVE CatInv(rxDisk, rxAt', rxFire', rxSent, rxUsed)
  <2>1. rxAt'[e] = "done"  BY <1>1, <1>5, <1>20 DEF RxSaved
  <2> QED  BY <1>2, <1>15, <2>1, OldDisk
<1>21. rxCat' = cat  BY <1>5 DEF RxSaved, RxSaveFails
<1>22. \A d \in RxExecs : CallInv(d)'
  <2>1. CallInv(e)'
    BY <1>2, <1>6, <1>7, <1>9, <1>10, <1>12, <1>14, <1>15, <1>21,
       <1>1 DEF CallInv, Approves
  <2>2. ASSUME NEW d \in RxExecs \ {e} PROVE CallInv(d)'
    <3>1. CallInv(d) /\ rxAt'[d] = rxAt[d] /\ rxCat'.exec[d] = rxCat.exec[d]
      BY <1>1, <1>7, <1>12, <1>15, <1>21
    <3>2. rxAt[d] = "confirm" => rxCat.exec[d].state # "none"
      BY <1>1 DEF CatInv, ExecInv
    <3>3. rxAt[d] = "confirm" /\ RxKind[rxCat.exec[d].req] = "approved" =>
            rxCat'.preview[rxCat.exec[d].req] = rxCat.preview[rxCat.exec[d].req]
      BY <1>10, <1>12, <1>13, <1>21, <3>2
    <3> QED  BY <1>2, <3>1, <3>3 DEF CallInv
  <2> QED  BY <2>1, <2>2
<1>23. /\ rxCtx' \subseteq RxExecs /\ rxFire' \subseteq RxReqs
       /\ cat.policy >= rxCat.policy
       /\ RxSaved(cat) \/ RxSaveFails(cat)
       /\ UNCHANGED <<rxRes, rxLate, rxSent, rxUsed>>
  BY <1>1, <1>2, <1>5, <1>12, RxAssumption DEF RxIInv, RxTyped, CatRec
<1> QED  BY <1>12, <1>15, <1>19, <1>20, <1>22, <1>23, RxChange

(* A restart reads the file and settles what was under way there.          *)
LEMMA RxRestartInv == ASSUME RxIInv, RxRestart PROVE RxIInv'
<1> DEFINE xs == [e \in RxExecs |->
                    [rxDisk.exec[e] EXCEPT !.state =
                        CASE @ = "dispatch_started" -> "unknown_outcome"
                          [] @ = "awaiting_approval" -> "cancelled"
                          [] OTHER -> @]]
           cat == [rxDisk EXCEPT !.exec = xs]
<1>1. /\ rxDisk \in CatRec /\ rxCat \in CatRec /\ UsesInv /\ RxTyped
      /\ CatInv(rxDisk, rxAt, rxFire, rxSent, rxUsed)
      /\ \A e \in RxExecs : CallInv(e)
  BY DEF RxIInv, RxTyped
<1>2. /\ rxCat' = cat /\ rxDisk' = cat /\ rxBroken' = FALSE /\ rxFaults' \in Nat
      /\ rxAt' = [e \in RxExecs |-> IF rxAt[e] = "none" THEN "none" ELSE "done"]
      /\ rxCtx' = {} /\ rxFire' = {} /\ UNCHANGED <<rxRes, rxLate, rxSent, rxUsed>>
  BY <1>1 DEF RxRestart, RxReopened, RxTyped
<1>3. rxDisk.exec \in [RxExecs -> ExecRec]  BY <1>1 DEF CatRec
<1>4. \A e \in RxExecs :
        /\ xs[e] \in ExecRec /\ xs[e].req = rxDisk.exec[e].req
        /\ xs[e].state \notin RxLiveStates
        /\ xs[e].state = "none" <=> rxDisk.exec[e].state = "none"
        /\ rxDisk.exec[e].state \in Told => xs[e].state \in Told
  BY <1>3 DEF ExecRec, RxStates, RxLiveStates, Told
<1>5. xs \in [RxExecs -> ExecRec]  BY <1>4
<1> HIDE DEF xs
<1>6. /\ cat \in CatRec /\ cat.exec = xs /\ cat.preview = rxDisk.preview
      /\ cat.claim = rxDisk.claim /\ cat.policy = rxDisk.policy
      /\ cat.uses = rxDisk.uses /\ cat.grant = rxDisk.grant
  BY <1>1, <1>5 DEF CatRec
<1> HIDE DEF cat
<1>7. RxTyped'  BY <1>1, <1>2, <1>6 DEF RxTyped
<1>8. \A e \in RxExecs : ExecInv(cat, e, rxAt', rxFire', rxSent)
  BY <1>1, <1>2, <1>4, <1>6 DEF CatInv, ExecInv
<1>9. RxLiveExecs(cat) = {}  BY <1>4, <1>6 DEF RxLiveExecs
<1>10. IsFiniteSet(RxLiveExecs(cat)) /\ Cardinality(RxLiveExecs(cat)) <= RxSlots
  BY <1>9, FS_EmptySet, RxAssumption
<1>11. CatInv(cat, rxAt', rxFire', rxSent, rxUsed)
  BY <1>1, <1>2, <1>4, <1>6, <1>8, <1>10 DEF CatInv
<1>12. CatInv(rxCat, rxAt, rxFire, rxSent, rxUsed)'
       /\ CatInv(rxDisk, rxAt, rxFire, rxSent, rxUsed)'
  BY <1>2, <1>11
<1>13. \A e \in RxExecs : CallInv(e)'  BY <1>1, <1>2 DEF CallInv, RxTyped
<1>14. UsesInv'
  <2>1. rxCat'.policy = rxDisk.policy /\ rxDisk'.policy = rxDisk.policy /\ rxDisk.policy \in Nat
    BY <1>1, <1>2, <1>6 DEF CatRec
  <2> QED  BY <1>1, <1>2, <2>1 DEF UsesInv
<1> QED  BY <1>7, <1>12, <1>13, <1>14 DEF RxIInv

(* Every step of the service keeps the invariant. *)
LEMMA RxStepInv == RxIInv /\ [RxNext]_rxVars => RxIInv'
<1> SUFFICES ASSUME RxIInv, [RxNext]_rxVars PROVE RxIInv'  OBVIOUS
<1>1. CASE UNCHANGED rxVars
  <2>1. /\ rxCat' = rxCat /\ rxDisk' = rxDisk /\ rxBroken' = rxBroken /\ rxAt' = rxAt
        /\ rxCtx' = rxCtx /\ rxRes' = rxRes /\ rxFire' = rxFire /\ rxLate' = rxLate
        /\ rxFaults' = rxFaults /\ rxSent' = rxSent /\ rxUsed' = rxUsed
    BY <1>1 DEF rxVars
  <2>2. RxTyped' /\ UsesInv' /\ \A e \in RxExecs : CallInv(e)'
    BY <2>1 DEF RxIInv, RxTyped, UsesInv, CallInv
  <2>3. /\ CatInv(rxCat, rxAt, rxFire, rxSent, rxUsed)'
        /\ CatInv(rxDisk, rxAt, rxFire, rxSent, rxUsed)'
    BY <2>1 DEF RxIInv
  <2> QED  BY <2>2, <2>3 DEF RxIInv
<1>2. ASSUME NEW r \in RxReqs,
             RxPreview(r) \/ RxPreviewExpires(r) \/ RxClaim(r) \/ RxDenied(r)
      PROVE  RxIInv'
  BY <1>2, RxPreviewInv, RxClaimInv, RxCallStepInv
<1>3. ASSUME NEW r \in RxReqs, NEW e \in RxExecs, RxBegin(r, e) PROVE RxIInv'
  BY <1>3, RxBeginInv
<1>4. ASSUME NEW e \in RxExecs,
             \/ RxRefused(e) \/ RxNoCredential(e) \/ RxDispatch(e)
             \/ RxRun(e) \/ RxFinish(e) \/ RxCancel(e)
      PROVE  RxIInv'
  BY <1>4, RxEndsInv, RxDispatchInv, RxCallStepInv
<1>5. CASE RxPut \/ RxPutGrant \/ RxPutRunbook \/ \E on \in BOOLEAN : RxSetEnabled(on)
  BY <1>5, RxOwnerInv
<1>6. CASE RxRestart  BY <1>6, RxRestartInv
<1> QED  BY <1>1, <1>2, <1>3, <1>4, <1>5, <1>6 DEF RxNext

(* In memory and in the file, every execution belongs to the approval or   *)
(* claim that it used up there, over failed saves and restarts.            *)
THEOREM RxInductive == RxSpec => []RxIInv
BY RxInitInv, RxStepInv, PTL DEF RxSpec

(* What the invariant says to the owner. *)
LEMMA RxIInvSafe == RxIInv => RxSafe
<1> SUFFICES ASSUME RxIInv PROVE RxSafe  OBVIOUS
<1>1. \A e \in RxExecs : ExecInv(rxDisk, e, rxAt, rxFire, rxSent)
  BY DEF RxIInv, CatInv
<1>2. RxTruthful  BY <1>1 DEF ExecInv, RxTruthful, Told
<1>3. RxUsesBounded  BY DEF RxIInv, UsesInv, RxUsesBounded
<1>4. RxOnce
  <2> SUFFICES ASSUME NEW r \in RxReqs, RxKind[r] # "asked"
               PROVE  Cardinality({e \in RxExecs : rxSent[e] /\ rxDisk.exec[e].req = r}) <= 1
    BY DEF RxOnce
  <2> DEFINE S == {e \in RxExecs : rxSent[e] /\ rxDisk.exec[e].req = r}
  <2>1. RxKind[r] \in {"approved", "firing"}  BY RxAssumption
  <2>2. \A e \in S : rxDisk.exec[e].state # "none"  BY <1>1 DEF ExecInv, Told
  <2>3. ASSUME NEW d \in S, NEW e \in S PROVE d = e
    <3>1. CASE RxKind[r] = "approved"
      BY <1>1, <2>2, <3>1 DEF ExecInv
    <3>2. CASE RxKind[r] = "firing"
      BY <2>2, <3>2 DEF RxIInv, CatInv
    <3> QED  BY <2>1, <3>1, <3>2
  <2>4. CASE S = {}
    <3>1. Cardinality(S) = 0  BY <2>4, FS_EmptySet
    <3> QED  BY <3>1
  <2>5. CASE S # {}
    <3>1. PICK e \in S : TRUE  BY <2>5
    <3>2. S = {e}  BY <2>3
    <3>3. Cardinality(S) = 1  BY <3>2, FS_Singleton
    <3> QED  BY <3>3
  <2> QED  BY <2>4, <2>5
<1> QED  BY <1>2, <1>3, <1>4 DEF RxSafe

(* One approval and one firing run a command at most once, the file never  *)
(* denies that it ran, and no use of a standing grant is given back.       *)
THEOREM RxSafety == RxSpec => []RxSafe
BY RxInductive, RxIInvSafe, PTL

(* The invariant has the type invariant in it. *)
LEMMA RxTypedOK == RxIInv => RxTypeOK
<1> SUFFICES ASSUME RxIInv PROVE RxTypeOK  OBVIOUS
<1>1. ASSUME NEW cat \in {rxCat, rxDisk}
      PROVE  /\ cat.enabled \in BOOLEAN /\ cat.policy \in 0..RxMaxPolicy
             /\ cat.granted \in BOOLEAN /\ cat.uses \in Nat /\ cat.grant \in 0..cat.policy
             /\ \A e \in RxExecs : cat.exec[e].state \in RxStates
             /\ Cardinality(RxLiveExecs(cat)) <= RxSlots
  <2>1. cat \in CatRec /\ CatInv(cat, rxAt, rxFire, rxSent, rxUsed)
    BY DEF RxIInv, RxTyped
  <2>2. /\ cat.enabled \in BOOLEAN /\ cat.policy \in 0..RxMaxPolicy
        /\ cat.granted \in BOOLEAN /\ cat.uses \in Nat /\ cat.grant \in 0..RxMaxPolicy
        /\ cat.exec \in [RxExecs -> ExecRec]
    BY <2>1 DEF CatRec
  <2>3. cat.grant \in 0 .. cat.policy
    BY <2>1, <2>2, RxAssumption DEF CatInv
  <2>4. \A e \in RxExecs : cat.exec[e].state \in RxStates  BY <2>2 DEF ExecRec
  <2>5. Cardinality(RxLiveExecs(cat)) <= RxSlots  BY <2>1 DEF CatInv
  <2> QED  BY <2>2, <2>3, <2>4, <2>5
<1> QED  BY <1>1 DEF RxIInv, RxTyped, RxTypeOK

(* An approved execution is dispatched only under the plan that its owner  *)
(* saw.                                                                    *)
THEOREM RxSeenPlan == RxSpec => RxUnderSeenPlan
<1> DEFINE Seen ==
      \A r \in RxReqs : \A e \in RxExecs :
          /\ RxKind[r] = "approved" /\ rxAt[e] = "confirm" /\ rxAt'[e] = "run"
          /\ rxCat.exec[e].req = r
          => /\ rxCat.preview[r].hash = <<rxCat.policy, 0>>
             /\ rxCat.enabled /\ ~rxBroken
<1>1. RxIInv /\ [RxNext]_rxVars => [Seen]_rxVars
  <2> SUFFICES ASSUME RxIInv, RxNext, NEW r \in RxReqs, NEW e \in RxExecs,
                      RxKind[r] = "approved", rxAt[e] = "confirm", rxAt'[e] = "run",
                      rxCat.exec[e].req = r
               PROVE  /\ rxCat.preview[r].hash = <<rxCat.policy, 0>>
                      /\ rxCat.enabled /\ ~rxBroken
    OBVIOUS
  <2>1. rxAt \in [RxExecs -> {"none", "confirm", "run", "ran", "done"}] /\ CallInv(e)
    BY DEF RxIInv, RxTyped
  <2>2. RxDispatch(e)
    <3>1. ~(UNCHANGED rxAt)  BY <2>1
    <3>2. ~\E q \in RxReqs : RxPreview(q) \/ RxPreviewExpires(q) \/ RxClaim(q) \/ RxDenied(q)
      BY <3>1 DEF RxPreview, RxPreviewExpires, RxClaim, RxDenied, rxCall
    <3>3. ~\E q \in RxReqs, d \in RxExecs : RxBegin(q, d)
      BY <2>1 DEF RxBegin
    <3>4. ~(RxPut \/ RxPutGrant \/ RxPutRunbook \/ \E on \in BOOLEAN : RxSetEnabled(on))
      BY <3>1 DEF RxPut, RxPutGrant, RxPutRunbook, RxSetEnabled, RxChanged
    <3>5. ~RxRestart  BY <2>1 DEF RxRestart
    <3>6. \A d \in RxExecs :
            ~(RxRefused(d) \/ RxNoCredential(d) \/ RxRun(d) \/ RxFinish(d) \/ RxCancel(d))
      BY <2>1, <3>1 DEF RxRefused, RxNoCredential, RxRun, RxFinish, RxCancel, RxStep
    <3>7. PICK d \in RxExecs : RxDispatch(d)
      BY <3>2, <3>3, <3>4, <3>5, <3>6 DEF RxNext
    <3>8. \A x \in RxExecs \ {d} : rxAt'[x] = rxAt[x]
      BY <2>1, <3>7 DEF RxDispatch, RxStep
    <3> QED  BY <3>7, <3>8
  <2>3. StillApproved(e)  BY <2>2 DEF RxDispatch
  <2> QED  BY <2>1, <2>3 DEF StillApproved, RxPlans, PlanHash, CallInv
<1> QED  BY <1>1, RxInductive, PTL DEF RxSpec, RxUnderSeenPlan

-----------------------------------------------------------------------------
(* A skill's secret.  A start-up knows where its caches stand; a request   *)
(* that runs alone since the start, what the tables hold that the caches   *)
(* or the skill have yet to learn.                                         *)

CrRecords == [id : Nat, val : CrValues \union {"none"}]

CrOpRecords ==
    [kind : CrKinds \union {"none"},
     pc : {"new", "write", "cache", "publish", "tell", "again", "done"},
     seen : Nat, read : CrValues \union {"none"}]

CrTyped ==
    /\ crRow \in CrRecords /\ crCache \in CrRecords /\ crIds \in Nat
    /\ crOver \in CrValues \union {"none"} /\ crOvers \in CrValues \union {"none"}
    /\ crBoot \in {"down", "migrate", "moved", "drop", "replay", "up"}
    /\ crOp \in [CrOps -> CrOpRecords]

CrIdle(o) == crOp[o].pc \in {"new", "done"}

CrAgree == crCache = crRow /\ crOvers = crOver
CrTold  == crShade \/ crSkill = CrEffective

CrKept == crGone \/ crRow.val # "none" \/ crOver # "none"

CrStarting ==
    /\ crBoot # "up" => \A o \in CrOps : CrIdle(o)
    /\ crBoot \in {"migrate", "drop", "replay"} => CrAgree
    /\ crBoot = "moved" => crOvers = crOver
    /\ crBoot \in {"moved", "drop"} => crRow.val # "none"

CrDoing(o) ==
    /\ crOp[o].pc = "write" => CrAgree /\ CrTold /\ crOp[o].seen = crRow.id
    /\ crOp[o].pc = "cache" =>
          /\ crRow = CrCached(o)
          /\ crOp[o].kind = "setOverride" => crOver = o
          /\ crOp[o].kind = "deleteOverride" => crOver = "none"
          /\ ~CrOnOverride(o) => crOver = crOvers
    /\ crOp[o].pc = "publish" => CrAgree
    /\ crOp[o].pc = "tell" => CrAgree /\ crOp[o].read = CrRead(o)
    /\ crOp[o].pc = "again" => CrAgree /\ CrTold /\ crOp[o].kind = "rotate"
    /\ crOp[o].pc \in {"publish", "tell", "again"} /\ crOp[o].kind = "rotate" =>
          crRow = [id |-> crOp[o].seen, val |-> o]

CrAlone ==
    crBoot = "up" /\ ~crRaced =>
       /\ \A o, p \in CrOps : o = p \/ CrIdle(o) \/ CrIdle(p)
       /\ (\A o \in CrOps : CrIdle(o)) => CrAgree /\ CrTold
       /\ \A o \in CrOps : CrDoing(o)

CrIInv == CrTyped /\ CrKept /\ CrStarting /\ CrAlone

(* The first state.                                                        *)
LEMMA CrInitInv == CrInit => CrIInv
<1> SUFFICES ASSUME CrInit PROVE CrIInv  OBVIOUS
<1>1. CrOld \in CrValues /\ CrOld # "none"  BY CrAssumption DEF CrValues
<1>2. CrTyped  BY <1>1 DEF CrInit, CrTyped, CrOpRecords, CrRecords, CrNone, CrNew
<1>3. CrKept /\ CrStarting /\ CrAlone
  BY <1>1 DEF CrInit, CrKept, CrStarting, CrAlone, CrIdle, CrNew
<1> QED  BY <1>2, <1>3 DEF CrIInv

(* A request that is under way after the start-up, while none overlapped,  *)
(* is the only one.                                                        *)
LEMMA CrLone ==
    ASSUME CrIInv, NEW o \in CrOps, ~CrIdle(o)
    PROVE  /\ crBoot = "up"
           /\ ~crRaced => CrDoing(o) /\ \A p \in CrOps : p # o => CrIdle(p)
BY Zenon DEF CrIInv, CrStarting, CrAlone

(* A step of the one request that is under way.                            *)
LEMMA CrRejoin ==
    ASSUME NEW o \in CrOps, crBoot' = "up",
           \A p \in CrOps : p # o => crOp'[p] = crOp[p],
           ~crRaced' => \A p \in CrOps : p # o => CrIdle(p),
           ~crRaced' => CrDoing(o)',
           ~crRaced' /\ CrIdle(o)' => CrAgree' /\ CrTold'
    PROVE  CrStarting' /\ CrAlone'
<1>1. CrStarting'  BY DEF CrStarting
<1>2. ~crRaced' => \A p \in CrOps : p # o => CrIdle(p)'  BY Zenon DEF CrIdle
<1>3. ASSUME NEW p \in CrOps, p # o, CrIdle(p)' PROVE CrDoing(p)'
  BY <1>3 DEF CrIdle, CrDoing
<1>4. CrAlone'
  BY Zenon, <1>2, <1>3 DEF CrAlone
<1> QED  BY <1>1, <1>4

(* The start-up.                                                           *)
LEMMA CrStartInv ==
    ASSUME CrIInv, CrLoad \/ CrMigrate \/ CrMoved \/ CrDrop \/ CrReplay \/ CrCrash
    PROVE  CrIInv'
<1> USE DEF CrIInv
<1>0. \A o \in CrOps : crBoot # "up" => CrIdle(o)  BY DEF CrStarting
<1>1. CASE CrCrash
  <2>1. CrTyped'  BY <1>1 DEF CrCrash, CrTyped, CrOpRecords, CrTables, CrRecords, CrNone
  <2>2. \A o \in CrOps : CrIdle(o)'  BY <1>1 DEF CrCrash, CrTyped, CrOpRecords, CrIdle, CrBusy
  <2>3. CrKept'  BY <1>1 DEF CrCrash, CrKept, CrTables
  <2>4. CrStarting' /\ CrAlone'  BY <1>1, <2>2 DEF CrCrash, CrStarting, CrAlone
  <2> QED  BY <2>1, <2>3, <2>4
<1>2. CASE CrLoad \/ CrMigrate \/ CrMoved \/ CrDrop
  <2>1. CrTyped'
    BY <1>2 DEF CrLoad, CrMigrate, CrMoved, CrDrop, CrTyped, CrOpRecords, CrTables, CrCaches, CrRecords
  <2>2. crOp' = crOp /\ crBoot # "up" /\ crBoot' # "up"
    BY <1>2 DEF CrLoad, CrMigrate, CrMoved, CrDrop
  <2>3. CrStarting'
    BY <1>0, <1>2, <2>2 DEF CrLoad, CrMigrate, CrMoved, CrDrop, CrStarting, CrAgree, CrTables, CrCaches,
                          CrIdle, CrTyped, CrOpRecords, CrRecords
  <2>4. (crGone => crGone')
    BY Zenon, <1>2 DEF CrLoad, CrMigrate, CrMoved, CrDrop, CrPast
  <2>5. crRow.val # "none" \/ crOver # "none" => crRow'.val # "none" \/ crOver' # "none"
    BY <1>2 DEF CrLoad, CrMigrate, CrMoved, CrDrop, CrStarting, CrTables, CrCaches
  <2>6. CrKept'  BY Zenon, <2>4, <2>5 DEF CrKept
  <2>7. CrAlone'  BY <2>2 DEF CrAlone
  <2> QED  BY <2>1, <2>3, <2>6, <2>7
<1>3. CASE CrReplay
  <2>1. CrTyped'  BY <1>3 DEF CrReplay, CrTyped, CrOpRecords, CrTables, CrCaches
  <2>2. CrKept'  BY Zenon, <1>3 DEF CrReplay, CrKept, CrTables, CrPast
  <2>3. CrStarting'  BY <1>3 DEF CrReplay, CrStarting
  <2>4. \A o \in CrOps : CrIdle(o)'  BY <1>0, <1>3 DEF CrReplay, CrIdle
  <2>5. CrAgree' /\ CrTold'
    BY <1>3 DEF CrReplay, CrStarting, CrAgree, CrTold, CrEffective, CrTables, CrCaches
  <2>6. ASSUME NEW p \in CrOps PROVE CrDoing(p)'  BY <2>4 DEF CrIdle, CrDoing
  <2>7. CrAlone'  BY Zenon, <2>4, <2>5, <2>6 DEF CrAlone
  <2> QED  BY <2>1, <2>2, <2>3, <2>7
<1> QED  BY <1>1, <1>2, <1>3

(* A request comes in.                                                     *)
LEMMA CrBeginInv ==
    ASSUME CrIInv, NEW o \in CrOps, NEW kind \in CrKinds, CrBegin(o, kind)
    PROVE  CrIInv'
<1> USE DEF CrIInv
<1>1. CrTyped'  BY ZenonT(30) DEF CrBegin, CrTyped, CrOpRecords, CrTables, CrCaches, CrRecords
<1>2. UNCHANGED <<crRow, crIds, crOver, crCache, crOvers, crSkill, crGone, crShade>>
  BY Zenon DEF CrBegin, CrTables, CrCaches
<1>3. crBoot = "up" /\ crBoot' = "up" /\ CrIdle(o)  BY DEF CrBegin, CrIdle
<1>4. CrKept'  BY Zenon, <1>2 DEF CrKept
<1>5. \A p \in CrOps : p # o => crOp'[p] = crOp[p]  BY DEF CrBegin, CrTyped, CrOpRecords
<1>6. ASSUME ~crRaced' PROVE ~crRaced /\ \A p \in CrOps : CrIdle(p)
  <2>1. ~crRaced /\ CrBusy = {}  BY Zenon, <1>6 DEF CrBegin
  <2> QED  BY <2>1 DEF CrBusy, CrIdle, CrTyped, CrOpRecords
<1>7. ASSUME ~crRaced' PROVE CrAgree /\ CrTold
  BY Zenon, <1>3, <1>6, <1>7 DEF CrAlone
<1>8. ASSUME ~crRaced' PROVE CrAgree' /\ CrTold'
  BY Zenon, <1>2, <1>7, <1>8 DEF CrAgree, CrTold, CrEffective
<1>9. crOp'[o].pc = "write" /\ (CrAgree => crOp'[o].seen = crRow.id)
  BY DEF CrBegin, CrTyped, CrOpRecords, CrAgree
<1>10. ASSUME ~crRaced' PROVE CrDoing(o)'
  BY <1>2, <1>7, <1>8, <1>9, <1>10 DEF CrDoing
<1>11. CrStarting' /\ CrAlone'  BY Zenon, <1>3, <1>5, <1>6, <1>8, <1>10, CrRejoin
<1> QED  BY <1>1, <1>4, <1>11

(* What every step of a request leaves: the other requests, the start-up   *)
(* and whether requests overlapped.                                        *)
LEMMA CrStepFrame ==
    ASSUME CrIInv, NEW o \in CrOps,
           CrWrite(o) \/ CrChange(o) \/ CrCaching(o) \/ CrPublish(o) \/ CrTell(o) \/ CrAgain(o)
    PROVE  /\ crBoot = "up" /\ crBoot' = "up" /\ (crRaced' <=> crRaced)
           /\ \A p \in CrOps : p # o => crOp'[p] = crOp[p]
           /\ ~crRaced' => CrDoing(o) /\ \A p \in CrOps : p # o => CrIdle(p)
<1>1. ~CrIdle(o)
  BY DEF CrIdle, CrWrite, CrChange, CrCaching, CrPublish, CrTell, CrAgain
<1>2. crBoot' = crBoot /\ crRaced' = crRaced
  <2>1. CASE CrWrite(o)  BY Zenon, <2>1 DEF CrWrite, CrPast
  <2>2. CASE CrChange(o)  BY Zenon, <2>2 DEF CrChange
  <2>3. CASE CrCaching(o) \/ CrPublish(o)  BY Zenon, <2>3 DEF CrCaching, CrPublish, CrPast
  <2>4. CASE CrTell(o) \/ CrAgain(o)  BY Zenon, <2>4 DEF CrTell, CrAgain, CrPast
  <2> QED  BY Zenon, <2>1, <2>2, <2>3, <2>4
<1>3. \A p \in CrOps : p # o => crOp'[p] = crOp[p]
  BY DEF CrIInv, CrTyped, CrOpRecords, CrGoes, CrWrite, CrChange, CrCaching, CrPublish, CrTell, CrAgain
<1> QED  BY Zenon, <1>1, <1>2, <1>3, CrLone

(* The credential is written.                                              *)
LEMMA CrWriteInv == ASSUME CrIInv, NEW o \in CrOps, CrWrite(o) PROVE CrIInv'
<1> USE DEF CrIInv
<1>1. CrTyped'
  <2>1. crRow' \in CrRecords /\ crIds' \in Nat  BY DEF CrWrite, CrTyped, CrOpRecords, CrRecords, CrValues
  <2>2. crOp' \in [CrOps -> CrOpRecords]
    <3>1. CASE CrGoes(o, "cache") \/ CrGoes(o, "done")  BY <3>1 DEF CrGoes, CrTyped, CrOpRecords
    <3>2. CASE crOp' = [crOp EXCEPT ![o] = [@ EXCEPT !.pc = "cache", !.seen = crIds + 1]]
      <4>1. [crOp[o] EXCEPT !.pc = "cache", !.seen = crIds + 1] \in
               CrOpRecords
        <5> DEFINE n == crIds + 1
        <5>1. n \in Nat  BY DEF CrTyped, CrOpRecords
        <5>2. crOp[o] \in CrOpRecords  BY DEF CrTyped, CrOpRecords
        <5> HIDE DEF n
        <5>3. [crOp[o] EXCEPT !.pc = "cache", !.seen = n] \in
               CrOpRecords
          BY <5>1, <5>2 DEF CrOpRecords
        <5> QED  BY <5>3 DEF n
      <4> QED  BY Zenon, <3>2, <4>1 DEF CrTyped, CrOpRecords
    <3> QED  BY Zenon, <3>1, <3>2 DEF CrWrite
  <2>3. UNCHANGED <<crCache, crOver, crOvers, crBoot>>  BY Zenon DEF CrWrite, CrCaches
  <2> QED  BY <2>1, <2>2, <2>3 DEF CrTyped, CrOpRecords
<1>2. CrKept'
  <2>1. crOver' = crOver /\ (crGone' <=> crGone)  BY Zenon DEF CrWrite, CrPast
  <2>2. o # "none"  BY CrAssumption DEF CrValues
  <2>3. crRow'.val \in {crRow.val, o}  BY DEF CrWrite, CrTyped, CrOpRecords, CrRecords
  <2>4. crRow.val # "none" => crRow'.val # "none"  BY <2>2, <2>3
  <2> QED  BY Zenon, <2>1, <2>4 DEF CrKept
<1>3. /\ crBoot' = "up" /\ (crRaced' <=> crRaced)
      /\ \A p \in CrOps : p # o => crOp'[p] = crOp[p]
      /\ ~crRaced' => CrDoing(o) /\ \A p \in CrOps : p # o => CrIdle(p)
  BY Zenon, CrStepFrame
<1>4. UNCHANGED <<crCache, crOvers, crOver, crSkill, crShade>>
  BY Zenon DEF CrWrite, CrCaches, CrPast
<1>5. crOp[o].pc = "write" /\ crOp[o].kind \in {"set", "rotate"}  BY DEF CrWrite
<1>6. CASE crOp'[o].pc = "done"
  <2>1. crRow' = crRow  BY <1>6 DEF CrWrite, CrGoes, CrTyped, CrOpRecords
  <2>2. CrAgree /\ CrTold => CrAgree' /\ CrTold'
    BY Zenon, <2>1, <1>4 DEF CrAgree, CrTold, CrEffective
  <2>3. ~crRaced' => CrAgree' /\ CrTold'  BY <1>3, <1>5, <2>2 DEF CrDoing
  <2>4. CrDoing(o)'  BY <1>6 DEF CrDoing
  <2>5. CrStarting' /\ CrAlone'  BY Zenon, <1>3, <2>3, <2>4, CrRejoin
  <2> QED  BY <1>1, <1>2, <2>5
<1>7. CASE crOp'[o].pc # "done"
  <2>1. crOp'[o].pc = "cache" /\ crOp'[o].kind = crOp[o].kind
    BY ZenonT(30), <1>7 DEF CrWrite, CrGoes, CrTyped, CrOpRecords
  <2>2. ASSUME CrDoing(o) PROVE CrDoing(o)'
    <3>1. CrAgree /\ crOp[o].seen = crRow.id  BY <1>5, <2>2 DEF CrDoing
    <3>2. crRow' = [id |-> crOp'[o].seen, val |-> o]
      <4>1. CASE crOp[o].seen # 0
        <5>1. crRow' = [crRow EXCEPT !.val = o] /\ CrGoes(o, "cache")
          <6>1. ~CrGoes(o, "done")  BY <1>7 DEF CrGoes, CrTyped, CrOpRecords
          <6> QED  BY <3>1, <4>1, <6>1 DEF CrWrite
        <5>2. crOp'[o].seen = crRow.id  BY <3>1, <5>1 DEF CrGoes, CrTyped, CrOpRecords
        <5> QED  BY <5>1, <5>2 DEF CrTyped, CrOpRecords, CrRecords
      <4>2. CASE crOp[o].seen = 0
        <5>1. ~CrGoes(o, "done")  BY <1>7 DEF CrGoes, CrTyped, CrOpRecords
        <5>2. /\ crRow' = [id |-> crIds + 1, val |-> o]
              /\ crOp' = [crOp EXCEPT ![o] = [@ EXCEPT !.pc = "cache", !.seen = crIds + 1]]
          BY <4>2, <5>1 DEF CrWrite
        <5> QED  BY <5>2 DEF CrTyped, CrOpRecords
      <4> QED  BY <4>1, <4>2
    <3> QED  BY <1>4, <1>5, <2>1, <3>1, <3>2 DEF CrDoing, CrCached, CrOnOverride, CrAgree
  <2>3. ~CrIdle(o)'  BY <2>1 DEF CrIdle
  <2>5. CrStarting' /\ CrAlone'  BY Zenon, <1>3, <2>2, <2>3, CrRejoin
  <2> QED  BY <1>1, <1>2, <2>5
<1> QED  BY <1>6, <1>7

(* The credential is deleted, or the override changed.                     *)
LEMMA CrChangeInv == ASSUME CrIInv, NEW o \in CrOps, CrChange(o) PROVE CrIInv'
<1> USE DEF CrIInv
<1>1. CrTyped'
  BY DEF CrChange, CrGoes, CrTyped, CrOpRecords, CrCaches, CrRecords, CrValues, CrNone
<1>3. /\ crBoot' = "up" /\ (crRaced' <=> crRaced)
      /\ \A p \in CrOps : p # o => crOp'[p] = crOp[p]
      /\ ~crRaced' => CrDoing(o) /\ \A p \in CrOps : p # o => CrIdle(p)
  BY Zenon, CrStepFrame
<1>4. UNCHANGED <<crCache, crOvers, crSkill, crShade>>
  BY Zenon DEF CrChange, CrCaches
<1>5. /\ crOp[o].pc = "write"
      /\ crOp[o].kind \in {"delete", "setOverride", "deleteOverride"}
  BY DEF CrChange
<1>6. CASE UNCHANGED <<crRow, crOver, crGone>> /\ CrGoes(o, "done")
  <2>1. crOp'[o].pc = "done"  BY <1>6 DEF CrGoes, CrTyped, CrOpRecords
  <2>2. CrAgree /\ CrTold => CrAgree' /\ CrTold'
    BY Zenon, <1>6, <1>4 DEF CrAgree, CrTold, CrEffective
  <2>3. ~crRaced' => CrAgree' /\ CrTold'  BY <1>3, <1>5, <2>2 DEF CrDoing
  <2>4. CrDoing(o)'  BY <2>1 DEF CrDoing
  <2>5. CrStarting' /\ CrAlone'  BY Zenon, <1>3, <2>3, <2>4, CrRejoin
  <2>6. CrKept'  BY Zenon, <1>6 DEF CrKept
  <2> QED  BY <1>1, <2>5, <2>6
<1>7. CASE /\ CrGoes(o, "cache")
           /\ crRow' = IF crOp[o].kind = "delete" /\ crRow.id = crOp[o].seen THEN CrNone ELSE crRow
           /\ crOver' = CASE crOp[o].kind = "setOverride"    -> o
                          [] crOp[o].kind = "deleteOverride" -> "none"
                          [] OTHER                           -> crOver
           /\ crGone' = (crGone \/ crOp[o].kind # "setOverride")
  <2>1. crOp'[o] = [crOp[o] EXCEPT !.pc = "cache"]  BY <1>7 DEF CrGoes, CrTyped, CrOpRecords
  <2>2. /\ crOp'[o].pc = "cache" /\ crOp'[o].kind = crOp[o].kind
    BY <2>1 DEF CrTyped, CrOpRecords
  <2>3. CrKept'
    <3>1. CASE crOp[o].kind = "setOverride"
      <4>1. o # "none"  BY CrAssumption DEF CrValues
      <4>2. crOver' = o  BY <1>7, <3>1
      <4> QED  BY Zenon, <4>1, <4>2 DEF CrKept
    <3>2. CASE crOp[o].kind # "setOverride"
      <4>1. crGone' = TRUE  BY Zenon, <1>7, <3>2
      <4> QED  BY Zenon, <4>1 DEF CrKept
    <3> QED  BY <3>1, <3>2
  <2>4. ASSUME CrDoing(o) PROVE CrDoing(o)'
    <3>1. CrAgree /\ crOp[o].seen = crRow.id  BY <1>5, <2>4 DEF CrDoing
    <3>2. crRow' = IF crOp[o].kind = "delete" THEN CrNone ELSE crRow  BY <1>7, <3>1
    <3>3. /\ crOp[o].kind = "setOverride" => crOver' = o
          /\ crOp[o].kind = "deleteOverride" => crOver' = "none"
          /\ crOp[o].kind = "delete" => crOver' = crOver
      BY <1>7
    <3> QED  BY <1>4, <1>5, <2>2, <3>1, <3>2, <3>3 DEF CrDoing, CrCached, CrOnOverride, CrAgree
  <2>5. ~CrIdle(o)'  BY <2>2 DEF CrIdle
  <2>6. CrStarting' /\ CrAlone'  BY Zenon, <1>3, <2>4, <2>5, CrRejoin
  <2> QED  BY <1>1, <2>3, <2>6
<1> QED  BY Zenon, <1>6, <1>7 DEF CrChange

(* The cache is told.                                                      *)
LEMMA CrCachingInv == ASSUME CrIInv, NEW o \in CrOps, CrCaching(o) PROVE CrIInv'
<1> USE DEF CrIInv
<1>1. CrTyped'
  BY DEF CrCaching, CrCached, CrGoes, CrTyped, CrOpRecords, CrTables, CrRecords, CrValues, CrNone
<1>2. CrKept'  BY Zenon DEF CrCaching, CrKept, CrTables, CrPast
<1>3. /\ crBoot' = "up" /\ (crRaced' <=> crRaced)
      /\ \A p \in CrOps : p # o => crOp'[p] = crOp[p]
      /\ ~crRaced' => CrDoing(o) /\ \A p \in CrOps : p # o => CrIdle(p)
  BY Zenon, CrStepFrame
<1>4. crOp[o].pc = "cache" /\ crOp'[o].pc = "publish"  BY DEF CrCaching, CrGoes, CrTyped, CrOpRecords
<1>5. ASSUME CrDoing(o) PROVE CrDoing(o)'
  <2>1. /\ crRow = CrCached(o)
        /\ crOp[o].kind = "setOverride" => crOver = o
        /\ crOp[o].kind = "deleteOverride" => crOver = "none"
        /\ crOp[o].kind \notin {"setOverride", "deleteOverride"} => crOver = crOvers
    BY <1>4, <1>5 DEF CrDoing, CrOnOverride
  <2>2. crOvers' = crOver  BY <2>1 DEF CrCaching
  <2>3. crRow' = crRow /\ crOver' = crOver /\ crCache' = CrCached(o)
    BY Zenon DEF CrCaching, CrTables
  <2>4. CrAgree'  BY Zenon, <2>1, <2>2, <2>3 DEF CrAgree
  <2>5. crOp'[o].kind = crOp[o].kind /\ crOp'[o].seen = crOp[o].seen
    BY DEF CrCaching, CrGoes, CrTyped, CrOpRecords
  <2>6. crOp[o].kind = "rotate" => crRow = [id |-> crOp[o].seen, val |-> o]
    BY <2>1 DEF CrCached
  <2> QED  BY <1>4, <2>3, <2>4, <2>5, <2>6 DEF CrDoing
<1>6. ~CrIdle(o)'  BY <1>4 DEF CrIdle
<1>7. CrStarting' /\ CrAlone'  BY Zenon, <1>3, <1>5, <1>6, CrRejoin
<1> QED  BY <1>1, <1>2, <1>7

(* The subscriber reads.                                                   *)
LEMMA CrPublishInv == ASSUME CrIInv, NEW o \in CrOps, CrPublish(o) PROVE CrIInv'
<1> USE DEF CrIInv
<1>0. CrRead(o) \in CrValues \union {"none"}
  BY DEF CrRead, CrEffective, CrTyped, CrOpRecords, CrRecords
<1>1. CrTyped'
  BY <1>0 DEF CrPublish, CrTyped, CrOpRecords, CrTables, CrCaches
<1>2. CrKept'  BY Zenon DEF CrPublish, CrKept, CrTables, CrPast
<1>3. /\ crBoot' = "up" /\ (crRaced' <=> crRaced)
      /\ \A p \in CrOps : p # o => crOp'[p] = crOp[p]
      /\ ~crRaced' => CrDoing(o) /\ \A p \in CrOps : p # o => CrIdle(p)
  BY Zenon, CrStepFrame
<1>4. /\ crOp[o].pc = "publish" /\ crOp'[o].pc = "tell" /\ crOp'[o].kind = crOp[o].kind
      /\ crOp'[o].read = CrRead(o) /\ crOp'[o].seen = crOp[o].seen
  BY DEF CrPublish, CrTyped, CrOpRecords
<1>5. ASSUME CrDoing(o) PROVE CrDoing(o)'
  <2>1. UNCHANGED <<crRow, crOver, crCache, crOvers>>  BY Zenon DEF CrPublish, CrTables, CrCaches
  <2>2. CrAgree  BY <1>4, <1>5 DEF CrDoing
  <2>3. CrRead(o)' = CrRead(o) /\ CrAgree'
    BY <1>4, <2>1, <2>2 DEF CrRead, CrOnOverride, CrEffective, CrAgree
  <2> QED  BY <1>4, <1>5, <2>1, <2>3 DEF CrDoing
<1>6. ~CrIdle(o)'  BY <1>4 DEF CrIdle
<1>7. CrStarting' /\ CrAlone'  BY Zenon, <1>3, <1>5, <1>6, CrRejoin
<1> QED  BY <1>1, <1>2, <1>7

(* The skill is told.  What the subscriber of a setting reads is what      *)
(* counts, unless a credential hides it.                                   *)
LEMMA CrTellInv == ASSUME CrIInv, NEW o \in CrOps, CrTell(o) PROVE CrIInv'
<1> USE DEF CrIInv
<1>1. CrTyped'  BY DEF CrTell, CrGoes, CrTyped, CrOpRecords, CrTables, CrCaches
<1>2. CrKept'  BY Zenon DEF CrTell, CrKept, CrTables
<1>3. /\ crBoot' = "up" /\ (crRaced' <=> crRaced)
      /\ \A p \in CrOps : p # o => crOp'[p] = crOp[p]
      /\ ~crRaced' => CrDoing(o) /\ \A p \in CrOps : p # o => CrIdle(p)
  BY Zenon, CrStepFrame
<1>4. /\ crOp[o].pc = "tell" /\ crOp'[o].pc \in {"again", "done"} /\ crSkill' = crOp[o].read
  BY DEF CrTell, CrGoes, CrTyped, CrOpRecords
<1>5. UNCHANGED <<crRow, crOver, crCache, crOvers>>  BY Zenon DEF CrTell, CrTables, CrCaches
<1>6. ASSUME CrDoing(o) PROVE CrAgree' /\ CrTold'
  <2>1. CrAgree /\ crOp[o].read = CrRead(o)  BY <1>4, <1>6 DEF CrDoing
  <2>2. CrAgree'  BY Zenon, <1>5, <2>1 DEF CrAgree
  <2>3. CASE CrOnOverride(o) /\ crCache.val # "none"
    <3>1. crShade' = TRUE  BY Zenon, <2>3 DEF CrTell
    <3> QED  BY Zenon, <2>2, <3>1 DEF CrTold
  <2>4. CASE ~(CrOnOverride(o) /\ crCache.val # "none")
    <3>1. CrRead(o) = CrEffective  BY <2>4 DEF CrRead, CrEffective
    <3>2. CrEffective' = CrEffective  BY Zenon, <1>5 DEF CrEffective
    <3>3. crSkill' = CrEffective'  BY <1>4, <2>1, <3>1, <3>2
    <3> QED  BY Zenon, <2>2, <3>3 DEF CrTold
  <2> QED  BY <2>3, <2>4
<1>7. ASSUME CrDoing(o) PROVE CrDoing(o)'
  <2>1. crOp'[o].pc = "again" => crOp[o].kind = "rotate"  BY DEF CrTell, CrGoes, CrTyped, CrOpRecords
  <2>2. crOp'[o].kind = crOp[o].kind /\ crOp'[o].seen = crOp[o].seen
    BY DEF CrTell, CrGoes, CrTyped, CrOpRecords
  <2> QED  BY <1>4, <1>5, <1>6, <1>7, <2>1, <2>2 DEF CrDoing
<1>8. CrStarting' /\ CrAlone'  BY Zenon, <1>3, <1>6, <1>7, CrRejoin
<1> QED  BY <1>1, <1>2, <1>8

(* The time of the rotation is added to the row it wrote.                  *)
LEMMA CrAgainInv == ASSUME CrIInv, NEW o \in CrOps, CrAgain(o) PROVE CrIInv'
<1> USE DEF CrIInv
<1>1. CrTyped'  BY DEF CrAgain, CrGoes, CrTyped, CrOpRecords, CrCaches, CrRecords, CrValues
<1>2. CrKept'
  <2>1. crOver' = crOver /\ (crGone' <=> crGone)  BY Zenon DEF CrAgain, CrPast
  <2>2. o # "none"  BY CrAssumption DEF CrValues
  <2>3. crRow'.val \in {crRow.val, o}  BY DEF CrAgain, CrTyped, CrOpRecords, CrRecords
  <2>4. crRow.val # "none" => crRow'.val # "none"  BY <2>2, <2>3
  <2> QED  BY Zenon, <2>1, <2>4 DEF CrKept
<1>3. /\ crBoot' = "up" /\ (crRaced' <=> crRaced)
      /\ \A p \in CrOps : p # o => crOp'[p] = crOp[p]
      /\ ~crRaced' => CrDoing(o) /\ \A p \in CrOps : p # o => CrIdle(p)
  BY Zenon, CrStepFrame
<1>4. crOp[o].pc = "again" /\ crOp'[o].pc = "done"  BY DEF CrAgain, CrGoes, CrTyped, CrOpRecords
<1>5. UNCHANGED <<crOver, crCache, crOvers, crSkill, crShade>>
  BY Zenon DEF CrAgain, CrCaches, CrPast
<1>6. ASSUME CrDoing(o) PROVE CrAgree' /\ CrTold'
  <2>1. CrAgree /\ CrTold /\ crRow = [id |-> crOp[o].seen, val |-> o]
    BY <1>4, <1>6 DEF CrDoing
  <2>2. crRow' = crRow  BY <2>1 DEF CrAgain
  <2> QED  BY Zenon, <1>5, <2>1, <2>2 DEF CrAgree, CrTold, CrEffective
<1>7. CrDoing(o)'  BY <1>4 DEF CrDoing
<1>8. CrStarting' /\ CrAlone'  BY Zenon, <1>3, <1>6, <1>7, CrRejoin
<1> QED  BY <1>1, <1>2, <1>8

(* Every step keeps the invariant.                                         *)
LEMMA CrStepInv == ASSUME CrIInv, [CrNext]_crVars PROVE CrIInv'
<1>1. CASE UNCHANGED crVars
  <2>1. CrTyped' /\ CrStarting'
    BY <1>1 DEF crVars, CrIInv, CrTyped, CrOpRecords, CrStarting, CrAgree, CrIdle
  <2>2. CrKept' /\ CrAlone'
    BY Zenon, <1>1 DEF crVars, CrIInv, CrKept, CrAlone, CrAgree, CrTold, CrEffective, CrIdle, CrDoing,
                       CrCached, CrOnOverride, CrRead
  <2> QED  BY <2>1, <2>2 DEF CrIInv
<1> QED
  BY <1>1, CrStartInv, CrBeginInv, CrWriteInv, CrChangeInv, CrCachingInv, CrPublishInv, CrTellInv,
     CrAgainInv
  DEF CrNext

(* What CrSafe asks for is in the invariant.                               *)
LEMMA CrIInvSafe == CrIInv => CrSafe
<1>1. CrIInv /\ CrBusy = {} => \A o \in CrOps : CrIdle(o)
  BY DEF CrIInv, CrTyped, CrOpRecords, CrBusy, CrIdle
<1> QED  BY Zenon, <1>1 DEF CrIInv, CrKept, CrAlone, CrAgree, CrTold, CrSafe

(* The kinds of what the skill was told and of the histories.              *)
CrShaped ==
    /\ crSkill \in CrValues \union {"none"}
    /\ crGone \in BOOLEAN /\ crRaced \in BOOLEAN /\ crShade \in BOOLEAN
    /\ crFaults \in 0 .. CrMaxFaults

(* What the skill was told and the histories start with their shapes. *)
LEMMA CrShapedInit == CrInit => CrShaped
<1> SUFFICES ASSUME CrInit PROVE CrShaped  OBVIOUS
<1>1. 0 \in 0 .. CrMaxFaults  BY CrAssumption
<1> QED  BY <1>1 DEF CrInit, CrShaped

(* What a step may count.                                                  *)
LEMMA CrFaultBounded ==
    ASSUME crFaults \in 0 .. CrMaxFaults, CrFault
    PROVE  crFaults' \in 0 .. CrMaxFaults
BY CrAssumption DEF CrFault

(* Every step of the store and of its clients keeps the shapes. *)
LEMMA CrShapedStep == ASSUME CrIInv, CrShaped, [CrNext]_crVars PROVE CrShaped'
<1>1. CASE UNCHANGED crVars  BY Zenon, <1>1 DEF CrShaped, crVars
<1>2. CASE CrNext
  <2>1. crFaults' = crFaults \/ CrFault
    BY Zenon, <1>2 DEF CrNext, CrLoad, CrMigrate, CrMoved, CrDrop, CrReplay, CrCrash, CrBegin,
      CrWrite, CrChange, CrCaching, CrPublish, CrTell, CrAgain
  <2>2. crFaults' \in 0 .. CrMaxFaults  BY Zenon, <2>1, CrFaultBounded DEF CrShaped
  <2>3. CrEffective \in CrValues \union {"none"}
    BY DEF CrIInv, CrTyped, CrRecords, CrEffective
  <2>4. \A o \in CrOps : crOp[o].read \in CrValues \union {"none"}
    BY DEF CrIInv, CrTyped, CrOpRecords
  <2>5. \/ crSkill' \in {crSkill, CrEffective, "none"}
        \/ \E o \in CrOps : crSkill' = crOp[o].read
    BY Zenon, <1>2 DEF CrNext, CrLoad, CrMigrate, CrMoved, CrDrop, CrReplay, CrCrash, CrBegin,
      CrWrite, CrChange, CrCaching, CrPublish, CrTell, CrAgain
  <2>6. crSkill' \in CrValues \union {"none"}  BY <2>3, <2>4, <2>5 DEF CrShaped
  <2>7. crGone' \in BOOLEAN /\ crRaced' \in BOOLEAN /\ crShade' \in BOOLEAN
    <3>1. CASE CrLoad \/ CrMigrate \/ CrMoved \/ CrDrop \/ CrReplay
      BY Zenon, <3>1 DEF CrLoad, CrMigrate, CrMoved, CrDrop, CrReplay, CrPast, CrShaped
    <3>2. CASE CrCrash  BY Zenon, <3>2 DEF CrCrash, CrShaped
    <3>3. ASSUME NEW o \in CrOps, NEW kind \in CrKinds, CrBegin(o, kind)
          PROVE  crGone' \in BOOLEAN /\ crRaced' \in BOOLEAN /\ crShade' \in BOOLEAN
      BY Zenon, <3>3 DEF CrBegin, CrShaped
    <3>4. ASSUME NEW o \in CrOps,
                 CrWrite(o) \/ CrChange(o) \/ CrCaching(o) \/ CrPublish(o) \/ CrTell(o) \/ CrAgain(o)
          PROVE  crGone' \in BOOLEAN /\ crRaced' \in BOOLEAN /\ crShade' \in BOOLEAN
      BY Zenon, <3>4 DEF CrWrite, CrChange, CrCaching, CrPublish, CrTell, CrAgain, CrPast, CrShaped
    <3> QED  BY Zenon, <1>2, <3>1, <3>2, <3>3, <3>4 DEF CrNext
  <2> QED  BY Zenon, <2>2, <2>6, <2>7 DEF CrShaped
<1> QED  BY <1>1, <1>2

(* The shapes and what the inductive invariant says of the operations give the types. *)
LEMMA CrTypedOK == CrIInv /\ CrShaped => CrTypeOK
<1> SUFFICES ASSUME CrIInv, CrShaped PROVE CrTypeOK  OBVIOUS
<1>1. {crRow.val, crCache.val, crOver, crOvers, crSkill} \subseteq CrValues \union {"none"}
  BY DEF CrIInv, CrTyped, CrShaped, CrRecords
<1>2. crRow.id \in Nat /\ crCache.id \in Nat /\ crIds \in Nat
  BY DEF CrIInv, CrTyped, CrRecords
<1>3. crBoot \in {"down", "migrate", "moved", "drop", "replay", "up"}  BY DEF CrIInv, CrTyped
<1>4. \A o \in CrOps :
         /\ crOp[o].kind \in CrKinds \union {"none"}
         /\ crOp[o].pc \in {"new", "write", "cache", "publish", "tell", "again", "done"}
  BY DEF CrIInv, CrTyped, CrOpRecords
<1>5. {crGone, crRaced, crShade} \subseteq BOOLEAN  BY Zenon DEF CrShaped
<1>6. crFaults \in 0 .. CrMaxFaults  BY Zenon DEF CrShaped
<1> QED  BY Zenon, <1>1, <1>2, <1>3, <1>4, <1>5, <1>6 DEF CrTypeOK
=============================================================================
