----------------------------- MODULE KickProofs -----------------------------
(***************************************************************************)
(* A kick lasts until the operator of eosio.libre takes it back.           *)
(***************************************************************************)
EXTENDS KickHistory, PermissionProofs

(* A status the account asks for is pending, never on. *)
LEMMA RequestsDoNotGrant ==
    ASSUME PermTypeOK, NEW acc \in Account, NEW r, ReqPerm(acc, r),
           NEW p \in Account \ Privileged, ~Allowed(p, "regprod")
    PROVE  ~Allowed(p, "regprod")'
<1>1. "regprod" \in Permission
  <2>1. Fields[2] = "regprod" /\ 2 \in DOMAIN Fields
    BY DEF Fields
  <2>2. QED
    BY <2>1 DEF Permission
<1>2. GetPriv(p) = RowOrNew(p) /\ GetPriv(p)' = RowOrNew(p)'
  BY DEF GetPriv
<1>3. RowOrNew(p)["regprod"] # On
  BY <1>2 DEF Allowed
<1>4. CASE p # acc
  <2>1. RowOrNew(p)' = RowOrNew(p)
    BY <1>4 DEF ReqPerm, SetRow, RowOrNew, HasRow
  <2>2. QED
    BY <1>2, <1>3, <2>1 DEF Allowed
<1>5. CASE p = acc
  <2>1. RowOrNew(p)' = RequestRow(r, RowOrNew(p))
    BY <1>5 DEF ReqPerm, SetRow, RowOrNew, HasRow
  <2>2. RequestRow(r, RowOrNew(p))["regprod"] # On
    BY <1>1, <1>3 DEF RequestRow, Pending, On
  <2>3. QED
    BY <1>2, <2>1, <2>2 DEF Allowed
<1>6. QED
  BY <1>4, <1>5

(* A kick in eosio.libre turns regprod off and grants nobody else anything. *)
LEMMA KicksDoNotGrant ==
    ASSUME PermTypeOK, NEW acc \in Account, KickPerm(acc), NEW p \in Account \ Privileged,
           ~Allowed(p, "regprod") \/ p = acc
    PROVE  ~Allowed(p, "regprod")'
<1>1. "regprod" \in Permission
  <2>1. Fields[2] = "regprod" /\ 2 \in DOMAIN Fields
    BY DEF Fields
  <2>2. QED
    BY <2>1 DEF Permission
<1>2. GetPriv(p) = RowOrNew(p) /\ GetPriv(p)' = RowOrNew(p)'
  BY DEF GetPriv
<1>3. CASE p # acc
  <2>1. RowOrNew(p)' = RowOrNew(p)
    BY <1>3 DEF KickPerm, SetRow, RowOrNew, HasRow
  <2>2. QED
    BY <1>2, <1>3, <2>1 DEF Allowed
<1>4. CASE p = acc
  <2>1. RowOrNew(p)' = [RowOrNew(p) EXCEPT !["regprod"] = Off]
    BY <1>4 DEF KickPerm, SetRow, RowOrNew, HasRow
  <2>2. RowOrNew(p) \in Row
    BY RowOrNewType
  <2>3. RowOrNew(p)'["regprod"] = Off
    BY <1>1, <2>1, <2>2 DEF Row
  <2>4. QED
    BY <1>2, <2>3 DEF Allowed, On, Off
<1>5. QED
  BY <1>3, <1>4

KickInv ==
    /\ PermTypeOK
    /\ kicked \subseteq Account
    /\ KickedStayOut

(* Every step keeps the kicked out. *)
LEMMA KickStep == KickInv /\ [HistNext]_histVars => KickInv'
<1> SUFFICES ASSUME KickInv, [HistNext]_histVars PROVE KickInv'
  OBVIOUS
<1>0. PermTypeOK /\ kicked \subseteq Account /\ KickedStayOut
  BY DEF KickInv
<1>1. ASSUME NEW acc \in Account, Kick(acc) PROVE KickInv'
  <2>1. /\ KickPerm(acc) /\ active' = active \ {acc} /\ kicked' = kicked \cup {acc}
    BY <1>1 DEF Kick, KickBP, Deactivate
  <2>2. PermTypeOK'
    BY <1>0, <2>1, PermNextType DEF PermNext
  <2>3. ASSUME NEW p \in kicked' \ Privileged PROVE p \notin active' /\ ~Allowed(p, "regprod")'
    <3>1. p \in Account \ Privileged
      BY <1>0, <2>1
    <3>2. p = acc \/ (p \notin active /\ ~Allowed(p, "regprod"))
      BY <1>0, <2>1 DEF KickedStayOut
    <3>3. QED
      BY <1>0, <2>1, <3>1, <3>2, KicksDoNotGrant
  <2>4. QED
    BY <1>0, <2>1, <2>2, <2>3 DEF KickInv, KickedStayOut
<1>2. ASSUME NEW acc \in Account, Decide(acc) PROVE KickInv'
  <2>1. /\ Operator(acc) /\ active' = active
        /\ kicked' = IF HasRow(acc)' /\ perms'[acc]["regprod"] = On
                     THEN kicked \ {acc} ELSE kicked
    BY <1>2 DEF Decide, prodVars
  <2>2. PermTypeOK'
    BY <1>0, <2>1, PermNextType DEF PermNext
  <2>3. ASSUME NEW p \in kicked' \ Privileged PROVE p \notin active' /\ ~Allowed(p, "regprod")'
    <3>1. p \in kicked /\ p \notin Privileged /\ p \notin active /\ ~Allowed(p, "regprod")
      BY <1>0, <2>1 DEF KickedStayOut
    <3>2. CASE p # acc
      <4>1. RowOrNew(p)' = RowOrNew(p)
        BY <2>1, <3>2 DEF Operator, SetPerm2, SetPerm, SetRow, Remove, RowOrNew, HasRow
      <4>2. QED
        BY <2>1, <3>1, <4>1 DEF Allowed, GetPriv
    <3>3. CASE p = acc
      <4>1. ~(HasRow(acc)' /\ perms'[acc]["regprod"] = On)
        BY <2>1, <3>3
      <4>2. "regprod" \in Permission
        <5>1. Fields[2] = "regprod" /\ 2 \in DOMAIN Fields
          BY DEF Fields
        <5>2. QED
          BY <5>1 DEF Permission
      <4>3. RowOrNew(acc)'["regprod"] # On
        BY <4>1, <4>2 DEF RowOrNew, HasRow, NewRow, None, On
      <4>4. QED
        BY <2>1, <3>1, <3>3, <4>3 DEF Allowed, GetPriv
    <3>4. QED
      BY <3>2, <3>3
  <2>4. QED
    BY <1>0, <2>1, <2>2, <2>3 DEF KickInv, KickedStayOut
<1>3. ASSUME UNCHANGED <<perms, kicked>>,
             \A p \in Account : p \in active' \ active => Allowed(p, "regprod")
      PROVE  KickInv'
  <2>1. \A p \in Account : Allowed(p, "regprod")' = Allowed(p, "regprod")
    BY <1>3 DEF Allowed, GetPriv, RowOrNew, HasRow
  <2>2. PermTypeOK'
    BY <1>0, <1>3 DEF PermTypeOK
  <2>3. QED
    BY <1>0, <1>3, <2>1, <2>2 DEF KickInv, KickedStayOut
<1>4. ASSUME NEW acc \in Account, UNCHANGED <<active, kicked>>,
             (\E r \in Requests : ReqPerm(acc, r)) \/ KickPerm(acc)
      PROVE  KickInv'
  <2>1. PermTypeOK'
    BY <1>0, <1>4, PermNextType DEF PermNext
  <2>2. ASSUME NEW p \in kicked \ Privileged PROVE ~Allowed(p, "regprod")'
    <3>1. p \in Account \ Privileged /\ ~Allowed(p, "regprod")
      BY <1>0 DEF KickedStayOut
    <3>2. QED
      BY <1>0, <1>4, <3>1, RequestsDoNotGrant, KicksDoNotGrant
  <2>3. QED
    BY <1>0, <1>4, <2>1, <2>2 DEF KickInv, KickedStayOut
<1>5. ASSUME Other PROVE KickInv'
  <2>0. kicked' = kicked
    BY <1>5 DEF Other
  <2>1. ASSUME NEW p \in Account, NEW key, RegProducer(p, key) \/ RegProducer2(p, key)
        PROVE  KickInv'
    BY <1>3, <2>0, <2>1 DEF RegProducer, RegProducer2, Register
  <2>2. ASSUME NEW p \in Account, UnregProd(p) \/ RmvProducer(p) PROVE KickInv'
    BY <1>3, <2>0, <2>2 DEF UnregProd, RmvProducer, Deactivate
  <2>3. ASSUME NEW v \in Voter, VoterStep(v) PROVE KickInv'
    BY <1>3, <2>0, <2>3 DEF VoterStep, VoteProducer, VOnStake, UpdateVotes, prodVars
  <2>4. ASSUME NEW i \in StakeId, StakeStep(i) PROVE KickInv'
    BY <1>3, <2>0, <2>4 DEF StakeStep, OpenStake, CloseStake, prodVars
  <2>5. ASSUME NEW p \in Account, UNCHANGED prodVars,
               (\E r \in Requests : ReqPerm(p, r)) \/ KickPerm(p)
        PROVE  KickInv'
    BY <1>4, <2>0, <2>5 DEF prodVars
  <2>6. QED
    BY <1>5, <2>1, <2>2, <2>3, <2>4, <2>5 DEF Other
<1>6. CASE UNCHANGED histVars
  BY <1>3, <1>6 DEF histVars, vars, prodVars
<1>7. QED
  BY <1>1, <1>2, <1>5, <1>6 DEF HistNext

(***************************************************************************)
(* A producer eosio has kicked is not a candidate, and may not become one, *)
(* until the operator of eosio.libre grants it regprod again.              *)
(***************************************************************************)
THEOREM KicksLast == HistSpec => []KickedStayOut
<1>1. HistInit => KickInv
  BY DEF HistInit, Init, PermInit, KickInv, PermTypeOK, KickedStayOut
<1>2. KickInv => KickedStayOut
  BY DEF KickInv
<1>3. QED
  BY <1>1, <1>2, KickStep, PTL DEF HistSpec

-----------------------------------------------------------------------------
(* The history takes nothing from the steps and adds none. *)
LEMMA HistoryFollows == [HistNext]_histVars => [Next]_vars
<1> SUFFICES ASSUME [HistNext]_histVars PROVE [Next]_vars
  OBVIOUS
<1>1. ASSUME NEW p \in Account, Kick(p) PROVE Next
  <2>1. ProducerStep(p)
    BY <1>1 DEF Kick, ProducerStep
  <2>2. QED
    BY <2>1 DEF Next
<1>2. ASSUME NEW p \in Account, Decide(p) PROVE Next
  <2>1. PermStep(p)
    BY <1>2 DEF Decide, PermStep, PermNext
  <2>2. QED
    BY <2>1 DEF Next
<1>3. ASSUME NEW p \in Account,
             (\E r \in Requests : ReqPerm(p, r)) \/ KickPerm(p),
             UNCHANGED <<prodVars, tallyVars, stakes>>
      PROVE  Next
  <2>1. PermStep(p)
    BY <1>3 DEF PermStep, PermNext
  <2>2. QED
    BY <2>1 DEF Next
<1>4. ASSUME NEW p \in Account,
             \/ \E key \in Key : RegProducer(p, key)
             \/ \E key \in Key \cup BadKey : RegProducer2(p, key)
             \/ UnregProd(p)
             \/ RmvProducer(p)
      PROVE  Next
  <2>1. ProducerStep(p)
    BY <1>4 DEF ProducerStep
  <2>2. QED
    BY <2>1 DEF Next
<1>5. CASE Other
  BY <1>3, <1>4, <1>5 DEF Other, Next
<1>6. CASE UNCHANGED histVars
  BY <1>6 DEF histVars
<1>7. QED
  BY <1>1, <1>2, <1>5, <1>6 DEF HistNext

(***************************************************************************)
(* The record of the kicks is only a record: a behaviour with it is one of *)
(* the two contracts, so that what is proved of the kicked, and of the     *)
(* votes meanwhile, is proved of the same behaviours.                      *)
(***************************************************************************)
THEOREM HistoryIsVoting == HistSpec => Spec
<1>1. HistInit => Init
  BY DEF HistInit
<1>2. QED
  BY <1>1, HistoryFollows, PTL DEF HistSpec, Spec

=============================================================================
