-------------------------- MODULE GovernanceProofs --------------------------
(***************************************************************************)
(* eosio.msig and eosio.wrap, for any accounts, levels, proposals,         *)
(* authorities and number of blocks.  An approval that exec counts is the  *)
(* last word of its level because the times in the tables are all past: an *)
(* invalidation now is later than, or in the block of, every approval, and *)
(* the comparison is strict.                                               *)
(***************************************************************************)
EXTENDS Governance, TLAPS

(* A row is no NoRow, and neither is a time or a transaction. *)
LEMMA RowFacts ==
    ASSUME GovTypeOK, NEW k \in Key
    PROVE  /\ approvals[k] # NoRow => approvals[k] \in ApprovalsRow
           /\ old_approvals[k] # NoRow => old_approvals[k] \in OldApprovalsRow
           /\ proposals[k] # NoRow => proposals[k] \in Transaction
           /\ \A row \in ApprovalsRow \cup OldApprovalsRow : row # NoRow
           /\ \A trx \in Transaction : trx # NoRow
BY MultisigAssumption DEF GovTypeOK

(***************************************************************************)
(* Types.                                                                  *)
(***************************************************************************)
LEMMA TypeInit == GovInit => GovTypeOK
<1> SUFFICES ASSUME GovInit
             PROVE  GovTypeOK
  OBVIOUS
<1>1. old_approvals \in [Key -> OldApprovalsRow \cup {NoRow}]
  BY MultisigAssumption DEF GovInit, MsigInit
<1>2. approvals = [k \in Key |-> NoRow]
  BY DEF GovInit, MsigInit
<1>3. \A k \in Key : Provided(k) \in [Level -> Nat] /\ Waiting(k) \in [Level -> Nat]
  BY <1>1, <1>2 DEF Provided, Waiting, None, OldApprovalsRow
<1>4. asked \in [Key -> [Level -> Nat]] /\ given \in [Key -> [Level -> Nat]]
  BY <1>3 DEF GovInit
<1>5. word \in [Key -> [Level -> Transaction \cup {NoHash, Silent}]]
  BY DEF GovInit
<1>6. now \in Slot /\ authority \in Authority /\ deferred \subseteq Pending
  BY DeferredAssumption DEF GovInit, DeferredInit, Slot
<1>7. QED
  BY <1>1, <1>2, <1>4, <1>5, <1>6 DEF GovInit, MsigInit, GovTypeOK

LEMMA ScheduleType ==
    ASSUME deferred \subseteq Pending, NEW sender, NEW id, NEW trx \in Transaction,
           now \in Slot,
           \/ sender = "eosio.msig" /\ id \in Key
           \/ sender = "eosio.wrap" /\ id \in Executer \X Slot,
           Schedule(sender, id, trx)
    PROVE  deferred' \subseteq Pending
BY DEF Schedule, Pending

LEMMA EraseType ==
    ASSUME GovTypeOK, NEW k \in Key, EraseApprovals(k)
    PROVE  /\ approvals' \in [Key -> ApprovalsRow \cup {NoRow}]
           /\ old_approvals' \in [Key -> OldApprovalsRow \cup {NoRow}]
BY DEF GovTypeOK, EraseApprovals

(* What approve makes of the row of a proposal, in the present table. *)
LEMMA ApprovedNew ==
    ASSUME GovTypeOK, NEW k \in Key, NEW l \in Level, ApproveNew(k, l)
    PROVE  /\ approvals[k] \in ApprovalsRow /\ approvals'[k] \in ApprovalsRow
           /\ approvals[k].requested[l] > 0
           /\ approvals'[k].requested = [approvals[k].requested EXCEPT ![l] = @ - 1]
           /\ approvals'[k].provided = [approvals[k].provided EXCEPT ![l] = Append(@, now)]
           /\ approvals' \in [Key -> ApprovalsRow \cup {NoRow}]
           /\ old_approvals' = old_approvals
<1> DEFINE row == [requested |-> [approvals[k].requested EXCEPT ![l] = @ - 1],
                   provided  |-> [approvals[k].provided EXCEPT ![l] = Append(@, now)]]
<1>1. approvals \in [Key -> ApprovalsRow \cup {NoRow}]
  BY DEF GovTypeOK
<1>2. approvals[k] \in ApprovalsRow /\ approvals[k].requested[l] > 0
  BY RowFacts DEF ApproveNew
<1>3. approvals' = [approvals EXCEPT ![k] = row]
  BY <1>2 DEF ApproveNew, Less, PushBack
<1>4. row.requested \in [Level -> Nat]
  BY <1>2 DEF ApprovalsRow
<1>5. approvals[k].provided \in [Level -> Seq(Slot)] /\ now \in Slot
  BY <1>2 DEF ApprovalsRow, GovTypeOK
<1>6. Append(approvals[k].provided[l], now) \in Seq(Slot)
  BY <1>2, <1>5
<1>7. row \in ApprovalsRow
  BY <1>4, <1>5, <1>6 DEF ApprovalsRow
<1>8. /\ row.requested = [approvals[k].requested EXCEPT ![l] = @ - 1]
      /\ row.provided = [approvals[k].provided EXCEPT ![l] = Append(@, now)]
  OBVIOUS
<1> HIDE DEF row
<1>9. approvals'[k] = row /\ approvals' \in [Key -> ApprovalsRow \cup {NoRow}]
  BY <1>1, <1>3, <1>7
<1>10. QED
  BY <1>2, <1>7, <1>8, <1>9 DEF ApproveNew

(* In the older version's table. *)
LEMMA ApprovedOld ==
    ASSUME GovTypeOK, NEW k \in Key, NEW l \in Level, ApproveOld(k, l)
    PROVE  /\ old_approvals[k] \in OldApprovalsRow /\ old_approvals'[k] \in OldApprovalsRow
           /\ old_approvals[k].requested[l] > 0
           /\ old_approvals'[k].requested = [old_approvals[k].requested EXCEPT ![l] = @ - 1]
           /\ old_approvals'[k].provided = [old_approvals[k].provided EXCEPT ![l] = @ + 1]
           /\ old_approvals' \in [Key -> OldApprovalsRow \cup {NoRow}]
           /\ approvals[k] = NoRow /\ approvals' = approvals
<1> DEFINE row == [requested |-> [old_approvals[k].requested EXCEPT ![l] = @ - 1],
                   provided  |-> [old_approvals[k].provided EXCEPT ![l] = @ + 1]]
<1>1. old_approvals \in [Key -> OldApprovalsRow \cup {NoRow}]
  BY DEF GovTypeOK
<1>2. old_approvals[k] \in OldApprovalsRow /\ old_approvals[k].requested[l] > 0
  BY RowFacts DEF ApproveOld
<1>3. old_approvals' = [old_approvals EXCEPT ![k] = row]
  BY <1>2 DEF ApproveOld, Less, More
<1>4. row \in OldApprovalsRow
  BY <1>2 DEF OldApprovalsRow
<1>5. /\ row.requested = [old_approvals[k].requested EXCEPT ![l] = @ - 1]
      /\ row.provided = [old_approvals[k].provided EXCEPT ![l] = @ + 1]
  OBVIOUS
<1> HIDE DEF row
<1>6. old_approvals'[k] = row /\ old_approvals' \in [Key -> OldApprovalsRow \cup {NoRow}]
  BY <1>1, <1>3, <1>4
<1>7. QED
  BY <1>2, <1>4, <1>5, <1>6 DEF ApproveOld

(* And what unapprove makes of it. *)
LEMMA UnapprovedNew ==
    ASSUME GovTypeOK, NEW k \in Key, NEW l \in Level, UnapproveNew(k, l)
    PROVE  /\ approvals[k] \in ApprovalsRow /\ approvals'[k] \in ApprovalsRow
           /\ approvals[k].provided[l] # << >>
           /\ approvals'[k].requested = [approvals[k].requested EXCEPT ![l] = @ + 1]
           /\ approvals'[k].provided = [approvals[k].provided EXCEPT ![l] = Tail(@)]
           /\ approvals' \in [Key -> ApprovalsRow \cup {NoRow}]
           /\ old_approvals' = old_approvals
<1> DEFINE row == [requested |-> [approvals[k].requested EXCEPT ![l] = @ + 1],
                   provided  |-> [approvals[k].provided EXCEPT ![l] = Tail(@)]]
<1>1. approvals \in [Key -> ApprovalsRow \cup {NoRow}]
  BY DEF GovTypeOK
<1>2. approvals[k] \in ApprovalsRow /\ approvals[k].provided[l] # << >>
  BY RowFacts DEF UnapproveNew
<1>3. approvals' = [approvals EXCEPT ![k] = row]
  BY <1>2 DEF UnapproveNew, More, EraseFirst
<1>4. row.requested \in [Level -> Nat]
  BY <1>2 DEF ApprovalsRow
<1>5. approvals[k].provided \in [Level -> Seq(Slot)] /\ now \in Slot
  BY <1>2 DEF ApprovalsRow, GovTypeOK
<1>6. Tail(approvals[k].provided[l]) \in Seq(Slot)
  BY <1>2, <1>5
<1>7. row \in ApprovalsRow
  BY <1>4, <1>5, <1>6 DEF ApprovalsRow
<1>8. /\ row.requested = [approvals[k].requested EXCEPT ![l] = @ + 1]
      /\ row.provided = [approvals[k].provided EXCEPT ![l] = Tail(@)]
  OBVIOUS
<1> HIDE DEF row
<1>9. approvals'[k] = row /\ approvals' \in [Key -> ApprovalsRow \cup {NoRow}]
  BY <1>1, <1>3, <1>7
<1>10. QED
  BY <1>2, <1>7, <1>8, <1>9 DEF UnapproveNew

LEMMA UnapprovedOld ==
    ASSUME GovTypeOK, NEW k \in Key, NEW l \in Level, UnapproveOld(k, l)
    PROVE  /\ old_approvals[k] \in OldApprovalsRow /\ old_approvals'[k] \in OldApprovalsRow
           /\ old_approvals[k].provided[l] > 0
           /\ old_approvals'[k].requested = [old_approvals[k].requested EXCEPT ![l] = @ + 1]
           /\ old_approvals'[k].provided = [old_approvals[k].provided EXCEPT ![l] = @ - 1]
           /\ old_approvals' \in [Key -> OldApprovalsRow \cup {NoRow}]
           /\ approvals[k] = NoRow /\ approvals' = approvals
<1> DEFINE row == [requested |-> [old_approvals[k].requested EXCEPT ![l] = @ + 1],
                   provided  |-> [old_approvals[k].provided EXCEPT ![l] = @ - 1]]
<1>1. old_approvals \in [Key -> OldApprovalsRow \cup {NoRow}]
  BY DEF GovTypeOK
<1>2. old_approvals[k] \in OldApprovalsRow /\ old_approvals[k].provided[l] > 0
  BY RowFacts DEF UnapproveOld
<1>3. old_approvals' = [old_approvals EXCEPT ![k] = row]
  BY <1>2 DEF UnapproveOld, Less, More
<1>4. row \in OldApprovalsRow
  BY <1>2 DEF OldApprovalsRow
<1>5. /\ row.requested = [old_approvals[k].requested EXCEPT ![l] = @ + 1]
      /\ row.provided = [old_approvals[k].provided EXCEPT ![l] = @ - 1]
  OBVIOUS
<1> HIDE DEF row
<1>6. old_approvals'[k] = row /\ old_approvals' \in [Key -> OldApprovalsRow \cup {NoRow}]
  BY <1>1, <1>3, <1>4
<1>7. QED
  BY <1>2, <1>4, <1>5, <1>6 DEF UnapproveOld

(* The counts of a key, from whichever table. *)
LEMMA CountTypes ==
    ASSUME GovTypeOK, NEW k \in Key
    PROVE  /\ Provided(k) \in [Level -> Nat]
           /\ Waiting(k) \in [Level -> Nat]
           /\ approvals[k] # NoRow =>
                \A l \in Level : Provided(k)[l] = Len(approvals[k].provided[l])
<1>1. None \in [Level -> Nat]
  BY DEF None
<1>2. approvals[k] # NoRow =>
          \A l \in Level : Len(approvals[k].provided[l]) \in Nat
  BY RowFacts DEF ApprovalsRow
<1>3. old_approvals[k] # NoRow => old_approvals[k].provided \in [Level -> Nat]
  BY RowFacts DEF OldApprovalsRow
<1>4. QED
  BY <1>1, <1>2, <1>3, RowFacts DEF Provided, Waiting, ApprovalsRow, OldApprovalsRow

(***************************************************************************)
(* The rest of the invariant, key by key.                                  *)
(***************************************************************************)
KeyInv(k) ==
    /\ proposals[k] = NoRow => approvals[k] = NoRow /\ old_approvals[k] = NoRow
    /\ proposals[k] # NoRow => (approvals[k] = NoRow <=> old_approvals[k] # NoRow)
    /\ approvals[k] # NoRow =>
          \A l \in Level : \A i \in DOMAIN approvals[k].provided[l] :
              approvals[k].provided[l][i] <= now
    /\ \A l \in Level :
          /\ Provided(k)[l] = given[k][l]
          /\ Waiting(k)[l] + given[k][l] = asked[k][l]
    /\ \A l \in Counted(k) : word[k][l] \in {NoHash, proposals[k]}

InvalidationsArePast == \A a \in Account : invalidations[a] # NoRow => invalidations[a] <= now

GovInv ==
    /\ GovTypeOK
    /\ InvalidationsArePast
    /\ \A k \in Key : KeyInv(k)

(* A level that takes an approval back has given one. *)
LEMMA GivenBefore ==
    ASSUME GovTypeOK, NEW k \in Key, NEW l \in Level, KeyInv(k), Unapprove(k, l)
    PROVE  given[k][l] \in Nat /\ given[k][l] > 0
<1>1. given[k][l] \in Nat /\ given[k][l] = Provided(k)[l]
  BY DEF GovTypeOK, KeyInv
<1>2. CASE UnapproveNew(k, l)
  <2>1. approvals[k].provided[l] \in Seq(Slot) /\ approvals[k].provided[l] # << >>
    BY <1>2, UnapprovedNew DEF ApprovalsRow
  <2>2. Provided(k)[l] = Len(approvals[k].provided[l])
    BY <1>2, CountTypes DEF UnapproveNew
  <2>3. QED
    BY <1>1, <2>1, <2>2
<1>3. CASE UnapproveOld(k, l)
  BY <1>1, <1>3, UnapprovedOld DEF UnapproveOld, Provided
<1>4. QED
  BY <1>2, <1>3 DEF Unapprove

(***************************************************************************)
(* The types: the count of the approvals given stays a natural number only *)
(* because the tables hold as many.                                        *)
(***************************************************************************)
LEMMA ForgottenType ==
    ASSUME GovTypeOK, NEW k \in Key, Forgotten(k)
    PROVE  /\ asked' \in [Key -> [Level -> Nat]]
           /\ given' \in [Key -> [Level -> Nat]]
           /\ word' \in [Key -> [Level -> Transaction \cup {NoHash, Silent}]]
<1>1. None \in [Level -> Nat]
  BY DEF None
<1>2. QED
  BY <1>1 DEF Forgotten, GovTypeOK

LEMMA TypeStep == GovInv /\ [GovNext]_govVars => GovTypeOK'
<1> SUFFICES ASSUME GovInv, [GovNext]_govVars
             PROVE  GovTypeOK'
  OBVIOUS
<1>0. GovTypeOK /\ \A k \in Key : KeyInv(k)
  BY DEF GovInv
<1>1. CASE UNCHANGED govVars
  BY <1>0, <1>1 DEF govVars, msigTables, chainVars, historyVars, GovTypeOK
<1>2. ASSUME NEW k \in Key, Proposing(k)
      PROVE  GovTypeOK'
  <2>1. PICK levels \in Requested : \E trx \in Transaction :
          /\ Propose(k, levels, trx)
          /\ asked' = [asked EXCEPT ![k] = levels]
          /\ UNCHANGED <<given, word>>
    BY <1>2 DEF Proposing
  <2>2. PICK trx \in Transaction :
          /\ Propose(k, levels, trx)
          /\ asked' = [asked EXCEPT ![k] = levels]
          /\ UNCHANGED <<given, word>>
    BY <2>1
  <2>3. levels \in [Level -> Nat]
    BY MultisigAssumption
  <2>4. [l \in Level |-> << >>] \in [Level -> Seq(Slot)]
    OBVIOUS
  <2>5. [requested |-> levels, provided |-> [l \in Level |-> << >>]] \in ApprovalsRow
    BY <2>3, <2>4 DEF ApprovalsRow
  <2>6. QED
    BY <1>0, <2>2, <2>3, <2>5 DEF Propose, GovTypeOK
<1>3. ASSUME NEW k \in Key, Cancelling(k)
      PROVE  GovTypeOK'
  BY <1>0, <1>3, EraseType, ForgottenType DEF Cancelling, Cancel, GovTypeOK
<1>4. ASSUME NEW k \in Key, Executing(k)
      PROVE  GovTypeOK'
  <2>1. deferred' \subseteq Pending
    BY <1>0, <1>4, ScheduleType, RowFacts DEF Executing, Exec, GovTypeOK
  <2>2. QED
    BY <1>0, <1>4, <2>1, EraseType, ForgottenType DEF Executing, Exec, GovTypeOK
<1>5. ASSUME NEW k \in Key, NEW l \in Level, Approving(k, l)
      PROVE  GovTypeOK'
  <2>1. PICK hash \in Transaction \cup {NoHash} :
          /\ Approve(k, l, hash)
          /\ Says(k, l, hash)
          /\ given' = [given EXCEPT ![k][l] = @ + 1]
          /\ UNCHANGED asked
    BY <1>5 DEF Approving
  <2>2. /\ approvals' \in [Key -> ApprovalsRow \cup {NoRow}]
        /\ old_approvals' \in [Key -> OldApprovalsRow \cup {NoRow}]
    BY <1>0, <2>1, ApprovedNew, ApprovedOld DEF Approve, GovTypeOK
  <2>3. given' \in [Key -> [Level -> Nat]]
    BY <1>0, <2>1 DEF GovTypeOK
  <2>4. word' \in [Key -> [Level -> Transaction \cup {NoHash, Silent}]]
    BY <1>0, <2>1 DEF Says, GovTypeOK
  <2>5. QED
    BY <1>0, <2>1, <2>2, <2>3, <2>4 DEF Approve, GovTypeOK
<1>6. ASSUME NEW k \in Key, NEW l \in Level, Unapproving(k, l)
      PROVE  GovTypeOK'
  <2>1. /\ Unapprove(k, l)
        /\ given' = [given EXCEPT ![k][l] = @ - 1]
        /\ Says(k, l, Silent) \/ UNCHANGED word
        /\ UNCHANGED asked
    BY <1>6 DEF Unapproving
  <2>2. /\ approvals' \in [Key -> ApprovalsRow \cup {NoRow}]
        /\ old_approvals' \in [Key -> OldApprovalsRow \cup {NoRow}]
    BY <1>0, <2>1, UnapprovedNew, UnapprovedOld DEF Unapprove, GovTypeOK
  <2>3. given[k][l] - 1 \in Nat
    BY <1>0, <2>1, GivenBefore
  <2>4. given' \in [Key -> [Level -> Nat]]
    BY <1>0, <2>1, <2>3 DEF GovTypeOK
  <2>5. word' \in [Key -> [Level -> Transaction \cup {NoHash, Silent}]]
    <3>1. word \in [Key -> [Level -> Transaction \cup {NoHash, Silent}]]
      BY <1>0 DEF GovTypeOK
    <3>2. QED
      BY <2>1, <3>1 DEF Says
  <2>6. QED
    BY <1>0, <2>1, <2>2, <2>4, <2>5 DEF Unapprove, GovTypeOK
<1>7. ASSUME NEW a \in Account, Invalidating(a)
      PROVE  GovTypeOK'
  BY <1>0, <1>7 DEF Invalidating, Invalidate, GovTypeOK
<1>8. CASE Wrapping
  <2>1. PICK e \in Executer : \E trx \in WrapTransaction : WrapExec(e, trx)
    BY <1>8 DEF Wrapping
  <2>2. PICK trx \in WrapTransaction : WrapExec(e, trx)
    BY <2>1
  <2>3. deferred' \subseteq Pending
    BY <1>0, <2>2, ScheduleType, GovernanceAssumption DEF WrapExec, WrapId, GovTypeOK
  <2>4. QED
    BY <1>0, <1>8, <2>2, <2>3 DEF Wrapping, WrapExec, msigTables, historyVars, GovTypeOK
<1>9. CASE Nodeos
  <2>1. now' \in Slot /\ authority' \in Authority /\ deferred' \subseteq Pending
    BY <1>0, <1>9, DeferredAssumption
       DEF Nodeos, NewBlock, UpdateAuth, Leave, Slot, GovTypeOK
  <2>2. QED
    BY <1>0, <1>9, <2>1 DEF Nodeos, msigTables, historyVars, GovTypeOK
<1>10. QED
  BY <1>1, <1>2, <1>3, <1>4, <1>5, <1>6, <1>7, <1>8, <1>9 DEF GovNext

(* A key whose rows a step leaves alone. *)
LEMMA SameRows ==
    ASSUME NEW k \in Key, KeyInv(k),
           proposals'[k] = proposals[k], approvals'[k] = approvals[k],
           old_approvals'[k] = old_approvals[k],
           asked'[k] = asked[k], given'[k] = given[k], word'[k] = word[k],
           invalidations' = invalidations, now' = now
    PROVE  KeyInv(k)'
<1>1. Provided(k)' = Provided(k) /\ Waiting(k)' = Waiting(k)
  BY DEF Provided, Waiting
<1>2. Counted(k)' = Counted(k)
  BY DEF Counted, StandsAt
<1>3. QED
  BY <1>1, <1>2 DEF KeyInv

(* What an action on one proposal leaves alone. *)
LEMMA OthersSame ==
    ASSUME GovTypeOK, NEW k \in Key, NEW j \in Key, j # k,
           \/ Proposing(k) \/ Cancelling(k) \/ Executing(k)
           \/ \E l \in Level : Approving(k, l) \/ Unapproving(k, l)
    PROVE  /\ proposals'[j] = proposals[j]
           /\ approvals'[j] = approvals[j]
           /\ old_approvals'[j] = old_approvals[j]
           /\ asked'[j] = asked[j]
           /\ given'[j] = given[j]
           /\ word'[j] = word[j]
           /\ invalidations' = invalidations
           /\ now' = now
<1>1. CASE Proposing(k)
  BY <1>1 DEF Proposing, Propose, GovTypeOK
<1>2. CASE Cancelling(k)
  BY <1>2 DEF Cancelling, Cancel, EraseApprovals, Forgotten, GovTypeOK
<1>3. CASE Executing(k)
  BY <1>3 DEF Executing, Exec, EraseApprovals, Forgotten, GovTypeOK
<1>4. ASSUME NEW l \in Level, Approving(k, l)
      PROVE  /\ proposals'[j] = proposals[j]
             /\ approvals'[j] = approvals[j]
             /\ old_approvals'[j] = old_approvals[j]
             /\ asked'[j] = asked[j]
           /\ given'[j] = given[j]
             /\ word'[j] = word[j]
             /\ invalidations' = invalidations
             /\ now' = now
  BY <1>4 DEF Approving, Approve, ApproveNew, ApproveOld, Says, GovTypeOK
<1>5. ASSUME NEW l \in Level, Unapproving(k, l)
      PROVE  /\ proposals'[j] = proposals[j]
             /\ approvals'[j] = approvals[j]
             /\ old_approvals'[j] = old_approvals[j]
             /\ asked'[j] = asked[j]
           /\ given'[j] = given[j]
             /\ word'[j] = word[j]
             /\ invalidations' = invalidations
             /\ now' = now
  BY <1>5 DEF Unapproving, Unapprove, UnapproveNew, UnapproveOld, Says, GovTypeOK
<1>6. QED
  BY <1>1, <1>2, <1>3, <1>4, <1>5

(* propose: a new row, all of it waited for and nothing counted. *)
LEMMA ProposeKey ==
    ASSUME GovTypeOK, NEW k \in Key, KeyInv(k), Proposing(k)
    PROVE  KeyInv(k)'
<1>1. PICK levels \in Requested : \E trx \in Transaction :
          /\ Propose(k, levels, trx)
          /\ asked' = [asked EXCEPT ![k] = levels]
          /\ UNCHANGED <<given, word>>
  BY DEF Proposing
<1>2. PICK trx \in Transaction :
          /\ Propose(k, levels, trx)
          /\ asked' = [asked EXCEPT ![k] = levels]
          /\ UNCHANGED <<given, word>>
  BY <1>1
<1>3. /\ proposals'[k] = trx
      /\ approvals'[k] = [requested |-> levels, provided |-> [l \in Level |-> << >>]]
      /\ old_approvals'[k] = old_approvals[k]
      /\ asked'[k] = levels
      /\ given' = given
  BY <1>2 DEF Propose, GovTypeOK
<1>4. levels \in [Level -> Nat]
  BY MultisigAssumption
<1>5. [l \in Level |-> << >>] \in [Level -> Seq(Slot)]
  OBVIOUS
<1>6. approvals'[k] # NoRow /\ proposals'[k] # NoRow
  BY <1>3, <1>4, <1>5, RowFacts DEF ApprovalsRow
<1>7. proposals[k] = NoRow /\ approvals[k] = NoRow /\ old_approvals[k] = NoRow
  BY <1>2 DEF KeyInv, Propose
<1>8. \A l \in Level : given'[k][l] = 0
  BY <1>3, <1>7 DEF KeyInv, Provided, None
<1>9. /\ approvals'[k].requested = levels
      /\ \A l \in Level : approvals'[k].provided[l] = << >>
  BY <1>3
<1>10. /\ Waiting(k)' = levels
       /\ \A l \in Level : Provided(k)'[l] = 0
       /\ Counted(k)' = {}
  BY <1>6, <1>9 DEF Waiting, Provided, Counted
<1>11. \A l \in Level : Waiting(k)'[l] + given'[k][l] = asked'[k][l]
  BY <1>3, <1>4, <1>8, <1>10
<1>12. QED
  BY <1>3, <1>6, <1>7, <1>8, <1>9, <1>10, <1>11 DEF KeyInv

(* cancel and exec: no row is left. *)
LEMMA CloseKey ==
    ASSUME GovTypeOK, NEW k \in Key, KeyInv(k), Cancelling(k) \/ Executing(k)
    PROVE  KeyInv(k)'
<1>1. /\ proposals'[k] = NoRow
      /\ proposals[k] # NoRow
      /\ EraseApprovals(k)
      /\ Forgotten(k)
  BY DEF Cancelling, Cancel, Executing, Exec, GovTypeOK
<1>2. approvals'[k] = NoRow /\ old_approvals'[k] = NoRow
  BY <1>1 DEF EraseApprovals, KeyInv, GovTypeOK
<1>3. asked'[k] = None /\ given'[k] = None
  BY <1>1 DEF Forgotten, GovTypeOK
<1>4. Waiting(k)' = None /\ Provided(k)' = None /\ Counted(k)' = {}
  BY <1>2 DEF Waiting, Provided, Counted, None
<1>5. \A l \in Level : None[l] = 0
  BY DEF None
<1>6. QED
  BY <1>1, <1>2, <1>3, <1>4, <1>5 DEF KeyInv

(* approve: one of the times a level is asked becomes an approval. *)
LEMMA ApproveKey ==
    ASSUME GovTypeOK, NEW k \in Key, NEW l \in Level, KeyInv(k), Approving(k, l)
    PROVE  KeyInv(k)'
<1>1. PICK hash \in Transaction \cup {NoHash} :
          /\ Approve(k, l, hash)
          /\ Says(k, l, hash)
          /\ given' = [given EXCEPT ![k][l] = @ + 1]
          /\ UNCHANGED asked
  BY DEF Approving
<1>2. /\ proposals' = proposals
      /\ asked' = asked
      /\ invalidations' = invalidations
      /\ now' = now
      /\ hash \in {NoHash, proposals[k]}
      /\ word'[k][l] = hash
      /\ \A m \in Level : m # l => word'[k][m] = word[k][m]
  BY <1>1 DEF Approve, Says, GovTypeOK
<1>3. \A m \in Level : given'[k][m] = IF m = l THEN given[k][m] + 1 ELSE given[k][m]
  BY <1>1 DEF GovTypeOK
<1>4. given[k] \in [Level -> Nat] /\ asked[k] \in [Level -> Nat]
  BY DEF GovTypeOK
<1>5. Provided(k) \in [Level -> Nat] /\ Waiting(k) \in [Level -> Nat]
  BY CountTypes
<1>6. SUFFICES
        /\ approvals[k] = NoRow <=> approvals'[k] = NoRow
        /\ old_approvals[k] = NoRow <=> old_approvals'[k] = NoRow
        /\ approvals'[k] # NoRow =>
              \A m \in Level : \A i \in DOMAIN approvals'[k].provided[m] :
                  approvals'[k].provided[m][i] <= now
        /\ \A m \in Level :
              /\ Provided(k)'[m] = IF m = l THEN Provided(k)[m] + 1 ELSE Provided(k)[m]
              /\ Waiting(k)'[m] = IF m = l THEN Waiting(k)[m] - 1 ELSE Waiting(k)[m]
        /\ Counted(k)' \subseteq Counted(k) \cup {l}
  <2>1. \A m \in Level : /\ Provided(k)'[m] = given'[k][m]
                         /\ Waiting(k)'[m] + given'[k][m] = asked'[k][m]
    BY <1>2, <1>3, <1>4, <1>5, <1>6 DEF KeyInv
  <2>2. Counted(k) \subseteq Level
    BY DEF Counted
  <2>3. \A m \in Counted(k)' : word'[k][m] \in {NoHash, proposals'[k]}
    BY <1>2, <1>6, <2>2 DEF KeyInv
  <2>4. QED
    BY <1>2, <1>6, <2>1, <2>3 DEF KeyInv
<1>7. CASE ApproveNew(k, l)
  <2> DEFINE old == approvals[k].provided
             new == approvals'[k].provided
  <2>1. /\ approvals[k] # NoRow
        /\ approvals'[k] # NoRow
        /\ old_approvals' = old_approvals
        /\ old \in [Level -> Seq(Slot)]
        /\ new = [old EXCEPT ![l] = Append(@, now)]
        /\ approvals'[k].requested = [approvals[k].requested EXCEPT ![l] = @ - 1]
        /\ approvals[k].requested \in [Level -> Nat]
    BY <1>7, ApprovedNew, RowFacts DEF ApproveNew, ApprovalsRow
  <2>2. now \in Slot
    BY DEF GovTypeOK
  <2>3. \A m \in Level : \A i \in DOMAIN old[m] : old[m][i] <= now
    BY <2>1 DEF KeyInv
  <2>4. /\ \A m \in Level : Provided(k)[m] = Len(old[m])
        /\ \A m \in Level : Provided(k)'[m] = Len(new[m])
    BY <2>1 DEF Provided
  <2>5. Waiting(k) = approvals[k].requested /\ Waiting(k)' = approvals'[k].requested
    BY <2>1 DEF Waiting
  <2>6. /\ Counted(k) = {m \in Level : \E i \in DOMAIN old[m] : StandsAt(m, old[m][i])}
        /\ Counted(k)' = {m \in Level : \E i \in DOMAIN new[m] : StandsAt(m, new[m][i])}
    BY <1>2, <2>1 DEF Counted, StandsAt
  <2> HIDE DEF old, new
  <2>8. /\ Len(new[l]) = Len(old[l]) + 1
        /\ \A i \in DOMAIN new[l] : new[l][i] \in Slot /\ new[l][i] <= now
    <3>1. new[l] = Append(old[l], now) /\ old[l] \in Seq(Slot)
      BY <2>1
    <3>2. \A i \in DOMAIN new[l] : i \in DOMAIN old[l] \/ new[l][i] = now
      BY <2>2, <3>1
    <3>3. \A i \in DOMAIN old[l] : new[l][i] = old[l][i] /\ old[l][i] \in Slot
      BY <2>2, <3>1
    <3>4. now <= now
      BY <2>2 DEF Slot
    <3>5. QED
      BY <2>2, <2>3, <3>1, <3>2, <3>3, <3>4
  <2>9. \A m \in Level : m # l => new[m] = old[m]
    BY <2>1
  <2>10. Counted(k)' \subseteq Counted(k) \cup {l}
    BY <2>6, <2>9
  <2>11. \A m \in Level : \A i \in DOMAIN new[m] : new[m][i] <= now
    BY <2>3, <2>8, <2>9
  <2>12. QED
    BY <2>1, <2>4, <2>5, <2>8, <2>9, <2>10, <2>11 DEF new
<1>8. CASE ApproveOld(k, l)
  <2>1. /\ approvals[k] = NoRow
        /\ approvals' = approvals
        /\ old_approvals[k] # NoRow
        /\ old_approvals'[k] # NoRow
        /\ old_approvals[k] \in OldApprovalsRow
        /\ old_approvals'[k].requested = [old_approvals[k].requested EXCEPT ![l] = @ - 1]
        /\ old_approvals'[k].provided = [old_approvals[k].provided EXCEPT ![l] = @ + 1]
    BY <1>8, ApprovedOld, RowFacts DEF ApproveOld
  <2>2. /\ old_approvals[k].requested \in [Level -> Nat]
        /\ old_approvals[k].provided \in [Level -> Nat]
    BY <2>1 DEF OldApprovalsRow
  <2>3. /\ Provided(k) = old_approvals[k].provided /\ Provided(k)' = old_approvals'[k].provided
        /\ Waiting(k) = old_approvals[k].requested /\ Waiting(k)' = old_approvals'[k].requested
    BY <2>1 DEF Provided, Waiting
  <2>4. Counted(k)' \subseteq Counted(k) \cup {l}
    BY <1>2, <2>1, <2>2 DEF Counted
  <2>5. QED
    BY <2>1, <2>2, <2>3, <2>4
<1>9. QED
  BY <1>1, <1>7, <1>8 DEF Approve

(* unapprove: the oldest approval of a level goes, and it is asked again. *)
LEMMA UnapproveKey ==
    ASSUME GovTypeOK, NEW k \in Key, NEW l \in Level, KeyInv(k), Unapproving(k, l)
    PROVE  KeyInv(k)'
<1>1. /\ proposals' = proposals
      /\ asked' = asked
      /\ invalidations' = invalidations
      /\ now' = now
      /\ Unapprove(k, l)
      /\ given' = [given EXCEPT ![k][l] = @ - 1]
      /\ given'[k][l] # 0 => word' = word
      /\ \A m \in Level : m # l => word'[k][m] = word[k][m]
  BY DEF Unapproving, Unapprove, Says, GovTypeOK
<1>2. given[k] \in [Level -> Nat] /\ asked[k] \in [Level -> Nat] /\ given[k][l] > 0
  BY <1>1, GivenBefore DEF GovTypeOK
<1>3. \A m \in Level : given'[k][m] = IF m = l THEN given[k][m] - 1 ELSE given[k][m]
  BY <1>1 DEF GovTypeOK
<1>4. Provided(k) \in [Level -> Nat] /\ Waiting(k) \in [Level -> Nat]
  BY CountTypes
<1>5. SUFFICES
        /\ approvals[k] = NoRow <=> approvals'[k] = NoRow
        /\ old_approvals[k] = NoRow <=> old_approvals'[k] = NoRow
        /\ approvals'[k] # NoRow =>
              \A m \in Level : \A i \in DOMAIN approvals'[k].provided[m] :
                  approvals'[k].provided[m][i] <= now
        /\ \A m \in Level :
              /\ Provided(k)'[m] = IF m = l THEN Provided(k)[m] - 1 ELSE Provided(k)[m]
              /\ Waiting(k)'[m] = IF m = l THEN Waiting(k)[m] + 1 ELSE Waiting(k)[m]
        /\ Counted(k)' \subseteq Counted(k)
        /\ Provided(k)'[l] = 0 => l \notin Counted(k)'
  <2>1. \A m \in Level : /\ Provided(k)'[m] = given'[k][m]
                         /\ Waiting(k)'[m] + given'[k][m] = asked'[k][m]
    <3>1. SUFFICES ASSUME NEW m \in Level
                   PROVE  /\ Provided(k)'[m] = given'[k][m]
                          /\ Waiting(k)'[m] + given'[k][m] = asked'[k][m]
      OBVIOUS
    <3>2. /\ Provided(k)[m] = given[k][m]
          /\ Waiting(k)[m] + given[k][m] = asked[k][m]
      BY DEF KeyInv
    <3>3. /\ given[k][m] \in Nat /\ asked[k][m] \in Nat /\ Waiting(k)[m] \in Nat
      BY <1>2, <1>4
    <3>4. QED
      BY <1>1, <1>3, <1>5, <3>2, <3>3
  <2>2. Counted(k) \subseteq Level
    BY DEF Counted
  <2>3. \A m \in Counted(k)' : word'[k][m] = word[k][m]
    BY <1>1, <1>5, <2>1, <2>2
  <2>4. \A m \in Counted(k)' : word'[k][m] \in {NoHash, proposals'[k]}
    BY <1>1, <1>5, <2>3 DEF KeyInv
  <2>5. QED
    BY <1>1, <1>5, <2>1, <2>4 DEF KeyInv
<1>6. CASE UnapproveNew(k, l)
  <2> DEFINE old == approvals[k].provided
             new == approvals'[k].provided
  <2>1. /\ approvals[k] # NoRow
        /\ approvals'[k] # NoRow
        /\ old_approvals' = old_approvals
        /\ old \in [Level -> Seq(Slot)]
        /\ old[l] # << >>
        /\ new = [old EXCEPT ![l] = Tail(@)]
        /\ approvals'[k].requested = [approvals[k].requested EXCEPT ![l] = @ + 1]
        /\ approvals[k].requested \in [Level -> Nat]
    BY <1>6, UnapprovedNew, RowFacts DEF UnapproveNew, ApprovalsRow
  <2>2. \A m \in Level : \A i \in DOMAIN old[m] : old[m][i] <= now
    BY <2>1 DEF KeyInv
  <2>3. /\ \A m \in Level : Provided(k)[m] = Len(old[m])
        /\ \A m \in Level : Provided(k)'[m] = Len(new[m])
    BY <2>1 DEF Provided
  <2>4. Waiting(k) = approvals[k].requested /\ Waiting(k)' = approvals'[k].requested
    BY <2>1 DEF Waiting
  <2>5. /\ Counted(k) = {m \in Level : \E i \in DOMAIN old[m] : StandsAt(m, old[m][i])}
        /\ Counted(k)' = {m \in Level : \E i \in DOMAIN new[m] : StandsAt(m, new[m][i])}
    BY <1>1, <2>1 DEF Counted, StandsAt
  <2> HIDE DEF old, new
  <2>7. /\ new[l] = Tail(old[l]) /\ old[l] \in Seq(Slot)
        /\ \A m \in Level : m # l => new[m] = old[m]
    BY <2>1
  <2>8. /\ Len(new[l]) = Len(old[l]) - 1
        /\ \A i \in DOMAIN new[l] : /\ i + 1 \in DOMAIN old[l]
                                    /\ new[l][i] = old[l][i + 1]
                                    /\ new[l][i] \in Slot
    BY <2>1, <2>7
  <2>9. \A m \in Level : \A i \in DOMAIN new[m] :
            \E j \in DOMAIN old[m] : new[m][i] = old[m][j] /\ new[m][i] \in Slot
    BY <2>1, <2>7, <2>8
  <2>10. Counted(k)' \subseteq Counted(k)
    BY <2>5, <2>9
  <2>11. \A m \in Level : \A i \in DOMAIN new[m] : new[m][i] <= now
    BY <2>2, <2>9
  <2>12. Len(new[l]) = 0 => l \notin Counted(k)'
    <3>1. new[l] \in Seq(Slot)
      BY <2>1, <2>7
    <3>2. Len(new[l]) = 0 => DOMAIN new[l] = {}
      BY <3>1
    <3>3. QED
      BY <2>5, <3>2
  <2>13. QED
    BY <2>1, <2>3, <2>4, <2>7, <2>8, <2>10, <2>11, <2>12 DEF new
<1>7. CASE UnapproveOld(k, l)
  <2>1. /\ approvals[k] = NoRow
        /\ approvals' = approvals
        /\ old_approvals[k] # NoRow
        /\ old_approvals'[k] # NoRow
        /\ old_approvals[k] \in OldApprovalsRow
        /\ old_approvals[k].provided[l] > 0
        /\ old_approvals'[k].requested = [old_approvals[k].requested EXCEPT ![l] = @ + 1]
        /\ old_approvals'[k].provided = [old_approvals[k].provided EXCEPT ![l] = @ - 1]
    BY <1>7, UnapprovedOld, RowFacts DEF UnapproveOld
  <2>2. /\ old_approvals[k].requested \in [Level -> Nat]
        /\ old_approvals[k].provided \in [Level -> Nat]
    BY <2>1 DEF OldApprovalsRow
  <2>3. /\ Provided(k) = old_approvals[k].provided /\ Provided(k)' = old_approvals'[k].provided
        /\ Waiting(k) = old_approvals[k].requested /\ Waiting(k)' = old_approvals'[k].requested
    BY <2>1 DEF Provided, Waiting
  <2>4. /\ Counted(k)' \subseteq Counted(k)
        /\ old_approvals'[k].provided[l] = 0 => l \notin Counted(k)'
    BY <1>1, <2>1, <2>2 DEF Counted
  <2>5. QED
    BY <2>1, <2>2, <2>3, <2>4
<1>8. QED
  BY <1>1, <1>6, <1>7 DEF Unapprove

(* invalidate: no approval of the account is later than now. *)
LEMMA InvalidateKey ==
    ASSUME GovTypeOK, NEW k \in Key, NEW a \in Account, KeyInv(k), Invalidating(a)
    PROVE  KeyInv(k)'
<1>1. /\ proposals' = proposals
      /\ approvals' = approvals
      /\ old_approvals' = old_approvals
      /\ asked' = asked
      /\ given' = given
      /\ now' = now
      /\ invalidations'[a] = now
      /\ \A b \in Account : b # a => invalidations'[b] = invalidations[b]
      /\ \A l \in Level : ActorOf[l] # a => word'[k][l] = word[k][l]
  BY DEF Invalidating, Invalidate, GovTypeOK
<1>2. now \in Slot /\ now # NoRow
  BY DeferredAssumption, MultisigAssumption DEF GovTypeOK, Slot
<1>3. Provided(k)' = Provided(k) /\ Waiting(k)' = Waiting(k)
  BY <1>1 DEF Provided, Waiting
<1>4. \A l \in Level : ActorOf[l] \in Account
  BY MultisigAssumption
<1>5. \A l \in Counted(k)' : l \in Counted(k) /\ ActorOf[l] # a
  <2>1. CASE approvals[k] # NoRow
    <3>1. SUFFICES ASSUME NEW l \in Level, NEW i \in DOMAIN approvals[k].provided[l],
                          StandsAt(l, approvals[k].provided[l][i])'
                   PROVE  StandsAt(l, approvals[k].provided[l][i]) /\ ActorOf[l] # a
      BY <1>1, <2>1 DEF Counted
    <3> DEFINE t == approvals[k].provided[l][i]
    <3>2. t \in Slot /\ t <= now
      BY <2>1, RowFacts DEF ApprovalsRow, KeyInv
    <3>3. StandsAt(l, t)' <=> (invalidations'[ActorOf[l]] = NoRow \/ invalidations'[ActorOf[l]] < t)
      BY <1>1 DEF StandsAt
    <3> HIDE DEF t
    <3>4. ActorOf[l] # a
      BY <1>1, <1>2, <3>1, <3>2, <3>3 DEF Slot, t
    <3>5. QED
      BY <1>1, <1>4, <3>1, <3>3, <3>4 DEF StandsAt, t
  <2>2. CASE approvals[k] = NoRow /\ old_approvals[k] # NoRow
    BY <1>1, <1>2, <1>4, <2>2 DEF Counted
  <2>3. CASE approvals[k] = NoRow /\ old_approvals[k] = NoRow
    BY <1>1, <2>3 DEF Counted
  <2>4. QED
    BY <2>1, <2>2, <2>3
<1>6. Counted(k) \subseteq Level
  BY DEF Counted
<1>7. \A l \in Counted(k)' : word'[k][l] \in {NoHash, proposals'[k]}
  BY <1>1, <1>5, <1>6 DEF KeyInv
<1>8. QED
  BY <1>1, <1>3, <1>7 DEF KeyInv

(* Blocks, authorities, the queue and eosio.wrap. *)
LEMMA OutsideKey ==
    ASSUME GovTypeOK, NEW k \in Key, KeyInv(k), Wrapping \/ Nodeos
    PROVE  KeyInv(k)'
<1>1. UNCHANGED <<proposals, approvals, old_approvals, invalidations, asked, given, word>>
  BY DEF Wrapping, Nodeos, msigTables, historyVars
<1>2. now' = now \/ now' = now + 1
  BY DEF Wrapping, WrapExec, Nodeos, NewBlock, UpdateAuth, Leave
<1>3. Provided(k)' = Provided(k) /\ Waiting(k)' = Waiting(k) /\ Counted(k)' = Counted(k)
  BY <1>1 DEF Provided, Waiting, Counted, StandsAt
<1>4. ASSUME approvals[k] # NoRow, NEW l \in Level, NEW i \in DOMAIN approvals[k].provided[l]
      PROVE  approvals[k].provided[l][i] <= now'
  <2> DEFINE t == approvals[k].provided[l][i]
  <2>1. t \in Slot /\ t <= now /\ now \in Slot
    BY <1>4, RowFacts DEF ApprovalsRow, KeyInv, GovTypeOK
  <2> HIDE DEF t
  <2>2. t <= now'
    BY <1>2, <2>1 DEF Slot
  <2>3. QED
    BY <2>2 DEF t
<1>5. QED
  BY <1>1, <1>3, <1>4 DEF KeyInv

LEMMA InvInit == GovInit => GovInv
<1> SUFFICES ASSUME GovInit
             PROVE  GovInv
  OBVIOUS
<1>1. GovTypeOK
  BY TypeInit
<1>2. InvalidationsArePast
  BY DEF GovInit, MsigInit, InvalidationsArePast
<1>3. ASSUME NEW k \in Key
      PROVE  KeyInv(k)
  <2>1. /\ approvals[k] = NoRow
        /\ proposals[k] = NoRow <=> old_approvals[k] = NoRow
        /\ given[k] = Provided(k)
        /\ \A l \in Level : asked[k][l] = Provided(k)[l] + Waiting(k)[l]
        /\ \A l \in Level : Provided(k)[l] > 0 => word[k][l] = NoHash
    BY DEF GovInit, MsigInit
  <2>2. \A l \in Counted(k) : l \in Level /\ Provided(k)[l] > 0
    BY <2>1 DEF Counted, Provided
  <2>3. \A l \in Level : Waiting(k)[l] + given[k][l] = asked[k][l]
    BY <1>1, <2>1, CountTypes
  <2>4. QED
    BY <2>1, <2>2, <2>3 DEF KeyInv
<1>4. QED
  BY <1>1, <1>2, <1>3 DEF GovInv

LEMMA InvStep == GovInv /\ [GovNext]_govVars => GovInv'
<1> SUFFICES ASSUME GovInv, [GovNext]_govVars
             PROVE  GovInv'
  OBVIOUS
<1>1. GovTypeOK /\ InvalidationsArePast /\ \A k \in Key : KeyInv(k)
  BY DEF GovInv
<1>2. GovTypeOK'
  BY TypeStep
<1>3. CASE UNCHANGED govVars
  <2>1. UNCHANGED <<proposals, approvals, old_approvals, invalidations, now, asked, given, word>>
    BY <1>3 DEF govVars, msigTables, chainVars, historyVars
  <2>2. \A k \in Key : KeyInv(k)'
    BY <1>1, <2>1, SameRows
  <2>3. InvalidationsArePast'
    BY <1>1, <2>1 DEF InvalidationsArePast
  <2>4. QED
    BY <1>2, <2>2, <2>3 DEF GovInv
<1>4. ASSUME NEW k \in Key,
             \/ Proposing(k) \/ Cancelling(k) \/ Executing(k)
             \/ \E l \in Level : Approving(k, l) \/ Unapproving(k, l)
      PROVE  GovInv'
  <2>1. KeyInv(k)'
    BY <1>1, <1>4, ProposeKey, CloseKey, ApproveKey, UnapproveKey
  <2>2. \A j \in Key : j # k => KeyInv(j)'
    BY <1>1, <1>4, OthersSame, SameRows
  <2>3. invalidations' = invalidations /\ now' = now
    <3>1. CASE Proposing(k)
      BY <3>1 DEF Proposing, Propose
    <3>2. CASE Cancelling(k)
      BY <3>2 DEF Cancelling, Cancel
    <3>3. CASE Executing(k)
      BY <3>3 DEF Executing, Exec
    <3>4. CASE \E l \in Level : Approving(k, l) \/ Unapproving(k, l)
      BY <3>4 DEF Approving, Approve, Unapproving, Unapprove
    <3>5. QED
      BY <1>4, <3>1, <3>2, <3>3, <3>4
  <2>4. InvalidationsArePast'
    BY <1>1, <2>3 DEF InvalidationsArePast
  <2>5. QED
    BY <1>2, <2>1, <2>2, <2>4 DEF GovInv
<1>5. ASSUME NEW a \in Account, Invalidating(a)
      PROVE  GovInv'
  <2>1. InvalidationsArePast'
    BY <1>1, <1>5 DEF InvalidationsArePast, Invalidating, Invalidate, GovTypeOK, Slot
  <2>2. QED
    BY <1>1, <1>2, <1>5, <2>1, InvalidateKey DEF GovInv
<1>6. CASE Wrapping \/ Nodeos
  <2>1. invalidations' = invalidations /\ (now' = now \/ now' = now + 1)
    BY <1>6 DEF Wrapping, WrapExec, Nodeos, NewBlock, UpdateAuth, Leave, msigTables
  <2>2. now \in Int /\ \A a \in Account : invalidations[a] # NoRow => invalidations[a] \in Int
    BY <1>1 DEF GovTypeOK, Slot
  <2>3. InvalidationsArePast'
    BY <1>1, <2>1, <2>2 DEF InvalidationsArePast
  <2>4. QED
    BY <1>1, <1>2, <1>6, <2>3, OutsideKey DEF GovInv
<1>7. QED
  BY <1>3, <1>4, <1>5, <1>6 DEF GovNext

(***************************************************************************)
(* The tables of eosio.msig, the queue and the history keep to their types *)
(* whatever is proposed, approved, executed, invalidated and wrapped.      *)
(***************************************************************************)
THEOREM GovTypesHold == GovSpec => []GovTypeOK
<1>1. GovInv => GovTypeOK
  BY DEF GovInv
<1>2. QED
  BY <1>1, InvInit, InvStep, PTL DEF GovSpec

(* The proposal of a name and its approvals come and go together. *)
THEOREM RowsStayInStep == GovSpec => []RowsInStep
<1>1. GovInv => RowsInStep
  BY DEF GovInv, KeyInv, RowsInStep
<1>2. QED
  BY <1>1, InvInit, InvStep, PTL DEF GovSpec

(***************************************************************************)
(* A level has the approvals it gave and did not take back, and may give   *)
(* as many more as the list names it, in either version of the table.      *)
(***************************************************************************)
THEOREM LevelsAreAskedAsListed == GovSpec => []EachAskedAsListed
<1>1. GovInv => EachAskedAsListed
  BY DEF GovInv, KeyInv, EachAskedAsListed
<1>2. QED
  BY <1>1, InvInit, InvStep, PTL DEF GovSpec

(***************************************************************************)
(* Every approval exec would count is the last word of its level on that   *)
(* very proposal, for any number of blocks and any order within one.       *)
(***************************************************************************)
THEOREM OnlyLastWordsCount == GovSpec => []CountedStandByIt
<1>1. GovInv => CountedStandByIt
  BY DEF GovInv, KeyInv, CountedStandByIt
<1>2. QED
  BY <1>1, InvInit, InvStep, PTL DEF GovSpec

(***************************************************************************)
(* The queue: an identifier is pending once, and those of eosio.wrap carry *)
(* the block they were made in.                                            *)
(***************************************************************************)
QueueInv ==
    /\ deferred \subseteq Pending
    /\ \A d, e \in deferred : d.sender = e.sender /\ d.id = e.id => d = e
    /\ \A d \in deferred : d.sender = "eosio.wrap" => d.id[2] = d.published

LEMMA ScheduleQueue ==
    ASSUME QueueInv, deferred' \subseteq Pending, NEW sender, NEW id, NEW trx,
           Schedule(sender, id, trx),
           sender = "eosio.wrap" => id[2] = now
    PROVE  QueueInv'
<1> DEFINE new == [sender |-> sender, id |-> id, trx |-> trx, published |-> now]
<1>1. /\ deferred' = deferred \cup {new}
      /\ \A d \in deferred : d.sender # new.sender \/ d.id # new.id
  BY DEF Schedule
<1>2. new.sender = "eosio.wrap" => new.id[2] = new.published
  OBVIOUS
<1> HIDE DEF new
<1>3. QED
  BY <1>1, <1>2 DEF QueueInv

LEMMA QueueStep == GovTypeOK /\ GovTypeOK' /\ QueueInv /\ [GovNext]_govVars => QueueInv'
<1> SUFFICES ASSUME GovTypeOK, GovTypeOK', QueueInv, [GovNext]_govVars
             PROVE  QueueInv'
  OBVIOUS
<1>1. deferred' \subseteq Pending
  BY DEF GovTypeOK
<1>2. CASE deferred' = deferred
  BY <1>2 DEF QueueInv
<1>3. ASSUME NEW d \in deferred, deferred' = deferred \ {d}
      PROVE  QueueInv'
  BY <1>3 DEF QueueInv
<1>4. ASSUME NEW k \in Key, Executing(k)
      PROVE  QueueInv'
  BY <1>1, <1>4, ScheduleQueue DEF Executing, Exec
<1>5. CASE Wrapping
  <2>1. PICK e \in Executer : \E trx \in WrapTransaction : WrapExec(e, trx)
    BY <1>5 DEF Wrapping
  <2>2. PICK trx \in WrapTransaction : Schedule("eosio.wrap", <<e, now>>, trx)
    BY <2>1 DEF WrapExec, WrapId
  <2>3. QED
    BY <1>1, <2>2, ScheduleQueue
<1>6. CASE Nodeos
  BY <1>2, <1>3, <1>6 DEF Nodeos, NewBlock, UpdateAuth, Leave
<1>7. ASSUME NEW k \in Key,
             \/ Proposing(k) \/ Cancelling(k)
             \/ \E l \in Level : Approving(k, l) \/ Unapproving(k, l)
      PROVE  deferred' = deferred
  BY <1>7 DEF Proposing, Propose, Cancelling, Cancel, Approving, Approve,
              Unapproving, Unapprove
<1>8. ASSUME NEW a \in Account, Invalidating(a)
      PROVE  deferred' = deferred
  BY <1>8 DEF Invalidating, Invalidate
<1>9. CASE UNCHANGED govVars
  BY <1>2, <1>9 DEF govVars, chainVars
<1>10. QED
  BY <1>2, <1>4, <1>5, <1>6, <1>7, <1>8, <1>9 DEF GovNext

LEMMA QueueInit == GovInit => QueueInv
BY DEF GovInit, DeferredInit, QueueInv

LEMMA QueueHolds == GovSpec => []QueueInv
BY QueueInit, QueueStep, GovTypesHold, PTL DEF GovSpec

(***************************************************************************)
(* A wrapped transaction collides with one of its executer in its block,   *)
(* and with no other that is still in the queue.                           *)
(***************************************************************************)
THEOREM WrapsCollideInABlock == GovSpec => []WrapsWaitForOneBlock
<1>1. QueueInv => WrapsWaitForOneBlock
  BY DEF QueueInv, WrapsWaitForOneBlock, WrapId
<1>2. QED
  BY <1>1, QueueHolds, PTL

(***************************************************************************)
(* The refinement of Consent, step by step.                                *)
(***************************************************************************)
LEMMA PromisedInit == GovInit => Promised!ConsentInit
<1> SUFFICES ASSUME GovInit
             PROVE  Promised!ConsentInit
  OBVIOUS
<1>1. proposals \in [Key -> Transaction \cup {NoRow}]
  BY DEF GovInit, MsigInit
<1>2. Consents \in [Key -> SUBSET Level]
  BY DEF Consents
<1>3. ASSUME NEW k \in Key, proposals[k] = NoRow
      PROVE  Consents[k] = {}
  <2>1. approvals[k] = NoRow /\ old_approvals[k] = NoRow
    BY <1>3 DEF GovInit, MsigInit
  <2>2. \A l \in Level : Provided(k)[l] = 0
    BY <2>1 DEF Provided, None
  <2>3. QED
    BY <2>2 DEF GovInit, Consents
<1>4. authority \in Authority /\ Due = {}
  BY DEF GovInit, DeferredInit, Due, FromMsig
<1>5. QED
  BY <1>1, <1>2, <1>3, <1>4 DEF Promised!ConsentInit

(* The consents of a key after a level has spoken. *)
LEMMA SaysConsents ==
    ASSUME GovTypeOK, NEW k \in Key, NEW l \in Level, NEW hash, Says(k, l, hash)
    PROVE  Consents' = [Consents EXCEPT ![k] =
              IF hash # Silent THEN @ \cup {l} ELSE @ \ {l}]
<1>1. \A j \in Key, m \in Level :
          word'[j][m] = IF j = k /\ m = l THEN hash ELSE word[j][m]
  BY DEF Says, GovTypeOK
<1>2. \A j \in Key : Consents'[j] =
          IF j = k THEN (IF hash # Silent THEN Consents[j] \cup {l} ELSE Consents[j] \ {l})
          ELSE Consents[j]
  BY <1>1 DEF Consents
<1>3. QED
  BY <1>2 DEF Consents

LEMMA SilenceConsents ==
    ASSUME GovTypeOK, NEW k \in Key, Forgotten(k)
    PROVE  Consents' = [Consents EXCEPT ![k] = {}]
<1>1. \A j \in Key, m \in Level :
          word'[j][m] = IF j = k THEN Silent ELSE word[j][m]
  BY DEF Forgotten, GovTypeOK
<1>2. \A j \in Key : Consents'[j] = IF j = k THEN {} ELSE Consents[j]
  BY <1>1 DEF Consents
<1>3. QED
  BY <1>2 DEF Consents

LEMMA PromisedStep ==
    GovInv /\ QueueInv /\ [GovNext]_govVars => [Promised!ConsentNext]_Promised!consentVars
<1> SUFFICES ASSUME GovInv, QueueInv, [GovNext]_govVars
             PROVE  [Promised!ConsentNext]_Promised!consentVars
  OBVIOUS
<1>1. GovTypeOK /\ \A k \in Key : KeyInv(k)
  BY DEF GovInv
<1>2. ASSUME deferred' = deferred
      PROVE  Due' = Due
  BY <1>2 DEF Due, FromMsig
<1>3. ASSUME word' = word
      PROVE  Consents' = Consents
  BY <1>3 DEF Consents
<1>4. CASE UNCHANGED govVars
  BY <1>2, <1>3, <1>4 DEF govVars, msigTables, chainVars, historyVars, Promised!consentVars
<1>5. ASSUME NEW k \in Key, Proposing(k)
      PROVE  Promised!Open(k)
  <2>1. /\ proposals[k] = NoRow
        /\ \E trx \in Transaction : proposals' = [proposals EXCEPT ![k] = trx]
        /\ UNCHANGED <<authority, deferred, word>>
    BY <1>5 DEF Proposing, Propose
  <2>2. QED
    BY <1>2, <1>3, <2>1 DEF Promised!Open
<1>6. ASSUME NEW k \in Key, Cancelling(k)
      PROVE  Promised!Drop(k)
  <2>1. /\ proposals[k] # NoRow
        /\ proposals' = [proposals EXCEPT ![k] = NoRow]
        /\ UNCHANGED <<authority, deferred>>
        /\ Forgotten(k)
    BY <1>6 DEF Cancelling, Cancel
  <2>2. QED
    BY <1>1, <1>2, <2>1, SilenceConsents DEF Promised!Drop, Promised!Close
<1>7. ASSUME NEW k \in Key, Executing(k)
      PROVE  Promised!HandOver(k)
  <2>1. /\ proposals[k] # NoRow
        /\ proposals' = [proposals EXCEPT ![k] = NoRow]
        /\ authority' = authority
        /\ Satisfied(Counted(k))
        /\ Schedule("eosio.msig", k, proposals[k])
        /\ Forgotten(k)
    BY <1>7 DEF Executing, Exec
  <2>2. Consents' = [Consents EXCEPT ![k] = {}]
    BY <1>1, <2>1, SilenceConsents
  <2>3. Counted(k) \subseteq Consents[k]
    <3>1. Counted(k) \subseteq Level
      BY DEF Counted
    <3>2. \A l \in Counted(k) : word[k][l] # Silent
      BY <1>1, <2>1, RowFacts, GovernanceAssumption DEF KeyInv
    <3>3. QED
      BY <3>1, <3>2 DEF Consents
  <2>4. \E levels \in authority : levels \subseteq Consents[k]
    BY <2>1, <2>3 DEF Satisfied
  <2>5. \A d \in Due : d[1] # k
    BY <2>1 DEF Schedule, Due, FromMsig, Sent
  <2>6. Due' = Due \cup {<<k, proposals[k]>>}
    <3> DEFINE new == [sender |-> "eosio.msig", id |-> k, trx |-> proposals[k],
                       published |-> now]
    <3>1. deferred' = deferred \cup {new}
      BY <2>1 DEF Schedule
    <3>2. new.sender = "eosio.msig" /\ Sent(new) = <<k, proposals[k]>>
      BY DEF Sent
    <3> HIDE DEF new
    <3>3. FromMsig' = FromMsig \cup {new}
      BY <3>1, <3>2 DEF FromMsig
    <3>4. \A d : Sent(d)' = Sent(d)
      BY DEF Sent
    <3>5. QED
      BY <3>2, <3>3 DEF Due, Sent
  <2>7. QED
    BY <2>1, <2>2, <2>4, <2>5, <2>6 DEF Promised!HandOver, Promised!Close
<1>8. ASSUME NEW k \in Key, NEW l \in Level, Approving(k, l)
      PROVE  Promised!Agree(k, l)
  <2>1. PICK hash \in Transaction \cup {NoHash} : Approve(k, l, hash) /\ Says(k, l, hash)
    BY <1>8 DEF Approving
  <2>2. hash # Silent
    BY GovernanceAssumption
  <2>3. Consents' = [Consents EXCEPT ![k] = @ \cup {l}]
    BY <1>1, <2>1, <2>2, SaysConsents
  <2>4. proposals[k] # NoRow
    BY <1>1, <2>1 DEF Approve, ApproveNew, ApproveOld, KeyInv
  <2>5. QED
    BY <1>2, <2>1, <2>3, <2>4 DEF Approve, Promised!Agree
<1>9. ASSUME NEW k \in Key, NEW l \in Level, Unapproving(k, l)
      PROVE  Promised!Withdraw(k, l) \/ UNCHANGED Promised!consentVars
  <2>1. /\ UNCHANGED <<proposals, authority, deferred>>
        /\ Says(k, l, Silent) \/ UNCHANGED word
    BY <1>9 DEF Unapproving, Unapprove
  <2>2. CASE Says(k, l, Silent)
    <3>1. Consents' = [Consents EXCEPT ![k] = @ \ {l}]
      BY <1>1, <2>2, SaysConsents
    <3>2. QED
      BY <1>2, <2>1, <3>1 DEF Promised!Withdraw
  <2>3. CASE UNCHANGED word
    BY <1>2, <1>3, <2>1, <2>3 DEF Promised!consentVars
  <2>4. QED
    BY <2>1, <2>2, <2>3
<1>10. ASSUME NEW a \in Account, Invalidating(a)
       PROVE  Promised!Revoke(a)
  <2>1. \A k \in Key, l \in Level :
            word'[k][l] = IF ActorOf[l] = a THEN Silent ELSE word[k][l]
    BY <1>10 DEF Invalidating
  <2>2. \A k \in Key : Consents'[k] = {l \in Consents[k] : ActorOf[l] # a}
    BY <2>1 DEF Consents
  <2>3. Consents' = [k \in Key |-> {l \in Consents[k] : ActorOf[l] # a}]
    BY <2>2 DEF Consents
  <2>4. QED
    BY <1>2, <1>10, <2>3 DEF Invalidating, Invalidate, Promised!Revoke
<1>11. CASE Wrapping
  <2>1. PICK e \in Executer : \E trx \in WrapTransaction : WrapExec(e, trx)
    BY <1>11 DEF Wrapping
  <2>2. PICK trx \in WrapTransaction : WrapExec(e, trx)
    BY <2>1
  <2>3. FromMsig' = FromMsig
    BY <2>2 DEF WrapExec, Schedule, FromMsig
  <2>4. Due' = Due
    BY <2>3 DEF Due, Sent
  <2>5. UNCHANGED <<proposals, authority, word>>
    BY <1>11, <2>2 DEF Wrapping, WrapExec, msigTables, historyVars
  <2>6. QED
    BY <1>3, <2>4, <2>5 DEF Promised!consentVars
<1>12. CASE Nodeos
  <2>1. UNCHANGED <<proposals, word>>
    BY <1>12 DEF Nodeos, msigTables, historyVars
  <2>2. CASE NewBlock
    BY <1>2, <1>3, <2>1, <2>2 DEF NewBlock, Promised!consentVars
  <2>3. CASE UpdateAuth
    BY <1>2, <1>3, <2>1, <2>3 DEF UpdateAuth, Promised!ConsentNext, Promised!ChangeRule
  <2>4. ASSUME NEW d \in deferred, Leave(d), d.sender = "eosio.msig"
        PROVE  Promised!CarryOut(Sent(d)) /\ Sent(d) \in Due
    <3>1. d \in FromMsig /\ Sent(d) \in Due
      BY <2>4 DEF FromMsig, Due
    <3>2. FromMsig' = FromMsig \ {d}
      BY <2>4 DEF Leave, FromMsig
    <3>3. \A e \in FromMsig : Sent(e) = Sent(d) => e = d
      BY <2>4 DEF FromMsig, Sent, QueueInv
    <3>4. Due' = Due \ {Sent(d)}
      BY <3>1, <3>2, <3>3 DEF Due, Sent
    <3>5. QED
      BY <1>3, <2>1, <2>4, <3>1, <3>4 DEF Leave, Promised!CarryOut
  <2>5. ASSUME NEW d \in deferred, Leave(d), d.sender # "eosio.msig"
        PROVE  UNCHANGED Promised!consentVars
    <3>1. FromMsig' = FromMsig
      BY <2>5 DEF Leave, FromMsig
    <3>2. Due' = Due
      BY <3>1 DEF Due, Sent
    <3>3. QED
      BY <1>3, <2>1, <2>5, <3>2 DEF Leave, Promised!consentVars
  <2>6. QED
    BY <1>12, <2>2, <2>3, <2>4, <2>5 DEF Nodeos, Promised!ConsentNext
<1>13. QED
  BY <1>4, <1>5, <1>6, <1>7, <1>8, <1>9, <1>10, <1>11, <1>12
     DEF GovNext, Promised!ConsentNext

(***************************************************************************)
(* eosio.msig, with its times, its two versions of a table and its queue,  *)
(* does what Consent promises: what it sends has the consent, by the last  *)
(* word of each level, that the authority of the moment demands.           *)
(***************************************************************************)
THEOREM MsigImplementsConsent == GovSpec => ImplementsConsent
<1>1. GovSpec => []GovInv
  BY InvInit, InvStep, PTL DEF GovSpec
<1>2. QED
  BY <1>1, QueueHolds, PromisedInit, PromisedStep, PTL
     DEF GovSpec, ImplementsConsent, Promised!ConsentSpec

=============================================================================
