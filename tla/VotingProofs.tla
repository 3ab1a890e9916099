---------------------------- MODULE VotingProofs ----------------------------
(***************************************************************************)
(* The tallies of libre.system, for any accounts, voters, stakes and       *)
(* amounts.  The invariant: the types, recorded stake lies with producers, *)
(* votes are those of the voters, and the weight is the sum of the votes.  *)
(***************************************************************************)
EXTENDS VotingProperties, PermissionProofs, SumTheorems

TallyInv ==
    /\ TypeOK
    /\ StakeLiesWithProducers
    /\ VotesMatchVoters
    /\ WeightIsSumOfVotes

(* get_staked is the -1 of an account without stakes, or an amount. *)
LEMMA GetStakedType ==
    ASSUME TypeOK, NEW v \in Voter
    PROVE  /\ GetStaked(v) \in Int
           /\ GetStaked(v) # -1 => GetStaked(v) \in Nat
           /\ GetStaked(v) > -1 => StakesOf(v) # {}
<1>1. InProgress(v) \in [StakeId -> Nat]
  BY VotingAssumption DEF TypeOK, InProgress, StakesOf, StakeRow
<1>2. SumFunctionOnSet(InProgress(v), StakeId) \in Nat
  BY <1>1, VotingAssumption, SumNat
<1>3. QED
  BY <1>2 DEF GetStaked

(* The stake on record for the voters of a name, as a function. *)
LEMMA VotesForType ==
    ASSUME TypeOK, NEW n
    PROVE  VotesFor(n) \in [Voter -> Nat]
BY DEF TypeOK, VotesFor

-----------------------------------------------------------------------------
(***************************************************************************)
(* What a step of update_votes does, in one place: v was worth was behind  *)
(* old, and is worth now behind p.                                         *)
(***************************************************************************)
VoterMoves(v, p, voting, old, was, now) ==
    /\ now = GetStaked(v) /\ was = staked[v]
    /\ now \in Nat /\ was \in Nat
    /\ HasVote(v) => old = vote[v]
    /\ ~HasVote(v) => was = 0
    /\ old \in Name
    /\ \A n \in {old, p} : Accepts(n, voting, Delta(n, old, was, p, now))
    /\ total_votes' = [n \in Account |->
          IF n \in {old, p} \cap registered
          THEN NotNegative(total_votes[n] + Delta(n, old, was, p, now))
          ELSE total_votes[n]]
    /\ total_producer_vote_weight' =
          total_producer_vote_weight + WeightDelta(old, was, p, now)
    /\ total_activated_stake' = (total_activated_stake + now) % Int64
    /\ vote' = [vote EXCEPT ![v] = p]
    /\ staked' = [staked EXCEPT ![v] = now]
    /\ UNCHANGED <<perms, prodVars, stakes>>

(* Every step of update_votes moves a voter. *)
LEMMA UpdateVotesFacts ==
    ASSUME TallyInv, NEW v \in Voter, NEW p \in Name, NEW voting \in BOOLEAN,
           UpdateVotes(v, p, voting)
    PROVE  \E old, was, now : VoterMoves(v, p, voting, old, was, now)
<1>1. PICK old \in OldProducers(v) :
             /\ MayVote(GetStaked(v))
             /\ \A n \in {old, p} : Accepts(n, voting, Delta(n, old, staked[v], p, GetStaked(v)))
             /\ total_votes' = [n \in Account |->
                   IF n \in {old, p} \cap registered
                   THEN NotNegative(total_votes[n] + Delta(n, old, staked[v], p, GetStaked(v)))
                   ELSE total_votes[n]]
             /\ total_producer_vote_weight' =
                   total_producer_vote_weight + WeightDelta(old, staked[v], p, GetStaked(v))
             /\ total_activated_stake' = (total_activated_stake + GetStaked(v)) % Int64
             /\ vote' = [vote EXCEPT ![v] = p]
             /\ staked' = [staked EXCEPT ![v] = GetStaked(v)]
             /\ UNCHANGED <<perms, prodVars, stakes>>
  BY DEF UpdateVotes
<1>2. GetStaked(v) \in Nat
  BY <1>1, GetStakedType DEF MayVote, TallyInv
<1>3. staked[v] \in Nat
  BY DEF TallyInv, TypeOK
<1>4. ~HasVote(v) => staked[v] = 0
  BY <1>3, VotingAssumption
     DEF TallyInv, TypeOK, StakeLiesWithProducers, HasVote
<1>5. (HasVote(v) => old = vote[v]) /\ old \in Name
  BY VotingAssumption DEF OldProducers, HasVote, TallyInv, TypeOK
<1>6. VoterMoves(v, p, voting, old, staked[v], GetStaked(v))
  BY <1>1, <1>2, <1>3, <1>4, <1>5 DEF VoterMoves
<1>7. QED
  BY <1>6

(* VotesFor(n)', written out. *)
NextVotesFor(n) == [u \in Voter |-> IF vote'[u] = n THEN staked'[u] ELSE 0]

(***************************************************************************)
(* The clamp at zero never changes a total, since what remains is the      *)
(* stake of the other voters: every total changes by its delta.            *)
(***************************************************************************)
LEMMA MovedTotals ==
    ASSUME TallyInv, NEW v \in Voter, NEW p \in Name, NEW voting \in BOOLEAN,
           NEW old, NEW was, NEW now, VoterMoves(v, p, voting, old, was, now)
    PROVE  \A n \in Account :
             /\ total_votes[n] + Delta(n, old, was, p, now) \in Nat
             /\ total_votes'[n] = total_votes[n] + Delta(n, old, was, p, now)
             /\ SumFunctionOnSet(NextVotesFor(n), Voter) = total_votes'[n]
<1>1. /\ now = GetStaked(v) /\ was = staked[v]
      /\ now \in Nat /\ was \in Nat
      /\ HasVote(v) => old = vote[v]
      /\ ~HasVote(v) => was = 0
      /\ old \in Name
      /\ \A n \in {old, p} : Accepts(n, voting, Delta(n, old, was, p, now))
      /\ total_votes' = [n \in Account |->
            IF n \in {old, p} \cap registered
            THEN NotNegative(total_votes[n] + Delta(n, old, was, p, now))
            ELSE total_votes[n]]
      /\ total_producer_vote_weight' =
            total_producer_vote_weight + WeightDelta(old, was, p, now)
      /\ total_activated_stake' = (total_activated_stake + now) % Int64
      /\ vote' = [vote EXCEPT ![v] = p]
      /\ staked' = [staked EXCEPT ![v] = now]
      /\ UNCHANGED <<perms, prodVars, stakes>>
  BY DEF VoterMoves
<1> DEFINE delta(n) == Delta(n, old, was, p, now)
<1>2. /\ TypeOK /\ VotesMatchVoters /\ WeightIsSumOfVotes /\ StakeLiesWithProducers
      /\ total_votes \in [Account -> Nat]
      /\ registered \subseteq Account
      /\ registered' = registered
  BY <1>1 DEF TallyInv, TypeOK, prodVars
<1>3. ASSUME NEW n \in Name
      PROVE  delta(n) \in Int /\ (n \notin {old, p} => delta(n) = 0)
  BY <1>1 DEF Delta
<1>4. ASSUME NEW n \in Account
      PROVE  /\ SumFunctionOnSet(NextVotesFor(n), Voter) = total_votes[n] + delta(n)
             /\ total_votes[n] + delta(n) \in Nat
  <2> DEFINE f == VotesFor(n)
             g == NextVotesFor(n)
  <2>1. f \in [Voter -> Nat] /\ f[v] = IF vote[v] = n THEN was ELSE 0
    BY <1>1, <1>2, VotesForType DEF VotesFor
  <2>2. vote \in [Voter -> Name \cup {NoRow}] /\ staked \in [Voter -> Nat]
    BY <1>2 DEF TypeOK
  <2>3. /\ g = [u \in Voter |-> IF vote'[u] = n THEN staked'[u] ELSE 0]
        /\ f = [u \in Voter |-> IF vote[u] = n THEN staked[u] ELSE 0]
    BY DEF VotesFor, NextVotesFor
  <2>4. g \in [Voter -> Nat]
    BY <1>1, <2>2, <2>3
  <2>5. g[v] = IF p = n THEN now ELSE 0
    BY <1>1, <2>2, <2>3
  <2>6. \A u \in Voter : u # v => g[u] = f[u]
    BY <1>1, <2>2, <2>3
  <2>7. total_votes[n] = SumFunctionOnSet(f, Voter)
    BY <1>2 DEF VotesMatchVoters
  <2>8. n \in Name
    BY VotingAssumption
  <2> HIDE DEF f, g
  <2>9. SumFunctionOnSet(g, Voter) = SumFunctionOnSet(f, Voter) - f[v] + g[v]
    <3>1. f \in [Voter -> Int] /\ g \in [Voter -> Int]
      BY <2>1, <2>4
    <3>2. QED
      BY <2>6, <3>1, SumChangeOne, VotingAssumption
  <2>10. f[v] = IF n = old THEN was ELSE 0
    BY <1>1, <2>1, <2>8, VotingAssumption DEF HasVote
  <2>11. SumFunctionOnSet(f, Voter) \in Nat /\ SumFunctionOnSet(g, Voter) \in Nat
    BY <2>1, <2>4, SumNat, VotingAssumption
  <2>12. SumFunctionOnSet(g, Voter) = SumFunctionOnSet(f, Voter) + delta(n)
    BY <1>1, <2>5, <2>9, <2>10, <2>11 DEF Delta
  <2>13. QED
    BY <2>7, <2>11, <2>12 DEF g
<1>5. ASSUME NEW n \in {old, p}, n \notin registered
      PROVE  delta(n) = 0
  BY <1>1, <1>5 DEF Accepts
<1>6. ASSUME NEW n \in Account
      PROVE  total_votes'[n] = total_votes[n] + delta(n)
  <2>1. n \in Name /\ total_votes[n] \in Nat
    BY <1>2, VotingAssumption
  <2>2. CASE n \in {old, p} \cap registered
    BY <1>1, <1>4, <2>2 DEF NotNegative
  <2>3. CASE n \notin {old, p} \cap registered
    <3>1. delta(n) = 0
      BY <1>3, <1>5, <2>1, <2>3
    <3>2. QED
      BY <1>1, <2>1, <2>3, <3>1
  <2>4. QED
    BY <2>2, <2>3
<1>7. QED
  BY <1>4, <1>6

(***************************************************************************)
(* Whatever update_votes does keeps the tallies.                           *)
(***************************************************************************)
LEMMA UpdateVotesKeepsTally ==
    ASSUME TallyInv, NEW v \in Voter, NEW p \in Name, NEW voting \in BOOLEAN,
           UpdateVotes(v, p, voting)
    PROVE  TallyInv'
<1>1. PICK old, was, now :
             /\ VoterMoves(v, p, voting, old, was, now)
             /\ now = GetStaked(v) /\ was = staked[v]
             /\ now \in Nat /\ was \in Nat
             /\ HasVote(v) => old = vote[v]
             /\ ~HasVote(v) => was = 0
             /\ old \in Name
             /\ \A n \in {old, p} : Accepts(n, voting, Delta(n, old, was, p, now))
             /\ total_votes' = [n \in Account |->
                   IF n \in {old, p} \cap registered
                   THEN NotNegative(total_votes[n] + Delta(n, old, was, p, now))
                   ELSE total_votes[n]]
             /\ total_producer_vote_weight' =
                   total_producer_vote_weight + WeightDelta(old, was, p, now)
             /\ total_activated_stake' = (total_activated_stake + now) % Int64
             /\ vote' = [vote EXCEPT ![v] = p]
             /\ staked' = [staked EXCEPT ![v] = now]
             /\ UNCHANGED <<perms, prodVars, stakes>>
  BY UpdateVotesFacts DEF VoterMoves
<1> DEFINE delta(n) == Delta(n, old, was, p, now)
<1>2. /\ TypeOK /\ VotesMatchVoters /\ WeightIsSumOfVotes /\ StakeLiesWithProducers
      /\ total_votes \in [Account -> Nat]
      /\ registered \subseteq Account
      /\ registered' = registered
  BY <1>1 DEF TallyInv, TypeOK, prodVars
<1>3. ASSUME NEW n \in Name
      PROVE  delta(n) \in Int /\ (n \notin {old, p} => delta(n) = 0)
  BY <1>1 DEF Delta
<1>4. ASSUME NEW n \in Account
      PROVE  /\ total_votes'[n] \in Nat
             /\ total_votes'[n] = total_votes[n] + delta(n)
             /\ SumFunctionOnSet(NextVotesFor(n), Voter) = total_votes'[n]
  BY <1>1, MovedTotals
<1>5. ASSUME NEW n \in {old, p}, n \notin registered
      PROVE  delta(n) = 0
  BY <1>1, <1>5 DEF Accepts
<1> HIDE DEF delta
<1>7. VotesMatchVoters'
  <2> SUFFICES ASSUME NEW n \in Account
               PROVE  total_votes'[n] = SumFunctionOnSet(VotesFor(n)', Voter)
    BY DEF VotesMatchVoters
  <2>1. VotesFor(n)' = NextVotesFor(n)
    BY DEF VotesFor, NextVotesFor
  <2>2. QED
    BY <1>4, <2>1
<1>8. total_votes' \in [Account -> Nat]
  <2>1. total_votes' = [n \in Account |-> total_votes'[n]]
    BY <1>1
  <2>2. \A n \in Account : total_votes'[n] \in Nat
    BY <1>4
  <2>3. QED
    BY <2>1, <2>2
<1>9. WeightIsSumOfVotes'
  <2> DEFINE up == [n \in Account |-> IF n = p /\ p \in registered THEN now ELSE 0]
             down == [n \in Account |-> IF n = old /\ old \in registered THEN 0 - was ELSE 0]
             both == [n \in Account |-> up[n] + down[n]]
             next == [n \in Account |-> total_votes[n] + both[n]]
  <2>1. up \in [Account -> Int] /\ down \in [Account -> Int]
    BY <1>1
  <2>2. SumFunctionOnSet(up, Account) = IF p \in registered THEN now ELSE 0
    <3>1. \A n \in Account : n # p => up[n] = 0
      OBVIOUS
    <3>2. p \in Account => up[p] = IF p \in registered THEN now ELSE 0
      OBVIOUS
    <3> HIDE DEF up
    <3>3. SumFunctionOnSet(up, Account) = IF p \in Account THEN up[p] ELSE 0
      BY <2>1, <3>1, SumSingle, VotingAssumption
    <3>4. QED
      BY <1>2, <3>2, <3>3
  <2>3. SumFunctionOnSet(down, Account) = IF old \in registered THEN 0 - was ELSE 0
    <3>1. \A n \in Account : n # old => down[n] = 0
      OBVIOUS
    <3>2. old \in Account => down[old] = IF old \in registered THEN 0 - was ELSE 0
      OBVIOUS
    <3> HIDE DEF down
    <3>3. SumFunctionOnSet(down, Account) = IF old \in Account THEN down[old] ELSE 0
      BY <2>1, <3>1, SumSingle, VotingAssumption
    <3>4. QED
      BY <1>2, <3>2, <3>3
  <2>4. \A n \in Account : delta(n) = up[n] + down[n]
    <3> SUFFICES ASSUME NEW n \in Account PROVE delta(n) = up[n] + down[n]
      OBVIOUS
    <3>1. CASE n \in registered
      BY <1>1, <3>1 DEF delta, Delta
    <3>2. CASE n \notin registered
      <4>1. up[n] = 0 /\ down[n] = 0
        BY <3>2
      <4>2. delta(n) = 0
        BY <1>3, <1>5, <3>2, VotingAssumption
      <4>3. QED
        BY <4>1, <4>2
    <3>3. QED
      BY <3>1, <3>2
  <2>5. total_votes' = next
    <3>1. total_votes' = [n \in Account |-> total_votes'[n]]
      BY <1>1
    <3>2. \A n \in Account : total_votes'[n] = next[n]
      BY <1>4, <2>4
    <3>3. QED
      BY <3>1, <3>2
  <2> HIDE DEF up, down
  <2>6. SumFunctionOnSet(both, Account)
           = SumFunctionOnSet(up, Account) + SumFunctionOnSet(down, Account)
    BY <2>1, SumPlus, VotingAssumption
  <2>7. both \in [Account -> Int]
    BY <2>1
  <2> HIDE DEF both
  <2>8. SumFunctionOnSet(next, Account)
           = SumFunctionOnSet(total_votes, Account) + SumFunctionOnSet(both, Account)
    <3>1. total_votes \in [Account -> Int]
      BY <1>2
    <3>2. QED
      BY <2>7, <3>1, SumPlus, VotingAssumption
  <2> HIDE DEF next
  <2>9. total_producer_vote_weight = SumFunctionOnSet(total_votes, Account)
    BY <1>2 DEF WeightIsSumOfVotes
  <2>10. SumFunctionOnSet(total_votes, Account) \in Int
    <3>1. total_votes \in [Account -> Int]
      BY <1>2
    <3>2. QED
      BY <3>1, SumInt, VotingAssumption
  <2>11. total_producer_vote_weight' = SumFunctionOnSet(next, Account)
    BY <1>1, <2>2, <2>3, <2>6, <2>8, <2>9, <2>10 DEF WeightDelta
  <2>12. QED
    BY <2>5, <2>11 DEF WeightIsSumOfVotes
<1>10. StakeLiesWithProducers'
  <2> SUFFICES ASSUME NEW u \in Voter, staked'[u] > 0 PROVE vote'[u] \in registered
    BY <1>2 DEF StakeLiesWithProducers
  <2>1. vote \in [Voter -> Name \cup {NoRow}] /\ staked \in [Voter -> Nat]
    BY <1>2 DEF TypeOK
  <2>2. CASE u # v
    BY <1>1, <1>2, <2>1, <2>2 DEF StakeLiesWithProducers
  <2>3. CASE u = v
    <3>1. vote'[u] = p /\ now > 0
      BY <1>1, <2>1, <2>3
    <3>2. ASSUME p \notin registered PROVE FALSE
      <4>1. delta(p) = 0
        BY <1>5, <3>2
      <4>2. old = p /\ was = now
        BY <1>1, <3>1, <4>1 DEF delta, Delta
      <4>3. HasVote(v) /\ staked[v] > 0 /\ vote[v] = p
        BY <1>1, <3>1, <4>2
      <4>4. QED
        BY <1>2, <3>2, <4>3 DEF StakeLiesWithProducers
    <3>3. QED
      BY <3>1, <3>2
  <2>4. QED
    BY <2>2, <2>3
<1>11. TypeOK'
  <2>1. total_producer_vote_weight' \in Int
    BY <1>1, <1>2 DEF TypeOK, WeightDelta
  <2>2. total_activated_stake' \in 0..Int64 - 1
    BY <1>1, <1>2, VotingAssumption DEF TypeOK
  <2>3. PermTypeOK'
    BY <1>1, <1>2 DEF TypeOK, PermTypeOK
  <2>4. vote' \in [Voter -> Name \cup {NoRow}] /\ staked' \in [Voter -> Nat]
    BY <1>1, <1>2 DEF TypeOK
  <2>5. QED
    BY <1>1, <1>2, <1>8, <2>1, <2>2, <2>3, <2>4 DEF TypeOK, prodVars
<1>12. QED
  BY <1>7, <1>9, <1>10, <1>11 DEF TallyInv

(* A step that leaves the tallies alone and only adds producers keeps them. *)
LEMMA OthersKeepTally ==
    ASSUME TallyInv, UNCHANGED tallyVars, registered \subseteq registered', TypeOK'
    PROVE  TallyInv'
<1>1. /\ total_votes' = total_votes /\ vote' = vote /\ staked' = staked
      /\ total_producer_vote_weight' = total_producer_vote_weight
  BY DEF tallyVars
<1>2. VotesMatchVoters'
  <2> SUFFICES ASSUME NEW n \in Account
               PROVE  total_votes'[n] = SumFunctionOnSet(VotesFor(n)', Voter)
    BY DEF VotesMatchVoters
  <2>1. VotesFor(n)' = VotesFor(n)
    BY <1>1 DEF VotesFor
  <2>2. QED
    BY <1>1, <2>1 DEF TallyInv, VotesMatchVoters
<1>3. WeightIsSumOfVotes'
  BY <1>1 DEF TallyInv, WeightIsSumOfVotes
<1>4. StakeLiesWithProducers'
  BY <1>1 DEF TallyInv, StakeLiesWithProducers
<1>5. QED
  BY <1>2, <1>3, <1>4 DEF TallyInv

(* A registration, of either kind, keeps the types. *)
LEMMA RegisterKeepsTally ==
    ASSUME TallyInv, NEW p \in Account, NEW key \in Key, Register(p, key)
    PROVE  TallyInv'
<1>1. UNCHANGED tallyVars /\ registered \subseteq registered'
  BY DEF Register
<1>2. PermTypeOK'
  BY DEF TallyInv, TypeOK, PermTypeOK, Register
<1>3. TypeOK'
  BY <1>2 DEF TallyInv, TypeOK, Register, tallyVars
<1>4. QED
  BY <1>1, <1>3, OthersKeepTally

(* A deactivation, with or without the inline kick, keeps the types. *)
LEMMA DeactivateKeepsTally ==
    ASSUME TallyInv, NEW p \in Account, Deactivate(p), UNCHANGED perms \/ KickPerm(p)
    PROVE  TallyInv'
<1>1. UNCHANGED tallyVars /\ registered \subseteq registered'
  BY DEF Deactivate
<1>2. PermTypeOK'
  <2>1. PermTypeOK
    BY DEF TallyInv, TypeOK
  <2>2. CASE UNCHANGED perms
    BY <2>1, <2>2 DEF PermTypeOK
  <2>3. CASE KickPerm(p)
    BY <2>1, <2>3, PermNextType DEF PermNext
  <2>4. QED
    BY <2>2, <2>3
<1>3. TypeOK'
  BY <1>2 DEF TallyInv, TypeOK, Deactivate, tallyVars
<1>4. QED
  BY <1>1, <1>3, OthersKeepTally

(* A stake that opens or closes keeps the tallies, stale as they may get. *)
LEMMA StakeKeepsTally ==
    ASSUME TallyInv, NEW i \in StakeId, StakeStep(i)
    PROVE  TallyInv'
<1>1. /\ stakes' \in [StakeId -> StakeRow \cup {NoRow}]
      /\ UNCHANGED <<perms, prodVars, tallyVars>>
  <2>0. stakes \in [StakeId -> StakeRow \cup {NoRow}]
    BY DEF TallyInv, TypeOK
  <2>1. CASE \E v \in Voter, n \in Amount : OpenStake(i, v, n)
    <3>1. PICK v \in Voter, n \in Amount : OpenStake(i, v, n)
      BY <2>1
    <3>2. [account |-> v, libre_staked |-> n, status |-> STAKE_IN_PROGRESS] \in StakeRow
      BY DEF StakeRow
    <3>3. QED
      BY <2>0, <3>1, <3>2 DEF OpenStake
  <2>2. CASE \E status \in {STAKE_COMPLETED, STAKE_CANCELED} : CloseStake(i, status)
    <3>1. PICK status \in {STAKE_COMPLETED, STAKE_CANCELED} : CloseStake(i, status)
      BY <2>2
    <3>2. stakes[i] \in StakeRow
      BY <2>0, <3>1 DEF CloseStake
    <3>3. [stakes[i] EXCEPT !.status = status] \in StakeRow
      BY <3>1, <3>2 DEF StakeRow
    <3>4. stakes' = [stakes EXCEPT ![i] = [stakes[i] EXCEPT !.status = status]]
      BY <2>0, <3>1 DEF CloseStake
    <3>5. QED
      BY <2>0, <3>1, <3>3, <3>4 DEF CloseStake
  <2>3. QED
    BY <2>1, <2>2 DEF StakeStep
<1>2. PermTypeOK'
  BY <1>1 DEF TallyInv, TypeOK, PermTypeOK
<1>3. TypeOK'
  BY <1>1, <1>2 DEF TallyInv, TypeOK, prodVars, tallyVars
<1>4. QED
  BY <1>1, <1>3, OthersKeepTally DEF prodVars

-----------------------------------------------------------------------------
(* The tables are empty at the start. *)
LEMMA InitTally == Init => TallyInv
<1> SUFFICES ASSUME Init PROVE TallyInv
  OBVIOUS
<1>1. TypeOK
  BY VotingAssumption DEF Init, PermInit, TypeOK, PermTypeOK
<1>2. StakeLiesWithProducers
  BY DEF Init, StakeLiesWithProducers
<1>3. VotesMatchVoters
  <2> SUFFICES ASSUME NEW n \in Account
               PROVE  total_votes[n] = SumFunctionOnSet(VotesFor(n), Voter)
    BY DEF VotesMatchVoters
  <2>1. VotesFor(n) \in [Voter -> Int] /\ \A v \in Voter : VotesFor(n)[v] = 0
    BY DEF Init, VotesFor
  <2>2. SumFunctionOnSet(VotesFor(n), Voter) = 0
    BY <2>1, SumZero, VotingAssumption
  <2>3. QED
    BY <2>2 DEF Init
<1>4. WeightIsSumOfVotes
  <2>1. total_votes \in [Account -> Int] /\ \A p \in Account : total_votes[p] = 0
    BY DEF Init
  <2>2. SumFunctionOnSet(total_votes, Account) = 0
    BY <2>1, SumZero, VotingAssumption
  <2>3. QED
    BY <2>2 DEF Init, WeightIsSumOfVotes
<1>5. QED
  BY <1>1, <1>2, <1>3, <1>4 DEF TallyInv

(* Every step keeps the tallies. *)
LEMMA NextTally == TallyInv /\ [Next]_vars => TallyInv'
<1> SUFFICES ASSUME TallyInv, [Next]_vars PROVE TallyInv'
  OBVIOUS
<1>1. ASSUME NEW acc \in Account, PermStep(acc) PROVE TallyInv'
  <2>1. UNCHANGED <<prodVars, tallyVars, stakes>>
    BY <1>1 DEF PermStep
  <2>2. PermTypeOK'
    BY <1>1, PermNextType DEF PermStep, TallyInv, TypeOK
  <2>3. TypeOK'
    BY <2>1, <2>2 DEF TallyInv, TypeOK, prodVars, tallyVars
  <2>4. QED
    BY <2>1, <2>3, OthersKeepTally DEF prodVars
<1>2. ASSUME NEW p \in Account, ProducerStep(p) PROVE TallyInv'
  <2>1. ASSUME NEW key \in Key, RegProducer(p, key) PROVE TallyInv'
    BY <2>1, RegisterKeepsTally DEF RegProducer
  <2>2. ASSUME NEW key \in Key \cup BadKey, RegProducer2(p, key) PROVE TallyInv'
    <3>1. key \in Key /\ Register(p, key)
      BY <2>2 DEF RegProducer2
    <3>2. QED
      BY <3>1, RegisterKeepsTally
  <2>3. CASE UnregProd(p) \/ RmvProducer(p) \/ KickBP(p)
    BY <2>3, DeactivateKeepsTally DEF UnregProd, RmvProducer, KickBP
  <2>4. QED
    BY <1>2, <2>1, <2>2, <2>3 DEF ProducerStep
<1>3. ASSUME NEW v \in Voter, VoterStep(v) PROVE TallyInv'
  <2>1. ASSUME NEW p \in Name, VoteProducer(v, p) PROVE TallyInv'
    BY <2>1, UpdateVotesKeepsTally DEF VoteProducer
  <2>2. CASE VOnStake(v)
    <3>1. vote[v] \in Name /\ UpdateVotes(v, vote[v], FALSE)
      BY <2>2 DEF VOnStake, HasVote, TallyInv, TypeOK
    <3>2. QED
      BY <3>1, UpdateVotesKeepsTally
  <2>3. QED
    BY <1>3, <2>1, <2>2 DEF VoterStep
<1>4. ASSUME NEW i \in StakeId, StakeStep(i) PROVE TallyInv'
  BY <1>4, StakeKeepsTally
<1>5. CASE UNCHANGED vars
  <2>1. UNCHANGED <<perms, prodVars, tallyVars, stakes>>
    BY <1>5 DEF vars
  <2>2. TypeOK'
    BY <2>1 DEF TallyInv, TypeOK, PermTypeOK, prodVars, tallyVars
  <2>3. QED
    BY <2>1, <2>2, OthersKeepTally DEF prodVars
<1>6. QED
  BY <1>1, <1>2, <1>3, <1>4, <1>5 DEF Next

(* The inductive invariant holds in every behaviour. *)
THEOREM TallyInvariant == Spec => []TallyInv
BY InitTally, NextTally, PTL DEF Spec

(***************************************************************************)
(* Types: whoever registers, votes, stakes, kicks or sets permissions, the *)
(* tables hold what their types say.                                       *)
(***************************************************************************)
THEOREM VotingTypes == Spec => []TypeOK
<1>1. TallyInv => TypeOK
  BY DEF TallyInv
<1>2. QED
  BY <1>1, TallyInvariant, PTL

(***************************************************************************)
(* update_votes loses no vote and counts none twice: the total of every    *)
(* producer is the recorded stake of the voters whose vote it has.         *)
(***************************************************************************)
THEOREM VotesAreConserved == Spec => []VotesMatchVoters
<1>1. TallyInv => VotesMatchVoters
  BY DEF TallyInv
<1>2. QED
  BY <1>1, TallyInvariant, PTL

(***************************************************************************)
(* The global vote weight never drifts from the votes of the producers.    *)
(***************************************************************************)
THEOREM WeightIsConserved == Spec => []WeightIsSumOfVotes
<1>1. TallyInv => WeightIsSumOfVotes
  BY DEF TallyInv
<1>2. QED
  BY <1>1, TallyInvariant, PTL

(***************************************************************************)
(* Recorded stake never lies with a name that is no producer.              *)
(***************************************************************************)
THEOREM NoStakeIsLost == Spec => []StakeLiesWithProducers
<1>1. TallyInv => StakeLiesWithProducers
  BY DEF TallyInv
<1>2. QED
  BY <1>1, TallyInvariant, PTL

-----------------------------------------------------------------------------
(* The ways to register set a valid authority, a deactivation resets both. *)
LEMMA NextKeepsSigners == TallyInv /\ ActiveCanSign /\ [Next]_vars => ActiveCanSign'
<1> SUFFICES ASSUME TallyInv, ActiveCanSign, [Next]_vars PROVE ActiveCanSign'
  OBVIOUS
<1>1. active \subseteq Account /\ authority \in [Account -> Key \cup {NoRow}]
  BY DEF TallyInv, TypeOK
<1>2. ASSUME UNCHANGED prodVars PROVE ActiveCanSign'
  BY <1>2 DEF ActiveCanSign, prodVars
<1>3. ASSUME NEW acc \in Account, PermStep(acc) PROVE ActiveCanSign'
  BY <1>2, <1>3 DEF PermStep
<1>4. ASSUME NEW p \in Account, ProducerStep(p) PROVE ActiveCanSign'
  <2>1. ASSUME NEW key \in Key, Register(p, key) PROVE ActiveCanSign'
    BY <1>1, <2>1 DEF Register, ActiveCanSign
  <2>2. ASSUME Deactivate(p) PROVE ActiveCanSign'
    BY <1>1, <2>2 DEF Deactivate, ActiveCanSign
  <2>3. ASSUME NEW key \in Key, RegProducer(p, key) PROVE ActiveCanSign'
    BY <2>1, <2>3 DEF RegProducer
  <2>4. ASSUME NEW key \in Key \cup BadKey, RegProducer2(p, key) PROVE ActiveCanSign'
    BY <2>1, <2>4 DEF RegProducer2
  <2>5. CASE UnregProd(p) \/ RmvProducer(p) \/ KickBP(p)
    BY <2>2, <2>5 DEF UnregProd, RmvProducer, KickBP
  <2>6. QED
    BY <1>4, <2>3, <2>4, <2>5 DEF ProducerStep
<1>5. ASSUME NEW v \in Voter, VoterStep(v) PROVE ActiveCanSign'
  BY <1>2, <1>5 DEF VoterStep, VoteProducer, VOnStake, UpdateVotes
<1>6. ASSUME NEW i \in StakeId, StakeStep(i) PROVE ActiveCanSign'
  BY <1>2, <1>6 DEF StakeStep, OpenStake, CloseStake
<1>7. CASE UNCHANGED vars
  BY <1>2, <1>7 DEF vars
<1>8. QED
  BY <1>3, <1>4, <1>5, <1>6, <1>7 DEF Next

(***************************************************************************)
(* An active producer can sign: the ways to register set a valid authority *)
(* and a deactivation resets the flag with the authority.                  *)
(***************************************************************************)
THEOREM ActiveProducersCanSign == Spec => []ActiveCanSign
<1>1. Init => ActiveCanSign
  BY DEF Init, ActiveCanSign
<1>2. QED
  BY <1>1, NextKeepsSigners, TallyInvariant, PTL DEF Spec

(***************************************************************************)
(* A vote is never recorded for an account that has not staked, and the    *)
(* end of a stake leaves its row.                                          *)
(***************************************************************************)
THEOREM OnlyStakersVote == Spec => []VotersHaveStaked
<1>1. Init => VotersHaveStaked
  BY DEF Init, VotersHaveStaked, HasVote
<1>2. TallyInv /\ VotersHaveStaked /\ [Next]_vars => VotersHaveStaked'
  <2> SUFFICES ASSUME TallyInv, VotersHaveStaked, [Next]_vars,
                      NEW u \in Voter, HasVote(u)'
               PROVE  StakesOf(u)' # {}
    BY DEF VotersHaveStaked
  <2>1. ASSUME UNCHANGED <<vote, stakes>> PROVE StakesOf(u)' # {}
    BY <2>1 DEF VotersHaveStaked, HasVote, StakesOf
  <2>2. ASSUME NEW acc \in Account, PermStep(acc) PROVE StakesOf(u)' # {}
    BY <2>1, <2>2 DEF PermStep, tallyVars
  <2>3. ASSUME NEW p \in Account, ProducerStep(p) PROVE StakesOf(u)' # {}
    BY <2>1, <2>3 DEF ProducerStep, RegProducer, RegProducer2, Register, UnregProd,
                      RmvProducer, KickBP, Deactivate, tallyVars
  <2>4. ASSUME NEW v \in Voter, NEW p \in Name, NEW voting \in BOOLEAN,
               UpdateVotes(v, p, voting)
        PROVE  StakesOf(u)' # {}
    <3>1. /\ MayVote(GetStaked(v))
          /\ vote' = [vote EXCEPT ![v] = p]
          /\ stakes' = stakes
      BY <2>4 DEF UpdateVotes
    <3>2. StakesOf(v) # {}
      BY <3>1, GetStakedType DEF MayVote, TallyInv
    <3>3. vote \in [Voter -> Name \cup {NoRow}]
      BY DEF TallyInv, TypeOK
    <3>4. u # v => HasVote(u)
      BY <3>1, <3>3 DEF HasVote
    <3>5. StakesOf(u) # {}
      BY <3>2, <3>4 DEF VotersHaveStaked
    <3>6. QED
      BY <3>1, <3>5 DEF StakesOf
  <2>5. ASSUME NEW v \in Voter, VoterStep(v) PROVE StakesOf(u)' # {}
    <3>1. ASSUME NEW p \in Name, VoteProducer(v, p) PROVE StakesOf(u)' # {}
      BY <2>4, <3>1 DEF VoteProducer
    <3>2. CASE VOnStake(v)
      <4>1. vote[v] \in Name /\ UpdateVotes(v, vote[v], FALSE)
        BY <3>2 DEF VOnStake, HasVote, TallyInv, TypeOK
      <4>2. QED
        BY <2>4, <4>1
    <3>3. QED
      BY <2>5, <3>1, <3>2 DEF VoterStep
  <2>6. ASSUME NEW i \in StakeId, StakeStep(i) PROVE StakesOf(u)' # {}
    <3>0. stakes \in [StakeId -> StakeRow \cup {NoRow}]
      BY DEF TallyInv, TypeOK
    <3>1. HasVote(u)
      BY <2>6 DEF StakeStep, OpenStake, CloseStake, tallyVars, HasVote
    <3>2. PICK j \in StakesOf(u) : TRUE
      BY <3>1 DEF VotersHaveStaked
    <3>3. CASE \E v \in Voter, n \in Amount : OpenStake(i, v, n)
      <4>1. j # i /\ stakes'[j] = stakes[j]
        BY <3>0, <3>2, <3>3 DEF OpenStake, StakesOf
      <4>2. QED
        BY <3>2, <4>1 DEF StakesOf
    <3>4. CASE \E status \in {STAKE_COMPLETED, STAKE_CANCELED} : CloseStake(i, status)
      <4>1. PICK status \in {STAKE_COMPLETED, STAKE_CANCELED} : CloseStake(i, status)
        BY <3>4
      <4>2. stakes[j] \in StakeRow /\ stakes[j].account = u
        BY <3>0, <3>2 DEF StakesOf
      <4>3. [stakes[j] EXCEPT !.status = status] \in StakeRow
        BY <4>1, <4>2 DEF StakeRow
      <4>4. stakes'[j] = IF j = i THEN [stakes[j] EXCEPT !.status = status] ELSE stakes[j]
        BY <3>0, <3>2, <4>1 DEF CloseStake, StakesOf
      <4>5. stakes'[j] # NoRow /\ stakes'[j].account = u
        BY <4>2, <4>3, <4>4, VotingAssumption DEF StakeRow
      <4>6. QED
        BY <3>2, <4>5 DEF StakesOf
    <3>5. QED
      BY <2>6, <3>3, <3>4 DEF StakeStep
  <2>7. CASE UNCHANGED vars
    BY <2>1, <2>7 DEF vars, tallyVars
  <2>8. QED
    BY <2>2, <2>3, <2>5, <2>6, <2>7 DEF Next
<1>3. QED
  BY <1>1, <1>2, TallyInvariant, PTL DEF Spec

(***************************************************************************)
(* A vote moves only between active producers (or from and to a name that  *)
(* is none, without weight): an inactive producer keeps its voters.        *)
(***************************************************************************)
THEOREM InactiveProducersKeepVoters == Spec => InactiveKeepVoters
<1>1. TallyInv /\ [Next]_vars => [KeepVoters]_vars
  <2> SUFFICES ASSUME TallyInv, Next, NEW q \in registered \ active
               PROVE  VotersOf(q)' = VotersOf(q)
    BY DEF KeepVoters
  <2>1. ASSUME UNCHANGED vote PROVE VotersOf(q)' = VotersOf(q)
    BY <2>1 DEF VotersOf
  <2>2. ASSUME NEW acc \in Account, PermStep(acc) PROVE VotersOf(q)' = VotersOf(q)
    BY <2>1, <2>2 DEF PermStep, tallyVars
  <2>3. ASSUME NEW p \in Account, ProducerStep(p) PROVE VotersOf(q)' = VotersOf(q)
    BY <2>1, <2>3 DEF ProducerStep, RegProducer, RegProducer2, Register, UnregProd,
                      RmvProducer, KickBP, Deactivate, tallyVars
  <2>4. ASSUME NEW v \in Voter, VoterStep(v) PROVE VotersOf(q)' = VotersOf(q)
    <3>0. vote \in [Voter -> Name \cup {NoRow}] /\ registered \subseteq Account
      BY DEF TallyInv, TypeOK
    <3>1. ASSUME NEW p \in Name, VoteProducer(v, p) PROVE VotersOf(q)' = VotersOf(q)
      <4>1. PICK old \in OldProducers(v) :
               /\ \A n \in {old, p} :
                     Accepts(n, TRUE, Delta(n, old, staked[v], p, GetStaked(v)))
               /\ vote' = [vote EXCEPT ![v] = p]
        BY <3>1 DEF VoteProducer, UpdateVotes
      <4>2. q # p /\ q # old
        BY <4>1 DEF Accepts
      <4>3. vote[v] # q
        BY <4>2, VotingAssumption, <3>0 DEF OldProducers, HasVote
      <4>4. QED
        BY <3>0, <4>1, <4>2, <4>3 DEF VotersOf
    <3>2. CASE VOnStake(v)
      <4>1. vote' = vote
        BY <3>0, <3>2 DEF VOnStake, UpdateVotes
      <4>2. QED
        BY <2>1, <4>1
    <3>3. QED
      BY <2>4, <3>1, <3>2 DEF VoterStep
  <2>5. ASSUME NEW i \in StakeId, StakeStep(i) PROVE VotersOf(q)' = VotersOf(q)
    BY <2>1, <2>5 DEF StakeStep, OpenStake, CloseStake, tallyVars
  <2>6. QED
    BY <2>2, <2>3, <2>4, <2>5 DEF Next
<1>2. Spec => [][KeepVoters]_vars
  BY <1>1, TallyInvariant, PTL DEF Spec
<1>3. QED
  BY <1>2 DEF InactiveKeepVoters

-----------------------------------------------------------------------------
(* The tables are empty at the start, and so are the ballots. *)
LEMMA InitBallots == Init => Polls!BallotInit
BY DEF Init, Polls!BallotInit

(* Whoever update_votes moves stands behind p, worth what it has staked. *)
LEMMA MovedStands ==
    ASSUME TallyInv, NEW v \in Voter, NEW p \in Name, NEW voting \in BOOLEAN,
           NEW old, NEW was, NEW now, VoterMoves(v, p, voting, old, was, now)
    PROVE  /\ Polls!Stand(v, p, staked'[v])
           /\ \A n \in {vote[v], p} \cap registered : voting => n \in active
<1>1. /\ was = staked[v]
      /\ now \in Nat /\ was \in Nat
      /\ HasVote(v) => old = vote[v]
      /\ ~HasVote(v) => was = 0
      /\ old \in Name
      /\ \A n \in {old, p} : Accepts(n, voting, Delta(n, old, was, p, now))
      /\ vote' = [vote EXCEPT ![v] = p]
      /\ staked' = [staked EXCEPT ![v] = now]
      /\ total_votes' = [n \in Account |-> total_votes'[n]]
      /\ UNCHANGED prodVars
  BY DEF VoterMoves
<1>2. /\ registered \subseteq Account
      /\ total_votes \in [Account -> Nat]
      /\ vote \in [Voter -> Name \cup {NoRow}]
      /\ staked \in [Voter -> Nat]
  BY DEF TallyInv, TypeOK
<1>3. staked'[v] = now
  BY <1>1, <1>2
<1>4. p \notin registered => staked'[v] = 0
  <2> SUFFICES ASSUME p \notin registered, now # 0 PROVE FALSE
    BY <1>3
  <2>1. Delta(p, old, was, p, now) = 0
    BY <1>1 DEF Accepts
  <2>2. old = p /\ was = now
    BY <1>1, <2>1 DEF Delta
  <2>3. HasVote(v) /\ staked[v] > 0 /\ vote[v] = p
    BY <1>1, <2>2
  <2>4. QED
    BY <2>3 DEF TallyInv, StakeLiesWithProducers
<1>5. ASSUME NEW n \in Account
      PROVE  total_votes'[n] = total_votes[n] - (IF n = vote[v] THEN staked[v] ELSE 0)
                                              + (IF n = p THEN staked'[v] ELSE 0)
  <2>1. total_votes'[n] = total_votes[n] + Delta(n, old, was, p, now)
    BY MovedTotals
  <2>2. (IF n = old THEN was ELSE 0) = (IF n = vote[v] THEN staked[v] ELSE 0)
    <3>1. n # NoRow
      BY VotingAssumption
    <3>2. QED
      BY <1>1, <3>1 DEF HasVote
  <2>3. total_votes[n] \in Nat
    BY <1>2
  <2>4. QED
    BY <1>1, <1>3, <2>1, <2>2, <2>3 DEF Delta
<1>6. Polls!Stand(v, p, staked'[v])
  <2>1. total_votes' = [c \in Account |->
           total_votes[c] - (IF c = vote[v] THEN staked[v] ELSE 0)
                          + (IF c = p THEN staked'[v] ELSE 0)]
    BY <1>1, <1>5
  <2>2. staked' = [staked EXCEPT ![v] = staked'[v]]
    BY <1>1, <1>3
  <2>3. QED
    BY <1>1, <1>4, <2>1, <2>2 DEF Polls!Stand, prodVars
<1>7. ASSUME NEW n \in {vote[v], p} \cap registered, voting
      PROVE  n \in active
  <2>1. n \in {old, p}
    BY <1>1, <1>2, VotingAssumption DEF HasVote
  <2>2. QED
    BY <1>1, <1>7, <2>1 DEF Accepts
<1>8. QED
  BY <1>6, <1>7

(* Every step is a step of the ballots, or none. *)
LEMMA NextBallots ==
    TallyInv /\ [Next]_vars => [Polls!BallotNext]_(Polls!ballotVars)
<1> SUFFICES ASSUME TallyInv, [Next]_vars
             PROVE  Polls!BallotNext \/ UNCHANGED Polls!ballotVars
  OBVIOUS
<1>1. ASSUME NEW acc \in Account, PermStep(acc) PROVE UNCHANGED Polls!ballotVars
  BY <1>1 DEF PermStep, prodVars, tallyVars, Polls!ballotVars
<1>2. ASSUME NEW p \in Account, ProducerStep(p) PROVE Polls!BallotNext
  <2>1. ASSUME NEW key, Register(p, key) PROVE Polls!BallotNext
    <3>1. Polls!Enter(p)
      BY <2>1 DEF Register, Polls!Enter, tallyVars
    <3>2. QED
      BY <3>1 DEF Polls!BallotNext
  <2>2. ASSUME Deactivate(p) PROVE Polls!BallotNext
    <3>1. Polls!Retire(p)
      BY <2>2 DEF Deactivate, Polls!Retire, tallyVars
    <3>2. QED
      BY <3>1 DEF Polls!BallotNext
  <2>3. QED
    BY <1>2, <2>1, <2>2
       DEF ProducerStep, RegProducer, RegProducer2, UnregProd, RmvProducer, KickBP
<1>3. ASSUME NEW v \in Voter, VoterStep(v) PROVE Polls!BallotNext
  <2>1. ASSUME NEW p \in Name, VoteProducer(v, p) PROVE Polls!BallotNext
    <3>1. PICK old, was, now : VoterMoves(v, p, TRUE, old, was, now)
      BY <2>1, UpdateVotesFacts DEF VoteProducer
    <3>2. Polls!Cast(v, p, staked'[v])
      BY <3>1, MovedStands DEF Polls!Cast
    <3>3. QED
      BY <3>2 DEF Polls!BallotNext
  <2>2. CASE VOnStake(v)
    <3>1. vote[v] \in Name /\ HasVote(v) /\ UpdateVotes(v, vote[v], FALSE)
      BY <2>2 DEF VOnStake, HasVote, TallyInv, TypeOK
    <3>2. PICK old, was, now : VoterMoves(v, vote[v], FALSE, old, was, now)
      BY <3>1, UpdateVotesFacts
    <3>3. Polls!Stand(v, vote[v], staked'[v])
      BY <3>1, <3>2, MovedStands
    <3>4. Polls!Follow(v, staked'[v])
      BY <3>1, <3>3 DEF Polls!Follow, HasVote
    <3>5. QED
      BY <3>4 DEF Polls!BallotNext
  <2>3. QED
    BY <1>3, <2>1, <2>2 DEF VoterStep
<1>4. ASSUME NEW i \in StakeId, StakeStep(i) PROVE UNCHANGED Polls!ballotVars
  BY <1>4 DEF StakeStep, OpenStake, CloseStake, prodVars, tallyVars, Polls!ballotVars
<1>5. CASE UNCHANGED vars
  BY <1>5 DEF vars, prodVars, tallyVars, Polls!ballotVars
<1>6. QED
  BY <1>1, <1>2, <1>3, <1>4, <1>5 DEF Next

(***************************************************************************)
(* Voting is the abstract ballot: through votes moved, stakes grown and    *)
(* shrunk, kicks and registrations, a vote is counted for one producer,    *)
(* with what it was worth when last recorded, and an inactive producer     *)
(* neither gains nor loses a voter.                                        *)
(***************************************************************************)
THEOREM VotingImplementsBallots == Spec => ImplementsBallots
<1>1. Spec => Polls!BallotInit /\ [][Polls!BallotNext]_(Polls!ballotVars)
  BY InitBallots, NextBallots, TallyInvariant, PTL DEF Spec
<1>2. QED
  BY <1>1 DEF ImplementsBallots, Polls!BallotSpec

-----------------------------------------------------------------------------
(* Registration and kicks touch the permission table as its own actions do. *)
LEMMA NextPermissions ==
    [Next]_vars => [\E acc \in Account : PermNext(acc)]_perms
<1> SUFFICES ASSUME [Next]_vars
             PROVE  (\E acc \in Account : PermNext(acc)) \/ UNCHANGED perms
  OBVIOUS
<1>1. ASSUME NEW p \in Account, ProducerStep(p)
      PROVE  KickPerm(p) \/ UNCHANGED perms
  BY <1>1 DEF ProducerStep, RegProducer, RegProducer2, Register, UnregProd,
              RmvProducer, KickBP
<1>2. ASSUME NEW v \in Voter, VoterStep(v) PROVE UNCHANGED perms
  BY <1>2 DEF VoterStep, VoteProducer, VOnStake, UpdateVotes
<1>3. ASSUME NEW i \in StakeId, StakeStep(i) PROVE UNCHANGED perms
  BY <1>3 DEF StakeStep, OpenStake, CloseStake
<1>4. QED
  BY <1>1, <1>2, <1>3 DEF Next, PermStep, PermNext, vars

(***************************************************************************)
(* Whatever libre.system does is, for eosio.libre, a behaviour of its own  *)
(* table: what is proved of the permissions alone holds of the whole.      *)
(***************************************************************************)
THEOREM VotingUsesPermissions == Spec => PermSpec
<1>1. Init => PermInit
  BY DEF Init
<1>2. QED
  BY <1>1, NextPermissions, PTL DEF Spec, PermSpec

=============================================================================
