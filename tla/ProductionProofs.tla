-------------------------- MODULE ProductionProofs --------------------------
(***************************************************************************)
(* The blocks, for any producers, voters, holders, schedules and times.    *)
(* Counts: rows of producers are those of accounts, so that the one block  *)
(* counted is one of the counts summed.  Elections: the index is an order, *)
(* and VotingProofs says what its rows hold.  Money: an hour's pay is two  *)
(* of the actions whose effect TokenProofs states of any ledger.           *)
(***************************************************************************)
EXTENDS ProductionProperties, VotingProofs, TokenProofs, FiniteSetTheorems

CountInv ==
    /\ registered \subseteq Account
    /\ unpaid_blocks \in [Account -> Nat]
    /\ total_unpaid_blocks \in Int
    /\ UnpaidAddUp

counts == <<unpaid_blocks, total_unpaid_blocks>>

(* The block just counted raises one count and the total, or neither. *)
LEMMA CountedFacts ==
    ASSUME CountInv
    PROVE  /\ Counted \in [Account -> Nat]
           /\ SumFunctionOnSet(Counted, Account)
                = total_unpaid_blocks + IF head.producer \in registered THEN 1 ELSE 0
<1>1. unpaid_blocks \in [Account -> Nat] /\ IsFiniteSet(Account)
  BY VotingAssumption DEF CountInv
<1>2. Counted \in [Account -> Nat]
  BY <1>1 DEF Counted
<1>3. /\ unpaid_blocks \in [Account -> Int]
      /\ Counted \in [Account -> Int]
  BY <1>1, <1>2
<1>4. SumFunctionOnSet(unpaid_blocks, Account) = total_unpaid_blocks
  BY DEF CountInv, UnpaidAddUp
<1>5. CASE head.producer \in registered
  <2>1. head.producer \in Account
    BY <1>5 DEF CountInv
  <2>2. \A p \in Account : p # head.producer => Counted[p] = unpaid_blocks[p]
    BY <1>1 DEF Counted
  <2>3. Counted[head.producer] = unpaid_blocks[head.producer] + 1
    BY <1>1, <1>5, <2>1 DEF Counted
  <2>4. SumFunctionOnSet(Counted, Account)
          = SumFunctionOnSet(unpaid_blocks, Account)
              - unpaid_blocks[head.producer] + Counted[head.producer]
    BY <1>1, <1>3, <2>1, <2>2, SumChangeOne
  <2>5. total_unpaid_blocks \in Int /\ unpaid_blocks[head.producer] \in Nat
    BY <1>1, <2>1 DEF CountInv
  <2>6. QED
    BY <1>2, <1>4, <1>5, <2>3, <2>4, <2>5
<1>6. CASE head.producer \notin registered
  <2>1. \A p \in Account : Counted[p] = unpaid_blocks[p]
    BY <1>1, <1>6 DEF Counted
  <2>2. Counted = unpaid_blocks
    BY <1>1, <1>2, <2>1
  <2>3. total_unpaid_blocks \in Int
    BY DEF CountInv
  <2>4. QED
    BY <1>2, <1>4, <1>6, <2>2, <2>3
<1>7. QED
  BY <1>5, <1>6

(* The pay of an hour takes from the total what it takes from the producers. *)
LEMMA PayKeepsCounts ==
    ASSUME CountInv, NEW now, UpdRewards(now)
    PROVE  /\ unpaid_blocks' \in [Account -> Nat]
           /\ total_unpaid_blocks' \in Int
           /\ UnpaidAddUp'
<1>1. IsFiniteSet(Account)
  BY VotingAssumption
<1>2. /\ unpaid_blocks' = [p \in Account |-> 0]
      /\ total_unpaid_blocks' =
            total_unpaid_blocks + (IF head.producer \in registered THEN 1 ELSE 0)
                                - SumFunctionOnSet(Counted, Account)
  BY DEF UpdRewards
<1>3. /\ unpaid_blocks' \in [Account -> Nat]
      /\ unpaid_blocks' \in [Account -> Int]
      /\ \A p \in Account : unpaid_blocks'[p] = 0
  BY <1>2
<1>4. SumFunctionOnSet(unpaid_blocks', Account) = 0
  BY <1>1, <1>3, SumZero
<1>5. total_unpaid_blocks' = 0
  BY <1>2, CountedFacts DEF CountInv
<1>6. QED
  BY <1>3, <1>4, <1>5 DEF UnpaidAddUp

LEMMA CountKeepsCounts ==
    ASSUME CountInv, CountOnly
    PROVE  /\ unpaid_blocks' \in [Account -> Nat]
           /\ total_unpaid_blocks' \in Int
           /\ UnpaidAddUp'
BY CountedFacts DEF CountOnly, CountInv, UnpaidAddUp

(* Registration makes rows of accounts; nothing takes a row away. *)
LEMMA VotingKeepsRows ==
    ASSUME registered \subseteq Account, Next
    PROVE  registered' \subseteq Account /\ registered \subseteq registered'
<1>1. ASSUME NEW p \in Account, ProducerStep(p)
      PROVE  registered' \subseteq Account /\ registered \subseteq registered'
  BY <1>1 DEF ProducerStep, RegProducer, RegProducer2, Register, UnregProd, RmvProducer,
              KickBP, Deactivate
<1>2. ASSUME NEW acc \in Account, PermStep(acc)
      PROVE  registered' \subseteq Account /\ registered \subseteq registered'
  BY <1>2 DEF PermStep, prodVars
<1>3. ASSUME NEW v \in Voter, VoterStep(v)
      PROVE  registered' \subseteq Account /\ registered \subseteq registered'
  BY <1>3 DEF VoterStep, VoteProducer, VOnStake, UpdateVotes, prodVars
<1>4. ASSUME NEW i \in StakeId, StakeStep(i)
      PROVE  registered' \subseteq Account /\ registered \subseteq registered'
  BY <1>4 DEF StakeStep, OpenStake, CloseStake, prodVars
<1>5. QED
  BY <1>1, <1>2, <1>3, <1>4 DEF Next

(* Steps that leave the counts alone. *)
LEMMA OthersKeepCounts ==
    ASSUME CountInv, UNCHANGED counts, registered' \subseteq Account
    PROVE  CountInv'
BY DEF CountInv, UnpaidAddUp, counts

(* Counting and paying are the only steps that change the counts. *)
LEMMA CountsHold == BlockSpec => []CountInv
<1>1. BlockInit => CountInv
  <2> SUFFICES ASSUME BlockInit PROVE CountInv
    OBVIOUS
  <2>1. registered = {} /\ unpaid_blocks = [p \in Account |-> 0] /\ total_unpaid_blocks = 0
    BY DEF BlockInit, Init
  <2>2. /\ unpaid_blocks \in [Account -> Nat]
        /\ unpaid_blocks \in [Account -> Int]
        /\ \A p \in Account : unpaid_blocks[p] = 0
    BY <2>1
  <2>3. SumFunctionOnSet(unpaid_blocks, Account) = 0
    BY <2>2, SumZero, VotingAssumption
  <2>4. QED
    BY <2>1, <2>2, <2>3 DEF CountInv, UnpaidAddUp
<1>2. CountInv /\ [BlockNext]_allVars => CountInv'
  <2> SUFFICES ASSUME CountInv, [BlockNext]_allVars PROVE CountInv'
    OBVIOUS
  <2>0. registered \subseteq Account
    BY DEF CountInv
  <2>1. ASSUME NEW gap \in Gaps, NEW p \in Name, Block(gap, p) PROVE CountInv'
    <3> DEFINE now == head.slot + gap
    <3>1. registered' \subseteq Account /\ (OnBlock(now) \/ OnBlockFails(now))
      BY <2>0, <2>1 DEF Block, vars, prodVars
    <3> HIDE DEF now
    <3>2. CASE OnBlockFails(now)
      BY <3>1, <3>2, OthersKeepCounts DEF OnBlockFails, onblockVars, payVars, counts
    <3>3. CASE OnBlock(now)
      <4>1. UpdRewards(now) \/ CountOnly
        BY <3>3 DEF OnBlock
      <4>2. QED
        BY <3>1, <4>1, PayKeepsCounts, CountKeepsCounts DEF CountInv
    <3>4. QED
      BY <3>1, <3>2, <3>3
  <2>2. CASE Adopt
    BY <2>0, <2>2, OthersKeepCounts DEF Adopt, vars, prodVars, payVars, counts
  <2>3. ASSUME NEW p \in Account, ClaimRewards(p) PROVE CountInv'
    BY <2>0, <2>3, OthersKeepCounts DEF ClaimRewards, vars, prodVars, counts
  <2>4. CASE TokenStep
    BY <2>0, <2>4, OthersKeepCounts DEF TokenStep, vars, prodVars, onblockVars, payVars, counts
  <2>5. CASE VotingStep
    BY <2>0, <2>5, VotingKeepsRows, OthersKeepCounts DEF VotingStep, onblockVars, payVars, counts
  <2>6. CASE UNCHANGED allVars
    BY <2>0, <2>6, OthersKeepCounts
       DEF allVars, vars, prodVars, onblockVars, payVars, counts
  <2>7. QED
    BY <2>1, <2>2, <2>3, <2>4, <2>5, <2>6 DEF BlockNext
<1>3. QED
  BY <1>1, <1>2, PTL DEF BlockSpec

(***************************************************************************)
(* The total of unpaid blocks is the sum of the producers' counts, however *)
(* many register, leave or are kicked between an onblock and the pay, and  *)
(* whichever onblock fails.                                                *)
(***************************************************************************)
THEOREM BlocksAreCounted == BlockSpec => []UnpaidAddUp
<1>1. CountInv => UnpaidAddUp
  BY DEF CountInv
<1>2. QED
  BY <1>1, CountsHold, PTL

-----------------------------------------------------------------------------
(***************************************************************************)
(* The elections.  What runs between two blocks are the steps of Voting,   *)
(* so that what is proved of them holds here.                              *)
(***************************************************************************)
VoteInv == TallyInv /\ ActiveCanSign

LEMMA VotesOfTheChain == BlockSpec => []VoteInv
<1>1. BlockInit => VoteInv
  BY InitTally DEF BlockInit, VoteInv, Init, ActiveCanSign
<1>2. [BlockNext]_allVars => [Next]_vars
  BY DEF BlockNext, Block, Adopt, ClaimRewards, TokenStep, VotingStep, allVars
<1>3. VoteInv /\ [BlockNext]_allVars => VoteInv'
  BY <1>2, NextTally, NextKeepsSigners DEF VoteInv
<1>4. QED
  BY <1>1, <1>3, PTL DEF BlockSpec

(* The index sorts the rows: by votes, and by name when these are equal. *)
LEMMA RowsAreOrdered ==
    ASSUME VoteInv
    PROVE  /\ IsFiniteSet(registered)
           /\ active \subseteq registered
           /\ \A p \in registered : ByVotes(p) \in Int /\ total_votes[p] \in Nat
           /\ \A p \in registered : ~Before(p, p)
           /\ \A p, q \in registered : p = q \/ Before(p, q) \/ Before(q, p)
           /\ \A p, q, r \in registered : Before(p, q) /\ Before(q, r) => Before(p, r)
<1>1. /\ registered \subseteq Account
      /\ active \subseteq registered
      /\ total_votes \in [Account -> Nat]
  BY DEF VoteInv, TallyInv, TypeOK
<1>2. IsFiniteSet(registered)
  BY <1>1, VotingAssumption, FS_Subset
<1>3. \A p \in registered : ByVotes(p) \in Int /\ total_votes[p] \in Nat
  BY <1>1 DEF ByVotes
<1>4. /\ \A p \in registered : NameValue[p] \in Nat
      /\ \A p, q \in registered : NameValue[p] = NameValue[q] => p = q
  BY <1>1, ProductionAssumption
<1>5. /\ \A p \in registered : ~Before(p, p)
      /\ \A p, q \in registered : p = q \/ Before(p, q) \/ Before(q, p)
      /\ \A p, q, r \in registered : Before(p, q) /\ Before(q, r) => Before(p, r)
  BY <1>3, <1>4 DEF Before
<1>6. QED
  BY <1>1, <1>2, <1>3, <1>5

(* The rows before p, of which the loop has passed when it comes to p. *)
Ahead(p) == {q \in registered : Before(q, p)}

LEMMA AheadFacts ==
    ASSUME VoteInv, NEW p \in registered
    PROVE  /\ Ahead(p) \subseteq registered
           /\ IsFiniteSet(Ahead(p))
           /\ Cardinality(Ahead(p)) \in Nat
           /\ \A q \in Ahead(p) : /\ Ahead(q) \subseteq Ahead(p)
                                  /\ Cardinality(Ahead(q)) < Cardinality(Ahead(p))
<1>1. Ahead(p) \subseteq registered /\ IsFiniteSet(registered)
  BY RowsAreOrdered DEF Ahead
<1>2. \A S \in SUBSET registered : IsFiniteSet(S) /\ Cardinality(S) \in Nat
  BY <1>1, FS_Subset, FS_CardinalityType
<1>3. ASSUME NEW q \in Ahead(p)
      PROVE  /\ Ahead(q) \subseteq Ahead(p)
             /\ Cardinality(Ahead(q)) < Cardinality(Ahead(p))
  <2>1. q \in registered /\ Before(q, p)
    BY <1>3 DEF Ahead
  <2>2. Ahead(q) \subseteq Ahead(p)
    BY <2>1, RowsAreOrdered DEF Ahead
  <2>3. q \notin Ahead(q)
    BY <2>1, RowsAreOrdered DEF Ahead
  <2>4. /\ Cardinality(Ahead(q)) <= Cardinality(Ahead(p))
        /\ Cardinality(Ahead(p)) = Cardinality(Ahead(q)) => Ahead(p) = Ahead(q)
    BY <1>1, <1>2, <2>2, FS_Subset
  <2>5. Cardinality(Ahead(q)) \in Nat /\ Cardinality(Ahead(p)) \in Nat
    BY <1>1, <1>2, <2>2
  <2>6. Ahead(p) # Ahead(q)
    BY <1>3, <2>3
  <2>7. QED
    BY <2>2, <2>4, <2>5, <2>6
<1>4. QED
  BY <1>1, <1>2, <1>3

(* Some rows, if any, have a first. *)
LEMMA FirstRow ==
    ASSUME VoteInv, NEW T, T \subseteq registered, T # {}
    PROVE  \E m \in T : \A q \in T : q = m \/ Before(m, q)
<1> DEFINE Bad == {Ahead(p) : p \in T}
<1>0. \A p \in T : Ahead(p) \subseteq registered
  BY DEF Ahead
<1>1. /\ IsFiniteSet(registered)
      /\ Bad \subseteq SUBSET registered
      /\ Bad # {}
  <2> HIDE DEF Ahead
  <2>1. QED
    BY <1>0, RowsAreOrdered
<1>2. PICK S \in Bad : \A U \in Bad : U \subseteq S => U = S
  <2> HIDE DEF Bad
  <2>1. QED
    BY <1>1, MinimalSubset
<1>3. PICK m \in T : S = Ahead(m)
  OBVIOUS
<1>4. ASSUME NEW q \in T, Before(q, m)
      PROVE  FALSE
  <2>1. q \in Ahead(m) /\ q \notin Ahead(q) /\ m \in registered /\ q \in registered
    BY <1>4, RowsAreOrdered DEF Ahead
  <2>2. Ahead(q) \subseteq Ahead(m)
    BY <2>1, AheadFacts
  <2>3. Ahead(q) = Ahead(m)
    BY <1>2, <1>3, <2>2
  <2>4. QED
    BY <2>1, <2>3
<1>5. QED
  BY <1>4, RowsAreOrdered

(* ... and a last. *)
LEMMA LastRow ==
    ASSUME VoteInv, NEW T, T \subseteq registered, T # {}
    PROVE  \E m \in T : \A q \in T : q = m \/ Before(q, m)
<1> DEFINE Rest(p) == {q \in registered : Before(p, q)}
           Bad == {Rest(p) : p \in T}
<1>0. \A p \in T : Rest(p) \subseteq registered
  OBVIOUS
<1>1. /\ IsFiniteSet(registered)
      /\ Bad \subseteq SUBSET registered
      /\ Bad # {}
  <2> HIDE DEF Rest
  <2>1. QED
    BY <1>0, RowsAreOrdered
<1>2. PICK S \in Bad : \A U \in Bad : U \subseteq S => U = S
  <2> HIDE DEF Bad
  <2>1. QED
    BY <1>1, MinimalSubset
<1>3. PICK m \in T : S = Rest(m)
  OBVIOUS
<1>4. ASSUME NEW q \in T, Before(m, q)
      PROVE  FALSE
  <2>1. q \in Rest(m) /\ q \notin Rest(q) /\ m \in registered /\ q \in registered
    BY <1>4, RowsAreOrdered
  <2>2. Rest(q) \subseteq Rest(m)
    BY <1>4, <2>1, RowsAreOrdered
  <2>3. Rest(q) \in Bad
    OBVIOUS
  <2> HIDE DEF Bad, Rest
  <2>4. QED
    BY <1>2, <1>3, <2>1, <2>2, <2>3
<1>5. QED
  BY <1>4, RowsAreOrdered

LEMMA TopFacts ==
    ASSUME VoteInv
    PROVE  /\ TopProducers \subseteq active
           /\ TopProducers \subseteq registered
           /\ IsFiniteSet(TopProducers)
           /\ Cardinality(TopProducers) \in Nat
           /\ \A p \in TopProducers : Electable(p)
           /\ \A p \in registered :
                 p \in TopProducers <=> /\ Cardinality(Ahead(p)) < ScheduleLimit
                                        /\ Electable(p)
                                        /\ \A q \in Ahead(p) : Electable(q)
<1>1. \A p \in registered :
         p \in TopProducers <=> /\ Cardinality(Ahead(p)) < ScheduleLimit
                                /\ Electable(p)
                                /\ \A q \in Ahead(p) : Electable(q)
  BY DEF TopProducers, Ahead
<1>2. TopProducers \subseteq registered
  BY DEF TopProducers
<1>3. \A p \in TopProducers : Electable(p)
  BY <1>1, <1>2
<1>4. TopProducers \subseteq active
  BY <1>3 DEF Electable
<1>5. IsFiniteSet(TopProducers) /\ Cardinality(TopProducers) \in Nat
  BY <1>2, RowsAreOrdered, FS_Subset, FS_CardinalityType
<1>6. QED
  BY <1>1, <1>2, <1>3, <1>4, <1>5

(* The last of the producers chosen has all the others before it. *)
LEMMA TopFitsTheLimit ==
    ASSUME VoteInv
    PROVE  Cardinality(TopProducers) <= ScheduleLimit
<1>0. ScheduleLimit \in Nat
  BY ProductionAssumption
<1>1. CASE TopProducers = {}
  BY <1>0, <1>1, FS_EmptySet
<1>2. CASE TopProducers # {}
  <2>1. PICK m \in TopProducers : \A q \in TopProducers : q = m \/ Before(q, m)
    BY <1>2, TopFacts, LastRow
  <2>2. m \in registered /\ Cardinality(Ahead(m)) < ScheduleLimit
    BY TopFacts
  <2>3. /\ IsFiniteSet(Ahead(m)) /\ Cardinality(Ahead(m)) \in Nat
        /\ m \notin Ahead(m)
    BY <2>2, AheadFacts, RowsAreOrdered DEF Ahead
  <2>4. TopProducers \subseteq Ahead(m) \cup {m}
    BY <2>1, TopFacts DEF Ahead
  <2>5. /\ IsFiniteSet(Ahead(m) \cup {m})
        /\ Cardinality(Ahead(m) \cup {m}) = Cardinality(Ahead(m)) + 1
    BY <2>3, FS_AddElement
  <2>6. Cardinality(TopProducers) <= Cardinality(Ahead(m) \cup {m})
    BY <2>4, <2>5, FS_Subset
  <2>7. Cardinality(TopProducers) \in Nat
    BY TopFacts
  <2>8. QED
    BY <1>0, <2>2, <2>3, <2>5, <2>6, <2>7
<1>3. QED
  BY <1>1, <1>2

(* Before an electable row there are electable rows only. *)
LEMMA ElectableAhead ==
    ASSUME VoteInv, NEW p \in registered, Electable(p), NEW q \in Ahead(p)
    PROVE  Electable(q)
<1>1. q \in registered /\ Before(q, p)
  BY DEF Ahead
<1>2. /\ ByVotes(p) \in Int /\ ByVotes(q) \in Int
      /\ total_votes[p] \in Nat /\ total_votes[q] \in Nat
  BY <1>1, RowsAreOrdered
<1>3. ByVotes(q) <= ByVotes(p)
  BY <1>1, <1>2 DEF Before
<1>4. ByVotes(p) < 0
  BY <1>2 DEF ByVotes, Electable
<1>5. QED
  BY <1>2, <1>3, <1>4 DEF ByVotes, Electable

(* An electable row that is left out has a full schedule before it. *)
LEMMA LeftOutByTheLimit ==
    ASSUME VoteInv, NEW p \in registered \ TopProducers, Electable(p)
    PROVE  /\ Cardinality(TopProducers) = ScheduleLimit
           /\ TopProducers \subseteq Ahead(p)
<1> DEFINE Left == Ahead(p) \ TopProducers
<1>0. ScheduleLimit \in Nat
  BY ProductionAssumption
<1>1. \A q \in Ahead(p) : Electable(q)
  BY ElectableAhead
<1>2. Cardinality(Ahead(p)) >= ScheduleLimit /\ Cardinality(Ahead(p)) \in Nat
  <2>1. Cardinality(Ahead(p)) \in Nat
    BY AheadFacts
  <2>2. ~(Cardinality(Ahead(p)) < ScheduleLimit)
    BY <1>1, TopFacts
  <2>3. QED
    BY <1>0, <2>1, <2>2
<1>3. TopProducers \subseteq Ahead(p)
  <2> SUFFICES ASSUME NEW t \in TopProducers, t \notin Ahead(p) PROVE FALSE
    OBVIOUS
  <2>1. t \in registered /\ Cardinality(Ahead(t)) < ScheduleLimit /\ t # p
    BY TopFacts
  <2>2. Before(p, t)
    BY <2>1, RowsAreOrdered DEF Ahead
  <2>3. p \in Ahead(t)
    BY <2>2 DEF Ahead
  <2>4. Cardinality(Ahead(p)) < Cardinality(Ahead(t)) /\ Cardinality(Ahead(t)) \in Nat
    BY <2>1, <2>3, AheadFacts
  <2>5. QED
    BY <1>0, <1>2, <2>1, <2>4
<1>4. Cardinality(TopProducers) >= ScheduleLimit
  <2> SUFFICES ASSUME ~(Cardinality(TopProducers) >= ScheduleLimit) PROVE FALSE
    OBVIOUS
  <2>0. Cardinality(TopProducers) \in Nat /\ Cardinality(TopProducers) < ScheduleLimit
    BY <1>0, TopFacts
  <2>1. Left # {}
    <3>1. Ahead(p) # TopProducers
      BY <1>0, <1>2, <2>0
    <3>2. QED
      BY <1>3, <3>1
  <2>2. Left \subseteq registered
    BY AheadFacts
  <2>3. PICK m \in Left : \A q \in Left : q = m \/ Before(m, q)
    <3> HIDE DEF Left
    <3>1. QED
      BY <2>1, <2>2, FirstRow
  <2>4. m \in registered /\ m \in Ahead(p) /\ m \notin TopProducers
    BY <2>2, <2>3
  <2>5. Ahead(m) \subseteq Ahead(p) /\ Ahead(m) \subseteq registered
    BY <2>4, AheadFacts
  <2>6. Ahead(m) \subseteq TopProducers
    <3> SUFFICES ASSUME NEW q \in Ahead(m), q \notin TopProducers PROVE FALSE
      OBVIOUS
    <3>1. q \in Left /\ q \in registered /\ Before(q, m)
      BY <2>5 DEF Ahead
    <3>2. q = m \/ Before(m, q)
      BY <2>3, <3>1
    <3>3. QED
      BY <2>4, <3>1, <3>2, RowsAreOrdered
  <2>7. Cardinality(Ahead(m)) <= Cardinality(TopProducers)
    BY <2>6, TopFacts, FS_Subset
  <2>8. Cardinality(Ahead(m)) \in Nat
    BY <2>4, AheadFacts
  <2>9. Cardinality(Ahead(m)) < ScheduleLimit
    BY <1>0, <2>0, <2>7, <2>8
  <2>10. m \in TopProducers
    BY <1>1, <2>4, <2>5, <2>9, TopFacts
  <2>11. QED
    BY <2>4, <2>10
<1>5. Cardinality(TopProducers) = ScheduleLimit
  BY <1>0, <1>4, TopFitsTheLimit, TopFacts
<1>6. QED
  BY <1>3, <1>5

(***************************************************************************)
(* The index and the loop that stops at the first refusal choose the best, *)
(* as many as there is room for, for every number of producers and votes.  *)
(***************************************************************************)
THEOREM TheBestAreChosen == BlockSpec => []TopAreTheBest
<1>1. VoteInv => TopAreTheBest
  <2> SUFFICES ASSUME VoteInv PROVE TopAreTheBest
    OBVIOUS
  <2>1. \A p \in TopProducers : p \in active /\ total_votes[p] > 0
    BY TopFacts DEF Electable
  <2>2. ASSUME NEW p \in active \ TopProducers, total_votes[p] > 0
        PROVE  /\ Cardinality(TopProducers) = ScheduleLimit
               /\ \A q \in TopProducers : total_votes[q] >= total_votes[p]
    <3>1. p \in registered /\ Electable(p)
      BY <2>2, RowsAreOrdered DEF Electable
    <3>2. /\ Cardinality(TopProducers) = ScheduleLimit
          /\ TopProducers \subseteq Ahead(p)
      BY <2>2, <3>1, LeftOutByTheLimit
    <3>3. ASSUME NEW q \in TopProducers
          PROVE  total_votes[q] >= total_votes[p]
      <4>1. q \in active /\ q \in registered /\ Before(q, p)
        BY <3>2, TopFacts DEF Ahead
      <4>2. total_votes[p] \in Nat /\ total_votes[q] \in Nat
        BY <3>1, <4>1, RowsAreOrdered
      <4>3. ByVotes(p) = -total_votes[p] /\ ByVotes(q) = -total_votes[q]
        BY <2>2, <4>1 DEF ByVotes
      <4>4. -total_votes[q] <= -total_votes[p]
        BY <4>1, <4>2, <4>3 DEF Before
      <4>5. QED
        BY <4>2, <4>4
    <3>4. QED
      BY <3>2, <3>3
  <2>3. QED
    BY <2>1, <2>2, TopFitsTheLimit DEF TopAreTheBest
<1>2. QED
  BY <1>1, VotesOfTheChain, PTL

-----------------------------------------------------------------------------
(***************************************************************************)
(* The types of what onblock keeps, in three parts.                        *)
(***************************************************************************)
PayTypes ==
    /\ unpaid_blocks \in [Account -> Nat]
    /\ \A p \in Account \ registered : unpaid_blocks[p] = 0
    /\ total_unpaid_blocks \in Nat
    /\ payments \in [Account -> Nat \cup {NoRow}]

ClockTypes ==
    /\ last_updated_reward \in 0..head.slot
    /\ last_block_num \in 0..head.slot
    /\ activated_time \in 0..head.slot
    /\ last_producer_schedule_update \in 0..head.slot
    /\ head \in [number: 1..MaxBlocks, slot: Nat, producer: Name]

ScheduleTypes ==
    /\ last_producer_schedule_size \in 0..ScheduleLimit
    /\ schedule \in Schedules
    /\ proposed \in Schedules \cup {NoRow}

LEMMA TypesInParts == ProductionTypeOK <=> PayTypes /\ ClockTypes /\ ScheduleTypes
BY DEF ProductionTypeOK, PayTypes, ClockTypes, ScheduleTypes

(* Each producer is paid a natural amount, nothing for no blocks. *)
LEMMA NewTokensFacts ==
    ASSUME CountInv, NEW now
    PROVE  /\ Counted \in [Account -> Nat]
           /\ NewTokens(now) \in [Account -> Nat]
           /\ \A p \in Account : Counted[p] = 0 => NewTokens(now)[p] = 0
           /\ Total(now) \in Nat
<1> DEFINE k == PayPerBlock(head.slot - Activated(now))
<1>1. k \in {1, 2, 4}
  BY DEF PayPerBlock
<1>2. NewTokens(now) = [p \in Account |-> k * Counted[p]]
  BY DEF NewTokens
<1> HIDE DEF k
<1>3. Counted \in [Account -> Nat]
  BY CountedFacts
<1>4. /\ NewTokens(now) \in [Account -> Nat]
      /\ \A p \in Account : Counted[p] = 0 => NewTokens(now)[p] = 0
  BY <1>1, <1>2, <1>3
<1>5. Total(now) \in Nat
  BY <1>4, SumNat, VotingAssumption DEF Total
<1>6. QED
  BY <1>3, <1>4, <1>5

(* Whichever way onblock ends, the rows of the pay keep their types. *)
LEMMA BlockKeepsPay ==
    ASSUME CountInv, CountInv', PayTypes, registered' = registered, NEW now,
           OnBlock(now) \/ OnBlockFails(now)
    PROVE  PayTypes'
<1>0. total_unpaid_blocks' \in Nat
  <2>1. /\ unpaid_blocks' \in [Account -> Nat]
        /\ total_unpaid_blocks' = SumFunctionOnSet(unpaid_blocks', Account)
    BY DEF CountInv, UnpaidAddUp
  <2>2. QED
    BY <2>1, SumNat, VotingAssumption
<1>1. CASE OnBlockFails(now)
  BY <1>1 DEF OnBlockFails, onblockVars, payVars, PayTypes
<1>2. CASE OnBlock(now) /\ UpdRewards(now)
  <2>1. \A p \in Account : Owed(p) \in Nat
    BY DEF PayTypes, Owed
  <2>2. payments' = [p \in Account |->
           IF Counted[p] = 0 THEN payments[p] ELSE Owed(p) + NewTokens(now)[p]]
    BY <1>2 DEF UpdRewards
  <2>3. payments' \in [Account -> Nat \cup {NoRow}]
    BY <2>1, <2>2, NewTokensFacts DEF PayTypes
  <2>4. unpaid_blocks' = [p \in Account |-> 0]
    BY <1>2 DEF UpdRewards
  <2>5. QED
    BY <1>0, <2>3, <2>4 DEF PayTypes
<1>3. CASE OnBlock(now) /\ CountOnly
  <2>1. unpaid_blocks' = Counted /\ payments' = payments
    BY <1>3 DEF CountOnly
  <2>2. \A p \in Account \ registered : Counted[p] = 0
    BY DEF Counted, PayTypes
  <2>3. QED
    BY <1>0, <2>1, <2>2, NewTokensFacts DEF PayTypes
<1>4. QED
  BY <1>1, <1>2, <1>3 DEF OnBlock

(* Times are those of blocks there have been. *)
LEMMA BlockKeepsClock ==
    ASSUME ClockTypes, NEW gap \in Gaps, NEW p \in Name, Block(gap, p)
    PROVE  ClockTypes'
<1> DEFINE now == head.slot + gap
<1>1. /\ head.slot \in Nat /\ head.number \in 1..MaxBlocks
      /\ gap \in Nat /\ gap > 0 /\ MaxBlocks \in Nat
  BY ProductionAssumption DEF ClockTypes
<1>2. /\ head.number < MaxBlocks
      /\ OnBlock(now) \/ OnBlockFails(now)
      /\ head' = [number |-> head.number + 1, slot |-> now, producer |-> p]
  BY DEF Block
<1>3. now \in Nat /\ head.slot <= now
  BY <1>1
<1> HIDE DEF now
<1>4. head' \in [number: 1..MaxBlocks, slot: Nat, producer: Name] /\ head'.slot = now
  BY <1>1, <1>2, <1>3
<1>5. 0..head.slot \subseteq 0..now /\ head.slot \in 0..now /\ now \in 0..now
  BY <1>1, <1>3
<1>6. CASE OnBlockFails(now)
  BY <1>4, <1>5, <1>6
     DEF OnBlockFails, onblockVars, payVars, clockVars, electionVars, ClockTypes
<1>7. CASE OnBlock(now)
  <2>1. last_block_num' = head.slot /\ activated_time' = Activated(now)
    BY <1>7 DEF OnBlock
  <2>2. last_updated_reward' \in {now, last_updated_reward}
    BY <1>7 DEF OnBlock, UpdRewards, CountOnly
  <2>3. last_producer_schedule_update' \in {head.slot, last_producer_schedule_update}
    BY <1>7 DEF OnBlock, UpdateElectedProducers, electionVars
  <2>4. Activated(now) \in {now, activated_time}
    BY DEF Activated
  <2>5. QED
    BY <1>4, <1>5, <2>1, <2>2, <2>3, <2>4 DEF ClockTypes
<1>8. QED
  BY <1>2, <1>6, <1>7

(* An elected schedule has keys that sign, and fits. *)
LEMMA ElectedSchedule ==
    ASSUME VoteInv
    PROVE  /\ TopSchedule \in Schedules
           /\ DOMAIN TopSchedule = TopProducers
           /\ Cardinality(TopProducers) \in 0..ScheduleLimit
<1>1. TopProducers \subseteq active /\ active \subseteq Name
  BY TopFacts, VotingAssumption DEF VoteInv, TallyInv, TypeOK
<1>2. \A p \in TopProducers : authority[p] \in Key
  BY <1>1 DEF VoteInv, ActiveCanSign
<1>3. TopSchedule \in [TopProducers -> Key] /\ DOMAIN TopSchedule = TopProducers
  BY <1>2 DEF TopSchedule
<1>4. TopProducers \in SUBSET Name
  BY <1>1
<1>5. TopSchedule \in Schedules
  BY <1>3, <1>4 DEF Schedules
<1>6. QED
  BY <1>3, <1>5, TopFacts, TopFitsTheLimit, ProductionAssumption

LEMMA BlockKeepsSchedules ==
    ASSUME VoteInv, ScheduleTypes, NEW gap \in Gaps, NEW p \in Name, Block(gap, p)
    PROVE  ScheduleTypes'
<1> DEFINE now == head.slot + gap
<1>1. schedule' = schedule /\ (OnBlock(now) \/ OnBlockFails(now))
  BY DEF Block
<1> HIDE DEF now
<1>2. \/ UpdateElectedProducers
      \/ UNCHANGED <<proposed, last_producer_schedule_size>>
  BY <1>1 DEF OnBlock, OnBlockFails, onblockVars, electionVars
<1>3. \/ /\ proposed' = TopSchedule
         /\ last_producer_schedule_size' = Cardinality(TopProducers)
      \/ UNCHANGED <<proposed, last_producer_schedule_size>>
  BY <1>2 DEF UpdateElectedProducers
<1>4. QED
  BY <1>1, <1>3, ElectedSchedule DEF ScheduleTypes

(* Nothing else counts, pays, elects or makes a block; a claim clears a payment. *)
LEMMA OthersKeepTypes ==
    ASSUME CountInv, PayTypes, ClockTypes, ScheduleTypes,
           \/ Adopt \/ TokenStep \/ VotingStep \/ UNCHANGED allVars
           \/ \E p \in Account : ClaimRewards(p)
    PROVE  PayTypes' /\ ClockTypes' /\ ScheduleTypes'
<1>0. registered \subseteq Account
  BY DEF CountInv
<1>1. CASE Adopt
  BY <1>1 DEF Adopt, vars, prodVars, payVars, clockVars, PayTypes, ClockTypes, ScheduleTypes
<1>2. CASE TokenStep
  BY <1>2 DEF TokenStep, vars, prodVars, onblockVars, payVars, clockVars, electionVars,
              PayTypes, ClockTypes, ScheduleTypes
<1>3. CASE VotingStep
  <2>1. registered \subseteq registered'
    BY <1>0, <1>3, VotingKeepsRows DEF VotingStep
  <2>2. QED
    BY <1>3, <2>1 DEF VotingStep, onblockVars, payVars, clockVars, electionVars,
                      PayTypes, ClockTypes, ScheduleTypes
<1>4. ASSUME NEW p \in Account, ClaimRewards(p)
      PROVE  PayTypes' /\ ClockTypes' /\ ScheduleTypes'
  <2>1. /\ payments' = [payments EXCEPT ![p] = 0]
        /\ UNCHANGED <<registered, unpaid_blocks, total_unpaid_blocks>>
    BY <1>4 DEF ClaimRewards, vars, prodVars
  <2>2. PayTypes'
    BY <2>1 DEF PayTypes
  <2>3. ClockTypes' /\ ScheduleTypes'
    BY <1>4 DEF ClaimRewards, clockVars, electionVars, ClockTypes, ScheduleTypes
  <2>4. QED
    BY <2>2, <2>3
<1>5. CASE UNCHANGED allVars
  BY <1>5 DEF allVars, vars, prodVars, onblockVars, payVars, clockVars, electionVars,
              PayTypes, ClockTypes, ScheduleTypes
<1>6. QED
  BY <1>1, <1>2, <1>3, <1>4, <1>5

LEMMA InitialTypes == BlockInit => ProductionTypeOK
<1> SUFFICES ASSUME BlockInit PROVE PayTypes /\ ClockTypes /\ ScheduleTypes
  BY TypesInParts
<1>1. /\ unpaid_blocks = [p \in Account |-> 0] /\ total_unpaid_blocks = 0
      /\ payments = [p \in Account |-> NoRow]
      /\ last_updated_reward = 0 /\ last_block_num = 0 /\ activated_time = 0
      /\ last_producer_schedule_update = 0 /\ last_producer_schedule_size = 0
      /\ head \in [number: {1}, slot: {FirstSlot}, producer: DOMAIN Genesis]
      /\ schedule = Genesis /\ proposed = NoRow
  BY DEF BlockInit
<1>2. PayTypes
  BY <1>1 DEF PayTypes
<1>3. ClockTypes
  <2>1. head.number = 1 /\ head.slot = FirstSlot /\ head.producer \in Name
    BY <1>1, ProductionAssumption
  <2>2. FirstSlot \in Nat /\ 0 \in 0..FirstSlot /\ 1 \in 1..MaxBlocks
    BY ProductionAssumption
  <2>3. head \in [number: 1..MaxBlocks, slot: Nat, producer: Name]
    BY <1>1, <2>2, ProductionAssumption
  <2>4. QED
    BY <1>1, <2>1, <2>2, <2>3 DEF ClockTypes
<1>4. ScheduleTypes
  <2>1. Genesis \in Schedules
    BY ProductionAssumption DEF Schedules
  <2>2. QED
    BY <1>1, <2>1, ProductionAssumption DEF ScheduleTypes
<1>5. QED
  BY <1>2, <1>3, <1>4

(***************************************************************************)
(* The rows, times and schedules keep their types: no count goes below     *)
(* zero, and no schedule has a key its producer cannot sign with.          *)
(***************************************************************************)
THEOREM ProductionTypes == BlockSpec => []ProductionTypeOK
<1>1. /\ ProductionTypeOK /\ VoteInv /\ CountInv /\ CountInv'
      /\ [BlockNext]_allVars
      => ProductionTypeOK'
  <2> SUFFICES ASSUME PayTypes, ClockTypes, ScheduleTypes, VoteInv, CountInv, CountInv',
                      [BlockNext]_allVars
               PROVE  PayTypes' /\ ClockTypes' /\ ScheduleTypes'
    BY TypesInParts DEF ProductionTypeOK, PayTypes, ClockTypes, ScheduleTypes, Schedules
  <2>1. ASSUME NEW gap \in Gaps, NEW p \in Name, Block(gap, p)
        PROVE  PayTypes' /\ ClockTypes' /\ ScheduleTypes'
    <3>1. PayTypes'
      <4>1. registered' = registered
        BY <2>1 DEF Block, vars, prodVars
      <4>2. \E now : OnBlock(now) \/ OnBlockFails(now)
        BY <2>1 DEF Block
      <4>3. QED
        BY <4>1, <4>2, BlockKeepsPay
    <3>2. QED
      BY <2>1, <3>1, BlockKeepsClock, BlockKeepsSchedules
  <2>2. QED
    BY <2>1, OthersKeepTypes DEF BlockNext
<1>2. QED
  BY <1>1, InitialTypes, VotesOfTheChain, CountsHold, PTL DEF BlockSpec

(* The size remembered is that of the proposal pending, and bounds the one in force. *)
SizeInv ==
    /\ last_producer_schedule_size \in Nat
    /\ proposed # NoRow => Cardinality(DOMAIN proposed) = last_producer_schedule_size
    /\ schedule # Genesis =>
          Cardinality(DOMAIN schedule) \in 0..last_producer_schedule_size

LEMMA SizeStep == SizeInv /\ VoteInv /\ [BlockNext]_allVars => SizeInv'
<1> SUFFICES ASSUME SizeInv, VoteInv, [BlockNext]_allVars PROVE SizeInv'
  OBVIOUS
<1>1. ASSUME UNCHANGED <<proposed, schedule, last_producer_schedule_size>> PROVE SizeInv'
  BY <1>1 DEF SizeInv
<1>2. ASSUME NEW gap \in Gaps, NEW p \in Name, Block(gap, p) PROVE SizeInv'
  <2>1. /\ schedule' = schedule
        /\ \/ UpdateElectedProducers
           \/ UNCHANGED <<proposed, last_producer_schedule_size>>
    BY <1>2 DEF Block, OnBlock, OnBlockFails, onblockVars, electionVars
  <2>2. CASE UNCHANGED <<proposed, last_producer_schedule_size>>
    BY <1>1, <2>1, <2>2
  <2>3. CASE UpdateElectedProducers /\ Proposes
             /\ proposed' = TopSchedule
             /\ last_producer_schedule_size' = Cardinality(TopProducers)
    <3>1. /\ Cardinality(TopProducers) \in Nat
          /\ Cardinality(TopProducers) >= last_producer_schedule_size
          /\ DOMAIN proposed' = TopProducers
      BY <2>3, ElectedSchedule DEF Proposes
    <3>2. QED
      BY <2>1, <2>3, <3>1 DEF SizeInv
  <2>4. QED
    BY <2>1, <2>2, <2>3 DEF UpdateElectedProducers
<1>3. CASE Adopt
  BY <1>3 DEF Adopt, SizeInv
<1>4. CASE TokenStep \/ VotingStep \/ (\E p \in Account : ClaimRewards(p)) \/ UNCHANGED allVars
  BY <1>1, <1>4 DEF TokenStep, VotingStep, ClaimRewards, onblockVars, electionVars, allVars
<1>5. QED
  BY <1>2, <1>3, <1>4 DEF BlockNext

(***************************************************************************)
(* The schedule in force never shrinks: a proposal is not smaller than the *)
(* last, which was adopted, is pending, or was replaced by it.             *)
(***************************************************************************)
THEOREM SchedulesGrow == BlockSpec => ScheduleNeverShrinks
<1>1. BlockInit => SizeInv
  BY DEF BlockInit, SizeInv
<1>2. SizeInv /\ [BlockNext]_allVars => [KeepSize]_allVars
  <2> SUFFICES ASSUME SizeInv, BlockNext, schedule' # schedule, schedule # Genesis
               PROVE  Cardinality(DOMAIN schedule') >= Cardinality(DOMAIN schedule)
    BY DEF KeepSize
  <2>1. Adopt
    BY DEF BlockNext, Block, ClaimRewards, TokenStep, VotingStep
  <2>2. Cardinality(DOMAIN schedule') = last_producer_schedule_size
    BY <2>1 DEF Adopt, SizeInv
  <2>3. QED
    BY <2>2 DEF SizeInv
<1>3. QED
  BY <1>1, <1>2, SizeStep, VotesOfTheChain, PTL DEF BlockSpec, ScheduleNeverShrinks

-----------------------------------------------------------------------------
(***************************************************************************)
(* The money.  An hour's pay is two actions of eosio.token in a row, each  *)
(* of them one of those TokenProofs knows.                                 *)
(***************************************************************************)
LEMMA PayParties ==
    /\ Eosio \in Holder /\ Bpay \in Holder /\ Account \subseteq Holder
    /\ Eosio # Bpay
    /\ "LIBRE" \in Code
    /\ \A n \in Int : /\ Libre(n) \in AnyAsset
                      /\ Libre(n).amount = n
                      /\ Libre(n).code = "LIBRE"
                      /\ Libre(n).precision = 0
BY ProductionAssumption DEF ProductionAccounts, Libre, AnyAsset

(* What is held, as TokenProofs writes it. *)
LEMMA HeldIsBalance ==
    ASSUME NEW L \in Ledger, NEW h \in Holder
    PROVE  /\ Balances(L, "LIBRE") \in [Holder -> Nat]
           /\ Balances(L, "LIBRE")[h] = BalanceOf(L, h, "LIBRE")
           /\ BalanceOf(L, h, "LIBRE") \in Nat
BY PayParties, BalancesType

LEMMA PaidFacts ==
    ASSUME NEW L, LedgerInv(L), NEW n \in Int, CanPay(L, n)
    PROVE  /\ LedgerInv(Paid(L, n))
           /\ BalanceOf(Paid(L, n), Bpay, "LIBRE") = BalanceOf(L, Bpay, "LIBRE") + n
<1> DEFINE q == Libre(n)
           M == Issued(L, Eosio, q)
           N == Transferred(M, Eosio, Bpay, q)
<1>1. q \in AnyAsset /\ q.amount = n /\ q.code = "LIBRE"
  BY PayParties
<1>2. /\ CanIssue(L, {Eosio}, Eosio, q)
      /\ CanTransfer(M, {Eosio}, Eosio, Bpay, q)
      /\ Paid(L, n) = N
  BY DEF CanPay, Paid
<1> HIDE DEF q
<1>3. Effect(L, M) /\ Raised(L, M, q.code, Eosio, q.amount)
  BY <1>1, <1>2, PayParties, IssueEffect
<1> HIDE DEF M
<1>4. LedgerInv(M)
  BY <1>3, EffectKeepsInv
<1>5. Effect(M, N) /\ Moved(M, N, q.code, Eosio, Bpay, q.amount)
  BY <1>1, <1>2, <1>4, PayParties, TransferEffect
<1> HIDE DEF N
<1>6. LedgerInv(N)
  BY <1>4, <1>5, EffectKeepsInv
<1>7. /\ Balances(M, "LIBRE") = Plus(Balances(L, "LIBRE"), Eosio, n)
      /\ Balances(N, "LIBRE") = Plus(Minus(Balances(M, "LIBRE"), Eosio, n), Bpay, n)
  BY <1>1, <1>3, <1>5 DEF Raised, Moved
<1>8. L \in Ledger /\ M \in Ledger /\ N \in Ledger
  BY <1>4, <1>6 DEF LedgerInv
<1>9. Balances(M, "LIBRE")[Bpay] = Balances(L, "LIBRE")[Bpay]
  BY <1>7, <1>8, PayParties, HeldIsBalance DEF Plus
<1>10. Balances(N, "LIBRE")[Bpay] = Balances(M, "LIBRE")[Bpay] + n
  BY <1>7, <1>8, PayParties, HeldIsBalance DEF Plus, Minus
<1>11. QED
  BY <1>2, <1>6, <1>8, <1>9, <1>10, PayParties, HeldIsBalance

LEMMA ClaimedFacts ==
    ASSUME NEW L, LedgerInv(L), NEW n \in Int, NEW p \in Account, NEW signers,
           CanTransfer(L, signers, Bpay, p, Libre(n))
    PROVE  /\ LedgerInv(Transferred(L, Bpay, p, Libre(n)))
           /\ BalanceOf(Transferred(L, Bpay, p, Libre(n)), Bpay, "LIBRE")
                = BalanceOf(L, Bpay, "LIBRE") - n
<1> DEFINE q == Libre(n)
           N == Transferred(L, Bpay, p, q)
<1>1. q \in AnyAsset /\ q.amount = n /\ q.code = "LIBRE" /\ p \in Holder
  BY PayParties
<1> HIDE DEF q
<1>2. Effect(L, N) /\ Moved(L, N, q.code, Bpay, p, q.amount)
  BY <1>1, PayParties, TransferEffect DEF q
<1> HIDE DEF N
<1>3. LedgerInv(N)
  BY <1>2, EffectKeepsInv
<1>4. Balances(N, "LIBRE") = Plus(Minus(Balances(L, "LIBRE"), Bpay, n), p, n) /\ p # Bpay
  BY <1>1, <1>2 DEF Moved
<1>5. L \in Ledger /\ N \in Ledger
  BY <1>3 DEF LedgerInv
<1>6. Balances(N, "LIBRE")[Bpay] = Balances(L, "LIBRE")[Bpay] - n
  BY <1>1, <1>4, <1>5, PayParties, HeldIsBalance DEF Plus, Minus
<1>7. QED
  BY <1>3, <1>5, <1>6, PayParties, HeldIsBalance DEF N, q

LEMMA LedgerOfTheChain == BlockSpec => []LedgerInv(ledger)
<1>1. BlockInit => LedgerInv(ledger)
  BY InitialLedger, InvIsOfTheLedger DEF BlockInit
<1>2. LedgerInv(ledger) /\ CountInv /\ ProductionTypeOK /\ [BlockNext]_allVars => LedgerInv(ledger)'
  <2> SUFFICES ASSUME LedgerInv(ledger), CountInv, ProductionTypeOK, [BlockNext]_allVars
               PROVE  LedgerInv(ledger')
    BY DEF LedgerInv, SymbolsOf, SupplyOf, CapOf, Balances, BalanceOf
  <2>1. ASSUME ledger' = ledger PROVE LedgerInv(ledger')
    BY <2>1
  <2>2. ASSUME NEW now, OnBlock(now) PROVE LedgerInv(ledger')
    <3>1. Total(now) \in Nat
      BY NewTokensFacts
    <3>2. CASE RewardsDue(now) /\ Total(now) # 0
      BY <2>2, <3>1, <3>2, PaidFacts DEF OnBlock, UpdRewards, RewardsFit
    <3>3. CASE ~(RewardsDue(now) /\ Total(now) # 0)
      BY <2>1, <2>2, <3>3 DEF OnBlock, UpdRewards, CountOnly
    <3>4. QED
      BY <3>2, <3>3
  <2>3. ASSUME NEW gap \in Gaps, NEW p \in Name, Block(gap, p) PROVE LedgerInv(ledger')
    BY <2>1, <2>2, <2>3 DEF Block, OnBlockFails
  <2>4. ASSUME NEW p \in Account, ClaimRewards(p) PROVE LedgerInv(ledger')
    <3>1. Owed(p) \in Int
      BY DEF ProductionTypeOK, Owed
    <3>2. QED
      BY <2>4, <3>1, ClaimedFacts DEF ClaimRewards
  <2>5. CASE TokenStep
    BY <2>5, InvIsOfTheLedger, NextEffect, EffectKeepsInv DEF TokenStep
  <2>6. CASE Adopt \/ VotingStep \/ UNCHANGED allVars
    BY <2>1, <2>6 DEF Adopt, VotingStep, allVars
  <2>7. QED
    BY <2>3, <2>4, <2>5, <2>6 DEF BlockNext
<1>3. QED
  BY <1>1, <1>2, CountsHold, ProductionTypes, PTL DEF BlockSpec

(* What all are owed, as one function. *)
AllOwed == [p \in Account |-> Owed(p)]

LEMMA OwedFacts ==
    ASSUME ProductionTypeOK
    PROVE  /\ AllOwed \in [Account -> Nat]
           /\ AllOwed \in [Account -> Int]
           /\ SumFunctionOnSet(AllOwed, Account) \in Nat
<1>1. AllOwed \in [Account -> Nat] /\ AllOwed \in [Account -> Int]
  BY DEF ProductionTypeOK, AllOwed, Owed
<1>2. QED
  BY <1>1, SumNat, VotingAssumption

(* The pay of an hour adds to each what it has earned, and the sum to bpay.libre. *)
LEMMA PayAdds ==
    ASSUME ProductionTypeOK, CountInv, LedgerInv(ledger),
           NEW now, RewardsFit(now), UpdRewards(now)
    PROVE  /\ AllOwed' = [p \in Account |-> AllOwed[p] + NewTokens(now)[p]]
           /\ BalanceOf(ledger', Bpay, "LIBRE") = BalanceOf(ledger, Bpay, "LIBRE") + Total(now)
           /\ BalanceOf(ledger, Bpay, "LIBRE") \in Nat
<1>1. /\ NewTokens(now) \in [Account -> Nat]
      /\ NewTokens(now) \in [Account -> Int]
      /\ \A p \in Account : Counted[p] = 0 => NewTokens(now)[p] = 0
      /\ Total(now) \in Nat
  BY NewTokensFacts
<1>2. \A p \in Account : Owed(p) \in Nat /\ AllOwed[p] = Owed(p)
  BY DEF ProductionTypeOK, Owed, AllOwed
<1>3. \A p \in Account : Owed(p)' = AllOwed[p] + NewTokens(now)[p]
  <2>1. payments' = [p \in Account |->
           IF Counted[p] = 0 THEN payments[p] ELSE Owed(p) + NewTokens(now)[p]]
    BY DEF UpdRewards
  <2>2. NoRow \notin Nat
    BY ProductionAssumption
  <2>3. SUFFICES ASSUME NEW p \in Account PROVE Owed(p)' = Owed(p) + NewTokens(now)[p]
    BY <1>2
  <2>4. CASE Counted[p] = 0
    <3>1. payments'[p] = payments[p] /\ NewTokens(now)[p] = 0
      BY <1>1, <2>1, <2>4
    <3>2. QED
      BY <1>2, <3>1 DEF Owed
  <2>5. CASE Counted[p] # 0
    <3>1. payments'[p] = Owed(p) + NewTokens(now)[p] /\ payments'[p] \in Nat
      BY <1>1, <1>2, <2>1, <2>5
    <3>2. QED
      BY <2>2, <3>1 DEF Owed
  <2>6. QED
    BY <2>4, <2>5
<1>4. AllOwed' = [p \in Account |-> AllOwed[p] + NewTokens(now)[p]]
  BY <1>3 DEF AllOwed
<1>5. /\ BalanceOf(ledger', Bpay, "LIBRE") = BalanceOf(ledger, Bpay, "LIBRE") + Total(now)
      /\ BalanceOf(ledger, Bpay, "LIBRE") \in Nat
  <2>1. BalanceOf(ledger, Bpay, "LIBRE") \in Nat
    BY PayParties, HeldIsBalance DEF LedgerInv
  <2>2. CASE Total(now) = 0
    BY <2>1, <2>2 DEF UpdRewards
  <2>3. CASE Total(now) # 0
    BY <1>1, <2>1, <2>3, PaidFacts DEF UpdRewards, RewardsFit
  <2>4. QED
    BY <2>2, <2>3
<1>6. QED
  BY <1>4, <1>5

(* The pay of an hour adds as much to what is owed as to what is held. *)
LEMMA PayIsFunded ==
    ASSUME ProductionTypeOK, CountInv, LedgerInv(ledger), PaymentsAreFunded,
           NEW now, RewardsFit(now), UpdRewards(now)
    PROVE  PaymentsAreFunded'
<1>1. /\ NewTokens(now) \in [Account -> Nat]
      /\ NewTokens(now) \in [Account -> Int]
      /\ Total(now) \in Nat
  BY NewTokensFacts
<1>2. SumFunctionOnSet(AllOwed', Account) = SumFunctionOnSet(AllOwed, Account) + Total(now)
  BY <1>1, PayAdds, OwedFacts, SumPlus, VotingAssumption DEF Total
<1>3. BalanceOf(ledger, Bpay, "LIBRE") >= SumFunctionOnSet(AllOwed, Account)
  BY DEF PaymentsAreFunded, AllOwed
<1>4. BalanceOf(ledger', Bpay, "LIBRE") >= SumFunctionOnSet(AllOwed', Account)
  BY <1>1, <1>2, <1>3, PayAdds, OwedFacts
<1>5. QED
  BY <1>4 DEF PaymentsAreFunded, AllOwed

(* A claim takes all that its producer is owed, from it and from bpay.libre. *)
LEMMA ClaimTakes ==
    ASSUME ProductionTypeOK, LedgerInv(ledger), NEW p \in Account, ClaimRewards(p)
    PROVE  /\ Owed(p) \in Nat /\ AllOwed[p] = Owed(p)
           /\ AllOwed' = [AllOwed EXCEPT ![p] = 0]
           /\ BalanceOf(ledger', Bpay, "LIBRE") = BalanceOf(ledger, Bpay, "LIBRE") - Owed(p)
           /\ BalanceOf(ledger, Bpay, "LIBRE") \in Nat
<1>1. /\ CanTransfer(ledger, {Bpay, p}, Bpay, p, Libre(Owed(p)))
      /\ ledger' = Transferred(ledger, Bpay, p, Libre(Owed(p)))
      /\ payments' = [payments EXCEPT ![p] = 0]
  BY DEF ClaimRewards
<1>2. Owed(p) \in Nat /\ AllOwed[p] = Owed(p) /\ payments \in [Account -> Nat \cup {NoRow}]
  BY DEF ProductionTypeOK, Owed, AllOwed
<1>3. BalanceOf(ledger', Bpay, "LIBRE") = BalanceOf(ledger, Bpay, "LIBRE") - Owed(p)
  BY <1>1, <1>2, ClaimedFacts
<1>4. BalanceOf(ledger, Bpay, "LIBRE") \in Nat
  BY PayParties, HeldIsBalance DEF LedgerInv
<1>5. AllOwed' = [AllOwed EXCEPT ![p] = 0]
  <2>1. payments'[p] = 0 /\ \A x \in Account : x # p => payments'[x] = payments[x]
    BY <1>1, <1>2
  <2>2. /\ Owed(p)' = 0
        /\ \A x \in Account : x # p => Owed(x)' = Owed(x)
    BY <2>1, ProductionAssumption DEF Owed
  <2>3. AllOwed' = [x \in Account |-> Owed(x)'] /\ AllOwed = [x \in Account |-> Owed(x)]
    BY DEF AllOwed
  <2>4. QED
    BY <2>2, <2>3
<1>6. QED
  BY <1>2, <1>3, <1>4, <1>5

(* A claim takes as much from what is owed as from what is held. *)
LEMMA ClaimIsFunded ==
    ASSUME ProductionTypeOK, LedgerInv(ledger), PaymentsAreFunded,
           NEW p \in Account, ClaimRewards(p)
    PROVE  PaymentsAreFunded'
<1>1. /\ AllOwed' \in [Account -> Int]
      /\ AllOwed'[p] = 0
      /\ \A x \in Account : x # p => AllOwed'[x] = AllOwed[x]
  BY ClaimTakes, OwedFacts
<1>2. SumFunctionOnSet(AllOwed', Account)
        = SumFunctionOnSet(AllOwed, Account) - AllOwed[p] + AllOwed'[p]
  BY <1>1, OwedFacts, SumChangeOne, VotingAssumption
<1>3. BalanceOf(ledger, Bpay, "LIBRE") >= SumFunctionOnSet(AllOwed, Account)
  BY DEF PaymentsAreFunded, AllOwed
<1>4. BalanceOf(ledger', Bpay, "LIBRE") >= SumFunctionOnSet(AllOwed', Account)
  BY <1>1, <1>2, <1>3, ClaimTakes, OwedFacts
<1>5. QED
  BY <1>4 DEF PaymentsAreFunded, AllOwed

(***************************************************************************)
(* What is owed is held by bpay.libre: an hour's pay adds to both, or      *)
(* onblock fails and adds to neither, and a claim takes from both.         *)
(***************************************************************************)
THEOREM ClaimsAreFunded == BlockSpec => []PaymentsAreFunded
<1>1. BlockInit => PaymentsAreFunded
  <2> SUFFICES ASSUME BlockInit PROVE PaymentsAreFunded
    OBVIOUS
  <2>1. ProductionTypeOK /\ LedgerInv(ledger)
    BY InitialTypes, InitialLedger, InvIsOfTheLedger DEF BlockInit
  <2>2. \A p \in Account : AllOwed[p] = 0
    BY DEF BlockInit, AllOwed, Owed
  <2>3. SumFunctionOnSet(AllOwed, Account) = 0
    BY <2>1, <2>2, OwedFacts, SumZero, VotingAssumption
  <2>4. BalanceOf(ledger, Bpay, "LIBRE") \in Nat
    BY <2>1, PayParties, HeldIsBalance DEF LedgerInv
  <2>5. QED
    BY <2>3, <2>4 DEF PaymentsAreFunded, AllOwed
<1>2. /\ PaymentsAreFunded /\ LedgerInv(ledger) /\ LedgerInv(ledger)' /\ CountInv
      /\ ProductionTypeOK /\ [BlockNext]_allVars
      => PaymentsAreFunded'
  <2> SUFFICES ASSUME PaymentsAreFunded, LedgerInv(ledger), LedgerInv(ledger)', CountInv,
                      ProductionTypeOK, [BlockNext]_allVars
               PROVE  PaymentsAreFunded'
    OBVIOUS
  <2>1. ASSUME UNCHANGED <<ledger, payments>> PROVE PaymentsAreFunded'
    BY <2>1 DEF PaymentsAreFunded, Owed
  <2>2. ASSUME NEW now, OnBlock(now) PROVE PaymentsAreFunded'
    <3>1. CASE RewardsDue(now)
      BY <2>2, <3>1, PayIsFunded DEF OnBlock
    <3>2. CASE ~RewardsDue(now)
      BY <2>1, <2>2, <3>2 DEF OnBlock, CountOnly
    <3>3. QED
      BY <3>1, <3>2
  <2>3. ASSUME NEW gap \in Gaps, NEW p \in Name, Block(gap, p) PROVE PaymentsAreFunded'
    BY <2>1, <2>2, <2>3 DEF Block, OnBlockFails, onblockVars, payVars
  <2>4. ASSUME NEW p \in Account, ClaimRewards(p) PROVE PaymentsAreFunded'
    BY <2>4, ClaimIsFunded
  <2>5. CASE TokenStep
    <3>1. payments' = payments
      BY <2>5 DEF TokenStep, onblockVars, payVars
    <3>2. SumFunctionOnSet(AllOwed', Account) = SumFunctionOnSet(AllOwed, Account)
      BY <3>1 DEF AllOwed, Owed
    <3>3. /\ BalanceOf(ledger, Bpay, "LIBRE") \in Nat
          /\ BalanceOf(ledger', Bpay, "LIBRE") \in Nat
      <4>1. ledger \in Ledger /\ ledger' \in Ledger
        BY DEF LedgerInv
      <4>2. QED
        BY <4>1, PayParties, HeldIsBalance
    <3>4. BalanceOf(ledger', Bpay, "LIBRE") >= BalanceOf(ledger, Bpay, "LIBRE")
      BY <2>5 DEF TokenStep
    <3>5. BalanceOf(ledger, Bpay, "LIBRE") >= SumFunctionOnSet(AllOwed, Account)
      BY DEF PaymentsAreFunded, AllOwed
    <3>6. BalanceOf(ledger', Bpay, "LIBRE") >= SumFunctionOnSet(AllOwed', Account)
      BY <3>2, <3>3, <3>4, <3>5, OwedFacts
    <3>7. QED
      BY <3>6 DEF PaymentsAreFunded, AllOwed
  <2>6. CASE Adopt \/ VotingStep \/ UNCHANGED allVars
    BY <2>1, <2>6 DEF Adopt, VotingStep, allVars, onblockVars, payVars
  <2>7. QED
    BY <2>3, <2>4, <2>5, <2>6 DEF BlockNext
<1>3. QED
  BY <1>1, <1>2, CountsHold, ProductionTypes, LedgerOfTheChain, PTL DEF BlockSpec

(* A row of LIBRE has the symbol of the token, and no more than the supply. *)
LEMMA LibreRows ==
    ASSUME NEW L, LedgerInv(L), TokenOf(L, Libre(0)), NEW h \in Holder,
           L.accounts[h]["LIBRE"] # NoBalance
    PROVE  /\ L.accounts[h]["LIBRE"].precision = 0
           /\ L.accounts[h]["LIBRE"].amount \in Nat
           /\ L.accounts[h]["LIBRE"].amount = BalanceOf(L, h, "LIBRE")
           /\ L.accounts[h]["LIBRE"].amount <= SupplyOf(L, "LIBRE")
<1>1. L \in Ledger /\ "LIBRE" \in Code
  BY PayParties DEF LedgerInv
<1>2. L.stat["LIBRE"].precision = 0
  BY PayParties DEF TokenOf
<1>3. L.accounts[h]["LIBRE"].precision = 0
  BY <1>1, <1>2 DEF LedgerInv, SymbolsOf
<1>4. L.accounts[h]["LIBRE"].amount = BalanceOf(L, h, "LIBRE")
  BY DEF BalanceOf
<1>5. BalanceOf(L, h, "LIBRE") \in Nat
  BY <1>1, HeldIsBalance
<1>6. BalanceOf(L, h, "LIBRE") <= SumFunctionOnSet(Balances(L, "LIBRE"), Holder)
  BY <1>1, BalancesType
<1>7. SupplyOf(L, "LIBRE") = SumFunctionOnSet(Balances(L, "LIBRE"), Holder)
  BY <1>1 DEF LedgerInv
<1>8. QED
  BY <1>3, <1>4, <1>5, <1>6, <1>7

(* With a token of eosio and room in its supply, nothing stops the pay. *)
LEMMA SupplySuffices ==
    ASSUME NEW L, LedgerInv(L), NEW n \in Nat, n # 0,
           TokenOf(L, Libre(0)), L.stat["LIBRE"].issuer = Eosio,
           SupplyOf(L, "LIBRE") + n <= CapOf(L, "LIBRE")
    PROVE  CanPay(L, n)
<1> DEFINE q == Libre(n)
           M == Issued(L, Eosio, q)
<1>1. q \in AnyAsset /\ q.amount = n /\ q.code = "LIBRE" /\ q.precision = 0
  BY PayParties
<1>2. L \in Ledger /\ "LIBRE" \in Code /\ Eosio \in Holder /\ Bpay \in Holder /\ Eosio # Bpay
  BY PayParties DEF LedgerInv
<1>3. L.stat["LIBRE"] # NoToken /\ L.stat["LIBRE"].precision = 0
  BY PayParties DEF TokenOf
<1>4. /\ SupplyOf(L, "LIBRE") = L.stat["LIBRE"].supply
      /\ CapOf(L, "LIBRE") = L.stat["LIBRE"].max_supply
      /\ SupplyOf(L, "LIBRE") \in Nat
      /\ CapOf(L, "LIBRE") \in Nat /\ CapOf(L, "LIBRE") <= MaxAmount
      /\ MaxAmount \in Nat
  <2>1. SupplyOf(L, "LIBRE") \in 0..MaxAmount /\ CapOf(L, "LIBRE") \in 0..MaxAmount
    BY <1>2, RowTypes
  <2>2. QED
    BY <1>3, <2>1, TokenAssumption DEF SupplyOf, CapOf
<1> HIDE DEF q
<1>5. TokenOf(L, q) /\ Positive(q)
  BY <1>1, <1>3, <1>4 DEF TokenOf, Positive
<1>6. CanIssue(L, {Eosio}, Eosio, q)
  <2>1. q.amount <= L.stat[q.code].max_supply - L.stat[q.code].supply
    BY <1>1, <1>4
  <2>2. CanAdd(L, Eosio, q)
    BY <1>1, <1>2, <1>4, LibreRows DEF CanAdd
  <2>3. QED
    BY <1>1, <1>5, <2>1, <2>2 DEF CanIssue
<1>7. Effect(L, M) /\ Raised(L, M, q.code, Eosio, q.amount) /\ TokenOf(M, q)
  BY <1>1, <1>2, <1>6, IssueEffect
<1> HIDE DEF M
<1>8. LedgerInv(M) /\ M \in Ledger
  BY <1>7, EffectKeepsInv DEF LedgerInv
<1>9. TokenOf(M, Libre(0))
  BY <1>1, <1>7, PayParties DEF TokenOf
<1>10. /\ Balances(M, "LIBRE") = Plus(Balances(L, "LIBRE"), Eosio, n)
       /\ SupplyOf(M, "LIBRE") = SupplyOf(L, "LIBRE") + n
       /\ SupplyOf(M, "LIBRE") <= CapOf(L, "LIBRE")
  BY <1>1, <1>7 DEF Raised
<1>11. /\ BalanceOf(M, Eosio, "LIBRE") = BalanceOf(L, Eosio, "LIBRE") + n
       /\ BalanceOf(M, Bpay, "LIBRE") = BalanceOf(L, Bpay, "LIBRE")
       /\ BalanceOf(L, Eosio, "LIBRE") \in Nat
       /\ BalanceOf(L, Bpay, "LIBRE") \in Nat
  BY <1>2, <1>8, <1>10, HeldIsBalance DEF Plus
<1>12. CanSub(M, Eosio, q)
  <2>1. M.accounts[Eosio]["LIBRE"] # NoBalance
    BY <1>11 DEF BalanceOf
  <2>2. QED
    BY <1>1, <1>2, <1>8, <1>9, <1>11, <2>1, LibreRows DEF CanSub
<1>13. CanAdd(M, Bpay, q)
  <2>1. BalanceOf(M, Bpay, "LIBRE") + n <= MaxAmount
    <3>1. BalanceOf(L, Bpay, "LIBRE") <= SupplyOf(L, "LIBRE")
      <4>1. CASE L.accounts[Bpay]["LIBRE"] = NoBalance
        BY <1>4, <4>1 DEF BalanceOf
      <4>2. CASE L.accounts[Bpay]["LIBRE"] # NoBalance
        BY <1>2, <4>2, LibreRows
      <4>3. QED
        BY <4>1, <4>2
    <3>2. QED
      BY <1>4, <1>11, <3>1
  <2>2. QED
    BY <1>1, <1>2, <1>8, <1>9, <2>1, LibreRows DEF CanAdd
<1>14. CanTransfer(M, {Eosio}, Eosio, Bpay, q)
  BY <1>2, <1>5, <1>7, <1>12, <1>13 DEF CanTransfer
<1>15. QED
  BY <1>6, <1>14 DEF CanPay, M, q

(***************************************************************************)
(* Rows opened by others, balances and precisions never stop onblock: only *)
(* a token that is not eosio's, or the end of its supply, can.             *)
(***************************************************************************)
THEOREM OnlySupplyStopsOnBlock == BlockSpec => []OnBlockNeedsSupplyOnly
<1>1. CountInv /\ LedgerInv(ledger) => OnBlockNeedsSupplyOnly
  <2> SUFFICES ASSUME CountInv, LedgerInv(ledger), NEW now, ~RewardsFit(now),
                      TokenOf(ledger, Libre(0)), ledger.stat["LIBRE"].issuer = Eosio
               PROVE  SupplyOf(ledger, "LIBRE") + Total(now) > CapOf(ledger, "LIBRE")
    BY DEF OnBlockNeedsSupplyOnly
  <2>1. Total(now) \in Nat /\ Total(now) # 0 /\ ~CanPay(ledger, Total(now))
    BY NewTokensFacts DEF RewardsFit
  <2>2. ~(SupplyOf(ledger, "LIBRE") + Total(now) <= CapOf(ledger, "LIBRE"))
    BY <2>1, SupplySuffices
  <2>3. SupplyOf(ledger, "LIBRE") \in Int /\ CapOf(ledger, "LIBRE") \in Int
    <3>1. ledger \in Ledger
      BY DEF LedgerInv
    <3>2. /\ SupplyOf(ledger, "LIBRE") \in 0..MaxAmount
          /\ CapOf(ledger, "LIBRE") \in 0..MaxAmount
      BY <3>1, PayParties, RowTypes
    <3>3. QED
      BY <3>2, TokenAssumption
  <2>4. QED
    BY <2>1, <2>2, <2>3
<1>2. QED
  BY <1>1, CountsHold, LedgerOfTheChain, PTL

-----------------------------------------------------------------------------
(***************************************************************************)
(* The claims.  Who is owed anything is owed it in the LIBRE that onblock  *)
(* issued: the token was created, without decimals, and stays.             *)
(***************************************************************************)
PaidInLibre == \A p \in Account : Owed(p) # 0 => TokenOf(ledger, Libre(0))

LEMMA PayLeavesLibre ==
    ASSUME NEW L, LedgerInv(L), NEW n \in Int, CanPay(L, n)
    PROVE  TokenOf(Paid(L, n), Libre(0))
<1> DEFINE q == Libre(n)
           M == Issued(L, Eosio, q)
           N == Transferred(M, Eosio, Bpay, q)
<1>1. /\ q \in AnyAsset /\ q.code = "LIBRE" /\ q.precision = 0
      /\ CanIssue(L, {Eosio}, Eosio, q)
      /\ CanTransfer(M, {Eosio}, Eosio, Bpay, q)
      /\ Paid(L, n) = N
  BY PayParties DEF CanPay, Paid
<1> HIDE DEF q
<1>2. Effect(L, M) /\ TokenOf(M, q)
  BY <1>1, PayParties, IssueEffect
<1> HIDE DEF M
<1>3. LedgerInv(M)
  BY <1>2, EffectKeepsInv
<1>4. Effect(M, N)
  BY <1>1, <1>3, PayParties, TransferEffect
<1> HIDE DEF N
<1>5. M \in Ledger /\ q.code \in Code
  BY <1>1, <1>3, PayParties DEF LedgerInv
<1>6. TokenOf(N, q)
  BY <1>2, <1>4, <1>5, TokensLast
<1>7. QED
  BY <1>1, <1>6, PayParties DEF TokenOf

LEMMA ClaimLeavesLibre ==
    ASSUME NEW L, LedgerInv(L), NEW n \in Int, NEW p \in Account, NEW signers,
           CanTransfer(L, signers, Bpay, p, Libre(n))
    PROVE  TokenOf(Transferred(L, Bpay, p, Libre(n)), Libre(0))
<1> DEFINE q == Libre(n)
           N == Transferred(L, Bpay, p, q)
<1>1. q \in AnyAsset /\ q.code = "LIBRE" /\ q.precision = 0 /\ p \in Holder
  BY PayParties
<1> HIDE DEF q
<1>2. Effect(L, N) /\ TokenOf(L, q)
  BY <1>1, PayParties, TransferEffect DEF q, CanTransfer
<1> HIDE DEF N
<1>3. TokenOf(N, q)
  BY <1>1, <1>2, PayParties, TokensLast DEF LedgerInv
<1>4. QED
  BY <1>1, <1>3, PayParties DEF TokenOf, N, q

LEMMA LibreOfTheChain == BlockSpec => []PaidInLibre
<1>1. BlockInit => PaidInLibre
  BY DEF BlockInit, PaidInLibre, Owed
<1>2. /\ PaidInLibre /\ LedgerInv(ledger) /\ CountInv /\ ProductionTypeOK
      /\ [BlockNext]_allVars
      => PaidInLibre'
  <2> SUFFICES ASSUME PaidInLibre, LedgerInv(ledger), CountInv, ProductionTypeOK,
                      [BlockNext]_allVars
               PROVE  PaidInLibre'
    OBVIOUS
  <2>1. ASSUME UNCHANGED <<ledger, payments>> PROVE PaidInLibre'
    BY <2>1 DEF PaidInLibre, Owed, TokenOf
  <2>2. ASSUME NEW now, OnBlock(now) PROVE PaidInLibre'
    <3>1. /\ NewTokens(now) \in [Account -> Nat]
          /\ Total(now) \in Nat
          /\ Total(now) = 0 => \A p \in Account : NewTokens(now)[p] = 0
      <4>1. NewTokens(now) \in [Account -> Nat] /\ Total(now) \in Nat
        BY NewTokensFacts
      <4>2. \A p \in Account : NewTokens(now)[p] <= Total(now)
        BY <4>1, SumBoundsSummand, VotingAssumption DEF Total
      <4>3. QED
        BY <4>1, <4>2
    <3>2. CASE RewardsDue(now) /\ Total(now) # 0
      <4>1. CanPay(ledger, Total(now)) /\ ledger' = Paid(ledger, Total(now))
        BY <2>2, <3>2 DEF OnBlock, UpdRewards, RewardsFit
      <4>2. TokenOf(ledger', Libre(0))
        BY <3>1, <4>1, PayLeavesLibre
      <4>3. QED
        BY <4>2 DEF PaidInLibre
    <3>3. CASE RewardsDue(now) /\ Total(now) = 0
      <4>1. RewardsFit(now) /\ UpdRewards(now) /\ ledger' = ledger
        BY <2>2, <3>3 DEF OnBlock, UpdRewards
      <4>2. AllOwed' = [p \in Account |-> AllOwed[p] + NewTokens(now)[p]]
        BY <4>1, PayAdds
      <4>3. \A p \in Account : Owed(p)' = AllOwed'[p] /\ Owed(p) = AllOwed[p]
        BY DEF AllOwed
      <4>4. \A p \in Account : Owed(p)' = Owed(p)
        BY <3>1, <3>3, <4>2, <4>3, OwedFacts
      <4>5. QED
        BY <4>1, <4>4 DEF PaidInLibre, TokenOf
    <3>4. CASE ~RewardsDue(now)
      BY <2>1, <2>2, <3>4 DEF OnBlock, CountOnly
    <3>5. QED
      BY <3>2, <3>3, <3>4
  <2>3. ASSUME NEW gap \in Gaps, NEW p \in Name, Block(gap, p) PROVE PaidInLibre'
    BY <2>1, <2>2, <2>3 DEF Block, OnBlockFails, onblockVars, payVars
  <2>4. ASSUME NEW p \in Account, ClaimRewards(p) PROVE PaidInLibre'
    <3>1. Owed(p) \in Int
      BY DEF ProductionTypeOK, Owed
    <3>2. TokenOf(ledger', Libre(0))
      BY <2>4, <3>1, ClaimLeavesLibre DEF ClaimRewards
    <3>3. QED
      BY <3>2 DEF PaidInLibre
  <2>5. CASE TokenStep
    <3>1. Effect(ledger, ledger') /\ payments' = payments
      BY <2>5, InvIsOfTheLedger, NextEffect DEF TokenStep, onblockVars, payVars
    <3>2. ledger \in Ledger /\ Libre(0).code \in Code
      BY PayParties DEF LedgerInv
    <3>3. TokenOf(ledger, Libre(0)) => TokenOf(ledger', Libre(0))
      BY <3>1, <3>2, TokensLast
    <3>4. QED
      BY <3>1, <3>3 DEF PaidInLibre, Owed
  <2>6. CASE Adopt \/ VotingStep \/ UNCHANGED allVars
    BY <2>1, <2>6 DEF Adopt, VotingStep, allVars, onblockVars, payVars
  <2>7. QED
    BY <2>3, <2>4, <2>5, <2>6 DEF BlockNext
<1>3. QED
  BY <1>1, <1>2, CountsHold, ProductionTypes, LedgerOfTheChain, PTL DEF BlockSpec

(* What an account holds, with or without a row. *)
LEMMA HeldInLibre ==
    ASSUME NEW L, LedgerInv(L), NEW h \in Holder, NEW g \in Holder, g # h
    PROVE  /\ BalanceOf(L, g, "LIBRE") \in Nat /\ BalanceOf(L, h, "LIBRE") \in Nat
           /\ BalanceOf(L, g, "LIBRE") + BalanceOf(L, h, "LIBRE") <= MaxAmount
           /\ MaxAmount \in Nat
<1>1. L \in Ledger /\ "LIBRE" \in Code
  BY PayParties DEF LedgerInv
<1>2. /\ Balances(L, "LIBRE") \in [Holder -> Nat]
      /\ Balances(L, "LIBRE")[h] = BalanceOf(L, h, "LIBRE")
      /\ Balances(L, "LIBRE")[g] = BalanceOf(L, g, "LIBRE")
  BY <1>1, BalancesType
<1>3. Balances(L, "LIBRE")[g] + Balances(L, "LIBRE")[h]
        <= SumFunctionOnSet(Balances(L, "LIBRE"), Holder)
  BY <1>2, SumBoundsTwo, TokenAssumption
<1>4. SupplyOf(L, "LIBRE") = SumFunctionOnSet(Balances(L, "LIBRE"), Holder)
  BY <1>1 DEF LedgerInv
<1>5. SupplyOf(L, "LIBRE") \in 0..MaxAmount /\ MaxAmount \in Nat
  BY <1>1, RowTypes, TokenAssumption
<1>6. QED
  BY <1>2, <1>3, <1>4, <1>5

(***************************************************************************)
(* Whoever is owed LIBRE can claim it, always: bpay.libre holds the sum,   *)
(* its row and the producer's have the symbol of the token whoever opened  *)
(* them, and what the producer holds already leaves room for the claim,    *)
(* since both balances are part of one supply.                             *)
(***************************************************************************)
THEOREM NothingStopsAClaim == BlockSpec => []ClaimsAreHonoured
<1>1. LedgerInv(ledger) /\ ProductionTypeOK /\ PaymentsAreFunded /\ PaidInLibre
        => ClaimsAreHonoured
  <2> SUFFICES ASSUME LedgerInv(ledger), ProductionTypeOK, PaymentsAreFunded, PaidInLibre,
                      NEW p \in Account \ {Bpay}, Owed(p) # 0
               PROVE  CanTransfer(ledger, {Bpay, p}, Bpay, p, Libre(Owed(p)))
    BY DEF ClaimsAreHonoured
  <2> DEFINE n == Owed(p)
             q == Libre(n)
  <2>1. n \in Nat /\ n # 0 /\ AllOwed[p] = n
    BY OwedFacts DEF AllOwed
  <2>2. p \in Holder /\ Bpay \in Holder /\ p # Bpay
    BY PayParties
  <2>3. TokenOf(ledger, Libre(0))
    BY DEF PaidInLibre
  <2>4. BalanceOf(ledger, Bpay, "LIBRE") >= n
    <3>1. AllOwed[p] <= SumFunctionOnSet(AllOwed, Account)
      BY OwedFacts, SumBoundsSummand, VotingAssumption
    <3>2. BalanceOf(ledger, Bpay, "LIBRE") >= SumFunctionOnSet(AllOwed, Account)
      BY DEF PaymentsAreFunded, AllOwed
    <3>3. BalanceOf(ledger, Bpay, "LIBRE") \in Nat
      BY <2>2, HeldInLibre
    <3>4. QED
      BY <2>1, <3>1, <3>2, <3>3, OwedFacts
  <2> HIDE DEF n
  <2>5. q.amount = n /\ q.code = "LIBRE" /\ q.precision = 0
    BY <2>1, PayParties
  <2> HIDE DEF q
  <2>6. TokenOf(ledger, q)
    BY <2>3, <2>5, PayParties DEF TokenOf
  <2>7. /\ BalanceOf(ledger, Bpay, "LIBRE") \in Nat /\ BalanceOf(ledger, p, "LIBRE") \in Nat
        /\ BalanceOf(ledger, Bpay, "LIBRE") + BalanceOf(ledger, p, "LIBRE") <= MaxAmount
        /\ MaxAmount \in Nat
    BY <2>2, HeldInLibre
  <2>8. Positive(q)
    BY <2>1, <2>4, <2>5, <2>7 DEF Positive
  <2>9. CanSub(ledger, Bpay, q)
    <3>1. ledger.accounts[Bpay]["LIBRE"] # NoBalance
      BY <2>1, <2>4 DEF BalanceOf
    <3>2. QED
      BY <2>2, <2>3, <2>4, <2>5, <3>1, LibreRows DEF CanSub
  <2>10. CanAdd(ledger, p, q)
    <3>1. BalanceOf(ledger, p, "LIBRE") + n <= MaxAmount
      BY <2>1, <2>4, <2>7
    <3>2. QED
      BY <2>2, <2>3, <2>5, <3>1, LibreRows DEF CanAdd
  <2>11. QED
    BY <2>2, <2>6, <2>8, <2>9, <2>10 DEF CanTransfer, q, n
<1>2. QED
  BY <1>1, LedgerOfTheChain, ProductionTypes, ClaimsAreFunded, LibreOfTheChain, PTL

-----------------------------------------------------------------------------
(***************************************************************************)
(* The pay of a block falls with the time since the first onblock.         *)
(***************************************************************************)
LEMMA PayFalls ==
    ASSUME NEW m \in Int, NEW n \in Int, m <= n
    PROVE  PayPerBlock(n) \in 0..PayPerBlock(m) /\ PayPerBlock(m) \in Nat
BY DEF PayPerBlock, Day

(* A block, whose header comes after the last, leaves no higher rate. *)
LEMMA RateFalls ==
    ASSUME ClockTypes, NEW now \in Int, now > head.slot, head'.slot = now,
           activated_time' \in {Activated(now), activated_time}
    PROVE  Rate' \in 0..Rate
<1>1. activated_time \in Nat /\ head.slot \in Nat /\ activated_time <= head.slot
  BY DEF ClockTypes
<1>2. CASE activated_time = 0
  <2>1. activated_time' = 0 \/ activated_time' = now
    BY <1>2 DEF Activated
  <2>2. Rate = PayPerBlock(0) /\ Rate' = PayPerBlock(0)
    <3>1. now - now = 0
      OBVIOUS
    <3>2. QED
      BY <1>2, <2>1, <3>1 DEF Rate
  <2>3. QED
    BY <2>2, PayFalls
<1>3. CASE activated_time # 0
  <2>1. activated_time' = activated_time
    BY <1>3 DEF Activated
  <2>2. /\ Rate = PayPerBlock(head.slot - activated_time)
        /\ Rate' = PayPerBlock(now - activated_time)
    BY <1>3, <2>1 DEF Rate
  <2>3. head.slot - activated_time <= now - activated_time
    BY <1>1
  <2>4. QED
    BY <1>1, <2>2, <2>3, PayFalls
<1>4. QED
  BY <1>2, <1>3

(* The producer of the last header, if it has a row to count the block in. *)
Worker == IF head.producer \in registered THEN head.producer ELSE NoRow

(* The counts and the pay of onblock are those of the payroll. *)
LEMMA OnBlockIsADay ==
    ASSUME CountInv, ClockTypes, NEW now \in Int, now > head.slot
    PROVE  /\ Worker \in Account \cup {NoRow}
           /\ Counted = PayDays!Done(Worker)
           /\ NewTokens(now) = PayDays!Wages(Worker)
<1>1. registered \subseteq Account /\ NoRow \notin Account
  BY VotingAssumption DEF CountInv
<1>2. Worker \in Account \cup {NoRow}
  BY <1>1 DEF Worker
<1>3. \A p \in Account : p = Worker <=> p = head.producer /\ p \in registered
  BY <1>1 DEF Worker
<1>4. Counted = PayDays!Done(Worker)
  BY <1>3 DEF Counted, PayDays!Done
<1>5. PayPerBlock(head.slot - Activated(now)) = Rate
  <2>1. activated_time \in Nat /\ head.slot \in Nat
    BY DEF ClockTypes
  <2>2. CASE activated_time = 0
    <3>1. head.slot - Activated(now) < 0
      BY <2>1, <2>2 DEF Activated
    <3>2. QED
      BY <2>1, <2>2, <3>1 DEF PayPerBlock, Rate, Day, Activated
  <2>3. CASE activated_time # 0
    BY <2>3 DEF Activated, Rate
  <2>4. QED
    BY <2>2, <2>3
<1>6. NewTokens(now) = PayDays!Wages(Worker)
  BY <1>4, <1>5 DEF NewTokens, PayDays!Wages
<1>7. QED
  BY <1>2, <1>4, <1>6

(* The sum of Payroll is the sum here: an instance has its own copy of it. *)
LEMMA SumOfPayroll ==
    ASSUME NEW f
    PROVE  PayDays!SumFunctionOnSet(f, Account) = SumFunctionOnSet(f, Account)
BY DEF PayDays!SumFunctionOnSet, PayDays!FoldFunctionOnSet, PayDays!MapThenFoldSet,
       SumFunctionOnSet, FoldFunctionOnSet, MapThenFoldSet

LEMMA InitPayroll == BlockInit => PayDays!PayrollInit
<1> SUFFICES ASSUME BlockInit PROVE PayDays!PayrollInit
  OBVIOUS
<1>1. /\ unpaid_blocks = [p \in Account |-> 0]
      /\ payments = [p \in Account |-> NoRow]
      /\ ledger = EmptyLedger
  BY DEF BlockInit, TokenInit
<1>2. [p \in Account |-> Owed(p)] = [p \in Account |-> 0]
  BY <1>1 DEF Owed
<1>3. BalanceOf(ledger, Bpay, "LIBRE") = 0
  BY <1>1, PayParties DEF EmptyLedger, BalanceOf
<1>4. Rate \in Nat
  BY DEF Rate, PayPerBlock
<1>5. QED
  BY <1>1, <1>2, <1>3, <1>4 DEF PayDays!PayrollInit

(* A block records one for its producer, or pays all, or fails and records none. *)
LEMMA BlockPayroll ==
    ASSUME CountInv, ProductionTypeOK, LedgerInv(ledger),
           NEW gap \in Gaps, NEW p \in Name, Block(gap, p)
    PROVE  \E q \in Account \cup {NoRow} : PayDays!Day(q)
<1> DEFINE now == head.slot + gap
<1>0. ClockTypes /\ unpaid_blocks \in [Account -> Nat]
  BY TypesInParts DEF CountInv
<1>1. /\ head.slot \in Nat /\ gap \in Nat /\ gap > 0
      /\ OnBlock(now) \/ OnBlockFails(now)
      /\ head'.slot = now
  BY <1>0, ProductionAssumption DEF Block, ClockTypes
<1>2. now \in Int /\ now > head.slot
  BY <1>1
<1> HIDE DEF now
<1>3. /\ Worker \in Account \cup {NoRow}
      /\ Counted = PayDays!Done(Worker)
      /\ NewTokens(now) = PayDays!Wages(Worker)
  BY <1>0, <1>2, OnBlockIsADay
<1>4. Rate' \in 0..Rate
  <2>1. activated_time' \in {Activated(now), activated_time}
    BY <1>1 DEF OnBlock, OnBlockFails, onblockVars, clockVars
  <2>2. QED
    BY <1>0, <1>1, <1>2, <2>1, RateFalls
<1>5. CASE OnBlockFails(now)
  <2>1. UNCHANGED <<unpaid_blocks, payments, ledger>>
    BY <1>5 DEF OnBlockFails, onblockVars, payVars
  <2>2. PayDays!Done(NoRow) = unpaid_blocks
    <3>1. NoRow \notin Account
      BY VotingAssumption
    <3>2. \A q \in Account : unpaid_blocks[q] + (IF q = NoRow THEN 1 ELSE 0) = unpaid_blocks[q]
      BY <1>0, <3>1
    <3>3. QED
      BY <1>0, <3>2 DEF PayDays!Done
  <2>3. PayDays!Record(NoRow)
    BY <2>1, <2>2 DEF PayDays!Record, Owed
  <2>4. QED
    BY <1>4, <2>3 DEF PayDays!Day
<1>6. CASE OnBlock(now) /\ ~RewardsDue(now)
  <2>1. unpaid_blocks' = Counted /\ UNCHANGED <<payments, ledger>>
    BY <1>6 DEF OnBlock, CountOnly
  <2>2. PayDays!Record(Worker)
    BY <1>3, <2>1 DEF PayDays!Record, Owed
  <2>3. QED
    BY <1>3, <1>4, <2>2 DEF PayDays!Day
<1>7. CASE OnBlock(now) /\ RewardsDue(now)
  <2>1. /\ unpaid_blocks' = [q \in Account |-> 0]
        /\ UpdRewards(now) /\ RewardsFit(now)
    BY <1>7 DEF OnBlock, UpdRewards
  <2>2. /\ AllOwed' = [q \in Account |-> AllOwed[q] + NewTokens(now)[q]]
        /\ BalanceOf(ledger', Bpay, "LIBRE") = BalanceOf(ledger, Bpay, "LIBRE") + Total(now)
    BY <2>1, PayAdds
  <2>3. [q \in Account |-> Owed(q)]'
           = [q \in Account |-> [r \in Account |-> Owed(r)][q] + PayDays!Wages(Worker)[q]]
    BY <1>3, <2>2 DEF AllOwed
  <2>4. Total(now) = SumFunctionOnSet(PayDays!Wages(Worker), Account)
    BY <1>3 DEF Total
  <2>5. BalanceOf(ledger, Bpay, "LIBRE")'
           = BalanceOf(ledger, Bpay, "LIBRE") + SumFunctionOnSet(PayDays!Wages(Worker), Account)
    BY <2>2, <2>4 DEF BalanceOf
  <2>6. PayDays!PayDay(Worker)
    BY <2>1, <2>3, <2>5, SumOfPayroll DEF PayDays!PayDay
  <2>7. QED
    BY <1>3, <1>4, <2>6 DEF PayDays!Day
<1>8. QED
  BY <1>1, <1>5, <1>6, <1>7

LEMMA ClaimPayroll ==
    ASSUME ProductionTypeOK, LedgerInv(ledger), NEW p \in Account, ClaimRewards(p)
    PROVE  PayDays!Collect(p)
<1>1. /\ Owed(p) \in Nat /\ Owed(p) # 0
      /\ AllOwed' = [AllOwed EXCEPT ![p] = 0]
      /\ BalanceOf(ledger', Bpay, "LIBRE") = BalanceOf(ledger, Bpay, "LIBRE") - Owed(p)
      /\ BalanceOf(ledger, Bpay, "LIBRE") \in Nat
  BY ClaimTakes DEF ClaimRewards
<1>2. CanSub(ledger, Bpay, Libre(Owed(p)))
  BY DEF ClaimRewards, CanTransfer
<1>3. Owed(p) <= BalanceOf(ledger, Bpay, "LIBRE")
  BY <1>1, <1>2, PayParties DEF CanSub, BalanceOf
<1>4. [q \in Account |-> Owed(q)][p] = Owed(p)
  OBVIOUS
<1>5. [q \in Account |-> Owed(q)]' = [[q \in Account |-> Owed(q)] EXCEPT ![p] = 0]
  BY <1>1 DEF AllOwed
<1>6. UNCHANGED <<unpaid_blocks, activated_time, head>>
  BY DEF ClaimRewards, clockVars
<1>7. BalanceOf(ledger, Bpay, "LIBRE")' = BalanceOf(ledger, Bpay, "LIBRE") - Owed(p)
  BY <1>1 DEF BalanceOf
<1>8. QED
  BY <1>1, <1>3, <1>4, <1>5, <1>6, <1>7 DEF PayDays!Collect, Rate

LEMMA NextPayroll ==
    /\ CountInv /\ ProductionTypeOK /\ LedgerInv(ledger) /\ LedgerInv(ledger)'
    /\ [BlockNext]_allVars
    => [PayDays!PayrollNext]_(PayDays!payrollVars)
<1> SUFFICES ASSUME CountInv, ProductionTypeOK, LedgerInv(ledger), LedgerInv(ledger)',
                    [BlockNext]_allVars
             PROVE  PayDays!PayrollNext \/ UNCHANGED PayDays!payrollVars
  OBVIOUS
<1>1. ASSUME UNCHANGED <<unpaid_blocks, payments, ledger, activated_time, head>>
      PROVE  UNCHANGED PayDays!payrollVars
  BY <1>1 DEF PayDays!payrollVars, Owed, Rate
<1>2. ASSUME NEW gap \in Gaps, NEW p \in Name, Block(gap, p) PROVE PayDays!PayrollNext
  BY <1>2, BlockPayroll DEF PayDays!PayrollNext
<1>3. ASSUME NEW p \in Account, ClaimRewards(p) PROVE PayDays!PayrollNext
  BY <1>3, ClaimPayroll DEF PayDays!PayrollNext
<1>4. CASE TokenStep
  <2>1. UNCHANGED <<unpaid_blocks, payments, activated_time, head>>
    BY <1>4 DEF TokenStep, onblockVars, payVars, clockVars
  <2>2. [p \in Account |-> Owed(p)]' = [p \in Account |-> Owed(p)] /\ Rate' = Rate
    BY <2>1 DEF Owed, Rate
  <2>3. /\ BalanceOf(ledger, Bpay, "LIBRE") \in Nat
        /\ BalanceOf(ledger, Bpay, "LIBRE")' \in Nat
        /\ BalanceOf(ledger, Bpay, "LIBRE")' >= BalanceOf(ledger, Bpay, "LIBRE")
    <3>1. ledger \in Ledger /\ ledger' \in Ledger
      BY DEF LedgerInv
    <3>2. BalanceOf(ledger', Bpay, "LIBRE") = BalanceOf(ledger, Bpay, "LIBRE")'
      BY DEF BalanceOf
    <3>3. QED
      BY <1>4, <3>1, <3>2, PayParties, HeldIsBalance DEF TokenStep
  <2>4. CASE BalanceOf(ledger, Bpay, "LIBRE")' = BalanceOf(ledger, Bpay, "LIBRE")
    BY <2>1, <2>2, <2>4 DEF PayDays!payrollVars
  <2>5. CASE BalanceOf(ledger, Bpay, "LIBRE")' > BalanceOf(ledger, Bpay, "LIBRE")
    <3>1. PayDays!Gift
      BY <2>1, <2>2, <2>5 DEF PayDays!Gift
    <3>2. QED
      BY <3>1 DEF PayDays!PayrollNext
  <2>6. QED
    BY <2>3, <2>4, <2>5
<1>5. CASE Adopt \/ VotingStep \/ UNCHANGED allVars
  BY <1>1, <1>5 DEF Adopt, VotingStep, allVars, onblockVars, payVars, clockVars
<1>6. QED
  BY <1>2, <1>3, <1>4, <1>5 DEF BlockNext

(***************************************************************************)
(* The pay of the chain is the abstract payroll: whoever registers, leaves *)
(* or moves tokens meanwhile, each counted block is paid once, at a rate   *)
(* that never rises, what is owed is set aside when it falls due and is    *)
(* collected whole.                                                        *)
(***************************************************************************)
THEOREM PayImplementsPayroll == BlockSpec => ImplementsPayroll
<1>1. BlockSpec => PayDays!PayrollInit /\ [][PayDays!PayrollNext]_(PayDays!payrollVars)
  BY InitPayroll, NextPayroll, CountsHold, ProductionTypes, LedgerOfTheChain, PTL
     DEF BlockSpec
<1>2. QED
  BY <1>1 DEF ImplementsPayroll, PayDays!PayrollSpec

-----------------------------------------------------------------------------
(***************************************************************************)
(* What libre.system does with votes between blocks is what Voting says:   *)
(* its theorems, the abstract ballot among them, hold of the chain.        *)
(***************************************************************************)
THEOREM ChainRunsVoting == BlockSpec => Spec
<1>1. BlockInit => Init
  BY DEF BlockInit
<1>2. [BlockNext]_allVars => [Next]_vars
  BY DEF BlockNext, Block, Adopt, ClaimRewards, TokenStep, VotingStep, allVars
<1>3. QED
  BY <1>1, <1>2, PTL DEF BlockSpec, Spec

(***************************************************************************)
(* A vote is counted once, for one producer, also while blocks are made,   *)
(* producers are paid and schedules change.                                *)
(***************************************************************************)
THEOREM ChainImplementsBallots == BlockSpec => ImplementsBallots
BY ChainRunsVoting, VotingImplementsBallots

=============================================================================
