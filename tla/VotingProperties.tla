-------------------------- MODULE VotingProperties --------------------------
(***************************************************************************)
(* What registration and voting promise.                                   *)
(***************************************************************************)
EXTENDS Voting

(***************************************************************************)
(* Every variable has its type; the rows of a table are those of accounts  *)
(* that exist, and only rows carry votes, stake and an authority.          *)
(***************************************************************************)
TypeOK ==
    /\ PermTypeOK
    /\ registered \subseteq Account
    /\ active \subseteq registered
    /\ authority \in [Account -> Key \cup {NoRow}]
    /\ total_votes \in [Account -> Nat]
    /\ vote \in [Voter -> Name \cup {NoRow}]
    /\ staked \in [Voter -> Nat]
    /\ total_producer_vote_weight \in Int
    /\ total_activated_stake \in 0..Int64 - 1
    /\ stakes \in [StakeId -> StakeRow \cup {NoRow}]

(* The stake the contract has on record for the voters of p. *)
VotesFor(p) == [v \in Voter |-> IF vote[v] = p THEN staked[v] ELSE 0]

(***************************************************************************)
(* update_votes keeps a running total per producer, by deltas, through     *)
(* votes moved, stakes grown and shrunk, producers kicked and registered   *)
(* again.  The total of every producer is always the recorded stake of the *)
(* voters whose vote it has: no vote is lost, kept or counted twice, and   *)
(* the clamp at zero never hides one.                                      *)
(***************************************************************************)
VotesMatchVoters ==
    \A p \in Account : total_votes[p] = SumFunctionOnSet(VotesFor(p), Voter)

(***************************************************************************)
(* The global vote weight is a second running total of the same deltas.    *)
(* It equals the sum of the votes of the producers, although the clamp of  *)
(* a producer's votes is not applied to it.                                *)
(***************************************************************************)
WeightIsSumOfVotes ==
    total_producer_vote_weight = SumFunctionOnSet(total_votes, Account)

(***************************************************************************)
(* A vote for a name that is no producer is accepted only while it is      *)
(* worth nothing: recorded stake always lies with a producer.              *)
(***************************************************************************)
StakeLiesWithProducers ==
    \A v \in Voter : staked[v] > 0 => vote[v] \in registered

(***************************************************************************)
(* An active producer has an authority it can sign blocks with, so the     *)
(* schedule never elects an unusable key: deactivate resets it, and both   *)
(* ways to register set a valid one.                                       *)
(***************************************************************************)
ActiveCanSign == \A p \in active : authority[p] \in Key

VotersOf(p) == {v \in Voter : vote[v] = p}

(***************************************************************************)
(* The votes of a producer that is not active change by the stake of the   *)
(* voters it already has: it gains no voter and loses none.                *)
(***************************************************************************)
KeepVoters == \A p \in registered \ active : VotersOf(p)' = VotersOf(p)

InactiveKeepVoters == [][KeepVoters]_vars

Polls == INSTANCE Ballots WITH
    Candidate <- Account,
    Nobody    <- NoRow,
    entered   <- registered,
    standing  <- active,
    choice    <- vote,
    worth     <- staked,
    tally     <- total_votes

(***************************************************************************)
(* The deltas of update_votes, the clamp of their results, the name read   *)
(* for a voter without a row and the two tests of activity come to this:   *)
(* what the voter was worth leaves its old producer, what it is worth      *)
(* comes to the new one, and nothing else changes.                         *)
(***************************************************************************)
ImplementsBallots == Polls!BallotSpec

(***************************************************************************)
(* libre.system.hpp, on voteproducer: the voter must have previously       *)
(* staked.  A vote is kept when the stake is later paid out.               *)
(***************************************************************************)
VotersHaveStaked == \A v \in Voter : HasVote(v) => StakesOf(v) # {}

(***************************************************************************)
(* Stakes open and close without the vote being touched.  As long as       *)
(* stake.libre keeps calling vonstake, the recorded stake of a voter comes *)
(* to what the voter has staked, whether or not the producer is active;    *)
(* only a vote for a name that is no producer may stay out of date.        *)
(***************************************************************************)
RecordedStakeFollows ==
    \A v \in Voter :
        HasVote(v) ~> (staked[v] = GetStaked(v) \/ vote[v] \notin registered)

(***************************************************************************)
(* libre.system.hpp, on voteproducer: every listed producer must have been *)
(* previously registered.                                                  *)
(***************************************************************************)
VotesAreForProducers == \A v \in Voter : HasVote(v) => vote[v] \in registered

(***************************************************************************)
(* The Ricardian contract of unregprod and rmvproducer: the votes of the   *)
(* producer can change by votes removed from it.  So a voter with a stake  *)
(* can always move its vote from an inactive producer to an active one.    *)
(***************************************************************************)
VotesCanBeRemoved ==
    \A v \in Voter : \A p \in active :
        vote[v] \in registered \ active /\ GetStaked(v) # -1
            => ENABLED VoteProducer(v, p)

=============================================================================
