------------------------------- MODULE Voting -------------------------------
(***************************************************************************)
(* Producer registration and voting of libre.system, with the permission   *)
(* table of eosio.libre that guards registration and the stake table of    *)
(* stake.libre that gives the votes their weight.                          *)
(*                                                                         *)
(* stake.libre is another party's contract: it opens and closes stakes,    *)
(* and tells libre.system (vonstake) in a transaction that may come any    *)
(* time later, or not at all.                                              *)
(*                                                                         *)
(* Amounts and vote weights are integers: the doubles of the code hold     *)
(* them exactly up to 2^53.                                                *)
(***************************************************************************)
EXTENDS LibrePermissions, Functions

CONSTANTS
    Voter,        \* the accounts that vote
    Name,         \* what an account may vote for: any name, an account's or not
    StaleName,    \* what voter->producer reads when the voter has no row
    NoRow,        \* neither a name nor a key nor a stake
    Key,          \* block signing authorities that is_valid() accepts
    BadKey,       \* ... and those it refuses
    StakeId,      \* primary keys of the stake table
    Amount,       \* amounts of a stake
    Int64         \* the number of values of an int64_t

(* stake_status *)
STAKE_IN_PROGRESS == 1
STAKE_COMPLETED   == 2
STAKE_CANCELED    == 3

StakeRow == [account: Voter, libre_staked: Amount,
             status: {STAKE_IN_PROGRESS, STAKE_COMPLETED, STAKE_CANCELED}]

ASSUME VotingAssumption ==
    /\ IsFiniteSet(Account) /\ IsFiniteSet(Voter) /\ IsFiniteSet(StakeId)
    /\ Account \subseteq Name
    /\ StaleName \subseteq Name
    /\ Amount \subseteq Nat
    /\ NoRow \notin Name \cup Key \cup BadKey
    /\ NoRow \notin StakeRow
    /\ Int64 \in Nat \ {0}

VARIABLES
    registered,          \* the accounts that have a row in producers
    active,              \* ... whose is_active is set
    authority,           \* producer_authority of a row, NoRow when reset
    total_votes,         \* total_votes of a row, 0 without one
    vote,                \* producer of a row of voters, NoRow without one
    staked,              \* staked of a row of voters, 0 without one
    total_producer_vote_weight,
    total_activated_stake,
    stakes               \* stake.libre's table: index -> row or NoRow

prodVars  == <<registered, active, authority>>
tallyVars == <<total_votes, vote, staked, total_producer_vote_weight, total_activated_stake>>
vars == <<perms, prodVars, tallyVars, stakes>>

-----------------------------------------------------------------------------
(***************************************************************************)
(* get_staked: the amount in progress, -1 when the account has no row.     *)
(***************************************************************************)
StakesOf(v) == {i \in StakeId : stakes[i] # NoRow /\ stakes[i].account = v}

InProgress(v) ==
    [i \in StakeId |->
        IF i \in StakesOf(v) /\ stakes[i].status = STAKE_IN_PROGRESS
        THEN stakes[i].libre_staked ELSE 0]

GetStaked(v) ==
    IF StakesOf(v) = {} THEN -1 ELSE SumFunctionOnSet(InProgress(v), StakeId)

HasVote(v) == vote[v] # NoRow

(***************************************************************************)
(* update_votes moves the weight of voter v from its old candidate to p:   *)
(* what it was worth when last recorded leaves, what it is worth now       *)
(* comes.  A first-time voter has no row to read the old candidate from:   *)
(* the iterator the code dereferences is end().                            *)
(***************************************************************************)
OldProducers(v) == IF HasVote(v) THEN {vote[v]} ELSE StaleName

\* mutated: the old producer keeps the votes of a voter that moves
Delta_OldKeeps(n, old, was, p, now) == IF n = p THEN now - (IF old = p THEN was ELSE 0) ELSE 0

(* producer_delta[n] *)
Delta(n, old, was, p, now) ==
    (IF n = p THEN now ELSE 0) - (IF n = old THEN was ELSE 0)

\* mutated: the weight follows the new producer only
WeightDelta_New(old, was, p, now) == IF p \in registered THEN now ELSE 0

(* What the loop over producer_delta adds to total_producer_vote_weight. *)
WeightDelta(old, was, p, now) ==
    (IF p \in registered THEN now ELSE 0) - (IF old \in registered THEN was ELSE 0)

\* mutated: the delta of a name without a row is dropped silently
Accepts_AnyName(n, voting, delta) == n \in registered => (voting => n \in active)

\* mutated: an inactive candidate is refused only when it would gain weight
Accepts_Leaving(n, voting, delta) ==
    IF n \in registered THEN voting /\ delta > 0 => n \in active ELSE delta = 0

(***************************************************************************)
(* While voting both candidates must be active; a vonstake may change an   *)
(* inactive one.  A name without a row may neither gain nor lose.          *)
(***************************************************************************)
Accepts(n, voting, delta) ==
    IF n \in registered THEN voting => n \in active ELSE delta = 0

NotNegative(n) == IF n < 0 THEN 0 ELSE n

\* mutated: an account that never staked votes
MayVote_NoStake(now) == TRUE

(* user must stake before they can vote *)
MayVote(now) == now > -1

UpdateVotes(v, p, voting) ==
    \E old \in OldProducers(v) :
        LET now      == GetStaked(v)
            was      == staked[v]
            delta(n) == Delta(n, old, was, p, now)
        IN  /\ MayVote(now)
            /\ \A n \in {old, p} : Accepts(n, voting, delta(n))
            /\ total_votes' = [n \in Account |->
                  IF n \in {old, p} \cap registered
                  THEN NotNegative(total_votes[n] + delta(n)) ELSE total_votes[n]]
            /\ total_producer_vote_weight' =
                  total_producer_vote_weight + WeightDelta(old, was, p, now)
            /\ total_activated_stake' = (total_activated_stake + now) % Int64
            /\ vote' = [vote EXCEPT ![v] = p]
            /\ staked' = [staked EXCEPT ![v] = now]
            /\ UNCHANGED <<perms, prodVars, stakes>>

(* voteproducer, signed by the voter. *)
VoteProducer(v, p) == UpdateVotes(v, p, TRUE)

\* mutated: only the votes of active producers follow the stake
VOnStake_Voting(v) ==
    /\ HasVote(v)
    /\ GetStaked(v) # -1
    /\ UpdateVotes(v, vote[v], TRUE)

(* vonstake, signed by stake.libre: without a vote or a stake nothing happens. *)
VOnStake(v) ==
    /\ HasVote(v)
    /\ GetStaked(v) # -1
    /\ UpdateVotes(v, vote[v], FALSE)

-----------------------------------------------------------------------------
(* register_producer *)
Register(p, key) ==
    /\ registered' = registered \cup {p}
    /\ active' = active \cup {p}
    /\ authority' = [authority EXCEPT ![p] = key]
    /\ UNCHANGED <<perms, tallyVars, stakes>>

(***************************************************************************)
(* regproducer, signed by the producer: one key, never validated, which    *)
(* makes a valid authority of threshold 1.                                 *)
(***************************************************************************)
RegProducer(p, key) ==
    /\ Allowed(p, "regprod")
    /\ Register(p, key)

\* mutated: the authority is not validated
RegProducer2_AnyKey(p, key) ==
    /\ Allowed(p, "regprod")
    /\ Register(p, key)

(* regproducer2: any block signing authority that is valid. *)
RegProducer2(p, key) ==
    /\ Allowed(p, "regprod")
    /\ key \notin BadKey
    /\ Register(p, key)

(* producer_info::deactivate, on a row that exists. *)
Deactivate(p) ==
    /\ p \in registered
    /\ active' = active \ {p}
    /\ authority' = [authority EXCEPT ![p] = NoRow]
    /\ UNCHANGED <<registered, tallyVars, stakes>>

(* unregprod, signed by the producer. *)
UnregProd(p) == Deactivate(p) /\ UNCHANGED perms

(* rmvproducer, signed by eosio. *)
RmvProducer(p) == Deactivate(p) /\ UNCHANGED perms

\* mutated: the permission to register is left
KickBP_KeepsPermission(p) == Deactivate(p) /\ UNCHANGED perms

(* kickbp, signed by eosio; its inline action is eosio.libre::kickbp. *)
KickBP(p) == Deactivate(p) /\ KickPerm(p)

-----------------------------------------------------------------------------
(* stake.libre opens a stake, or ends one; its rows are never erased. *)
OpenStake(i, v, n) ==
    /\ stakes[i] = NoRow
    /\ stakes' = [stakes EXCEPT ![i] =
          [account |-> v, libre_staked |-> n, status |-> STAKE_IN_PROGRESS]]
    /\ UNCHANGED <<perms, prodVars, tallyVars>>

CloseStake(i, status) ==
    /\ stakes[i] # NoRow
    /\ stakes[i].status = STAKE_IN_PROGRESS
    /\ stakes' = [stakes EXCEPT ![i].status = status]
    /\ UNCHANGED <<perms, prodVars, tallyVars>>

-----------------------------------------------------------------------------
Init ==
    /\ PermInit
    /\ registered = {}
    /\ active = {}
    /\ authority = [p \in Account |-> NoRow]
    /\ total_votes = [p \in Account |-> 0]
    /\ vote = [v \in Voter |-> NoRow]
    /\ staked = [v \in Voter |-> 0]
    /\ total_producer_vote_weight = 0
    /\ total_activated_stake = 0
    /\ stakes = [i \in StakeId |-> NoRow]

(* Steps of the permission table alone. *)
PermStep(acc) ==
    /\ PermNext(acc)
    /\ UNCHANGED <<prodVars, tallyVars, stakes>>

ProducerStep(p) ==
    \/ \E key \in Key : RegProducer(p, key)
    \/ \E key \in Key \cup BadKey : RegProducer2(p, key)
    \/ UnregProd(p)
    \/ RmvProducer(p)
    \/ KickBP(p)

VoterStep(v) ==
    \/ \E p \in Name : VoteProducer(v, p)
    \/ VOnStake(v)

StakeStep(i) ==
    \/ \E v \in Voter, n \in Amount : OpenStake(i, v, n)
    \/ \E status \in {STAKE_COMPLETED, STAKE_CANCELED} : CloseStake(i, status)

Next ==
    \/ \E acc \in Account : PermStep(acc)
    \/ \E p \in Account : ProducerStep(p)
    \/ \E v \in Voter : VoterStep(v)
    \/ \E i \in StakeId : StakeStep(i)

Spec == Init /\ [][Next]_vars

(* stake.libre keeps calling vonstake for the stakers it knows. *)
Fairness == \A v \in Voter : WF_vars(VOnStake(v))

FairSpec == Spec /\ Fairness

=============================================================================
