------------------------------ MODULE Multisig ------------------------------
(***************************************************************************)
(* eosio.msig: proposals, the approvals given to them, and the accounts    *)
(* that have withdrawn all they ever approved.  A proposal is kept in two  *)
(* rows under the same key, and the approvals of proposals older than the  *)
(* present contract are in a table of their own, without times.            *)
(*                                                                         *)
(* A list of levels may name one more than once.  Its position in the list *)
(* is never read, so a row says how often a level is still requested, and  *)
(* in what order the level itself has approved.                            *)
(***************************************************************************)
EXTENDS Deferred, Sequences

CONSTANTS
    Account,
    Proposer,
    ProposalName,
    Requested,     \* the lists passed to propose: how often each names a level
    ActorOf,       \* Level -> Account
    Expiration,    \* Transaction -> its expiration, in seconds
    OldRow,        \* the approvals an older version of the contract left
    NoHash,        \* approve without the optional proposal_hash
    NoRow

(* The tables are scoped by proposer: a key is the scope and the name. *)
Key == Proposer \X ProposalName

(* The times of a level's approvals, as push_back leaves them: oldest first. *)
ApprovalsRow    == [requested: [Level -> Nat], provided: [Level -> Seq(Slot)]]
OldApprovalsRow == [requested: [Level -> Nat], provided: [Level -> Nat]]

ASSUME MultisigAssumption ==
    /\ Proposer \subseteq Account
    /\ Requested \subseteq [Level -> Nat]
    /\ ActorOf \in [Level -> Account]
    /\ Expiration \in [Transaction -> Nat]
    /\ OldRow \subseteq OldApprovalsRow
    /\ NoHash \notin Transaction
    /\ NoRow \notin Transaction \cup ApprovalsRow \cup OldApprovalsRow \cup Nat

VARIABLES
    proposals,       \* table proposal: the packed transaction of a key
    approvals,       \* table approvals2
    old_approvals,   \* table approvals
    invalidations    \* table invals: the account's last_invalidation_time

msigTables == <<proposals, approvals, old_approvals, invalidations>>

-----------------------------------------------------------------------------
(* Once more, and once less, in a list that counts its levels. *)
More(count, l) == [count EXCEPT ![l] = @ + 1]
Less(count, l) == [count EXCEPT ![l] = @ - 1]

(* An approval more, of this block, and the oldest (find_if) less. *)
PushBack(times, l)   == [times EXCEPT ![l] = Append(@, now)]
EraseFirst(times, l) == [times EXCEPT ![l] = Tail(@)]

(* The account's authorization is required by every action: any may sign. *)

Propose(k, levels, trx) ==
    /\ Expiration[trx] >= Seconds(now)
    /\ proposals[k] = NoRow
    /\ Satisfied({l \in Level : levels[l] > 0})
    /\ approvals[k] = NoRow                   \* emplace
    /\ proposals' = [proposals EXCEPT ![k] = trx]
    /\ approvals' = [approvals EXCEPT ![k] =
          [requested |-> levels, provided |-> [l \in Level |-> << >>]]]
    /\ UNCHANGED <<old_approvals, invalidations, now, authority, deferred>>

\* mutated: the level stays among those requested
ApproveNew_StaysRequested(k, l) ==
    /\ approvals[k] # NoRow
    /\ approvals[k].requested[l] > 0
    /\ approvals' = [approvals EXCEPT ![k] =
          [requested |-> @.requested, provided |-> PushBack(@.provided, l)]]
    /\ UNCHANGED old_approvals

ApproveNew(k, l) ==
    /\ approvals[k] # NoRow
    /\ approvals[k].requested[l] > 0
    /\ approvals' = [approvals EXCEPT ![k] =
          [requested |-> Less(@.requested, l), provided |-> PushBack(@.provided, l)]]
    /\ UNCHANGED old_approvals

ApproveOld(k, l) ==
    /\ approvals[k] = NoRow
    /\ old_approvals[k] # NoRow
    /\ old_approvals[k].requested[l] > 0
    /\ old_approvals' = [old_approvals EXCEPT ![k] =
          [requested |-> Less(@.requested, l), provided |-> More(@.provided, l)]]
    /\ UNCHANGED approvals

(* Only a hash makes approve look at the proposal: get, then assert_sha256. *)
Approve(k, l, hash) ==
    /\ hash # NoHash => proposals[k] = hash
    /\ ApproveNew(k, l) \/ ApproveOld(k, l)
    /\ UNCHANGED <<proposals, invalidations, now, authority, deferred>>

UnapproveNew(k, l) ==
    /\ approvals[k] # NoRow
    /\ approvals[k].provided[l] # << >>
    /\ approvals' = [approvals EXCEPT ![k] =
          [requested |-> More(@.requested, l), provided |-> EraseFirst(@.provided, l)]]
    /\ UNCHANGED old_approvals

\* mutated: an approval that was never given is taken back
UnapproveOld_NeverGiven(k, l) ==
    /\ approvals[k] = NoRow
    /\ old_approvals[k] # NoRow
    /\ old_approvals' = [old_approvals EXCEPT ![k] =
          [requested |-> More(@.requested, l), provided |-> Less(@.provided, l)]]
    /\ UNCHANGED approvals

UnapproveOld(k, l) ==
    /\ approvals[k] = NoRow
    /\ old_approvals[k] # NoRow
    /\ old_approvals[k].provided[l] > 0
    /\ old_approvals' = [old_approvals EXCEPT ![k] =
          [requested |-> More(@.requested, l), provided |-> Less(@.provided, l)]]
    /\ UNCHANGED approvals

Unapprove(k, l) ==
    /\ UnapproveNew(k, l) \/ UnapproveOld(k, l)
    /\ UNCHANGED <<proposals, invalidations, now, authority, deferred>>

(* The approvals of a key, from whichever table has them; one must. *)
\* mutated: the table of the older version is forgotten
EraseApprovals_NewOnly(k) ==
    /\ approvals[k] # NoRow \/ old_approvals[k] # NoRow
    /\ approvals' = [approvals EXCEPT ![k] = NoRow]
    /\ UNCHANGED old_approvals

EraseApprovals(k) ==
    \/ /\ approvals[k] # NoRow
       /\ approvals' = [approvals EXCEPT ![k] = NoRow]
       /\ UNCHANGED old_approvals
    \/ /\ approvals[k] = NoRow
       /\ old_approvals[k] # NoRow
       /\ old_approvals' = [old_approvals EXCEPT ![k] = NoRow]
       /\ UNCHANGED approvals

Cancel(k, canceler) ==
    /\ proposals[k] # NoRow
    /\ canceler # k[1] => Expiration[proposals[k]] < Seconds(now)
    /\ proposals' = [proposals EXCEPT ![k] = NoRow]
    /\ EraseApprovals(k)
    /\ UNCHANGED <<invalidations, now, authority, deferred>>

(* Whether an approval of that time is later than the actor's invalidation. *)
\* mutated: an approval of the block of the invalidation counts
StandsAt_SameBlock(l, time) ==
    \/ invalidations[ActorOf[l]] = NoRow
    \/ invalidations[ActorOf[l]] <= time

StandsAt(l, time) ==
    \/ invalidations[ActorOf[l]] = NoRow
    \/ invalidations[ActorOf[l]] < time

(* The levels exec takes for approved; one without a time only if its actor *)
(* never invalidated anything.                                             *)
Counted(k) ==
    IF approvals[k] # NoRow
    THEN {l \in Level : \E i \in DOMAIN approvals[k].provided[l] :
                            StandsAt(l, approvals[k].provided[l][i])}
    ELSE IF old_approvals[k] # NoRow
    THEN {l \in Level : old_approvals[k].provided[l] > 0
                            /\ invalidations[ActorOf[l]] = NoRow}
    ELSE {}

(* Any executer; the transaction's identifier is the key of its proposal. *)
Exec(k) ==
    /\ proposals[k] # NoRow
    /\ Expiration[proposals[k]] >= Seconds(now)
    /\ EraseApprovals(k)
    /\ Satisfied(Counted(k))
    /\ Schedule("eosio.msig", k, proposals[k])
    /\ proposals' = [proposals EXCEPT ![k] = NoRow]
    /\ UNCHANGED <<invalidations, now, authority>>

Invalidate(account) ==
    /\ invalidations' = [invalidations EXCEPT ![account] = now]
    /\ UNCHANGED <<proposals, approvals, old_approvals, now, authority, deferred>>

-----------------------------------------------------------------------------
(* Some proposals, with their approvals, may be the older version's. *)
MsigInit ==
    /\ proposals \in [Key -> Transaction \cup {NoRow}]
    /\ old_approvals \in [Key -> OldRow \cup {NoRow}]
    /\ \A k \in Key : proposals[k] = NoRow <=> old_approvals[k] = NoRow
    /\ approvals = [k \in Key |-> NoRow]
    /\ invalidations = [a \in Account |-> NoRow]

=============================================================================
