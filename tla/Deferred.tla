------------------------------ MODULE Deferred ------------------------------
(***************************************************************************)
(* What nodeos gives eosio.msig and eosio.wrap, modelled from how they use *)
(* it: the time of the block, the authority of the account the proposed    *)
(* transactions act for, and the queue of deferred transactions.           *)
(***************************************************************************)
EXTENDS Integers, FiniteSets

CONSTANTS
    Transaction,   \* packed transactions; each is its own sha256
    Level,         \* permission levels, account and permission
    Authority,     \* the sets of levels that, each alone, satisfy an authority
    MaxSlot,       \* bound: the last block
    MaxDeferred    \* bound: the length of the queue

ASSUME DeferredAssumption ==
    /\ \A f \in Authority : f \subseteq SUBSET Level /\ {} \notin f
    /\ Authority # {}
    /\ MaxSlot \in Nat

VARIABLES
    now,           \* the block's timestamp, in slots of half a second
    authority,     \* what the acting account demands at present
    deferred       \* the queue

Slot == 0..MaxSlot

(* eosio::time_point_sec(current_time_point()): whole seconds. *)
Seconds(slot) == slot \div 2

(* check_transaction_authorization(trx, levels) > 0 *)
Satisfied(levels) == \E s \in authority : s \subseteq levels

(***************************************************************************)
(* send_deferred(id, ...) without the flag that replaces: an identifier    *)
(* pending for the same contract makes the action fail.                    *)
(***************************************************************************)
\* mutated: the pending transaction is replaced
Schedule_Replacing(sender, id, trx) ==
    /\ Cardinality(deferred) < MaxDeferred
    /\ deferred' =
          {d \in deferred : d.sender # sender \/ d.id # id}
             \cup {[sender |-> sender, id |-> id, trx |-> trx, published |-> now]}

Schedule(sender, id, trx) ==
    /\ \A d \in deferred : d.sender # sender \/ d.id # id
    /\ Cardinality(deferred) < MaxDeferred
    /\ deferred' = deferred
          \cup {[sender |-> sender, id |-> id, trx |-> trx, published |-> now]}

(* nodeos runs a queued transaction, or drops it when it has waited too long. *)
Leave(d) == d \in deferred /\ deferred' = deferred \ {d} /\ UNCHANGED <<now, authority>>

NewBlock == now < MaxSlot /\ now' = now + 1 /\ UNCHANGED <<authority, deferred>>

(* eosio::updateauth of the acting account. *)
UpdateAuth ==
    /\ authority' \in Authority
    /\ UNCHANGED <<now, deferred>>

DeferredInit ==
    /\ now = 0
    /\ authority \in Authority
    /\ deferred = {}

=============================================================================
