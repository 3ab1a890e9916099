-------------------------- MODULE BlockProduction --------------------------
(***************************************************************************)
(* The onblock action of libre.system, which nodeos runs at the start of   *)
(* every block with the header of the block before: it counts the block    *)
(* for its producer, once an hour turns counted blocks into LIBRE, and     *)
(* once in a while proposes the producers with the most votes.  With it    *)
(* claimrewards, the voting and registration of Voting, and the ledger of  *)
(* eosio.token its inline actions write.                                   *)
(*                                                                         *)
(* When an inline action fails onblock fails whole: nodeos drops it and    *)
(* goes on with the block.                                                 *)
(*                                                                         *)
(* Times are slots of half a second.                                       *)
(***************************************************************************)
EXTENDS Voting, Token

CONSTANTS
    Eosio, Bpay,    \* the accounts eosio and bpay.libre
    NameValue,      \* name.value of an account
    Genesis,        \* the producers the chain boots with, and their keys
    FirstSlot,      \* the slot of the first block
    ScheduleLimit,  \* producers of a schedule, 21 in the program
    Gaps,           \* slots from a block to the next: 1, or more if some are missed
    MaxBlocks       \* bound of the model on the blocks of a behaviour

Hour   == 7200
Day    == 172800

ProductionAccounts == Account \cup {Eosio, Bpay}

ASSUME ProductionAssumption ==
    /\ ProductionAccounts \subseteq Holder
    /\ Eosio \in Issuer
    /\ Eosio # Bpay
    /\ "LIBRE" \in Code
    /\ 0 \in Precision
    /\ NameValue \in [Account -> Nat]
    /\ \A p, q \in Account : NameValue[p] = NameValue[q] => p = q
    /\ DOMAIN Genesis \subseteq Name /\ DOMAIN Genesis # {}
    /\ Genesis \in [DOMAIN Genesis -> Key]
    /\ FirstSlot \in Nat /\ FirstSlot > Hour
    /\ ScheduleLimit \in Nat \ {0}
    /\ Gaps \subseteq Nat \ {0}
    /\ MaxBlocks \in Nat \ {0}
    /\ NoRow \notin Nat

VARIABLES
    unpaid_blocks,                  \* of a row of producers, 0 without one
    total_unpaid_blocks,
    payments,                       \* amount of a row of payments, NoRow without one
    last_updated_reward,
    last_block_num,
    activated_time,                 \* 0 until the first onblock
    last_producer_schedule_update,
    last_producer_schedule_size,
    head,                           \* nodeos: the header of the last block
    schedule,                       \* nodeos: producer -> key of the active schedule
    proposed                        \* nodeos: the schedule proposed, or NoRow

payVars      == <<unpaid_blocks, total_unpaid_blocks, payments, last_updated_reward>>
clockVars    == <<last_block_num, activated_time>>
electionVars == <<last_producer_schedule_update, last_producer_schedule_size, proposed>>
onblockVars  == <<payVars, clockVars, electionVars>>
allVars      == <<vars, ledger, onblockVars, head, schedule>>

Libre(n) == [amount |-> n, code |-> "LIBRE", precision |-> 0]

-----------------------------------------------------------------------------
(***************************************************************************)
(* calculate_pay_per_block: by the time from the first onblock to the      *)
(* block being paid, in days of the test the code says it is set for.      *)
(***************************************************************************)
PayPerBlock(elapsed) ==
    IF elapsed < Day THEN 4 ELSE IF elapsed < 2 * Day THEN 2 ELSE 1

(* The blocks to pay, with the one just counted; a producer without a row has none. *)
Counted ==
    [p \in Account |->
        unpaid_blocks[p] + IF p = head.producer /\ p \in registered THEN 1 ELSE 0]

Activated(now) == IF activated_time = 0 THEN now ELSE activated_time

NewTokens(now) ==
    [p \in Account |-> PayPerBlock(head.slot - Activated(now)) * Counted[p]]

Total(now) == SumFunctionOnSet(NewTokens(now), Account)

\* mutated: the transfer is sent before the issue
CanPay_TransferFirst(L, n) ==
    /\ CanTransfer(L, {Eosio}, Eosio, Bpay, Libre(n))
    /\ CanIssue(L, {Eosio}, Eosio, Libre(n))

(***************************************************************************)
(* For each producer an issue to eosio and a transfer to bpay.libre, which *)
(* come to one of each for the total: the supply the issues need is that   *)
(* of the last, and only what they leave can fail.                         *)
(***************************************************************************)
CanPay(L, n) ==
    /\ CanIssue(L, {Eosio}, Eosio, Libre(n))
    /\ CanTransfer(Issued(L, Eosio, Libre(n)), {Eosio}, Eosio, Bpay, Libre(n))

Paid(L, n) ==
    Transferred(Issued(L, Eosio, Libre(n)), Eosio, Bpay, Libre(n))

RewardsDue(now) == now - last_updated_reward > Hour

(* The inline actions of updrewards go through. *)
RewardsFit(now) == Total(now) = 0 \/ CanPay(ledger, Total(now))

Owed(p) == IF payments[p] = NoRow THEN 0 ELSE payments[p]

\* mutated: the block just counted is not in the total that is reduced
UpdRewards_Uncounted(now) ==
    /\ ledger' = IF Total(now) = 0 THEN ledger ELSE Paid(ledger, Total(now))
    /\ total_unpaid_blocks' = total_unpaid_blocks - SumFunctionOnSet(Counted, Account)
    /\ payments' = [p \in Account |->
          IF Counted[p] = 0 THEN payments[p] ELSE Owed(p) + NewTokens(now)[p]]
    /\ unpaid_blocks' = [p \in Account |-> 0]
    /\ last_updated_reward' = now

\* mutated: a payment not yet claimed is overwritten
UpdRewards_Overwrites(now) ==
    /\ ledger' = IF Total(now) = 0 THEN ledger ELSE Paid(ledger, Total(now))
    /\ total_unpaid_blocks' =
          total_unpaid_blocks + (IF head.producer \in registered THEN 1 ELSE 0)
                              - SumFunctionOnSet(Counted, Account)
    /\ payments' = [p \in Account |->
          IF Counted[p] = 0 THEN payments[p] ELSE NewTokens(now)[p]]
    /\ unpaid_blocks' = [p \in Account |-> 0]
    /\ last_updated_reward' = now

(* updrewards: a producer with no counted block is passed over. *)
UpdRewards(now) ==
    /\ ledger' = IF Total(now) = 0 THEN ledger ELSE Paid(ledger, Total(now))
    /\ total_unpaid_blocks' =
          total_unpaid_blocks + (IF head.producer \in registered THEN 1 ELSE 0)
                              - SumFunctionOnSet(Counted, Account)
    /\ payments' = [p \in Account |->
          IF Counted[p] = 0 THEN payments[p] ELSE Owed(p) + NewTokens(now)[p]]
    /\ unpaid_blocks' = [p \in Account |-> 0]
    /\ last_updated_reward' = now

\* mutated: the total counts the blocks of producers without a row too
CountOnly_Anyone ==
    /\ unpaid_blocks' = Counted
    /\ total_unpaid_blocks' = total_unpaid_blocks + 1
    /\ UNCHANGED <<ledger, payments, last_updated_reward>>

CountOnly ==
    /\ unpaid_blocks' = Counted
    /\ total_unpaid_blocks' =
          total_unpaid_blocks + (IF head.producer \in registered THEN 1 ELSE 0)
    /\ UNCHANGED <<ledger, payments, last_updated_reward>>

-----------------------------------------------------------------------------
\* mutated: an inactive producer is sorted among the active ones
ByVotes_Unsigned(p) == -total_votes[p]

(* producer_info::by_votes, the key of the index prototalvote. *)
ByVotes(p) == IF p \in active THEN -total_votes[p] ELSE total_votes[p]

(* The order of the index: rows of one key are in the order of their names. *)
Before(p, q) ==
    \/ ByVotes(p) < ByVotes(q)
    \/ ByVotes(p) = ByVotes(q) /\ NameValue[p] < NameValue[q]

Electable(p) == total_votes[p] > 0 /\ p \in active

(* The loop over the index ends at the first row that is not electable. *)
TopProducers ==
    {p \in registered :
        /\ Cardinality({q \in registered : Before(q, p)}) < ScheduleLimit
        /\ \A q \in registered : q = p \/ Before(q, p) => Electable(q)}

(***************************************************************************)
(* get_producer_authority: the null key for a row whose authority is reset.*)
(***************************************************************************)
TopSchedule == [p \in TopProducers |-> authority[p]]

\* mutated: any number of producers is proposed
Proposes_Fewer == TopProducers # {}

Proposes ==
    /\ TopProducers # {}
    /\ Cardinality(TopProducers) >= last_producer_schedule_size

(* update_elected_producers: nodeos takes the proposal, or refuses it (-1). *)
UpdateElectedProducers ==
    /\ last_producer_schedule_update' = head.slot
    /\ \/ /\ Proposes
          /\ proposed' = TopSchedule
          /\ last_producer_schedule_size' = Cardinality(TopProducers)
       \/ UNCHANGED <<proposed, last_producer_schedule_size>>

ElectionDue == head.slot - last_producer_schedule_update > 90

(* onblock, in the block of slot now. *)
OnBlock(now) ==
    /\ RewardsDue(now) => RewardsFit(now)
    /\ last_block_num' = head.slot
    /\ activated_time' = Activated(now)
    /\ IF RewardsDue(now) THEN UpdRewards(now) ELSE CountOnly
    /\ IF ElectionDue THEN UpdateElectedProducers ELSE UNCHANGED electionVars

(* An inline action fails, and onblock with it. *)
OnBlockFails(now) ==
    /\ RewardsDue(now)
    /\ ~RewardsFit(now)
    /\ UNCHANGED <<onblockVars, ledger>>

-----------------------------------------------------------------------------
(* nodeos starts the block of slot now, signed by p. *)
Block(gap, p) ==
    LET now == head.slot + gap
    IN  /\ head.number < MaxBlocks
        /\ p \in DOMAIN schedule
        /\ OnBlock(now) \/ OnBlockFails(now)
        /\ head' = [number |-> head.number + 1, slot |-> now, producer |-> p]
        /\ UNCHANGED <<vars, schedule>>

(* nodeos makes the proposed schedule the active one, some blocks later. *)
Adopt ==
    /\ proposed # NoRow
    /\ schedule' = proposed
    /\ proposed' = NoRow
    /\ UNCHANGED <<vars, ledger, payVars, clockVars, head,
                   last_producer_schedule_update, last_producer_schedule_size>>

\* mutated: the payment is not cleared
ClaimRewards_Again(p) ==
    /\ Owed(p) # 0
    /\ CanTransfer(ledger, {Bpay, p}, Bpay, p, Libre(Owed(p)))
    /\ ledger' = Transferred(ledger, Bpay, p, Libre(Owed(p)))
    /\ UNCHANGED <<vars, onblockVars, head, schedule>>

(* claimrewards, signed by the producer; the transfer is inline. *)
ClaimRewards(p) ==
    /\ Owed(p) # 0
    /\ CanTransfer(ledger, {Bpay, p}, Bpay, p, Libre(Owed(p)))
    /\ ledger' = Transferred(ledger, Bpay, p, Libre(Owed(p)))
    /\ payments' = [payments EXCEPT ![p] = 0]
    /\ UNCHANGED <<vars, unpaid_blocks, total_unpaid_blocks, last_updated_reward,
                   clockVars, electionVars, head, schedule>>

(* Other transactions of eosio.token; bpay.libre pays in claimrewards only. *)
TokenStep ==
    /\ TokenNext
    /\ BalanceOf(ledger', Bpay, "LIBRE") >= BalanceOf(ledger, Bpay, "LIBRE")
    /\ UNCHANGED <<vars, onblockVars, head, schedule>>

VotingStep == Next /\ UNCHANGED <<ledger, onblockVars, head, schedule>>

BlockInit ==
    /\ Init
    /\ TokenInit
    /\ unpaid_blocks = [p \in Account |-> 0]
    /\ total_unpaid_blocks = 0
    /\ payments = [p \in Account |-> NoRow]
    /\ last_updated_reward = 0
    /\ last_block_num = 0
    /\ activated_time = 0
    /\ last_producer_schedule_update = 0
    /\ last_producer_schedule_size = 0
    /\ head \in [number: {1}, slot: {FirstSlot}, producer: DOMAIN Genesis]
    /\ schedule = Genesis
    /\ proposed = NoRow

BlockNext ==
    \/ \E gap \in Gaps, p \in Name : Block(gap, p)
    \/ Adopt
    \/ \E p \in Account : ClaimRewards(p)
    \/ TokenStep
    \/ VotingStep

BlockSpec == BlockInit /\ [][BlockNext]_allVars

=============================================================================
