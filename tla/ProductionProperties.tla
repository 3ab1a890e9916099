------------------------ MODULE ProductionProperties ------------------------
(***************************************************************************)
(* What onblock, the payments and the elections promise.                   *)
(***************************************************************************)
EXTENDS BlockProduction

Schedules == UNION {[S -> Key] : S \in SUBSET Name}

(***************************************************************************)
(* The types of the rows and of the global state; a schedule, proposed or  *)
(* active, has keys its producers can sign with, also when one of them was *)
(* kicked or changed its key since it was elected.                         *)
(***************************************************************************)
ProductionTypeOK ==
    /\ unpaid_blocks \in [Account -> Nat]
    /\ \A p \in Account \ registered : unpaid_blocks[p] = 0
    /\ total_unpaid_blocks \in Nat
    /\ payments \in [Account -> Nat \cup {NoRow}]
    /\ last_updated_reward \in 0..head.slot
    /\ last_block_num \in 0..head.slot
    /\ activated_time \in 0..head.slot
    /\ last_producer_schedule_update \in 0..head.slot
    /\ last_producer_schedule_size \in 0..ScheduleLimit
    /\ head \in [number: 1..MaxBlocks, slot: Nat, producer: Name]
    /\ schedule \in Schedules
    /\ proposed \in Schedules \cup {NoRow}

(***************************************************************************)
(* total_unpaid_blocks is counted block by block and reduced producer by   *)
(* producer when they are paid, whoever registers, leaves or is kicked in  *)
(* between, and whichever onblock fails: it is the sum of their counts.    *)
(***************************************************************************)
UnpaidAddUp == total_unpaid_blocks = SumFunctionOnSet(unpaid_blocks, Account)

(***************************************************************************)
(* What the payments table owes is held by bpay.libre, through hours of    *)
(* pay, claims, failed onblocks and transfers of others: no claim can find *)
(* the account empty.                                                      *)
(***************************************************************************)
PaymentsAreFunded ==
    BalanceOf(ledger, Bpay, "LIBRE") >= SumFunctionOnSet([p \in Account |-> Owed(p)], Account)

(***************************************************************************)
(* Nothing stands between a producer and what it is owed: neither a row    *)
(* that somebody opened for it, nor its own balance, the precision of the  *)
(* token or the claims of the others can stop claimrewards.                *)
(* (Only bpay.libre itself could not be paid: a transfer needs two.)       *)
(***************************************************************************)
ClaimsAreHonoured ==
    \A p \in Account \ {Bpay} : Owed(p) # 0 =>
        CanTransfer(ledger, {Bpay, p}, Bpay, p, Libre(Owed(p)))

(* The pay of the block of the last header, were it paid now. *)
Rate == PayPerBlock(IF activated_time = 0 THEN 0 ELSE head.slot - activated_time)

PayDays == INSTANCE Payroll WITH
    Producer <- Account,
    Nobody   <- NoRow,
    work     <- unpaid_blocks,
    due      <- [p \in Account |-> Owed(p)],
    fund     <- BalanceOf(ledger, Bpay, "LIBRE"),
    rate     <- Rate

(***************************************************************************)
(* Every block counted is paid once, with all others of the hour at the    *)
(* rate of the block that brings the pay, which is never more than the     *)
(* rate at which it was made; the issues and transfers of the hour set     *)
(* aside what they add to the payments, no payment is overwritten, and a   *)
(* claim takes what is owed and leaves nothing.  A failed onblock counts   *)
(* no block and pays none.                                                 *)
(***************************************************************************)
ImplementsPayroll == PayDays!PayrollSpec

(***************************************************************************)
(* The only reasons for onblock to fail are that LIBRE was not created for *)
(* eosio, without decimals, or that its maximum supply leaves no room: no  *)
(* row that somebody opened, no balance and no precision can stop it.      *)
(***************************************************************************)
OnBlockNeedsSupplyOnly ==
    \A now \in {head.slot + gap : gap \in Gaps} :
        ~RewardsFit(now) =>
            \/ ~TokenOf(ledger, Libre(0))
            \/ ledger.stat["LIBRE"].issuer # Eosio
            \/ SupplyOf(ledger, "LIBRE") + Total(now) > CapOf(ledger, "LIBRE")

(***************************************************************************)
(* The producers an election proposes are active and voted for, as many as *)
(* the limit leaves room for, and none has fewer votes than an active one  *)
(* left out: the index by votes, whose key is signed by activity, and the  *)
(* loop that stops at the first refusal choose exactly the best, through   *)
(* every deactivation and every change of stake.                           *)
(***************************************************************************)
TopAreTheBest ==
    /\ Cardinality(TopProducers) <= ScheduleLimit
    /\ \A p \in TopProducers : p \in active /\ total_votes[p] > 0
    /\ \A p \in active \ TopProducers : total_votes[p] > 0 =>
          /\ Cardinality(TopProducers) = ScheduleLimit
          /\ \A q \in TopProducers : total_votes[q] >= total_votes[p]

(***************************************************************************)
(* Once the chain has left the producers it booted with, the schedule      *)
(* never shrinks, although producers leave, are kicked and lose votes, and *)
(* the size remembered and the schedule in force are kept by two parties.  *)
(***************************************************************************)
KeepSize ==
    schedule' # schedule /\ schedule # Genesis =>
        Cardinality(DOMAIN schedule') >= Cardinality(DOMAIN schedule)

ScheduleNeverShrinks == [][KeepSize]_allVars

=============================================================================
