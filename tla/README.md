# Verification of phoenix-contracts

TLA+ models of the system contracts of the Libre chain, checked with TLC, with
theorems about them proved with TLAPS. The reference is the code under
`src/contracts`; the modules are translated from it, with its tests and
Ricardian contracts read for what they promise.

## The system

Six contracts run on nodeos. A transaction is atomic: its actions, and the
inline actions these send, all happen or none does, one transaction after the
other. What is hard is therefore not threads but *orders*: transactions of
parties that do not know of each other, in any sequence, over tables of several
contracts which are kept in step by running totals, by notifications that come
later or not at all, and by an `onblock` that nobody signs and that fails whole
when one of its inline actions does.

| Part | State | Operations | Correct when |
|---|---|---|---|
| permission table, `eosio.libre` | a row of nine statuses for some accounts (none, on, pending, off, banned) | `setperm`, `setperm2`, `remove` (operator), `reqperm` (the account), `kickbp` (eosio); read by others with `get_priv` | nothing but the operator's word turns a permission on or lifts a ban |
| producer registration, `libre.system` | `producers`: active, key, authority | `regproducer`, `regproducer2`, `unregprod`, `rmvproducer`, `kickbp` | active producers can sign; a kicked one stays out until granted anew |
| voting, `libre.system` | `voters`, votes of `producers`, two global totals | `voteproducer`, `vonstake` | totals are the recorded stake of the voters, whatever the order; recorded stake catches up |
| stakes, `stake.libre` (not in the repository) | `stake` rows | opens, completes, cancels stakes; calls `vonstake` | (environment) |
| producer pay, `libre.system` | `unpaid_blocks`, `total_unpaid_blocks`, `payments`, times | `onblock`, `updrewards`, `claimrewards` | counts add up; what is owed is held; only the token's supply can stop `onblock` |
| elections, `libre.system` | size and time of the last proposal | `update_elected_producers` in `onblock`; nodeos accepts and adopts | the best active producers are proposed; the schedule does not shrink |
| token, `eosio.token` | `stat` of a token, `accounts` of a holder | `create`, `issue`, `retire`, `transfer`, `open`, `close` | supply is the sum of balances and within the maximum; symbols agree |
| native actions, `libre.system` | `abihash`; accounts, ABIs and resource limits (nodeos) | `newaccount`, `setabi`; `onerror` fails; the other handlers are empty | accounts are made only with the operator's word, and under a suffix by its owner; hashes are fresh |
| chain administration, `libre.system` | none of its own; privileges (nodeos) | `setpriv`, `setalimits`; `setparams`, `activate`, `init` | limits change only with the operator's word |
| boot, `eosio.boot` | none | `newaccount` and `setabi`, which ask nothing; `activate`, `reqactivated`, `onerror` | what was made before `libre.system` agrees with its tables |
| proposals, `eosio.msig` | `proposal`, `approvals2` and the older `approvals`, `invals` | `propose`, `approve`, `unapprove`, `cancel`, `exec`, `invalidate` | sent once, by approvals that still stand and suffice at that moment |
| wrapped transactions, `eosio.wrap` | none | `exec`: a deferred transaction | identifiers do not collide across executers or blocks |

Interactions: registration reads the permission table (`checkPermission` →
`get_priv`); `libre.system::kickbp` sends `eosio.libre::kickbp` inline; a vote
reads the stake table; `vonstake` is called by `stake.libre` in its own time;
`onblock` sends `issue` and `transfer` to `eosio.token` for every producer with
unpaid blocks, `claimrewards` a `transfer`; nodeos calls `onblock` with the header
of the *previous* block and takes the proposed schedule some blocks later. `newaccount`
and `setalimits` read the permission table; `newaccount` and `setabi` are carried
out by nodeos with the contract on `eosio` as a filter, first `eosio.boot`, then
`libre.system`. `eosio.msig` asks nodeos who must sign, at `propose` and again at
`exec`, and leaves the transaction to its deferred queue, as `eosio.wrap` does.

## Modules

| Module | Models |
|---|---|
| `LibrePermissions` | the table and the five actions of `eosio.libre`, and `get_priv` |
| `PermissionAudit` | the same with a history variable: the operator's last word on every permission |
| `Voting` (extends `LibrePermissions`) | registration and voting of `libre.system`, with the stake table |
| `VotingProperties` | what they promise |
| `Ballots` | what a vote is: the recorded stake of a voter stands behind one name, or lies; `Voting` is shown to implement it |
| `KickHistory` (extends `Voting`) | the same with a history variable: who was kicked and not yet granted `regprod` anew |
| `Token`, `TokenLedger`, `TokenRefinement` | `eosio.token`; what a token promises; the one shown to implement the other |
| `BlockProduction` (extends `Voting`, `Token`) | `onblock`, pay, claims, elections, over the ledger and the producers |
| `ProductionProperties` | what they promise |
| `Payroll` | what producers are promised: a fund, what is due to each, a rate that only falls; `BlockProduction` is shown to implement it |
| `Accounts` (extends `PermissionAudit`) | `newaccount`, `setabi`, `setalimits`, `setpriv` over the permission table, under `eosio.boot` and then `libre.system`; what they promise |
| `Deferred` | what nodeos gives the next two: time, the authority of the acting account, the queue |
| `Multisig`, `Wrap` (extend `Deferred`) | the six actions of `eosio.msig` over the tables of two versions; the one of `eosio.wrap` |
| `Governance` (extends `Multisig`, `Wrap`) | both on one chain, with a history of who said what; what they promise |
| `Consent` | what a multi-signature contract promises; `Governance` is shown to implement it |
| `SumTheorems`, `PermissionProofs`, `PermissionAuditProofs`, `VotingProofs`, `KickProofs`, `TokenProofs`, `ProductionProofs`, `GovernanceProofs` | lemmas on sums over finite sets; the theorems (those on `Accounts` in `PermissionAuditProofs`) |
| `MCPermissions`, `MCVoting`, `MCKick`, `MCToken`, `MCProduction`, `MCAccounts`, `MCGovernance` | the instances TLC checks |

How the state corresponds. A table is a function, with `NoRow` (`NoToken`,
`NoBalance`) where there is no row; `producers` is split by column, `registered`
being the rows. Names, keys and stake ids are model values. A failed `check` is a
step that is not taken, since it leaves no trace — except in `onblock`, whose
failure does not stop the block (`OnBlockFails`).

Choices that matter:

* `setperm2` indexes its vector up to 8 whatever its size. The bytes behind a
  shorter one are any of `Garbage`.
* `update_votes` reads `voter->producer` also when the iterator is `end()`; what
  it reads is any of `StaleName`. The totals hold whatever it is.
* Votes and the global weight are integers. The code's doubles hold them exactly
  up to 2^53, and amounts of LIBRE stay far below.
* `total_activated_stake` is modelled modulo `Int64`, 2^64 in the program.
* The rows of the stake table are never erased: the struct has a status for
  stakes that ended and `get_staked` filters by it. `OnlyStakersVote` rests on it.
* The pay of an hour is one `issue` and one `transfer` of the total where the code
  sends a pair per producer: the pairs succeed all together or `onblock` fails,
  and the checks of the last are the strictest.
* `bpay.libre` pays by `claimrewards` only (`TokenStep`): its key is the chain's.
* nodeos may refuse a proposal for reasons of its own; `UpdateElectedProducers`
  leaves it the choice.
* A hash is an injective operator (`Sha256`; in `eosio.msig` a transaction is its
  own hash). An account's ram, net and cpu are one value: those `newaccount`
  gives, or no limits.
* `setpriv` is called for the accounts of `PrivSubject`, `setabi` by those of
  `Developer`: rows of other accounts do not interact. `libre.system` replaces
  `eosio.boot` once (`Deploy`).
* `eosio.msig`'s two vectors of a proposal may name a level more than once, and
  nothing reads a position: a row counts how often a level is still requested, and
  keeps its approvals' times oldest first, since `unapprove` takes the first it
  finds. An approval of the old table has no time and is counted only.
* Blocks come every half second and an expiration is in seconds, so two blocks
  share one (`Seconds`); the actions of a block share its time.
* Whose authority a proposed transaction needs is one account's, `authority`: the
  sets of levels that each satisfy it. It may change at any time (`UpdateAuth`).
* A deferred transaction leaves the queue when nodeos runs or drops it; its
  identifier is the key of the proposal for `eosio.msig`, the executer and the
  time for `eosio.wrap`. nodeos refuses one that is pending for the same sender.
* URL, location, memos, notifications, `last_claim_time` and who pays the RAM of a
  row are left out: nothing reads them.

A definition whose name has an underscore and whose comment begins with
"mutated:" is not part of a specification: it is the form of the definition
after it with a plausible bug, and shows that the properties can tell.

## Runs

| Run | Question | Bounds, and why they are enough |
|---|---|---|
| `permissions` | Is every status the operator's last word, or a request? | 2 accounts, one privileged; a full vector with all statuses, maps with unknown names, 4 requests. Rows do not interact; two show it |
| `short_vector` (violated) | Does the README's three-byte vector set only what it names? | 1 account, bytes 0 and 1 behind the end |
| `voting` | Do the running totals agree with the voters? Can an active producer sign? Does a kick last? Does a vote stand behind one name, with one worth (`Ballots`)? | 2 voters, 2 accounts (one privileged) and a name without account, 2 stakes of 1 or 2: moves between two candidates, zero stakes, end-iterator reads of any name; a vector that grants everything, a map that takes `regprod` |
| `voting_live` | Does recorded stake catch up? | 1 voter (voters share no guard), 2 stakes, active and inactive producers |
| `vote_without_row`, `vote_withdraw` (violated) | Are votes for registered names only? Can a vote leave an inactive producer? | 1 voter |
| `token` | Supply, maximum, symbols, and the refinement | 2 tokens, 2 holders, amounts −1..4 around a maximum of 3, 2 precisions, an issuer that does not exist |
| `pay` | Do counts add up, are payments funded and claims honoured, what can stop `onblock`, and is each block paid once at a rate that never rises (`Payroll`)? | 2 producers, 4 onblocks a slot or a day apart (all three pay rates), LIBRE of either of 2 precisions with maximum 12, rows opened by all: failures for supply, for a missing token and for its precision all occur |
| `top` | Are the best chosen? | 3 candidates for 1 place, 2 voters with stakes 1 or 2, ties by name: a positive row is left out at the limit and negative ones at the sign |
| `elect` | Are they chosen while the chain runs? Does the schedule shrink? | 2 candidates, 2 places, 4 onblocks, each an election, adoption at any time, votes and kicks between |
| `accounts` | Who makes accounts, sets limits, and are the rows of three owners in step? | `eosio`, `bob` and two names under his, one vector, one map, one request; every order of `Deploy`, grants, bans and `setpriv` |
| `governance` | Is what is executed what enough levels still consent to? | 3 levels of 2 accounts, two lists of which one names a level twice, one name, 2 transactions that expire in different seconds, 3 blocks, 2 authorities, a proposal the older version left or none, a queue of 2: a level with two approvals of different blocks, the same name twice, two actions in one block, an authority that changes between `propose` and `exec` |

`CHECK_DEADLOCK FALSE` stands where behaviours may end: a token whose balances
are spent, a chain at `MaxBlocks`. Voters, and the
two names under `bob`'s, are symmetric (`Sym`) in the runs that say so; none of
these checks liveness.

Bounds of the models: `MaxBlocks` (blocks of a behaviour), `MaxAmount` (the
largest asset, 2^62 − 1 in the program), `ScheduleLimit` (21 in the program), `MaxSlot`
and `MaxDeferred` (blocks and queue of `Governance`).

**Fairness.** Only `voting_live` assumes any: `WF(VOnStake(v))` for each voter.
`vonstake` is called by `stake.libre` whenever a stake changes; weak fairness says
that a call which stays possible comes. Nothing is assumed of voters, producers,
the operator or nodeos.

### Where code and documents disagree

* `short_vector`: `contracts/eosio.libre/README.md` gives `010001` as the vector
  for `createacc` and `vote`; `setperm2` reads six more bytes.
* `vote_without_row`: `voteproducer`'s documentation asks that the producer be
  registered; a vote of weight zero is taken for any name.
* `vote_withdraw`: the Ricardian contract says votes may be removed from an
  unregistered producer; `update_votes` refuses a move away from it.

Noted while modelling, without a run of their own, since what is said is a matter
of wording or of an interval:

* `producer_pay.cpp:58` says once every minute; the condition is 90 slots, 45
  seconds, exceeded (`Block` elects after 91).
* `eosio.msig.hpp:86-88` asks that all requested approvals be received and that
  no approving account be in the invalidations table. `exec` asks that the
  approvals that count suffice, and an approval later than the invalidation
  counts (`Counted`). `propose_invalidate_approve` tests what the code does.
* `eosio.msig.hpp:73` says the canceler has to be different from the proposer;
  the code lets the proposer cancel at any time (`Cancel`), and
  `switch_proposal_and_fail_approve_with_hash` does.
* `native.hpp:143-151` describes `newaccount` as refusing every dot and staking
  tokens; the code applies the suffix rule and sets limits (`MayCreate`).
* `libre.system.hpp:302-308` says `init` works once; it checks a signature only.

## Proofs

All theorems hold for every value of the constants that meets the modules'
assumptions, which TLC evaluates in every run.

* **Permissions.** `OnlyTheOperatorGrants`: `StatusIsLastWord` with the types of
  the table and of the history is inductive; one step per action.
* **Voting.** `TallyInvariant`: `TallyInv` joins the types, `VotesMatchVoters`,
  `WeightIsSumOfVotes` and `StakeLiesWithProducers`. The first two are not
  inductive alone: the clamp at zero is harmless because the votes of a producer
  are a sum that contains what the voter takes away, and the weight follows it
  because every recorded stake lies with a row. The totals then change by the
  deltas, by `SumTheorems` (a sum changes by what one term changes).
  `ActiveProducersCanSign`, `OnlyStakersVote` and `InactiveProducersKeepVoters` go
  through the same actions.
  `VotingImplementsBallots`: under `TallyInv` the deltas, the clamps, the name read
  for a voter without a row and the tests of activity come to one `Stand` of
  `Ballots`; the permission table steps without it. `VotingUsesPermissions` is that
  a behaviour of `libre.system` is one of `LibrePermissions`.
* **Kicks.** `KicksLast`: inductive with the types of the table; the only steps
  that set `regprod` are decisions, and the only ones that activate need it.
  `HistoryIsVoting`: the history only watches, so that what is proved of `Voting` holds with it.
* **Token.** `TokenInvariant` joins types, sum, maximum and symbols; each action is
  a change of one or two balances (`Debited`, `Credited`) and of one supply, and
  `Effect` says what is left. `TokenRefinesLedger` reads from the same facts that
  each action is a step of `TokenLedger` or a stutter.
* **Accounts.** `AccountsInvariant` joins the types, the rows and the hashes to
  `StatusIsLastWord`, with the one fact they lack: no hash is kept while
  `eosio.boot` is there (`NoHashInBoot`), so that none is stale when `libre.system`
  comes. `NothingWithoutAGrant` reads off it that a permission that is on is the
  operator's word, which no row says by itself. `AccountsUsePermissions`: the table
  and its history are those of `PermissionAudit`.
* **Proposals.** `GovInv` holds per key (`KeyInv`) that the tables agree, that
  levels are asked as often as listed and that what counts is a last word; that the
  history's counts are natural follows only since the tables hold as many
  (`EachAskedAsListed`), so types and keys are proved together. A level is silent
  once it has taken back all it gave, or invalidated it: taking back one approval of
  two leaves the other, which `exec` counts. It needs that no
  approval and no invalidation lies in the future (`InvalidationsArePast`), for
  then an invalidation in the block of an approval outdoes it whichever came
  first. `QueueInv` adds that an identifier is in the queue once. From both,
  `MsigImplementsConsent` maps each action to a step of `Consent` or a stutter: an
  approval is a consent, an `exec` a hand-over by the levels that count.
* **Blocks.** `BlocksAreCounted`: that rows of `producers` are accounts' makes the
  block counted one of the counts summed; then counting raises both sides by one
  and paying brings both to zero. The rest rests on the invariants of its parts,
  which hold here since every step is one of `Voting` or leaves its variables
  alone (`VotesOfTheChain`), and one or two actions of `Token` or none
  (`LedgerOfTheChain`; `TokenProofs` states these of any two ledgers, so that an
  hour's `issue` and `transfer` can be chained).
  `TheBestAreChosen`: the index is a strict total order, finite sets of rows have a
  first and a last, an electable row has only electable ones before it
  (`ElectableAhead`), so one that is left out was left out by the limit.
  `SchedulesGrow`: the size remembered is that of the proposal pending and bounds
  the schedule in force (`SizeInv`). `ClaimsAreFunded`: an hour's pay adds as much
  to what is owed as to what `bpay.libre` holds, a claim takes as much from both.
  `OnlySupplyStopsOnBlock`: balances are at most the supply and have the symbol of
  their token (`LibreRows`), which leaves only the existence of the token and its
  maximum to refuse.
  `NothingStopsAClaim`: who is owed was paid once, so LIBRE exists
  (`PaidInLibre`); any row of the producer has its symbol, the sum covers what is
  owed and the new balance stays within the supply.
  `PayImplementsPayroll`: an hour pays to the producers what it adds to the fund,
  counts and payments being functions of the same rows, and the rate of
  `PayPerBlock` falls with the time, which a header only moves forward.
  `ChainRunsVoting` and `ChainImplementsBallots` carry voting and its refinement
  over to the chain that also produces, elects and pays.

`SumTheorems` identifies the library's `SumFunctionOnSet`, a recursion over subsets,
with any function of subsets that is additive, and derives from that the facts
about sums the other modules use; its inductions are minimal counterexamples.

Every invariant and every action property of a run that holds is proved, and all
four refinements (`TokenLedger`, `Consent`, `Ballots`, `Payroll`). Only model-checked: liveness (`RecordedStakeFollows`), which with ENABLED
and induction over data is out of the prover's reach. The properties of the runs
that are violated are refuted by their counterexamples.

## Not modelled

* `setparams` and both contracts' `activate`: one signature checked, one call to
  nodeos forwarded, whose effect no contract reads. `init` checks a signature and
  does nothing; `reqactivated` checks a fact of nodeos'; `onerror` of both contracts
  always fails. The remaining native handlers are empty.
* `eosio.boot` put back in place of `libre.system`: an ABI set under it would leave
  the old hash. `HashesAgree` is of the one order the start of a chain has.
* The execution of the deferred transactions: what they do is up to the contracts
  they call.
* Builds and scripts: no behaviour of the contracts.

Modelled without a property, since no document says what they should be: the
ever-growing `total_activated_stake` (`voting.cpp:175`), which nothing reads, and
the interval between elections (`producer_pay.cpp:59`).

## Plan

Done, in this order: permissions, voting, kicks, token, block production with
its proofs, accounts over the permission table, proposals and wrapped
transactions with the abstract consent they implement, voting as abstract
ballots, pay as an abstract payroll, lists of levels with repetitions.

Left:

1. What the abstract specifications promise by themselves, proved of them and
   carried over by the refinements: the tallies of `Ballots` are sums of worth, the
   fund of `Payroll` covers what is due, `Consent` hands over once.
2. `TokenLedger` implemented by the whole chain, as `Ballots` already is; today its
   invariants are (`LedgerOfTheChain`).
