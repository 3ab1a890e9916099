----------------------------- MODULE Governance -----------------------------
(***************************************************************************)
(* eosio.msig and eosio.wrap on one chain, with the blocks that give them  *)
(* the time, the acting account that changes its authority, and nodeos     *)
(* that runs what they send; and what must hold of them.                   *)
(***************************************************************************)
EXTENDS Multisig, Wrap

CONSTANTS
    WrapTransaction,   \* what is sent through eosio.wrap
    Silent             \* no approval

ASSUME GovernanceAssumption ==
    /\ Executer \subseteq Account
    /\ WrapTransaction \subseteq Transaction
    /\ Silent \notin Transaction \cup {NoHash, NoRow}

(***************************************************************************)
(* History.  asked: how often the list proposed under a key names a level. *)
(* given: the approvals the level has given to it and not taken back.      *)
(* word: the last word of a level on it: silent, when it never approved or *)
(* has taken back all it gave or invalidated all of its account's, else    *)
(* the hash it approved of, or none in particular.                         *)
(***************************************************************************)
VARIABLES asked, given, word

historyVars == <<asked, given, word>>
chainVars == <<now, authority, deferred>>
govVars == <<msigTables, chainVars, historyVars>>

None == [l \in Level |-> 0]

(* How many approvals a level has, counted by exec or not. *)
Provided(k) ==
    IF approvals[k] # NoRow THEN [l \in Level |-> Len(approvals[k].provided[l])]
    ELSE IF old_approvals[k] # NoRow THEN old_approvals[k].provided ELSE None

(* How many more it may give. *)
Waiting(k) ==
    IF approvals[k] # NoRow THEN approvals[k].requested
    ELSE IF old_approvals[k] # NoRow THEN old_approvals[k].requested ELSE None

GovInit ==
    /\ DeferredInit
    /\ MsigInit
    /\ asked = [k \in Key |-> [l \in Level |-> Provided(k)[l] + Waiting(k)[l]]]
    /\ given = [k \in Key |-> Provided(k)]
    /\ word = [k \in Key |-> [l \in Level |->
                IF Provided(k)[l] > 0 THEN NoHash ELSE Silent]]

Says(k, l, hash) == word' = [word EXCEPT ![k][l] = hash]

Proposing(k) ==
    \E levels \in Requested, trx \in Transaction :
        /\ Propose(k, levels, trx)
        /\ asked' = [asked EXCEPT ![k] = levels]
        /\ UNCHANGED <<given, word>>

Approving(k, l) ==
    \E hash \in Transaction \cup {NoHash} :
        /\ Approve(k, l, hash)
        /\ Says(k, l, hash)
        /\ given' = [given EXCEPT ![k][l] = @ + 1]
        /\ UNCHANGED asked

Unapproving(k, l) ==
    /\ Unapprove(k, l)
    /\ given' = [given EXCEPT ![k][l] = @ - 1]
    /\ IF given'[k][l] = 0 THEN Says(k, l, Silent) ELSE UNCHANGED word
    /\ UNCHANGED asked

(* The proposal is gone, and with it all that was said of it. *)
Forgotten(k) ==
    /\ asked' = [asked EXCEPT ![k] = None]
    /\ given' = [given EXCEPT ![k] = None]
    /\ word' = [word EXCEPT ![k] = [l \in Level |-> Silent]]

Cancelling(k) == (\E canceler \in Account : Cancel(k, canceler)) /\ Forgotten(k)

Executing(k) == Exec(k) /\ Forgotten(k)

Invalidating(a) ==
    /\ Invalidate(a)
    /\ word' = [k \in Key |-> [l \in Level |->
                 IF ActorOf[l] = a THEN Silent ELSE word[k][l]]]
    /\ UNCHANGED <<asked, given>>

Wrapping ==
    /\ \E e \in Executer, trx \in WrapTransaction : WrapExec(e, trx)
    /\ UNCHANGED <<msigTables, historyVars>>

Nodeos ==
    /\ NewBlock \/ UpdateAuth \/ \E d \in deferred : Leave(d)
    /\ UNCHANGED <<msigTables, historyVars>>

GovNext ==
    \/ \E k \in Key :
          \/ Proposing(k)
          \/ Cancelling(k)
          \/ Executing(k)
          \/ \E l \in Level : Approving(k, l) \/ Unapproving(k, l)
    \/ \E a \in Account : Invalidating(a)
    \/ Wrapping
    \/ Nodeos

GovSpec == GovInit /\ [][GovNext]_govVars

-----------------------------------------------------------------------------
Pending == [sender: {"eosio.msig"}, id: Key, trx: Transaction, published: Slot]
     \cup [sender: {"eosio.wrap"}, id: Executer \X Slot, trx: Transaction, published: Slot]

(* The tables, the queue and the history keep to their types. *)
GovTypeOK ==
    /\ proposals \in [Key -> Transaction \cup {NoRow}]
    /\ approvals \in [Key -> ApprovalsRow \cup {NoRow}]
    /\ old_approvals \in [Key -> OldApprovalsRow \cup {NoRow}]
    /\ invalidations \in [Account -> Slot \cup {NoRow}]
    /\ now \in Slot
    /\ authority \in Authority
    /\ deferred \subseteq Pending
    /\ asked \in [Key -> [Level -> Nat]]
    /\ given \in [Key -> [Level -> Nat]]
    /\ word \in [Key -> [Level -> Transaction \cup {NoHash, Silent}]]

(***************************************************************************)
(* propose looks for its name in proposals only, approve without a hash in *)
(* the two tables of approvals only, and cancel and exec erase from one of *)
(* these: the three must agree, or a name would be blocked for good or a   *)
(* proposal inherit the approvals of another.                              *)
(***************************************************************************)
RowsInStep ==
    \A k \in Key :
        /\ proposals[k] = NoRow => approvals[k] = NoRow /\ old_approvals[k] = NoRow
        /\ proposals[k] # NoRow => (approvals[k] = NoRow <=> old_approvals[k] # NoRow)

(***************************************************************************)
(* However often approvals are given and taken back, and by levels the     *)
(* list names more than once, a level has those it gave and did not take   *)
(* back, and may give as many more as the list names it: none is lost, and *)
(* nobody approves who was not asked, or more often.                       *)
(***************************************************************************)
EachAskedAsListed ==
    \A k \in Key : \A l \in Level :
        /\ Provided(k)[l] = given[k][l]
        /\ Waiting(k)[l] + given[k][l] = asked[k][l]

(***************************************************************************)
(* An approval exec counts is the last word of its level on this proposal: *)
(* since then the level has not taken back all it gave (one approval is    *)
(* all, unless the list names it twice), its actor has invalidated         *)
(* nothing, not even in the same block, and if a hash was given it is this *)
(* transaction's, though another proposal may have had the name meanwhile. *)
(* (eosio.msig_tests.cpp: switch_proposal_and_fail_approve_with_hash,      *)
(* propose_approve_invalidate.  What is approved without a hash is         *)
(* whatever has the name.)                                                 *)
(***************************************************************************)
CountedStandByIt ==
    \A k \in Key : \A l \in Counted(k) : word[k][l] \in {NoHash, proposals[k]}

(***************************************************************************)
(* A transaction waiting in the queue keeps nobody from wrapping another   *)
(* but its own executer, and it only within the same block.                *)
(***************************************************************************)
WrapsWaitForOneBlock ==
    \A e \in Executer, d \in deferred :
        d.sender = "eosio.wrap" /\ d.id = WrapId(e, now) => d.published = now

-----------------------------------------------------------------------------
Sent(d) == <<d.id, d.trx>>

FromMsig == {d \in deferred : d.sender = "eosio.msig"}

Due == {Sent(d) : d \in FromMsig}

Consents == [k \in Key |-> {l \in Level : word[k][l] # Silent}]

Promised == INSTANCE Consent WITH
    open    <- proposals,
    consent <- Consents,
    rule    <- authority,
    due     <- Due,
    Nothing <- NoRow

(***************************************************************************)
(* Every action is, for the accounts that take part, what they meant by    *)
(* it: whatever the order of approvals, withdrawals and invalidations, in  *)
(* one block or in several, what is sent satisfies the authority of the    *)
(* moment by levels whose last word was consent.  A proposal is sent once, *)
(* and what was sent is not replaced by a later one of the same name.      *)
(***************************************************************************)
ImplementsConsent == Promised!ConsentSpec

=============================================================================
