------------------------------ MODULE Consent ------------------------------
(***************************************************************************)
(* What a multi-signature contract promises: a proposed transaction is     *)
(* handed over once, and at a moment when the levels that consent to it,   *)
(* by their last word, satisfy the authority as it then is.  Times, lists  *)
(* of requested levels, tables and their versions are left to eosio.msig.  *)
(***************************************************************************)
CONSTANTS Key, Level, Account, ActorOf, Transaction, Authority, Nothing

VARIABLES
    open,      \* the transaction proposed under a key
    consent,   \* the levels that consent to it
    rule,      \* the sets of levels that suffice
    due        \* keys and transactions handed over and not yet run

consentVars == <<open, consent, rule, due>>

ConsentInit ==
    /\ open \in [Key -> Transaction \cup {Nothing}]
    /\ consent \in [Key -> SUBSET Level]
    /\ \A k \in Key : open[k] = Nothing => consent[k] = {}
    /\ rule \in Authority
    /\ due = {}

Close(k) ==
    /\ open[k] # Nothing
    /\ open' = [open EXCEPT ![k] = Nothing]
    /\ consent' = [consent EXCEPT ![k] = {}]
    /\ UNCHANGED rule

Open(k) ==
    /\ open[k] = Nothing
    /\ \E trx \in Transaction : open' = [open EXCEPT ![k] = trx]
    /\ UNCHANGED <<consent, rule, due>>

Agree(k, l) ==
    /\ open[k] # Nothing
    /\ consent' = [consent EXCEPT ![k] = @ \cup {l}]
    /\ UNCHANGED <<open, rule, due>>

Withdraw(k, l) ==
    /\ consent' = [consent EXCEPT ![k] = @ \ {l}]
    /\ UNCHANGED <<open, rule, due>>

(* An account takes back every consent it has given, under any key. *)
Revoke(account) ==
    /\ consent' = [k \in Key |-> {l \in consent[k] : ActorOf[l] # account}]
    /\ UNCHANGED <<open, rule, due>>

Drop(k) == Close(k) /\ UNCHANGED due

(* Nothing handed over under the key is still due. *)
HandOver(k) ==
    /\ \E levels \in rule : levels \subseteq consent[k]
    /\ \A d \in due : d[1] # k
    /\ due' = due \cup {<<k, open[k]>>}
    /\ Close(k)

ChangeRule == rule' \in Authority /\ UNCHANGED <<open, consent, due>>

CarryOut(d) == d \in due /\ due' = due \ {d} /\ UNCHANGED <<open, consent, rule>>

ConsentNext ==
    \/ \E k \in Key : Open(k) \/ Drop(k) \/ HandOver(k)
    \/ \E k \in Key, l \in Level : Agree(k, l) \/ Withdraw(k, l)
    \/ \E a \in Account : Revoke(a)
    \/ \E d \in due : CarryOut(d)
    \/ ChangeRule

ConsentSpec == ConsentInit /\ [][ConsentNext]_consentVars

=============================================================================
