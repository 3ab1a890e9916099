-------------------------------- MODULE Wrap --------------------------------
(***************************************************************************)
(* eosio.wrap: transactions that skip the check of their authorization.    *)
(***************************************************************************)
EXTENDS Deferred

CONSTANT Executer   \* the accounts that sign with eosio.wrap

(* The executer's name, and below it the time in microseconds. *)
\* mutated: the name alone
WrapId_NoTime(executer, slot) == <<executer, 0>>

WrapId(executer, slot) == <<executer, slot>>

(* eosio.wrap::exec, signed by eosio.wrap and by the executer. *)
WrapExec(executer, trx) ==
    /\ Schedule("eosio.wrap", WrapId(executer, now), trx)
    /\ UNCHANGED <<now, authority>>

=============================================================================
