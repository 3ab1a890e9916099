------------------------------ MODULE Payroll ------------------------------
(***************************************************************************)
(* What block producers are promised: every block recorded for a producer  *)
(* is paid once, all of a pay day at one rate, and the rate never rises;   *)
(* what is paid is set aside in full, and stays aside until the producer   *)
(* collects it.  Hours, tokens, rows and the reasons for which a block is  *)
(* not recorded are left to libre.system.                                  *)
(***************************************************************************)
EXTENDS Integers, Functions

CONSTANTS Producer, Nobody

VARIABLES
    work,    \* blocks recorded and not yet paid
    due,     \* what a producer may collect
    fund,    \* what is set aside
    rate     \* the pay of a block

payrollVars == <<work, due, fund, rate>>

PayrollInit ==
    /\ work = [p \in Producer |-> 0]
    /\ due = [p \in Producer |-> 0]
    /\ fund = 0
    /\ rate \in Nat

(* The blocks to pay when p, or nobody, has done another. *)
Done(p) == [q \in Producer |-> work[q] + IF q = p THEN 1 ELSE 0]

Wages(p) == [q \in Producer |-> rate * Done(p)[q]]

Record(p) ==
    /\ work' = Done(p)
    /\ UNCHANGED <<due, fund>>

PayDay(p) ==
    /\ work' = [q \in Producer |-> 0]
    /\ due' = [q \in Producer |-> due[q] + Wages(p)[q]]
    /\ fund' = fund + SumFunctionOnSet(Wages(p), Producer)

Day(p) ==
    /\ Record(p) \/ PayDay(p)
    /\ rate' \in 0..rate

Collect(p) ==
    /\ due[p] \in 1..fund
    /\ due' = [due EXCEPT ![p] = 0]
    /\ fund' = fund - due[p]
    /\ UNCHANGED <<work, rate>>

(* Anyone may add to what is set aside. *)
Gift ==
    /\ fund' > fund
    /\ UNCHANGED <<work, due, rate>>

PayrollNext ==
    \/ \E p \in Producer \cup {Nobody} : Day(p)
    \/ \E p \in Producer : Collect(p)
    \/ Gift

PayrollSpec == PayrollInit /\ [][PayrollNext]_payrollVars

=============================================================================
