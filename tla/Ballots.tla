------------------------------ MODULE Ballots ------------------------------
(***************************************************************************)
(* What a vote is: a voter stands behind one name with what it is worth,   *)
(* and when it moves or its worth changes the old worth leaves the one     *)
(* tally and the new one comes to the other.  Voters come and go among     *)
(* candidates that stand; one that has retired keeps the voters it has,    *)
(* whose worth still changes.  Only candidates have worth behind them.     *)
(* Tables, stakes, deltas and clamps are left to libre.system.             *)
(***************************************************************************)
EXTENDS Integers

CONSTANTS Voter, Candidate, Name, Nobody

VARIABLES
    entered,     \* the candidates there ever were
    standing,    \* those that have not retired
    choice,      \* the name a voter is behind
    worth,       \* the worth it is there with
    tally        \* of a candidate

ballotVars == <<entered, standing, choice, worth, tally>>

BallotInit ==
    /\ entered = {}
    /\ standing = {}
    /\ choice = [v \in Voter |-> Nobody]
    /\ worth = [v \in Voter |-> 0]
    /\ tally = [c \in Candidate |-> 0]

Enter(c) ==
    /\ entered' = entered \cup {c}
    /\ standing' = standing \cup {c}
    /\ UNCHANGED <<choice, worth, tally>>

Retire(c) ==
    /\ standing' = standing \ {c}
    /\ UNCHANGED <<entered, choice, worth, tally>>

(* Voter v is behind p from now on, with worth w. *)
Stand(v, p, w) ==
    /\ p \notin entered => w = 0
    /\ choice' = [choice EXCEPT ![v] = p]
    /\ worth' = [worth EXCEPT ![v] = w]
    /\ tally' = [c \in Candidate |->
          tally[c] - (IF c = choice[v] THEN worth[v] ELSE 0) + (IF c = p THEN w ELSE 0)]
    /\ UNCHANGED <<entered, standing>>

Cast(v, p, w) ==
    /\ {choice[v], p} \cap entered \subseteq standing
    /\ Stand(v, p, w)

Follow(v, w) ==
    /\ choice[v] # Nobody
    /\ Stand(v, choice[v], w)

BallotNext ==
    \/ \E c \in Candidate : Enter(c) \/ Retire(c)
    \/ \E v \in Voter :
          \/ \E p \in Name : Cast(v, p, worth'[v])
          \/ Follow(v, worth'[v])

BallotSpec == BallotInit /\ [][BallotNext]_ballotVars

=============================================================================
