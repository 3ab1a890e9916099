---------------------------- MODULE KickHistory ----------------------------
(***************************************************************************)
(* Voting with a history variable: the producers kicked by eosio that the  *)
(* operator of eosio.libre has not allowed to register again.  A kick is   *)
(* two contracts' work, libre.system's row and eosio.libre's permission,   *)
(* and what undoes it is a permission granted and a registration signed    *)
(* later, by two other parties.                                            *)
(***************************************************************************)
EXTENDS Voting

VARIABLE kicked

histVars == <<vars, kicked>>

HistInit == Init /\ kicked = {}

(* kickbp of libre.system. *)
Kick(p) == KickBP(p) /\ kicked' = kicked \cup {p}

(* eosio.libre decides on the permissions of p. *)
Decide(p) ==
    /\ Operator(p)
    /\ UNCHANGED <<prodVars, tallyVars, stakes>>
    /\ kicked' = IF HasRow(p)' /\ perms'[p]["regprod"] = On
                 THEN kicked \ {p} ELSE kicked

Other ==
    /\ \/ \E p \in Account :
             \/ \E r \in Requests : ReqPerm(p, r) /\ UNCHANGED <<prodVars, tallyVars, stakes>>
             \/ KickPerm(p) /\ UNCHANGED <<prodVars, tallyVars, stakes>>
             \/ \E key \in Key : RegProducer(p, key)
             \/ \E key \in Key \cup BadKey : RegProducer2(p, key)
             \/ UnregProd(p)
             \/ RmvProducer(p)
       \/ \E v \in Voter : VoterStep(v)
       \/ \E i \in StakeId : StakeStep(i)
    /\ UNCHANGED kicked

HistNext ==
    \/ \E p \in Account : Kick(p)
    \/ \E p \in Account : Decide(p)
    \/ Other

HistSpec == HistInit /\ [][HistNext]_histVars

(***************************************************************************)
(* libre.system.hpp, on kickbp: it deactivates the producer and removes    *)
(* its permission to register.  Whatever the producer asks for, votes or   *)
(* signs afterwards, it is not a candidate again before the operator of    *)
(* eosio.libre grants it regprod anew.  The accounts get_priv exempts are  *)
(* the exception: for them a kick is no more than an unregistration.       *)
(***************************************************************************)
KickedStayOut ==
    \A p \in kicked \ Privileged : p \notin active /\ ~Allowed(p, "regprod")

=============================================================================
