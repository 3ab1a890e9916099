---------------------------- MODULE MCGovernance ----------------------------
(***************************************************************************)
(* A small instance of Governance for TLC: alice with two levels, bob with *)
(* one; alice proposes, under one name.                                    *)
(***************************************************************************)
EXTENDS Governance, TLC

CONSTANTS alice, bob, active, owner, bobs, pay, upgrade

Levels == {active, owner, bobs}
Actors == active :> alice @@ owner :> alice @@ bobs :> bob

(* pay expires with second 0, upgrade with second 1. *)
Expirations == pay :> 0 @@ upgrade :> 1

BothOrOwner == {{active, bobs}, {owner}}
BobAlone == {{bobs}}

Authorities == {BothOrOwner, BobAlone}

(* One list names bob twice; the older version left one approval of two. *)
Listing(actives, owners, bobses) ==
    active :> actives @@ owner :> owners @@ bobs :> bobses

RequestedLists == {Listing(1, 0, 2), Listing(1, 1, 1)}
OldRows == {[requested |-> Listing(1, 0, 1), provided |-> Listing(0, 0, 1)]}

=============================================================================
