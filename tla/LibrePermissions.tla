-------------------------- MODULE LibrePermissions --------------------------
(***************************************************************************)
(* The permission table of eosio.libre: what each account has been granted *)
(* by the operator, which of the nine permissions it has asked for, and    *)
(* what the other contracts read back through get_priv.                    *)
(*                                                                         *)
(* A transaction is atomic: an action whose check fails leaves no trace,   *)
(* so a failed check is a step that is not taken.                          *)
(***************************************************************************)
EXTENDS Integers, FiniteSets, Sequences

CONSTANTS
    Account,      \* the existing accounts of the chain
    Privileged,   \* the accounts eosio and libre, which get_priv exempts
    PermVectors,  \* the vectors the operator passes to setperm2
    PermMaps,     \* the maps it passes to setperm: from known or unknown names
    Requests,     \* the strings passed to reqperm, known or unknown
    Garbage       \* the bytes found behind the end of a short vector

(***************************************************************************)
(* The fields of a permission row, in the order setperm2 reads them.       *)
(***************************************************************************)
Fields == <<"createacc", "regprod", "vote", "stake", "transfer", "propose",
            "setcontract", "blacklist", "setalimits">>

Permission == {Fields[i] : i \in DOMAIN Fields}

Byte == 0..255

(* 0 = none, 1 = on, 2 = pending, 3 = off, 4 = banned *)
None    == 0
On      == 1
Pending == 2
Off     == 3
Banned  == 4

ASSUME PermissionsAssumption ==
    /\ Privileged \subseteq Account
    /\ \A v \in PermVectors : v \in Seq(Byte)
    /\ \A m \in PermMaps : \A p \in DOMAIN m : m[p] \in Byte
    /\ Garbage \subseteq Byte
    /\ Garbage # {}

VARIABLE perms    \* the table: a row for some of the accounts

Row == [Permission -> Byte]

HasRow(acc) == acc \in DOMAIN perms

(* A row the contract has just created: every field none. *)
NewRow == [p \in Permission |-> None]

(* The row of an account after it is found or created. *)
RowOrNew(acc) == IF HasRow(acc) THEN perms[acc] ELSE NewRow

(* Write the row of acc. *)
SetRow(acc, row) ==
    perms' = [a \in DOMAIN perms \cup {acc} |-> IF a = acc THEN row ELSE perms[a]]

-----------------------------------------------------------------------------
(***************************************************************************)
(* eosio.libre::setperm2, signed by eosio.libre.  The vector is indexed up *)
(* to perms[8] whatever its size: behind the end of a shorter one the      *)
(* program reads whatever is there.  A longer one is cut.                  *)
(***************************************************************************)
VectorRow(v, tail) ==
    [p \in Permission |->
        LET i == CHOOSE k \in DOMAIN Fields : Fields[k] = p
        IN  IF i <= Len(v) THEN v[i] ELSE tail[p]]

Tails(v) == [{Fields[i] : i \in {k \in DOMAIN Fields : k > Len(v)}} -> Garbage]

SetPerm2(acc, v) ==
    \E tail \in Tails(v) : SetRow(acc, VectorRow(v, tail))

(***************************************************************************)
(* eosio.libre::setperm, signed by eosio.libre.  Names the table does not  *)
(* have are skipped, fields the map does not have keep their value.        *)
(***************************************************************************)
\* mutated: a name the table does not have gets a field
MapRow_Unknown(m, row) ==
    [p \in Permission \cup DOMAIN m |-> IF p \in DOMAIN m THEN m[p] ELSE row[p]]

MapRow(m, row) == [p \in Permission |-> IF p \in DOMAIN m THEN m[p] ELSE row[p]]

SetPerm(acc, m) == SetRow(acc, MapRow(m, RowOrNew(acc)))

(***************************************************************************)
(* eosio.libre::reqperm, signed by the account itself.  A name the table   *)
(* does not have changes no field, but creates the row.                    *)
(***************************************************************************)
\* mutated: a banned account may ask again
Requestable_Banned(status) == status # On

Requestable(status) == status \notin {On, Banned}

RequestRow(p, row) ==
    [q \in Permission |-> IF q = p /\ Requestable(row[q]) THEN Pending ELSE row[q]]

ReqPerm(acc, p) == SetRow(acc, RequestRow(p, RowOrNew(acc)))

(* eosio.libre::remove, signed by eosio.libre. *)
Remove(acc) ==
    /\ HasRow(acc)
    /\ perms' = [a \in DOMAIN perms \ {acc} |-> perms[a]]

(* eosio.libre::kickbp, signed by eosio: alone or from libre.system::kickbp. *)
KickPerm(acc) == SetRow(acc, [RowOrNew(acc) EXCEPT !["regprod"] = Off])

(***************************************************************************)
(* eosio.libre::get_priv: the status the other contracts see.              *)
(***************************************************************************)
GetPriv(acc) ==
    IF acc \in Privileged THEN [p \in Permission |-> On] ELSE RowOrNew(acc)

(* libre.system::checkPermission(acc, p) == 1 *)
\* mutated: a pending request is enough
Allowed_Asked(acc, p) == GetPriv(acc)[p] \in {On, Pending}

Allowed(acc, p) == GetPriv(acc)[p] = On

-----------------------------------------------------------------------------
(* The actions of the operator, of the account and of eosio on a row. *)
Operator(acc) ==
    \/ \E v \in PermVectors : SetPerm2(acc, v)
    \/ \E m \in PermMaps : SetPerm(acc, m)
    \/ Remove(acc)

PermNext(acc) ==
    \/ Operator(acc)
    \/ \E p \in Requests : ReqPerm(acc, p)
    \/ KickPerm(acc)

PermInit == perms = << >>

PermSpec == PermInit /\ [][\E acc \in Account : PermNext(acc)]_perms

PermTypeOK ==
    /\ DOMAIN perms \subseteq Account
    /\ \A acc \in DOMAIN perms : perms[acc] \in Row

=============================================================================
