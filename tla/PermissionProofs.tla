-------------------------- MODULE PermissionProofs --------------------------
(***************************************************************************)
(* The type invariant of the permission table, for any accounts, any       *)
(* arguments of the actions and any bytes behind a short vector.           *)
(***************************************************************************)
EXTENDS LibrePermissions, TLAPS

(* Every permission has a position, at which the vector is read. *)
LEMMA FieldPosition ==
    ASSUME NEW p \in Permission
    PROVE  LET i == CHOOSE k \in DOMAIN Fields : Fields[k] = p
           IN  i \in DOMAIN Fields /\ Fields[i] = p
BY DEF Permission

(* setperm2 writes nine bytes whatever the vector's length. *)
LEMMA VectorRowType ==
    ASSUME NEW v \in PermVectors, NEW tail \in Tails(v)
    PROVE  VectorRow(v, tail) \in Row
<1>1. v \in Seq(Byte)
  BY PermissionsAssumption
<1>2. ASSUME NEW p \in Permission
      PROVE  VectorRow(v, tail)[p] \in Byte
  <2> DEFINE i == CHOOSE k \in DOMAIN Fields : Fields[k] = p
  <2>1. i \in DOMAIN Fields /\ Fields[i] = p
    BY FieldPosition
  <2>2. DOMAIN Fields = 1..9
    BY DEF Fields
  <2>3. VectorRow(v, tail)[p] = IF i <= Len(v) THEN v[i] ELSE tail[p]
    BY DEF VectorRow
  <2> HIDE DEF i
  <2>4. CASE i <= Len(v)
    <3>1. i \in DOMAIN v
      BY <1>1, <2>1, <2>2, <2>4
    <3>2. QED
      BY <1>1, <2>3, <2>4, <3>1
  <2>5. CASE ~(i <= Len(v))
    <3>1. Len(v) \in Nat
      BY <1>1
    <3>2. i > Len(v)
      BY <2>1, <2>2, <2>5, <3>1
    <3>3. tail[p] \in Garbage
      BY <2>1, <3>2 DEF Tails
    <3>4. QED
      BY <2>3, <2>5, <3>3, PermissionsAssumption
  <2>6. QED
    BY <2>4, <2>5
<1>3. QED
  BY <1>2 DEF VectorRow, Row

(* setperm writes bytes over bytes. *)
LEMMA MapRowType ==
    ASSUME NEW m \in PermMaps, NEW row \in Row
    PROVE  MapRow(m, row) \in Row
BY PermissionsAssumption DEF MapRow, Row

(* A row is of its type, found or new. *)
LEMMA RowOrNewType ==
    ASSUME PermTypeOK, NEW acc \in Account
    PROVE  RowOrNew(acc) \in Row
BY DEF PermTypeOK, RowOrNew, HasRow, NewRow, Row, Byte, None

(* Writing a row of the right type keeps the table's type. *)
LEMMA SetRowType ==
    ASSUME PermTypeOK, NEW acc \in Account, NEW row \in Row, SetRow(acc, row)
    PROVE  PermTypeOK'
BY DEF PermTypeOK, SetRow

(* Every action on the permission table keeps its type. *)
LEMMA PermNextType ==
    ASSUME PermTypeOK, NEW acc \in Account, PermNext(acc)
    PROVE  PermTypeOK'
<1>0. RowOrNew(acc) \in Row
  BY RowOrNewType
<1>1. CASE \E v \in PermVectors : SetPerm2(acc, v)
  <2>1. PICK v \in PermVectors : SetPerm2(acc, v)
    BY <1>1
  <2>2. PICK tail \in Tails(v) : SetRow(acc, VectorRow(v, tail))
    BY <2>1 DEF SetPerm2
  <2>3. QED
    BY <2>2, VectorRowType, SetRowType
<1>2. CASE \E m \in PermMaps : SetPerm(acc, m)
  BY <1>0, <1>2, MapRowType, SetRowType DEF SetPerm
<1>3. CASE Remove(acc)
  BY <1>3 DEF Remove, PermTypeOK
<1>4. CASE \E p \in Requests : ReqPerm(acc, p)
  <2>1. PICK p \in Requests : SetRow(acc, RequestRow(p, RowOrNew(acc)))
    BY <1>4 DEF ReqPerm
  <2>2. RequestRow(p, RowOrNew(acc)) \in Row
    BY <1>0 DEF RequestRow, Row, Byte, Pending
  <2>3. QED
    BY <2>1, <2>2, SetRowType
<1>5. CASE KickPerm(acc)
  <2>1. [RowOrNew(acc) EXCEPT !["regprod"] = Off] \in Row
    <3>1. Off \in Byte
      BY DEF Off, Byte
    <3>2. QED
      BY <1>0, <3>1 DEF Row
  <2>2. QED
    BY <1>5, <2>1, SetRowType DEF KickPerm
<1>6. QED
  BY <1>1, <1>2, <1>3, <1>4, <1>5 DEF PermNext, Operator

(***************************************************************************)
(* The permission table of eosio.libre always holds rows of nine bytes,    *)
(* for accounts that exist, whoever acts on it and with whatever input.    *)
(***************************************************************************)
THEOREM PermissionTypes == PermSpec => []PermTypeOK
<1>1. PermInit => PermTypeOK
  BY DEF PermInit, PermTypeOK
<1>2. PermTypeOK /\ [\E acc \in Account : PermNext(acc)]_perms => PermTypeOK'
  <2> SUFFICES ASSUME PermTypeOK, [\E acc \in Account : PermNext(acc)]_perms
               PROVE  PermTypeOK'
    OBVIOUS
  <2>1. CASE \E acc \in Account : PermNext(acc)
    BY <2>1, PermNextType
  <2>2. CASE UNCHANGED perms
    BY <2>2 DEF PermTypeOK
  <2>3. QED
    BY <2>1, <2>2
<1>3. QED
  BY <1>1, <1>2, PTL DEF PermSpec

=============================================================================
