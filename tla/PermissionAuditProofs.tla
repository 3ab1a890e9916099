----------------------- MODULE PermissionAuditProofs -----------------------
(***************************************************************************)
(* As long as the operator passes full vectors to setperm2, no sequence of *)
(* actions grants what it did not grant, and under libre.system nothing is *)
(* done to the accounts without a grant.                                   *)
(***************************************************************************)
EXTENDS Accounts, PermissionProofs

FullVectors == \A v \in PermVectors : Len(v) >= Len(Fields)

AuditInv == AuditTypeOK /\ StatusIsLastWord

(* A full vector is read entirely: what lies behind it does not matter. *)
LEMMA FullVectorRow ==
    ASSUME FullVectors, NEW v \in PermVectors, NEW tail \in Tails(v)
    PROVE  VectorRow(v, tail) = Named(v) /\ Named(v) \in Row
<1>1. v \in Seq(Byte) /\ Len(v) \in Nat /\ Len(v) >= 9
  BY PermissionsAssumption DEF FullVectors, Fields
<1>2. DOMAIN Fields = 1..9
  BY DEF Fields
<1>3. ASSUME NEW p \in Permission
      PROVE  (CHOOSE k \in DOMAIN Fields : Fields[k] = p) <= Len(v)
  <2> DEFINE i == CHOOSE k \in DOMAIN Fields : Fields[k] = p
  <2>1. i \in 1..9
    BY <1>2, FieldPosition
  <2> HIDE DEF i
  <2>2. i <= Len(v)
    BY <1>1, <2>1
  <2>3. QED
    BY <2>2 DEF i
<1>4. VectorRow(v, tail) = VectorRow(v, NewRow)
  BY <1>3 DEF VectorRow
<1>5. QED
  BY <1>4, VectorRowType DEF Named

(* What writing a row does to the status and to the word of every account. *)
LEMMA WriteKeepsAudit ==
    ASSUME AuditInv, NEW acc \in Account, NEW row \in Row, NEW said \in Row,
           SetRow(acc, row), word' = [word EXCEPT ![acc] = said],
           \A p \in Permission :
               row[p] = said[p] \/ (row[p] = Pending /\ said[p] \notin {On, Banned})
    PROVE  AuditInv'
<1>1. PermTypeOK /\ word \in [Account -> Row]
  BY DEF AuditInv, AuditTypeOK
<1>2. AuditTypeOK'
  BY <1>1, SetRowType DEF AuditTypeOK
<1>3. ASSUME NEW a \in Account, NEW p \in Permission
      PROVE  RowOrNew(a)'[p] = word'[a][p] \/
             (RowOrNew(a)'[p] = Pending /\ word'[a][p] \notin {On, Banned})
  <2>1. CASE a = acc
    <3>1. RowOrNew(a)' = row /\ word'[a] = said
      BY <1>1, <2>1 DEF RowOrNew, HasRow, SetRow
    <3>2. QED
      BY <3>1
  <2>2. CASE a # acc
    <3>1. RowOrNew(a)' = RowOrNew(a) /\ word'[a] = word[a]
      BY <1>1, <2>2 DEF RowOrNew, HasRow, SetRow
    <3>2. QED
      BY <3>1 DEF AuditInv, StatusIsLastWord
  <2>3. QED
    BY <2>1, <2>2
<1>4. QED
  BY <1>2, <1>3 DEF AuditInv, StatusIsLastWord

(* Every action keeps the relation of status and word. *)
LEMMA AuditStep ==
    ASSUME FullVectors, AuditInv, [AuditNext]_<<perms, word>>
    PROVE  AuditInv'
<1>0. PermTypeOK /\ word \in [Account -> Row] /\ StatusIsLastWord
  BY DEF AuditInv, AuditTypeOK
<1>1. ASSUME NEW acc \in Account, NEW v \in PermVectors, SetPerm2(acc, v), Say(acc, Named(v))
      PROVE  AuditInv'
  <2>1. PICK tail \in Tails(v) : SetRow(acc, VectorRow(v, tail))
    BY <1>1 DEF SetPerm2
  <2>2. SetRow(acc, Named(v)) /\ Named(v) \in Row
    BY <2>1, FullVectorRow
  <2>3. QED
    BY <1>1, <2>2, WriteKeepsAudit DEF Say
<1>2. ASSUME NEW acc \in Account, NEW m \in PermMaps, SetPerm(acc, m),
             Say(acc, MapRow(m, word[acc]))
      PROVE  AuditInv'
  <2>1. RowOrNew(acc) \in Row /\ word[acc] \in Row
    BY <1>0, RowOrNewType
  <2>2. MapRow(m, RowOrNew(acc)) \in Row /\ MapRow(m, word[acc]) \in Row
    BY <2>1, MapRowType
  <2>3. \A p \in Permission :
           \/ MapRow(m, RowOrNew(acc))[p] = MapRow(m, word[acc])[p]
           \/ /\ MapRow(m, RowOrNew(acc))[p] = Pending
              /\ MapRow(m, word[acc])[p] \notin {On, Banned}
    BY <1>0 DEF MapRow, StatusIsLastWord
  <2>4. QED
    BY <1>2, <2>2, <2>3, WriteKeepsAudit DEF SetPerm, Say
<1>3. ASSUME NEW acc \in Account, Remove(acc), Say(acc, NewRow)
      PROVE  AuditInv'
  <2>1. NewRow \in Row
    BY DEF NewRow, Row, None, Byte
  <2>2. AuditTypeOK'
    BY <1>0, <1>3, <2>1 DEF Remove, Say, AuditTypeOK, PermTypeOK
  <2>3. ASSUME NEW a \in Account, NEW p \in Permission
        PROVE  RowOrNew(a)'[p] = word'[a][p] \/
               (RowOrNew(a)'[p] = Pending /\ word'[a][p] \notin {On, Banned})
    <3>1. CASE a = acc
      <4>1. RowOrNew(a)' = NewRow /\ word'[a] = NewRow
        BY <1>0, <1>3, <3>1 DEF Remove, Say, RowOrNew, HasRow, NewRow
      <4>2. QED
        BY <4>1
    <3>2. CASE a # acc
      <4>1. RowOrNew(a)' = RowOrNew(a) /\ word'[a] = word[a]
        BY <1>0, <1>3, <3>2 DEF Remove, Say, RowOrNew, HasRow, NewRow
      <4>2. QED
        BY <1>0, <4>1 DEF StatusIsLastWord
    <3>3. QED
      BY <3>1, <3>2
  <2>4. QED
    BY <2>2, <2>3 DEF AuditInv, StatusIsLastWord
<1>4. ASSUME NEW acc \in Account, KickPerm(acc), Say(acc, [word[acc] EXCEPT !["regprod"] = Off])
      PROVE  AuditInv'
  <2> DEFINE row  == [RowOrNew(acc) EXCEPT !["regprod"] = Off]
             said == [word[acc] EXCEPT !["regprod"] = Off]
  <2>1. RowOrNew(acc) \in Row /\ word[acc] \in Row /\ Off \in Byte
    BY <1>0, RowOrNewType DEF Off, Byte
  <2>2. row \in Row /\ said \in Row
    BY <2>1 DEF Row
  <2>3. \A p \in Permission :
           row[p] = said[p] \/ (row[p] = Pending /\ said[p] \notin {On, Banned})
    BY <1>0, <2>1 DEF StatusIsLastWord, Row
  <2>4. SetRow(acc, row) /\ word' = [word EXCEPT ![acc] = said]
    BY <1>4 DEF KickPerm, Say
  <2> HIDE DEF row, said
  <2>5. QED
    BY <2>2, <2>3, <2>4, WriteKeepsAudit
<1>5. ASSUME NEW acc \in Account, NEW r \in Requests, ReqPerm(acc, r), UNCHANGED word
      PROVE  AuditInv'
  <2> DEFINE row == RequestRow(r, RowOrNew(acc))
  <2>1. RowOrNew(acc) \in Row /\ word[acc] \in Row /\ Pending \in Byte
    BY <1>0, RowOrNewType DEF Pending, Byte
  <2>2. row \in Row
    BY <2>1 DEF RequestRow, Row
  <2>3. \A p \in Permission :
           row[p] = word[acc][p] \/ (row[p] = Pending /\ word[acc][p] \notin {On, Banned})
    BY <1>0 DEF StatusIsLastWord, RequestRow, Requestable, Pending, On, Banned
  <2>4. SetRow(acc, row) /\ word' = [word EXCEPT ![acc] = word[acc]]
    BY <1>0, <1>5 DEF ReqPerm
  <2> HIDE DEF row
  <2>5. QED
    BY <2>1, <2>2, <2>3, <2>4, WriteKeepsAudit
<1>6. CASE UNCHANGED <<perms, word>>
  BY <1>6 DEF AuditInv, AuditTypeOK, StatusIsLastWord, PermTypeOK, RowOrNew, HasRow
<1>7. QED
  BY <1>1, <1>2, <1>3, <1>4, <1>5, <1>6 DEF AuditNext

(* The initial state, of the permissions and of their history. *)
LEMMA AuditStart == AuditInit => AuditInv
<1> SUFFICES ASSUME AuditInit PROVE AuditInv
  OBVIOUS
<1>1. NewRow \in Row
  BY DEF NewRow, Row, None, Byte
<1>2. QED
  BY <1>1 DEF AuditInit, PermInit, AuditInv, AuditTypeOK, PermTypeOK, StatusIsLastWord,
              RowOrNew, HasRow

(***************************************************************************)
(* Given full vectors, what an account may do is what the operator last    *)
(* said, or a pending request: no request, partial map, kick or removal    *)
(* turns a permission on, and none but a kick or the operator lifts a ban. *)
(***************************************************************************)
THEOREM OnlyTheOperatorGrants ==
    ASSUME FullVectors PROVE AuditSpec => []StatusIsLastWord
<1>1. AuditInit => AuditInv
  BY AuditStart
<1>2. AuditInv /\ [AuditNext]_<<perms, word>> => AuditInv'
  BY AuditStep
<1>3. AuditInv => StatusIsLastWord
  BY DEF AuditInv
<1>4. QED
  BY <1>1, <1>2, <1>3, PTL DEF AuditSpec

(***************************************************************************)
(* The table keeps nine bytes a row, and its history a word for each of    *)
(* them, through names it does not have, kicks and removals.               *)
(***************************************************************************)
THEOREM AuditTypes ==
    ASSUME FullVectors PROVE AuditSpec => []AuditTypeOK
<1>1. AuditInit => AuditInv
  BY AuditStart
<1>2. AuditInv /\ [AuditNext]_<<perms, word>> => AuditInv'
  BY AuditStep
<1>3. AuditInv => AuditTypeOK
  BY DEF AuditInv
<1>4. QED
  BY <1>1, <1>2, <1>3, PTL DEF AuditSpec

-----------------------------------------------------------------------------
(* The accounts of the chain. *)

(* An action of Accounts writes the permissions as one of PermissionAudit. *)
LEMMA AccountsAreAudited ==
    [AccountsNext]_accountVars => [AuditNext]_<<perms, word>>
<1> SUFFICES ASSUME [AccountsNext]_accountVars PROVE [AuditNext]_<<perms, word>>
  OBVIOUS
<1>1. ASSUME NEW acc \in Account, PermissionsOf(acc) PROVE AuditNext
  BY <1>1 DEF PermissionsOf, AuditNext
<1>2. CASE UNCHANGED permVars
  BY <1>2 DEF permVars
<1>3. QED
  BY <1>1, <1>2 DEF AccountsNext, BootNewAccount, NewAccount, SetALimits, SetPriv, SetAbi,
                    Deploy, accountVars

(* Statuses are the operator's last words on the chain, too. *)
LEMMA AuditOnTheChain ==
    ASSUME FullVectors PROVE AccountsSpec => []AuditInv
<1>1. AccountsInit => AuditInv
  BY AuditStart DEF AccountsInit
<1>2. AuditInv /\ [AccountsNext]_accountVars => AuditInv'
  BY AccountsAreAudited, AuditStep
<1>3. QED
  BY <1>1, <1>2, PTL DEF AccountsSpec

(* eosio.boot keeps no hash that a later ABI could make stale. *)
NoHashInBoot == code = "boot" => \A n \in Account : abihash[n] = NoRow

AccountsInv == AccountsTypeOK /\ RowsHaveAccounts /\ HashesAgree /\ NoHashInBoot

(* Creating an account, by whatever contract, with whatever limits. *)
LEMMA CreatedKeepsInv ==
    ASSUME AccountsInv, NEW c \in Account, NEW n \in Account, NEW l \in Limits,
           Created(c, n), limits' = [limits EXCEPT ![n] = l],
           UNCHANGED <<permVars, code, abi, abihash, privileged>>
    PROVE  AccountsInv'
<1>1. l # NoRow
  BY AccountsAssumption
<1>2. AccountsTypeOK'
  BY DEF AccountsInv, AccountsTypeOK, Created
<1>3. RowsHaveAccounts'
  BY <1>1 DEF AccountsInv, AccountsTypeOK, RowsHaveAccounts, Created, permVars
<1>4. HashesAgree' /\ NoHashInBoot'
  BY DEF AccountsInv, HashesAgree, NoHashInBoot
<1>5. QED
  BY <1>2, <1>3, <1>4 DEF AccountsInv

(* Setting an ABI, with or without its hash. *)
LEMMA AbiKeepsInv ==
    ASSUME AccountsInv, NEW n \in Developer, NEW x \in ABI, SetAbi(n, x)
    PROVE  AccountsInv'
<1>1. n \in Account /\ n \in exists /\ x # NoRow /\ Sha256(x) # NoRow
  BY AccountsAssumption DEF SetAbi
<1>2. AccountsTypeOK'
  BY <1>1 DEF AccountsInv, AccountsTypeOK, SetAbi, Rehashed
<1>3. RowsHaveAccounts'
  BY <1>1 DEF AccountsInv, AccountsTypeOK, RowsHaveAccounts, SetAbi, Rehashed, permVars
<1>4. CASE code = "boot"
  <2>1. abihash' = abihash /\ code' = code /\ \A m \in Account : abihash[m] = NoRow
    BY <1>4 DEF AccountsInv, NoHashInBoot, SetAbi
  <2>2. HashesAgree' /\ NoHashInBoot'
    BY <2>1 DEF HashesAgree, NoHashInBoot
  <2>3. QED
    BY <1>2, <1>3, <2>2 DEF AccountsInv
<1>5. CASE code = "system"
  <2>1. /\ abihash' = [abihash EXCEPT ![n] = Sha256(x)]
        /\ abi' = [abi EXCEPT ![n] = x]
        /\ code' = code
    BY <1>5 DEF SetAbi, Rehashed
  <2>2. HashesAgree'
    BY <1>1, <2>1 DEF AccountsInv, AccountsTypeOK, HashesAgree
  <2>3. NoHashInBoot'
    BY <1>5, <2>1 DEF NoHashInBoot
  <2>4. QED
    BY <1>2, <1>3, <2>2, <2>3 DEF AccountsInv
<1>6. QED
  BY <1>4, <1>5 DEF AccountsInv, AccountsTypeOK

(* Writing a row of permissions: of an account that exists. *)
LEMMA PermissionsKeepInv ==
    ASSUME AccountsInv, NEW acc \in Account, PermissionsOf(acc)
    PROVE  AccountsInv'
<1>1. UNCHANGED nodeVars /\ grantor' = NoOne
  BY DEF PermissionsOf
<1>2. DOMAIN perms \subseteq exists
  BY DEF AccountsInv, RowsHaveAccounts
<1>3. ASSUME acc \in exists, NEW row, SetRow(acc, row)
      PROVE  DOMAIN perms' \subseteq exists
  BY <1>2, <1>3 DEF SetRow
<1>4. ASSUME Remove(acc) PROVE DOMAIN perms' \subseteq exists
  BY <1>2, <1>4 DEF Remove
<1>5. DOMAIN perms' \subseteq exists
  <2>1. CASE acc \in exists /\ \E v \in PermVectors : SetPerm2(acc, v)
    BY <1>3, <2>1 DEF SetPerm2
  <2>2. CASE acc \in exists /\ \E m \in PermMaps : SetPerm(acc, m)
    BY <1>3, <2>2 DEF SetPerm
  <2>3. CASE acc \in exists /\ KickPerm(acc)
    BY <1>3, <2>3 DEF KickPerm
  <2>4. CASE acc \in exists /\ \E p \in Requests : ReqPerm(acc, p)
    BY <1>3, <2>4 DEF ReqPerm
  <2>5. QED
    BY <1>4, <2>1, <2>2, <2>3, <2>4 DEF PermissionsOf, IsAccount
<1>6. AccountsTypeOK'
  BY <1>1 DEF AccountsInv, AccountsTypeOK, nodeVars
<1>7. RowsHaveAccounts'
  BY <1>1, <1>5 DEF AccountsInv, RowsHaveAccounts, nodeVars
<1>8. HashesAgree' /\ NoHashInBoot'
  BY <1>1 DEF AccountsInv, HashesAgree, NoHashInBoot, nodeVars
<1>9. QED
  BY <1>6, <1>7, <1>8 DEF AccountsInv

(* Every action keeps the invariant of the accounts. *)
LEMMA AccountsStep == AccountsInv /\ [AccountsNext]_accountVars => AccountsInv'
<1> SUFFICES ASSUME AccountsInv, [AccountsNext]_accountVars PROVE AccountsInv'
  OBVIOUS
<1> USE DEF AccountsInv
<1>1. ASSUME NEW c \in Account, NEW n \in Account, BootNewAccount(c, n)
      PROVE  AccountsInv'
  <2>1. Unlimited \in Limits
    BY DEF Limits
  <2>2. QED
    BY <1>1, <2>1, CreatedKeepsInv DEF BootNewAccount
<1>2. ASSUME NEW c \in Account, NEW n \in Account, NewAccount(c, n)
      PROVE  AccountsInv'
  <2>1. NewLimits \in Limits
    BY DEF Limits
  <2>2. QED
    BY <1>2, <2>1, CreatedKeepsInv DEF NewAccount, SetResourceLimits
<1>3. ASSUME NEW c \in Account, NEW n \in Account, NEW l \in Limits, SetALimits(c, n, l)
      PROVE  AccountsInv'
  <2>1. l # NoRow /\ n \in exists
    BY <1>3, AccountsAssumption DEF SetALimits
  <2>2. AccountsTypeOK'
    BY <1>3 DEF AccountsTypeOK, SetALimits, SetResourceLimits
  <2>3. RowsHaveAccounts'
    BY <1>3, <2>1 DEF AccountsTypeOK, RowsHaveAccounts, SetALimits, SetResourceLimits, permVars
  <2>4. HashesAgree' /\ NoHashInBoot'
    BY <1>3 DEF HashesAgree, NoHashInBoot, SetALimits
  <2>5. QED
    BY <2>2, <2>3, <2>4
<1>4. ASSUME NEW n \in PrivSubject, NEW b \in BOOLEAN, SetPriv(n, b) PROVE AccountsInv'
  <2>1. n \in Account
    BY AccountsAssumption
  <2>2. AccountsTypeOK'
    BY <1>4, <2>1 DEF AccountsTypeOK, SetPriv
  <2>3. RowsHaveAccounts' /\ HashesAgree' /\ NoHashInBoot'
    BY <1>4 DEF RowsHaveAccounts, HashesAgree, NoHashInBoot, SetPriv, permVars
  <2>4. QED
    BY <2>2, <2>3
<1>5. ASSUME NEW n \in Developer, NEW x \in ABI, SetAbi(n, x) PROVE AccountsInv'
  BY <1>5, AbiKeepsInv
<1>6. CASE Deploy
  <2>1. AccountsTypeOK'
    BY <1>6 DEF AccountsTypeOK, Deploy
  <2>2. RowsHaveAccounts' /\ HashesAgree' /\ NoHashInBoot'
    BY <1>6 DEF RowsHaveAccounts, HashesAgree, NoHashInBoot, Deploy, permVars
  <2>3. QED
    BY <2>1, <2>2
<1>7. ASSUME NEW acc \in Account, PermissionsOf(acc) PROVE AccountsInv'
  BY <1>7, PermissionsKeepInv
<1>8. CASE UNCHANGED accountVars
  BY <1>8 DEF accountVars, permVars, nodeVars, AccountsTypeOK, RowsHaveAccounts, HashesAgree,
              NoHashInBoot
<1>9. QED
  BY <1>1, <1>2, <1>3, <1>4, <1>5, <1>6, <1>7, <1>8 DEF AccountsNext

(* The chain begins with the one account, and nothing kept of it. *)
LEMMA AccountsStart == AccountsInit => AccountsInv
<1> SUFFICES ASSUME AccountsInit PROVE AccountsInv
  OBVIOUS
<1>1. Self \in Account /\ Unlimited \in Limits /\ Unlimited # NoRow
  BY PermissionsAssumption, AccountsAssumption DEF Limits
<1>2. AccountsTypeOK
  BY <1>1 DEF AccountsInit, AccountsTypeOK
<1>3. DOMAIN perms = {}
  BY DEF AccountsInit, AuditInit, PermInit
<1>4. RowsHaveAccounts
  BY <1>1, <1>3 DEF AccountsInit, RowsHaveAccounts
<1>5. HashesAgree /\ NoHashInBoot
  BY DEF AccountsInit, HashesAgree, NoHashInBoot
<1>6. QED
  BY <1>2, <1>4, <1>5 DEF AccountsInv

(* The inductive invariant of the accounts. *)
THEOREM AccountsInvariant == AccountsSpec => []AccountsInv
BY AccountsStart, AccountsStep, PTL DEF AccountsSpec

(* Type correctness of the accounts, through both contracts on eosio. *)
THEOREM AccountsTypes == AccountsSpec => []AccountsTypeOK
<1>1. AccountsInv => AccountsTypeOK
  BY DEF AccountsInv
<1>2. QED
  BY <1>1, AccountsInvariant, PTL

(* The rows of eosio.libre, libre.system and nodeos are rows of accounts. *)
THEOREM RowsAreOfAccounts == AccountsSpec => []RowsHaveAccounts
<1>1. AccountsInv => RowsHaveAccounts
  BY DEF AccountsInv
<1>2. QED
  BY <1>1, AccountsInvariant, PTL

(***************************************************************************)
(* The hashes are those of the present ABIs.  That needs that eosio.boot,  *)
(* which sets ABIs without their hashes, runs before there are any.        *)
(***************************************************************************)
THEOREM HashesAreFresh == AccountsSpec => []HashesAgree
<1>1. AccountsInv => HashesAgree
  BY DEF AccountsInv
<1>2. QED
  BY <1>1, AccountsInvariant, PTL

(* Who is allowed is exempt, or has the operator's word. *)
LEMMA AllowedHasTheWord ==
    ASSUME AuditInv, NEW c \in Account, NEW p \in Permission, Allowed(c, p)
    PROVE  HasTheWord(c, p)
BY DEF Allowed, GetPriv, AuditInv, StatusIsLastWord, HasTheWord, On, Pending

(***************************************************************************)
(* Under libre.system no account is created and no limit changed but by    *)
(* eosio, libre, or who was last told that it may; names with a dot are    *)
(* made by their suffix.                                                   *)
(***************************************************************************)
THEOREM NothingWithoutAGrant ==
    ASSUME FullVectors PROVE AccountsSpec => GrantedBeforeDone
<1>0. "createacc" \in Permission /\ "setalimits" \in Permission
  <2>1. DOMAIN Fields = 1..9 /\ Fields[1] = "createacc" /\ Fields[9] = "setalimits"
    BY DEF Fields
  <2>2. QED
    BY <2>1 DEF Permission
<1>1. AuditInv /\ AccountsInv /\ [AccountsNext]_accountVars => [DoneByRight]_accountVars
  <2> SUFFICES ASSUME AuditInv, AccountsInv, AccountsNext, code = "system"
               PROVE  DoneByRight
    BY DEF DoneByRight
  <2>1. ASSUME NEW c \in Account, NEW n \in Account, NewAccount(c, n) PROVE DoneByRight
    <3>1. grantor' = c /\ exists' = exists \cup {n} /\ MayCreate(c, n)
      BY <2>1 DEF NewAccount, Created
    <3>2. HasTheWord(c, "setalimits")
      BY <1>0, <3>1, AllowedHasTheWord DEF MayCreate
    <3>3. HasTheWord(c, "createacc")
      BY <1>0, <3>1, AllowedHasTheWord DEF MayCreate, Exempt, HasTheWord
    <3>4. Dotted(n) /\ c \notin Privileged => c = SuffixOf[n]
      BY <3>1 DEF MayCreate, Exempt, OwnsSuffix
    <3>5. QED
      BY <3>1, <3>2, <3>3, <3>4 DEF DoneByRight, MadeByRight
  <2>2. ASSUME NEW c \in Account, NEW n \in Account, NEW l \in Limits, SetALimits(c, n, l)
        PROVE  DoneByRight
    <3>1. grantor' = c /\ exists' = exists /\ Allowed(c, "setalimits")
      BY <2>2 DEF SetALimits
    <3>2. QED
      BY <1>0, <3>1, AllowedHasTheWord DEF DoneByRight
  <2>3. ASSUME UNCHANGED <<exists, limits>> PROVE DoneByRight
    BY <2>3 DEF DoneByRight
  <2>4. QED
    BY <2>1, <2>2, <2>3 DEF AccountsNext, BootNewAccount, SetPriv, SetAbi, Deploy,
                            PermissionsOf, nodeVars
<1>2. QED
  BY <1>1, AuditOnTheChain, AccountsInvariant, PTL DEF AccountsSpec, GrantedBeforeDone

(***************************************************************************)
(* Without its own privilege libre.system creates no account, sets no      *)
(* limit and gets no privilege back.                                       *)
(***************************************************************************)
THEOREM PrivilegeIsNotRegained == AccountsSpec => StuckWithoutPrivilege
<1>1. [AccountsNext]_accountVars => [Powerless]_accountVars
  BY DEF AccountsNext, Powerless, BootNewAccount, NewAccount, SetResourceLimits, SetALimits,
         SetPriv, SetAbi, Deploy, PermissionsOf, nodeVars
<1>2. QED
  BY <1>1, PTL DEF AccountsSpec, StuckWithoutPrivilege

(***************************************************************************)
(* Whatever happens to the accounts, eosio.libre sees a behaviour of its   *)
(* own table and history: the last word of the operator, and so what is    *)
(* proved of it, is the same under newaccount, setabi and setpriv.         *)
(***************************************************************************)
THEOREM AccountsUsePermissions == AccountsSpec => AuditSpec
<1>1. AccountsInit => AuditInit
  BY DEF AccountsInit
<1>2. QED
  BY <1>1, AccountsAreAudited, PTL DEF AccountsSpec, AuditSpec

=============================================================================
