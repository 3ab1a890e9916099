------------------------------ MODULE Accounts ------------------------------
(***************************************************************************)
(* The accounts of the chain: who creates them, with what names and what   *)
(* resources, and the hashes the system contract keeps of their ABIs.      *)
(* nodeos carries out newaccount, setabi and the calls on limits and       *)
(* privileges; the contract on eosio, first eosio.boot and then            *)
(* libre.system, runs with them and may refuse.  What libre.system asks is *)
(* in the permission table, whose rows are written meanwhile.              *)
(***************************************************************************)
EXTENDS PermissionAudit

CONSTANTS
    Self,            \* get_self(), the account eosio
    SuffixOf,        \* name::suffix(): what follows the last dot, or the name
    ABI,             \* the blobs passed to setabi
    Developer,       \* the accounts that pass them
    NewLimits,       \* 5120 bytes, net and cpu weights of 1
    Unlimited,       \* what nodeos gives an account that is not limited
    PrivSubject,     \* the accounts setpriv is called for
    NoRow,
    NoOne

Limits == {NewLimits, Unlimited}

Sha256(abi) == <<"sha256", abi>>

Dotted(n) == SuffixOf[n] # n

ASSUME AccountsAssumption ==
    /\ Self \in Privileged
    /\ SuffixOf \in [Account -> Account]
    /\ \A n \in Account : ~Dotted(SuffixOf[n])
    /\ Developer \subseteq Account
    /\ NewLimits # Unlimited
    /\ NoRow \notin Limits \cup ABI \cup {Sha256(x) : x \in ABI}
    /\ NoOne \notin Account
    /\ Self \in PrivSubject
    /\ PrivSubject \subseteq Account

VARIABLES
    exists,        \* the accounts there are
    code,          \* the contract on eosio: boot, then system
    limits,        \* nodeos: ram, net and cpu of an account
    abi,           \* nodeos: the ABI of an account
    abihash,       \* table abihash of libre.system
    privileged,    \* nodeos: the accounts that may make privileged calls
    grantor        \* history: who just created an account or set its limits

permVars == <<perms, word>>
nodeVars == <<exists, code, limits, abi, abihash, privileged>>
accountVars == <<permVars, nodeVars, grantor>>

-----------------------------------------------------------------------------
(* set_resource_limits, a call only a privileged contract may make. *)
SetResourceLimits(n, l) ==
    /\ Self \in privileged
    /\ limits' = [limits EXCEPT ![n] = l]

\* mutated: the suffix rule lets in whoever shares the suffix
OwnsSuffix_Shared(c, n) == Dotted(n) => SuffixOf[c] = SuffixOf[n]

OwnsSuffix(c, n) == Dotted(n) => c = SuffixOf[n]

(* isPrivileged in newaccount: the names get_priv exempts too. *)
Exempt(c) == c \in Privileged

\* mutated: the permission to set limits is not asked for
MayCreate_AnyLimits(c, n) ==
    /\ Exempt(c) \/ Allowed(c, "createacc")
    /\ Exempt(c) \/ OwnsSuffix(c, n)

MayCreate(c, n) ==
    /\ Exempt(c) \/ Allowed(c, "createacc")
    /\ Exempt(c) \/ OwnsSuffix(c, n)
    /\ Allowed(c, "setalimits")

(* nodeos: the creator signs, the name is free. *)
Created(c, n) ==
    /\ c \in exists
    /\ n \notin exists
    /\ exists' = exists \cup {n}
    /\ grantor' = c

(* eosio.boot::newaccount asks nothing. *)
BootNewAccount(c, n) ==
    /\ code = "boot"
    /\ Created(c, n)
    /\ limits' = [limits EXCEPT ![n] = Unlimited]
    /\ UNCHANGED <<permVars, code, abi, abihash, privileged>>

\* mutated: the new account is left as nodeos makes it
NewAccount_NoLimits(c, n) ==
    /\ code = "system"
    /\ Created(c, n)
    /\ MayCreate(c, n)
    /\ limits' = [limits EXCEPT ![n] = Unlimited]
    /\ UNCHANGED <<permVars, code, abi, abihash, privileged>>

NewAccount(c, n) ==
    /\ code = "system"
    /\ Created(c, n)
    /\ MayCreate(c, n)
    /\ SetResourceLimits(n, NewLimits)
    /\ UNCHANGED <<permVars, code, abi, abihash, privileged>>

(* setalimits, signed by the authorizer, of any account. *)
SetALimits(authorizer, n, l) ==
    /\ code = "system"
    /\ authorizer \in exists
    /\ n \in exists
    /\ Allowed(authorizer, "setalimits")
    /\ SetResourceLimits(n, l)
    /\ grantor' = authorizer
    /\ UNCHANGED <<permVars, exists, code, abi, abihash, privileged>>

(* setpriv, signed by eosio. *)
SetPriv(n, ispriv) ==
    /\ code = "system"
    /\ Self \in privileged
    /\ n \in exists
    /\ privileged' = IF ispriv THEN privileged \cup {n} ELSE privileged \ {n}
    /\ grantor' = NoOne
    /\ UNCHANGED <<permVars, exists, code, limits, abi, abihash>>

-----------------------------------------------------------------------------
\* mutated: a row there is keeps its hash
Rehashed_Once(n, x) ==
    IF abihash[n] = NoRow THEN [abihash EXCEPT ![n] = Sha256(x)] ELSE abihash

\* mutated: the ABI is stored for its hash
Rehashed_Plain(n, x) == [abihash EXCEPT ![n] = x]

Rehashed(n, x) == [abihash EXCEPT ![n] = Sha256(x)]

(* setabi, signed by the account: eosio.boot keeps no hash. *)
SetAbi(n, x) ==
    /\ n \in exists
    /\ abi' = [abi EXCEPT ![n] = x]
    /\ abihash' = IF code = "system" THEN Rehashed(n, x) ELSE abihash
    /\ grantor' = NoOne
    /\ UNCHANGED <<permVars, exists, code, limits, privileged>>

(* libre.system takes the place of eosio.boot. *)
Deploy ==
    /\ code = "boot"
    /\ code' = "system"
    /\ grantor' = NoOne
    /\ UNCHANGED <<permVars, exists, limits, abi, abihash, privileged>>

(***************************************************************************)
(* The actions of eosio.libre: setperm, setperm2 and kickbp check that the *)
(* account exists, reqperm is signed by it, and remove needs its row.      *)
(***************************************************************************)
\* mutated: an account that does not exist is given a row
IsAccount_Unchecked(acc) == TRUE

IsAccount(acc) == acc \in exists

PermissionsOf(acc) ==
    /\ \/ IsAccount(acc) /\ \E v \in PermVectors : SetPerm2(acc, v) /\ Say(acc, Named(v))
       \/ IsAccount(acc) /\ \E m \in PermMaps : SetPerm(acc, m) /\ Say(acc, MapRow(m, word[acc]))
       \/ Remove(acc) /\ Say(acc, NewRow)
       \/ IsAccount(acc) /\ KickPerm(acc) /\ Say(acc, [word[acc] EXCEPT !["regprod"] = Off])
       \/ acc \in exists /\ \E p \in Requests : ReqPerm(acc, p) /\ UNCHANGED word
    /\ grantor' = NoOne
    /\ UNCHANGED nodeVars

-----------------------------------------------------------------------------
(* The chain begins with the account eosio, and eosio.boot on it. *)
AccountsInit ==
    /\ AuditInit
    /\ exists = {Self}
    /\ code = "boot"
    /\ limits = [n \in Account |-> IF n \in exists THEN Unlimited ELSE NoRow]
    /\ abi = [n \in Account |-> NoRow]
    /\ abihash = [n \in Account |-> NoRow]
    /\ privileged = {Self}
    /\ grantor = NoOne

AccountsNext ==
    \/ \E c, n \in Account : BootNewAccount(c, n) \/ NewAccount(c, n)
    \/ \E c, n \in Account, l \in Limits : SetALimits(c, n, l)
    \/ \E n \in PrivSubject, ispriv \in BOOLEAN : SetPriv(n, ispriv)
    \/ \E n \in Developer, x \in ABI : SetAbi(n, x)
    \/ Deploy
    \/ \E acc \in Account : PermissionsOf(acc)

AccountsSpec == AccountsInit /\ [][AccountsNext]_accountVars

-----------------------------------------------------------------------------
(* The tables and what nodeos keeps have their types. *)
AccountsTypeOK ==
    /\ exists \subseteq Account
    /\ code \in {"boot", "system"}
    /\ limits \in [Account -> Limits \cup {NoRow}]
    /\ abi \in [Account -> ABI \cup {NoRow}]
    /\ abihash \in [Account -> {Sha256(x) : x \in ABI} \cup {NoRow}]
    /\ privileged \subseteq Account
    /\ grantor \in Account \cup {NoOne}

(***************************************************************************)
(* The rows of three owners - permissions of eosio.libre, hashes of        *)
(* libre.system, limits of nodeos - are rows of accounts that exist: a name*)
(* is not given a status before there is an account to have it.            *)
(***************************************************************************)
RowsHaveAccounts ==
    /\ DOMAIN perms \subseteq exists
    /\ \A n \in Account : abihash[n] # NoRow => n \in exists
    /\ \A n \in Account : limits[n] # NoRow <=> n \in exists

(***************************************************************************)
(* A hash in the table is that of the ABI its account has now, whether the *)
(* ABI was set before libre.system, since, or both.                        *)
(***************************************************************************)
HashesAgree ==
    \A n \in Account :
        abihash[n] # NoRow => abi[n] # NoRow /\ abihash[n] = Sha256(abi[n])

(***************************************************************************)
(* Under libre.system an account comes into being, and limits change, only *)
(* by eosio or libre, or by an account for which the operator's last word  *)
(* on setalimits, and for a new account on createacc, is on; and a new     *)
(* name with a dot is made by the account that is its suffix.  Neither a   *)
(* pending request nor a status since withdrawn is enough.                 *)
(***************************************************************************)
HasTheWord(c, p) == c \in Privileged \/ word[c][p] = On

MadeByRight(n) ==
    /\ HasTheWord(grantor', "createacc")
    /\ Dotted(n) /\ grantor' \notin Privileged => grantor' = SuffixOf[n]

DoneByRight ==
    code = "system" =>
        /\ exists' # exists \/ limits' # limits => HasTheWord(grantor', "setalimits")
        /\ \A n \in exists' \ exists : MadeByRight(n)

GrantedBeforeDone == [][DoneByRight]_accountVars

(***************************************************************************)
(* setpriv may be called for eosio itself.  From then on the contract is   *)
(* powerless for good: no account is created, no limit set, and setpriv    *)
(* does not bring the privilege back.                                      *)
(***************************************************************************)
Powerless ==
    code = "system" /\ Self \notin privileged =>
        UNCHANGED <<exists, limits, privileged>>

StuckWithoutPrivilege == [][Powerless]_accountVars

=============================================================================
