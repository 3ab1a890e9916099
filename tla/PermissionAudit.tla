-------------------------- MODULE PermissionAudit --------------------------
(***************************************************************************)
(* LibrePermissions with a history variable: the last word of the operator *)
(* (or of eosio, by kickbp) on every permission of every account, as the   *)
(* arguments of the action give it.  A permission that setperm2's vector   *)
(* does not reach is not given: its word is none.                          *)
(***************************************************************************)
EXTENDS LibrePermissions

VARIABLE word

AuditInit ==
    /\ PermInit
    /\ word = [acc \in Account |-> NewRow]

Named(v) == VectorRow(v, NewRow)

Say(acc, row) == word' = [word EXCEPT ![acc] = row]

AuditNext ==
    \E acc \in Account :
        \/ \E v \in PermVectors : SetPerm2(acc, v) /\ Say(acc, Named(v))
        \/ \E m \in PermMaps : SetPerm(acc, m) /\ Say(acc, MapRow(m, word[acc]))
        \/ Remove(acc) /\ Say(acc, NewRow)
        \/ KickPerm(acc) /\ Say(acc, [word[acc] EXCEPT !["regprod"] = Off])
        \/ \E p \in Requests : ReqPerm(acc, p) /\ UNCHANGED word

AuditSpec == AuditInit /\ [][AuditNext]_<<perms, word>>

(***************************************************************************)
(* Every status is the operator's last word on it, or a pending request of *)
(* the account where that word was neither on nor banned.  So no sequence  *)
(* of requests, partial maps, kicks and removals turns a permission on     *)
(* that the operator did not turn on, or lifts a ban.                      *)
(***************************************************************************)
StatusIsLastWord ==
    \A acc \in Account : \A p \in Permission :
        LET status == RowOrNew(acc)[p]
        IN  \/ status = word[acc][p]
            \/ status = Pending /\ word[acc][p] \notin {On, Banned}

(* The table keeps its shape: nine bytes a row, rows of accounts only. *)
AuditTypeOK == PermTypeOK /\ word \in [Account -> Row]

(***************************************************************************)
(* contracts/eosio.libre/README.md, on setperm2: the vector 010001 sets    *)
(* createacc and vote.  What the vector does not name is then not set.     *)
(***************************************************************************)
ShortVectorSetsWhatItNames ==
    \A acc \in Account : \A p \in Permission :
        RowOrNew(acc)[p] = On => word[acc][p] = On

=============================================================================
