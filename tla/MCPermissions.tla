--------------------------- MODULE MCPermissions ---------------------------
(***************************************************************************)
(* Small instances of PermissionAudit for TLC.                             *)
(***************************************************************************)
EXTENDS PermissionAudit, TLC

CONSTANTS a, b

(* One full vector with every status a caller may write. *)
FullVectors == {<<On, Banned, On, None, Off, Pending, None, None, On>>}

(* The vector of the README's example: createacc and vote, then nothing. *)
ShortVectors == {<<1, 0, 1>>}

Maps == {[regprod |-> On], [regprod |-> Banned, nonsense |-> On], [vote |-> Off]}

=============================================================================
