----------------------------- MODULE MCSessions -----------------------------
(* Sessions for TLC.  An administrator has a token, and the account that is     *)
(* created may get another.  Behaviours in which accounts get another role and  *)
(* another state are about their rows: one token serves all requests, and two   *)
(* updates of one account may be under way.                                     *)
EXTENDS Sessions

UpdatesRows(s) == {"promote", "deactivate"} \subseteq s
Tokens == [s \in Scopes |-> IF UpdatesRows(s) THEN 1 ELSE IF "create" \in s THEN 2 ELSE 3]
Raises == [s \in Scopes |-> IF UpdatesRows(s) THEN 2 ELSE 1]
=============================================================================
