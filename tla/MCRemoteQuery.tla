----------------------------- MODULE MCRemoteQuery -----------------------------
(* Instance of RemoteQuery for TLC: a table that clients create, read and      *)
(* drop, so that each statement succeeds or is refused by what others did.     *)
EXTENDS RemoteQuery

MCStmts == {Create("copy", "prices"), Select("copy"), DropTable("copy")}
================================================================================
