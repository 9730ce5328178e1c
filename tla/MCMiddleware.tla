----------------------------- MODULE MCMiddleware -----------------------------
(* The modem's answers for TLC.                                            *)
EXTENDS Middleware

Mtch(sa, dest) == [readable |-> TRUE, sa |-> sa, dest |-> dest]
Unreadable == [readable |-> FALSE, sa |-> FALSE, dest |-> ""]

Absent == <<>>
Usual == <<Mtch(FALSE, "video"), Mtch(TRUE, "sa")>>

(* One service announcement, sometimes not announced, sometimes in a       *)
(* damaged answer.                                                         *)
OneDestination ==
  {Absent, Usual, <<Mtch(TRUE, "sa")>>, <<Mtch(FALSE, "video"), Mtch(TRUE, "")>>,
   <<Unreadable>>, <<Mtch(TRUE, "sa"), Unreadable>>}
================================================================================
