-------------------------- MODULE MCBrowserSession --------------------------
(* Instances of BrowserSession. *)
EXTENDS BrowserSession

CONSTANTS c1, a1

MCRoleOf == [x \in Accounts |-> IF x = a1 THEN "ADMIN" ELSE "CUSTOMER"]
=============================================================================
