----------------------------- MODULE MCAccounts -----------------------------
(* Accounts on a small instance: two people who take the same address for  *)
(* theirs, each with a password, or one who has forgotten the old one.     *)
EXTENDS Accounts

CONSTANTS e1, p1, p2

MCCredentials == {[email |-> e1, password |-> p1], [email |-> e1, password |-> p2]}
=============================================================================
