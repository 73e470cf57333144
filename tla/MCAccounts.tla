----------------------------- MODULE MCAccounts -----------------------------
(* A small instance of Accounts for TLC. *)
EXTENDS Accounts

CONSTANTS s1, s2, m1, m2, m3

\* The accounts still to be created would be given one address.
Addresses == [a \in Accounts |-> CASE a = s1 -> "root" [] a = m1 -> "owner" [] OTHER -> "new"]
=============================================================================
