----------------------------- MODULE AccountsMC -----------------------------
(* A small instance of Accounts: two users, one order, three requests.      *)
EXTENDS Accounts, TLC

\* Users and requests are interchangeable.
IdSymmetry == Permutations(Users) \cup Permutations(Requests)
=============================================================================
