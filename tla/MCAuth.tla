------------------------------- MODULE MCAuth -------------------------------
(* Auth on small instances. *)
EXTENDS Auth, TLC

(* Requests, session ids and usernames are each interchangeable. *)
Symm == Permutations(Req) \cup Permutations(Sid) \cup Permutations(Username)
=============================================================================
