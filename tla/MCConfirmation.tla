----------------------------- MODULE MCConfirmation -----------------------------
(* Confirmation on a small instance: two users, so that an index slip can  *)
(* reach the wrong one; three confirmations, so that one user can have one *)
(* displaced, one decided and one open; two replies, each of which may be  *)
(* delivered any number of times; a clock that outruns a deadline.         *)
EXTENDS Confirmation, TLC

Symmetry == Permutations(Users) \cup Permutations(Ids) \cup Permutations(Messages)
================================================================================
