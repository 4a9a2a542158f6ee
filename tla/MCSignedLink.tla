---------------------------- MODULE MCSignedLink ----------------------------
(* Instances of SignedLink for TLC. *)
EXTENDS SignedLink, TLC

Senders == Permutations(Sends) \cup Permutations(Keys)
=============================================================================
