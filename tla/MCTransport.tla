---------------------------- MODULE MCTransport ----------------------------
(* Instances of Transport for TLC. *)
EXTENDS Transport, TLC

Interchangeable == Permutations(Sends) \cup Permutations(Clients) \cup Permutations(Endpoints)
=============================================================================
