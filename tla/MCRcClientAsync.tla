-------------------------- MODULE MCRcClientAsync --------------------------
(* Three calls, one more than there are slots; two games; a disc the server  *)
(* knows or not, and one that cannot be hashed.                              *)
EXTENDS RcClientAsync, TLC

MCFiles == ("disc" :> "d2") @@ ("audio" :> "NoHash")

Symmetry == Permutations(Requests)

=============================================================================
