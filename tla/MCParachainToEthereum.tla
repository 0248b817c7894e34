----------------------- MODULE MCParachainToEthereum -----------------------
(***************************************************************************)
(* Instances of ParachainToEthereum for TLC.                               *)
(***************************************************************************)
EXTENDS ParachainToEthereum, TLC

Alike == Permutations(Relay) \cup Permutations(Payload) \cup Permutations(Channel)
=============================================================================
