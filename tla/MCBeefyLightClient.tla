------------------------- MODULE MCBeefyLightClient -------------------------
(***************************************************************************)
(* Instances of BeefyLightClient for TLC.  The three sets of KeepsSome     *)
(* overlap and differ in size, so that a commitment started against one    *)
(* set can be completed against another; in SameSet the validators         *)
(* never change and in Rotating no validator serves twice in a row.        *)
(***************************************************************************)
EXTENDS BeefyLightClient, TLC

CONSTANTS v1, v2, v3, v4, MaxBlock

Keys == {v1, v2, v3, v4}
Blocks == {b \in (startingBeefyBlock + 1)..MaxBlock : b % NUMBER_OF_BLOCKS_PER_SESSION # 3}
Sessions == 0..(MaxBlock \div NUMBER_OF_BLOCKS_PER_SESSION + 1)

KeepsSome ==
    [s \in Sessions |->
        CASE s % 3 = 0 -> <<v1, v2>>
          [] s % 3 = 1 -> <<v1, v2, v3>>
          [] s % 3 = 2 -> <<v3, v2, v4>>]

Rotating ==
    [s \in Sessions |-> IF s % 2 = 0 THEN <<v1, v2>> ELSE <<v3, v4>>]

SameSet == [s \in Sessions |-> <<v1, v2, v3, v4>>]

\* The validators of the session sign, but for the second block of a session,
\* which v1 has not signed, and the third, which nobody but v2 has.
MostSign ==
    [b \in Blocks |->
        LET keys == Authorities[SessionOf(b)]
        IN  {keys[p] : p \in DOMAIN keys}
                \ (CASE b % NUMBER_OF_BLOCKS_PER_SESSION = 1 -> {v1}
                     [] b % NUMBER_OF_BLOCKS_PER_SESSION = 2 -> Keys \ {v2}
                     [] OTHER -> {})]

RelayersAlike == Permutations(Relayer)
=============================================================================
