----------------------- MODULE MCEthereumLightClient -----------------------
(***************************************************************************)
(* Instances of EthereumLightClient over a complete block tree.  A header  *)
(* is the sequence of labels on its path from the initial header, and its  *)
(* last label fixes its difficulty, so every shape of fork up to MaxHeight *)
(* blocks is there.                                                        *)
(***************************************************************************)
EXTENDS EthereumLightClient, SequencesExt

CONSTANTS
    LabelDifficulty,  \* LabelDifficulty[l]: difficulty of a block labelled l
    Misnumbered,      \* headers whose number is not their parent's plus one
    Unsealed,         \* headers that fail the gas, time, difficulty or seal checks
    MaxHeight,        \* longest branch
    MaxStored         \* headers in storage before a behaviour is cut

MCHash == BoundedSeq(DOMAIN LabelDifficulty, MaxHeight)
MCGenesis == <<>>
MCParentHash == [h \in MCHash \ {MCGenesis} |-> Front(h)]
MCHeight == [h \in MCHash |-> Len(h)]
MCNumber == [h \in MCHash |-> IF h \in Misnumbered THEN Len(h) + 1 ELSE Len(h)]
MCDifficulty == [h \in MCHash |-> IF h = <<>> THEN 0 ELSE LabelDifficulty[Last(h)]]
MCLineage == [h \in MCHash |-> [i \in 0..Len(h) |-> SubSeq(h, 1, Len(h) - i)]]
MCWeight == [h \in MCHash |->
               initial_difficulty
                 + FoldFunction(+, 0, [i \in DOMAIN h |-> LabelDifficulty[h[i]]])]
MCSealValid == MCHash \ Unsealed

\* Difficulties of labels 1, 2, ... in the instances.
Balanced == <<3, 4>>
Unbalanced == <<1, 3>>
Zero == <<0, 0>>

\* Invalid headers in the instances that verify proof of work.
SomeMisnumbered == {<<1, 2>>}
SomeUnsealed == {<<2, 2>>}

StorageBound == Cardinality(DOMAIN Headers) <= MaxStored
=============================================================================
