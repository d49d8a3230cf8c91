--------------------------- MODULE MCVisualMemory ---------------------------
(***************************************************************************)
(* Instances of VisualMemory for TLC: the hashes of two addresses share a    *)
(* bit.                                                                     *)
(***************************************************************************)
EXTENDS VisualMemory

CONSTANTS i1, i2, b1, b2, b3

ShareBit1 == [i \in {i1, i2} |-> IF i = i1 THEN b1 ELSE b2]
ShareBit2 == [i \in {i1, i2} |-> IF i = i1 THEN b2 ELSE b3]

=============================================================================
