---------------------------- MODULE MCFlashSet ----------------------------
(* The model values of the run of FlashSet: a megabyte of 4 bytes, and     *)
(* sizes on both sides of each boundary.                                   *)
EXTENDS FlashSet, TLC

MCPayloads == {700, 1400, 1401}
MCPageSizes == {512, 700}
\* Just below the least image, and one that needs more.
MCContents == {1, 7900}
\* A block; what fits with the reserve into 2048 MB, a byte more, and much.
MCFsSizes == {4, 7936, 7937, 8192}
\* 3 MB, 64 MB, a byte more, 2112 MB and a byte less.
MCPartitions == {12, 256, 257, 8447, 8448}
MCLimits == {0, 2048}
MCAsked == {0, 3000}
Symmetry == Permutations(Names) \cup Permutations(Targets)
=============================================================================
