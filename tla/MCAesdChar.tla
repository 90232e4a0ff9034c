----------------------------- MODULE MCAesdChar -----------------------------
(***************************************************************************)
(* TLC instances of AesdChar.                                              *)
(***************************************************************************)
EXTENDS AesdChar, TLC

CONSTANT LetterA

MCBytes == {LetterA, NL}
MCBufs == {<<>>, <<LetterA>>, <<NL>>}
MCSeekOffsets == {-1}
BlockSymmetry == Permutations(Blocks)
=============================================================================
