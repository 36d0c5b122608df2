---------------------------- MODULE MCFrameCodec ----------------------------
(***************************************************************************)
(* FrameCodec for TLC: a magic of two digits.                              *)
(***************************************************************************)
EXTENDS FrameCodec

ShortMagic == <<2, 1>>

=============================================================================
