---------------------------- MODULE MCMixi2Link ----------------------------
(***************************************************************************)
(* Mixi2Link with three notes: one with images, one that is filtered out,  *)
(* one of text.  Two requests fail and the process stops twice, anywhere.  *)
(***************************************************************************)
EXTENDS Mixi2Link

MCForwardable == {n \in 1 .. MaxNote : n % 3 # 2}
MCIllustrated == {n \in 1 .. MaxNote : n % 3 = 1}
=============================================================================
