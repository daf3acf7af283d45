------------------------------ MODULE MCSocket ------------------------------
(* Socket for model checking: packets are only copied, and processes differ *)
(* in nothing, so that permuting either changes no answer.                  *)
EXTENDS Socket, TLC

Symmetry == Permutations(Msg) \cup Permutations(Proc)
=============================================================================
