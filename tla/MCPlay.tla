------------------------------- MODULE MCPlay -------------------------------
(* One world with its owner and a guest, for TLC. *)
EXTENDS Play, TLC

(* Nothing tells the two apart but what they do. *)
Symmetric == Permutations(User)
=============================================================================
