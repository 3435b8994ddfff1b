----------------------------- MODULE MCSession -----------------------------
(* Instances of Session for TLC: interchangeable activations.              *)
EXTENDS Session, TLC

ActivationSymmetry == Permutations(Activations)
=============================================================================
