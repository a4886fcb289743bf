-------------------------- MODULE MCClientRegistry --------------------------
(* ClientRegistry for TLC: clients are interchangeable.                     *)
EXTENDS ClientRegistry, TLC

CONSTANTS c1, c2

MCClient == {c1, c2}

Symmetry == Permutations(MCClient)
=============================================================================
