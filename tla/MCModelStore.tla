----------------------------- MODULE MCModelStore -----------------------------
(* Instances of ModelStore for TLC.                                         *)
EXTENDS ModelStore, TLC

CONSTANTS p1, p2, weights, adapter

TwoLayers == {weights, adapter}

\* A model, and the same with an adapter.
SharedWeights == {{weights}, {weights, adapter}}

Twins == {h @@ n : h \in Permutations(Handlers), n \in Permutations(Names)}

=============================================================================
