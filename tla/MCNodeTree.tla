------------------------------ MODULE MCNodeTree ------------------------------
(* Two containers that nest and a connection; names of two bases and one     *)
(* further character, so that names clash and begin each other.              *)
EXTENDS NodeTree

CONSTANTS outer, inner, cable, tap, echo

MCKind == (outer :> "container") @@ (inner :> "container") @@ (cable :> "connection")

Interchangeable ==
  {nodes @@ bases : nodes \in Permutations({outer, inner}), bases \in Permutations({tap, echo})}
=============================================================================
