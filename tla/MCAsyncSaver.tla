---------------------------- MODULE MCAsyncSaver ----------------------------
(***************************************************************************)
(* A model-checking instance of AsyncSaver: the tensors are alike.         *)
(***************************************************************************)
EXTENDS AsyncSaver, TLC

TensorSymmetry == Permutations(Parts)
=============================================================================
