------------------------- MODULE MCMetadataManager -------------------------
(* A model-checking instance of MetadataManager with three ranks.          *)
EXTENDS MetadataManager, TLC

CONSTANTS a, b, f0, f1, f2

(* a tensor over the mesh of ranks 0 and 1, one over ranks 1 and 2, and a  *)
(* local one, in two shapes                                                *)
mesh01 == [id |-> 1, equiv |-> {0, 1}]
mesh12 == [id |-> 2, equiv |-> {1, 2}]
own    == [id |-> 3, equiv |-> {}]
other  == [id |-> 4, equiv |-> {}]

MCShards == {mesh01, mesh12, own, other}

Held(x, y, z) == (0 :> x) @@ (1 :> y) @@ (2 :> z)
At(x, y) == (a :> x) @@ (b :> y)

base == [local |-> Held(At(mesh01, own), At(mesh01, mesh12), At(None, mesh12)),
         layout |-> Held(f0, None, f2)]

(* rank 2 alone holds something else and writes another file; rank 2 alone *)
(* is told to write the file of rank 0                                     *)
reshaped == [base EXCEPT !.local[2] = At(other, mesh12), !.layout[2] = f1]
clash    == [base EXCEPT !.layout[2] = f0]

MCConfigs == {base, reshaped, clash}
=============================================================================
