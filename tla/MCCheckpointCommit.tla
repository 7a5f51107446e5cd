------------------------- MODULE MCCheckpointCommit -------------------------
(* Model-checking instances of CheckpointCommit. *)
EXTENDS CheckpointCommit

(* the same ranks in every run *)
SameWorld == [e \in 1 .. MaxEpochs |-> N]

(* a job that loses a rank at its restart *)
ShrinkingWorld == [e \in 1 .. MaxEpochs |-> IF e = 1 THEN N ELSE N - 1]

(* every rank has keys to write, and there is metadata *)
AllFiles == {Files}

(* as above, or no keys on rank 0, without metadata and with it; only on   *)
(* the rank that the shrinking job loses; or nothing to save at all        *)
ManyFiles == {Files, Files \ {0}, Ranks \ {0}, {N - 1}, {}}

(* rank 0 has keys and metadata, only metadata, only keys, or neither *)
IndexFileSets == {Files, Files \ {0}, Ranks, Ranks \ {0}}
=============================================================================
