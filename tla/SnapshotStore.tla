--------------------------- MODULE SnapshotStore ----------------------------
(***************************************************************************)
(* What an asynchronous save promises a trainer: the checkpoint of a save  *)
(* is the training state and the sharding metadata of the moment save()    *)
(* was called, however the trainer goes on; it becomes durable once, or it *)
(* is lost and the trainer is told.                                        *)
(***************************************************************************)
CONSTANTS
  Parts,       \* the tensors of the training state
  Versions,    \* the values a tensor takes
  Metas,       \* the values of the distributed metadata
  Saves        \* the calls of save()

VARIABLES live, liveMeta, ckpt

vars == <<live, liveMeta, ckpt>>

NoCkpt == [state |-> "none"]

Content == [data : [Parts -> Versions], meta : Metas]

Init ==
  /\ live \in [Parts -> Versions]
  /\ liveMeta \in Metas
  /\ ckpt = [s \in Saves |-> NoCkpt]

(* The trainer updates a tensor, or the structure of its state changes. *)
Update ==
  /\ \/ /\ \E p \in Parts, v \in Versions : live' = [live EXCEPT ![p] = v]
        /\ UNCHANGED liveMeta
     \/ liveMeta' \in Metas /\ UNCHANGED live
  /\ UNCHANGED ckpt

Captured(state, content) == [state |-> state, content |-> content]

Save(s) ==
  /\ ckpt[s] = NoCkpt
  /\ ckpt' = [ckpt EXCEPT ![s] =
                Captured("pending", [data |-> live, meta |-> liveMeta])]
  /\ UNCHANGED <<live, liveMeta>>

(* The write ends: what becomes durable is what was captured. *)
Finish(s) ==
  /\ ckpt[s].state = "pending"
  /\ \/ ckpt' = [ckpt EXCEPT ![s] = Captured("durable", ckpt[s].content)]
     \/ ckpt' = [ckpt EXCEPT ![s] = [state |-> "lost"]]
  /\ UNCHANGED <<live, liveMeta>>

Next == Update \/ \E s \in Saves : Save(s) \/ Finish(s)

Spec == Init /\ [][Next]_vars
=============================================================================
