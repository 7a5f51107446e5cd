---------------------------- MODULE AbstractLock ----------------------------
(***************************************************************************)
(* What the staging lock of torch_checkpointing promises to its users: any *)
(* number of readers or one writer, and a writer that may turn its hold    *)
(* into a read hold without letting anybody in between.                    *)
(*                                                                         *)
(* A client is one claim on the lock.  The lock of lock.py knows no owner: *)
(* a hold taken by the thread that calls save() is released by a future's  *)
(* callback on another thread.  Who may end a hold is therefore a matter   *)
(* of the protocol, and the client here is the hold itself.                *)
(***************************************************************************)
EXTENDS FiniteSets

CONSTANT Clients

VARIABLE owner      \* owner[c]: what client c holds

Modes == {"read", "write"}

TypeOK == owner \in [Clients -> Modes \union {"free"}]

Init == owner = [c \in Clients |-> "free"]

Readers == {c \in Clients : owner[c] = "read"}
Writers == {c \in Clients : owner[c] = "write"}

(* A mode is available when no hold excludes it. *)
Available(m) ==
  /\ Writers = {}
  /\ m = "write" => Readers = {}

Acquire(c, m) ==
  /\ owner[c] = "free"
  /\ Available(m)
  /\ owner' = [owner EXCEPT ![c] = m]

Release(c) ==
  /\ owner[c] # "free"
  /\ owner' = [owner EXCEPT ![c] = "free"]

Downgrade(c) ==
  /\ owner[c] = "write"
  /\ owner' = [owner EXCEPT ![c] = "read"]

Next ==
  \E c \in Clients :
    \/ \E m \in Modes : Acquire(c, m)
    \/ Release(c)
    \/ Downgrade(c)

Spec == Init /\ [][Next]_owner

(* Two clients hold the lock together only if both read. *)
Exclusion ==
  \A c, d \in Clients :
    c # d /\ owner[c] = "write" => owner[d] = "free"
=============================================================================
