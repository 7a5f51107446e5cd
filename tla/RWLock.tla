------------------------------- MODULE RWLock -------------------------------
(***************************************************************************)
(* The readers-writer lock of torch_checkpointing/lock.py: two fields      *)
(* guarded by a condition variable.  Every `with self._cond` block is one  *)
(* step; a blocked acquire leaves the block in Condition.wait() and takes  *)
(* part again only after a notify_all() or when its deadline has passed.   *)
(*                                                                         *)
(* A client is one claim on the lock (see AbstractLock).  phase[c] is      *)
(*   "out"      the client holds nothing and calls nothing,                *)
(*   "waiting"  its acquire sleeps in Condition.wait(),                    *)
(*   "woken"    it was notified and has not yet looked at the lock again,  *)
(*   "read", "write"  its acquire returned True.                           *)
(***************************************************************************)
EXTENDS Naturals, FiniteSets

CONSTANT Clients

ASSUME ClientsFinite == IsFiniteSet(Clients)

VARIABLES
  readers,         \* RWLock._readers
  writer_active,   \* RWLock._writer_active
  phase,           \* where each client is in its acquire ... release
  mode,            \* the mode of the client's last acquire
  deadline,        \* its deadline: "none" | "ahead" | "passed"
  ret              \* what its last call returned or raised

vars == <<readers, writer_active, phase, mode, deadline, ret>>

Modes == {"read", "write"}
Phases == {"out", "waiting", "woken", "read", "write"}
Outcomes == {"none", "True", "False", "RuntimeError"}

TypeOK ==
  /\ readers \in Nat
  /\ writer_active \in BOOLEAN
  /\ phase \in [Clients -> Phases]
  /\ mode \in [Clients -> Modes]
  /\ deadline \in [Clients -> {"none", "ahead", "passed"}]
  /\ ret \in [Clients -> Outcomes]

Init ==
  /\ readers = 0
  /\ writer_active = FALSE
  /\ phase = [c \in Clients |-> "out"]
  /\ mode = [c \in Clients |-> "read"]
  /\ deadline = [c \in Clients |-> "none"]
  /\ ret = [c \in Clients |-> "none"]
-----------------------------------------------------------------------------
(* Mutant: a writer does not look at the readers. *)
AvailableIgnoringReaders(m) == ~writer_active

Available(m) ==
  /\ ~writer_active
  /\ m = "write" => readers = 0

(* _grant_read and _grant_write *)
Grant(c, m) ==
  /\ readers' = IF m = "read" THEN readers + 1 ELSE readers
  /\ writer_active' = (m = "write")
  /\ phase' = [phase EXCEPT ![c] = m]
  /\ ret' = [ret EXCEPT ![c] = "True"]

(* Where the clients are after a notify_all(). *)
NotifyAll(p) ==
  [c \in Clients |-> IF p[c] = "waiting" THEN "woken" ELSE p[c]]

(* The first pass of _acquire when the mode is available. *)
AcquireNow(c, m) ==
  /\ phase[c] = "out"
  /\ Available(m)
  /\ Grant(c, m)
  /\ mode' = [mode EXCEPT ![c] = m]
  /\ deadline' = [deadline EXCEPT ![c] = "none"]

(* acquire(blocking=False) on a lock that is taken *)
AcquireCede(c, m) ==
  /\ phase[c] = "out"
  /\ ~Available(m)
  /\ ret' = [ret EXCEPT ![c] = "False"]
  /\ mode' = [mode EXCEPT ![c] = m]
  /\ deadline' = [deadline EXCEPT ![c] = "none"]
  /\ UNCHANGED <<readers, writer_active, phase>>

(* A blocking acquire on a lock that is taken: wait, with a deadline or    *)
(* without one (timeout = -1).                                             *)
AcquireWait(c, m, timed) ==
  /\ phase[c] = "out"
  /\ ~Available(m)
  /\ phase' = [phase EXCEPT ![c] = "waiting"]
  /\ mode' = [mode EXCEPT ![c] = m]
  /\ deadline' = [deadline EXCEPT ![c] = IF timed THEN "ahead" ELSE "none"]
  /\ ret' = [ret EXCEPT ![c] = "none"]
  /\ UNCHANGED <<readers, writer_active>>

(* The deadline passes: wait(remaining) returns if the client sleeps in it. *)
Expire(c) ==
  /\ phase[c] \in {"waiting", "woken"}
  /\ deadline[c] = "ahead"
  /\ deadline' = [deadline EXCEPT ![c] = "passed"]
  /\ phase' = [phase EXCEPT ![c] = "woken"]
  /\ UNCHANGED <<readers, writer_active, mode, ret>>

(* Mutant: the loop computes the deadline again after every wait(). *)
RecheckRearms(c) ==
  /\ phase[c] = "woken"
  /\ \/ /\ Available(mode[c])
        /\ Grant(c, mode[c])
        /\ UNCHANGED deadline
     \/ /\ ~Available(mode[c])
        /\ phase' = [phase EXCEPT ![c] = "waiting"]
        /\ deadline' = [deadline EXCEPT ![c] = IF @ = "none" THEN @ ELSE "ahead"]
        /\ UNCHANGED <<readers, writer_active, ret>>
  /\ UNCHANGED mode

(* The loop of _acquire after wait() returned: the lock first, then the    *)
(* deadline, then wait() again.                                            *)
Recheck(c) ==
  /\ phase[c] = "woken"
  /\ \/ /\ Available(mode[c])
        /\ Grant(c, mode[c])
     \/ /\ ~Available(mode[c])
        /\ deadline[c] = "passed"
        /\ phase' = [phase EXCEPT ![c] = "out"]
        /\ ret' = [ret EXCEPT ![c] = "False"]
        /\ UNCHANGED <<readers, writer_active>>
     \/ /\ ~Available(mode[c])
        /\ deadline[c] # "passed"
        /\ phase' = [phase EXCEPT ![c] = "waiting"]
        /\ UNCHANGED <<readers, writer_active, ret>>
  /\ UNCHANGED <<mode, deadline>>

(* _release_read: waiters are notified only by the last reader. *)
ReleaseRead(c) ==
  /\ phase[c] = "read"
  /\ readers > 0
  /\ readers' = readers - 1
  /\ LET left == [phase EXCEPT ![c] = "out"]
     IN  phase' = IF readers' = 0 THEN NotifyAll(left) ELSE left
  /\ UNCHANGED <<writer_active, mode, deadline, ret>>

(* Mutant: release without notify_all(). *)
ReleaseWriteSilently(c) ==
  /\ phase[c] = "write"
  /\ writer_active
  /\ writer_active' = FALSE
  /\ phase' = [phase EXCEPT ![c] = "out"]
  /\ UNCHANGED <<readers, mode, deadline, ret>>

ReleaseWrite(c) ==
  /\ phase[c] = "write"
  /\ writer_active
  /\ writer_active' = FALSE
  /\ phase' = NotifyAll([phase EXCEPT ![c] = "out"])
  /\ UNCHANGED <<readers, mode, deadline, ret>>

(* Mutants: a downgrade that does not count the reader, or wakes nobody. *)
DowngradeUncounted(c) ==
  /\ phase[c] = "write"
  /\ writer_active
  /\ writer_active' = FALSE
  /\ phase' = NotifyAll([phase EXCEPT ![c] = "read"])
  /\ UNCHANGED <<readers, mode, deadline, ret>>

DowngradeSilently(c) ==
  /\ phase[c] = "write"
  /\ writer_active
  /\ writer_active' = FALSE
  /\ readers' = readers + 1
  /\ phase' = [phase EXCEPT ![c] = "read"]
  /\ UNCHANGED <<mode, deadline, ret>>

Downgrade(c) ==
  /\ phase[c] = "write"
  /\ writer_active
  /\ writer_active' = FALSE
  /\ readers' = readers + 1
  /\ phase' = NotifyAll([phase EXCEPT ![c] = "read"])
  /\ UNCHANGED <<mode, deadline, ret>>

(* Mutant: release() does not check that the lock is held. *)
ReleaseUnchecked(c, m) ==
  /\ phase[c] = "out"
  /\ readers' = IF m = "read" THEN readers - 1 ELSE readers
  /\ writer_active' = (m = "read" /\ writer_active)
  /\ phase' = NotifyAll(phase)
  /\ UNCHANGED <<mode, deadline, ret>>

(* read.release() on a lock nobody reads, or write.release() or            *)
(* downgrade() on a lock nobody writes, raises.                            *)
ReleaseUnheld(c, m) ==
  /\ phase[c] = "out"
  /\ IF m = "read" THEN readers = 0 ELSE ~writer_active
  /\ ret' = [ret EXCEPT ![c] = "RuntimeError"]
  /\ UNCHANGED <<readers, writer_active, phase, mode, deadline>>

Step(c) ==
  \/ \E m \in Modes : AcquireNow(c, m) \/ AcquireCede(c, m) \/ ReleaseUnheld(c, m)
  \/ \E m \in Modes, timed \in BOOLEAN : AcquireWait(c, m, timed)
  \/ Expire(c)
  \/ Recheck(c)
  \/ ReleaseRead(c)
  \/ ReleaseWrite(c)
  \/ Downgrade(c)

Next == \E c \in Clients : Step(c)

Spec == Init /\ [][Next]_vars

(* Threads that can run do run, deadlines pass, and a hold ends: both uses *)
(* in the package (save() and Checkpointer.lock()) release what they take. *)
Fairness ==
  \A c \in Clients :
    /\ WF_vars(Expire(c))
    /\ WF_vars(Recheck(c))
    /\ WF_vars(ReleaseRead(c) \/ ReleaseWrite(c))

FairSpec == Spec /\ Fairness
-----------------------------------------------------------------------------
Holding(m) == {c \in Clients : phase[c] = m}

(* The two fields count the holds: _readers the read holds, and            *)
(* _writer_active tells whether there is a write hold.                     *)
FieldsCountHolds ==
  /\ readers = Cardinality(Holding("read"))
  /\ writer_active = (Holding("write") # {})

(* lock.py, class docstring: any number of readers or one writer.  A       *)
(* client that holds for write is alone, whatever sequence of acquires,    *)
(* timeouts, releases and downgrades led there.                            *)
Exclusion ==
  \A c, d \in Clients :
    c # d /\ phase[c] = "write" => phase[d] \notin Modes

(* No lost wake-up: a client sleeps in Condition.wait() only while its     *)
(* mode is taken, so _release_read may skip notify_all() when readers      *)
(* remain, and downgrade() must not.  The readers-preference promise is    *)
(* the case of a waiting reader: it waits for an active writer, never for  *)
(* a waiting one.                                                          *)
NoLostWakeup ==
  \A c \in Clients : phase[c] = "waiting" => ~Available(mode[c])

(* A sleeping reader is always woken, by the writer's release or downgrade. *)
ReaderIsWoken ==
  \A c \in Clients :
    (phase[c] = "waiting" /\ mode[c] = "read") ~> phase[c] # "waiting"

(* acquire_or_raise() fails loudly rather than hang: a blocking acquire    *)
(* with a timeout returns, even a writer's under a stream of readers.      *)
TimedAcquireReturns ==
  \A c \in Clients :
    (phase[c] \in {"waiting", "woken"} /\ deadline[c] # "none")
       ~> phase[c] \notin {"waiting", "woken"}

(* lock.py implements AbstractLock: the waiting and the counting are       *)
(* invisible, and each step is an Acquire, a Release, a Downgrade of the   *)
(* promise or no step of it.                                               *)
Owner == [c \in Clients |-> IF phase[c] \in Modes THEN phase[c] ELSE "free"]

Promise == INSTANCE AbstractLock WITH owner <- Owner

ImplementsAbstractLock == Promise!Spec
=============================================================================
