---------------------------- MODULE RWLockProofs ----------------------------
(***************************************************************************)
(* Theorems about RWLock, for every finite set of clients.                 *)
(*                                                                         *)
(* The argument: the two fields of the lock count the holds                *)
(* (FieldsCountHolds), so the conditions the code tests on the fields are  *)
(* conditions on the holds, and these give Exclusion.  NoLostWakeup needs  *)
(* both: that the reader who does not notify is not the last one is known  *)
(* only from the field.                                                    *)
(***************************************************************************)
EXTENDS RWLock, FiniteSetTheorems, TLAPS

IInv == TypeOK /\ FieldsCountHolds /\ Exclusion /\ NoLostWakeup

(* Granting a read to a client that holds nothing adds one read hold. *)
LEMMA OneMoreReader ==
  ASSUME TypeOK, TypeOK', FieldsCountHolds, NEW c \in Clients,
         phase[c] # "read", readers' = readers + 1,
         Holding("read")' = Holding("read") \union {c}
  PROVE  readers' = Cardinality(Holding("read")')
<1>1. IsFiniteSet(Holding("read"))
  BY ClientsFinite, FS_Subset DEF Holding
<1>2. c \notin Holding("read")
  BY DEF Holding
<1>3. Cardinality(Holding("read") \union {c}) = Cardinality(Holding("read")) + 1
  BY <1>1, <1>2, FS_AddElement
<1>4. QED
  BY <1>3 DEF FieldsCountHolds

(* Ending a read hold removes one. *)
LEMMA OneLessReader ==
  ASSUME TypeOK, TypeOK', FieldsCountHolds, NEW c \in Clients,
         phase[c] = "read", readers' = readers - 1,
         Holding("read")' = Holding("read") \ {c}
  PROVE  readers' = Cardinality(Holding("read")')
<1>1. IsFiniteSet(Holding("read"))
  BY ClientsFinite, FS_Subset DEF Holding
<1>2. c \in Holding("read")
  BY DEF Holding
<1>3. Cardinality(Holding("read") \ {c}) = Cardinality(Holding("read")) - 1
  BY <1>1, <1>2, FS_RemoveElement
<1>4. QED
  BY <1>3 DEF FieldsCountHolds

(* No client reads exactly when the counter is 0. *)
LEMMA ZeroReaders ==
  ASSUME FieldsCountHolds
  PROVE  readers = 0 <=> Holding("read") = {}
<1>1. IsFiniteSet(Holding("read"))
  BY ClientsFinite, FS_Subset DEF Holding
<1>2. QED
  BY <1>1, FS_EmptySet DEF FieldsCountHolds

(* notify_all() only moves sleepers to "woken". *)
LEMMA NotifyType ==
  ASSUME NEW p \in [Clients -> Phases]
  PROVE  NotifyAll(p) \in [Clients -> Phases]
BY DEF NotifyAll, Phases

LEMMA InitIInv == Init => IInv
<1> SUFFICES ASSUME Init PROVE IInv
  OBVIOUS
<1>1. TypeOK
  BY DEF Init, TypeOK, Phases, Modes, Outcomes
<1>2. Holding("read") = {} /\ Holding("write") = {}
  BY DEF Init, Holding
<1>3. FieldsCountHolds
  BY <1>2, FS_EmptySet DEF Init, FieldsCountHolds
<1>4. Exclusion /\ NoLostWakeup
  BY DEF Init, Exclusion, NoLostWakeup
<1>5. QED
  BY <1>1, <1>3, <1>4 DEF IInv

(* The types do not depend on the rest of the invariant. *)
LEMMA TypeStep == TypeOK /\ [Next]_vars => TypeOK'
<1> SUFFICES ASSUME TypeOK, [Next]_vars PROVE TypeOK'
  OBVIOUS
<1> USE DEF TypeOK, Phases, Modes, Outcomes
<1>1. ASSUME NEW c \in Clients, NEW m \in Modes, AcquireNow(c, m)
      PROVE  TypeOK'
  BY <1>1 DEF AcquireNow, Grant
<1>2. ASSUME NEW c \in Clients, NEW m \in Modes, AcquireCede(c, m)
      PROVE  TypeOK'
  BY <1>2 DEF AcquireCede
<1>3. ASSUME NEW c \in Clients, NEW m \in Modes, NEW timed \in BOOLEAN,
             AcquireWait(c, m, timed)
      PROVE  TypeOK'
  BY <1>3 DEF AcquireWait
<1>4. ASSUME NEW c \in Clients, Expire(c) PROVE TypeOK'
  BY <1>4 DEF Expire
<1>5. ASSUME NEW c \in Clients, Recheck(c) PROVE TypeOK'
  <2>1. CASE Grant(c, mode[c])
    <3>1. mode[c] \in Modes
      OBVIOUS
    <3>2. QED
      BY <1>5, <2>1, <3>1 DEF Recheck, Grant
  <2>2. CASE ~Grant(c, mode[c])
    BY <1>5, <2>2 DEF Recheck
  <2>3. QED
    BY <2>1, <2>2
<1>6. ASSUME NEW c \in Clients, ReleaseRead(c) PROVE TypeOK'
  <2>1. [phase EXCEPT ![c] = "out"] \in [Clients -> Phases]
    OBVIOUS
  <2>2. NotifyAll([phase EXCEPT ![c] = "out"]) \in [Clients -> Phases]
    BY <2>1, NotifyType
  <2>3. QED
    <3>1. readers' \in Nat
      BY <1>6 DEF ReleaseRead
    <3>2. phase' \in [Clients -> Phases]
      BY <1>6, <2>1, <2>2 DEF ReleaseRead
    <3>3. QED
      BY <1>6, <3>1, <3>2 DEF ReleaseRead
<1>7. ASSUME NEW c \in Clients, ReleaseWrite(c) PROVE TypeOK'
  <2>1. [phase EXCEPT ![c] = "out"] \in [Clients -> Phases]
    OBVIOUS
  <2>2. NotifyAll([phase EXCEPT ![c] = "out"]) \in [Clients -> Phases]
    BY <2>1, NotifyType
  <2>3. QED
    BY <1>7, <2>2 DEF ReleaseWrite
<1>8. ASSUME NEW c \in Clients, Downgrade(c) PROVE TypeOK'
  <2>1. [phase EXCEPT ![c] = "read"] \in [Clients -> Phases]
    OBVIOUS
  <2>2. NotifyAll([phase EXCEPT ![c] = "read"]) \in [Clients -> Phases]
    BY <2>1, NotifyType
  <2>3. QED
    <3>1. readers' \in Nat
      BY <1>8 DEF Downgrade
    <3>2. phase' \in [Clients -> Phases]
      BY <1>8, <2>2 DEF Downgrade
    <3>3. QED
      BY <1>8, <3>1, <3>2 DEF Downgrade
<1>9. ASSUME NEW c \in Clients, NEW m \in Modes, ReleaseUnheld(c, m)
      PROVE  TypeOK'
  BY <1>9 DEF ReleaseUnheld
<1>10. CASE UNCHANGED vars
  BY <1>10 DEF vars
<1>11. QED
  BY <1>1, <1>2, <1>3, <1>4, <1>5, <1>6, <1>7, <1>8, <1>9, <1>10
     DEF Next, Step
-----------------------------------------------------------------------------
(* How a step changes the sets of holders. *)

(* notify_all() and a client that leaves or waits do not hold anything new. *)
LEMMA NotifyKeepsHolds ==
  ASSUME NEW p \in [Clients -> Phases], NEW d \in Clients, NEW m \in Modes
  PROVE  NotifyAll(p)[d] = m <=> p[d] = m
BY DEF NotifyAll, Phases, Modes

(* A grant keeps the invariant: Available() on the fields says what it     *)
(* should about the holds.                                                 *)
LEMMA GrantKeeps ==
  ASSUME IInv, TypeOK', NEW c \in Clients, NEW m \in Modes,
         phase[c] \in {"out", "woken"}, Available(m), Grant(c, m),
         \A d \in Clients : d # c => mode'[d] = mode[d]
  PROVE  FieldsCountHolds' /\ Exclusion' /\ NoLostWakeup'
<1> USE DEF IInv
<1>1. ~writer_active /\ Holding("write") = {}
  BY DEF Available, FieldsCountHolds
<1>2. \A d \in Clients : phase'[d] = IF d = c THEN m ELSE phase[d]
  BY DEF Grant, TypeOK
<1>3. \A d \in Clients : phase[d] # "write"
  BY <1>1 DEF Holding
<1>4. CASE m = "read"
  <2>1. readers' = readers + 1
    BY <1>4 DEF Grant
  <2>2. Holding("read")' = Holding("read") \union {c}
    BY <1>2, <1>4 DEF Holding
  <2>3. readers' = Cardinality(Holding("read")')
    BY <2>1, <2>2, OneMoreReader
  <2>4. Holding("write")' = {}
    BY <1>2, <1>3, <1>4 DEF Holding
  <2>5. ~writer_active'
    BY <1>4 DEF Grant
  <2>6. FieldsCountHolds'
    BY <2>3, <2>4, <2>5, Zenon DEF FieldsCountHolds, TypeOK
  <2>7. Exclusion'
    BY <1>2, <1>3, <1>4 DEF Exclusion
  <2>8. ASSUME NEW d \in Clients, phase'[d] = "waiting" PROVE ~Available(mode[d])'
    <3>1. phase[d] = "waiting" /\ mode'[d] = mode[d]
      BY <1>2, <1>4, <2>8
    <3>2. ~Available(mode[d])
      BY <3>1 DEF NoLostWakeup
    <3>3. mode[d] = "write"
      BY <3>2, <1>1 DEF Available
    <3>4. readers' # 0
      BY <2>1 DEF TypeOK
    <3>5. QED
      BY <3>1, <3>3, <3>4 DEF Available
  <2>9. QED
    BY <2>6, <2>7, <2>8 DEF NoLostWakeup
<1>5. CASE m = "write"
  <2>1. readers = 0 /\ readers' = readers /\ writer_active'
    BY <1>5 DEF Available, Grant
  <2>2. Holding("read") = {}
    BY <2>1, ZeroReaders
  <2>3. Holding("read")' = {}
    BY <1>2, <1>5, <2>2 DEF Holding
  <2>4. c \in Holding("write")'
    BY <1>2, <1>5 DEF Holding
  <2>5. readers' = Cardinality(Holding("read")')
    BY <2>1, <2>3, FS_EmptySet
  <2>6. FieldsCountHolds'
    BY <2>1, <2>4, <2>5, Zenon DEF FieldsCountHolds, TypeOK
  <2>7. Exclusion'
    BY <1>2, <1>3, <1>5, <2>2 DEF Exclusion, Holding, Modes
  <2>8. NoLostWakeup'
    BY <2>1 DEF NoLostWakeup, Available
  <2>9. QED
    BY <2>6, <2>7, <2>8
<1>6. QED
  BY <1>4, <1>5 DEF Modes

(* A step that moves no client into or out of a hold, leaves the fields    *)
(* and lets a client sleep only on a taken lock keeps the invariant.       *)
LEMMA WaitingKeeps ==
  ASSUME IInv, TypeOK', UNCHANGED <<readers, writer_active>>,
         NEW c \in Clients,
         phase[c] \notin Modes, phase'[c] \notin Modes,
         phase'[c] = "waiting" => ~Available(mode'[c]),
         \A d \in Clients : d # c => phase'[d] = phase[d] /\ mode'[d] = mode[d]
  PROVE  FieldsCountHolds' /\ Exclusion' /\ NoLostWakeup'
<1> USE DEF IInv
<1>1. \A m \in Modes : Holding(m)' = Holding(m)
  BY DEF Holding, Modes
<1>2. FieldsCountHolds'
  BY <1>1 DEF FieldsCountHolds, Modes
<1>3. Exclusion'
  BY DEF Exclusion, Modes
<1>4. NoLostWakeup'
  <2>1. \A m \in Modes : Available(m)' <=> Available(m)
    BY DEF Available
  <2>2. QED
    BY <2>1 DEF NoLostWakeup, TypeOK, Available
<1>5. QED
  BY <1>2, <1>3, <1>4

(* After a release or a downgrade nobody writes; if anybody still sleeps,  *)
(* it is a writer and readers are left.                                    *)
LEMMA ReleaseKeeps ==
  ASSUME IInv, TypeOK', NEW c \in Clients, phase[c] \in Modes,
         phase'[c] \in {"out", "read"}, ~writer_active', mode' = mode,
         \A d \in Clients : d # c =>
           \A m \in Modes : phase'[d] = m <=> phase[d] = m,
         readers' = Cardinality(Holding("read")'),
         \A d \in Clients : phase'[d] = "waiting" =>
           phase[c] = "read" /\ readers' > 0 /\ phase[d] = "waiting"
  PROVE  FieldsCountHolds' /\ Exclusion' /\ NoLostWakeup'
<1> USE DEF IInv
<1>1. \A d \in Clients : d # c => phase[d] # "write"
  BY DEF Exclusion, Modes
<1>2. \A d \in Clients : phase'[d] # "write"
  BY <1>1 DEF Modes
<1>3. Holding("write")' = {}
  BY <1>2 DEF Holding
<1>4. FieldsCountHolds'
  BY <1>3, Zenon DEF FieldsCountHolds, TypeOK
<1>5. Exclusion'
  BY <1>2 DEF Exclusion
<1>6. ASSUME NEW d \in Clients, phase'[d] = "waiting" PROVE ~Available(mode[d])'
  <2>1. phase[c] = "read" /\ readers' > 0 /\ phase[d] = "waiting"
    BY <1>6
  <2>2. ~Available(mode[d])
    BY <2>1 DEF NoLostWakeup
  <2>3. Holding("write") = {}
    BY <1>1, <2>1 DEF Holding
  <2>4. ~writer_active
    BY <2>3 DEF FieldsCountHolds
  <2>5. mode[d] = "write" /\ readers' # 0
    BY <2>1, <2>2, <2>4 DEF Available
  <2>6. QED
    BY <2>5 DEF Available
<1>7. QED
  BY <1>4, <1>5, <1>6 DEF NoLostWakeup
-----------------------------------------------------------------------------
LEMMA StepIInv == IInv /\ [Next]_vars => IInv'
<1> SUFFICES ASSUME IInv, [Next]_vars PROVE IInv'
  OBVIOUS
<1>1. TypeOK /\ TypeOK'
  BY TypeStep DEF IInv
<1> DEFINE Rest == FieldsCountHolds /\ Exclusion /\ NoLostWakeup
<1>2. ASSUME NEW c \in Clients, NEW m \in Modes, AcquireNow(c, m)
      PROVE  Rest'
  <2>1. \A d \in Clients : d # c => mode'[d] = mode[d]
    BY <1>2 DEF AcquireNow
  <2>2. QED
    BY <1>1, <1>2, <2>1, GrantKeeps DEF AcquireNow
<1>3. ASSUME NEW c \in Clients, NEW m \in Modes,
             AcquireCede(c, m) \/ ReleaseUnheld(c, m)
      PROVE  Rest'
  <2>1. /\ UNCHANGED <<readers, writer_active, phase>>
        /\ phase[c] = "out"
        /\ \A d \in Clients : d # c => mode'[d] = mode[d]
    <3>1. CASE AcquireCede(c, m)
      BY <3>1 DEF AcquireCede
    <3>2. CASE ReleaseUnheld(c, m)
      BY <3>2 DEF ReleaseUnheld
    <3>3. QED
      BY <1>3, <3>1, <3>2
  <2>2. QED
    BY <1>1, <2>1, WaitingKeeps DEF Modes
<1>4. ASSUME NEW c \in Clients, NEW m \in Modes, NEW timed \in BOOLEAN,
             AcquireWait(c, m, timed)
      PROVE  Rest'
  <2>1. /\ UNCHANGED <<readers, writer_active>>
        /\ phase[c] = "out" /\ phase'[c] = "waiting"
        /\ mode'[c] = m /\ ~Available(m)
        /\ \A d \in Clients : d # c => phase'[d] = phase[d] /\ mode'[d] = mode[d]
    BY <1>1, <1>4 DEF AcquireWait, TypeOK
  <2>2. QED
    BY <1>1, <2>1, WaitingKeeps DEF Modes
<1>5. ASSUME NEW c \in Clients, Expire(c) PROVE Rest'
  <2>1. /\ UNCHANGED <<readers, writer_active, mode>>
        /\ phase[c] \in {"waiting", "woken"} /\ phase'[c] = "woken"
        /\ \A d \in Clients : d # c => phase'[d] = phase[d]
    BY <1>1, <1>5 DEF Expire, TypeOK
  <2>2. QED
    BY <1>1, <2>1, WaitingKeeps DEF Modes
<1>6. ASSUME NEW c \in Clients, Recheck(c) PROVE Rest'
  <2>1. mode[c] \in Modes /\ mode' = mode /\ phase[c] = "woken"
    BY <1>1, <1>6 DEF Recheck, TypeOK
  <2>2. CASE Available(mode[c]) /\ Grant(c, mode[c])
    BY <1>1, <2>1, <2>2, GrantKeeps
  <2>3. CASE ~(Available(mode[c]) /\ Grant(c, mode[c]))
    <3>1. /\ UNCHANGED <<readers, writer_active>>
          /\ phase'[c] \in {"out", "waiting"}
          /\ ~Available(mode[c])
          /\ \A d \in Clients : d # c => phase'[d] = phase[d]
      BY <1>1, <1>6, <2>3 DEF Recheck, TypeOK
    <3>2. QED
      BY <1>1, <2>1, <3>1, WaitingKeeps DEF Modes
  <2>4. QED
    BY <2>2, <2>3
<1>7. ASSUME NEW c \in Clients, ReleaseRead(c) PROVE Rest'
  <2> DEFINE left == [phase EXCEPT ![c] = "out"]
  <2>1. /\ left \in [Clients -> Phases]
        /\ left[c] = "out"
        /\ \A d \in Clients : d # c => left[d] = phase[d]
    BY <1>1 DEF TypeOK, Phases
  <2>2. /\ phase[c] = "read" /\ mode' = mode
        /\ readers' = readers - 1 /\ writer_active' = writer_active
        /\ phase' = IF readers' = 0 THEN NotifyAll(left) ELSE left
    BY <1>7 DEF ReleaseRead
  <2>3. \A d \in Clients, m \in Modes : phase'[d] = m <=> left[d] = m
    BY <2>1, <2>2, NotifyKeepsHolds
  <2>4. phase'[c] = "out"
    BY <2>1, <2>2 DEF NotifyAll
  <2>5. Holding("read")' = Holding("read") \ {c}
    BY <2>1, <2>3, <2>2 DEF Holding, Modes
  <2>6. readers' = Cardinality(Holding("read")')
    BY <1>1, <2>2, <2>5, OneLessReader DEF IInv
  <2>7. Holding("write") = {}
    BY <2>2 DEF IInv, Exclusion, Holding, Modes
  <2>8. ~writer_active'
    BY <2>2, <2>7 DEF IInv, FieldsCountHolds
  <2>9. ASSUME NEW d \in Clients, phase'[d] = "waiting"
        PROVE  readers' > 0 /\ phase[d] = "waiting"
    <3>1. CASE readers' = 0
      BY <2>2, <2>9, <3>1 DEF NotifyAll
    <3>2. CASE readers' # 0
      BY <1>1, <2>1, <2>2, <2>9, <3>2 DEF TypeOK
    <3>3. QED
      BY <3>1, <3>2
  <2>10. QED
    <3>1. \A d \in Clients : d # c => \A m \in Modes : phase'[d] = m <=> phase[d] = m
      BY <2>1, <2>3
    <3>2. phase[c] \in Modes /\ phase'[c] \in {"out", "read"}
      BY <2>2, <2>4 DEF Modes
    <3>3. QED
      BY <1>1, <2>2, <2>6, <2>8, <2>9, <3>1, <3>2, ReleaseKeeps
<1>8. ASSUME NEW c \in Clients, ReleaseWrite(c) PROVE Rest'
  <2> DEFINE left == [phase EXCEPT ![c] = "out"]
  <2>1. /\ left \in [Clients -> Phases]
        /\ left[c] = "out"
        /\ \A d \in Clients : d # c => left[d] = phase[d]
    BY <1>1 DEF TypeOK, Phases
  <2>2. /\ phase[c] = "write" /\ mode' = mode
        /\ readers' = readers /\ ~writer_active'
        /\ phase' = NotifyAll(left)
    BY <1>8 DEF ReleaseWrite
  <2>3. \A d \in Clients, m \in Modes : phase'[d] = m <=> left[d] = m
    BY <2>1, <2>2, NotifyKeepsHolds
  <2>4. phase'[c] = "out" /\ \A d \in Clients : phase'[d] # "waiting"
    BY <2>1, <2>2 DEF NotifyAll
  <2>5. Holding("read")' = Holding("read")
    BY <2>1, <2>2, <2>3 DEF Holding, Modes
  <2>6. readers' = Cardinality(Holding("read")')
    BY <2>2, <2>5 DEF IInv, FieldsCountHolds
  <2>7. QED
    BY <1>1, <2>1, <2>2, <2>3, <2>4, <2>6, ReleaseKeeps DEF Modes
<1>9. ASSUME NEW c \in Clients, Downgrade(c) PROVE Rest'
  <2> DEFINE left == [phase EXCEPT ![c] = "read"]
  <2>1. /\ left \in [Clients -> Phases]
        /\ left[c] = "read"
        /\ \A d \in Clients : d # c => left[d] = phase[d]
    BY <1>1 DEF TypeOK, Phases
  <2>2. /\ phase[c] = "write" /\ mode' = mode
        /\ readers' = readers + 1 /\ ~writer_active'
        /\ phase' = NotifyAll(left)
    BY <1>9 DEF Downgrade
  <2>3. \A d \in Clients, m \in Modes : phase'[d] = m <=> left[d] = m
    BY <2>1, <2>2, NotifyKeepsHolds
  <2>4. phase'[c] = "read" /\ \A d \in Clients : phase'[d] # "waiting"
    BY <2>1, <2>2 DEF NotifyAll
  <2>5. Holding("read")' = Holding("read") \union {c}
    BY <2>1, <2>2, <2>3 DEF Holding, Modes
  <2>6. readers' = Cardinality(Holding("read")')
    BY <1>1, <2>2, <2>5, OneMoreReader DEF IInv
  <2>7. QED
    BY <1>1, <2>1, <2>2, <2>3, <2>4, <2>6, ReleaseKeeps DEF Modes
<1>10. ASSUME UNCHANGED vars PROVE Rest'
  <2>1. Rest
    BY DEF IInv
  <2>2. Holding("read")' = Holding("read") /\ Holding("write")' = Holding("write")
    BY <1>10 DEF vars, Holding
  <2>3. FieldsCountHolds'
    BY <1>10, <2>1, <2>2 DEF vars, FieldsCountHolds
  <2>4. Exclusion' /\ NoLostWakeup'
    BY <1>10, <2>1 DEF vars, Exclusion, NoLostWakeup, Available
  <2>5. QED
    BY <2>3, <2>4
<1>11. Rest'
  <2> HIDE DEF Rest
  <2>1. CASE UNCHANGED vars
    BY <1>10, <2>1
  <2>2. ASSUME NEW c \in Clients, Step(c) PROVE Rest'
    BY <1>2, <1>3, <1>4, <1>5, <1>6, <1>7, <1>8, <1>9, <2>2, Zenon DEF Step
  <2>3. QED
    BY <2>1, <2>2 DEF Next
<1>12. QED
  BY <1>1, <1>11 DEF IInv

LEMMA InductiveInvariant == Spec => []IInv
<1>1. QED
  BY InitIInv, StepIInv, PTL DEF Spec

(* Every reachable state of the lock is well typed. *)
THEOREM TypeCorrect == Spec => []TypeOK
BY InductiveInvariant, PTL DEF IInv

(* A client that holds the lock for write is alone, for any number of      *)
(* clients and any history of timeouts, releases and downgrades.           *)
THEOREM LockExclusion == Spec => []Exclusion
BY InductiveInvariant, PTL DEF IInv

(* No wake-up of lock.py is lost: a client that sleeps in wait() could not *)
(* have been granted what it waits for.                                    *)
THEOREM LockNoLostWakeup == Spec => []NoLostWakeup
BY InductiveInvariant, PTL DEF IInv

(* _readers and _writer_active count the holds. *)
THEOREM LockFieldsCountHolds == Spec => []FieldsCountHolds
BY InductiveInvariant, PTL DEF IInv
-----------------------------------------------------------------------------
(* The refinement: Owner forgets who waits and what the fields count. *)

LEMMA OwnerValue ==
  ASSUME NEW c \in Clients
  PROVE  Owner[c] = IF phase[c] \in Modes THEN phase[c] ELSE "free"
BY DEF Owner

(* What the fields allow, the holds allow. *)
LEMMA AvailableMeansFree ==
  ASSUME IInv, NEW m \in Modes, Available(m)
  PROVE  Promise!Available(m)
<1>1. ~writer_active
  BY DEF Available
<1>2. Holding("write") = {}
  BY <1>1 DEF IInv, FieldsCountHolds
<1>3. Promise!Writers = {}
  BY <1>2, OwnerValue DEF Promise!Writers, Holding, Modes
<1>4. ASSUME m = "write" PROVE Promise!Readers = {}
  <2>1. readers = 0
    BY <1>4 DEF Available
  <2>2. Holding("read") = {}
    BY <2>1, ZeroReaders DEF IInv
  <2>3. QED
    BY <2>2, OwnerValue DEF Promise!Readers, Holding, Modes
<1>5. QED
  BY <1>3, <1>4 DEF Promise!Available

(* A grant is an Acquire of the promise. *)
LEMMA GrantIsAcquire ==
  ASSUME IInv, NEW c \in Clients, NEW m \in Modes,
         phase[c] \in {"out", "woken"}, Available(m), Grant(c, m)
  PROVE  Promise!Acquire(c, m)
<1>1. Promise!Available(m)
  BY AvailableMeansFree
<1>2. Owner[c] = "free"
  BY DEF Owner, Modes
<1>3. Owner' = [Owner EXCEPT ![c] = m]
  BY DEF Grant, Owner, IInv, TypeOK
<1>4. QED
  BY <1>1, <1>2, <1>3 DEF Promise!Acquire

(* A step after which no hold has changed is no step of the promise. *)
LEMMA SameHolds ==
  ASSUME \A d \in Clients : phase'[d] = phase[d] \/
                             (phase[d] \notin Modes /\ phase'[d] \notin Modes)
  PROVE  Owner' = Owner
BY DEF Owner

(* The holds after a release or a downgrade and the wake-up that follows. *)
LEMMA OwnerAfterNotify ==
  ASSUME TypeOK, NEW c \in Clients, NEW v \in {"out", "read"},
         phase[c] \in Modes,
         \/ phase' = [phase EXCEPT ![c] = v]
         \/ phase' = NotifyAll([phase EXCEPT ![c] = v])
  PROVE  Owner' = [Owner EXCEPT ![c] = IF v = "read" THEN "read" ELSE "free"]
<1>1. \A d \in Clients : d # c => phase'[d] = phase[d] \/
                             (phase[d] \notin Modes /\ phase'[d] \notin Modes)
  BY DEF TypeOK, NotifyAll, Modes
<1>2. phase'[c] = v
  BY DEF TypeOK, NotifyAll
<1>3. QED
  BY <1>1, <1>2 DEF Owner, Modes

LEMMA StepImplementsLock == IInv /\ [Next]_vars => [Promise!Next]_Owner
<1> SUFFICES ASSUME IInv, [Next]_vars PROVE [Promise!Next]_Owner
  OBVIOUS
<1>1. TypeOK
  BY DEF IInv
<1>2. ASSUME NEW c \in Clients, NEW m \in Modes, AcquireNow(c, m)
      PROVE  Promise!Next
  <2>1. Promise!Acquire(c, m)
    BY <1>2, GrantIsAcquire DEF AcquireNow
  <2>2. QED
    BY <2>1 DEF Promise!Next, Promise!Modes, Modes
<1>3. ASSUME NEW c \in Clients, NEW m \in Modes,
             AcquireCede(c, m) \/ ReleaseUnheld(c, m)
      PROVE  Owner' = Owner
  BY <1>3, SameHolds DEF AcquireCede, ReleaseUnheld
<1>4. ASSUME NEW c \in Clients, NEW m \in Modes, NEW timed \in BOOLEAN,
             AcquireWait(c, m, timed)
      PROVE  Owner' = Owner
  BY <1>1, <1>4, SameHolds DEF AcquireWait, TypeOK, Modes
<1>5. ASSUME NEW c \in Clients, Expire(c) PROVE Owner' = Owner
  BY <1>1, <1>5, SameHolds DEF Expire, TypeOK, Modes
<1>6. ASSUME NEW c \in Clients, Recheck(c)
      PROVE  Promise!Next \/ Owner' = Owner
  <2>1. mode[c] \in Modes /\ phase[c] = "woken"
    BY <1>1, <1>6 DEF Recheck, TypeOK
  <2>2. CASE Available(mode[c]) /\ Grant(c, mode[c])
    <3>1. Promise!Acquire(c, mode[c])
      BY <2>1, <2>2, GrantIsAcquire
    <3>2. QED
      BY <2>1, <3>1 DEF Promise!Next, Promise!Modes, Modes
  <2>3. CASE ~(Available(mode[c]) /\ Grant(c, mode[c]))
    <3>1. /\ phase'[c] \in {"out", "waiting"}
          /\ \A d \in Clients : d # c => phase'[d] = phase[d]
      BY <1>1, <1>6, <2>3 DEF Recheck, TypeOK
    <3>2. QED
      BY <2>1, <3>1, SameHolds DEF Modes
  <2>4. QED
    BY <2>2, <2>3
<1>7. ASSUME NEW c \in Clients, ReleaseRead(c) \/ ReleaseWrite(c)
      PROVE  Promise!Next
  <2>1. /\ phase[c] \in Modes
        /\ \/ phase' = [phase EXCEPT ![c] = "out"]
           \/ phase' = NotifyAll([phase EXCEPT ![c] = "out"])
    BY <1>7 DEF ReleaseRead, ReleaseWrite, Modes
  <2>2. Owner' = [Owner EXCEPT ![c] = "free"]
    BY <1>1, <2>1, OwnerAfterNotify
  <2>3. Owner[c] # "free"
    BY <2>1, OwnerValue DEF Modes
  <2>4. Promise!Release(c)
    BY <2>2, <2>3 DEF Promise!Release
  <2>5. QED
    BY <2>4 DEF Promise!Next
<1>8. ASSUME NEW c \in Clients, Downgrade(c) PROVE Promise!Next
  <2>1. /\ phase[c] = "write"
        /\ phase' = NotifyAll([phase EXCEPT ![c] = "read"])
    BY <1>8 DEF Downgrade
  <2>2. Owner' = [Owner EXCEPT ![c] = "read"]
    BY <1>1, <2>1, OwnerAfterNotify DEF Modes
  <2>3. Owner[c] = "write"
    BY <2>1, OwnerValue DEF Modes
  <2>4. Promise!Downgrade(c)
    BY <2>2, <2>3 DEF Promise!Downgrade
  <2>5. QED
    BY <2>4 DEF Promise!Next
<1>9. ASSUME UNCHANGED vars PROVE Owner' = Owner
  BY <1>9 DEF vars, Owner
<1>10. ASSUME NEW c \in Clients, Step(c)
       PROVE  Promise!Next \/ Owner' = Owner
  BY <1>2, <1>3, <1>4, <1>5, <1>6, <1>7, <1>8, <1>10, Zenon DEF Step
<1>11. QED
  BY <1>9, <1>10 DEF Next

(* lock.py implements the promise of a readers-writer lock with downgrade: *)
(* every behaviour of the fields and the waiters is one of AbstractLock.   *)
THEOREM LockImplementsPromise == Spec => ImplementsAbstractLock
<1>1. Init => Promise!Init
  BY DEF Init, Promise!Init, Owner, Modes
<1>2. QED
  BY <1>1, InductiveInvariant, StepImplementsLock, PTL
     DEF Spec, ImplementsAbstractLock, Promise!Spec
=============================================================================
