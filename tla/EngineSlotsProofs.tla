------------------------- MODULE EngineSlotsProofs -------------------------
(***************************************************************************)
(* Theorems about EngineSlots, for any calls, models and permits: its      *)
(* invariants, and that it implements SlotService.                         *)
(***************************************************************************)
EXTENDS EngineSlots, FiniteSetTheorems, TLAPS

(* The queue with one call taken out of it. *)
LEMMA WithoutType ==
  ASSUME waiters \in Seq(Calls), NEW c \in Calls
  PROVE  Without(c) \in Seq(Calls)
<1>1. CASE ~ \E i \in DOMAIN waiters : waiters[i] = c
  BY <1>1 DEF Without
<1>2. CASE \E i \in DOMAIN waiters : waiters[i] = c
  <2> DEFINE at == CHOOSE i \in DOMAIN waiters : waiters[i] = c
             rest == [i \in 1..(Len(waiters) - 1) |-> IF i < at THEN waiters[i] ELSE waiters[i + 1]]
  <2>1. Len(waiters) \in Nat /\ DOMAIN waiters = 1..Len(waiters)
    OBVIOUS
  <2>2. at \in DOMAIN waiters
    BY <1>2
  <2>3. Len(waiters) - 1 \in Nat
    BY <2>1, <2>2
  <2>4. \A i \in 1..(Len(waiters) - 1) : rest[i] \in Calls
    BY <2>1, <2>2
  <2>5. rest \in Seq(Calls)
    <3> HIDE DEF at
    <3>1. rest \in [1..(Len(waiters) - 1) -> Calls]
      BY <2>1, <2>2
    <3> QED BY <3>1, <2>3
  <2> QED BY <1>2, <2>5 DEF Without
<1> QED BY <1>1, <1>2

(* What handing a permit on does to the types. *)
LEMMA PassPermitType ==
  ASSUME TypeOK, NEW c \in Calls, NEW then \in [Calls -> TaskStates],
         PassPermit(c, then), avail < Parallel
  PROVE  /\ task' \in [Calls -> TaskStates] /\ avail' \in 0..Parallel
         /\ waiters' \in Seq(Calls) /\ held' \in SUBSET Calls
<1>1. CASE waiters = <<>>
  BY <1>1, ParallelAssumption DEF TypeOK, PassPermit, TaskStates
<1>2. CASE waiters # <<>>
  <2>1. Head(waiters) \in Calls /\ Tail(waiters) \in Seq(Calls)
    BY <1>2 DEF TypeOK
  <2> QED BY <1>2, <2>1 DEF TypeOK, PassPermit, TaskStates
<1> QED BY <1>1, <1>2

(* The parts of IInv that speak of one call's threads. *)
CallsInv == StageInv /\ SessionOwned /\ CancelInv /\ AbortOnlyAbandoned

(* Where a permit goes, the tasks of the others stay, but for a waiter that *)
(* is granted it.                                                           *)
LEMMA PassPermitTask ==
  ASSUME TypeOK, NEW c \in Calls, NEW then \in [Calls -> TaskStates], PassPermit(c, then)
  PROVE  \A d \in Calls : task'[d] = then[d] \/ (then[d] = "queued" /\ task'[d] = "granted")
<1>1. CASE waiters = <<>>
  BY <1>1 DEF PassPermit
<1>2. CASE waiters # <<>>
  <2>1. Head(waiters) \in Calls
    BY <1>2 DEF TypeOK
  <2> QED BY <1>2, <2>1 DEF PassPermit
<1> QED BY <1>1, <1>2

(* The call that drops its acquire ends where its own step put it. *)
LEMMA DropAcquireTask ==
  ASSUME TypeOK, NEW c \in Calls, NEW to \in TaskStates \ {"queued"},
         DropAcquire(c, [task EXCEPT ![c] = to])
  PROVE  /\ task'[c] = to
         /\ \A d \in Calls \ {c} :
              task'[d] = task[d] \/ (task[d] = "queued" /\ task'[d] = "granted")
<1> DEFINE then == [task EXCEPT ![c] = to]
<1>1. DropAcquire(c, then) /\ then \in [Calls -> TaskStates] /\ then[c] = to
  BY DEF TypeOK
<1>2. \A d \in Calls \ {c} : then[d] = task[d]
  BY DEF TypeOK
<1> HIDE DEF then
<1>3. \A d \in Calls : task'[d] = then[d] \/ (then[d] = "queued" /\ task'[d] = "granted")
  BY <1>1, PassPermitTask DEF DropAcquire
<1> QED BY <1>1, <1>2, <1>3

(* No step of any thread breaks what ties a call's threads together. *)
LEMMA CallsStep ==
  ASSUME IInv, Next
  PROVE  CallsInv'
<1> SUFFICES ASSUME NEW c \in Calls, TaskStep(c) \/ JobStep(c) \/ CancelStep(c)
             PROVE  CallsInv'
  BY DEF Next
<1> USE CallsAssumption DEF IInv, TypeOK, CallsInv, StageInv, SessionOwned, CancelInv, AbortOnlyAbandoned,
        InSession, taskVars, semVars, jobVars, cancelVars, sessionVars
<1>1. CASE Acquire(c)
  BY <1>1 DEF Acquire, Spawn
<1>2. CASE Enqueue(c)
  BY <1>2 DEF Enqueue
<1>3. CASE Wake(c)
  BY <1>3 DEF Wake, Spawn
<1>4. CASE Expire(c)
  BY <1>4 DEF Expire
<1>5. CASE HangUp(c)
  BY <1>5 DEF HangUp
<1>6. CASE Deliver(c)
  BY <1>6 DEF Deliver
<1>7. CASE Retire(c)
  BY <1>7 DEF Retire
<1>8. CASE Refuse(c)
  BY <1>8 DEF Refuse
<1>9. CASE LockSession(c)
  <2>1. \A d \in Calls : job[d] \in InSession => ModelOf[d] # ModelOf[c]
    BY <1>9 DEF LockSession
  <2>2. \A d \in Calls : job'[d] \in InSession => d = c \/ (job[d] \in InSession /\ ModelOf[d] # ModelOf[c])
    BY <1>9, <2>1 DEF LockSession
  <2>3. SessionOwned'
    BY <1>9, <2>2, ModelOfAssumption DEF LockSession
  <2> QED BY <1>9, <2>3 DEF LockSession
<1>10. CASE InstallAction(c)
  BY <1>10 DEF InstallAction
<1>11. CASE CheckFlag(c)
  BY <1>11 DEF CheckFlag, TaskStates
<1>12. CASE RunCompletes(c)
  BY <1>12 DEF RunCompletes, RunEnds
<1>13. CASE RunFails(c)
  BY <1>13 DEF RunFails, RunEnds
<1>14. CASE RunPanics(c)
  BY <1>14 DEF RunPanics, RunEnds
<1>15. CASE RunAborts(c)
  BY <1>15, ModelOfAssumption DEF RunAborts, RunEnds, TaskStates
<1>16. CASE DropGuard(c)
  BY <1>16 DEF DropGuard
<1>17. CASE UnlockSession(c)
  BY <1>17, ModelOfAssumption DEF UnlockSession
<1>18. CASE StoreFlag(c)
  BY <1>18 DEF StoreFlag
<1>19. CASE CloneAction(c)
  BY <1>19 DEF CloneAction
<1>20. CASE InvokeAction(c)
  BY <1>20 DEF InvokeAction, AbortTarget
<1>21. CASE LeaveQueue(c)
  <2>1. /\ task'[c] = "answered"
        /\ \A d \in Calls \ {c} :
             task'[d] = task[d] \/ (task[d] = "queued" /\ task'[d] = "granted")
    BY <1>21, DropAcquireTask DEF LeaveQueue, TaskStates
  <2> QED BY <1>21, <2>1 DEF LeaveQueue
<1>22. CASE GiveUp(c)
  <2>1. /\ task'[c] = "gone"
        /\ \A d \in Calls \ {c} :
             task'[d] = task[d] \/ (task[d] = "queued" /\ task'[d] = "granted")
    BY <1>22, DropAcquireTask DEF GiveUp, TaskStates
  <2> QED BY <1>22, <2>1 DEF GiveUp
<1>23. CASE ReleasePermit(c)
  <2>1. PICK then \in [Calls -> TaskStates] : then = task /\ PassPermit(c, then)
    BY <1>23 DEF ReleasePermit, TaskStates
  <2>2. \A d \in Calls : task'[d] = then[d] \/ (then[d] = "queued" /\ task'[d] = "granted")
    BY <2>1, PassPermitTask
  <2> QED BY <1>23, <2>1, <2>2 DEF ReleasePermit
<1> QED BY <1>1, <1>2, <1>3, <1>4, <1>5, <1>6, <1>7, <1>8, <1>9, <1>10, <1>11, <1>12, <1>13, <1>14, <1>15, <1>16, <1>17, <1>18, <1>19, <1>20, <1>21, <1>22, <1>23 DEF TaskStep, JobStep, CancelStep

----------------------------------------------------------------------------
(* The queue and the permits.                                              *)

Distinct == \A i, j \in DOMAIN waiters : waiters[i] = waiters[j] => i = j

LEMMA AppendQueued ==
  ASSUME waiters \in Seq(Calls), NEW c \in Calls, c \notin Queued, Distinct,
         waiters' = Append(waiters, c)
  PROVE  Queued' = Queued \cup {c} /\ Distinct'
<1>1. /\ Len(waiters) \in Nat /\ DOMAIN waiters = 1..Len(waiters)
      /\ DOMAIN waiters' = 1..(Len(waiters) + 1)
      /\ \A i \in 1..Len(waiters) : waiters'[i] = waiters[i]
      /\ waiters'[Len(waiters) + 1] = c
  OBVIOUS
<1>2. Queued' = Queued \cup {c}
  BY <1>1 DEF Queued
<1>3. Distinct'
  BY <1>1 DEF Distinct, Queued
<1> QED BY <1>2, <1>3

LEMMA TailQueued ==
  ASSUME waiters \in Seq(Calls), waiters # <<>>, Distinct, waiters' = Tail(waiters)
  PROVE  Queued' = Queued \ {Head(waiters)} /\ Head(waiters) \in Queued /\ Distinct'
<1>1. /\ Len(waiters) \in Nat \ {0} /\ DOMAIN waiters = 1..Len(waiters)
      /\ DOMAIN waiters' = 1..(Len(waiters) - 1)
      /\ \A i \in 1..(Len(waiters) - 1) : waiters'[i] = waiters[i + 1]
      /\ Head(waiters) = waiters[1]
  OBVIOUS
<1>2. \A x \in Queued \ {Head(waiters)} : x \in Queued'
  <2> SUFFICES ASSUME NEW i \in 1..Len(waiters), waiters[i] # waiters[1]
               PROVE  waiters[i] \in Queued'
    BY <1>1 DEF Queued
  <2>1. i - 1 \in 1..(Len(waiters) - 1) /\ waiters'[i - 1] = waiters[i]
    BY <1>1
  <2> QED BY <1>1, <2>1 DEF Queued
<1>3. \A x \in Queued' : x \in Queued \ {Head(waiters)}
  BY <1>1 DEF Queued, Distinct
<1>4. Distinct'
  BY <1>1 DEF Distinct
<1>5. Head(waiters) \in Queued
  BY <1>1 DEF Queued
<1> QED BY <1>2, <1>3, <1>4, <1>5

LEMMA WithoutQueued ==
  ASSUME waiters \in Seq(Calls), NEW c \in Calls, Distinct, waiters' = Without(c)
  PROVE  Queued' = Queued \ {c} /\ Distinct' /\ (waiters' # <<>> => waiters # <<>>)
<1>1. CASE ~ \E i \in DOMAIN waiters : waiters[i] = c
  <2>1. waiters' = waiters /\ c \notin Queued
    BY <1>1 DEF Without, Queued
  <2> QED BY <2>1 DEF Queued, Distinct
<1>2. CASE \E i \in DOMAIN waiters : waiters[i] = c
  <2> DEFINE at == CHOOSE i \in DOMAIN waiters : waiters[i] = c
             n == Len(waiters) - 1
  <2>1. Len(waiters) \in Nat /\ DOMAIN waiters = 1..Len(waiters)
    OBVIOUS
  <2>2. at \in 1..Len(waiters) /\ waiters[at] = c
    BY <1>2, <2>1
  <2>3. n \in Nat
    BY <2>1, <2>2
  <2>4. waiters' = [i \in 1..n |-> IF i < at THEN waiters[i] ELSE waiters[i + 1]]
    BY <1>2 DEF Without
  <2>5. DOMAIN waiters' = 1..n /\ \A i \in 1..n :
          waiters'[i] = IF i < at THEN waiters[i] ELSE waiters[i + 1]
    BY <2>4
  <2> HIDE DEF at
  <2>6. \A x \in Queued \ {c} : x \in Queued'
    <3> SUFFICES ASSUME NEW i \in 1..Len(waiters), waiters[i] # c
                 PROVE  waiters[i] \in Queued'
      BY <2>1 DEF Queued
    <3>1. CASE i < at
      <4>1. i \in 1..n /\ waiters'[i] = waiters[i]
        BY <2>1, <2>2, <2>5, <3>1
      <4> QED BY <2>5, <4>1 DEF Queued
    <3>2. CASE ~(i < at)
      <4>1. i - 1 \in 1..n /\ ~(i - 1 < at) /\ waiters'[i - 1] = waiters[i]
        BY <2>1, <2>2, <2>5, <3>2
      <4> QED BY <2>5, <4>1 DEF Queued
    <3> QED BY <3>1, <3>2
  <2>7. \A x \in Queued' : x \in Queued \ {c}
    BY <2>1, <2>2, <2>3, <2>5 DEF Queued, Distinct
  <2>8. Distinct'
    BY <2>1, <2>2, <2>3, <2>5, SMTT(30) DEF Distinct
  <2>9. waiters # <<>>
    BY <2>1, <2>2
  <2> QED BY <2>6, <2>7, <2>8, <2>9
<1> QED BY <1>1, <1>2

(* A waiter owns no permit, and the calls that do are finitely many. *)
LEMMA QueuedNotHeld ==
  ASSUME IInv
  PROVE  Queued \cap held = {} /\ Queued \subseteq Calls /\ IsFiniteSet(held) /\ Distinct
<1>1. Queued \subseteq Calls
  BY DEF IInv, TypeOK, Queued
<1>2. \A c \in Queued : c \notin held
  BY <1>1 DEF IInv, PermitAccounted, QueueInv, StageInv, InEngine, InSession
<1>3. IsFiniteSet(held)
  BY FS_Subset, CallsAssumption DEF IInv, TypeOK
<1> QED BY <1>1, <1>2, <1>3 DEF IInv, QueueInv, Distinct

(* The permit of a call that is through with it is counted or handed on,   *)
(* and nobody else's accounts change.                                      *)
LEMMA PassPermitAccounts ==
  ASSUME IInv, NEW c \in held, NEW then \in [Calls -> TaskStates], PassPermit(c, then),
         then[c] \notin {"queued", "granted", "expired"}, job'[c] \notin InEngine,
         \A d \in Calls \ {c} : then[d] = task[d] /\ job'[d] = job[d]
  PROVE  /\ PermitAccounted' /\ QueueInv'
         /\ task' \in [Calls -> TaskStates] /\ avail' \in 0..Parallel
         /\ waiters' \in Seq(Calls) /\ held' \in SUBSET Calls
<1> USE QueuedNotHeld
<1>1. /\ c \in Calls /\ TypeOK /\ avail \in Nat /\ waiters \in Seq(Calls)
      /\ c \notin Queued
  BY DEF IInv, TypeOK
<1>2. /\ Cardinality(held) \in Nat /\ Cardinality(held) > 0
      /\ Cardinality(held \ {c}) = Cardinality(held) - 1 /\ IsFiniteSet(held \ {c})
  BY FS_RemoveElement, FS_CardinalityType, FS_EmptySet
<1>3. avail < Parallel
  BY <1>1, <1>2, ParallelAssumption DEF IInv, PermitAccounted
<1>4. /\ task' \in [Calls -> TaskStates] /\ avail' \in 0..Parallel
      /\ waiters' \in Seq(Calls) /\ held' \in SUBSET Calls
  BY <1>1, <1>3, PassPermitType
<1>5. CASE waiters = <<>>
  <2>1. /\ avail' = avail + 1 /\ held' = held \ {c} /\ task' = then
        /\ waiters' = waiters /\ Queued' = Queued /\ Queued = {}
    BY <1>5 DEF PassPermit, Queued
  <2>2. avail' + Cardinality(held') = Parallel
    BY <1>1, <1>2, <2>1 DEF IInv, PermitAccounted
  <2>3. PermitAccounted'
    BY <1>1, <2>1, <2>2 DEF IInv, PermitAccounted
  <2>4. QueueInv'
    BY <1>5, <2>1 DEF IInv, QueueInv, NoIdlePermit
  <2> QED BY <1>4, <2>3, <2>4
<1>6. CASE waiters # <<>>
  <2> DEFINE h == Head(waiters)
  <2>1. /\ waiters' = Tail(waiters) /\ avail' = avail /\ held' = (held \ {c}) \cup {h}
        /\ task' = [then EXCEPT ![h] = IF then[h] = "queued" THEN "granted" ELSE then[h]]
    BY <1>6 DEF PassPermit
  <2>2. Queued' = Queued \ {h} /\ h \in Queued /\ Distinct'
    BY <1>1, <1>6, <2>1, TailQueued
  <2>3. h \in Calls /\ h \notin held /\ h # c /\ task[h] \in {"queued", "expired"}
    BY <1>1, <2>2 DEF IInv, QueueInv
  <2>4. Cardinality(held') = Cardinality(held)
    <3>1. Cardinality((held \ {c}) \cup {h}) = Cardinality(held \ {c}) + 1
      BY <1>2, <2>3, FS_AddElement
    <3> QED BY <1>2, <2>1, <3>1
  <2> HIDE DEF h
  <2>5. /\ task'[h] = IF task[h] = "queued" THEN "granted" ELSE task[h]
        /\ task'[c] = then[c]
        /\ \A d \in Calls \ {c, h} : task'[d] = task[d]
    BY <1>1, <2>1, <2>3
  <2>6. job[h] \notin InEngine
    BY <2>3 DEF IInv, StageInv, InEngine, InSession
  <2>7. \A d \in Calls : d \in held' <=>
          \/ task'[d] = "granted"
          \/ task'[d] = "expired" /\ d \notin Queued'
          \/ job'[d] \in InEngine
    BY <1>1, <2>1, <2>2, <2>3, <2>5, <2>6 DEF IInv, PermitAccounted
  <2>8. PermitAccounted'
    BY <2>1, <2>4, <2>7 DEF IInv, PermitAccounted
  <2>9. QueueInv'
    BY <1>1, <1>6, <2>1, <2>2, <2>5 DEF IInv, QueueInv, NoIdlePermit, Distinct
  <2> QED BY <1>4, <2>8, <2>9
<1> QED BY <1>5, <1>6

(* Dropping an acquire, whether it waits or has been assigned a permit.    *)
LEMMA DropAcquireAccounts ==
  ASSUME IInv, NEW c \in Calls, NEW to \in TaskStates \ {"queued", "granted", "expired"},
         task[c] \in {"queued", "granted", "expired"},
         DropAcquire(c, [task EXCEPT ![c] = to]), UNCHANGED job
  PROVE  /\ PermitAccounted' /\ QueueInv'
         /\ task' \in [Calls -> TaskStates] /\ avail' \in 0..Parallel
         /\ waiters' \in Seq(Calls) /\ held' \in SUBSET Calls
<1> DEFINE then == [task EXCEPT ![c] = to]
<1>1. /\ TypeOK /\ waiters \in Seq(Calls) /\ Distinct
      /\ job[c] \notin InEngine
  BY QueuedNotHeld DEF IInv, TypeOK, StageInv, InEngine, InSession
<1>2. /\ then \in [Calls -> TaskStates] /\ then[c] = to
      /\ \A d \in Calls \ {c} : then[d] = task[d]
  BY <1>1 DEF TypeOK
<1>3. DropAcquire(c, then)
  OBVIOUS
<1> HIDE DEF then
<1>4. CASE c \in held
  <2>1. PassPermit(c, then)
    BY <1>3, <1>4 DEF DropAcquire
  <2> QED BY <1>1, <1>2, <1>4, <2>1, PassPermitAccounts
<1>5. CASE c \notin held
  <2>1. /\ waiters' = Without(c) /\ task' = then /\ avail' = avail /\ held' = held
    BY <1>3, <1>5 DEF DropAcquire
  <2>2. Queued' = Queued \ {c} /\ Distinct' /\ (waiters' # <<>> => waiters # <<>>)
    BY <1>1, <2>1, WithoutQueued
  <2>3. waiters' \in Seq(Calls)
    BY <1>1, <2>1, WithoutType
  <2>4. PermitAccounted'
    BY <1>1, <1>2, <1>5, <2>1, <2>2 DEF IInv, PermitAccounted
  <2>5. QueueInv'
    BY <1>1, <1>2, <2>1, <2>2 DEF IInv, QueueInv, NoIdlePermit, Distinct
  <2> QED BY <1>1, <1>2, <2>1, <2>3, <2>4, <2>5 DEF TypeOK
<1> QED BY <1>4, <1>5

(* No step leaks, duplicates or forgets a permit, or loses a waiter.       *)
LEMMA PermitsStep ==
  ASSUME IInv, Next
  PROVE  PermitAccounted' /\ QueueInv' /\ TypeOK'
<1> SUFFICES ASSUME NEW c \in Calls, TaskStep(c) \/ JobStep(c) \/ CancelStep(c)
             PROVE  PermitAccounted' /\ QueueInv' /\ TypeOK'
  BY DEF Next
<1> USE DEF taskVars, semVars, jobVars, cancelVars, sessionVars,
        TaskStates, Replies, JobStates, Results, CancellerStates
<1>1. CASE Acquire(c)
  <2>1. waiters = <<>> /\ c \notin held
    BY <1>1 DEF Acquire, IInv, TypeOK, QueueInv, NoIdlePermit, PermitAccounted, StageInv,
                InEngine, InSession
  <2>2. Cardinality(held') = Cardinality(held) + 1 /\ Cardinality(held) \in Nat
    BY <1>1, <2>1, QueuedNotHeld, FS_AddElement, FS_CardinalityType DEF Acquire
  <2>3. TypeOK'
    BY <1>1, ParallelAssumption DEF Acquire, Spawn, IInv, TypeOK
  <2>4. Queued' = Queued
    BY <1>1 DEF Acquire, Queued
  <2>5. avail' + Cardinality(held') = Parallel
    BY <1>1, <2>2, ParallelAssumption DEF Acquire, IInv, TypeOK, PermitAccounted
  <2>6. PermitAccounted'
    BY <1>1, <2>4, <2>5 DEF Acquire, Spawn, IInv, TypeOK, PermitAccounted, InEngine
  <2>7. QueueInv'
    BY <1>1, <2>1, <2>4 DEF Acquire, IInv, TypeOK, QueueInv, NoIdlePermit
  <2> QED BY <2>3, <2>6, <2>7
<1>2. CASE Enqueue(c)
  <2>1. c \notin Queued
    BY <1>2 DEF Enqueue, IInv, QueueInv
  <2>2. Queued' = Queued \cup {c} /\ Distinct'
    BY <1>2, <2>1, QueuedNotHeld, AppendQueued DEF Enqueue, IInv, TypeOK
  <2>3. TypeOK'
    BY <1>2 DEF Enqueue, IInv, TypeOK
  <2>4. PermitAccounted'
    BY <1>2, <2>1, <2>2 DEF Enqueue, IInv, TypeOK, PermitAccounted
  <2>5. QueueInv'
    BY <1>2, <2>2 DEF Enqueue, IInv, TypeOK, QueueInv, NoIdlePermit, Distinct
  <2> QED BY <2>3, <2>4, <2>5
<1>3. CASE LeaveQueue(c)
  <2>1. /\ PermitAccounted' /\ QueueInv'
        /\ task' \in [Calls -> TaskStates] /\ avail' \in 0..Parallel
        /\ waiters' \in Seq(Calls) /\ held' \in SUBSET Calls
    BY <1>3, DropAcquireAccounts DEF LeaveQueue
  <2> QED BY <1>3, <2>1 DEF LeaveQueue, IInv, TypeOK
<1>4. CASE GiveUp(c)
  <2>1. /\ PermitAccounted' /\ QueueInv'
        /\ task' \in [Calls -> TaskStates] /\ avail' \in 0..Parallel
        /\ waiters' \in Seq(Calls) /\ held' \in SUBSET Calls
    BY <1>4, DropAcquireAccounts DEF GiveUp
  <2> QED BY <1>4, <2>1 DEF GiveUp, IInv, TypeOK
<1>5. CASE ReleasePermit(c)
  <2>1. /\ c \in held /\ PassPermit(c, task)
        /\ job'[c] \notin InEngine /\ \A d \in Calls \ {c} : job'[d] = job[d]
    BY <1>5 DEF ReleasePermit, IInv, TypeOK, PermitAccounted, InEngine, InSession
  <2>2. task \in [Calls -> TaskStates] /\ task[c] \notin {"queued", "granted", "expired"}
    BY <1>5 DEF ReleasePermit, IInv, TypeOK, StageInv
  <2>3. /\ PermitAccounted' /\ QueueInv'
        /\ task' \in [Calls -> TaskStates] /\ avail' \in 0..Parallel
        /\ waiters' \in Seq(Calls) /\ held' \in SUBSET Calls
    BY <2>1, <2>2, PassPermitAccounts
  <2> QED BY <1>5, <2>3 DEF ReleasePermit, IInv, TypeOK
<1>6. CASE Wake(c)
  <2>1. TypeOK'
    BY <1>6, ModelOfAssumption, CallsAssumption DEF Wake, Spawn, IInv, TypeOK
  <2>2. Queued' = Queued
    BY <1>6 DEF Wake, Spawn, Queued
  <2>3. PermitAccounted' /\ QueueInv'
    BY <1>6, <2>2 DEF Wake, Spawn, IInv, TypeOK, PermitAccounted, QueueInv, StageInv, NoIdlePermit, InEngine, InSession
  <2> QED BY <2>1, <2>3
<1>7. CASE Expire(c)
  <2>1. TypeOK'
    BY <1>7, ModelOfAssumption, CallsAssumption DEF Expire, IInv, TypeOK
  <2>2. Queued' = Queued
    BY <1>7 DEF Expire, Queued
  <2>3. PermitAccounted' /\ QueueInv'
    BY <1>7, <2>2 DEF Expire, IInv, TypeOK, PermitAccounted, QueueInv, StageInv, NoIdlePermit, InEngine, InSession
  <2> QED BY <2>1, <2>3
<1>8. CASE HangUp(c)
  <2>1. TypeOK'
    BY <1>8, ModelOfAssumption, CallsAssumption DEF HangUp, IInv, TypeOK
  <2>2. Queued' = Queued
    BY <1>8 DEF HangUp, Queued
  <2>3. PermitAccounted' /\ QueueInv'
    BY <1>8, <2>2 DEF HangUp, IInv, TypeOK, PermitAccounted, QueueInv, StageInv, NoIdlePermit, InEngine, InSession
  <2> QED BY <2>1, <2>3
<1>9. CASE Deliver(c)
  <2>1. TypeOK'
    BY <1>9, ModelOfAssumption, CallsAssumption DEF Deliver, ReplyTo, IInv, TypeOK
  <2>2. Queued' = Queued
    BY <1>9 DEF Deliver, ReplyTo, Queued
  <2>3. PermitAccounted' /\ QueueInv'
    BY <1>9, <2>2 DEF Deliver, ReplyTo, IInv, TypeOK, PermitAccounted, QueueInv, StageInv, NoIdlePermit, InEngine, InSession
  <2> QED BY <2>1, <2>3
<1>10. CASE Retire(c)
  <2>1. TypeOK'
    BY <1>10, ModelOfAssumption, CallsAssumption DEF Retire, IInv, TypeOK
  <2>2. Queued' = Queued
    BY <1>10 DEF Retire, Queued
  <2>3. PermitAccounted' /\ QueueInv'
    BY <1>10, <2>2 DEF Retire, IInv, TypeOK, PermitAccounted, QueueInv, StageInv, NoIdlePermit, InEngine, InSession
  <2> QED BY <2>1, <2>3
<1>11. CASE Refuse(c)
  <2>1. TypeOK'
    BY <1>11, ModelOfAssumption, CallsAssumption DEF Refuse, IInv, TypeOK
  <2>2. Queued' = Queued
    BY <1>11 DEF Refuse, Queued
  <2>3. PermitAccounted' /\ QueueInv'
    BY <1>11, <2>2 DEF Refuse, IInv, TypeOK, PermitAccounted, QueueInv, StageInv, NoIdlePermit, InEngine, InSession
  <2> QED BY <2>1, <2>3
<1>12. CASE LockSession(c)
  <2>1. TypeOK'
    BY <1>12, ModelOfAssumption, CallsAssumption DEF LockSession, IInv, TypeOK
  <2>2. Queued' = Queued
    BY <1>12 DEF LockSession, Queued
  <2>3. PermitAccounted' /\ QueueInv'
    BY <1>12, <2>2 DEF LockSession, IInv, TypeOK, PermitAccounted, QueueInv, StageInv, NoIdlePermit, InEngine, InSession
  <2> QED BY <2>1, <2>3
<1>13. CASE InstallAction(c)
  <2>1. TypeOK'
    BY <1>13, ModelOfAssumption, CallsAssumption DEF InstallAction, IInv, TypeOK
  <2>2. Queued' = Queued
    BY <1>13 DEF InstallAction, Queued
  <2>3. PermitAccounted' /\ QueueInv'
    BY <1>13, <2>2 DEF InstallAction, IInv, TypeOK, PermitAccounted, QueueInv, StageInv, NoIdlePermit, InEngine, InSession
  <2> QED BY <2>1, <2>3
<1>14. CASE CheckFlag(c)
  <2>1. TypeOK'
    BY <1>14, ModelOfAssumption, CallsAssumption DEF CheckFlag, IInv, TypeOK
  <2>2. Queued' = Queued
    BY <1>14 DEF CheckFlag, Queued
  <2>3. PermitAccounted' /\ QueueInv'
    BY <1>14, <2>2 DEF CheckFlag, IInv, TypeOK, PermitAccounted, QueueInv, StageInv, NoIdlePermit, InEngine, InSession
  <2> QED BY <2>1, <2>3
<1>15. CASE RunCompletes(c)
  <2>1. TypeOK'
    BY <1>15, ModelOfAssumption, CallsAssumption DEF RunCompletes, RunEnds, IInv, TypeOK
  <2>2. Queued' = Queued
    BY <1>15 DEF RunCompletes, RunEnds, Queued
  <2>3. PermitAccounted' /\ QueueInv'
    BY <1>15, <2>2 DEF RunCompletes, RunEnds, IInv, TypeOK, PermitAccounted, QueueInv, StageInv, NoIdlePermit, InEngine, InSession
  <2> QED BY <2>1, <2>3
<1>16. CASE RunFails(c)
  <2>1. TypeOK'
    BY <1>16, ModelOfAssumption, CallsAssumption DEF RunFails, RunEnds, IInv, TypeOK
  <2>2. Queued' = Queued
    BY <1>16 DEF RunFails, RunEnds, Queued
  <2>3. PermitAccounted' /\ QueueInv'
    BY <1>16, <2>2 DEF RunFails, RunEnds, IInv, TypeOK, PermitAccounted, QueueInv, StageInv, NoIdlePermit, InEngine, InSession
  <2> QED BY <2>1, <2>3
<1>17. CASE RunPanics(c)
  <2>1. TypeOK'
    BY <1>17, ModelOfAssumption, CallsAssumption DEF RunPanics, RunEnds, IInv, TypeOK
  <2>2. Queued' = Queued
    BY <1>17 DEF RunPanics, RunEnds, Queued
  <2>3. PermitAccounted' /\ QueueInv'
    BY <1>17, <2>2 DEF RunPanics, RunEnds, IInv, TypeOK, PermitAccounted, QueueInv, StageInv, NoIdlePermit, InEngine, InSession
  <2> QED BY <2>1, <2>3
<1>18. CASE RunAborts(c)
  <2>1. TypeOK'
    BY <1>18, ModelOfAssumption, CallsAssumption DEF RunAborts, RunEnds, IInv, TypeOK
  <2>2. Queued' = Queued
    BY <1>18 DEF RunAborts, RunEnds, Queued
  <2>3. PermitAccounted' /\ QueueInv'
    BY <1>18, <2>2 DEF RunAborts, RunEnds, IInv, TypeOK, PermitAccounted, QueueInv, StageInv, NoIdlePermit, InEngine, InSession
  <2> QED BY <2>1, <2>3
<1>19. CASE DropGuard(c)
  <2>1. TypeOK'
    BY <1>19, ModelOfAssumption, CallsAssumption DEF DropGuard, IInv, TypeOK
  <2>2. Queued' = Queued
    BY <1>19 DEF DropGuard, Queued
  <2>3. PermitAccounted' /\ QueueInv'
    BY <1>19, <2>2 DEF DropGuard, IInv, TypeOK, PermitAccounted, QueueInv, StageInv, NoIdlePermit, InEngine, InSession
  <2> QED BY <2>1, <2>3
<1>20. CASE UnlockSession(c)
  <2>1. TypeOK'
    BY <1>20, ModelOfAssumption, CallsAssumption DEF UnlockSession, IInv, TypeOK
  <2>2. Queued' = Queued
    BY <1>20 DEF UnlockSession, Queued
  <2>3. PermitAccounted' /\ QueueInv'
    BY <1>20, <2>2 DEF UnlockSession, IInv, TypeOK, PermitAccounted, QueueInv, StageInv, NoIdlePermit, InEngine, InSession
  <2> QED BY <2>1, <2>3
<1>21. CASE StoreFlag(c)
  <2>1. TypeOK'
    BY <1>21, ModelOfAssumption, CallsAssumption DEF StoreFlag, IInv, TypeOK
  <2>2. Queued' = Queued
    BY <1>21 DEF StoreFlag, Queued
  <2>3. PermitAccounted' /\ QueueInv'
    BY <1>21, <2>2 DEF StoreFlag, IInv, TypeOK, PermitAccounted, QueueInv, StageInv, NoIdlePermit, InEngine, InSession
  <2> QED BY <2>1, <2>3
<1>22. CASE CloneAction(c)
  <2>1. TypeOK'
    BY <1>22, ModelOfAssumption, CallsAssumption DEF CloneAction, IInv, TypeOK
  <2>2. Queued' = Queued
    BY <1>22 DEF CloneAction, Queued
  <2>3. PermitAccounted' /\ QueueInv'
    BY <1>22, <2>2 DEF CloneAction, IInv, TypeOK, PermitAccounted, QueueInv, StageInv, NoIdlePermit, InEngine, InSession
  <2> QED BY <2>1, <2>3
<1>23. CASE InvokeAction(c)
  <2>1. TypeOK'
    BY <1>23, ModelOfAssumption, CallsAssumption DEF InvokeAction, AbortTarget, IInv, TypeOK
  <2>2. Queued' = Queued
    BY <1>23 DEF InvokeAction, AbortTarget, Queued
  <2>3. PermitAccounted' /\ QueueInv'
    BY <1>23, <2>2 DEF InvokeAction, AbortTarget, IInv, TypeOK, PermitAccounted, QueueInv, StageInv, NoIdlePermit, InEngine, InSession
  <2> QED BY <2>1, <2>3
<1> QED BY <1>1, <1>2, <1>3, <1>4, <1>5, <1>6, <1>7, <1>8, <1>9, <1>10, <1>11, <1>12, <1>13, <1>14, <1>15, <1>16, <1>17, <1>18, <1>19, <1>20, <1>21, <1>22, <1>23 DEF TaskStep, JobStep, CancelStep

----------------------------------------------------------------------------
(* The theorems.                                                           *)

LEMMA InitIInv == Init => IInv
<1> SUFFICES ASSUME Init PROVE IInv
  OBVIOUS
<1>1. TypeOK
  BY ParallelAssumption DEF Init, TypeOK, TaskStates, Replies, JobStates, Results, CancellerStates
<1>2. Queued = {}
  BY DEF Init, Queued
<1>3. PermitAccounted
  BY <1>2, FS_EmptySet, ParallelAssumption DEF Init, PermitAccounted, InEngine, InSession
<1>4. QueueInv
  BY <1>2 DEF Init, QueueInv, NoIdlePermit
<1>5. StageInv /\ SessionOwned /\ CancelInv /\ AbortOnlyAbandoned
  BY DEF Init, StageInv, SessionOwned, InSession, CancelInv, AbortOnlyAbandoned
<1> QED BY <1>1, <1>3, <1>4, <1>5 DEF IInv

LEMMA StepIInv == IInv /\ [Next]_vars => IInv'
<1> SUFFICES ASSUME IInv, [Next]_vars PROVE IInv'
  OBVIOUS
<1>1. CASE Next
  BY <1>1, PermitsStep, CallsStep DEF IInv, CallsInv
<1>2. CASE UNCHANGED vars
  BY <1>2 DEF vars, IInv, TypeOK, PermitAccounted, QueueInv, NoIdlePermit, Queued, StageInv,
              SessionOwned, CancelInv, AbortOnlyAbandoned
<1> QED BY <1>1, <1>2

(* The inductive invariant holds of every reachable state.                 *)
THEOREM Invariance == Spec => []IInv
<1> QED BY InitIInv, StepIInv, PTL DEF Spec

(* The variables keep their types; in particular no step ever frees a      *)
(* permit too many.                                                        *)
THEOREM TypeCorrect == Spec => []TypeOK
<1>1. IInv => TypeOK
  BY DEF IInv
<1> QED BY <1>1, Invariance, PTL

(* No hang-up, timeout, refusal, failure or panic leaks or duplicates a    *)
(* permit, for any number of calls, models and permits.                    *)
THEOREM PermitsAccounted == Spec => []PermitAccounted
<1>1. IInv => PermitAccounted
  BY DEF IInv
<1> QED BY <1>1, Invariance, PTL

LEMMA WorkBoundIInv == IInv => WorkBound
<1> SUFFICES ASSUME IInv PROVE WorkBound
  OBVIOUS
<1> DEFINE working == {c \in Calls : job[c] \in InEngine}
<1>1. working \subseteq held
  BY DEF IInv, PermitAccounted
<1>2. Cardinality(working) <= Cardinality(held) /\ Cardinality(working) \in Nat
      /\ Cardinality(held) \in Nat
  BY <1>1, QueuedNotHeld, FS_Subset, FS_CardinalityType
<1>3. avail \in Nat /\ avail + Cardinality(held) = Parallel
  BY ParallelAssumption DEF IInv, TypeOK, PermitAccounted
<1>4. Cardinality(working) <= Parallel
  BY <1>2, <1>3, ParallelAssumption
<1> QED BY <1>4 DEF WorkBound

(* --parallel bounds the runs in flight, abandoned ones included.          *)
THEOREM WorkBounded == Spec => []WorkBound
<1> QED BY WorkBoundIInv, Invariance, PTL

(* A run ends as aborted only when its own caller hung up.                 *)
THEOREM NoForeignAbort == Spec => []AbortOnlyAbandoned
<1>1. IInv => AbortOnlyAbandoned
  BY DEF IInv
<1> QED BY <1>1, Invariance, PTL

(* A cancel that has returned has reached the run, if there is still one.  *)
THEOREM NoLostCancel == Spec => []CancelReachesRun
<1>1. IInv => CancelReachesRun
  BY DEF IInv, CancelReachesRun, CancelInv, SessionOwned, InSession
<1> QED BY <1>1, Invariance, PTL

(* A session is used by the call that locked it, under that call's token.  *)
THEOREM SessionsOwned == Spec => []SessionOwned
<1>1. IInv => SessionOwned
  BY DEF IInv
<1> QED BY <1>1, Invariance, PTL

----------------------------------------------------------------------------
(* The refinement: every step of every thread is one step of SlotService   *)
(* or none.                                                                *)

Inside == {d \in Calls : EngineView[d] = "in"}

(* The calls the service has inside are those whose run is in the engine,  *)
(* and each of them owns a permit.                                         *)
LEMMA InsideHeld ==
  ASSUME IInv
  PROVE  Inside = {d \in Calls : job[d] \in InEngine} /\ Inside \subseteq held
<1>1. \A d \in Calls : EngineView[d] = "in" <=> job[d] \in InEngine
  BY DEF EngineView, RunEnd, InEngine, InSession
<1>2. Inside = {d \in Calls : job[d] \in InEngine}
  BY <1>1 DEF Inside
<1> QED BY <1>2 DEF IInv, PermitAccounted

LEMMA SameCardinality == \A S : Service!Cardinality(S) = Cardinality(S)
BY DEF Service!Cardinality, Cardinality

(* A free permit, or one owned by a call outside, means there is room.     *)
LEMMA Room ==
  ASSUME IInv, avail > 0 \/ \E c \in held : c \notin Inside
  PROVE  Cardinality(Inside) < Parallel
<1>1. Inside \subseteq held /\ IsFiniteSet(held)
  BY InsideHeld, QueuedNotHeld
<1>2. /\ Cardinality(Inside) \in Nat /\ Cardinality(held) \in Nat /\ avail \in Nat
      /\ Cardinality(Inside) <= Cardinality(held) /\ avail + Cardinality(held) = Parallel
  BY <1>1, FS_Subset, FS_CardinalityType, ParallelAssumption DEF IInv, TypeOK, PermitAccounted
<1>3. CASE avail > 0
  BY <1>2, <1>3, ParallelAssumption
<1>4. CASE \E c \in held : c \notin Inside
  <2>1. PICK c \in held : c \notin Inside
    BY <1>4
  <2>2. Inside \subseteq held \ {c}
    BY <1>1, <2>1
  <2>3. /\ IsFiniteSet(held \ {c}) /\ Cardinality(held \ {c}) = Cardinality(held) - 1
    BY <1>1, <2>1, FS_RemoveElement
  <2>4. Cardinality(Inside) <= Cardinality(held) - 1
    BY <2>2, <2>3, FS_Subset
  <2> QED BY <1>2, <2>4, ParallelAssumption
<1> QED BY <1>3, <1>4

(* A call that waits looks the same to the service queued and granted.     *)
LEMMA SameCaller ==
  ASSUME TypeOK, NEW d \in Calls, reply'[d] = reply[d],
         task'[d] = task[d] \/ (task[d] = "queued" /\ task'[d] = "granted")
  PROVE  CallerView'[d] = CallerView[d]
BY DEF CallerView, TypeOK, TaskStates

(* A call whose run is spawned is inside for the service.                  *)
LEMMA SpawnEnters ==
  ASSUME TypeOK, NEW c \in Calls, job' = [job EXCEPT ![c] = "spawned"], result' = result
  PROVE  EngineView' = [EngineView EXCEPT ![c] = "in"]
<1>1. job'[c] = "spawned" /\ \A d \in Calls \ {c} : job'[d] = job[d]
  BY DEF TypeOK
<1>2. EngineView'[c] = "in"
  BY <1>1 DEF EngineView, InEngine
<1>3. \A d \in Calls \ {c} : EngineView'[d] = EngineView[d]
  BY <1>1 DEF EngineView
<1>4. EngineView' = [d \in Calls |-> EngineView'[d]] /\ EngineView = [d \in Calls |-> EngineView[d]]
  BY DEF EngineView
<1> QED BY <1>2, <1>3, <1>4

(* The initial states map to the initial state of the service.             *)
LEMMA RefinesInit == Init => Service!Init
BY DEF Init, Service!Init, CallerView, EngineView, InEngine, InSession

(* Every step maps to one of the service's or to none.                     *)
LEMMA RefinesNext ==
  ASSUME IInv, Next
  PROVE  Service!Next \/ UNCHANGED <<CallerView, EngineView>>
<1> SUFFICES ASSUME NEW c \in Calls, TaskStep(c) \/ JobStep(c) \/ CancelStep(c)
             PROVE  Service!Next \/ UNCHANGED <<CallerView, EngineView>>
  BY DEF Next
<1>a. TypeOK /\ StageInv
  BY DEF IInv
<1> USE DEF taskVars, semVars, jobVars, cancelVars, sessionVars
<1>1. CASE Acquire(c)
  <2>1. CallerView[c] = "absent" /\ CallerView' = [CallerView EXCEPT ![c] = "waiting"]
    BY <1>1, <1>a DEF Acquire, CallerView, TypeOK
  <2>2. EngineView' = [EngineView EXCEPT ![c] = "in"]
    <3>1. job' = [job EXCEPT ![c] = "spawned"] /\ result' = result
      BY <1>1 DEF Acquire, Spawn
    <3> QED BY <1>a, <3>1, SpawnEnters
  <2>3. Cardinality(Inside) < Parallel
    BY <1>1, Room DEF Acquire
  <2>4. Service!Ask(c)
    BY <2>1, <2>2, <2>3, SameCardinality DEF Service!Ask, Service!Inside, Inside
  <2> QED BY <2>4 DEF Service!Next
<1>2. CASE Enqueue(c)
  <2>1. CallerView[c] = "absent" /\ CallerView' = [CallerView EXCEPT ![c] = "waiting"]
    BY <1>2, <1>a DEF Enqueue, CallerView, TypeOK
  <2>2. EngineView' = EngineView
    BY <1>2 DEF Enqueue, EngineView
  <2>3. Service!Ask(c)
    BY <2>1, <2>2 DEF Service!Ask
  <2> QED BY <2>3 DEF Service!Next
<1>3. CASE Wake(c)
  <2>1. CallerView[c] = "waiting" /\ CallerView' = CallerView
    BY <1>3, <1>a DEF Wake, CallerView, TypeOK
  <2>2. EngineView[c] = "out" /\ EngineView' = [EngineView EXCEPT ![c] = "in"]
    <3>1. job' = [job EXCEPT ![c] = "spawned"] /\ result' = result /\ job[c] = "none"
      BY <1>3, <1>a DEF Wake, Spawn, StageInv
    <3>2. EngineView[c] = "out"
      BY <3>1 DEF EngineView, InEngine, InSession
    <3> QED BY <1>a, <3>1, <3>2, SpawnEnters
  <2>3. c \in held /\ c \notin Inside
    BY <1>3, <2>2 DEF Wake, IInv, PermitAccounted, Inside
  <2>4. Cardinality(Inside) < Parallel
    BY <2>3, Room
  <2>5. Service!Enter(c)
    BY <2>1, <2>2, <2>4, SameCardinality DEF Service!Enter, Service!Inside, Inside
  <2> QED BY <2>5 DEF Service!Next
<1>4. CASE LeaveQueue(c)
  <2>1. /\ task'[c] = "answered" /\ reply' = [reply EXCEPT ![c] = "busy"]
        /\ \A d \in Calls \ {c} :
             task'[d] = task[d] \/ (task[d] = "queued" /\ task'[d] = "granted")
    BY <1>4, <1>a, DropAcquireTask DEF LeaveQueue, TaskStates
  <2>2. \A d \in Calls \ {c} : CallerView'[d] = CallerView[d]
    BY <1>a, <2>1, SameCaller DEF TypeOK
  <2>3. CallerView'[c] = "busy"
    BY <1>a, <2>1 DEF CallerView, TypeOK
  <2>4. CallerView[c] = "waiting" /\ CallerView' = [CallerView EXCEPT ![c] = "busy"]
    <3>1. CallerView' = [d \in Calls |-> CallerView'[d]] /\ CallerView = [d \in Calls |-> CallerView[d]]
      BY DEF CallerView
    <3>2. CallerView[c] = "waiting"
      BY <1>4 DEF LeaveQueue, CallerView
    <3> QED BY <2>2, <2>3, <3>1, <3>2
  <2>5. EngineView[c] = "out" /\ EngineView' = EngineView
    <3>1. job[c] = "none" /\ job' = job /\ result' = result
      BY <1>4, <1>a DEF LeaveQueue, StageInv
    <3> QED BY <3>1 DEF EngineView, InEngine, InSession
  <2>6. Service!TurnAway(c)
    BY <2>4, <2>5 DEF Service!TurnAway
  <2> QED BY <2>6 DEF Service!Next
<1>5. CASE GiveUp(c)
  <2>1. /\ task'[c] = "gone" /\ reply' = reply
        /\ \A d \in Calls \ {c} :
             task'[d] = task[d] \/ (task[d] = "queued" /\ task'[d] = "granted")
    BY <1>5, <1>a, DropAcquireTask DEF GiveUp, TaskStates
  <2>2. \A d \in Calls \ {c} : CallerView'[d] = CallerView[d]
    BY <1>a, <2>1, SameCaller DEF TypeOK
  <2>3. CallerView'[c] = "left"
    BY <1>a, <2>1 DEF CallerView, TypeOK
  <2>4. CallerView[c] = "waiting" /\ CallerView' = [CallerView EXCEPT ![c] = "left"]
    <3>1. CallerView' = [d \in Calls |-> CallerView'[d]] /\ CallerView = [d \in Calls |-> CallerView[d]]
      BY DEF CallerView
    <3>2. CallerView[c] = "waiting"
      BY <1>5 DEF GiveUp, CallerView
    <3> QED BY <2>2, <2>3, <3>1, <3>2
  <2>5. EngineView' = EngineView
    BY <1>5 DEF GiveUp, EngineView
  <2>6. Service!Leave(c)
    BY <2>4, <2>5 DEF Service!Leave
  <2> QED BY <2>6 DEF Service!Next
<1>6. CASE HangUp(c)
  <2>1. /\ CallerView[c] = "waiting" /\ CallerView' = [CallerView EXCEPT ![c] = "left"]
    BY <1>6, <1>a DEF HangUp, CallerView, TypeOK
  <2>2. EngineView' = EngineView
    BY <1>6 DEF HangUp, EngineView
  <2>3. Service!Leave(c)
    BY <2>1, <2>2 DEF Service!Leave
  <2> QED BY <2>3 DEF Service!Next
<1>7. CASE Deliver(c)
  <2>1. CallerView[c] = "waiting" /\ EngineView' = EngineView
    BY <1>7 DEF Deliver, CallerView, EngineView
  <2>2. result[c] # "aborted"
    BY <1>7 DEF Deliver, IInv, AbortOnlyAbandoned
  <2>3. EngineView[c] = (IF result[c] = "ok" THEN "ok" ELSE "error")
    BY <1>7, <2>2 DEF Deliver, EngineView, RunEnd, InEngine, InSession
  <2>4. ReplyTo(result[c]) \in {"ok", "bad_request", "internal"} /\ (ReplyTo(result[c]) = "ok" <=> result[c] = "ok")
    BY <2>2 DEF ReplyTo
  <2>5. CallerView' = [CallerView EXCEPT ![c] = EngineView[c]]
    BY <1>7, <1>a, <2>3, <2>4 DEF Deliver, CallerView, TypeOK
  <2>6. Service!Answer(c)
    BY <2>1, <2>3, <2>5 DEF Service!Answer
  <2> QED BY <2>6 DEF Service!Next
<1>8. CASE Retire(c)
  <2>1. EngineView[c] # "in" /\ EngineView' = [EngineView EXCEPT ![c] = "out"]
    BY <1>8, <1>a DEF Retire, EngineView, RunEnd, TypeOK, InEngine, InSession
  <2>2. CallerView[c] \notin {"absent", "waiting"}
    BY <1>8, <1>a DEF Retire, CallerView, TypeOK, Replies
  <2>3. CallerView' = [CallerView EXCEPT ![c] = "absent"]
    BY <1>8, <1>a DEF Retire, CallerView, TypeOK
  <2>4. Service!Forget(c)
    BY <2>1, <2>2, <2>3 DEF Service!Forget
  <2> QED BY <2>4 DEF Service!Next
<1>9. CASE ReleasePermit(c)
  <2>1. \A d \in Calls : task'[d] = task[d] \/ (task[d] = "queued" /\ task'[d] = "granted")
    BY <1>9, <1>a, PassPermitTask DEF ReleasePermit, TypeOK
  <2>2. \A d \in Calls : CallerView'[d] = CallerView[d]
    BY <1>9, <1>a, <2>1, SameCaller DEF ReleasePermit
  <2>3. CallerView' = CallerView
    <3>1. CallerView' = [d \in Calls |-> CallerView'[d]] /\ CallerView = [d \in Calls |-> CallerView[d]]
      BY DEF CallerView
    <3> QED BY <2>2, <3>1
  <2> DEFINE end == RunEnd(result[c])
  <2>4. EngineView[c] = "in" /\ EngineView' = [EngineView EXCEPT ![c] = end]
    BY <1>9, <1>a DEF ReleasePermit, EngineView, TypeOK, InEngine, InSession
  <2>5. end \in {"ok", "error", "stopped"} /\ (end = "stopped" => result[c] = "aborted")
    BY DEF RunEnd
  <2>6. end = "stopped" => CallerView[c] = "left"
    BY <2>5 DEF IInv, AbortOnlyAbandoned, CallerView
  <2> HIDE DEF end
  <2>7. Service!Finish(c, end)
    BY <2>3, <2>4, <2>6 DEF Service!Finish
  <2> QED BY <2>5, <2>7 DEF Service!Next
<1>10. CASE Expire(c)
  BY <1>10, <1>a DEF Expire, CallerView, EngineView, TypeOK, InEngine, InSession
<1>11. CASE Refuse(c)
  BY <1>11, <1>a DEF Refuse, CallerView, EngineView, TypeOK, InEngine, InSession
<1>12. CASE LockSession(c)
  BY <1>12, <1>a DEF LockSession, CallerView, EngineView, TypeOK, InEngine, InSession
<1>13. CASE InstallAction(c)
  BY <1>13, <1>a DEF InstallAction, CallerView, EngineView, TypeOK, InEngine, InSession
<1>14. CASE CheckFlag(c)
  BY <1>14, <1>a DEF CheckFlag, CallerView, EngineView, TypeOK, InEngine, InSession
<1>15. CASE RunCompletes(c)
  BY <1>15, <1>a DEF RunCompletes, RunEnds, CallerView, EngineView, TypeOK, InEngine, InSession
<1>16. CASE RunFails(c)
  BY <1>16, <1>a DEF RunFails, RunEnds, CallerView, EngineView, TypeOK, InEngine, InSession
<1>17. CASE RunPanics(c)
  BY <1>17, <1>a DEF RunPanics, RunEnds, CallerView, EngineView, TypeOK, InEngine, InSession
<1>18. CASE RunAborts(c)
  BY <1>18, <1>a DEF RunAborts, RunEnds, CallerView, EngineView, TypeOK, InEngine, InSession
<1>19. CASE DropGuard(c)
  BY <1>19, <1>a DEF DropGuard, CallerView, EngineView, TypeOK, InEngine, InSession
<1>20. CASE UnlockSession(c)
  BY <1>20, <1>a DEF UnlockSession, CallerView, EngineView, TypeOK, InEngine, InSession
<1>21. CASE StoreFlag(c)
  BY <1>21, <1>a DEF StoreFlag, CallerView, EngineView, TypeOK, InEngine, InSession
<1>22. CASE CloneAction(c)
  BY <1>22, <1>a DEF CloneAction, CallerView, EngineView, TypeOK, InEngine, InSession
<1>23. CASE InvokeAction(c)
  BY <1>23, <1>a DEF InvokeAction, CallerView, EngineView, TypeOK, InEngine, InSession
<1> QED BY <1>1, <1>2, <1>3, <1>4, <1>5, <1>6, <1>7, <1>8, <1>9, <1>10, <1>11, <1>12, <1>13, <1>14, <1>15, <1>16, <1>17, <1>18, <1>19, <1>20, <1>21, <1>22, <1>23 DEF TaskStep, JobStep, CancelStep

(* The calls and their runs implement SlotService.                         *)
THEOREM Refinement == Spec => ServiceSpec
<1>1. IInv /\ [Next]_vars => [Service!Next]_<<CallerView, EngineView>>
  <2>1. UNCHANGED vars => UNCHANGED <<CallerView, EngineView>>
    BY DEF vars, CallerView, EngineView
  <2> QED BY <2>1, RefinesNext
<1>2. IInv /\ [Next]_vars => [Service!Next]_Service!vars
  BY <1>1 DEF Service!vars
<1> QED BY <1>2, RefinesInit, Invariance, PTL DEF Spec, ServiceSpec, Service!Spec
=============================================================================
