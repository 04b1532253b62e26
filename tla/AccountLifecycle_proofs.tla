---------------------- MODULE AccountLifecycle_proofs ----------------------
(***************************************************************************)
(* Theorems about AccountLifecycle, for any jobs, tasks and locks.         *)
(***************************************************************************)
EXTENDS AccountLifecycle, SequenceTheorems, FiniteSetTheorems, TLAPS

USE LifecycleAssumption

-----------------------------------------------------------------------------
\* The queue of a lock has its members once each.

IsQueue(q, S) ==
  /\ q \in Seq(Jobs)
  /\ {q[i] : i \in 1 .. Len(q)} = S
  /\ \A i, k \in 1 .. Len(q) : q[i] = q[k] => i = k

LEMMA QueueEmpty == IsQueue(<<>>, {})
  BY DEF IsQueue

LEMMA QueueEmptySet ==
  ASSUME NEW S, IsQueue(<<>>, S)
  PROVE  S = {}
  BY DEF IsQueue

LEMMA QueueAppend ==
  ASSUME NEW q, NEW S, IsQueue(q, S), NEW j \in Jobs, j \notin S
  PROVE  IsQueue(Append(q, j), S \cup {j})
  <1> DEFINE n == Append(q, j)
  <1>1. q \in Seq(Jobs) /\ Len(q) \in Nat
    BY DEF IsQueue
  <1>2. /\ n \in Seq(Jobs) /\ Len(n) = Len(q) + 1 /\ n[Len(q) + 1] = j
        /\ \A i \in 1 .. Len(q) : n[i] = q[i]
    BY <1>1, AppendProperties
  <1>3. \A i \in 1 .. Len(q) + 1 : i = Len(q) + 1 \/ i \in 1 .. Len(q)
    BY <1>1
  <1>4. Len(q) + 1 \in 1 .. Len(q) + 1 /\ 1 .. Len(q) \subseteq 1 .. Len(q) + 1
    BY <1>1
  <1> HIDE DEF n
  <1>5. {n[i] : i \in 1 .. Len(n)} = S \cup {j}
    BY <1>2, <1>3, <1>4 DEF IsQueue
  <1>6. \A i \in 1 .. Len(q) : q[i] # j
    BY DEF IsQueue
  <1>7. \A i, k \in 1 .. Len(n) : n[i] = n[k] => i = k
    BY <1>2, <1>3, <1>6 DEF IsQueue
  <1>8. IsQueue(n, S \cup {j})
    BY <1>2, <1>5, <1>7 DEF IsQueue
  <1> QED
    BY <1>8 DEF n

LEMMA QueueTail ==
  ASSUME NEW q, NEW S, IsQueue(q, S), NEW j \in S, Head(q) = j
  PROVE  IsQueue(Tail(q), S \ {j})
  <1> DEFINE n == Tail(q)
  <1>1. q \in Seq(Jobs) /\ Len(q) \in Nat
    BY DEF IsQueue
  <1>2. q # <<>>
    BY QueueEmptySet
  <1>3. /\ n \in Seq(Jobs) /\ Len(n) = Len(q) - 1 /\ Len(n) \in Nat
        /\ \A i \in 1 .. Len(n) : n[i] = q[i + 1]
        /\ q[1] = j
    BY <1>1, <1>2, HeadTailProperties
  <1>4. \A i \in 1 .. Len(n) : i + 1 \in 1 .. Len(q) /\ i + 1 # 1
    BY <1>1, <1>3
  <1>5. \A k \in 1 .. Len(q) : k = 1 \/ (k - 1 \in 1 .. Len(n) /\ (k - 1) + 1 = k)
    BY <1>1, <1>3
  <1>6. 1 \in 1 .. Len(q)
    BY <1>1, <1>3
  <1> HIDE DEF n
  <1>7. {n[i] : i \in 1 .. Len(n)} = S \ {j}
    <2>1. ASSUME NEW i \in 1 .. Len(n) PROVE n[i] \in S \ {j}
      BY <1>3, <1>4, <1>6 DEF IsQueue
    <2>2. ASSUME NEW x \in S \ {j} PROVE \E i \in 1 .. Len(n) : n[i] = x
      <3>1. PICK k \in 1 .. Len(q) : q[k] = x
        BY DEF IsQueue
      <3>2. k - 1 \in 1 .. Len(n) /\ n[k - 1] = x
        BY <1>3, <1>5, <3>1
      <3> QED
        BY <3>2
    <2> QED
      BY <2>1, <2>2
  <1>8. \A i, k \in 1 .. Len(n) : n[i] = n[k] => i = k
    <2> SUFFICES ASSUME NEW i \in 1 .. Len(n), NEW k \in 1 .. Len(n), n[i] = n[k]
                 PROVE  i = k
      OBVIOUS
    <2>1. i + 1 \in 1 .. Len(q) /\ k + 1 \in 1 .. Len(q) /\ q[i + 1] = q[k + 1]
      BY <1>3, <1>4
    <2>2. i + 1 = k + 1
      BY <2>1 DEF IsQueue
    <2> QED
      BY <1>3, <2>2
  <1>9. IsQueue(n, S \ {j})
    BY <1>3, <1>7, <1>8 DEF IsQueue
  <1> QED
    BY <1>9 DEF n

LEMMA QueueLength ==
  ASSUME NEW q, NEW S, IsQueue(q, S)
  PROVE  Len(q) = Cardinality(S)
  <1>1. q \in Seq(Jobs) /\ Len(q) \in Nat /\ DOMAIN q = 1 .. Len(q)
    BY DEF IsQueue
  <1>2. q = [i \in 1 .. Len(q) |-> q[i]]
    BY <1>1
  <1>3. q \in [1 .. Len(q) -> S]
    BY <1>1, <1>2 DEF IsQueue
  <1>4. q \in Bijection(1 .. Len(q), S)
    <2>1. q \in Injection(1 .. Len(q), S)
      BY <1>3 DEF IsQueue, Injection, IsInjective
    <2>2. q \in Surjection(1 .. Len(q), S)
      BY <1>3 DEF IsQueue, Surjection
    <2> QED
      BY <2>1, <2>2 DEF Bijection
  <1>5. ExistsBijection(1 .. Len(q), S)
    BY <1>4 DEF ExistsBijection
  <1>6. IsFiniteSet(1 .. Len(q)) /\ Cardinality(1 .. Len(q)) = Len(q)
    BY <1>1, FS_Interval
  <1> QED
    BY <1>5, <1>6, FS_Bijection

-----------------------------------------------------------------------------
\* The invariant: types, and of the locks what makes them locks.

JobPcs  == {"idle", "born", "queue", "await", "stop", "done"}
JobType == [pc : JobPcs, after : Removes \cup {Nobody}, lock : Locks \cup {NoLock},
            on : Tasks \cup {NoTask}]
LockType == [holder : Jobs \cup {Nobody}, queue : Seq(Jobs)]
TaskType == [pc : TaskPcs, cancelled : BOOLEAN, blind : BOOLEAN]

Typed ==
  /\ enabled \in BOOLEAN
  /\ tracked \in Tasks \cup {NoTask} /\ inst \in Tasks \cup {NoTask}
  /\ taskLock \in Locks \cup {NoLock}
  /\ lock \in [Locks -> LockType]
  /\ job \in [Jobs -> JobType]
  /\ task \in [Tasks -> TaskType]

\* A job that waits for a lock, or has one, knows which.
JobOK(j) == job[j].pc \in {"queue", "await"} => job[j].lock \in Locks

Waiting(l) == {j \in Jobs : job[j].pc = "queue" /\ job[j].lock = l}

LockOK(l) ==
  /\ IsQueue(lock[l].queue, Waiting(l))
  /\ lock[l].holder # Nobody =>
       job[lock[l].holder].pc = "await" /\ job[lock[l].holder].lock = l

JobsOK  == \A j \in Jobs : JobOK(j)
LocksOK == \A l \in Locks : LockOK(l)

TypeInv == Typed /\ JobsOK /\ LocksOK

LEMMA TypeInvType == TypeInv => TypeOK
  <1> SUFFICES ASSUME TypeInv PROVE TypeOK
    OBVIOUS
  <1>1. LockSound
    <2> SUFFICES ASSUME NEW l \in Locks
                 PROVE  LET waiting == {lock[l].queue[i] : i \in DOMAIN lock[l].queue}
                        IN  /\ lock[l].holder # Nobody =>
                                 /\ job[lock[l].holder].pc = "await"
                                 /\ job[lock[l].holder].lock = l
                            /\ waiting = {j \in Jobs : job[j].pc = "queue" /\ job[j].lock = l}
                            /\ Len(lock[l].queue) = Cardinality(waiting)
      BY DEF LockSound
    <2> DEFINE q == lock[l].queue
    <2>1. LockOK(l) /\ IsQueue(q, Waiting(l))
      BY DEF TypeInv, LocksOK, LockOK
    <2>2. q \in Seq(Jobs) /\ DOMAIN q = 1 .. Len(q)
      BY <2>1 DEF IsQueue
    <2>3. {q[i] : i \in DOMAIN q} = Waiting(l)
      BY <2>1, <2>2 DEF IsQueue
    <2>4. Len(q) = Cardinality(Waiting(l))
      BY <2>1, QueueLength
    <2> QED
      BY <2>1, <2>3, <2>4 DEF LockOK, Waiting
  <1> QED
    BY <1>1 DEF TypeInv, Typed, TypeOK, JobType, JobPcs, LockType, TaskType

-----------------------------------------------------------------------------
\* What the steps on locks do.

\* j may take l, or be let past it.
MayTake(j, l) ==
  /\ job[j].pc # "await" /\ lock[l].holder = Nobody
  /\ IF job[j].pc = "queue" THEN l = job[j].lock /\ Head(lock[l].queue) = j
     ELSE lock[l].queue = <<>>

\* j has l.
Has(j, l) == job[j].pc = "await" /\ l = job[j].lock

\* The record of a job that is done, and of one that awaits t with l.
IdleDone == [Idle EXCEPT !.pc = "done"]

LEMMA DoneFields ==
  IdleDone \in JobType /\ IdleDone.pc = "done"
  BY DEF IdleDone, Idle, JobType, JobPcs

LEMMA FreeMayTake ==
  ASSUME NEW j \in Jobs, NEW l \in Locks, Free(j, l), job[j].pc # "await"
  PROVE  MayTake(j, l)
  BY DEF Free, MayTake

\* Both ways a job is taken off the queue of its lock, if it was there.
LEMMA QueueLeft ==
  ASSUME Typed, LocksOK, NEW j \in Jobs, NEW l \in Locks, MayTake(j, l) \/ Has(j, l)
  PROVE  IsQueue(Queue(j, l), Waiting(l) \ {j}) /\ Queue(j, l) \in Seq(Jobs)
  <1>1. IsQueue(lock[l].queue, Waiting(l))
    BY DEF LocksOK, LockOK
  <1>2. CASE job[j].pc = "queue"
    <2>1. j \in Waiting(l) /\ Head(lock[l].queue) = j
      BY <1>2 DEF MayTake, Has, Waiting
    <2>2. Queue(j, l) = Tail(lock[l].queue)
      BY <1>2 DEF Queue
    <2>3. IsQueue(Tail(lock[l].queue), Waiting(l) \ {j})
      BY <1>1, <2>1, QueueTail
    <2> QED
      BY <2>2, <2>3 DEF IsQueue
  <1>3. CASE job[j].pc # "queue"
    <2>1. j \notin Waiting(l) /\ Queue(j, l) = lock[l].queue
      BY <1>3 DEF Waiting, Queue
    <2> QED
      BY <1>1, <2>1 DEF IsQueue
  <1> QED
    BY <1>2, <1>3

\* A job that has got past lock l, as r says, with h the lock's holder now.
LEMMA PassedLocks ==
  ASSUME Typed, LocksOK, NEW j \in Jobs, NEW l \in Locks, MayTake(j, l) \/ Has(j, l),
         NEW r \in JobType, r.pc # "queue",
         NEW h \in {Nobody, j}, h = j => r.pc = "await" /\ r.lock = l,
         lock' = [lock EXCEPT ![l] = [holder |-> h, queue |-> Queue(j, l)]],
         job' = [job EXCEPT ![j] = r]
  PROVE  /\ lock' \in [Locks -> LockType] /\ job' \in [Jobs -> JobType]
         /\ LocksOK'
  <1>1. job' \in [Jobs -> JobType] /\ job'[j] = r /\ \A k \in Jobs : k # j => job'[k] = job[k]
    BY DEF Typed
  <1>2. IsQueue(Queue(j, l), Waiting(l) \ {j}) /\ Queue(j, l) \in Seq(Jobs)
    BY QueueLeft
  <1>3. /\ lock' \in [Locks -> LockType]
        /\ lock'[l].holder = h /\ lock'[l].queue = Queue(j, l)
        /\ \A m \in Locks : m # l => lock'[m] = lock[m]
    BY <1>2 DEF Typed, LockType
  <1>4. \A m \in Locks : Waiting(m)' = Waiting(m) \ {j}
    BY <1>1 DEF Waiting
  <1>5. ASSUME NEW m \in Locks PROVE LockOK(m)'
    <2>1. CASE m = l
      <3>1. IsQueue(lock'[l].queue, Waiting(l)')
        BY <1>2, <1>3, <1>4
      <3>2. h # Nobody => job'[h].pc = "await" /\ job'[h].lock = l
        BY <1>1
      <3> QED
        BY <2>1, <1>3, <3>1, <3>2 DEF LockOK
    <2>2. CASE m # l
      <3>1. LockOK(m) /\ lock'[m] = lock[m]
        BY <2>2, <1>3 DEF LocksOK
      <3>2. j \notin Waiting(m)
        BY <2>2 DEF Waiting, MayTake, Has
      <3>3. Waiting(m)' = Waiting(m)
        BY <1>4, <3>2
      <3>4. lock[m].holder \in Jobs \cup {Nobody}
        BY DEF Typed, LockType
      <3>5. lock[m].holder # Nobody => lock[m].holder # j
        BY <2>2, <3>1 DEF LockOK, MayTake, Has
      <3> QED
        BY <1>1, <3>1, <3>3, <3>4, <3>5 DEF LockOK
    <2> QED
      BY <2>1, <2>2
  <1> QED
    BY <1>1, <1>3, <1>5 DEF LocksOK

LEMMA JoinLocks ==
  ASSUME Typed, LocksOK, NEW j \in Jobs, job[j].pc \notin {"queue", "await"}, Join(j)
  PROVE  /\ lock' \in [Locks -> LockType] /\ job' \in [Jobs -> JobType] /\ taskLock' = taskLock
         /\ job'[j].pc = "queue" /\ job'[j].lock = taskLock /\ taskLock \in Locks
         /\ \A k \in Jobs : k # j => job'[k] = job[k]
         /\ LocksOK'
  <1>1. PICK l \in Locks : l = taskLock /\ taskLock' = taskLock
    BY DEF Join, Typed
  <1>0. /\ lock' = [lock EXCEPT ![l].queue = Append(lock[l].queue, j)]
        /\ job' = [job EXCEPT ![j].pc = "queue", ![j].lock = l]
    BY <1>1 DEF Join
  <1>2. /\ job' \in [Jobs -> JobType] /\ job'[j].pc = "queue" /\ job'[j].lock = l
        /\ \A k \in Jobs : k # j => job'[k] = job[k]
    <2> DEFINE r == [job[j] EXCEPT !.pc = "queue", !.lock = l]
    <2>1. job \in [Jobs -> JobType] /\ job[j] \in JobType
      BY DEF Typed
    <2>2. r \in JobType /\ r.pc = "queue" /\ r.lock = l
      BY <2>1 DEF JobType, JobPcs
    <2>3. job' = [job EXCEPT ![j] = r]
      BY <1>0, <2>1
    <2> HIDE DEF r
    <2> QED
      BY <2>1, <2>2, <2>3
  <1>3. j \notin Waiting(l)
    BY DEF Waiting
  <1>4. IsQueue(lock[l].queue, Waiting(l))
    BY <1>1 DEF LocksOK, LockOK
  <1>5. /\ IsQueue(Append(lock[l].queue, j), Waiting(l) \cup {j})
        /\ Append(lock[l].queue, j) \in Seq(Jobs)
    <2>1. IsQueue(Append(lock[l].queue, j), Waiting(l) \cup {j})
      BY <1>3, <1>4, QueueAppend
    <2> QED
      BY <2>1 DEF IsQueue
  <1>6. /\ lock' \in [Locks -> LockType]
        /\ lock'[l].holder = lock[l].holder /\ lock'[l].queue = Append(lock[l].queue, j)
        /\ \A m \in Locks : m # l => lock'[m] = lock[m]
    BY <1>0, <1>1, <1>5 DEF Typed, LockType
  <1>7. Waiting(l)' = Waiting(l) \cup {j} /\ \A m \in Locks : m # l => Waiting(m)' = Waiting(m)
    BY <1>2 DEF Waiting
  <1>8. \A m \in Locks : lock[m].holder # Nobody => lock[m].holder # j /\ lock[m].holder \in Jobs
    BY DEF LocksOK, LockOK, Typed, LockType
  <1>9. ASSUME NEW m \in Locks PROVE LockOK(m)'
    <2>1. LockOK(m)
      BY DEF LocksOK
    <2>2. IsQueue(lock'[m].queue, Waiting(m)')
      BY <2>1, <1>5, <1>6, <1>7 DEF LockOK
    <2>3. lock'[m].holder = lock[m].holder
      BY <1>6
    <2> QED
      BY <1>2, <1>8, <2>1, <2>2, <2>3 DEF LockOK
  <1> QED
    BY <1>1, <1>2, <1>6, <1>9 DEF LocksOK

\* Jobs that have no lock, and do not wait for one, change nothing.
LEMMA QuietLocks ==
  ASSUME Typed, LocksOK, lock' = lock, job' \in [Jobs -> JobType],
         \A k \in Jobs : \/ job'[k] = job[k]
                         \/ /\ job[k].pc \notin {"queue", "await"}
                            /\ job'[k].pc \notin {"queue", "await"}
  PROVE  LocksOK'
  <1> SUFFICES ASSUME NEW l \in Locks PROVE LockOK(l)'
    BY DEF LocksOK
  <1>1. LockOK(l)
    BY DEF LocksOK
  <1>2. Waiting(l)' = Waiting(l)
    BY DEF Waiting
  <1>3. lock[l].holder \in Jobs \cup {Nobody}
    BY DEF Typed, LockType
  <1> QED
    BY <1>1, <1>2, <1>3 DEF LockOK

-----------------------------------------------------------------------------
\* What the parts of a step on a lock do.

\* The jobs but j stay as they are.
Others(j) == \A k \in Jobs : k # j => job'[k] = job[k]

\* The locks but l stay as they are, and h has l.
Held(l, h) == lock'[l].holder = h /\ \A m \in Locks : m # l => lock'[m] = lock[m]

LEMMA UnlockProps ==
  ASSUME TypeInv, NEW j \in Jobs, NEW l \in Locks, MayTake(j, l) \/ Has(j, l), Unlock(j, l)
  PROVE  /\ lock' \in [Locks -> LockType] /\ job' \in [Jobs -> JobType]
         /\ LocksOK' /\ JobsOK'
         /\ job'[j].pc = "done" /\ Others(j) /\ Held(l, Nobody)
  <1>1. /\ lock' = [lock EXCEPT ![l] = [holder |-> Nobody, queue |-> Queue(j, l)]]
        /\ job' = [job EXCEPT ![j] = IdleDone]
    BY DEF Unlock, IdleDone
  <1>2. Typed /\ LocksOK /\ JobsOK
    BY DEF TypeInv
  <1>3. IdleDone \in JobType /\ IdleDone.pc = "done"
    BY DoneFields
  <1>4. lock' \in [Locks -> LockType] /\ job' \in [Jobs -> JobType] /\ LocksOK'
    BY <1>1, <1>2, <1>3, PassedLocks
  <1>5. job'[j].pc = "done" /\ Others(j) /\ Held(l, Nobody)
    BY <1>1, <1>2, <1>3 DEF Others, Held, Typed
  <1>6. JobsOK'
    BY <1>2, <1>5 DEF JobsOK, JobOK, Others
  <1> QED
    BY <1>4, <1>5, <1>6

LEMMA HoldProps ==
  ASSUME TypeInv, NEW j \in Jobs, NEW l \in Locks, MayTake(j, l),
         NEW t \in Tasks, Hold(j, l, t)
  PROVE  /\ lock' \in [Locks -> LockType] /\ job' \in [Jobs -> JobType]
         /\ task' \in [Tasks -> TaskType]
         /\ LocksOK' /\ JobsOK'
         /\ job'[j].pc = "await" /\ job'[j].lock = l /\ job'[j].on = t
         /\ Others(j) /\ Held(l, j)
         /\ task'[t].cancelled /\ \A s \in Tasks : s # t => task'[s] = task[s]
  <1> DEFINE r == [job[j] EXCEPT !.pc = "await", !.lock = l, !.on = t]
  <1>1. Typed /\ LocksOK /\ JobsOK
    BY DEF TypeInv
  <1>2. job \in [Jobs -> JobType] /\ job[j] \in JobType
    BY <1>1 DEF Typed
  <1>3. r \in JobType /\ r.pc = "await" /\ r.lock = l /\ r.on = t
    BY <1>2 DEF JobType, JobPcs
  <1>4. /\ lock' = [lock EXCEPT ![l] = [holder |-> j, queue |-> Queue(j, l)]]
        /\ task' = [task EXCEPT ![t].cancelled = TRUE]
    BY DEF Hold
  <1>5. job' = [job EXCEPT ![j] = r]
    <2>1. job' = [job EXCEPT ![j].pc = "await", ![j].lock = l, ![j].on = t]
      BY DEF Hold
    <2> QED
      BY <1>2, <2>1
  <1> HIDE DEF r
  <1>6. lock' \in [Locks -> LockType] /\ job' \in [Jobs -> JobType] /\ LocksOK'
    BY <1>1, <1>3, <1>4, <1>5, PassedLocks
  <1>7. job'[j] = r /\ Others(j) /\ Held(l, j)
    BY <1>1, <1>2, <1>4, <1>5 DEF Others, Held, Typed
  <1>8. JobsOK'
    BY <1>1, <1>3, <1>7 DEF JobsOK, JobOK, Others
  <1>9. /\ task' \in [Tasks -> TaskType]
        /\ task'[t].cancelled /\ \A s \in Tasks : s # t => task'[s] = task[s]
    BY <1>1, <1>4 DEF Typed, TaskType
  <1> QED
    BY <1>3, <1>6, <1>7, <1>8, <1>9

LEMMA LaunchProps ==
  ASSUME Typed, Launch
  PROVE  /\ tracked' \in Tasks /\ task' \in [Tasks -> TaskType]
         /\ \A s \in Tasks : s # tracked' => task'[s] = task[s]
  <1>1. tracked' \in Tasks
    BY DEF Launch
  <1>2. task' = [task EXCEPT ![tracked'].pc = "new"]
    BY DEF Launch
  <1>3. PICK t \in Tasks : t = tracked'
    BY <1>1
  <1> QED
    BY <1>2, <1>3 DEF Typed, TaskType, TaskPcs

\* Waiting in line for a lock leaves the locks' holders alone.
LEMMA JoinProps ==
  ASSUME TypeInv, NEW j \in Jobs, job[j].pc \notin {"queue", "await"}, Join(j)
  PROVE  /\ lock' \in [Locks -> LockType] /\ job' \in [Jobs -> JobType] /\ taskLock' = taskLock
         /\ LocksOK' /\ JobsOK' /\ job'[j].pc = "queue" /\ Others(j)
         /\ taskLock \in Locks
         /\ \A m \in Locks : lock'[m].holder = lock[m].holder
         /\ \A m \in Locks : m # taskLock => lock'[m] = lock[m]
  <1>1. Typed /\ LocksOK /\ JobsOK
    BY DEF TypeInv
  <1>2. /\ lock' \in [Locks -> LockType] /\ job' \in [Jobs -> JobType] /\ taskLock' = taskLock
        /\ job'[j].pc = "queue" /\ job'[j].lock = taskLock /\ taskLock \in Locks
        /\ \A k \in Jobs : k # j => job'[k] = job[k]
        /\ LocksOK'
    BY <1>1, JoinLocks
  <1>3. JobsOK'
    BY <1>1, <1>2 DEF JobsOK, JobOK
  <1>4. lock' = [lock EXCEPT ![taskLock].queue = Append(lock[taskLock].queue, j)]
    BY DEF Join
  <1>5. /\ \A m \in Locks : lock'[m].holder = lock[m].holder
        /\ \A m \in Locks : m # taskLock => lock'[m] = lock[m]
    BY <1>1, <1>2, <1>4 DEF Typed, LockType
  <1> QED
    BY <1>2, <1>3, <1>5 DEF Others

-----------------------------------------------------------------------------
\* One task at a time.

\* A job that waits for the task it has cancelled has the lock it knows.
AwaitsHold == \A j \in Jobs : job[j].pc = "await" => lock[job[j].lock].holder = j

\* No update has begun, and no removal is done.
Premise ==
  /\ \A u \in Updates : job[u].pc \in {"idle", "born"}
  /\ \A r \in Removes : job[r].pc # "done"

\* Under the premise there is one lock, and who has it knows the one live task.
Alone ==
  Premise =>
    /\ \A t \in Tasks : Live(t) => t = tracked
    /\ \A l \in Locks : l # taskLock => lock[l] = Unheld
    /\ \A a \in Adds : job[a].pc = "await" => tracked = job[a].on

IInv == TypeInv /\ AwaitsHold /\ Alone

LEMMA AwaitStep ==
  ASSUME TypeInv, AwaitsHold, NEW j \in Jobs, NEW l \in Locks, MayTake(j, l) \/ Has(j, l),
         NEW h, Others(j), Held(l, h),
         job'[j].pc = "await" => h = j /\ job'[j].lock = l
  PROVE  AwaitsHold'
  <1> SUFFICES ASSUME NEW k \in Jobs, job'[k].pc = "await"
               PROVE  lock'[job'[k].lock].holder = k
    BY DEF AwaitsHold
  <1>1. CASE k = j
    BY <1>1 DEF Held
  <1>2. CASE k # j
    <2>1. job'[k] = job[k] /\ job[k].pc = "await" /\ job[k].lock \in Locks
      BY <1>2 DEF Others, TypeInv, JobsOK, JobOK
    <2>2. lock[job[k].lock].holder = k
      BY <2>1 DEF AwaitsHold
    <2>3. job[k].lock # l
      BY <1>2, <2>1, <2>2 DEF MayTake, Has, AwaitsHold
    <2> QED
      BY <2>1, <2>2, <2>3 DEF Held
  <1> QED
    BY <1>1, <1>2

LEMMA AwaitQuiet ==
  ASSUME TypeInv, AwaitsHold, NEW j \in Jobs, Others(j), job'[j].pc # "await",
         \A m \in Locks : lock'[m].holder = lock[m].holder
  PROVE  AwaitsHold'
  <1> SUFFICES ASSUME NEW k \in Jobs, job'[k].pc = "await"
               PROVE  lock'[job'[k].lock].holder = k
    BY DEF AwaitsHold
  <1>1. k # j /\ job'[k] = job[k] /\ job[k].lock \in Locks
    BY DEF Others, TypeInv, JobsOK, JobOK
  <1> QED
    BY <1>1 DEF AwaitsHold

\* A lock that may be taken, as long as there is one lock only.
LEMMA OneLock ==
  ASSUME IInv, Premise, NEW j \in Jobs, NEW l \in Locks, Free(j, l), MayTake(j, l)
  PROVE  /\ DictLock(j, l) = l
         /\ \A m \in Locks : m # l => lock[m] = Unheld
         /\ \A k \in Jobs : job[k].pc # "await"
  <1>1. \A m \in Locks : m # taskLock => lock[m] = Unheld
    BY DEF IInv, Alone
  <1>2. l = taskLock \/ taskLock = NoLock
    <2>1. CASE job[j].pc = "queue"
      <3>1. j \in Waiting(l) /\ IsQueue(lock[l].queue, Waiting(l))
        BY <2>1 DEF MayTake, Waiting, IInv, TypeInv, LocksOK, LockOK
      <3>2. lock[l] # Unheld
        BY <3>1, QueueEmptySet DEF Unheld
      <3> QED
        BY <1>1, <3>2
    <2>2. CASE job[j].pc # "queue"
      BY <2>2 DEF Free, GetLock
    <2> QED
      BY <2>1, <2>2
  <1>3. DictLock(j, l) = l
    <2>1. CASE job[j].pc = "queue"
      <3>1. j \in Waiting(l) /\ IsQueue(lock[l].queue, Waiting(l))
        BY <2>1 DEF MayTake, Waiting, IInv, TypeInv, LocksOK, LockOK
      <3>2. lock[l] # Unheld
        BY <3>1, QueueEmptySet DEF Unheld
      <3> QED
        BY <1>1, <2>1, <3>2 DEF DictLock
    <2>2. CASE job[j].pc # "queue"
      BY <2>2 DEF DictLock
    <2> QED
      BY <2>1, <2>2
  <1>4. \A m \in Locks : m # l => lock[m] = Unheld
    BY <1>1, <1>2
  <1>5. ASSUME NEW k \in Jobs, job[k].pc = "await"
        PROVE  FALSE
    <2>1. job[k].lock \in Locks /\ lock[job[k].lock].holder = k /\ k # Nobody
      BY <1>5 DEF IInv, TypeInv, JobsOK, JobOK, AwaitsHold
    <2>2. job[k].lock = l
      BY <1>4, <2>1 DEF Unheld
    <2> QED
      BY <2>1, <2>2 DEF MayTake
  <1> QED
    BY <1>3, <1>4, <1>5

\* And one that is had: nobody else awaits anything.
LEMMA OneHolder ==
  ASSUME IInv, Premise, NEW j \in Jobs, NEW l \in Locks, Has(j, l)
  PROVE  /\ l = taskLock
         /\ \A m \in Locks : m # l => lock[m] = Unheld
         /\ \A k \in Jobs : k # j => job[k].pc # "await"
  <1>1. lock[l].holder = j /\ j # Nobody
    BY DEF IInv, AwaitsHold, Has
  <1>2. l = taskLock
    BY <1>1 DEF IInv, Alone, Unheld
  <1>3. \A m \in Locks : m # l => lock[m] = Unheld
    BY <1>2 DEF IInv, Alone
  <1>4. ASSUME NEW k \in Jobs, k # j, job[k].pc = "await"
        PROVE  FALSE
    <2>1. job[k].lock \in Locks /\ lock[job[k].lock].holder = k /\ k # Nobody
      BY <1>4 DEF IInv, TypeInv, JobsOK, JobOK, AwaitsHold
    <2>2. job[k].lock = l
      BY <1>3, <2>1 DEF Unheld
    <2> QED
      BY <1>1, <1>4, <2>1, <2>2
  <1> QED
    BY <1>2, <1>3, <1>4

LEMMA PremiseBack ==
  ASSUME NEW j \in Jobs, Others(j), job[j].pc # "done", Premise',
         job'[j].pc \notin {"idle", "born"} \/ job[j].pc \in {"idle", "born"}
  PROVE  Premise
  <1>1. \A u \in Updates : u \in Jobs /\ job'[u].pc \in {"idle", "born"}
    BY DEF Premise, Jobs
  <1>2. \A r \in Removes : r \in Jobs /\ job'[r].pc # "done"
    BY DEF Premise, Jobs
  <1>3. \A u \in Updates : job[u].pc \in {"idle", "born"}
    BY <1>1 DEF Others
  <1>4. \A r \in Removes : job[r].pc # "done"
    BY <1>2 DEF Others
  <1> QED
    BY <1>3, <1>4 DEF Premise

\* A new task is the only live one, if there was none.
LEMMA LaunchAlone ==
  ASSUME Typed, Launch, \A t \in Tasks : ~Live(t)
  PROVE  \A t \in Tasks : Live(t)' => t = tracked'
  BY LaunchProps DEF Live, Alive

\* Nobody is alive once the one live task has been cancelled.
LEMMA CancelAlone ==
  ASSUME Typed, NEW t \in Tasks, \A s \in Tasks : Live(s) => s = t,
         task'[t].cancelled, \A s \in Tasks : s # t => task'[s] = task[s]
  PROVE  \A s \in Tasks : ~Live(s)'
  BY DEF Live, Alive

LEMMA DictLockType ==
  ASSUME Typed, NEW j \in Jobs, NEW l \in Locks
  PROVE  DictLock(j, l) \in Locks \cup {NoLock}
  BY DEF DictLock, Typed

LEMMA AddEnterInv ==
  ASSUME IInv, NEW j \in Jobs, AddEnter(j)
  PROVE  IInv'
  <1>1. PICK l \in Locks :
          /\ Free(j, l)
          /\ IF Alive(tracked)
             THEN Hold(j, l, tracked) /\ UNCHANGED tracked
             ELSE Unlock(j, l) /\ taskLock' = DictLock(j, l) /\ Launch
    BY DEF AddEnter
  <1>2. job[j].pc \in {"born", "queue"} /\ j \in Adds \cup Updates
    BY DEF AddEnter, Begins
  <1>3. MayTake(j, l) /\ TypeInv /\ Typed
    BY <1>1, <1>2, FreeMayTake DEF IInv, TypeInv
  <1>4. enabled' = enabled /\ inst' = inst
    BY DEF AddEnter
  <1>5. CASE Alive(tracked)
    <2>1. tracked \in Tasks /\ tracked' = tracked
      BY <1>1, <1>3, <1>5 DEF Typed, Alive
    <2>2. PICK t \in Tasks : t = tracked
      BY <2>1
    <2>3. Hold(j, l, t) /\ taskLock' = DictLock(j, l)
      BY <1>1, <1>5, <2>2 DEF Hold
    <2>4. /\ lock' \in [Locks -> LockType] /\ job' \in [Jobs -> JobType]
          /\ task' \in [Tasks -> TaskType]
          /\ LocksOK' /\ JobsOK'
          /\ job'[j].pc = "await" /\ job'[j].lock = l /\ job'[j].on = t
          /\ Others(j) /\ Held(l, j)
          /\ task'[t].cancelled /\ \A s \in Tasks : s # t => task'[s] = task[s]
      BY <1>3, <2>3, HoldProps
    <2>5. TypeInv'
      BY <1>3, <1>4, <2>1, <2>3, <2>4, DictLockType DEF TypeInv, Typed
    <2>6. AwaitsHold'
      BY <1>3, <2>4, AwaitStep DEF IInv
    <2>7. ASSUME Premise'
          PROVE  /\ \A s \in Tasks : Live(s)' => s = tracked'
                 /\ \A m \in Locks : m # taskLock' => lock'[m] = Unheld
                 /\ \A a \in Adds : job'[a].pc = "await" => tracked' = job'[a].on
      <3>1. Premise
        BY <1>2, <2>4, <2>7, PremiseBack
      <3>2. /\ DictLock(j, l) = l
            /\ \A m \in Locks : m # l => lock[m] = Unheld
            /\ \A k \in Jobs : job[k].pc # "await"
        BY <1>1, <1>3, <3>1, OneLock
      <3>3. \A s \in Tasks : ~Live(s)'
        BY <1>3, <2>2, <2>4, <3>1, CancelAlone DEF IInv, Alone
      <3>4. \A m \in Locks : m # taskLock' => lock'[m] = Unheld
        BY <2>3, <2>4, <3>2 DEF Held
      <3>5. \A k \in Jobs : job'[k].pc = "await" => k = j
        BY <2>4, <3>2 DEF Others
      <3> QED
        BY <2>1, <2>2, <2>4, <3>3, <3>4, <3>5 DEF Jobs
    <2> QED
      BY <2>5, <2>6, <2>7 DEF IInv, Alone
  <1>6. CASE ~Alive(tracked)
    <2>1. Unlock(j, l) /\ taskLock' = DictLock(j, l) /\ Launch
      BY <1>1, <1>6
    <2>2. /\ lock' \in [Locks -> LockType] /\ job' \in [Jobs -> JobType]
          /\ LocksOK' /\ JobsOK'
          /\ job'[j].pc = "done" /\ Others(j) /\ Held(l, Nobody)
      BY <1>3, <2>1, UnlockProps
    <2>3. tracked' \in Tasks /\ task' \in [Tasks -> TaskType]
      BY <1>3, <2>1, LaunchProps
    <2>4. TypeInv'
      BY <1>3, <1>4, <2>1, <2>2, <2>3, DictLockType DEF TypeInv, Typed
    <2>5. AwaitsHold'
      BY <1>3, <2>2, AwaitStep DEF IInv
    <2>6. ASSUME Premise'
          PROVE  /\ \A s \in Tasks : Live(s)' => s = tracked'
                 /\ \A m \in Locks : m # taskLock' => lock'[m] = Unheld
                 /\ \A a \in Adds : job'[a].pc = "await" => tracked' = job'[a].on
      <3>1. Premise
        BY <1>2, <2>2, <2>6, PremiseBack
      <3>2. /\ DictLock(j, l) = l
            /\ \A m \in Locks : m # l => lock[m] = Unheld
            /\ \A k \in Jobs : job[k].pc # "await"
        BY <1>1, <1>3, <3>1, OneLock
      <3>3. \A s \in Tasks : ~Live(s)
        BY <1>6, <3>1 DEF IInv, Alone, Live
      <3>4. \A s \in Tasks : Live(s)' => s = tracked'
        BY <1>3, <2>1, <3>3, LaunchAlone
      <3>5. \A m \in Locks : m # taskLock' => lock'[m] = Unheld
        BY <2>1, <2>2, <3>2 DEF Held
      <3>6. \A k \in Jobs : job'[k].pc # "await"
        BY <2>2, <3>2 DEF Others
      <3> QED
        BY <3>4, <3>5, <3>6 DEF Jobs
    <2> QED
      BY <2>4, <2>5, <2>6 DEF IInv, Alone
  <1> QED
    BY <1>5, <1>6

LEMMA AddResumeInv ==
  ASSUME IInv, NEW j \in Jobs, AddResume(j)
  PROVE  IInv'
  <1>1. /\ job[j].pc = "await" /\ ~Alive(job[j].on) /\ Unlock(j, job[j].lock) /\ Launch
        /\ enabled' = enabled /\ inst' = inst /\ taskLock' = taskLock
        /\ j \in Adds \cup Updates
    BY DEF AddResume
  <1>2. TypeInv /\ Typed
    BY DEF IInv, TypeInv
  <1>3. PICK l \in Locks : l = job[j].lock
    BY <1>1, <1>2 DEF TypeInv, JobsOK, JobOK
  <1>4. Has(j, l) /\ Unlock(j, l)
    BY <1>1, <1>3 DEF Has
  <1>5. /\ lock' \in [Locks -> LockType] /\ job' \in [Jobs -> JobType]
        /\ LocksOK' /\ JobsOK'
        /\ job'[j].pc = "done" /\ Others(j) /\ Held(l, Nobody)
    BY <1>2, <1>4, UnlockProps
  <1>6. tracked' \in Tasks /\ task' \in [Tasks -> TaskType]
    BY <1>1, <1>2, LaunchProps
  <1>7. TypeInv'
    BY <1>1, <1>2, <1>5, <1>6 DEF TypeInv, Typed
  <1>8. AwaitsHold'
    BY <1>2, <1>4, <1>5, AwaitStep DEF IInv
  <1>9. ASSUME Premise'
        PROVE  /\ \A s \in Tasks : Live(s)' => s = tracked'
               /\ \A m \in Locks : m # taskLock' => lock'[m] = Unheld
               /\ \A a \in Adds : job'[a].pc = "await" => tracked' = job'[a].on
    <2>1. Premise
      BY <1>1, <1>5, <1>9, PremiseBack
    <2>2. /\ l = taskLock
          /\ \A m \in Locks : m # l => lock[m] = Unheld
          /\ \A k \in Jobs : k # j => job[k].pc # "await"
      BY <1>4, <2>1, OneHolder
    <2>3. j \in Adds
      BY <1>1, <2>1 DEF Premise
    <2>4. \A s \in Tasks : ~Live(s)
      BY <1>1, <2>1, <2>3 DEF IInv, Alone, Live
    <2>5. \A s \in Tasks : Live(s)' => s = tracked'
      BY <1>1, <1>2, <2>4, LaunchAlone
    <2>6. \A m \in Locks : m # taskLock' => lock'[m] = Unheld
      BY <1>1, <1>5, <2>2 DEF Held
    <2>7. \A k \in Jobs : job'[k].pc # "await"
      BY <1>5, <2>2 DEF Others
    <2> QED
      BY <2>5, <2>6, <2>7 DEF Jobs
  <1> QED
    BY <1>7, <1>8, <1>9 DEF IInv, Alone

LEMMA RemoveEnterInv ==
  ASSUME IInv, NEW j \in Jobs, RemoveEnter(j)
  PROVE  IInv'
  <1>1. PICK l \in Locks :
          /\ Free(j, l)
          /\ IF Alive(tracked)
             THEN Hold(j, l, tracked) /\ UNCHANGED inst
             ELSE Forget(j, l) /\ UNCHANGED task
    BY DEF RemoveEnter
  <1>2. job[j].pc \in {"born", "queue"} /\ j \in Removes /\ tracked' = NoTask
    BY DEF RemoveEnter, Begins
  <1>3. MayTake(j, l) /\ TypeInv /\ Typed
    BY <1>1, <1>2, FreeMayTake DEF IInv, TypeInv
  <1>4. enabled' = enabled
    BY DEF RemoveEnter
  <1>5. CASE Alive(tracked)
    <2>1. PICK t \in Tasks : t = tracked
      BY <1>3, <1>5 DEF Typed, Alive
    <2>2. Hold(j, l, t) /\ taskLock' = DictLock(j, l) /\ inst' = inst
      BY <1>1, <1>5, <2>1 DEF Hold
    <2>3. /\ lock' \in [Locks -> LockType] /\ job' \in [Jobs -> JobType]
          /\ task' \in [Tasks -> TaskType]
          /\ LocksOK' /\ JobsOK'
          /\ job'[j].pc = "await" /\ job'[j].lock = l /\ job'[j].on = t
          /\ Others(j) /\ Held(l, j)
          /\ task'[t].cancelled /\ \A s \in Tasks : s # t => task'[s] = task[s]
      BY <1>3, <2>2, HoldProps
    <2>4. TypeInv'
      BY <1>2, <1>3, <1>4, <2>2, <2>3, DictLockType DEF TypeInv, Typed
    <2>5. AwaitsHold'
      BY <1>3, <2>3, AwaitStep DEF IInv
    <2>6. ASSUME Premise'
          PROVE  /\ \A s \in Tasks : Live(s)' => s = tracked'
                 /\ \A m \in Locks : m # taskLock' => lock'[m] = Unheld
                 /\ \A a \in Adds : job'[a].pc = "await" => tracked' = job'[a].on
      <3>1. Premise
        BY <1>2, <2>3, <2>6, PremiseBack
      <3>2. /\ DictLock(j, l) = l
            /\ \A m \in Locks : m # l => lock[m] = Unheld
            /\ \A k \in Jobs : job[k].pc # "await"
        BY <1>1, <1>3, <3>1, OneLock
      <3>3. \A s \in Tasks : ~Live(s)'
        BY <1>3, <2>1, <2>3, <3>1, CancelAlone DEF IInv, Alone
      <3>4. \A m \in Locks : m # taskLock' => lock'[m] = Unheld
        BY <2>2, <2>3, <3>2 DEF Held
      <3>5. \A a \in Adds : job'[a].pc # "await"
        BY <1>2, <2>3, <3>2 DEF Others, Jobs
      <3> QED
        BY <3>3, <3>4, <3>5
    <2> QED
      BY <2>4, <2>5, <2>6 DEF IInv, Alone
  <1>6. CASE ~Alive(tracked)
    <2>1. Unlock(j, l) /\ taskLock' = NoLock /\ inst' = NoTask /\ task' = task
      BY <1>1, <1>6 DEF Forget
    <2>2. /\ lock' \in [Locks -> LockType] /\ job' \in [Jobs -> JobType]
          /\ LocksOK' /\ JobsOK'
          /\ job'[j].pc = "done" /\ Others(j) /\ Held(l, Nobody)
      BY <1>3, <2>1, UnlockProps
    <2>3. TypeInv'
      BY <1>2, <1>3, <1>4, <2>1, <2>2 DEF TypeInv, Typed
    <2>4. AwaitsHold'
      BY <1>3, <2>2, AwaitStep DEF IInv
    <2>5. ~Premise'
      BY <1>2, <2>2 DEF Premise
    <2> QED
      BY <2>3, <2>4, <2>5 DEF IInv, Alone
  <1> QED
    BY <1>5, <1>6

LEMMA RemoveResumeInv ==
  ASSUME IInv, NEW j \in Jobs, RemoveResume(j)
  PROVE  IInv'
  <1>1. /\ job[j].pc = "await" /\ Unlock(j, job[j].lock) /\ taskLock' = NoLock /\ inst' = NoTask
        /\ enabled' = enabled /\ tracked' = tracked /\ task' = task /\ j \in Removes
    BY DEF RemoveResume, Forget
  <1>2. TypeInv /\ Typed
    BY DEF IInv, TypeInv
  <1>3. PICK l \in Locks : l = job[j].lock
    BY <1>1, <1>2 DEF TypeInv, JobsOK, JobOK
  <1>4. Has(j, l) /\ Unlock(j, l)
    BY <1>1, <1>3 DEF Has
  <1>5. /\ lock' \in [Locks -> LockType] /\ job' \in [Jobs -> JobType]
        /\ LocksOK' /\ JobsOK'
        /\ job'[j].pc = "done" /\ Others(j) /\ Held(l, Nobody)
    BY <1>2, <1>4, UnlockProps
  <1>6. TypeInv'
    BY <1>1, <1>2, <1>5 DEF TypeInv, Typed
  <1>7. AwaitsHold'
    BY <1>2, <1>4, <1>5, AwaitStep DEF IInv
  <1>8. ~Premise'
    BY <1>1, <1>5 DEF Premise
  <1> QED
    BY <1>6, <1>7, <1>8 DEF IInv, Alone

LEMMA WaitInv ==
  ASSUME IInv, NEW j \in Jobs, Wait(j)
  PROVE  IInv'
  <1>1. /\ job[j].pc = "born" /\ Join(j) /\ j \in Adds \cup Removes
        /\ enabled' = enabled /\ tracked' = tracked /\ inst' = inst /\ task' = task
    BY DEF Wait, Begins
  <1>2. TypeInv /\ Typed
    BY DEF IInv, TypeInv
  <1>3. /\ lock' \in [Locks -> LockType] /\ job' \in [Jobs -> JobType] /\ taskLock' = taskLock
        /\ LocksOK' /\ JobsOK' /\ job'[j].pc = "queue" /\ Others(j)
        /\ taskLock \in Locks
        /\ \A m \in Locks : lock'[m].holder = lock[m].holder
        /\ \A m \in Locks : m # taskLock => lock'[m] = lock[m]
    BY <1>1, <1>2, JoinProps
  <1>4. TypeInv'
    BY <1>1, <1>2, <1>3 DEF TypeInv, Typed
  <1>5. AwaitsHold'
    BY <1>2, <1>3, AwaitQuiet DEF IInv
  <1>6. ASSUME Premise'
        PROVE  /\ \A s \in Tasks : Live(s)' => s = tracked'
               /\ \A m \in Locks : m # taskLock' => lock'[m] = Unheld
               /\ \A a \in Adds : job'[a].pc = "await" => tracked' = job'[a].on
    <2>1. Premise
      BY <1>1, <1>3, <1>6, PremiseBack
    <2>2. \A s \in Tasks : Live(s)' => s = tracked'
      BY <1>1, <2>1 DEF IInv, Alone, Live, Alive
    <2>3. \A m \in Locks : m # taskLock' => lock'[m] = Unheld
      BY <1>3, <2>1 DEF IInv, Alone
    <2>4. ASSUME NEW a \in Adds, job'[a].pc = "await" PROVE tracked' = job'[a].on
      <3>1. a \in Jobs /\ a # j /\ job'[a] = job[a]
        BY <1>3, <2>4 DEF Jobs, Others
      <3> QED
        BY <1>1, <2>1, <2>4, <3>1 DEF IInv, Alone
    <2> QED
      BY <2>2, <2>3, <2>4
  <1> QED
    BY <1>4, <1>5, <1>6 DEF IInv, Alone

LEMMA UpdateStopInv ==
  ASSUME IInv, NEW j \in Jobs, UpdateStop(j)
  PROVE  IInv'
  <1>1. TypeInv /\ Typed /\ AwaitsHold
    BY DEF IInv, TypeInv
  <1>2. PICK t \in Tasks : t = tracked
    BY <1>1 DEF UpdateStop, Alive, Typed
  <1>3. /\ job[j].pc = "born" /\ j \in Updates
        /\ enabled' = enabled /\ tracked' = tracked /\ inst' = inst
        /\ taskLock' = taskLock /\ lock' = lock
    BY DEF UpdateStop, Begins
  <1>4. /\ task' = [task EXCEPT ![t].cancelled = TRUE]
        /\ job' = [job EXCEPT ![j].pc = "stop", ![j].on = t]
    BY <1>2 DEF UpdateStop
  <1>5. task' \in [Tasks -> TaskType]
    BY <1>1, <1>4 DEF Typed, TaskType
  <1>6. job' \in [Jobs -> JobType] /\ job'[j].pc = "stop" /\ Others(j)
    <2> DEFINE r == [job[j] EXCEPT !.pc = "stop", !.on = t]
    <2>1. job \in [Jobs -> JobType] /\ job[j] \in JobType
      BY <1>1 DEF Typed
    <2>2. r \in JobType /\ r.pc = "stop"
      BY <2>1 DEF JobType, JobPcs
    <2>3. job' = [job EXCEPT ![j] = r]
      BY <1>4, <2>1
    <2> HIDE DEF r
    <2> QED
      BY <2>1, <2>2, <2>3 DEF Others
  <1>7. LocksOK'
    BY <1>1, <1>3, <1>6, QuietLocks DEF TypeInv, Others
  <1>8. JobsOK'
    BY <1>1, <1>6 DEF TypeInv, JobsOK, JobOK, Others
  <1>9. TypeInv'
    BY <1>1, <1>3, <1>5, <1>6, <1>7, <1>8 DEF TypeInv, Typed
  <1>10. AwaitsHold'
    BY <1>1, <1>3, <1>6, AwaitQuiet
  <1>11. ~Premise'
    BY <1>3, <1>6 DEF Premise
  <1> QED
    BY <1>9, <1>10, <1>11 DEF IInv, Alone

LEMMA UpdateAddInv ==
  ASSUME IInv, NEW j \in Jobs, UpdateAdd(j)
  PROVE  IInv'
  <1>1. TypeInv /\ Typed /\ AwaitsHold
    BY DEF IInv, TypeInv
  <1>2. job[j].pc \in {"born", "stop"} /\ j \in Updates /\ enabled' = enabled /\ inst' = NoTask
    BY DEF UpdateAdd, Begins
  <1>3. CASE /\ \E l \in Locks : Free(j, l) /\ Unlock(j, l) /\ taskLock' = l
             /\ Launch
    <2>1. PICK l \in Locks : Free(j, l) /\ Unlock(j, l) /\ taskLock' = l
      BY <1>3
    <2>2. MayTake(j, l)
      BY <1>2, <2>1, FreeMayTake
    <2>3. /\ lock' \in [Locks -> LockType] /\ job' \in [Jobs -> JobType]
          /\ LocksOK' /\ JobsOK'
          /\ job'[j].pc = "done" /\ Others(j) /\ Held(l, Nobody)
      BY <1>1, <2>1, <2>2, UnlockProps
    <2>4. tracked' \in Tasks /\ task' \in [Tasks -> TaskType]
      BY <1>1, <1>3, LaunchProps
    <2>5. TypeInv'
      BY <1>1, <1>2, <2>1, <2>3, <2>4 DEF TypeInv, Typed
    <2>6. AwaitsHold'
      BY <1>1, <2>2, <2>3, AwaitStep
    <2>7. ~Premise'
      BY <1>2, <2>3 DEF Premise
    <2> QED
      BY <2>5, <2>6, <2>7 DEF IInv, Alone
  <1>4. CASE Join(j) /\ tracked' = NoTask /\ UNCHANGED task
    <2>1. /\ lock' \in [Locks -> LockType] /\ job' \in [Jobs -> JobType] /\ taskLock' = taskLock
          /\ LocksOK' /\ JobsOK' /\ job'[j].pc = "queue" /\ Others(j)
          /\ \A m \in Locks : lock'[m].holder = lock[m].holder
      BY <1>1, <1>2, <1>4, JoinProps
    <2>2. TypeInv'
      BY <1>1, <1>2, <1>4, <2>1 DEF TypeInv, Typed
    <2>3. AwaitsHold'
      BY <1>1, <2>1, AwaitQuiet
    <2>4. ~Premise'
      BY <1>2, <2>1 DEF Premise
    <2> QED
      BY <2>2, <2>3, <2>4 DEF IInv, Alone
  <1> QED
    BY <1>3, <1>4 DEF UpdateAdd

\* Requests, and what the tasks do, leave the locks and who is tracked alone.
LEMMA QuietInv ==
  ASSUME IInv, Typed', lock' = lock, taskLock' = taskLock, tracked' = tracked,
         \A k \in Jobs : job'[k] = job[k] \/ (job[k].pc = "idle" /\ job'[k].pc = "born"),
         \A t \in Tasks : Live(t)' => Live(t)
  PROVE  IInv'
  <1>1. TypeInv /\ Typed /\ AwaitsHold /\ job' \in [Jobs -> JobType]
    BY DEF IInv, TypeInv, Typed
  <1>2. LocksOK'
    BY <1>1, QuietLocks DEF TypeInv
  <1>3. JobsOK'
    BY <1>1 DEF TypeInv, JobsOK, JobOK
  <1>4. AwaitsHold'
    BY <1>1 DEF AwaitsHold
  <1>5. ASSUME Premise'
        PROVE  /\ \A s \in Tasks : Live(s)' => s = tracked'
               /\ \A m \in Locks : m # taskLock' => lock'[m] = Unheld
               /\ \A a \in Adds : job'[a].pc = "await" => tracked' = job'[a].on
    <2>1. /\ \A u \in Updates : u \in Jobs /\ job'[u].pc \in {"idle", "born"}
          /\ \A r \in Removes : r \in Jobs /\ job'[r].pc # "done"
      BY <1>5 DEF Premise, Jobs
    <2>2. Premise
      BY <2>1 DEF Premise
    <2>3. \A a \in Adds : a \in Jobs
      BY DEF Jobs
    <2> QED
      BY <2>2, <2>3 DEF IInv, Alone
  <1> QED
    BY <1>1, <1>2, <1>3, <1>4, <1>5 DEF IInv, TypeInv, Alone

\* A job that has just been asked for, after another or not.
LEMMA ArriveFields ==
  ASSUME Typed, NEW j \in Jobs, NEW k \in Removes \cup {Nobody}
  PROVE  Arrive(j, k) \in JobType /\ Arrive(j, k).pc = "born"
  <1>1. job[j] \in JobType
    BY DEF Typed
  <1> QED
    BY <1>1 DEF Arrive, JobType, JobPcs

LEMMA RequestInv ==
  ASSUME IInv, NEW j \in Jobs, Request(j)
  PROVE  IInv'
  <1>1. /\ job[j].pc = "idle" /\ job' = [job EXCEPT ![j] = Arrive(j, Nobody)]
        /\ enabled' = enabled /\ tracked' = tracked /\ inst' = inst
        /\ taskLock' = taskLock /\ lock' = lock /\ task' = task
    BY DEF Request
  <1>2. Typed /\ Arrive(j, Nobody) \in JobType /\ Arrive(j, Nobody).pc = "born"
    BY ArriveFields DEF IInv, TypeInv
  <1>3. Typed'
    BY <1>1, <1>2 DEF Typed
  <1>4. \A k \in Jobs : job'[k] = job[k] \/ (job[k].pc = "idle" /\ job'[k].pc = "born")
    BY <1>1, <1>2 DEF Typed
  <1>5. \A t \in Tasks : Live(t)' => Live(t)
    BY <1>1 DEF Live, Alive
  <1> QED
    BY <1>1, <1>3, <1>4, <1>5, QuietInv

LEMMA RestartInv ==
  ASSUME IInv, NEW r \in Removes, NEW a \in Adds, Restart(r, a)
  PROVE  IInv'
  <1> DEFINE x == Arrive(r, Nobody)
             y == Arrive(a, r)
  <1>1. /\ job[r].pc = "idle" /\ job[a].pc = "idle"
        /\ job' = [job EXCEPT ![r] = x, ![a] = y]
        /\ enabled' = enabled /\ tracked' = tracked /\ inst' = inst
        /\ taskLock' = taskLock /\ lock' = lock /\ task' = task
    BY DEF Restart
  <1>2. r \in Jobs /\ a \in Jobs /\ r # a
    BY DEF Jobs
  <1>3. Typed /\ x \in JobType /\ x.pc = "born" /\ y \in JobType /\ y.pc = "born"
    BY <1>2, ArriveFields DEF IInv, TypeInv
  <1> HIDE DEF x, y
  <1>4. Typed'
    BY <1>1, <1>2, <1>3 DEF Typed
  <1>5. \A k \in Jobs : job'[k] = job[k] \/ (job[k].pc = "idle" /\ job'[k].pc = "born")
    BY <1>1, <1>2, <1>3 DEF Typed
  <1>6. \A t \in Tasks : Live(t)' => Live(t)
    BY <1>1 DEF Live, Alive
  <1> QED
    BY <1>1, <1>4, <1>5, <1>6, QuietInv

LEMMA SetStatusInv ==
  ASSUME IInv, SetStatus
  PROVE  IInv'
  <1>1. /\ enabled' = ~enabled /\ tracked' = tracked /\ inst' = inst
        /\ taskLock' = taskLock /\ lock' = lock /\ task' = task /\ job' = job
    BY DEF SetStatus
  <1>2. Typed'
    BY <1>1 DEF IInv, TypeInv, Typed
  <1>3. \A t \in Tasks : Live(t)' => Live(t)
    BY <1>1 DEF Live, Alive
  <1> QED
    BY <1>1, <1>2, <1>3, QuietInv

\* What a task does to itself.
LEMMA TaskFields ==
  ASSUME Typed, NEW t \in Tasks
  PROVE  /\ \A pc \in TaskPcs : Go(t, pc) =>
              /\ task' \in [Tasks -> TaskType]
              /\ task'[t].pc = pc /\ task'[t].cancelled = task[t].cancelled
              /\ \A s \in Tasks : s # t => task'[s] = task[s]
         /\ Over(t) =>
              /\ task' \in [Tasks -> TaskType]
              /\ task'[t].pc = "ended"
              /\ \A s \in Tasks : s # t => task'[s] = task[s]
  <1>1. ASSUME NEW pc \in TaskPcs, Go(t, pc)
        PROVE  /\ task' \in [Tasks -> TaskType]
               /\ task'[t].pc = pc /\ task'[t].cancelled = task[t].cancelled
               /\ \A s \in Tasks : s # t => task'[s] = task[s]
    BY <1>1 DEF Go, Typed, TaskType
  <1>2. ASSUME Over(t)
        PROVE  /\ task' \in [Tasks -> TaskType]
               /\ task'[t].pc = "ended"
               /\ \A s \in Tasks : s # t => task'[s] = task[s]
    BY <1>2 DEF Over, Typed, TaskType, TaskPcs, Fresh
  <1> QED
    BY <1>1, <1>2

LEMMA TaskInv ==
  ASSUME IInv, NEW t \in Tasks, TaskStep(t) \/ TaskLost(t)
  PROVE  IInv'
  <1>1. Typed
    BY DEF IInv, TypeInv
  <1>2. /\ tracked' = tracked /\ taskLock' = taskLock /\ lock' = lock /\ job' = job
    BY DEF TaskStep, TaskBegin, TaskCheck, TaskLoad, TaskLost, TaskCancelled, TaskEnd
  <1>3. enabled' \in BOOLEAN /\ inst' \in Tasks \cup {NoTask}
    BY <1>1 DEF TaskStep, TaskBegin, TaskCheck, TaskLoad, TaskLost, TaskCancelled, TaskEnd,
                Ends, Typed
  <1>4. /\ task' \in [Tasks -> TaskType]
        /\ \A s \in Tasks : s # t => task'[s] = task[s]
        /\ Live(t)' => Live(t)
    <2> USE DEF Live, Alive, TaskPcs
    <2>1. CASE TaskBegin(t)
      BY <1>1, <2>1, TaskFields DEF TaskBegin, Runs
    <2>2. CASE TaskCheck(t)
      BY <1>1, <2>2, TaskFields DEF TaskCheck, Runs, Ends
    <2>3. CASE TaskLoad(t)
      <3>1. PICK blind \in BOOLEAN :
               task' = [task EXCEPT ![t].blind = blind,
                                    ![t].pc = IF blind \/ enabled THEN "online" ELSE "dying"]
        BY <2>3 DEF TaskLoad
      <3>2. PICK pc \in {"online", "dying"} :
               task' = [task EXCEPT ![t].blind = blind, ![t].pc = pc]
        BY <3>1
      <3> QED
        BY <1>1, <2>3, <3>2 DEF TaskLoad, Runs, Typed, TaskType
    <2>4. CASE TaskLost(t)
      BY <1>1, <2>4, TaskFields DEF TaskLost, Runs
    <2>5. CASE TaskCancelled(t)
      BY <1>1, <2>5, TaskFields DEF TaskCancelled, Ends
    <2>6. CASE TaskEnd(t)
      BY <1>1, <2>6, TaskFields DEF TaskEnd, Ends
    <2> QED
      BY <2>1, <2>2, <2>3, <2>4, <2>5, <2>6 DEF TaskStep
  <1>5. Typed'
    BY <1>1, <1>2, <1>3, <1>4 DEF Typed
  <1>6. \A s \in Tasks : Live(s)' => Live(s)
    BY <1>4 DEF Live, Alive
  <1> QED
    BY <1>2, <1>5, <1>6, QuietInv

-----------------------------------------------------------------------------
\* The invariant holds.

LEMMA InitInv == Init => IInv
  <1> SUFFICES ASSUME Init PROVE IInv
    OBVIOUS
  <1>1. (CHOOSE t \in Tasks : TRUE) \in Tasks /\ (CHOOSE l \in Locks : TRUE) \in Locks
    OBVIOUS
  <1>2. /\ enabled \in BOOLEAN /\ inst = NoTask
        /\ tracked \in {NoTask} \cup (IF enabled THEN {CHOOSE t \in Tasks : TRUE} ELSE {})
        /\ task = [t \in Tasks |-> [Fresh EXCEPT !.pc = IF t = tracked THEN "new" ELSE @]]
        /\ taskLock = IF tracked = NoTask THEN NoLock ELSE CHOOSE l \in Locks : TRUE
        /\ lock = [l \in Locks |-> Unheld]
        /\ job = [j \in Jobs |-> Idle]
    BY DEF Init
  <1>3. tracked \in Tasks \cup {NoTask}
    BY <1>1, <1>2
  <1>4. task \in [Tasks -> TaskType] /\ \A t \in Tasks : t # tracked => task[t].pc = "none"
    BY <1>2 DEF Fresh, TaskType, TaskPcs
  <1>5. lock \in [Locks -> LockType] /\ \A l \in Locks : lock[l] = Unheld
    BY <1>2 DEF LockType, Unheld
  <1>6. job \in [Jobs -> JobType] /\ \A j \in Jobs : job[j].pc = "idle"
    BY <1>2 DEF JobType, JobPcs, Idle
  <1>7. Typed
    BY <1>1, <1>2, <1>3, <1>4, <1>5, <1>6 DEF Typed
  <1>8. \A l \in Locks : Waiting(l) = {}
    BY <1>6 DEF Waiting
  <1>9. LocksOK
    <2>1. \A l \in Locks : lock[l].queue = <<>> /\ lock[l].holder = Nobody
      BY <1>5 DEF Unheld
    <2> QED
      BY <1>8, <2>1, QueueEmpty DEF LocksOK, LockOK
  <1>10. JobsOK /\ AwaitsHold
    BY <1>6 DEF JobsOK, JobOK, AwaitsHold
  <1>11. Alone
    BY <1>4, <1>5, <1>6 DEF Alone, Live, Alive, Jobs
  <1> QED
    BY <1>7, <1>9, <1>10, <1>11 DEF IInv, TypeInv

LEMMA StutterInv == IInv /\ UNCHANGED vars => IInv'
  <1> SUFFICES ASSUME IInv, UNCHANGED vars PROVE IInv'
    OBVIOUS
  <1>1. /\ enabled' = enabled /\ tracked' = tracked /\ inst' = inst /\ taskLock' = taskLock
        /\ lock' = lock /\ task' = task /\ job' = job
    BY DEF vars
  <1>2. Typed'
    BY <1>1 DEF IInv, TypeInv, Typed
  <1>3. \A t \in Tasks : Live(t)' => Live(t)
    BY <1>1 DEF Live, Alive
  <1> QED
    BY <1>1, <1>2, <1>3, QuietInv

LEMMA NextInv == IInv /\ [Next]_vars => IInv'
  <1> SUFFICES ASSUME IInv, [Next]_vars PROVE IInv'
    OBVIOUS
  <1>1. ASSUME NEW j \in Jobs, Request(j) \/ JobStep(j)
        PROVE  IInv'
    BY <1>1, RequestInv, AddEnterInv, AddResumeInv, RemoveEnterInv, RemoveResumeInv,
       WaitInv, UpdateStopInv, UpdateAddInv DEF JobStep
  <1>2. ASSUME NEW r \in Removes, NEW a \in Adds, Restart(r, a)
        PROVE  IInv'
    BY <1>2, RestartInv
  <1>3. ASSUME NEW t \in Tasks, TaskStep(t) \/ TaskLost(t)
        PROVE  IInv'
    BY <1>3, TaskInv
  <1> QED
    BY <1>1, <1>2, <1>3, SetStatusInv, StutterInv DEF Next

LEMMA Invariant == Spec => []IInv
  BY InitInv, NextInv, PTL DEF Spec

-----------------------------------------------------------------------------
\* The theorems.

\* Whoever holds one of the locks of _task_locks awaits a task with it, and its
\* queue has those who wait for it, once each.
THEOREM LocksSound == Spec => []TypeOK
  <1>1. IInv => TypeOK
    BY TypeInvType DEF IInv
  <1> QED
    BY <1>1, Invariant, PTL

\* Starts, and removals still at work, keep the promise of _task_locks: until an
\* update has begun or a removal is done, at most one task of the account has not
\* been told to end.
THEOREM StartsAlone == Spec => []LockedStartsAlone
  <1>1. ASSUME IInv PROVE LockedStartsAlone
    <2> SUFFICES ASSUME Premise PROVE OneTask
      BY DEF LockedStartsAlone, Premise
    <2> QED
      BY <1>1 DEF IInv, Alone, OneTask
  <1> QED
    BY <1>1, Invariant, PTL

=============================================================================
