------------------------ MODULE BrowserSlots_proofs ------------------------
(***************************************************************************)
(* Theorems about BrowserSlots, for any finite set of tasks, any accounts  *)
(* and any number of slots.                                                *)
(***************************************************************************)
EXTENDS BrowserSlots, FiniteSetTheorems, TLAPS

(***************************************************************************)
(* Only the logins that passed the gate end through _run_password_login's  *)
(* finally, only the web panel's fall back; a task releases a slot it does *)
(* not hold once it waited for a face, or falls back; and what is late has *)
(* been asked for.                                                         *)
(***************************************************************************)
PathOK(t) ==
  /\ At(t, "finish") => t \in Gated
  /\ At(t, "fallback") => t \in Panels
  /\ At(t, "idle") => ~task[t].late
  /\ task[t].astray => task[t].pc \in {"face", "open", "unlocked", "finish", "done"}
  /\ At(t, "face") => task[t].astray

Paths == \A t \in Tasks : PathOK(t)

\* An account is locked by the task whose browser runs in its profile.
Locks ==
  /\ \A t \in Tasks : task[t].pc \in {"open", "face"} => lock[AccountOf[t]] = t
  /\ \A a \in Accounts : lock[a] # Nobody =>
       AccountOf[lock[a]] = a /\ task[lock[a]].pc \in {"open", "face"}

\* The entry of an account is that of one of its logins, which is under way or
\* was refused as the account is disabled.
Entries == EntryEnds /\ \A a \in Accounts : gate[a] # Nobody => AccountOf[gate[a]] = a

\* A login of the account of t has ended after its entry had expired.
Overdue(t) == \E u \in Gated \ Underway : AccountOf[u] = AccountOf[t] /\ task[u].late

\* A login that is not late has its entry, or an overdue one took it along.
EntriesKept ==
  \A t \in Gated \cap Underway :
      ~task[t].late => gate[AccountOf[t]] = t \/ Overdue(t)

IInv == TypeOK /\ Paths /\ Locks /\ Entries /\ EntriesKept /\ SlotsCounted

-----------------------------------------------------------------------------
USE SlotsAssumption

\* What a step of t does to the tasks.
StepOf(t) == Ask(t) \/ AskPanel(t) \/ Face(t) \/ Step(t) \/ Expire(t)

\* A record of a task.
TaskType == [pc : Pcs, astray : BOOLEAN, late : BOOLEAN]

LEMMA NextSteps == Next <=> \E t \in Tasks : StepOf(t)
  BY DEF Next, StepOf

LEMMA GotoKeeps ==
  ASSUME TypeOK, NEW t \in Tasks, NEW p \in Pcs, Goto(t, p)
  PROVE  /\ task' \in [Tasks -> TaskType]
         /\ task'[t].pc = p
         /\ task'[t].astray = task[t].astray /\ task'[t].late = task[t].late
         /\ \A s \in Tasks : s # t => task'[s] = task[s]
  BY DEF TypeOK, Goto, TaskType

LEMMA FaceKeeps ==
  ASSUME TypeOK, NEW t \in Tasks, NEW p \in Pcs,
         task' = [task EXCEPT ![t].pc = p, ![t].astray = TRUE]
  PROVE  /\ task' \in [Tasks -> TaskType]
         /\ task'[t].pc = p
         /\ task'[t].astray /\ task'[t].late = task[t].late
         /\ \A s \in Tasks : s # t => task'[s] = task[s]
  BY DEF TypeOK, TaskType

LEMMA ExpireKeeps ==
  ASSUME TypeOK, NEW t \in Tasks, task' = [task EXCEPT ![t].late = TRUE]
  PROVE  /\ task' \in [Tasks -> TaskType]
         /\ task'[t].pc = task[t].pc
         /\ task'[t].astray = task[t].astray /\ task'[t].late
         /\ \A s \in Tasks : s # t => task'[s] = task[s]
  BY DEF TypeOK, TaskType

LEMMA EndPcs ==
  ASSUME NEW t \in Tasks
  PROVE  /\ AtEnd(t) \in {"finish", "done"} /\ AtEnd(t) \in Pcs
         /\ AtEnd(t) = "finish" <=> t \in Gated
         /\ AtRefusal(t) \in {"fallback", "finish", "refused"} /\ AtRefusal(t) \in Pcs
         /\ AtRefusal(t) = "fallback" <=> t \in Panels
         /\ AtRefusal(t) = "refused" <=> t \notin Gated
  BY DEF AtEnd, AtRefusal, Pcs, Ended

\* The other tasks stay as they are.
LEMMA Alone ==
  ASSUME TypeOK, NEW t \in Tasks, StepOf(t)
  PROVE  /\ task' \in [Tasks -> TaskType]
         /\ \A s \in Tasks : s # t => task'[s] = task[s]
  <1> USE DEF Pcs, Ended
  <1>1. CASE Ask(t) BY <1>1, GotoKeeps DEF Ask
  <1>2. CASE AskPanel(t) BY <1>2, GotoKeeps DEF AskPanel
  <1>3. CASE Begin(t) BY <1>3, GotoKeeps DEF Begin
  <1>4. CASE TakeSlot(t) BY <1>4, GotoKeeps DEF TakeSlot
  <1>5. CASE SlotTimeout(t) BY <1>5, GotoKeeps, EndPcs DEF SlotTimeout
  <1>6. CASE TakeLock(t) BY <1>6, GotoKeeps DEF TakeLock
  <1>7. CASE LockTimeout(t) BY <1>7, GotoKeeps, EndPcs DEF LockTimeout
  <1>8. CASE Face(t) BY <1>8, FaceKeeps DEF Face
  <1>9. CASE FaceOver(t) BY <1>9, GotoKeeps DEF FaceOver
  <1>10. CASE Unlock(t) BY <1>10, GotoKeeps DEF Unlock
  <1>11. CASE FreeSlot(t) BY <1>11, GotoKeeps, EndPcs DEF FreeSlot
  <1>12. CASE Fallback(t) BY <1>12, FaceKeeps DEF Fallback
  <1>13. CASE Finish(t) BY <1>13, GotoKeeps DEF Finish
  <1>14. CASE Expire(t) BY <1>14, ExpireKeeps DEF Expire
  <1> QED
    BY <1>1, <1>2, <1>3, <1>4, <1>5, <1>6, <1>7, <1>8, <1>9, <1>10, <1>11,
       <1>12, <1>13, <1>14 DEF StepOf, Step

-----------------------------------------------------------------------------
\* Each step: where it takes the task from and to, and what it does to the lock,
\* the gate and the counter.

Lowered == active' = IF active > 0 THEN active - 1 ELSE 0

Moves(t, from, to) ==
  /\ task[t].pc = from /\ task'[t].pc = to
  /\ task'[t].astray = task[t].astray /\ task'[t].late = task[t].late

LEMMA Effects ==
  ASSUME TypeOK, NEW t \in Tasks, StepOf(t)
  PROVE  \/ /\ Moves(t, "idle", "pool") /\ UNCHANGED <<active, lock>>
            /\ IF t \in Gated THEN Enter(t) ELSE gate' = gate
         \/ /\ Moves(t, "idle", "slot") \/ Moves(t, "idle", "refused")
            /\ Enter(t) /\ t \in Gated /\ UNCHANGED <<active, lock>>
         \/ Moves(t, "pool", "slot") /\ UNCHANGED <<active, lock, gate>>
         \/ /\ Moves(t, "slot", "lock") /\ active < MaxSlots /\ active' = active + 1
            /\ UNCHANGED <<lock, gate>>
         \/ Moves(t, "slot", AtRefusal(t)) /\ UNCHANGED <<active, lock, gate>>
         \/ /\ Moves(t, "lock", "open") /\ lock[AccountOf[t]] \in {Nobody, t}
            /\ lock' = [lock EXCEPT ![AccountOf[t]] = t]
            /\ UNCHANGED <<active, gate>>
         \/ Moves(t, "lock", AtRefusal(t)) /\ Lowered /\ UNCHANGED <<lock, gate>>
         \/ /\ task[t].pc = "open" /\ ~task[t].astray
            /\ task'[t].pc = "face" /\ task'[t].astray /\ task'[t].late = task[t].late
            /\ Lowered /\ UNCHANGED <<lock, gate>>
         \/ Moves(t, "face", "open") /\ UNCHANGED <<active, lock, gate>>
         \/ /\ Moves(t, "open", "unlocked")
            /\ lock' = [lock EXCEPT ![AccountOf[t]] = Nobody]
            /\ UNCHANGED <<active, gate>>
         \/ Moves(t, "unlocked", AtEnd(t)) /\ Lowered /\ UNCHANGED <<lock, gate>>
         \/ /\ task[t].pc = "fallback" /\ task'[t].pc = "finish"
            /\ task'[t].astray /\ task'[t].late = task[t].late
            /\ Lowered /\ UNCHANGED <<lock, gate>>
         \/ /\ Moves(t, "finish", "done") /\ UNCHANGED <<active, lock>>
            /\ gate' = [gate EXCEPT ![AccountOf[t]] = Nobody]
         \/ /\ task'[t].pc = task[t].pc /\ task'[t].astray = task[t].astray
            /\ task'[t].late /\ gate[AccountOf[t]] = t
            /\ gate' = [gate EXCEPT ![AccountOf[t]] = Nobody]
            /\ UNCHANGED <<active, lock>>
  <1> USE DEF Pcs, Ended, At, Moves, Lowered, Release
  <1>1. CASE Ask(t) BY <1>1, GotoKeeps DEF Ask
  <1>2. CASE AskPanel(t) BY <1>2, GotoKeeps DEF AskPanel
  <1>3. CASE Begin(t) BY <1>3, GotoKeeps DEF Begin
  <1>4. CASE TakeSlot(t) BY <1>4, GotoKeeps DEF TakeSlot
  <1>5. CASE SlotTimeout(t) BY <1>5, GotoKeeps, EndPcs DEF SlotTimeout
  <1>6. CASE TakeLock(t) BY <1>6, GotoKeeps DEF TakeLock
  <1>7. CASE LockTimeout(t) BY <1>7, GotoKeeps, EndPcs DEF LockTimeout
  <1>8. CASE Face(t) BY <1>8, FaceKeeps DEF Face
  <1>9. CASE FaceOver(t) BY <1>9, GotoKeeps DEF FaceOver
  <1>10. CASE Unlock(t) BY <1>10, GotoKeeps DEF Unlock
  <1>11. CASE FreeSlot(t) BY <1>11, GotoKeeps, EndPcs DEF FreeSlot
  <1>12. CASE Fallback(t) BY <1>12, FaceKeeps DEF Fallback
  <1>13. CASE Finish(t) BY <1>13, GotoKeeps DEF Finish
  <1>14. CASE Expire(t) BY <1>14, ExpireKeeps DEF Expire
  <1> QED
    BY <1>1, <1>2, <1>3, <1>4, <1>5, <1>6, <1>7, <1>8, <1>9, <1>10, <1>11,
       <1>12, <1>13, <1>14 DEF StepOf, Step

-----------------------------------------------------------------------------
\* The steps preserve the invariant, part by part.

LEMMA TypeStep ==
  ASSUME TypeOK, Entries, NEW t \in Tasks, StepOf(t)
  PROVE  TypeOK'
  <1>1. task' \in [Tasks -> TaskType]
    BY Alone
  <1>2. active' \in 0 .. MaxSlots
    BY Effects DEF TypeOK, Lowered, Enter
  <1>3. lock' \in [Accounts -> Tasks \cup {Nobody}]
    BY Effects DEF TypeOK, Lowered, Enter
  <1>4. gate' \in [Accounts -> Gated \cup {Nobody}]
    BY Effects DEF TypeOK, Lowered, Enter
  <1> QED
    BY <1>1, <1>2, <1>3, <1>4 DEF TypeOK, TaskType

LEMMA PathStep ==
  ASSUME TypeOK, Entries, Paths, NEW t \in Tasks, StepOf(t)
  PROVE  Paths'
  <1>1. PathOK(t)
    BY DEF Paths
  <1>2. gate[AccountOf[t]] = t => ~At(t, "idle")
    <2> SUFFICES ASSUME gate[AccountOf[t]] = t PROVE task[t].pc # "idle"
      BY DEF At
    <2>1. AccountOf[t] \in Accounts /\ gate[AccountOf[t]] # Nobody
      OBVIOUS
    <2>2. t \in Underway \/ At(t, "refused")
      BY <2>1 DEF Entries, EntryEnds
    <2> QED
      BY <2>2 DEF Underway, At
  <1>3. PathOK(t)'
    BY <1>1, <1>2, Effects, EndPcs DEF PathOK, At, Moves
  <1>4. \A s \in Tasks : s # t => PathOK(s)'
    BY Alone DEF Paths, PathOK, At
  <1> QED
    BY <1>3, <1>4 DEF Paths

LEMMA LockStep ==
  ASSUME TypeOK, Locks, NEW t \in Tasks, StepOf(t)
  PROVE  Locks'
  <1> DEFINE b == AccountOf[t]
             Works(p) == p \in {"open", "face"}
  <1>1. b \in Accounts /\ t # Nobody /\ DOMAIN lock = Accounts
    BY DEF TypeOK
  <1>2. \/ lock' = lock /\ (Works(task'[t].pc) <=> Works(task[t].pc))
        \/ lock' = [lock EXCEPT ![b] = t] /\ lock[b] \in {Nobody, t} /\ Works(task'[t].pc)
        \/ /\ lock' = [lock EXCEPT ![b] = Nobody]
           /\ Works(task[t].pc) /\ ~Works(task'[t].pc)
    BY Effects, EndPcs DEF Moves
  <1>3. \A s \in Tasks : s # t => task'[s] = task[s]
    BY Alone
  <1>4. /\ \A s \in Tasks : Works(task[s].pc) => lock[AccountOf[s]] = s
        /\ \A a \in Accounts : lock[a] # Nobody =>
             AccountOf[lock[a]] = a /\ Works(task[lock[a]].pc) /\ lock[a] \in Tasks
    BY DEF Locks, TypeOK
  <1> HIDE DEF Works
  <1>5. \A s \in Tasks : Works(task'[s].pc) => lock'[AccountOf[s]] = s
    BY <1>1, <1>2, <1>3, <1>4
  <1>6. \A a \in Accounts : lock'[a] # Nobody =>
             AccountOf[lock'[a]] = a /\ Works(task'[lock'[a]].pc)
    BY <1>1, <1>2, <1>3, <1>4
  <1> QED
    BY <1>5, <1>6 DEF Locks, Works

LEMMA EntryStep ==
  ASSUME TypeOK, Paths, Entries, NEW t \in Tasks, StepOf(t)
  PROVE  Entries'
  <1> DEFINE b == AccountOf[t]
             Owns(p) == p \notin {"idle", "done"}
  <1>1. b \in Accounts /\ t # Nobody
    OBVIOUS
  <1>2. \/ gate' = gate /\ (t \in Gated /\ Owns(task[t].pc) => Owns(task'[t].pc))
        \/ gate' = [gate EXCEPT ![b] = t] /\ Owns(task'[t].pc) /\ t \in Gated
        \/ gate' = [gate EXCEPT ![b] = Nobody]
    BY Effects, EndPcs DEF Moves, Enter
  <1>3. \A s \in Tasks : s # t => task'[s] = task[s]
    BY Alone
  <1>4. \A a \in Accounts : gate[a] # Nobody =>
             AccountOf[gate[a]] = a /\ Owns(task[gate[a]].pc) /\ gate[a] \in Gated
    BY DEF Entries, EntryEnds, Underway, At, TypeOK, Ended
  <1> HIDE DEF Owns
  <1>5. \A a \in Accounts : gate'[a] # Nobody =>
             AccountOf[gate'[a]] = a /\ Owns(task'[gate'[a]].pc) /\ gate'[a] \in Gated
    BY <1>1, <1>2, <1>3, <1>4 DEF TypeOK
  <1>6. \A s \in Tasks : Owns(task'[s].pc) => s \in Underway' \/ At(s, "refused")'
    BY DEF Underway, At, Ended, Owns
  <1>7. ASSUME NEW a \in Accounts, gate'[a] # Nobody
        PROVE  gate'[a] \in Underway' \/ task'[gate'[a]].pc = "refused"
    BY <1>5, <1>6, <1>7 DEF At
  <1> QED
    BY <1>5, <1>7 DEF Entries, EntryEnds, At

LEMMA KeptStep ==
  ASSUME TypeOK, Paths, Entries, EntriesKept, NEW t \in Tasks, StepOf(t)
  PROVE  EntriesKept'
  <1> DEFINE Over(r) == r.pc \in Ended /\ r.late
             Busy(r) == r.pc # "idle" /\ r.pc \notin Ended
  <1>1. AccountOf[t] \in Accounts /\ t # Nobody /\ DOMAIN gate = Accounts
    BY DEF TypeOK
  <1>2. \A s \in Tasks : s # t => task'[s] = task[s]
    BY Alone
  <1>3. Over(task[t]) => Over(task'[t])
    BY Effects DEF Moves, Ended
  <1>4. ASSUME NEW s \in Tasks
        PROVE  Overdue(s) <=> \E u \in Gated : AccountOf[u] = AccountOf[s] /\ Over(task[u])
    <2>1. \A u \in Gated : u \notin Underway /\ task[u].late <=> Over(task[u])
      BY DEF Paths, PathOK, Underway, At
    <2> QED
      BY <2>1 DEF Overdue
  <1>5. ASSUME NEW s \in Tasks
        PROVE  Overdue(s)' <=> \E u \in Gated : AccountOf[u] = AccountOf[s] /\ Over(task'[u])
    <2>1. Paths'
      BY PathStep
    <2>2. \A u \in Gated : (u \notin Underway)' /\ task'[u].late <=> Over(task'[u])
      BY <2>1 DEF Paths, PathOK, Underway, At
    <2> QED
      BY <2>2 DEF Overdue
  <1>6. \A s \in Tasks : Overdue(s) => Overdue(s)'
    BY <1>2, <1>3, <1>4, <1>5
  <1>7. /\ \A s \in Tasks : s \in Underway <=> Busy(task[s])
        /\ \A s \in Tasks : s \in Underway' <=> Busy(task'[s])
    BY DEF Underway, At
  <1>8. SUFFICES ASSUME NEW s \in Gated, Busy(task'[s]), ~task'[s].late
                 PROVE  gate'[AccountOf[s]] = s \/ Overdue(s)'
    BY <1>7 DEF EntriesKept
  <1>9. s \in Tasks /\ AccountOf[s] \in Accounts /\ s # Nobody
    OBVIOUS
  <1>10. Busy(task[s]) /\ ~task[s].late => gate[AccountOf[s]] = s \/ Overdue(s)
    BY <1>7, <1>9 DEF EntriesKept
  <1>11. CASE s = t
    <2>1. \/ gate' = [gate EXCEPT ![AccountOf[t]] = t]
          \/ gate' = gate /\ Busy(task[t]) /\ ~task[t].late
      BY <1>8, <1>11, Effects DEF Moves, Enter, Ended
    <2> HIDE DEF Busy
    <2> QED
      BY <2>1, <1>1, <1>6, <1>9, <1>10, <1>11
  <1>12. CASE s # t
    <2>1. gate[AccountOf[s]] = s \/ Overdue(s)
      BY <1>2, <1>8, <1>9, <1>10, <1>12
    <2>2. CASE Overdue(s)
      BY <2>2, <1>6, <1>9
    <2>3. CASE gate[AccountOf[s]] = s /\ gate'[AccountOf[s]] # s
      <3>1. /\ AccountOf[t] = AccountOf[s] /\ gate[AccountOf[t]] = s
            /\ Moves(t, "finish", "done")
        BY <2>3, <1>1, <1>9, <1>12, Effects DEF Enter
      <3>2. t \in Gated /\ t \in Underway
        BY <3>1, <1>7 DEF Paths, PathOK, At, Moves, Ended
      <3>3. task[t].late \/ Overdue(t)
        BY <3>1, <3>2, <1>12 DEF EntriesKept
      <3>4. CASE task[t].late
        BY <3>1, <3>2, <3>4, <1>5, <1>9 DEF Moves, Ended
      <3>5. CASE Overdue(t)
        BY <3>1, <3>5, <1>4, <1>6, <1>9
      <3> QED
        BY <3>3, <3>4, <3>5
    <2> QED
      BY <2>1, <2>2, <2>3
  <1> QED
    BY <1>11, <1>12

\* A task that holds a slot, and one that released a slot it did not hold.
Holds(r) == r.pc \in {"lock", "open", "unlocked"} /\ ~r.astray
Exceeds(r) == r.astray /\ r.pc \in {"finish", "done"}

LEMMA Counts ==
  TypeOK => /\ IsFiniteSet(Holders) /\ IsFiniteSet(Excess)
            /\ Cardinality(Holders) \in Nat /\ Cardinality(Excess) \in Nat
  <1>1. Holders \in SUBSET Tasks /\ Excess \in SUBSET Tasks
    BY DEF Holders, Excess
  <1>2. IsFiniteSet(Holders) /\ IsFiniteSet(Excess)
    BY <1>1, FS_Subset
  <1> QED
    BY <1>2, FS_CardinalityType

\* The numbers of holders and of releases too many change with the task alone.
LEMMA Recount ==
  ASSUME TypeOK, NEW t \in Tasks, StepOf(t)
  PROVE  /\ Cardinality(Holders') =
              IF Holds(task[t]) /\ ~Holds(task'[t]) THEN Cardinality(Holders) - 1
              ELSE IF ~Holds(task[t]) /\ Holds(task'[t]) THEN Cardinality(Holders) + 1
              ELSE Cardinality(Holders)
         /\ ~Exceeds(task[t]) /\ Exceeds(task'[t]) =>
              Cardinality(Excess') = Cardinality(Excess) + 1
         /\ (Exceeds(task[t]) <=> Exceeds(task'[t])) =>
              Cardinality(Excess') = Cardinality(Excess)
  <1>1. /\ Holders = {s \in Tasks : Holds(task[s])}
        /\ Holders' = {s \in Tasks : Holds(task'[s])}
        /\ Excess = {s \in Tasks : Exceeds(task[s])}
        /\ Excess' = {s \in Tasks : Exceeds(task'[s])}
    BY DEF Holders, Excess, Holds, Exceeds
  <1>2. \A s \in Tasks : s # t => task'[s] = task[s]
    BY Alone
  <1>3. t \in Holders <=> Holds(task[t])
    BY <1>1
  <1>4. t \in Excess <=> Exceeds(task[t])
    BY <1>1
  <1>5. Holders' = IF Holds(task'[t]) THEN Holders \cup {t} ELSE Holders \ {t}
    BY <1>1, <1>2
  <1>6. Excess' = IF Exceeds(task'[t]) THEN Excess \cup {t} ELSE Excess \ {t}
    BY <1>1, <1>2
  <1>7. /\ Cardinality(Holders \cup {t}) =
             IF t \in Holders THEN Cardinality(Holders) ELSE Cardinality(Holders) + 1
        /\ Cardinality(Holders \ {t}) =
             IF t \in Holders THEN Cardinality(Holders) - 1 ELSE Cardinality(Holders)
    BY Counts, FS_AddElement, FS_RemoveElement
  <1>8. /\ Cardinality(Excess \cup {t}) =
             IF t \in Excess THEN Cardinality(Excess) ELSE Cardinality(Excess) + 1
        /\ Cardinality(Excess \ {t}) =
             IF t \in Excess THEN Cardinality(Excess) - 1 ELSE Cardinality(Excess)
    BY Counts, FS_AddElement, FS_RemoveElement
  <1>9. /\ Cardinality(Holders') =
              IF Holds(task[t]) /\ ~Holds(task'[t]) THEN Cardinality(Holders) - 1
              ELSE IF ~Holds(task[t]) /\ Holds(task'[t]) THEN Cardinality(Holders) + 1
              ELSE Cardinality(Holders)
    <2>1. CASE Holds(task'[t])
      BY <2>1, <1>3, <1>5, <1>7
    <2>2. CASE ~Holds(task'[t])
      BY <2>2, <1>3, <1>5, <1>7
    <2> QED
      BY <2>1, <2>2
  <1>10. ~Exceeds(task[t]) /\ Exceeds(task'[t]) => Cardinality(Excess') = Cardinality(Excess) + 1
    BY <1>4, <1>6, <1>8
  <1>11. (Exceeds(task[t]) <=> Exceeds(task'[t])) => Cardinality(Excess') = Cardinality(Excess)
    BY <1>4, <1>6, <1>8
  <1> QED
    BY <1>9, <1>10, <1>11

LEMMA CountStep ==
  ASSUME TypeOK, Paths, SlotsCounted, NEW t \in Tasks, StepOf(t)
  PROVE  SlotsCounted'
  <1> DEFINE h == Cardinality(Holders)
             e == Cardinality(Excess)
             Gains == ~Holds(task[t]) /\ Holds(task'[t])
             Loses == Holds(task[t]) /\ ~Holds(task'[t])
             Same  == Holds(task[t]) <=> Holds(task'[t])
             Strays == ~Exceeds(task[t]) /\ Exceeds(task'[t])
             Stays  == Exceeds(task[t]) <=> Exceeds(task'[t])
  <1>1. h \in Nat /\ e \in Nat /\ active \in Nat /\ active <= h /\ h <= active + e
    BY Counts DEF SlotsCounted, TypeOK
  <1>2. PathOK(t)
    BY DEF Paths
  <1>3. \/ active' = active /\ Same /\ Stays
        \/ active' = active + 1 /\ Gains /\ Stays
        \/ Lowered /\ Loses /\ Stays
        \/ Lowered /\ Same /\ Strays
    BY <1>2, Effects, EndPcs DEF Moves, PathOK, At, Holds, Exceeds
  <1>4. /\ Loses => Cardinality(Holders') = h - 1
        /\ Gains => Cardinality(Holders') = h + 1
        /\ Same => Cardinality(Holders') = h
        /\ Strays => Cardinality(Excess') = e + 1
        /\ Stays => Cardinality(Excess') = e
    BY Recount
  <1>5. Loses => h >= 1
    <2> SUFFICES ASSUME Loses PROVE h # 0
      BY <1>1
    <2>1. t \in Holders
      BY DEF Holders, Holds
    <2> QED
      BY <2>1, Counts, FS_EmptySet
  <1> HIDE DEF h, e, Gains, Loses, Same, Strays, Stays
  <1> QED
    BY <1>1, <1>3, <1>4, <1>5 DEF Lowered, SlotsCounted, h, e

-----------------------------------------------------------------------------
\* The invariant holds.

LEMMA InitInv == Init => IInv
  <1> SUFFICES ASSUME Init PROVE IInv
    OBVIOUS
  <1>1. \A t \in Tasks : task[t] = Fresh
    BY DEF Init
  <1>2. \A t \in Tasks : task[t].pc = "idle" /\ ~task[t].astray /\ ~task[t].late
    BY <1>1 DEF Fresh
  <1>3. TypeOK
    BY DEF TypeOK, Init, Fresh, Pcs
  <1>4. Paths
    BY <1>2 DEF Paths, PathOK, At
  <1>5. Locks
    BY <1>2 DEF Locks, Init
  <1>6. Entries /\ EntriesKept
    BY <1>2 DEF Entries, EntryEnds, EntriesKept, Underway, At, Init
  <1>7. SlotsCounted
    <2>1. Holders = {} /\ Excess = {}
      BY <1>2 DEF Holders, Excess
    <2> QED
      BY <2>1, FS_EmptySet DEF SlotsCounted, Init
  <1> QED
    BY <1>3, <1>4, <1>5, <1>6, <1>7 DEF IInv

LEMMA NextInv == IInv /\ [Next]_vars => IInv'
  <1>1. ASSUME IInv, NEW t \in Tasks, StepOf(t)
        PROVE  IInv'
    BY <1>1, TypeStep, PathStep, LockStep, EntryStep, KeptStep, CountStep DEF IInv
  <1>2. ASSUME IInv, UNCHANGED vars
        PROVE  IInv'
    <2>1. active' = active /\ lock' = lock /\ gate' = gate /\ task' = task
      BY <1>2 DEF vars
    <2>2. Underway' = Underway /\ Holders' = Holders /\ Excess' = Excess
      BY <2>1 DEF Underway, Holders, Excess, At
    <2>3. (TypeOK /\ Paths /\ Locks)'
      BY <1>2, <2>1 DEF IInv, TypeOK, Paths, PathOK, Locks, At
    <2>4. (Entries /\ EntriesKept)'
      BY <1>2, <2>1, <2>2 DEF IInv, Entries, EntryEnds, EntriesKept, Overdue, At
    <2>5. SlotsCounted'
      BY <1>2, <2>1, <2>2 DEF IInv, SlotsCounted
    <2> QED
      BY <2>3, <2>4, <2>5 DEF IInv
  <1> QED
    BY <1>1, <1>2, NextSteps

LEMMA Invariant == Spec => []IInv
  BY InitInv, NextInv, PTL DEF Spec

-----------------------------------------------------------------------------
\* The theorems.

\* The counter stays between 0 and the number of slots, and the dictionaries of
\* locks and entries hold tasks only.
THEOREM TypesKept == Spec => []TypeOK
  <1>1. IInv => TypeOK
    BY DEF IInv
  <1> QED
    BY <1>1, Invariant, PTL

\* BrowserSlotManager counts every browser at work, and falls behind by no more
\* than the releases too many of the logins that waited for a face or fell back.
THEOREM EverySlotCounted == Spec => []SlotsCounted
  <1>1. IInv => SlotsCounted
    BY DEF IInv
  <1> QED
    BY <1>1, Invariant, PTL

\* However browsers start, wait for a face and close: two of them never run in
\* the profile of one account.
THEOREM OneBrowserPerProfile == Spec => []ProfileExclusive
  <1>1. IInv => ProfileExclusive
    BY DEF IInv, Locks, ProfileExclusive, SameAccount
  <1> QED
    BY <1>1, Invariant, PTL

\* The gate of password logins: two logins of an account run at a time only
\* after a login that outlived its entry has deleted another's.
THEOREM OneLoginAtATime == Spec => []OneLogin
  <1>1. IInv => OneLogin
    <2> SUFFICES ASSUME IInv, NEW s \in Gated \cap Underway, NEW t \in Gated \cap Underway,
                        SameAccount(s, t), ~task[s].late, ~task[t].late
                 PROVE  \E u \in Gated \ Underway : SameAccount(s, u) /\ task[u].late
      BY DEF OneLogin
    <2>1. AccountOf[s] = AccountOf[t] /\ s # t
      BY DEF SameAccount
    <2>2. /\ gate[AccountOf[s]] = s \/ Overdue(s)
          /\ gate[AccountOf[t]] = t \/ Overdue(t)
      BY DEF IInv, EntriesKept
    <2>3. Overdue(s)
      BY <2>1, <2>2 DEF Overdue
    <2> QED
      BY <2>1, <2>3 DEF Overdue, SameAccount
  <1> QED
    BY <1>1, Invariant, PTL

\* The entry of an account is never that of a login that has ended, but for the
\* one a disabled account left behind.
THEOREM EveryEntryEnds == Spec => []EntryEnds
  <1>1. IInv => EntryEnds
    BY DEF IInv, Entries
  <1> QED
    BY <1>1, Invariant, PTL

\* As slots are taken before accounts and threads before slots, and a login that
\* waits for a face has given up its slot: as long as tasks are under way, one of
\* them can go on, and nobody waits for a timeout only.
THEOREM NeverStandsStill == Spec => []NoStandstill
  <1>1. IInv => NoStandstill
    <2> SUFFICES ASSUME IInv, \A t \in Underway : Blocked(t)
                 PROVE  Underway = {}
      BY DEF NoStandstill
    <2>1. \A t \in Underway : t \in Tasks
      BY DEF Underway
    <2>2. \A t \in Underway : task[t].pc \in {"pool", "slot", "lock"}
      BY DEF Blocked, At
    <2>3. \A t \in Underway : task[t].pc # "lock"
      <3> SUFFICES ASSUME NEW t \in Underway, task[t].pc = "lock"
                   PROVE  FALSE
        OBVIOUS
      <3> DEFINE s == lock[AccountOf[t]]
      <3>1. s # Nobody /\ AccountOf[t] \in Accounts
        BY <2>1 DEF Blocked, At
      <3>2. s \in Tasks /\ task[s].pc \in {"open", "face"}
        BY <3>1 DEF IInv, Locks, TypeOK
      <3>3. s \in Underway
        BY <3>2 DEF Underway, At, Ended
      <3> QED
        BY <2>2, <3>2, <3>3
    <2>4. Holders = {}
      <3>1. \A t \in Holders : t \in Underway
        BY DEF Holders, Underway, At, Ended
      <3> QED
        BY <3>1, <2>2, <2>3 DEF Holders
    <2>5. active = 0
      BY <2>4, FS_EmptySet DEF IInv, SlotsCounted, TypeOK
    <2>6. \A t \in Underway : task[t].pc # "slot"
      BY <2>5 DEF Blocked, At
    <2>7. InPool = {}
      BY <2>2, <2>3, <2>6 DEF InPool, At
    <2>8. \A t \in Underway : task[t].pc # "pool"
      BY <2>7, FS_EmptySet DEF Blocked, At
    <2> QED
      BY <2>2, <2>3, <2>6, <2>8
  <1> QED
    BY <1>1, Invariant, PTL

=============================================================================
