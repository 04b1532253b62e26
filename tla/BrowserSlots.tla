---------------------------- MODULE BrowserSlots ----------------------------
(***************************************************************************)
(* The browsers of one process: slider checks, cookie renewals and         *)
(* password logins share a few slots (BrowserSlotManager), one browser     *)
(* profile per account (AccountBrowserLockManager), a pool of threads      *)
(* (run_browser_task) and a gate that drops a second login of an account   *)
(* (PasswordLoginStateManager).                                            *)
(*                                                                         *)
(* Everything runs in threads; a step is what a thread does between two    *)
(* accesses to what they share.                                            *)
(***************************************************************************)
EXTENDS Naturals, FiniteSets

CONSTANTS
    Tasks, Nobody,
    Logins,         \* password logins: they may have to wait for a face
    Gated,          \* logins asked for over HTTP, which pass the gate
    Panels,         \* gated logins of the web panel, with a thread of their own
    Accounts, AccountOf,
    MaxSlots,       \* max_captcha_concurrent
    Workers         \* max_workers of the pool, MaxSlots + 2

ASSUME SlotsAssumption ==
    /\ IsFiniteSet(Tasks) /\ Nobody \notin Tasks
    /\ Panels \subseteq Gated /\ Gated \subseteq Logins /\ Logins \subseteq Tasks
    /\ AccountOf \in [Tasks -> Accounts]
    /\ MaxSlots \in Nat \ {0} /\ Workers = MaxSlots + 2

VARIABLES
    active,     \* BrowserSlotManager._active_count
    lock,       \* the owner of each account's RLock
    gate,       \* PasswordLoginStateManager._processing_accounts: whose entry
    task        \* the tasks

vars == <<active, lock, gate, task>>

\* A task: where it is, whether it releases a slot it does not hold (astray), and
\* whether it passed the gate more than PROCESSING_TIMEOUT ago (late).
Fresh == [pc |-> "idle", astray |-> FALSE, late |-> FALSE]

Init ==
    /\ active = 0
    /\ lock = [a \in Accounts |-> Nobody]
    /\ gate = [a \in Accounts |-> Nobody]
    /\ task = [t \in Tasks |-> Fresh]

At(t, pc) == task[t].pc = pc
Goto(t, pc) == task' = [task EXCEPT ![t].pc = pc]

Ended    == {"done", "refused"}
Underway == {t \in Tasks : ~At(t, "idle") /\ task[t].pc \notin Ended}

\* The tasks that have a thread of the pool.
InPool == {t \in Underway \ Panels : ~At(t, "pool") /\ ~At(t, "finish")}

\* Where a task goes when its function returns, or raises as its browser was refused.
AtEnd(t)    == IF t \in Gated THEN "finish" ELSE "done"
AtRefusal(t) == IF t \in Panels THEN "fallback" ELSE IF t \in Gated THEN "finish" ELSE "refused"

-----------------------------------------------------------------------------
\* Requests and the gate.

\* Mutant: the entry is set, whoever has one.
Enter_Unchecked(t) == gate' = [gate EXCEPT ![AccountOf[t]] = t]

\* start_processing: a request for an account with an entry is dropped.
Enter(t) ==
    /\ gate[AccountOf[t]] = Nobody
    /\ gate' = [gate EXCEPT ![AccountOf[t]] = t]

\* A slider check, a renewal or a login is asked for, and queues for a thread.
Ask(t) ==
    /\ At(t, "idle") /\ t \notin Panels
    /\ IF t \in Gated THEN Enter(t) ELSE UNCHANGED gate
    /\ Goto(t, "pool")
    /\ UNCHANGED <<active, lock>>

\* The web panel's login has a thread; if the account is disabled, that returns
\* before its try statement, and the entry stays.
AskPanel(t) ==
    /\ At(t, "idle") /\ t \in Panels
    /\ Enter(t)
    /\ Goto(t, "slot") \/ Goto(t, "refused")
    /\ UNCHANGED <<active, lock>>

\* A thread of the pool runs the task; the order of its queue is left open.
Begin(t) ==
    /\ At(t, "pool") /\ Cardinality(InPool) < Workers
    /\ Goto(t, "slot")
    /\ UNCHANGED <<active, lock, gate>>

-----------------------------------------------------------------------------
\* The constructor: a slot first, then the account.

\* Mutant: one too many.
TakeSlot_OneMore(t) ==
    /\ At(t, "slot") /\ active <= MaxSlots
    /\ active' = active + 1
    /\ Goto(t, "lock")
    /\ UNCHANGED <<lock, gate>>

\* BrowserSlotManager.acquire.
TakeSlot(t) ==
    /\ At(t, "slot") /\ active < MaxSlots
    /\ active' = active + 1
    /\ Goto(t, "lock")
    /\ UNCHANGED <<lock, gate>>

SlotTimeout(t) ==
    /\ At(t, "slot") /\ active >= MaxSlots
    /\ Goto(t, AtRefusal(t))
    /\ UNCHANGED <<active, lock, gate>>

\* AccountBrowserLockManager.acquire; the browser starts.
TakeLock(t) ==
    /\ At(t, "lock") /\ lock[AccountOf[t]] \in {Nobody, t}
    /\ lock' = [lock EXCEPT ![AccountOf[t]] = t]
    /\ Goto(t, "open")
    /\ UNCHANGED <<active, gate>>

\* BrowserSlotManager.release.
Release == active' = IF active > 0 THEN active - 1 ELSE 0

\* Mutant: the refused task keeps its slot.
LockTimeout_Keeps(t) ==
    /\ At(t, "lock") /\ lock[AccountOf[t]] \notin {Nobody, t}
    /\ Goto(t, AtRefusal(t))
    /\ UNCHANGED <<active, lock, gate>>

LockTimeout(t) ==
    /\ At(t, "lock") /\ lock[AccountOf[t]] \notin {Nobody, t}
    /\ Release /\ Goto(t, AtRefusal(t))
    /\ UNCHANGED <<lock, gate>>

-----------------------------------------------------------------------------
\* At work.

\* Mutant: the account is given up with the slot.
Face_Unlocks(t) ==
    /\ t \in Logins /\ At(t, "open") /\ ~task[t].astray
    /\ Release
    /\ lock' = [lock EXCEPT ![AccountOf[t]] = Nobody]
    /\ task' = [task EXCEPT ![t].pc = "face", ![t].astray = TRUE]
    /\ UNCHANGED <<gate>>

\* _wait_for_face_verification gives the slot up, not the browser or the account.
Face(t) ==
    /\ t \in Logins /\ At(t, "open") /\ ~task[t].astray
    /\ Release
    /\ task' = [task EXCEPT ![t].pc = "face", ![t].astray = TRUE]
    /\ UNCHANGED <<lock, gate>>

\* Mutant: the slot is waited for while the account is held.
FaceOver_Queues(t) ==
    /\ At(t, "face")
    /\ Goto(t, "slot")
    /\ UNCHANGED <<active, lock, gate>>

\* Within 300 s the face is there or not.  register_instance does nothing.
FaceOver(t) ==
    /\ At(t, "face")
    /\ Goto(t, "open")
    /\ UNCHANGED <<active, lock, gate>>

\* close: the browser and the account, then the slot, as _slot_acquired is still
\* set whatever happened in between.
Unlock(t) ==
    /\ At(t, "open")
    /\ lock' = [lock EXCEPT ![AccountOf[t]] = Nobody]
    /\ Goto(t, "unlocked")
    /\ UNCHANGED <<active, gate>>

FreeSlot(t) ==
    /\ At(t, "unlocked")
    /\ Release /\ Goto(t, AtEnd(t))
    /\ UNCHANGED <<lock, gate>>

\* _run_password_login_sync got no instance, and releases a slot all the same.
Fallback(t) ==
    /\ At(t, "fallback")
    /\ Release
    /\ task' = [task EXCEPT ![t].pc = "finish", ![t].astray = TRUE]
    /\ UNCHANGED <<lock, gate>>

\* Mutant: only a login that went well deletes the entry.
Finish_OnSuccess(t) ==
    /\ At(t, "finish")
    /\ gate' = IF task[t].astray THEN gate ELSE [gate EXCEPT ![AccountOf[t]] = Nobody]
    /\ Goto(t, "done")
    /\ UNCHANGED <<active, lock>>

\* finish_processing deletes the account's entry, whosever it is.
Finish(t) ==
    /\ At(t, "finish")
    /\ gate' = [gate EXCEPT ![AccountOf[t]] = Nobody]
    /\ Goto(t, "done")
    /\ UNCHANGED <<active, lock>>

\* _cleanup_expired: an entry goes 300 s after it was made.
Expire(t) ==
    /\ gate[AccountOf[t]] = t
    /\ gate' = [gate EXCEPT ![AccountOf[t]] = Nobody]
    /\ task' = [task EXCEPT ![t].late = TRUE]
    /\ UNCHANGED <<active, lock>>

-----------------------------------------------------------------------------
Step(t) ==
    \/ Begin(t) \/ TakeSlot(t) \/ SlotTimeout(t)
    \/ TakeLock(t) \/ LockTimeout(t) \/ FaceOver(t) \/ Unlock(t)
    \/ FreeSlot(t) \/ Fallback(t) \/ Finish(t)

Next == \E t \in Tasks : Ask(t) \/ AskPanel(t) \/ Face(t) \/ Step(t) \/ Expire(t)

Spec == Init /\ [][Next]_vars

-----------------------------------------------------------------------------
\* Properties.

Pcs == {"idle", "pool", "slot", "lock", "open", "face", "unlocked", "fallback",
        "finish"} \cup Ended

\* Types of the managers' counters and dictionaries.
TypeOK ==
    /\ active \in 0..MaxSlots
    /\ lock \in [Accounts -> Tasks \cup {Nobody}]
    /\ gate \in [Accounts -> Gated \cup {Nobody}]
    /\ task \in [Tasks -> [pc : Pcs, astray : BOOLEAN, late : BOOLEAN]]

\* The tasks that count on a slot of their own.
Holders == {t \in Tasks : task[t].pc \in {"lock", "open", "unlocked"}
                            /\ ~task[t].astray}

\* The tasks that have released a slot they did not hold.
Excess == {t \in Tasks : task[t].astray /\ task[t].pc \in {"finish", "done"}}

\* No way through a task loses a slot: _active_count never exceeds the number of
\* slots in use.  Nor does it fall behind but by the releases too many of logins
\* that waited for a face, or of panel logins whose browser was refused: at most
\* MaxSlots browsers, and one more for each of these.
SlotsCounted ==
    /\ active <= Cardinality(Holders)
    /\ Cardinality(Holders) <= active + Cardinality(Excess)

SameAccount(s, t) == s # t /\ AccountOf[s] = AccountOf[t]

\* AccountBrowserLockManager: two browsers never run in one account's profile
\* (PROFILE_IN_USE), although a login that waits for a face has no slot.
ProfileExclusive ==
    \A s, t \in Tasks :
        SameAccount(s, t) /\ task[s].pc \in {"open", "face"}
            => task[t].pc \notin {"open", "face"}

Blocked(t) ==
    \/ At(t, "pool") /\ Cardinality(InPool) >= Workers
    \/ At(t, "slot") /\ active >= MaxSlots
    \/ At(t, "lock") /\ lock[AccountOf[t]] \notin {Nobody, t}

\* Tasks wait for threads, slots and accounts, and hold some of them while they
\* do: they never wait in a circle that only a timeout ends.  As no step leads a
\* task back, all of them end.
NoStandstill == Underway # {} => \E t \in Underway : ~Blocked(t)

\* PasswordLoginStateManager lets one login of an account in at a time, for 300 s,
\* until a login that has outlived its entry ends and takes another's with it.
OneLogin ==
    \A s, t \in Gated \cap Underway :
        SameAccount(s, t) /\ ~task[s].late /\ ~task[t].late
            => \E u \in Gated \ Underway : SameAccount(s, u) /\ task[u].late

\* The entry of a login goes with it, whether its browser is refused or not; only
\* a login of a disabled account leaves one behind, and requests are dropped.
EntryEnds ==
    \A a \in Accounts :
        gate[a] # Nobody => gate[a] \in Underway \/ At(gate[a], "refused")
=============================================================================
