-------------------------- MODULE AccountLifecycle --------------------------
(***************************************************************************)
(* The tasks of one account in the websocket service: CookieManager        *)
(* starts, stops and restarts them for HTTP requests, for a password login *)
(* and for the account's own token refresh (Jobs), while the tasks connect,*)
(* lose their connection and end.                                          *)
(*                                                                         *)
(* Everything runs in one event loop; a step is what runs between awaits.  *)
(* The account has an owner, so that its expiry is always looked up.       *)
(***************************************************************************)
EXTENDS Naturals, Sequences, FiniteSets

CONSTANTS
    Adds,           \* calls of _add_cookie_async, for start requests
    Removes,        \* calls of _remove_cookie_async, for stop requests
    Updates,        \* calls of _stop_task_async, then _add_cookie_async
    Tasks, NoTask,  \* asyncio tasks of _run_xianyu
    Locks, NoLock,  \* asyncio.Lock objects
    Nobody

Jobs == Adds \cup Removes \cup Updates

ASSUME LifecycleAssumption ==
    /\ Adds \cap Removes = {} /\ Adds \cap Updates = {} /\ Removes \cap Updates = {}
    /\ Tasks # {} /\ NoTask \notin Tasks
    /\ Locks # {} /\ NoLock \notin Locks
    /\ Nobody \notin Jobs

VARIABLES
    enabled,    \* xy_accounts.status = 'active'
    tracked,    \* CookieManager.tasks[cookie_id]
    inst,       \* the task whose XianyuAsync is CookieManager.instances[cookie_id]
    taskLock,   \* CookieManager._task_locks[cookie_id]
    lock,       \* the locks: holder, and who waits, in order
    job,        \* the jobs
    task        \* the tasks

vars == <<enabled, tracked, inst, taskLock, lock, job, task>>

Unheld == [holder |-> Nobody, queue |-> <<>>]

Fresh == [pc |-> "none", cancelled |-> FALSE, blind |-> FALSE]

Idle == [pc |-> "idle", after |-> Nobody, lock |-> NoLock, on |-> NoTask]

\* CookieManager.start has started the task of an enabled account, or has been
\* told not to.
Init ==
    /\ enabled \in BOOLEAN
    /\ tracked \in {NoTask} \cup (IF enabled THEN {CHOOSE t \in Tasks : TRUE} ELSE {})
    /\ task = [t \in Tasks |-> [Fresh EXCEPT !.pc = IF t = tracked THEN "new" ELSE @]]
    /\ taskLock = IF tracked = NoTask THEN NoLock ELSE CHOOSE l \in Locks : TRUE
    /\ inst = NoTask
    /\ lock = [l \in Locks |-> Unheld]
    /\ job = [j \in Jobs |-> Idle]

-----------------------------------------------------------------------------
\* Requests.

Arrive(j, after) == [job[j] EXCEPT !.pc = "born", !.after = after]

\* POST start; stop only schedules the removal and answers.
Request(j) ==
    /\ job[j].pc = "idle"
    /\ job' = [job EXCEPT ![j] = Arrive(j, Nobody)]
    /\ UNCHANGED <<enabled, tracked, inst, taskLock, lock, task>>

\* POST restart schedules a removal and a start; the loop begins them in this order.
Restart(r, a) ==
    /\ job[r].pc = "idle" /\ job[a].pc = "idle"
    /\ job' = [job EXCEPT ![r] = Arrive(r, Nobody), ![a] = Arrive(a, r)]
    /\ UNCHANGED <<enabled, tracked, inst, taskLock, lock, task>>

\* Somebody switches the account on or off.
SetStatus ==
    /\ enabled' = ~enabled
    /\ UNCHANGED <<tracked, inst, taskLock, lock, job, task>>

-----------------------------------------------------------------------------
\* Jobs.

Begins(j) ==
    /\ job[j].pc = "born"
    /\ job[j].after # Nobody => job[job[j].after].pc # "born"

\* Bug: every job makes a lock of its own.
GetLock_Fresh(l) == lock[l] = Unheld

\* _get_task_lock: the account's lock, or a new one. A lock nobody holds, waits
\* for or could find again is as good as new.
GetLock(l) ==
    IF taskLock # NoLock THEN l = taskLock
    ELSE l = CHOOSE fresh \in Locks : lock[fresh] = Unheld

\* The lock is free, and j is first in line for it.
Free(j, l) ==
    /\ lock[l].holder = Nobody
    /\ IF job[j].pc = "queue"
       THEN l = job[j].lock /\ Head(lock[l].queue) = j
       ELSE GetLock(l) /\ lock[l].queue = <<>>

\* Bug: who has got the lock stays in its queue.
Queue_Stale(j, l) == lock[l].queue

Queue(j, l) == IF job[j].pc = "queue" THEN Tail(lock[l].queue) ELSE lock[l].queue

DictLock(j, l) == IF job[j].pc = "queue" THEN taskLock ELSE l

\* j waits for the lock that others have.
Join(j) ==
    /\ taskLock # NoLock
    /\ lock[taskLock].holder # Nobody \/ lock[taskLock].queue # <<>>
    /\ lock' = [lock EXCEPT ![taskLock].queue = Append(@, j)]
    /\ job' = [job EXCEPT ![j].pc = "queue", ![j].lock = taskLock]
    /\ UNCHANGED taskLock

\* j takes the lock and waits for the task it has cancelled.
Hold(j, l, t) ==
    /\ lock' = [lock EXCEPT ![l] = [holder |-> j, queue |-> Queue(j, l)]]
    /\ taskLock' = DictLock(j, l)
    /\ job' = [job EXCEPT ![j].pc = "await", ![j].lock = l, ![j].on = t]
    /\ task' = [task EXCEPT ![t].cancelled = TRUE]

\* Bug: the lock is not given back.
Unlock_Leaks(j, l) ==
    /\ lock' = [lock EXCEPT ![l] = [holder |-> j, queue |-> Queue(j, l)]]
    /\ job' = [job EXCEPT ![j] = [Idle EXCEPT !.pc = "done"]]

\* j is done with lock l.
Unlock(j, l) ==
    /\ lock' = [lock EXCEPT ![l] = [holder |-> Nobody, queue |-> Queue(j, l)]]
    /\ job' = [job EXCEPT ![j] = [Idle EXCEPT !.pc = "done"]]

Alive(t) == t # NoTask /\ task[t].pc \notin {"none", "ended"}

\* create_task(_run_xianyu); tasks[cookie_id] is the new task.
Launch ==
    /\ \E t \in Tasks : task[t].pc = "none"
    /\ tracked' = CHOOSE t \in Tasks : task[t].pc = "none"
    /\ task' = [task EXCEPT ![tracked'].pc = "new"]

\* _add_cookie_async, up to its first await under the lock.
AddEnter(j) ==
    /\ (j \in Adds /\ Begins(j)) \/ (j \in Adds \cup Updates /\ job[j].pc = "queue")
    /\ \E l \in Locks :
        /\ Free(j, l)
        /\ IF Alive(tracked)
           THEN Hold(j, l, tracked) /\ UNCHANGED tracked
           ELSE Unlock(j, l) /\ taskLock' = DictLock(j, l) /\ Launch
    /\ UNCHANGED <<enabled, inst>>

\* The old task has ended: the entry of tasks, whatever it is now, is replaced.
AddResume(j) ==
    /\ j \in Adds \cup Updates /\ job[j].pc = "await" /\ ~Alive(job[j].on)
    /\ Unlock(j, job[j].lock) /\ Launch
    /\ UNCHANGED <<enabled, inst, taskLock>>

\* _remove_cookie_async drops the account, its instance and its lock.
Forget(j, l) == Unlock(j, l) /\ taskLock' = NoLock /\ inst' = NoTask

RemoveEnter(j) ==
    /\ j \in Removes /\ (Begins(j) \/ job[j].pc = "queue")
    /\ tracked' = NoTask
    /\ \E l \in Locks :
        /\ Free(j, l)
        /\ IF Alive(tracked)
           THEN Hold(j, l, tracked) /\ UNCHANGED inst
           ELSE Forget(j, l) /\ UNCHANGED task
    /\ UNCHANGED enabled

\* wait_for returns, or times out, not before the task has ended.
RemoveResume(j) ==
    /\ j \in Removes /\ job[j].pc = "await" /\ ~Alive(job[j].on)
    /\ Forget(j, job[j].lock)
    /\ UNCHANGED <<enabled, tracked, task>>

\* Somebody else has the lock.
Wait(j) ==
    /\ j \in Adds \cup Removes /\ Begins(j) /\ Join(j)
    /\ UNCHANGED <<enabled, tracked, inst, task>>

\* _stop_task_async takes no lock.
UpdateStop(j) ==
    /\ j \in Updates /\ Begins(j) /\ Alive(tracked)
    /\ task' = [task EXCEPT ![tracked].cancelled = TRUE]
    /\ job' = [job EXCEPT ![j].pc = "stop", ![j].on = tracked]
    /\ UNCHANGED <<enabled, tracked, inst, taskLock, lock>>

\* The task has ended, or 3 s are over; _add_cookie_async follows at once.
UpdateAdd(j) ==
    /\ j \in Updates
    /\ (Begins(j) /\ ~Alive(tracked)) \/ job[j].pc = "stop"
    /\ inst' = NoTask
    /\ \/ /\ \E l \in Locks : Free(j, l) /\ Unlock(j, l) /\ taskLock' = l
          /\ Launch
       \/ Join(j) /\ tracked' = NoTask /\ UNCHANGED task
    /\ UNCHANGED enabled

-----------------------------------------------------------------------------
\* Tasks: _run_xianyu and XianyuAsync.main.

Go(t, pc) == task' = [task EXCEPT ![t].pc = pc, ![t].blind = FALSE]

Over(t) == task' = [task EXCEPT ![t] = [Fresh EXCEPT !.pc = "ended"]]

Runs(t, pc) == task[t].pc = pc /\ ~task[t].cancelled

\* The end of _run_xianyu: instances.pop(cookie_id), whosever it is.
Ends(t) == Over(t) /\ inst' = NoTask

TaskBegin(t) ==
    /\ Runs(t, "new") /\ Go(t, "check")
    /\ UNCHANGED <<enabled, tracked, inst, taskLock, lock, job>>

\* The owner has expired and the account is disabled; or XianyuAsync refuses the
\* cookie; or its instance is made.
TaskCheck(t) ==
    /\ Runs(t, "check")
    /\ \/ Go(t, "start") /\ inst' = t /\ UNCHANGED enabled
       \/ Ends(t) /\ enabled' \in {enabled, FALSE}
    /\ UNCHANGED <<tracked, taskLock, lock, job>>

\* Bug: the status is looked at once, and a restart connects whatever it is.
TaskLoad_Unchecked(t) ==
    /\ Runs(t, "start")
    /\ task' = [task EXCEPT ![t].pc = "online"]
    /\ UNCHANGED <<enabled, tracked, inst, taskLock, lock, job>>

\* The status is read before every connection; when it cannot be read, or the
\* account is not there, the task connects all the same. It is "online" while it
\* gets a token, connects, and reads messages.
TaskLoad(t) ==
    /\ Runs(t, "start")
    /\ \E blind \in BOOLEAN :
        task' = [task EXCEPT ![t].blind = blind,
                             ![t].pc = IF blind \/ enabled THEN "online" ELSE "dying"]
    /\ UNCHANGED <<enabled, tracked, inst, taskLock, lock, job>>

\* No token, no connection, or a lost one: try again, or give up and, for some
\* causes, disable the account.
TaskLost(t) ==
    /\ Runs(t, "online")
    /\ \/ Go(t, "start") /\ UNCHANGED enabled
       \/ Go(t, "dying") /\ enabled' \in {enabled, FALSE}
    /\ UNCHANGED <<tracked, inst, taskLock, lock, job>>

\* CancelledError is raised where the task waits.
TaskCancelled(t) ==
    /\ task[t].cancelled
    /\ \/ task[t].pc = "new" /\ Over(t) /\ UNCHANGED inst
       \/ task[t].pc = "check" /\ Ends(t)
       \/ task[t].pc \in {"start", "online"} /\ Go(t, "dying") /\ UNCHANGED inst
    /\ UNCHANGED <<enabled, tracked, taskLock, lock, job>>

\* main has cleaned up.
TaskEnd(t) ==
    /\ task[t].pc = "dying" /\ Ends(t)
    /\ UNCHANGED <<enabled, tracked, taskLock, lock, job>>

-----------------------------------------------------------------------------
JobStep(j) ==
    AddEnter(j) \/ AddResume(j) \/ RemoveEnter(j) \/ RemoveResume(j)
    \/ Wait(j) \/ UpdateStop(j) \/ UpdateAdd(j)

TaskStep(t) ==
    TaskBegin(t) \/ TaskCheck(t) \/ TaskLoad(t)
    \/ TaskCancelled(t) \/ TaskEnd(t)

Next ==
    \/ SetStatus
    \/ \E j \in Jobs : Request(j) \/ JobStep(j)
    \/ \E r \in Removes, a \in Adds : Restart(r, a)
    \/ \E t \in Tasks : TaskStep(t) \/ TaskLost(t)

Spec == Init /\ [][Next]_vars

\* The event loop runs what is ready, and a cancelled task ends: its cleanup waits
\* at most 3 s for each of its own tasks.
FairSpec ==
    /\ Spec
    /\ \A j \in Jobs : WF_vars(JobStep(j))
    /\ \A t \in Tasks : WF_vars(TaskStep(t))

-----------------------------------------------------------------------------
\* Properties.

\* Whoever holds a lock is a job that waits for a task with it, and whoever is in
\* a queue waits for that lock, once.
LockSound ==
    \A l \in Locks :
        LET waiting == {lock[l].queue[i] : i \in DOMAIN lock[l].queue} IN
        /\ lock[l].holder # Nobody =>
            job[lock[l].holder].pc = "await" /\ job[lock[l].holder].lock = l
        /\ waiting = {j \in Jobs : job[j].pc = "queue" /\ job[j].lock = l}
        /\ Len(lock[l].queue) = Cardinality(waiting)

TaskPcs == {"none", "new", "check", "start", "online", "dying", "ended"}

\* Type of the state, with who holds and awaits the asyncio locks of _task_locks.
TypeOK ==
    /\ enabled \in BOOLEAN
    /\ tracked \in Tasks \cup {NoTask} /\ inst \in Tasks \cup {NoTask}
    /\ taskLock \in Locks \cup {NoLock}
    /\ lock \in [Locks -> [holder : Jobs \cup {Nobody}, queue : Seq(Jobs)]]
    /\ job \in [Jobs -> [pc : {"idle", "born", "queue", "await", "stop", "done"},
                         after : Removes \cup {Nobody}, lock : Locks \cup {NoLock},
                         on : Tasks \cup {NoTask}]]
    /\ task \in [Tasks -> [pc : TaskPcs, cancelled : BOOLEAN, blind : BOOLEAN]]
    /\ LockSound

Live(t) == Alive(t) /\ task[t].pc # "dying" /\ ~task[t].cancelled

\* The reason _task_locks is there, as the code has it: an account never has two
\* tasks that nobody has told to end, each with a websocket connection.
OneTask == \A s, t \in Tasks : Live(s) /\ Live(t) => s = t

\* Starts, and a removal that is still at work, keep that promise: only a stop
\* without the lock, or a finished removal, which drops the lock others wait for,
\* can break it.
LockedStartsAlone ==
    /\ \A u \in Updates : job[u].pc \in {"idle", "born"}
    /\ \A r \in Removes : job[r].pc # "done"
    => OneTask

\* Every start, stop and restart finishes, whoever holds the account's locks.
JobEnds == \A j \in Jobs : job[j].pc = "born" ~> job[j].pc = "done"

Asked(j) == job[j].pc # "idle"

\* What the account's tasks are protected from: an update, which stops without
\* the lock, and a removal before r that dropped the lock others wait for.
Unguarded(r) ==
    \/ \E u \in Updates : job[u].pc \notin {"idle", "born"}
    \/ \E q \in Removes \ {r} : job[q].pc = "done"

\* Task t is connected, and tasks[cookie_id] has another one or none.
Lost(t) == Live(t) /\ t # tracked

\* A stop that is asked for when the account is switched off for good holds: none
\* of the account's tasks stays connected, whichever start or restart overlaps,
\* unless it could not read the status, or the removal never saw it: an update or
\* an earlier removal had put another task, or none, in its place in tasks.
StopTakesHold ==
    \A r \in Removes, t \in Tasks :
        <>Asked(r) /\ [](Asked(r) => ~enabled)
        => \/ <>[](task[t].pc # "online" \/ task[t].blind)
           \/ <>(job[r].pc \in {"idle", "born", "queue"} /\ Lost(t) /\ Unguarded(r))
=============================================================================
