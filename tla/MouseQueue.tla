----------------------------- MODULE MouseQueue -----------------------------
(***************************************************************************)
(* The queue in front of the real mouse (WeightedTaskRunner): slider       *)
(* checks of this machine's accounts and of other machines, those with a   *)
(* cookie apart, wait for the one cursor.  A dispatcher serves the local   *)
(* and the remote ones by a smooth weighted round robin, and ages the      *)
(* remote ones.                                                            *)
(*                                                                         *)
(* asyncio: what a coroutine does between two awaits is one step.  The     *)
(* lock's sections have no await, so it is never waited for.               *)
(***************************************************************************)
EXTENDS Integers, SequencesExt

CONSTANTS
    Tasks, NoTask,
    ClassOf,        \* local, remote or remote_cookie
    Ratios,         \* the weights an administrator may set, in lowest terms
    MaxChanges      \* bound: changes of the weights

Buckets == {"local", "remote"}

ASSUME QueueAssumption ==
    /\ NoTask \notin Tasks
    /\ ClassOf \in [Tasks -> {"local", "remote", "remote_cookie"}]
    /\ Ratios \subseteq [Buckets -> Nat]
    /\ MaxChanges \in Nat

VARIABLES
    queue,      \* _queues: the three queues as one, by enqueued_at
    aged,       \* the remote entries that have waited for _REMOTE_PRIORITY_WAIT_SECONDS
    future,     \* the future of each task's last submission
    dispatcher, \* _dispatcher_task: none, start, load (the weights), run
    running,    \* the task the browser executor has
    current, signature,     \* _current; _weight_signature, with _was_contended
    ratio,      \* what get_effective_weights(force_refresh=True) would return
    changes,
    passed      \* history: how often a waiting bucket was passed over at these weights

smooth == <<current, signature>>
vars == <<queue, aged, future, dispatcher, running, smooth, ratio, changes, passed>>

None == [b \in Buckets |-> 0]
Even == [b \in Buckets |-> 1]

Init ==
    /\ queue = <<>> /\ aged = {}
    /\ future = [t \in Tasks |-> "done"]
    /\ dispatcher = "none" /\ running = NoTask
    /\ current = None /\ signature = None       \* None: not contended
    /\ ratio = Even /\ changes = 0
    /\ passed = None

Bucket(t) == IF ClassOf[t] = "local" THEN "local" ELSE "remote"
Other(b)  == IF b = "local" THEN "remote" ELSE "local"

\* The entries of q that are in S, in order.
Keep(q, S) ==
    LET kept[n \in 0..Len(q)] ==
            IF n = 0 THEN <<>>
            ELSE IF q[n] \in S THEN Append(kept[n - 1], q[n]) ELSE kept[n - 1]
    IN  kept[Len(q)]

\* The tasks of a bucket that are in q, and the first of the tasks S to have come.
In(b, q)    == {t \in ToSet(q) : Bucket(t) = b}
First(q, S) == q[CHOOSE i \in DOMAIN q : q[i] \in S /\ \A j \in 1..i - 1 : q[j] \notin S]
Contended(q) == \A b \in Buckets : In(b, q) # {}

\* _sanitize_weight and the scaling: without a positive weight, 1:1.
Effective == IF ratio = None THEN Even ELSE ratio

-----------------------------------------------------------------------------
\* The choice of a task.

Plain(S) == {t \in S : ClassOf[t] # "remote_cookie"}

\* Mutant: a task with a cookie always waits for those without.
HeadOf_NoAgeing(b, q) ==
    LET mine == In(b, q)
    IN  First(q, IF Plain(mine) = {} THEN mine ELSE Plain(mine))

\* _subqueue_order_key, over the heads of a bucket's queues: the oldest if it is
\* aged, else one without a cookie.
HeadOf(b, q) ==
    LET mine == In(b, q)
    IN  First(q, IF First(q, mine) \in aged \/ Plain(mine) = {} THEN mine ELSE Plain(mine))

\* The entries whose caller has not gone (_purge_cancelled_locked), f the futures.
Alive(f) == Keep(queue, {t \in Tasks : f[t] # "cancelled"})

\* Mutant: the task stays in the queue.
Run_Keeps(b, q) ==
    /\ queue' = q
    /\ aged' = aged \cap ToSet(q)
    /\ running' = HeadOf(b, q) /\ dispatcher' = "run"

\* A task of the bucket leaves the queue for the executor.
Run(b, q) == \E t \in {HeadOf(b, q)} :
    /\ queue' = Keep(q, Tasks \ {t})
    /\ aged' = (aged \cap ToSet(q)) \ {t}
    /\ running' = t /\ dispatcher' = "run"

Reset == current' = None /\ signature' = None /\ passed' = None

\* The top of _dispatch_loop: it ends for want of tasks (with its finally), serves
\* the only bucket there is, or goes for the weights.
Dispatch(q) ==
    \/ /\ q = <<>>
       /\ queue' = q /\ aged' = {}
       /\ running' = NoTask /\ dispatcher' = "none"
       /\ Reset
    \/ \E b \in Buckets :
          /\ In(b, q) # {} /\ In(Other(b), q) = {}
          /\ Run(b, q)
          /\ Reset
    \/ /\ Contended(q)
       /\ queue' = q /\ aged' = aged \cap ToSet(q)
       /\ running' = NoTask /\ dispatcher' = "load"
       /\ UNCHANGED <<smooth, passed>>

\* Mutant: what a bucket was served before counts for ever.
Weigh_Debts(q) ==
    LET w    == Effective
        cur  == [b \in Buckets |-> current[b] + w[b]]
        best == IF cur["local"] >= cur["remote"] THEN "local" ELSE "remote"
    IN  /\ current' = [cur EXCEPT ![best] = @ - (w["local"] + w["remote"])]
        /\ signature' = w
        /\ passed' = [b \in Buckets |->
                        IF b = best \/ w[b] = 0 THEN 0
                        ELSE 1 + IF w = signature THEN passed[b] ELSE 0]
        /\ Run(best, q)

\* _pick_task_locked with both buckets waiting; new weights start a new round.
Weigh(q) ==
    LET w    == Effective
        old  == IF signature = w THEN current ELSE None
        cur  == [b \in Buckets |-> old[b] + w[b]]
        best == IF cur["local"] >= cur["remote"] THEN "local" ELSE "remote"
    IN  /\ current' = [cur EXCEPT ![best] = @ - (w["local"] + w["remote"])]
        /\ signature' = w
        /\ passed' = [b \in Buckets |->
                        IF b = best \/ w[b] = 0 THEN 0
                        ELSE 1 + IF w = signature THEN passed[b] ELSE 0]
        /\ Run(best, q)

-----------------------------------------------------------------------------
\* The callers.

\* submit: a check is asked for, while none of its own is under way.
Submit(t) ==
    /\ t \notin ToSet(queue) /\ t # running
    /\ queue' = Append(queue, t)
    /\ future' = [future EXCEPT ![t] = "pending"]
    /\ dispatcher' = IF dispatcher = "none" THEN "start" ELSE dispatcher
    /\ UNCHANGED <<aged, running, smooth, ratio, changes, passed>>

\* The caller is cancelled: the executor ends what it runs all the same.
Cancel(t) ==
    /\ future[t] = "pending"
    /\ future' = [future EXCEPT ![t] = "cancelled"]
    /\ UNCHANGED <<queue, aged, dispatcher, running, smooth, ratio, changes, passed>>

-----------------------------------------------------------------------------
\* The dispatcher.

Start ==
    /\ dispatcher = "start"
    /\ \E q \in {Alive(future)} : Dispatch(q)
    /\ UNCHANGED <<future, ratio, changes>>

\* Mutant: what was cancelled during the query is still served.
Loaded_NoPurge ==
    /\ dispatcher = "load"
    /\ Weigh(queue)
    /\ UNCHANGED <<future, ratio, changes>>

\* The weights are there.  Callers may have gone meanwhile: one bucket left is
\* served as it is, and for want of tasks the loop starts over.
Loaded ==
    /\ dispatcher = "load"
    /\ \E q \in {Alive(future)} : IF Contended(q) THEN Weigh(q) ELSE Dispatch(q)
    /\ UNCHANGED <<future, ratio, changes>>

\* The check returns or raises; its caller gets that, if still there.
RunEnds ==
    /\ dispatcher = "run"
    /\ future' = [future EXCEPT ![running] = "done"]
    /\ \E q \in {Alive(future')} : Dispatch(q)
    /\ UNCHANGED <<ratio, changes>>

-----------------------------------------------------------------------------
\* The world.

\* 70 s after it came, a remote task is aged.
Age ==
    /\ LET young == In("remote", queue) \ aged
       IN  young # {} /\ aged' = aged \cup {First(queue, young)}
    /\ UNCHANGED <<queue, future, dispatcher, running, smooth, ratio, changes, passed>>

\* An administrator sets the weights.  A query that fails returns the last ones.
ChangeRatio ==
    /\ changes < MaxChanges
    /\ ratio' \in Ratios \ {ratio} /\ changes' = changes + 1
    /\ UNCHANGED <<queue, aged, future, dispatcher, running, smooth, passed>>

-----------------------------------------------------------------------------
Dispatcher == Start \/ Loaded \/ RunEnds

Next == Dispatcher \/ Age \/ ChangeRatio \/ \E t \in Tasks : Submit(t) \/ Cancel(t)

\* The query and the checks end (connect_timeout, a watchdog), and time passes.
Spec == Init /\ [][Next]_vars /\ WF_vars(Dispatcher) /\ WF_vars(Age)

-----------------------------------------------------------------------------
\* Properties.

\* Types of the runner's fields; no task waits twice, or waits and runs.
TypeOK ==
    /\ queue \in Seq(Tasks) /\ IsInjective(queue) /\ aged \subseteq ToSet(queue)
    /\ future \in [Tasks -> {"pending", "cancelled", "done"}]
    /\ dispatcher \in {"none", "start", "load", "run"}
    /\ running \in Tasks \cup {NoTask} /\ running \notin ToSet(queue)
    /\ (running # NoTask) <=> (dispatcher = "run")
    /\ current \in [Buckets -> Int] /\ signature \in Ratios \cup {Even, None}
    /\ ratio \in Ratios \cup {Even} /\ changes \in 0..MaxChanges
    /\ passed \in [Buckets -> Nat]

\* The weights' share, without debts of earlier rounds: while both wait and the
\* weights last, a bucket is passed over at most as often as the other outweighs it.
ShareKept ==
    \A b \in Buckets :
        LET w == signature[b]
            v == signature[Other(b)]
        IN  w > 0 => passed[b] * w < v + w

\* A task whose caller has gone before it was chosen is never given to the mouse,
\* not even if that happens while the weights are read.
CancelledNeverStarts ==
    [][running' \notin {running, NoTask} => future[running'] = "pending"]_vars

\* Every check is answered, one with a cookie behind a stream without one too,
\* unless the weight of its side is 0.
Answered ==
    \A t \in Tasks :
        future[t] = "pending" ~> future[t] # "pending" \/ Effective[Bucket(t)] = 0
=============================================================================
