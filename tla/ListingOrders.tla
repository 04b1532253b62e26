---------------------------- MODULE ListingOrders ----------------------------
(***************************************************************************)
(* Orders for listings found by monitor tasks: the collector inserts rows  *)
(* and may order at once (ListingMonitorTaskService), and a round orders   *)
(* what is left (AutoOrderTaskService).                                    *)
(*                                                                         *)
(* Both are coroutines of the scheduler, each with a lock of its own; a    *)
(* step is what one does between two awaits.  The window of two days is    *)
(* left out: it only ends work.                                            *)
(***************************************************************************)
EXTENDS FairShare

CONSTANTS
    Listings,       \* the rows there may be: of a task, for an item
    Owners, OwnerOf,    \* of tasks; 1..n, the users' ids
    Direct,         \* tasks with direct_order
    AccountsOf,     \* the accounts of a task, and the fallback's
    Sick,           \* accounts that may be turned down at any time
    Nobody,
    MaxScan,        \* MAX_ITEMS_SCAN_PER_RUN
    Batch,          \* order_batch_size
    MaxAttempts,    \* 3: MAX_ORDER_ATTEMPTS
    Turns,          \* bound: _scan_round is kept modulo this
    MaxFaults       \* bound: none comes after so many lost answers, failed writes, crashes

Tasks    == DOMAIN OwnerOf
Accounts == UNION {AccountsOf[t] : t \in Tasks}

ASSUME ListingAssumption ==
    /\ Owners = 1..Cardinality(Owners)
    /\ OwnerOf \in [Tasks -> Owners] /\ DOMAIN AccountsOf = Tasks
    /\ IsFiniteSet(Listings) /\ \A r \in Listings : r = <<r[1], r[2]>> /\ r[1] \in Tasks
    /\ Turns \in Nat \ {0} /\ \A n \in Owners : Turns % n = 0
    /\ Direct \subseteq Tasks /\ Nobody \notin Accounts
    /\ {MaxScan, Batch, MaxAttempts} \subseteq Nat \ {0} /\ MaxFaults \in Nat

VARIABLES
    row,        \* xy_listing_monitor_items
    orders,     \* how many of an owner's orders for an item there are on the platform
    auto, coll, \* the ordering round and the collector
    faults      \* how many so far; a crash counts for two, one of each service

vars == <<row, orders, auto, coll, faults>>

Task(r) == r[1]
Key(r)  == <<OwnerOf[r[1]], r[2]>>
Keys    == {Key(r) : r \in Listings}

\* A row: order_status (is_ordered goes with success and duplicate), and, of an order,
\* whose it is and whether the other service was about to order the item as well.
Unseen == [state |-> "absent", attempts |-> 0, by |-> "nobody", over |-> FALSE]

\* What a buyer has in hand: the row, accounts left to try, whether one failed.
Empty == [row |-> <<>>, left |-> {}, failed |-> FALSE, account |-> Nobody]
IdleAuto == [pc |-> "idle", turn |-> 0, todo |-> <<>>, hand |-> Empty, off |-> {},
             keys |-> {}, done |-> [t \in Tasks |-> 0]]
IdleColl == [pc |-> "idle", todo |-> {}, hand |-> Empty, off |-> {},
             seen |-> {}, new |-> <<>>]

Init ==
    /\ row = [r \in Listings |-> Unseen]
    /\ orders = [k \in Keys |-> 0]
    /\ auto = IdleAuto /\ coll = IdleColl /\ faults = 0

Fault == faults < MaxFaults /\ faults' = faults + 1

\* A statement on the database that may fail.
Update(r, v) == \/ row' = [row EXCEPT ![r] = v] /\ UNCHANGED faults
                \/ Fault /\ UNCHANGED row

There(r)   == row[r].state # "absent"
Ordered(r) == row[r].state \in {"success", "duplicate"}
\* Mutant: one attempt more.
Pending_Late(r) == There(r) /\ ~Ordered(r) /\ row[r].attempts <= MaxAttempts
Pending(r) == There(r) /\ ~Ordered(r) /\ row[r].attempts < MaxAttempts

\* has_owner_ordered_item: the owner's items that need no other order.
OrderedKeys == {Key(r) : r \in {s \in Listings : Ordered(s)}}

\* Has the round the item in hand?  Has the collector's session it to order, or ordered?
AutoHas(k) == auto.pc \in {"place", "record"} /\ Key(auto.hand.row) = k
Wanted == coll.todo \cup {r \in DOMAIN coll.new : coll.new[r].state = "success"}
CollHas(k) == \E r \in Wanted : Key(r) = k

-----------------------------------------------------------------------------
\* place_order, with one of the accounts left (which is first is left open): what the
\* buyer then has in hand, the accounts it has switched off, orders placed and faults.
Outcomes(h, off) ==
    UNION {LET rest   == [h EXCEPT !.left = @ \ {a}]
               failed == [rest EXCEPT !.failed = TRUE]
               Outcome(hand, o, n, f) == [hand |-> hand, off |-> o, placed |-> n, faults |-> f]
           IN  {Outcome([rest EXCEPT !.account = a], off, 1, 0),
                Outcome(failed, off, 0, 0),
                Outcome(failed, off, 1, 1),         \* and nobody learns of it
                Outcome(rest, off \cup {a}, 0, IF a \in Sick THEN 0 ELSE 1)} : \* account_invalid
           a \in h.left}

Place(h, o) ==
    /\ orders' = [orders EXCEPT ![Key(h.row)] = @ + o.placed]
    /\ faults' = faults + o.faults /\ (o.faults = 0 \/ faults < MaxFaults)

\* An exception out of it: the order is placed, or it is not.
PlaceBreaks(h) ==
    /\ Fault
    /\ \E n \in {0, 1} : orders' = [orders EXCEPT ![Key(h.row)] = @ + n]

-----------------------------------------------------------------------------
\* The ordering round.

\* Mutant: the first rows, whosever they are.
Queue_ById(pending, turn) ==
    {SubSeq(ids, 1, Min({MaxScan, Len(ids)})) : ids \in SetToSeqs(pending)}

\* fetch_items_to_order: each owner's share of the pending rows, one of each owner in
\* turn.  Which of an owner's rows have the least ids is left open.
Queue(pending, turn) ==
    LET Of(o)  == {r \in pending : OwnerOf[Task(r)] = o}
        counts == [o \in {OwnerOf[Task(r)] : r \in pending} |-> Cardinality(Of(o))]
        order  == order_owner_ids(DOMAIN counts, turn)
        quotas == allocate_owner_quotas(order, counts, MaxScan)
        Share(o) == [n \in 1..quotas[o] |-> o]
        owners == interleave_by_owner([i \in DOMAIN order |-> Share(order[i])])
    IN  {q \in UNION {SetToSeqs(rows) : rows \in kSubset(Len(owners), pending)} :
            \A i \in DOMAIN q : OwnerOf[Task(q[i])] = owners[i]}

\* The queues of all rounds there can be.
Queues ==
    {[pending |-> p, turn |-> t, queues |-> Queue(p, t)] :
        p \in SUBSET Listings, t \in 0..(Turns - 1)}

AutoStart ==
    /\ auto.pc = "idle"
    /\ LET turn    == (auto.turn + 1) % Turns
           pending == {r \in Listings : Pending(r)}
       IN  \E c \in Queues :
              /\ c.turn = turn /\ c.pending = pending
              /\ \E q \in c.queues :
                    auto' = [IdleAuto EXCEPT !.pc = IF q = <<>> THEN "idle" ELSE "next",
                                             !.turn = turn, !.todo = q]
    /\ UNCHANGED <<row, orders, coll, faults>>

\* On to the next row; n rows of the task count as done, k are bought, and
\* the accounts off stay out of the round.
Advance(n, k, off) ==
    LET rest == Tail(auto.todo)
        t    == Task(Head(auto.todo))
    IN  auto' = IF rest = <<>> THEN [IdleAuto EXCEPT !.turn = auto.turn]
                ELSE [auto EXCEPT !.pc = "next", !.todo = rest, !.hand = Empty,
                                  !.off = off, !.keys = @ \cup k, !.done[t] = @ + n]

\* Mutant: only what this round has ordered is skipped.
AutoNext_OwnKeys ==
    /\ auto.pc = "next"
    /\ LET r == Head(auto.todo)
           accounts == AccountsOf[Task(r)] \ auto.off
       IN  IF Key(r) \in auto.keys
           THEN Update(r, [row[r] EXCEPT !.state = "duplicate"]) /\ Advance(0, {}, auto.off)
           ELSE /\ IF accounts = {} THEN Advance(0, {}, auto.off)
                   ELSE auto' = [auto EXCEPT !.pc = "place",
                                             !.hand = [Empty EXCEPT !.row = r, !.left = accounts]]
                /\ UNCHANGED <<row, faults>>
    /\ UNCHANGED <<orders, coll>>

\* The checks before an order: is the item ordered, is the task's batch full, is there
\* an account.
AutoNext ==
    /\ auto.pc = "next"
    /\ LET r == Head(auto.todo)
           known    == Key(r) \in auto.keys \cup OrderedKeys
           full     == auto.done[Task(r)] >= Batch
           accounts == AccountsOf[Task(r)] \ auto.off
       IN  \/ /\ known
              /\ Update(r, [row[r] EXCEPT !.state = "duplicate"])
              /\ Advance(0, {}, auto.off)
           \/ /\ ~known /\ full
              /\ Advance(0, {}, auto.off)
              /\ UNCHANGED <<row, faults>>
           \/ /\ ~known /\ ~full /\ accounts = {}
              /\ Update(r, [row[r] EXCEPT !.state = "no_account"])
              /\ Advance(0, {}, auto.off)
           \/ /\ ~known /\ ~full /\ accounts # {}
              /\ auto' = [auto EXCEPT !.pc = "place",
                                      !.hand = [Empty EXCEPT !.row = r, !.left = accounts]]
              /\ UNCHANGED <<row, faults>>
    /\ UNCHANGED <<orders, coll>>

\* _order_for_item.  If every account turns out invalid nothing is recorded, and the
\* row counts as done all the same.
AutoPlace ==
    /\ auto.pc = "place"
    /\ \E o \in Outcomes(auto.hand, auto.off) :
          /\ Place(auto.hand, o)
          /\ IF o.hand.account # Nobody \/ (o.hand.left = {} /\ o.hand.failed)
             THEN auto' = [auto EXCEPT !.pc = "record", !.hand = o.hand, !.off = o.off]
             ELSE IF o.hand.left # {} THEN auto' = [auto EXCEPT !.hand = o.hand, !.off = o.off]
             ELSE Advance(1, {}, o.off)
    /\ UNCHANGED <<row, coll>>

\* _record_result: an order whose row cannot be written is lost sight of.
AutoRecord ==
    /\ auto.pc = "record"
    /\ LET h == auto.hand
           v == [row[h.row] EXCEPT !.attempts = @ + 1, !.state = "failed"]
       IN  IF h.account = Nobody THEN Update(h.row, v) /\ Advance(1, {}, auto.off)
           ELSE /\ Update(h.row, [v EXCEPT !.state = "success", !.by = "auto",
                                           !.over = CollHas(Key(h.row))])
                /\ Advance(1, {Key(h.row)}, auto.off)
    /\ UNCHANGED <<orders, coll>>

-----------------------------------------------------------------------------
\* The collector.  Its session reads what was committed when it began; rows that are
\* there already only get new titles and prices.

CollStart(t) ==
    /\ coll.pc = "idle"
    /\ \E fresh \in SUBSET {r \in Listings : Task(r) = t /\ ~There(r)} \ {{}} :
          coll' = [IdleColl EXCEPT
                      !.pc = "next", !.seen = OrderedKeys,
                      !.todo = IF t \in Direct THEN fresh ELSE {},
                      !.new  = IF t \in Direct THEN <<>>
                               ELSE [r \in fresh |-> [Unseen EXCEPT !.state = "none"]]]
    /\ UNCHANGED <<row, orders, auto, faults>>

\* The new row v for r goes to the session, and the collector to the next.
Add(c, r, v) == [c EXCEPT !.pc = "next", !.hand = Empty, !.todo = @ \ {r},
                          !.new = [s \in DOMAIN @ \cup {r} |-> IF s = r THEN v ELSE @[s]]]

\* Mutant: without has_owner_ordered_item.
CollNext_Unchecked(r) ==
    /\ coll.pc = "next" /\ r \in coll.todo
    /\ LET accounts == AccountsOf[Task(r)] \ coll.off
       IN  coll' = IF accounts = {} THEN Add(coll, r, [Unseen EXCEPT !.state = "no_account"])
                   ELSE [coll EXCEPT !.pc = "place",
                                     !.hand = [Empty EXCEPT !.row = r, !.left = accounts]]
    /\ UNCHANGED <<row, orders, auto, faults>>

\* _upsert_items orders a new item before its row is there.
CollNext(r) ==
    /\ coll.pc = "next" /\ r \in coll.todo
    /\ LET known    == Key(r) \in coll.seen
           accounts == AccountsOf[Task(r)] \ coll.off
       IN  \/ /\ known
              /\ coll' = Add(coll, r, [Unseen EXCEPT !.state = "duplicate"])
           \/ /\ ~known /\ accounts = {}
              /\ coll' = Add(coll, r, [Unseen EXCEPT !.state = "no_account"])
           \/ /\ ~known /\ accounts # {}
              /\ coll' = [coll EXCEPT !.pc = "place",
                                      !.hand = [Empty EXCEPT !.row = r, !.left = accounts]]
    /\ UNCHANGED <<row, orders, auto, faults>>

\* _direct_order_item; an exception ends it, with accounts left or not.
CollPlace ==
    /\ coll.pc = "place"
    /\ LET v == [Unseen EXCEPT !.attempts = 1]
       IN  \/ \E o \in Outcomes(coll.hand, coll.off) :
                LET h == o.hand
                    c == [coll EXCEPT !.hand = h, !.off = o.off]
                IN  /\ Place(coll.hand, o)
                    /\ coll' = IF h.account # Nobody
                               THEN Add(c, h.row, [v EXCEPT !.state = "success", !.by = "coll"])
                               ELSE IF h.left # {} THEN c
                               ELSE IF h.failed THEN Add(c, h.row, [v EXCEPT !.state = "failed"])
                               ELSE Add(c, h.row, [Unseen EXCEPT !.state = "no_account"])
           \/ /\ PlaceBreaks(coll.hand)
              /\ coll' = Add(coll, coll.hand.row, [v EXCEPT !.state = "failed"])
    /\ UNCHANGED <<row, auto>>

\* Mutant: what the orders came to is left out of the rows.
CollCommit_Plain ==
    /\ coll.pc = "next" /\ coll.todo = {}
    /\ row' = [r \in Listings |-> IF r \in DOMAIN coll.new THEN [Unseen EXCEPT !.state = "none"]
                                   ELSE row[r]]
    /\ coll' = IdleColl
    /\ UNCHANGED <<orders, auto, faults>>

\* All rows are written at once.
CollCommit ==
    /\ coll.pc = "next" /\ coll.todo = {}
    /\ row' = [r \in Listings |->
                  IF r \in DOMAIN coll.new
                  THEN [coll.new[r] EXCEPT !.over = r \in Wanted /\ AutoHas(Key(r))]
                  ELSE row[r]]
    /\ coll' = IdleColl
    /\ UNCHANGED <<orders, auto, faults>>

-----------------------------------------------------------------------------
\* Faults.

\* A query or an order fails with an exception, and with it the round or, if it is
\* a query, the batch (which is rolled back).
AutoBreaks ==
    /\ \/ auto.pc = "next" /\ Fault /\ UNCHANGED orders
       \/ auto.pc = "place" /\ PlaceBreaks(auto.hand)
    /\ auto' = [IdleAuto EXCEPT !.turn = auto.turn]
    /\ UNCHANGED <<row, coll>>

CollBreaks ==
    /\ coll.pc = "next" /\ Fault
    /\ coll' = IdleColl
    /\ UNCHANGED <<row, orders, auto>>

\* The scheduler is restarted.
Crash ==
    /\ faults < MaxFaults /\ faults' = faults + 2
    /\ auto' = IdleAuto /\ coll' = IdleColl
    /\ UNCHANGED <<row, orders>>

-----------------------------------------------------------------------------
Round == AutoStart \/ AutoNext \/ AutoPlace \/ AutoRecord

Next ==
    \/ Round \/ AutoBreaks
    \/ (\E t \in Tasks : CollStart(t)) \/ (\E r \in Listings : CollNext(r))
    \/ CollPlace \/ CollCommit \/ CollBreaks
    \/ Crash

\* The ordering round comes again and again, and its requests are answered.
Spec == Init /\ [][Next]_vars /\ WF_vars(Round)

-----------------------------------------------------------------------------
\* Properties.

RowOK == [state : {"absent", "none", "no_account", "failed", "success", "duplicate"},
          attempts : 0..MaxAttempts, by : {"nobody", "auto", "coll"}, over : BOOLEAN]

HandOK(h) ==
    /\ h.row \in Listings \cup {<<>>} /\ h.left \subseteq Accounts
    /\ h.failed \in BOOLEAN /\ h.account \in Accounts \cup {Nobody}

\* Types of the columns and of the rounds' variables; attempts and batches stay
\* within their limits.
TypeOK ==
    /\ row \in [Listings -> RowOK]
    /\ orders \in [Keys -> Nat]
    /\ auto.pc \in {"idle", "next", "place", "record"} /\ auto.turn \in 0..(Turns - 1)
    /\ auto.todo \in Seq(Listings) /\ HandOK(auto.hand) /\ auto.off \subseteq Accounts
    /\ auto.keys \subseteq Keys /\ auto.done \in [Tasks -> 0..Batch]
    /\ coll.pc \in {"idle", "next", "place"} /\ coll.todo \subseteq Listings
    /\ HandOK(coll.hand) /\ coll.off \subseteq Accounts /\ coll.seen \subseteq Keys
    /\ DOMAIN coll.new \subseteq Listings
    /\ faults \in 0..(MaxFaults + 1)

Success(k) == {r \in Listings : Key(r) = k /\ row[r].state = "success"}

\* has_owner_ordered_item: two tasks of an owner that find one item do not both order
\* it, be it by the collector or by a round; only while both were about to order it,
\* which neither sees of the other, each may place an order.
OrderedOnce ==
    \A k \in Keys : \A r, s \in Success(k) :
        r # s => row[r].by # row[s].by /\ (row[r].over \/ row[s].over)

\* The orders whose row is about to be written.
InHand(k) ==
    {r \in Listings : Key(r) = k /\ auto.hand.row = r /\ auto.hand.account # Nobody}
    \cup {r \in DOMAIN coll.new : Key(r) = k /\ coll.new[r].state = "success"}

\* An order on the platform has a row that says so, or will have one shortly; an answer,
\* a write, a round or a batch that is lost takes one order of an item with it, and a
\* crash, which counts for two faults, that of the round and that of the collector.
OnRecord ==
    \A k \in Keys : orders[k] <= Cardinality(Success(k)) + Cardinality(InHand(k)) + faults

\* owner_fair_share: the rows of an owner whose accounts work are ordered, or given up
\* after their attempts, although others' rows fill every round and never find an account:
\* none of them stays pending.
OwnersServed ==
    \A r \in Listings :
        AccountsOf[Task(r)] # {} /\ AccountsOf[Task(r)] \cap Sick = {}
            => []<>~Pending(r)
=============================================================================
