# Formal models of ppfish

ppfish runs shops on Xianyu (a second-hand market): it keeps a chat connection
open for every account, answers buyers, delivers card codes ("卡券") to those who
paid, and settles the sales of dealers who sell other people's cards. This
directory holds TLA+ models of the parts where that can go wrong in a way tests
hardly reach, the TLC runs that check them, and proofs for TLAPS.

Paths below are relative to the repository (`src/` in `PROJECT.json`).

## 1. Inventory

The system is a set of processes that share MySQL and Redis.

| Service | Role |
|---|---|
| `websocket` | one `XianyuLive` instance per account: chat connection, message handlers, delivery, `/internal/*` HTTP endpoints |
| `scheduler` | APScheduler rounds: redelivery, order sync, ratings, polishing, queues of orders |
| `backend-web` | REST API for the web and mobile front ends: orders, manual delivery, pickups, withdrawals, administration |
| `common` | models, `db_manager`, Redis locks, order and settlement services, captcha solving |
| `promotion` | publishing of listings by rules |
| `frontend`, `xianyu-mobile`, `launcher` | user interfaces and process start |

Components with logic of their own, the state they keep, and what makes them
correct:

| Component | State | Operations and interactions | Hard behaviour | Correct when |
|---|---|---|---|---|
| Message handler delivery (`auto_delivery_handler.py`) | `_order_locks`, `_lock_hold_info`, `last_delivery_time`, `confirmed_orders` (memory of one instance); `xy_orders` | Redis lock, local lock, quantity loop (confirm, take a code), mark, send, receipts, write | other flows for the same order; long awaits between check and write; switches read several times; restart, crash | codes of an order go out once; nothing goes out without the confirmation the switches ask for; a taken code is never lost from sight |
| Internal endpoint (`internal.py`) | the same locks | one code at a time: take, send; then confirm and write; answers the caller | the caller may be gone or ask again; answers differ by case | same, for every answer |
| Redelivery task (`redelivery_task.py`), HTTP client | rows read at the start of a round | Redis lock, `check_can_ship`, POST with up to three attempts, second write of the outcome | stale rows, repeated POST | an order left behind is settled in the end |
| Manual delivery (`orders.py`) | none | precheck, Redis lock, POST | as above | as above |
| Order sync (`order_service.py`) | `xy_orders.status` | overwrites the local status with the platform's page | page older than a delivery | never claims more than the platform |
| Settlement (`common/services/settlement_service.py`) | `xy_user_settings` balance rows, `xy_fund_flows` | legs of a two level settlement under row locks, inside the caller's transaction | lost updates, deadlocks, errors that are swallowed and committed | money is only passed on; flows chain up to the balance |
| Pickup (`pickup_service.py`, `card_delivery_content.py`) | the same rows, `xy_cards.data_content` | Redis lock, sorted row locks, net check, stock, settlement | stale objects of the ORM session; Redis down | nobody is overdrawn; a code goes out once |
| Withdrawal, advertisement income | the same rows; `xy_settlement_records` | change of a balance with its flow; review by mail | concurrent reviews; background risk checks | as for settlement |
| Account lifecycle (`cookie_manager.py`, `xianyu_async.py`) | `tasks`, `instances`, `_task_locks` per account; `xy_accounts.status` | start, stop, restart by HTTP, by a password login or by the task's own token refresh | requests overlap at every await; a stop that gives up waiting; the end of an old task | one live task per account, reachable; a stop holds |
| Captcha browsers (`captcha/concurrency.py`, `password_login*`) | count of slots, a lock per browser profile, a pool of threads, the entries of logins at work | a task waits for a thread, a slot, its account's profile, then opens a browser; a login may have to wait for a face | threads, each wait with a timeout; errors between two acquisitions; entries that outlive their login | no slot lost, one browser in a profile, nobody waits in a circle |
| Real mouse (`weighted_runner.py`) | queues of local and remote checks, weights, the running task | a dispatcher picks by smooth weighted round robin; callers come, cancel, or go away | cancelled at every await; weights change between two picks | the shares are kept, everyone is answered |
| Connection and token refresh (`xianyu_async.py`, `cookie_token_manager.py`, `token_renewal_cache_service.py`) | socket, `current_token`, counters of failures; row of `xy_token_cache` | main connects with a token of the cache or a fetched one; loops refresh it beside main; the scheduler renews the row | refreshers overlap; the row changes under them; sliders, refusals, retries | a refused token is dropped, a renewed one kept, the account gets connected again |
| Listing orders (`listing_monitor_task.py`, `auto_order_task.py`, `owner_fair_share.py`) | `xy_listing_monitor_items`; orders placed on Xianyu | the collector inserts rows and may order at once; a round orders what is left, a fair share for each owner | two coroutines, one external order; lost answers and writes; limits of a round | an item is ordered once, on record, and no owner starves |
| Agree pickup (`agree_pickup_*`) | `xy_orders` | the buyer agrees on a page, then the order is delivered | agreement races with delivery | delivered once |
| Everything else (replies, messages to sellers, publishing, recharge APIs, CRUD, front ends) | — | — | external pages, no shared state with the above | not planned |

`PROJECT.json` lists the same components with their status, and under
`hazards` each place where the code is exposed, at its line.

## 2. Modules

```
CardHandout             what delivery promises (abstract)
  ^ refined by (INSTANCE ... WITH, property HandsOutOnce)
OrderDelivery           delivery of card codes, all flows of an account
  ^ EXTENDS             OrderDeliveryMC (TLC)
  ^ EXTENDS             OrderDelivery_proofs (TLAPS: types, locks)
    ^ EXTENDS           OrderHandout_proofs (TLAPS: hand-out, refinement)
Settlement              balances and stock under concurrent transactions
  ^ EXTENDS             SettlementMC (TLC), Settlement_proofs (TLAPS)
AccountLifecycle        tasks of one account under overlapping requests
  ^ EXTENDS             AccountLifecycle_proofs (TLAPS)
TokenConnection         connection and token of one account
  ^ EXTENDS             TokenConnection_proofs (TLAPS)
BrowserSlots            slots, profiles, threads and the login gate
  ^ EXTENDS             BrowserSlotsMC (TLC), BrowserSlots_proofs (TLAPS)
MouseQueue              the weighted queue in front of the real mouse
  ^ EXTENDS             MouseQueueMC (TLC), MouseQueue_proofs (TLAPS)
FairShare               quotas of owners (operators)
  ^ EXTENDS             ListingOrders: collector and ordering round
    ^ EXTENDS           ListingOrdersMC (TLC), ListingOrders_proofs (TLAPS)
```

### OrderDelivery

State: the order on Xianyu (`platform`), the buyer's chat (`buyer`), the order's
row (`status`, `marker` = `card_only_delivered`, `content` =
`delivery_content`), the stock (`card`: for which order a code was taken), the
account switches `onlySend` and `autoConfirm`, whether `placed_at` lies in the current
day (`today`), the Redis key (`redis`), and, for every instance `g` of the
account, `lock[g]` (`_order_locks`), `hold[g]` (`_lock_hold_info`), `cool[g]`
(`last_delivery_time`), `confd[g]` (`confirmed_orders`). `th` are the flows of
the websocket process (message handlers `Autos`, endpoint requests `Calls`),
`cl` the callers of the endpoint (`Scheds`, `Manuals`).

A step is what runs between two awaits. The path of a flow:

| pc | action | code |
|---|---|---|
| idle | `AutoStart` / `CallerCall` | `_handle_auto_delivery` up to the Redis lock, with the delivery block rules (`PreCheck`) / the POST |
| redis | `AutoRedis` | `try_acquire_delivery_lock`; an error of Redis falls back to the local lock |
| lock | `Acquire` | `_order_locks[...]`, 5 s |
| check | `AutoCheck`, `CallCheck` | second look at row and memory under the lock |
| enter | `AutoEnter` | start of a round of the quantity loop (`_auto_delivery`) |
| confirm | `Confirm` | `auto_confirm`; its retries and lost answers are in `Answers` |
| take | `Take` | `consume_batch_data` |
| mark | `AutoMark` | `mark_delivery_sent` and the ten minute hold |
| send | `Send` | one code to the chat: arrives, fails, or is rejected later |
| post | `Post` | switch read again, receipts, confirmation in send-before-confirm mode |
| write | `Write` | the row, by kind of delivery |
| leave, free | `Leave`, `AutoFree` | `finally` blocks; the answer to the caller |

Handlers and requests share `Acquire`, `Confirm`, `Take`, `Send`, `Post`,
`Write` and `Leave` because the code of the endpoint repeats the handler's; where
the two differ an action says so (`t \in Autos`, `t \in Calls`). The callers go
`SchedSnapshot`/`ManualStart`, `CallerRedis`, `SchedCanShip` (scheduler only),
`CallerCall`, `CallerTimeout`, `CallerDone`, `CallerFree`. Around them: `Toggle`, `DayEnds`,
`Elsewhere` (seller or buyer act on the platform), `SyncRead`/`SyncWrite`, the
expiries, `Restart` of the account (a new instance with empty memory while old
flows go on) and `Crash` of the process.

Some facts of the code that shape the model:

- The scheduler's second read of a row under its lock is by the same ORM session
  that already holds the object, so it returns the old values: `SchedCanShip`
  does not look at the database again.
- A handler of a FastAPI endpoint goes on after its client has disconnected: a
  request outlives its caller (`CallerTimeout`).
- On "already delivered" `_auto_delivery` uses a variable it does not have; the
  `NameError` is swallowed and the write is skipped (`ConfirmAsk`).
- The endpoint ignores the result of a send; the handler does not (`Send`).
- The redelivery task takes up the orders placed today (`SchedSnapshot`): an order that
  is open at midnight, or has no `placed_at`, is left to the seller.
- A sync writes 'completed' once the buyer has confirmed the receipt (`Synced`). The
  endpoint and the manual route take that for delivered (`Delivered`), the message
  handler compares with 'shipped' only (`Handled`).
- A handler that cannot read the row under its lock goes on (`AutoCheck`, under
  `DbFaults`); a request then fails (`CallCheck`).

`RedisFaults` stands for a refused connection, a lost reply to `SET NX` (the
retry then meets its own key), a lost release, and a key that expires under a
flow that takes more than 120 s.

### CardHandout

Codes of an order are given once, in one go, at most `Qty`, and a code to one
order only. `OrderDelivery` maps `given` to the codes taken for an order and
`settled` to "taken, and no flow at work holds any of them".

### Settlement

Every transaction that writes a balance is a member of `Txs`: an order's
settlement (websocket), a pickup, a withdrawal, an advertisement's income
(backend-web); no other code of the repository writes a balance or a fund flow.
State: committed balances `bal`, row locks `row`, committed flows `flows`, the
card's stock and its row lock, and the transactions `tx` with what they have
read and not committed (`mem`, `pend`, `seen`). One SQL statement is one step:
`LockRow` (pickups lock all parties in ascending order of ids), `Decide` (net
check under the locks), `PickupTake` / `OrderTake`, `Book` (one leg:
`_add_balance` or `_deduct_balance`), `Commit`. `LockTimeout`, `DeadlockVictim`
and `Fail` are InnoDB's and the network's doing: after a lock wait timeout in the
middle of a settlement the code catches the error, notes it in `settle_remark`
and *commits* what was done so far; a deadlock's victim loses its whole
transaction (the statement that notes the error then matches no row).

Prices and the fee are constants: the checks of the sale price read nothing that
another transaction changes. Two data of the model matter for the properties and
are kept exactly: who pays which leg in which order (`SettleLevel1`,
`SettleLevel2`), and the pickup's own account of the same (`NetDelta`).

### AccountLifecycle

One account. `tracked` is `tasks[cookie_id]`, `inst` the task whose `XianyuAsync` is
`instances[cookie_id]`, `taskLock` the lock `_task_locks[cookie_id]` leads to now;
`lock` are the asyncio locks themselves, with their FIFO of waiters, because a
removal drops the dictionary's entry and others may still wait for the old lock.
`Jobs` are the requests: `Adds` run `_add_cookie_async`, `Removes`
`_remove_cookie_async`, `Updates` `_stop_task_async` and then `_add_cookie_async`
(`update_cookie` and `delayed_restart`). A request is born by an HTTP call, by a
login or by a task's own token refresh, at any time; `Restart` is the endpoint
that creates a removal and a start together, which the loop begins in that order.

| Action | Code |
|---|---|
| `AddEnter`, `AddResume` | `_add_cookie_async` before and after `await existing_task` |
| `RemoveEnter`, `RemoveResume` | `_remove_cookie_async` before and after `wait_for(task, 10)` (which, in Python 3.11, returns only when the task has ended, timeout or not) |
| `Wait` | `async with lock` when somebody has it |
| `UpdateStop`, `UpdateAdd` | `_stop_task_async` with its shielded wait of 3 s, and the start that follows without an await between |
| `TaskBegin`, `TaskCheck` | `_run_xianyu`: expiry of the owner, then the instance |
| `TaskLoad`, `TaskLost` | `main`: the status is read before every connection; retries and the ways to give up, some of which disable the account |
| `TaskCancelled`, `TaskEnd` | `CancelledError`, `finally` of `main` and of `_run_xianyu` |

A task that was cancelled before its first step never enters its `try`, so its
`finally` does not run: `TaskCancelled` leaves `inst` alone then. `blind` marks a task
that connected without knowing the status (the query failed, or the row is gone).

### TokenConnection

One account again, from the other side: `conn` is the place of `XianyuLive.main`, the
token its socket was registered with and the socket; `inst` the fields of the
instance that matter (`current_token`, `_cached_token_in_use`, the two flags of
an expired start-up token, the three counters of failures); `ref[p]` the call of
`refresh_token` each refresher is in; `row` the account's row of
`xy_token_cache`; `sched` the scheduler's renewal of that row. `issued` is what the platform knows: a new
token ends those before it. Tokens are numbers, the least one not held anywhere
is issued next.

| Action | Code |
|---|---|
| `Top`, `Dial`, `Reg`, `Answer`, `Ended`, `Failed`, `Login` | `main`: status, connect, `init` with its own refresh, registration and its answer, the end of a connection by kind, the backoff, the password login |
| `Skip`, `ReadHit`, `ReadMiss` | the start of a refresh: too early or busy; cache row found; fetch |
| `Unread` | `captcha.local_slider_disabled` cannot be read: any row of the cache is used, over or not, and the platform is not asked; so in the calls that repeat a refresh, too |
| `Got`, `Solved`, `Denied`, `Again`, `Mark`, `Store`, `Close` | the answers of the platform with sliders and retries, and what a refresh writes: the row, the fields, the socket it closes |
| `Load`, `Renew`, `Write` | the renewal round: rows to renew, the request, the write that checks the row again |
| `Drop`, `Disable`, `Restart`, `Age` | environment: a broken socket, the account's switch, a new instance, time |

Time has two grains. Hours (`Age`) move the row from `far` to `near` to `past`;
minutes suffice to connect and for a loop to look at the token, so hours pass
only when a loop has done so (`polled`). While main is not connected, a loop or a
renewal begins at most once (`mid`): their intervals are far longer than a reconnect. Two refreshers may both have read the
row before either writes; `counts` is the shared
`last_token_refresh_status` as the caller reads it after its refresh, another's
result included.

### BrowserSlots

State: `active` (`_active_count`), `lock` (an `RLock` for each account's browser
profile), `gate` (`_processing_accounts`: whose entry), and the tasks. They run in
threads: a step is what one does between two accesses to shared state. A
slider check, a cookie renewal, a login over HTTP and one from the web panel all
go thread, slot, profile lock, browser, in this order, and back in another:

| Action | Code |
|---|---|
| `Ask`, `AskPanel` (`Enter`) | the request; logins pass the gate, others queue for a thread |
| `Begin` | the pool gives a thread. Which task is next is left open: the order of the pool's queue bears on no property |
| `TakeSlot`, `SlotTimeout` | `acquire_slot` with its `Condition` |
| `TakeLock`, `LockTimeout` | `AccountBrowserLockManager`, 180 s |
| `Face`, `FaceOver` | the login waits for a face: it gives the slot back and keeps the browser |
| `Unlock`, `FreeSlot` | the `finally` blocks |
| `Fallback`, `Finish`, `Expire` | the panel's refusal, the end of a login's entry, its 300 s |

### MouseQueue

State: the queues with their ages, the futures the callers wait for, the
dispatcher, the weights as last read and as set, and the smooth weighted round
robin's `current`. The sections under `asyncio.Lock` contain no await, so each is
one step. Weights are exact ratios of small numbers instead of scaled floats.
Actions: `Submit`, `Cancel`, `Start` (a dispatcher for a queue that was empty), `Loaded` (the
weights are there, or the query failed and the last ones stay; pick, hand to the
executor), `RunEnds`, `Age` (a remote check has waited so long that it is next
of its side) and `ChangeRatio`. A task that is cancelled after it was chosen runs
all the same, as in the code. The history `passed` counts how often a waiting side was
passed over while the weights stayed the same.

### FairShare and ListingOrders

`FairShare` has the three operators of `owner_fair_share.py`: the order of
owners rotated by the round's turn, the quotas, and interleaving. `ListingOrders`
has `row` (rows of `xy_listing_monitor_items`), `orders` (what was really ordered on
the platform), the ordering round `auto` and the collector `coll`, each with its
lock, so one of each at a time.

| Action | Code |
|---|---|
| `AutoStart` | the queue of a round: pending rows, owners by quota and in turn |
| `AutoNext` | the next row: limit of the task, an item of this owner ordered before, the account to try |
| `AutoPlace`, `AutoRecord` | `place_order` and its outcomes; the row's update |
| `CollStart`, `CollNext`, `CollPlace` | a task's page of items; for each: seen before, ordered before, order at once; an exception fails the row, with accounts left or not |
| `CollCommit` | the batch is written in one commit at the end |
| `AutoBreaks`, `CollBreaks`, `Crash` | a statement raises (in the round an order, too, placed or not) and the round or the batch ends; the process ends |

The collector's session reads one snapshot (InnoDB's `REPEATABLE READ`): it does
not see what the round commits meanwhile. A row's `by` and `over` are history: whose
order it records, and whether the other service had the item in hand when it was
written (`AutoHas`: the round between its check and its record; `CollHas`: a session that
has the item still to order, or ordered). `faults` counts a crash as two, since it can take an
order from each. The order of ids and that of candidate
accounts are left open. The queue of a round (`Queue`) depends on the pending rows and the
turn only; `Queues` lists those of all rounds once.

## 3. Runs

All bounds are constants in the `.cfg` files. One order is enough for the
delivery properties: locks, memory, rows and snapshots are kept per order, and
flows of different orders meet only at the stock, which is one atomic step
(a compare-and-swap in the code). `Qty = 2` with three codes lets the quantity
loop run twice and leaves a code to be taken too many; two requests and one
handler give every pair of flow kinds, and a request that is repeated while the
first goes on.

| Run | Checks | Shows |
|---|---|---|
| `gate` | `TypeOK Exclusion NoDoubleDelivery SendGate` | handler, scheduler and two of its requests, with Redis failing and the rules closing the order: the local lock alone keeps flows apart; codes only for shipped orders |
| `gate_restart` | `Traceable HandsOutOnce MarkerIsFinal` | a restart of the account, two handlers, scheduler and request, `only_send_card` switched at any time: once and in one go; every code in sight; the marker stays. Redis is up here |
| `sbc` | `ShippedAfterSent` | send-before-confirm in two handlers, beside a manual delivery, switches toggled, failing writes |
| `ends` | `ShippedHonest FlowEnds` | manual delivery, crashes at any step, stale syncs, given-up requests; liveness under `FairSpec` |
| `redelivery` | `EventuallySettled` | the redelivery task settles what others left behind, unless the order's day ends first; an order may also have no `placed_at` |
| `lifecycle` | `TypeOK LockedStartsAlone JobEnds StopTakesHold` | two starts, a removal and a restart of one account at once; liveness under `FairSpec` |
| `ledger` | `TypeOK LedgerAgrees PickupsOrdered MoneyConserved OnlyOrdersOverdraw TxEnds` | three transactions of all kinds meet in every order, with every fault |
| `slots` | `TypeOK SlotsCounted ProfileExclusive NoStandstill OneLogin EntryEnds` | a check, a renewal, two logins over HTTP and one of the panel compete for one slot and three threads, with every timeout and refusal |
| `mouse` | `TypeOK ShareKept CancelledNeverStarts Answered` | two local and two remote checks, one with a cookie, come again and again, are cancelled at any await, and the weights change; liveness |
| `token` | `TypeOK RefusedNotReused RenewalSpared Recovers ZombieEnds` | main and a loop refresh one token over the shared row, with the renewal task or with two failures (a switch that cannot be read among them); liveness |
| `listing` | `TypeOK OrderedOnce OnRecord OwnersServed` | two tasks of an owner and one of another find the same item; a lost answer, a failed write, an exception or a crash; liveness |

One run finds a disagreement between the code and what it says of itself (section 5
lists others, which have no run of their own):

| Run | Property | What happens |
|---|---|---|
| `pickup_twice` | `CodesOnce` | the card object was loaded before `SELECT ... FOR UPDATE`; the query does not refresh it, and a waiting pickup hands out the code the other took |

`ledger` uses prices 2 and 3, a fee of 1 and balances around them, so that each
check can just pass or just fail; two codes for up to three takers; the ids are
such that the order of legs is not the ascending order of rows. One of the
pickups is of a card without a `fee_payer`, which the batch save of cards allows:
`OnlyOrdersOverdraw` names it as the exception it is (section 5).
`CHECK_DEADLOCK FALSE` is set in
the settlement runs because a transaction is run once and the system then stops.

`lifecycle` starts from a running or a stopped account and lets two starts, a
removal and a restart meet: with the first task three tasks can follow each
other, two jobs can queue behind a third, and two locks exist at once after the
removal (a lock that is free, without waiters and not in the dictionary is as
good as new). With a restart two live tasks are possible (section 5); `LockedStartsAlone`
says that only a stop without the lock or a finished removal can lead there.
`StopTakesHold` speaks of every task of the account, not of the tracked one only. Its one
exception is stated: before the removal looked, an update (which stops without the lock) or an
earlier removal (which drops a lock others wait for) had put another task, or none, in
the place of a live one (`Lost`, `Unguarded`). Such a task stays connected for as long as
it likes (section 5).

`slots` has the default of the pool, two threads more than slots; with one slot
and three threads, a task that waits for the slot or the profile keeps a thread
from others, and the panel's login, which has a thread of its own, meets a full
pool. Two accounts: one with four tasks, so that profile and gate are contended, one
with one. A task runs once, hence `CHECK_DEADLOCK FALSE`.

`mouse` has the weights 1:1, 2:1 and 0:1 and changes them twice; a task may be submitted
again as soon as it was answered, which gives streams without end. `ShareKept`
is stated for weights above 0; a side of weight 0 waits by design while the
other has work.

`token` replaces the limits 100, 5 and 5 by 2 each: reaching a limit, and missing
it by one, both happen. Three tokens can differ at once (socket, row, in flight).
Two faults (refusals, sliders, lost requests, restarts, switches) where the renewal
task is off, none where it is on, as it already
overlaps with everything; one loop stands for two with the same body, `main` being the second
refresher. `CHECK_DEADLOCK FALSE`, as main may end.

`listing`: a round takes two rows of the four and one of a task, so that quotas,
batch and turns matter; the account of owner 1 may be turned down whenever it is
used, and its rows then fill rounds for ever; three tasks share one item over two owners, so that
"ordered by the same owner" and "by another" differ. `FairShareAssumption`
compares `allocate_owner_quotas` with a water-filling reference for three owners, up
to three rows each, totals up to five and every rotation; TLC evaluates it in this run.

Every passing property has a mutant beside the definition it changes (`Handled_MarkerOnly`,
`Book_NoLock`, ...): the bug it would catch.

### Fairness

- Flows and callers: weak fairness. asyncio runs every task that can go on, all
  waits in the code (local lock 5 s, receipts, HTTP) have timeouts.
- `RedisExpire`: weak; keys have a TTL of 120 s.
- `SchedSnapshot`: weak; the task runs in rounds for as long as the service does.
- Strong fairness only for `redelivery`, and named there (`Redelivery`): the
  platform, the Redis lock and the local lock do not fail the order for ever, and
  the row names what a delivery needs (chat, item, buyer, card). The scheduler's
  cool-downs after an error put rounds off and are not modelled.
  `EventuallySettled` also assumes that messages stop occupying the order; it ends
  with the order's day, as the task does.
- Transactions: weak fairness on their next statement. InnoDB grants or refuses
  every lock and rolls back one transaction of a cycle. `LockTimeout` and `Fail`
  are not assumed to happen.
- Account jobs and tasks: weak fairness. The event loop runs what is ready, and a
  cancelled task ends: its cleanup waits at most 3 s for each background task.
- Mouse queue: weak for the dispatcher (query and checks end: both have timeouts) and
  for `Age`. Nothing is assumed of callers or of the weights.
- Token: weak for `Main`, for each refresher and for `Age`. Requests are answered or time
  out, loops come again. Nothing is assumed of the scheduler.
- Listing orders: weak for `Round`; the round comes again and its requests are
  answered. Nothing is assumed of the collector.
- `BrowserSlots` has none: each step takes a task further along a path without
  a cycle, so `NoStandstill` is what remains to be said.
- Environment actions (toggles, closing, crashes, restarts) have none.

## 4. Proofs

Every theorem holds for all values of the constants that the module's assumption
admits (types, disjoint or finite sets); TLC evaluates each assumption in a run.
Seven of the components have their proofs, and each invariant below was first
checked by TLC on a run. What a theorem assumes beyond that is in its statement.

### OrderDelivery (`OrderDelivery_proofs`, `OrderHandout_proofs`)

For any orders, codes, flows, callers and instances, every quantity, and, where
nothing else is said, all switches and faults:

| Theorem | Property | Under |
|---|---|---|
| `TypeCorrect` | `TypeOK` | |
| `LockHeld` | `LocalLock`: the holder of an entry is in the locked part | |
| `MutualExclusion` | `Exclusion` | |
| `StatusHonest` | `ShippedHonest` | `ConfirmMode` |
| `GateKeptShut` | `SendGate` | `ConfirmMode` |
| `OneAtATime` | `OneDeliverer` | `Isolated` |
| `MarkerStaysFinal` | `MarkerIsFinal` | `Isolated`, no `DbFaults` |
| `ShippedOnlyAfterSent` | `ShippedAfterSent` | |
| `NoCodeTwice` | `NoDoubleDelivery` | `Safe` |
| `HandoutImplemented` | `HandsOutOnce` (refines `CardHandout`) | `Safe` |
| `CodesTraceable` | `Traceable` | `Safe`, `RedisReliable` |

The hypotheses are about the constants, i.e. about the mode an account is in and
the faults that may happen. They are the border of what the code
guarantees, found by proof attempts that failed and by TLC:

- `ConfirmMode`: confirm before send, and automatic confirmation on. In the other
  modes codes go out before the platform has the shipment, by design.
- `Isolated`: the account is not restarted, or Redis does not fail and no caller
  gives up on a running request. Without a common lock, flows of two instances
  work on one order; a caller that gives up releases the key under its request.
- `Safe`: `ConfirmMode` and `Isolated`, writes of the result and the look under the
  lock succeed, the process does not crash, a synchronisation does not write a page
  it read long before nor 'completed' (section 5),
  and, if block rules close orders, the account is not switched to only sending
  cards. The last is needed because a closed order's compensation leaves no mark in
  the row: with the switch on it is not skipped the second time. Each part
  excludes a second hand-out of section 5. Toggles of the switches, restarts with
  a reliable Redis, Redis faults without restarts, lost answers, failing sends
  and confirmations, and expiring memories remain.
- `RedisReliable`: the second disjunct of `Isolated`. A scheduler whose request was
  given up, or overtaken by a handler that Redis failed and that works without the
  key, writes its own outcome over the codes in the row (section 5): then
  the only record of a code can be lost.

The runs `gate`, `gate_restart` and `ends` have instances of these hypotheses.

Along which argument:

- `TypeInv` strengthens `TypeOK`: that a round stays within `0..Qty`, or a request
  within its tries, needs to know where the flow is (`FlowOK`, `CallerOK`).
  `LocalLock` is inductive given `TypeInv`.
- `Links` ties a waiting caller to its request; an idle flow or caller
  carries nothing over.
- `GateInv`: a shipment is remembered in the instance's memory, the status, the page
  a sync has read, the flags of a flow, the answer to a caller. Any of them
  lets a flow through, so each must be true of the platform, and stay so
  (`PlatformFinal`: no step undoes a shipment).
- `OneDeliverer` follows from the local lock if there is one instance. With
  several it is the key: `RedisInv` says that a handler between Redis lock and
  release has the key itself, and that a request has it through the caller that
  waits for it.
- `MarkerInv`: past the check no flow works on an order that has its marker; an
  answer "only the card was sent" is true of the row. As one flow works on an
  order, the check cannot go stale.
- `OnceInv` counts: a flow beyond the check holds all codes that were
  taken for its order, no more than rounds it has begun; an order whose codes
  nobody holds any more is handled, by its row, its memory or its platform state
  (`OrderOnce`). `NoCodeTwice` is the count, and the refinement maps a step to
  `CardHandout` by it: a `Take` is a hand-out, the flow's end settles, each other
  action is a stutter.
- `SentInv` follows the codes of a handler from the round they were sent in, with the
  failures it has seen, to the confirmation. Nothing takes a code out of the chat
  (`BuyerGrows`), so it outlives the other flows' steps; the endpoint does not look
  at the results of its sends, which is why the property is about handlers.
- `TraceInv` is about the moment a caller writes the row. The scheduler asks the
  platform under its key, which keeps all others off the order: when it calls, the order
  has no codes yet or has its marker, and it stays so until the request
  looks (`Fresh`). So an answer that is written carries every code taken
  (`SchedTrace`), and the answer "already" is not written over codes.

### Settlement (`Settlement_proofs`)

For any finite set of users, any transactions and deals, all prices, fees and
opening balances (also negative ones), every stock and every fault:

- `LocksReleased`: `TypeOK`; a transaction that is not at work holds no lock. That
  the next leg is one of the deal's own needs `TxOK`.
- `LedgerKept`: `LedgerAgrees`. A commit appends what a transaction has booked, so
  `LedgerInv` also says (`PendingOK`) that in a row `t` holds its own flows lead
  from the *committed* balance to the one it works with, and that it has
  booked nothing in another row. Nobody else can commit to a row that `t` holds.
- `PickupsNeverDeadlock`: `PickupsOrdered`. In a circle without an order nobody waits
  for the card, whose holder waits for nothing (`CardOK`), so all wait for rows of
  parties. `SortedOK` gives that all rows a transaction holds are below the one
  it waits for. Who waits for the least of the awaited rows is itself waited for, at a
  lower row: a contradiction. (There is a least one as `<` on the naturals is well founded.)
- `OnlyOrdersGoBelow`: `OnlyOrdersOverdraw`. The check of a pickup sums up by
  party (`NetDelta`), the settlement moves leg by leg. `BooksOK` says
  what a transaction's balance of a held row is: the committed one plus the legs
  moved so far; `MovedIsNet` that all legs together move `NetDelta`, for every level and
  payer and for parties that coincide; and `SortedOK` that every party is held from
  the decision to the commit and can bear its part.
- `MoneyKept`: `MoneyConserved`. `Total` is a sum over a finite set; the lemmas about
  it (a changed term changes the sum by as much) are proved by the
  least size of a set for which they would fail.

### AccountLifecycle (`AccountLifecycle_proofs`)

For any jobs, tasks and locks: `LocksSound` (`TypeOK`, in which each lock's queue has
exactly the jobs that wait for it, once each) and `StartsAlone` (`LockedStartsAlone`). The
latter needs `AwaitsHold`, that a job which waits for the task it has cancelled has the
lock it knows, and `Alone`: as long as no update has begun and no removal is
done, only the dictionary's lock is in use, any live task is the tracked
one, and whoever awaits a task awaits the tracked one. A removal breaks the second, an
update the third, which is why the property has them as premises.

### BrowserSlots (`BrowserSlots_proofs`)

For any accounts, tasks, slots and threads (`Workers = MaxSlots + 2`): `TypesKept`, `EverySlotCounted`
(`SlotsCounted`), `OneBrowserPerProfile` (`ProfileExclusive`), `OneLoginAtATime`
(`OneLogin`), `EveryEntryEnds` (`EntryEnds`), `NeverStandsStill` (`NoStandstill`).
The invariant says of each task where it may be (`Paths`), that
a profile's lock is held by the task with its browser and by nobody
else (`Locks`), whose entry is in the gate (`Entries`) and when a login may have lost
its own (`EntriesKept`). `NoStandstill` follows without a further
invariant: if all tasks under way were blocked, some wait for a profile, whose holder is at a
browser and not blocked; without those, slots are free; without those who wait
for slots, threads are. Cardinalities of sets of tasks carry `SlotsCounted`.

### MouseQueue (`MouseQueue_proofs`)

For any tasks and all weights, those of the run being three of them: `QueueTyped` (`TypeOK`, and
that nobody waits twice), `SharesKept` (`ShareKept`), `CancelledStaysOut`
(`CancelledNeverStarts`). The queue is filtered by `Keep` and searched by `First`, whose
lemmas (what is kept, and in which order) are proved for all sequences. `Balanced` is
the invariant of the smooth round robin: what one bucket is behind the other is ahead, by half a turn at
most, and each time it is passed over a bucket gains its weight. `ShareKept` alone is
not inductive: it does not know how far a bucket is behind.

### TokenConnection (`TokenConnection_proofs`)

For any limits, loops, tokens and faults: `LimitsKept` (`TypeOK`), `RefusedStaysOut`
(`RefusedNotReused`), `RenewalsSpared` (`RenewalSpared`). `RefusedNotReused` covers every
token that was over when it was taken from the cache, at the start or later
(`PastItsTime`); a refused one is in use only if the last refresh could not read the
slider's switch. `InLimits` says which counter is below its
limit at which place of main: the check comes after the increment, so at `failed` and
`login` it may be reached. `Spent`: the one chance to start with an expired
token is used up once one was refused. `RefsOK` places main's own refresh.

### ListingOrders (`ListingOrders_proofs`)

For any owners, tasks, items, accounts, batches and attempts: `LimitsHold` (`TypeOK`),
`BoughtOnce` (`OrderedOnce`), `OrdersStayOnRecord` (`OnRecord`). The invariant says that the rows
of a round are pending and different, and that the collector's rows are of one task and
not in the table yet (`FoundOK`): the two write different rows. When the round has an
item in hand, no row says it is ordered but those the collector wrote meanwhile
(`HandKept`); when the collector's session wants an item it has not seen ordered, no
row says so but those the round wrote meanwhile (`SeenOK`, `NewOK`). So neither orders what it
could have seen ordered, and a pair of orders needs an overlap. `OnRecord` counts, for each item, what the
table, the round's hand and the batch
know; each side has at most one order there, so a fault takes one at
most and a crash two. What a queue of a round contains (`Queue`) enters only as "pending rows,
each once".

### What stays with TLC

- Liveness (`FlowEnds`, `EventuallySettled`, `TxEnds`, `JobEnds`, `StopTakesHold`,
  `Answered`, `Recovers`, `ZombieEnds`, `OwnersServed`): beyond the prover.
- What `allocate_owner_quotas` computes for every input: it is a recursion over data,
  compared with its reference by TLC (`FairShareAssumption`).
- `pickup_twice`, which is a counterexample.


## 5. Not modelled, and what was seen without a run

Left out of `OrderDelivery`: the agree-to-deliver branch and its pickup page,
no-logistics forms, free shipping of bargains, API, dock, text and image cards,
`fail_reason`, an account without instance during a restart, the cool-downs of the
redelivery task, orders without a chat or a buyer, a failing write of the scheduler
itself. Merged: the check
of a switch with the API call after it, the receipts with the confirmation after
them. Left out of `AccountLifecycle`: the contents of cookies, `stop_all_tasks` at the
shutdown of the service, what a connection does. Left out of `Settlement`: a user without a balance row, the advertisement's
own row lock, rate limit and key check of pickups, the review of withdrawals.

Left out of `TokenConnection`: the mode without the local slider, the reconnect
with a new token over an open socket (`xianyu_async.py:2277` and following), the
cookies a login brings. Left out of
`BrowserSlots`: what happens in a browser, and `WeightedSerialScheduler` beside
`WeightedTaskRunner`, which is not modelled either. Left out of `ListingOrders`: the window of
two days, tasks without an owner, the configuration of contents, the search
pages, updates of rows that exist, the fill of sellers and the messages to them.
Not modelled at all: the cooldown of messages (no caller reaches it), replies,
recharge APIs, publishing, CRUD, front ends. They keep hardly any state of
their own that several actors share; most of their lines are pages, forms and
texts of external services, which a model would leave out.

Reading the code for the models showed more than the runs above state:

- A sync that read a page before a delivery and writes after it takes 'shipped'
  back (`order_service.py`, `_upsert_order` always overwrites); the redelivery
  task then delivers again, unless the platform is asked first and has shipped.
  `NoDoubleDelivery` is therefore checked with a sync that is one step
  (`StaleSync = FALSE`).
- An order that is open at midnight, or whose row has no `placed_at`, is never taken up
  again by the redelivery task (`redelivery_task.py:237`).
- `NoDoubleDelivery` holds in `gate` with Redis faults and in `gate_restart` with a
  restart. Together they leave no common lock between two instances, and
  `confirmed_orders` lets the second pass the confirmation: a second hand-out is
  possible. Codes held by a flow are lost with a crash of its process.
- A request has delivered an order, the buyer has confirmed the receipt and the sync
  wrote 'completed': the message handler's look under the lock compares with 'shipped'
  alone (`auto_delivery_handler.py:1228`; the endpoint has both, `internal.py:1466`). If
  the order has a quantity of two, its first round is told "already delivered", the
  second sends a code. TLC finds it in `gate.cfg` with `Completes = TRUE`; `Safe`
  excludes it.
- The endpoint's answer for an order the platform had shipped already promises a
  synchronised status that nobody writes (`internal.py:1813`).
- With `auto_confirm` off and confirm-before-send on, the handler refuses and the
  endpoint delivers.
- If the stock ends in the middle of a quantity, the shortage is recorded nowhere.
- A lock wait timeout in a settlement commits one side of a payment; the module
  text promises atomicity. `MoneyConserved` is about settlements marked 'settled'.
- The settlement of an order locks rows by role, pickups by id: they can deadlock
  with each other (`PickupsOrdered` says: only with an order among them), and the
  order's money is then not moved although its code was sent.
- A pickup of a card whose `fee_payer` was never set (the batch save of cards skips
  its validation): `_compute_net_deltas` charges the fee to the owner, the settlement
  to the dealer, whose balance can go below zero although
  `pickup_service.py:343` says the two agree. The proof of `OnlyOrdersOverdraw`
  found it: its step for the last leg has no other case that fails.
- With a restart, or a task slow to end, the `finally` of the old task drops the
  *new* task's entry of `instances`: the account is connected, but manual delivery and
  the endpoint find no instance.
- A task keeps its connection when the account's row is deleted: no row means "no
  status", and the status is not enforced.
- `POST stop` answers "stopped" when the removal is only scheduled.
- The balance an order needs is checked without a lock, so orders may overdraw.
- A lost answer to a delivery: the repeated POST is told "already shipped" with the
  codes under a key the scheduler does not read (`internal.py:1475`, `:2137`), and it
  overwrites `delivery_content` with an empty string (`redelivery_task.py:637`;
  `orders.py:702` knows both keys).
- "Already delivered" in the first round of a quantity: the second round skips the
  confirmation and takes a code (`auto_delivery_handler.py:2415`, against `:2401`).
- In send-before-confirm mode the endpoint ships although a send failed
  (`internal.py:2239`, against `:2334`).
- A restart pops, without the lock, the task a start has just made
  (`cookie_manager.py:327`, against `:62`): two connections, one of them nobody can stop.
  A restart for a refreshed token starts, two seconds later, with the cookie of
  the instance that asked for it, not the newest one (`xianyu_async.py:547`).

Browsers and mouse:

- A login that waits for a face gives its slot back, and nothing takes it again:
  `register_instance` does nothing, `close()` releases once more, and
  `password_login.py:280` releases a slot never held. More browsers than slots
  are possible, against `concurrency.py:5` and `:282`; `SlotsCounted` says by how many.
- A panel login of a disabled account leaves its entry in the gate for 300 s; a
  login that outlives its entry deletes its successor's.
- Weights that change between any two picks reset the round robin each time and can
  let one side win always; `ShareKept` therefore counts while they last (`weighted_runner.py:193`).

Token and connection:

- If the slider's switch cannot be read, `refresh_token` takes the cached token whatever
  its expiry (`cookie_token_manager.py:1096`): the start-up token that has just been
  turned down is connected with again, although `xianyu_async.py:2718` says "禁止当前进程再次复用".
  It is the stated exception of `RefusedNotReused`; without it TLC finds the violation in `token`.
- A token the renewal made in its last hour is read as the current one
  (`cookie_token_manager.py:318`), and the old connection stays open although `:406` says it
  must be closed; `ZombieEnds` bounds this to the token's own hours.
- A renewal or a refresh in flight during a login writes the token of the cookie
  that was replaced; with two refreshers an older token may overwrite a newer
  (`cookie_token_manager.py:465`).
- Failed fetches need not be consecutive to disable an account (`xianyu_async.py:2859`);
  two refreshers count each other's failures through `last_token_refresh_status`
  (`:2852`); a refresh that closes main's socket during its `init` counts as a
  failed authentication.
- A refresher that fails marks the row another has just written
  (`token_renewal_cache_service.py:250`, against `:78`).
- After five failed authentications main ends and the account stays "active"
  (`xianyu_async.py:3138`).

Listings:

- The collector and the round may both order one item at the same time: they do not share a lock,
  though `listing_monitor_dedup.py` exists so that an owner's tasks order an item once (`:4`). The
  collector's rows are committed with the whole batch, so its session is long.
  `OrderedOnce` allows a pair of orders only over such an overlap; without one each must see the
  other's (`listing_monitor_task.py:634`, `auto_order_task.py:125`).
- A lost answer, a failed write of a success or a lost batch leaves an order that no
  row knows: the item is ordered again, or its rows end as duplicates of nothing.
- If all accounts are turned down during the call, `_order_for_item` returns
  "failed" and records nothing; its caller's comment (`auto_order_task.py:202`)
  expects "no_account".
- Rows of one owner that never find an account can fill that owner's own quota until
  the window ends (the fill of sellers has quotas on two levels for this reason).
- Messages to sellers: the POST of a text is tried three times, the creation of a
  chat once (`dm_send_task.py:385`), and an error while a result is recorded
  ends the round: a message may be sent twice. The window is one day in the code, two
  in its documentation.

## 6. Plan

1. `SellerMessages`: the message round of listing rows, its retries, resets and the window.
2. `DeliveryLock`: the Redis lock step by step (SET NX, Lua release, retries,
   TTL), refining the one-step results of `LockResults`.
3. `AgreePickup`, the review of withdrawals, the mode of `TokenConnection` without the
   local slider.
