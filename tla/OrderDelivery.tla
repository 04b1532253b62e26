--------------------------- MODULE OrderDelivery ---------------------------
(***************************************************************************)
(* Delivery of card codes to the buyers of one Xianyu account.             *)
(*                                                                         *)
(* Three kinds of flow may deliver the same order: a message handler task  *)
(* of the websocket service (Autos), and the two callers of its HTTP       *)
(* endpoint /internal/orders/deliver, the scheduler's redelivery task      *)
(* (Scheds) and the merchant's manual delivery (Manuals).  A request a     *)
(* caller has sent runs as a handler of its own (Calls), which goes on     *)
(* when the caller has given up waiting for it.                            *)
(*                                                                         *)
(* A step is what runs between two awaits.  Cards are of type 'data' (each *)
(* delivered code leaves the stock for good), quantity Qty per order.      *)
(***************************************************************************)
EXTENDS Naturals, FiniteSets

CONSTANTS
    Orders, Codes, Autos, Calls, Scheds, Manuals,
    NoOrder, Nobody,
    Qty,                \* codes an order is owed
    MaxGen,             \* account restarts explored (instances 0..MaxGen)
    ConfirmBeforeSend,  \* account switch: no code unless the confirm worked
    SendBeforeConfirm,  \* account switch: confirm after the code was sent
    OnlySendModes,      \* values the switch only_send_card takes over time,
    AutoConfirmModes,   \* and the switch auto_confirm
    Rules,              \* a delivery block rule may hit
    RedisFaults,        \* Redis may fail, or its 120 s key expire mid-flow
    HttpTimeouts,       \* a caller may give up on a running request
    DbFaults,           \* a flow's look at the order, and its last write, may fail
    Crashes,            \* the websocket process may die
    StaleSync,          \* the order sync writes what it read some time ago
    Completes,          \* the buyer may confirm the receipt of a shipped order
    Midnight            \* an order's day may end, or its placed_at be missing

Threads == Autos \cup Calls
Callers == Scheds \cup Manuals
Gens    == 0..MaxGen

ASSUME DeliveryAssumption ==
    /\ Qty \in Nat \ {0} /\ MaxGen \in Nat
    /\ {OnlySendModes, AutoConfirmModes} \subseteq (SUBSET BOOLEAN) \ {{}}
    /\ Autos \cap Calls = {} /\ Threads \cap Callers = {}
    /\ Scheds \cap Manuals = {}
    /\ NoOrder \notin Orders /\ Nobody \notin Threads \cup Callers
    /\ {ConfirmBeforeSend, SendBeforeConfirm, Rules, RedisFaults,
        HttpTimeouts, DbFaults, Crashes, StaleSync, Completes, Midnight} \subseteq BOOLEAN

VARIABLES
    platform,   \* the order on Xianyu's side
    buyer,      \* the codes that reached the buyer's chat
    status, marker, content,    \* xy_orders: status, card_only_delivered,
                                \* delivery_content (as the set of its codes)
    card,       \* card stock: the order a code was taken for, NoOrder if left
    onlySend, autoConfirm,      \* xy_accounts: only_send_card, auto_confirm
    today,                      \* xy_orders: placed_at lies in the current day
    redis,      \* lock:delivery:order:<no>, its holder
    gen,        \* the account's current XianyuLive instance
    lock, hold, cool, confd,    \* per instance: _order_locks,
                                \* _lock_hold_info, last_delivery_time,
                                \* confirmed_orders
    th,         \* the delivery flows of the websocket process
    cl,         \* the callers of /internal/orders/deliver
    snap        \* what the order sync has read and not yet written

database == <<status, marker, content>>
memory   == <<gen, lock, hold, cool, confd>>
outside  == <<onlySend, autoConfirm, today>>   \* what no flow writes
vars == <<platform, buyer, database, card, outside, redis, memory, th, cl, snap>>

MaxTries == 3   \* HttpClient.max_retries

PlatformStates == {"pending", "shipped", "closed"}

\* Mutant: a closed order is taken for a finished one.
StatusOf_ClosedShipped ==
    [pending |-> "pending_ship", shipped |-> "shipped", closed |-> "shipped"]

StatusOf == [pending |-> "pending_ship", shipped |-> "shipped", closed |-> "cancelled"]

\* What the sync makes of an order it read in state p: a shipped one is
\* 'completed' once the buyer has confirmed its receipt ('交易成功').
Synced(p) ==
    {StatusOf[p]} \cup (IF Completes /\ p = "shipped" THEN {"completed"} ELSE {})

Statuses == {"pending_ship", "shipped", "cancelled"}
            \cup (IF Completes THEN {"completed"} ELSE {})

\* The steps of a flow between taking and releasing the order's local lock.
Locked == {"check", "enter", "confirm", "take", "mark", "send", "post", "write", "leave"}
ReplyKinds == {"none", "fail", "already", "alreadyOnly", "closed", "only", "normal"}

(***************************************************************************)
(* A flow: the instance it runs in (inst), whether it owns the Redis lock, *)
(* only_send_card_mode (only), closed_order_card_only (closed),            *)
(* platform_shipping_confirmed (conf), any_send_failed (bad), a card the   *)
(* chat server rejected (rej); the round of the quantity loop, with the    *)
(* round's own view of only and conf until its code is in hand; the codes  *)
(* taken (got), those still to send (todo), and the reply of a call.       *)
(***************************************************************************)
Idle == [pc |-> "idle", ord |-> NoOrder, inst |-> 0, redis |-> FALSE,
         only |-> FALSE, closed |-> FALSE, conf |-> FALSE, bad |-> FALSE,
         rej |-> FALSE, round |-> 0, rOnly |-> FALSE, rConf |-> FALSE,
         got |-> {}, todo |-> {}, reply |-> "none"]

Waiting == [pc |-> "idle", ord |-> NoOrder, redis |-> FALSE, req |-> Nobody,
            tries |-> 0, reply |-> "none", codes |-> {}]

Flow == [pc : Locked \cup {"idle", "redis", "lock", "free"},
         ord : Orders \cup {NoOrder}, inst : Gens, redis : BOOLEAN,
         only : BOOLEAN, closed : BOOLEAN, conf : BOOLEAN, bad : BOOLEAN,
         rej : BOOLEAN, round : 0..Qty, rOnly : BOOLEAN, rConf : BOOLEAN,
         got : SUBSET Codes, todo : SUBSET Codes, reply : ReplyKinds]

Caller == [pc : {"idle", "redis", "ship", "call", "wait", "done", "free"},
           ord : Orders \cup {NoOrder}, redis : BOOLEAN,
           req : Calls \cup {Nobody}, tries : 0..MaxTries, reply : ReplyKinds,
           codes : SUBSET Codes]

-----------------------------------------------------------------------------

Init ==
    /\ platform = [o \in Orders |-> "pending"]
    /\ buyer    = [o \in Orders |-> {}]
    /\ status   = [o \in Orders |-> "pending_ship"]
    /\ marker   = [o \in Orders |-> FALSE]
    /\ content  = [o \in Orders |-> {}]
    /\ card     = [c \in Codes |-> NoOrder]
    /\ onlySend \in OnlySendModes /\ autoConfirm \in AutoConfirmModes
    /\ today    \in [Orders -> IF Midnight THEN BOOLEAN ELSE {TRUE}]
    /\ redis    = [o \in Orders |-> Nobody]
    /\ gen      = 0
    /\ lock     = [g \in Gens |-> [o \in Orders |-> Nobody]]
    /\ hold     = [g \in Gens |-> [o \in Orders |-> FALSE]]
    /\ cool     = [g \in Gens |-> [o \in Orders |-> FALSE]]
    /\ confd    = [g \in Gens |-> [o \in Orders |-> FALSE]]
    /\ th       = [t \in Threads |-> Idle]
    /\ cl       = [c \in Callers |-> Waiting]
    /\ snap     = [o \in Orders |-> "none"]

At(t, pc)  == th[t].pc = pc
Become(t, r) == th' = [th EXCEPT ![t] = r]
Goto(t, pc)  == Become(t, [th[t] EXCEPT !.pc = pc])
CallerAt(c, pc)    == cl[c].pc = pc
CallerBecome(c, r) == cl' = [cl EXCEPT ![c] = r]
CallerGoto(c, pc)  == CallerBecome(c, [cl[c] EXCEPT !.pc = pc])

\* Mutants: only one of the two records of a delivery is looked at.
Handled_MarkerOnly(o) == marker[o]
Handled_StatusOnly(o) == status[o] = "shipped"

\* What a message handler takes for an order that was handed out before,
Handled(o) == status[o] = "shipped" \/ marker[o]

\* and what the endpoint and the manual route take for one.
Delivered(o) == Handled(o) \/ status[o] = "completed"

\* The memory of instance g says the order was handed out a short time ago.
HeldBack(g, o) == hold[g][o] \/ cool[g][o]

\* No call of the platform's shipment interface in this round.
Skips(r)  == r.closed \/ r.only \/ r.rOnly

\* Mutant: one round too many.
Rounds_OneMore(r) == IF r.closed THEN 1 ELSE Qty + 1

Rounds(r) == IF r.closed THEN 1 ELSE Qty

(***************************************************************************)
(* pre_delivery_check_and_close: what a rule decides, and the order on the *)
(* platform afterwards.  The seller's close succeeds on a pending order.   *)
(***************************************************************************)
PreCheck(o) ==
    {<<platform[o], "allow">>}
    \cup (IF Rules THEN {<<platform[o], "block">>} ELSE {})
    \cup (IF Rules /\ platform[o] = "pending"
          THEN {<<"closed", "block">>, <<"closed", "card_only">>} ELSE {})

\* Mutant: a shipment whose answers were all lost is reported as made.
Answers_LostIsOk(o) ==
    {<<platform[o], "ok">>}
    \cup (IF platform[o] = "pending" THEN {<<"shipped", "ok">>} ELSE {})

(***************************************************************************)
(* ConfirmShippingService.auto_confirm retries a request whose answer was  *)
(* lost: a shipment it made itself may be answered as "already delivered", *)
(* and one whose answers were all lost is reported as an error.            *)
(***************************************************************************)
Answers(o) ==
    CASE platform[o] = "pending" ->
             {<<"shipped", "ok">>, <<"shipped", "already">>,
              <<"shipped", "error">>, <<"pending", "error">>}
      [] platform[o] = "shipped" -> {<<"shipped", "already">>, <<"shipped", "error">>}
      [] platform[o] = "closed"  -> {<<"closed", "error">>}

-----------------------------------------------------------------------------
\* HTTP answer of flow t to the caller that waits for it, if one still does.
Answer(t, kind, codes) ==
    cl' = [c \in Callers |->
             IF cl[c].req = t
             THEN [cl[c] EXCEPT !.pc = "done", !.req = Nobody,
                                !.reply = kind, !.codes = codes]
             ELSE cl[c]]

\* End of the locked part: the local lock goes, a call is answered.
Finish(t, kind, codes) ==
    /\ lock' = [lock EXCEPT ![th[t].inst][th[t].ord] = Nobody]
    /\ IF t \in Autos THEN Goto(t, "free") ELSE Become(t, Idle)
    /\ Answer(t, kind, codes)

\* The record of a message handler after one round of its quantity loop.
NextRound(r) ==
    [r EXCEPT !.pc = IF r.round + 1 < Rounds(r) THEN "enter"
                     ELSE IF r.got # {} THEN "mark" ELSE "leave",
              !.round = @ + 1, !.rOnly = FALSE, !.rConf = FALSE]

\* A round without a code; after the first the handler looks at the order.
EmptyRound(t) ==
    IF th[t].round = 0 /\ status[th[t].ord] = "shipped"
    THEN Goto(t, "leave")
    ELSE Become(t, NextRound(th[t]))

\* _handle_auto_delivery up to the Redis lock.
AutoStart(t, o) ==
    /\ At(t, "idle")
    /\ \E p \in PreCheck(o) :
         /\ platform' = [platform EXCEPT ![o] = p[1]]
         /\ IF p[2] = "block" \/ HeldBack(gen, o)
            THEN UNCHANGED th
            ELSE Become(t, [Idle EXCEPT !.pc = "redis", !.ord = o, !.inst = gen,
                                        !.closed = (p[2] = "card_only"),
                                        !.only = onlySend])
    /\ UNCHANGED <<buyer, database, card, outside, redis, memory, cl, snap>>

(***************************************************************************)
(* try_acquire_delivery_lock: the key's holder afterwards and the result.  *)
(* The client repeats a SET NX whose reply was lost and then meets its own *)
(* key as somebody else's; or it gives up and reports an error.            *)
(***************************************************************************)
LockResults(n, o) ==
    {IF redis[o] = Nobody THEN <<n, "got">> ELSE <<redis[o], "busy">>}
    \cup (IF RedisFaults THEN {<<redis[o], "error">>} ELSE {})
    \cup (IF RedisFaults /\ redis[o] = Nobody THEN {<<n, "busy">>, <<n, "error">>} ELSE {})

\* release_delivery_lock deletes the key only if it still holds its owner n.
ReleaseResults(n, owner) ==
    IF owner = n THEN {Nobody} \cup (IF RedisFaults THEN {n} ELSE {}) ELSE {owner}

AutoRedis(t) ==
    LET o == th[t].ord IN
    /\ At(t, "redis")
    /\ \E a \in LockResults(t, o) :
         /\ redis' = [redis EXCEPT ![o] = a[1]]
         /\ Become(t, IF a[2] = "busy" THEN Idle
                      ELSE [th[t] EXCEPT !.pc = "lock", !.redis = (a[2] = "got")])
    /\ UNCHANGED <<platform, buyer, database, card, outside, memory, cl, snap>>

\* Mutants: a held lock is waited for without end, not respected, or given
\* back by the flow that waited for it in vain.
Acquire_NoTimeout(t) ==
    LET g == th[t].inst o == th[t].ord IN
    /\ At(t, "lock") /\ lock[g][o] = Nobody
    /\ lock' = [lock EXCEPT ![g][o] = t]
    /\ Goto(t, "check")
    /\ UNCHANGED <<platform, buyer, database, card, outside, redis,
                   gen, hold, cool, confd, cl, snap>>

Acquire_Degrades(t) ==
    /\ At(t, "lock")
    /\ lock' = [lock EXCEPT ![th[t].inst][th[t].ord] = t]
    /\ Goto(t, "check")
    /\ UNCHANGED <<platform, buyer, database, card, outside, redis,
                   gen, hold, cool, confd, cl, snap>>

Acquire_FreesAnyway(t) ==
    LET g == th[t].inst o == th[t].ord IN
    /\ At(t, "lock")
    /\ \/ /\ lock[g][o] = Nobody
          /\ lock' = [lock EXCEPT ![g][o] = t]
          /\ Goto(t, "check")
          /\ UNCHANGED cl
       \/ lock[g][o] # Nobody /\ Finish(t, "fail", {})
    /\ UNCHANGED <<platform, buyer, database, card, outside, redis,
                   gen, hold, cool, confd, snap>>

\* _order_locks[order].acquire() within 5 s.
Acquire(t) ==
    LET g == th[t].inst o == th[t].ord IN
    /\ At(t, "lock")
    /\ \/ /\ lock[g][o] = Nobody
          /\ lock' = [lock EXCEPT ![g][o] = t]
          /\ Goto(t, "check")
          /\ UNCHANGED cl
       \/ /\ lock[g][o] # Nobody
          /\ IF t \in Autos THEN Goto(t, "free") ELSE Become(t, Idle)
          /\ Answer(t, "fail", {})
          /\ UNCHANGED lock
    /\ UNCHANGED <<platform, buyer, database, card, outside, redis,
                   gen, hold, cool, confd, snap>>

\* The second look at the database and the instance's memory, under the lock.
\* A database that cannot be read does not stop the handler.
AutoCheck(t) ==
    /\ At(t, "check")
    /\ \/ /\ Handled(th[t].ord) \/ HeldBack(th[t].inst, th[t].ord)
          /\ Finish(t, "none", {})
       \/ /\ ~Handled(th[t].ord) \/ DbFaults
          /\ ~HeldBack(th[t].inst, th[t].ord)
          /\ Goto(t, "enter") /\ UNCHANGED <<lock, cl>>
    /\ UNCHANGED <<platform, buyer, database, card, outside, redis,
                   gen, hold, cool, confd, snap>>

\* _deliver_order_impl up to the confirmation of the shipment.
CallCheck(t) ==
    LET o == th[t].ord IN
    /\ At(t, "check")
    /\ \/ /\ marker[o]
          /\ Finish(t, "alreadyOnly", content[o])
          /\ UNCHANGED platform
       \/ /\ ~marker[o] /\ Delivered(o)
          /\ Finish(t, "already", {})
          /\ UNCHANGED platform
       \/ /\ DbFaults
          /\ Finish(t, "fail", {})
          /\ UNCHANGED platform
       \/ /\ ~Delivered(o)
          /\ \E p \in PreCheck(o) :
               /\ platform' = [platform EXCEPT ![o] = p[1]]
               /\ IF p[2] = "block"
                  THEN Finish(t, "fail", {})
                  ELSE /\ Become(t, [th[t] EXCEPT !.pc = "confirm",
                                                  !.closed = (p[2] = "card_only"),
                                                  !.only = onlySend])
                       /\ UNCHANGED <<lock, cl>>
    /\ UNCHANGED <<buyer, database, card, outside, redis,
                   gen, hold, cool, confd, snap>>

\* _auto_delivery reads the account switch at the start of every round.
AutoEnter(t) ==
    /\ At(t, "enter")
    /\ Become(t, [th[t] EXCEPT !.pc = "confirm", !.rOnly = onlySend])
    /\ UNCHANGED <<platform, buyer, database, card, outside, redis, memory, cl, snap>>

\* No shipment call: the code may be taken at once.
ConfirmSkip(t) ==
    LET r == th[t] IN
    /\ At(t, "confirm")
    /\ \/ Skips(r)
       \/ SendBeforeConfirm /\ autoConfirm
       \/ ~SendBeforeConfirm /\ ~autoConfirm /\ (t \in Autos => ~ConfirmBeforeSend)
       \/ ~SendBeforeConfirm /\ t \in Autos /\ autoConfirm /\ confd[r.inst][r.ord]
    /\ Goto(t, "take")
    /\ UNCHANGED <<platform, buyer, database, card, outside, redis, memory, cl, snap>>

\* The switches demand a confirmed shipment, and confirming is switched off.
ConfirmRefused(t) ==
    /\ At(t, "confirm") /\ ~Skips(th[t]) /\ ~autoConfirm
    /\ SendBeforeConfirm \/ (t \in Autos /\ ConfirmBeforeSend)
    /\ IF t \in Autos
       THEN EmptyRound(t) /\ UNCHANGED <<lock, cl>>
       ELSE Finish(t, "fail", {})
    /\ UNCHANGED <<platform, buyer, database, card, outside, redis,
                   gen, hold, cool, confd, snap>>

\* auto_confirm refuses once the account only sends cards.
ConfirmOnlySend(t) ==
    /\ At(t, "confirm") /\ onlySend
    /\ Become(t, [th[t] EXCEPT !.pc = "take", !.rOnly = TRUE])
    /\ UNCHANGED <<platform, buyer, database, card, redis, memory, cl, outside, snap>>

(***************************************************************************)
(* The platform is asked to ship.  "Already delivered" sends no card: a    *)
(* call answers without touching the database; a message handler means to *)
(* write 'shipped', but names a variable _auto_delivery does not have, so  *)
(* only the instance's memory remembers the shipment.                      *)
(***************************************************************************)
ConfirmAsk(t) ==
    LET r == th[t] g == r.inst o == r.ord IN
    /\ At(t, "confirm") /\ ~onlySend
    /\ \E a \in Answers(o) :
         /\ platform' = [platform EXCEPT ![o] = a[1]]
         /\ confd' = IF t \in Autos /\ a[2] # "error"
                     THEN [confd EXCEPT ![g][o] = TRUE] ELSE confd
         /\ cool' = IF t \in Autos /\ a[2] = "already"
                    THEN [cool EXCEPT ![g][o] = TRUE] ELSE cool
         /\ CASE a[2] = "ok" \/ (a[2] = "error" /\ ~ConfirmBeforeSend) ->
                   /\ Become(t, [r EXCEPT !.pc = "take", !.rConf = (a[2] = "ok")])
                   /\ UNCHANGED <<lock, cl>>
              [] a[2] = "already" /\ t \in Calls -> Finish(t, "already", {})
              [] a[2] = "error" /\ ConfirmBeforeSend /\ t \in Calls -> Finish(t, "fail", {})
              [] OTHER -> EmptyRound(t) /\ UNCHANGED <<lock, cl>>
    /\ UNCHANGED <<buyer, database, card, outside, redis, gen, hold, snap>>

Confirm(t) ==
    \/ ConfirmSkip(t)
    \/ ConfirmRefused(t)
    \/ /\ At(t, "confirm") /\ ~Skips(th[t])
       /\ autoConfirm /\ ~SendBeforeConfirm
       /\ t \in Autos => ~confd[th[t].inst][th[t].ord]
       /\ ConfirmOnlySend(t) \/ ConfirmAsk(t)

\* consume_batch_data: a code leaves the stock, if there is one.
Take(t) ==
    LET r == th[t] IN
    /\ At(t, "take")
    /\ \/ \E c \in Codes :
            LET n == [r EXCEPT !.got = @ \cup {c}, !.only = @ \/ r.rOnly,
                               !.conf = @ \/ r.rConf]
            IN  /\ card[c] = NoOrder
                /\ card' = [card EXCEPT ![c] = r.ord]
                /\ Become(t, IF t \in Autos THEN NextRound(n)
                             ELSE [n EXCEPT !.pc = "send", !.todo = {c}])
                /\ UNCHANGED <<lock, cl>>
       \/ /\ \A c \in Codes : card[c] # NoOrder
          /\ UNCHANGED card
          /\ IF t \in Autos THEN EmptyRound(t) /\ UNCHANGED <<lock, cl>>
             ELSE IF r.got = {} THEN Finish(t, "fail", {})
             ELSE Goto(t, "post") /\ UNCHANGED <<lock, cl>>
    /\ UNCHANGED <<platform, buyer, database, outside, redis,
                   gen, hold, cool, confd, snap>>

\* Mutant: the shipment is confirmed before the codes are sent.
AutoMark_ConfirmFirst(t) ==
    LET g == th[t].inst o == th[t].ord IN
    /\ At(t, "mark")
    /\ hold' = [hold EXCEPT ![g][o] = TRUE]
    /\ cool' = [cool EXCEPT ![g][o] = TRUE]
    /\ Become(t, [th[t] EXCEPT !.pc = "post", !.todo = th[t].got])
    /\ UNCHANGED <<platform, buyer, database, card, outside, redis,
                   gen, lock, confd, cl, snap>>

\* mark_delivery_sent and the ten minute hold, before anything is sent.
AutoMark(t) ==
    LET g == th[t].inst o == th[t].ord IN
    /\ At(t, "mark")
    /\ hold' = [hold EXCEPT ![g][o] = TRUE]
    /\ cool' = [cool EXCEPT ![g][o] = TRUE]
    /\ Become(t, [th[t] EXCEPT !.pc = "send", !.todo = th[t].got])
    /\ UNCHANGED <<platform, buyer, database, card, outside, redis,
                   gen, lock, confd, cl, snap>>

(***************************************************************************)
(* One code is sent to the chat: it arrives, it is lost after all retries, *)
(* or the chat server rejects it, which shows only later.  A call does not *)
(* look at the result of the send, and takes its next code afterwards.     *)
(***************************************************************************)
Send(t) ==
    LET r == th[t]
        After(c) ==
            IF t \in Autos
            THEN [r EXCEPT !.todo = @ \ {c},
                           !.pc = IF r.todo = {c} THEN "post" ELSE "send"]
            ELSE [r EXCEPT !.todo = {}, !.round = @ + 1,
                           !.pc = IF r.round + 1 < Rounds(r) THEN "take" ELSE "post"]
    IN
    /\ At(t, "send")
    /\ \E c \in r.todo :
         \/ /\ buyer' = [buyer EXCEPT ![r.ord] = @ \cup {c}]
            /\ Become(t, After(c))
         \/ /\ Become(t, [After(c) EXCEPT !.bad = @ \/ t \in Autos])
            /\ UNCHANGED buyer
         \/ /\ Become(t, [After(c) EXCEPT !.rej = TRUE])
            /\ UNCHANGED buyer
    /\ UNCHANGED <<platform, database, card, outside, redis, memory, cl, snap>>

(***************************************************************************)
(* After the sends: the switch is read again, the receipts are awaited (a  *)
(* receipt that does not come in time counts as a success) and, in         *)
(* send-before-confirm mode, the platform is asked to ship.                *)
(***************************************************************************)
Post(t) ==
    LET r    == th[t]
        only == r.only \/ (~r.conf /\ onlySend)
        asks == SendBeforeConfirm /\ ~r.closed /\ ~only /\ ~r.bad
        n    == [r EXCEPT !.pc = "write", !.only = only]
    IN
    /\ At(t, "post")
    /\ \/ /\ asks /\ autoConfirm
          /\ \E a \in Answers(r.ord) :
               /\ platform' = [platform EXCEPT ![r.ord] = a[1]]
               /\ Become(t, [n EXCEPT !.conf = @ \/ a[2] # "error"])
       \/ /\ asks => r.rej \/ ~autoConfirm
          /\ Become(t, n)
          /\ UNCHANGED platform
    /\ UNCHANGED <<buyer, database, card, outside, redis, memory, cl, snap>>

\* The result goes to the database, by the kind of delivery it was.
Write(t) ==
    LET r    == th[t]
        o    == r.ord
        only == r.only \/ (~r.conf /\ onlySend)
        kind == IF r.closed THEN "closed" ELSE IF only /\ ~r.conf THEN "only" ELSE "normal"
    IN
    /\ At(t, "write")
    /\ Become(t, [r EXCEPT !.pc = "leave", !.only = only, !.reply = kind])
    /\ \/ /\ content' = [content EXCEPT ![o] = r.got]
          /\ marker' = [marker EXCEPT ![o] = @ \/ kind = "only"]
          /\ status' = IF kind = "normal" THEN [status EXCEPT ![o] = "shipped"] ELSE status
       \/ DbFaults /\ UNCHANGED database
    /\ UNCHANGED <<platform, buyer, card, outside, redis, memory, cl, snap>>

Leave(t) ==
    /\ At(t, "leave")
    /\ Finish(t, th[t].reply, th[t].got)
    /\ UNCHANGED <<platform, buyer, database, card, outside, redis,
                   gen, hold, cool, confd, snap>>

AutoFree(t) ==
    LET o == th[t].ord IN
    /\ At(t, "free")
    /\ IF th[t].redis
       THEN \E n \in ReleaseResults(t, redis[o]) : redis' = [redis EXCEPT ![o] = n]
       ELSE UNCHANGED redis
    /\ Become(t, Idle)
    /\ UNCHANGED <<platform, buyer, database, card, outside, memory, cl, snap>>

-----------------------------------------------------------------------------
(***************************************************************************)
(* The callers.  The scheduler works from the rows it read at the start of *)
(* its round: its second read of the row returns the same object, so the   *)
(* database is not looked at again before the platform is.  It takes up    *)
(* the orders placed today; the cool-downs of an order or an account after *)
(* an error only put its rounds off.                                       *)
(***************************************************************************)
Begin(c, o) == CallerBecome(c, [Waiting EXCEPT !.pc = "redis", !.ord = o])

SchedSnapshot(s, o) ==
    /\ CallerAt(s, "idle")
    /\ autoConfirm \/ onlySend
    /\ status[o] = "pending_ship" /\ ~marker[o] /\ today[o]
    /\ Begin(s, o)
    /\ UNCHANGED <<platform, buyer, database, card, outside, redis, memory, th, snap>>

ManualStart(m, o) ==
    /\ CallerAt(m, "idle")
    /\ ~Delivered(o)
    /\ Begin(m, o)
    /\ UNCHANGED <<platform, buyer, database, card, outside, redis, memory, th, snap>>

CallerRedis(c) ==
    LET o == cl[c].ord next == IF c \in Scheds THEN "ship" ELSE "call" IN
    /\ CallerAt(c, "redis")
    /\ \E a \in LockResults(c, o) :
         /\ redis' = [redis EXCEPT ![o] = a[1]]
         /\ CallerBecome(c, IF a[2] = "busy" THEN Waiting
                            ELSE [cl[c] EXCEPT !.pc = next, !.redis = (a[2] = "got")])
    /\ UNCHANGED <<platform, buyer, database, card, outside, memory, th, snap>>

\* Mutant: an order the platform has finished is dropped, not synchronised.
SchedCanShip_NoSync(s) ==
    /\ CallerAt(s, "ship")
    /\ \/ platform[cl[s].ord] = "pending" /\ CallerGoto(s, "call")
       \/ CallerGoto(s, "free")
    /\ UNCHANGED <<platform, buyer, database, card, outside, redis, memory, th, snap>>

\* check_can_ship: the platform decides whether there is anything to deliver.
SchedCanShip(s) ==
    LET o == cl[s].ord IN
    /\ CallerAt(s, "ship")
    /\ \/ platform[o] = "pending" /\ CallerGoto(s, "call") /\ UNCHANGED status
       \/ /\ platform[o] # "pending"
          /\ status' = [status EXCEPT ![o] = StatusOf[platform[o]]]
          /\ CallerGoto(s, "free")
       \/ CallerGoto(s, "free") /\ UNCHANGED status
    /\ UNCHANGED <<platform, buyer, marker, content, card, outside, redis, memory, th, snap>>

\* HttpClient.post: the request runs as a new flow in the current instance.
CallerCall(c) ==
    /\ CallerAt(c, "call")
    /\ \E t \in Calls :
         /\ At(t, "idle")
         /\ Become(t, [Idle EXCEPT !.pc = "lock", !.ord = cl[c].ord, !.inst = gen])
         /\ CallerBecome(c, [cl[c] EXCEPT !.pc = "wait", !.req = t, !.tries = @ + 1])
    /\ UNCHANGED <<platform, buyer, database, card, outside, redis, memory, snap>>

\* No answer in time, or the connection is gone: the POST is sent again.
CallerTimeout(c) ==
    /\ CallerAt(c, "wait")
    /\ HttpTimeouts \/ cl[c].req = Nobody
    /\ CallerBecome(c, [cl[c] EXCEPT !.req = Nobody,
                          !.pc = IF cl[c].tries < MaxTries THEN "call" ELSE "free"])
    /\ UNCHANGED <<platform, buyer, database, card, outside, redis, memory, th, snap>>

\* Mutants: the reply's is_card_only is not looked at; every caller writes
\* back a content the reply does not hold.
CallerDone_ClosedAsShipped(c) ==
    /\ CallerAt(c, "done")
    /\ status' = IF c \in Scheds /\ cl[c].reply \in {"normal", "already", "closed"}
                 THEN [status EXCEPT ![cl[c].ord] = "shipped"] ELSE status
    /\ CallerGoto(c, "free")
    /\ UNCHANGED <<platform, buyer, marker, content, card, outside, redis, memory, th, snap>>

CallerDone_WrongKey(c) ==
    /\ CallerAt(c, "done")
    /\ content' = IF cl[c].reply = "normal"
                  THEN [content EXCEPT ![cl[c].ord] = {}] ELSE content
    /\ CallerGoto(c, "free")
    /\ UNCHANGED <<platform, buyer, status, marker, card, outside, redis, memory, th, snap>>

\* The scheduler writes the outcome itself; the manual route leaves it alone.
CallerDone(c) ==
    LET r == cl[c]
        o == r.ord
        sent == c \in Scheds /\ r.reply \in {"normal", "already"}
        only == c \in Scheds /\ r.reply \in {"only", "alreadyOnly"}
    IN
    /\ CallerAt(c, "done")
    /\ status' = IF sent THEN [status EXCEPT ![o] = "shipped"] ELSE status
    /\ marker' = IF only THEN [marker EXCEPT ![o] = TRUE] ELSE marker
    /\ content' = IF sent \/ only THEN [content EXCEPT ![o] = r.codes] ELSE content
    /\ CallerGoto(c, "free")
    /\ UNCHANGED <<platform, buyer, card, outside, redis, memory, th, snap>>

CallerFree(c) ==
    LET o == cl[c].ord IN
    /\ CallerAt(c, "free")
    /\ IF cl[c].redis
       THEN \E n \in ReleaseResults(c, redis[o]) : redis' = [redis EXCEPT ![o] = n]
       ELSE UNCHANGED redis
    /\ CallerBecome(c, Waiting)
    /\ UNCHANGED <<platform, buyer, database, card, outside, memory, th, snap>>

-----------------------------------------------------------------------------
\* What happens around the flows.

Toggle ==
    /\ onlySend' \in OnlySendModes /\ autoConfirm' \in AutoConfirmModes
    /\ <<onlySend, autoConfirm>>' # <<onlySend, autoConfirm>>
    /\ UNCHANGED <<platform, buyer, database, card, today, redis, memory, th, cl, snap>>

\* Midnight: what is still open is of yesterday.
DayEnds ==
    /\ Midnight /\ \E o \in Orders : today[o]
    /\ today' = [o \in Orders |-> FALSE]
    /\ UNCHANGED <<platform, buyer, database, card, onlySend, autoConfirm, redis,
                   memory, th, cl, snap>>

\* The seller ships, or either side closes the order, outside this program.
Elsewhere(o) ==
    /\ platform[o] = "pending"
    /\ \E p \in {"shipped", "closed"} : platform' = [platform EXCEPT ![o] = p]
    /\ UNCHANGED <<buyer, database, card, outside, redis, memory, th, cl, snap>>

\* The order sync overwrites the status with the platform's.
SyncRead(o) ==
    /\ StaleSync /\ snap[o] = "none"
    /\ snap' = [snap EXCEPT ![o] = platform[o]]
    /\ UNCHANGED <<platform, buyer, database, card, outside, redis, memory, th, cl>>

SyncWrite(o) ==
    /\ StaleSync => snap[o] # "none"
    /\ \E s \in Synced(IF StaleSync THEN snap[o] ELSE platform[o]) :
          status' = [status EXCEPT ![o] = s]
    /\ snap' = [snap EXCEPT ![o] = "none"]
    /\ UNCHANGED <<platform, buyer, marker, content, card, outside, redis, memory, th, cl>>

\* The holder n of order o's Redis key is still at work under it.
AtWork(n, o) ==
    IF n \in Threads THEN th[n].redis /\ th[n].ord = o
    ELSE n \in Callers /\ cl[n].redis /\ cl[n].ord = o

\* The key's 120 s are over.
RedisExpire(o) ==
    /\ redis[o] # Nobody
    /\ RedisFaults \/ ~AtWork(redis[o], o)
    /\ redis' = [redis EXCEPT ![o] = Nobody]
    /\ UNCHANGED <<platform, buyer, database, card, outside, memory, th, cl, snap>>

\* 60 s after mark_delivery_sent, 300 s after a confirmation, 10 min after
\* the hold was taken: the hold outlives the other two.
CoolExpire(g, o) ==
    /\ cool[g][o] /\ cool' = [cool EXCEPT ![g][o] = FALSE]
    /\ UNCHANGED <<platform, buyer, database, card, outside, redis,
                   gen, lock, hold, confd, th, cl, snap>>

ConfirmedExpire(g, o) ==
    /\ confd[g][o] /\ confd' = [confd EXCEPT ![g][o] = FALSE]
    /\ UNCHANGED <<platform, buyer, database, card, outside, redis,
                   gen, lock, hold, cool, th, cl, snap>>

HoldExpire(g, o) ==
    /\ hold[g][o] /\ ~cool[g][o] /\ ~confd[g][o]
    /\ hold' = [hold EXCEPT ![g][o] = FALSE]
    /\ UNCHANGED <<platform, buyer, database, card, outside, redis,
                   gen, lock, cool, confd, th, cl, snap>>

\* The account is restarted: handlers already running go on in the old
\* instance, new messages and requests meet an empty memory.
Restart ==
    /\ gen < MaxGen /\ gen' = gen + 1
    /\ UNCHANGED <<platform, buyer, database, card, outside, redis,
                   lock, hold, cool, confd, th, cl, snap>>

\* The websocket process dies: its flows and memory are gone, Redis keys stay.
Crash ==
    /\ Crashes
    /\ th' = [t \in Threads |-> Idle]
    /\ cl' = [c \in Callers |-> [cl[c] EXCEPT !.req = Nobody]]
    /\ gen' = 0
    /\ lock' = [g \in Gens |-> [o \in Orders |-> Nobody]]
    /\ hold' = [g \in Gens |-> [o \in Orders |-> FALSE]] /\ cool' = hold' /\ confd' = hold'
    /\ UNCHANGED <<platform, buyer, database, card, outside, redis, snap>>

-----------------------------------------------------------------------------
AutoStep(t) ==
    \/ AutoRedis(t) \/ AutoCheck(t) \/ AutoEnter(t) \/ AutoMark(t) \/ AutoFree(t)

SharedStep(t) ==
    \/ Acquire(t) \/ Confirm(t) \/ Take(t) \/ Send(t)
    \/ Post(t) \/ Write(t) \/ Leave(t)

CallerStep(c) ==
    \/ CallerRedis(c) \/ CallerCall(c) \/ CallerTimeout(c)
    \/ CallerDone(c) \/ CallerFree(c)

Environment ==
    \/ Toggle \/ DayEnds \/ Restart \/ Crash
    \/ \E o \in Orders : Elsewhere(o) \/ SyncRead(o) \/ SyncWrite(o) \/ RedisExpire(o)
    \/ \E g \in Gens, o \in Orders :
          CoolExpire(g, o) \/ ConfirmedExpire(g, o) \/ HoldExpire(g, o)

Next ==
    \/ \E t \in Autos : (\E o \in Orders : AutoStart(t, o)) \/ AutoStep(t) \/ SharedStep(t)
    \/ \E t \in Calls : CallCheck(t) \/ SharedStep(t)
    \/ \E s \in Scheds : (\E o \in Orders : SchedSnapshot(s, o)) \/ SchedCanShip(s)
    \/ \E m \in Manuals, o \in Orders : ManualStart(m, o)
    \/ \E c \in Callers : CallerStep(c)
    \/ Environment

Spec == Init /\ [][Next]_vars

\* asyncio runs every task that can go on, and Redis keys run out.
Fairness ==
    /\ \A t \in Autos : WF_vars(AutoStep(t) \/ SharedStep(t))
    /\ \A t \in Calls : WF_vars(CallCheck(t) \/ SharedStep(t))
    /\ \A s \in Scheds : WF_vars(SchedCanShip(s))
    /\ \A c \in Callers : WF_vars(CallerStep(c))
    /\ \A o \in Orders : WF_vars(RedisExpire(o))

FairSpec == Spec /\ Fairness

-----------------------------------------------------------------------------
\* What is said of the flows.

Taken(o) == {c \in Codes : card[c] = o}
Working(t, o) == th[t].pc \in Locked /\ th[t].ord = o

StoreOK ==
    /\ platform \in [Orders -> PlatformStates]
    /\ buyer \in [Orders -> SUBSET Codes]
    /\ status \in [Orders -> Statuses]
    /\ marker \in [Orders -> BOOLEAN]
    /\ content \in [Orders -> SUBSET Codes]
    /\ card \in [Codes -> Orders \cup {NoOrder}]
    /\ onlySend \in OnlySendModes /\ autoConfirm \in AutoConfirmModes
    /\ today \in [Orders -> BOOLEAN]
    /\ redis \in [Orders -> Threads \cup Callers \cup {Nobody}]
    /\ gen \in Gens
    /\ lock \in [Gens -> [Orders -> Threads \cup {Nobody}]]
    /\ hold \in [Gens -> [Orders -> BOOLEAN]]
    /\ cool \in [Gens -> [Orders -> BOOLEAN]]
    /\ confd \in [Gens -> [Orders -> BOOLEAN]]
    /\ snap \in [Orders -> PlatformStates \cup {"none"}]

\* Every variable keeps its type.
TypeOK == StoreOK /\ th \in [Threads -> Flow] /\ cl \in [Callers -> Caller]

\* _handle_auto_delivery and deliver_order: a flow past the acquisition of
\* _order_locks still owns its entry, whatever expired, failed or restarted.
LocalLock ==
    \A t \in Threads : th[t].pc \in Locked => lock[th[t].inst][th[t].ord] = t

\* "本地发货锁": in one instance no two flows, message handlers or calls, are
\* between the check of the order and the record of its delivery together.
Exclusion ==
    \A t, u \in Threads, o \in Orders :
        Working(t, o) /\ Working(u, o) /\ th[t].inst = th[u].inst => t = u

\* However messages, redelivery rounds, manual deliveries and retries of
\* their requests interleave, the stock loses at most the order's quantity.
NoDoubleDelivery == \A o \in Orders : Cardinality(Taken(o)) <= Qty

\* Codes that left the stock are with a flow at work or in the order's
\* delivery_content, from where the merchant can forward them by hand.
Traceable ==
    \A o \in Orders : \A c \in Taken(o) \ content[o] :
        \E t \in Threads : Working(t, o) /\ c \in th[t].got

\* With confirm-before-send the local status 'shipped' is never ahead of the
\* platform: no writer of the status invents a shipment.
ShippedHonest == \A o \in Orders : status[o] = "shipped" => platform[o] = "shipped"

\* "发货成功再发卡券": a flow that neither only sends cards nor compensates a
\* closed order holds a code only of an order the platform has shipped.
SendGate ==
    \A t \in Threads :
        LET r == th[t] IN
        r.got # {} /\ r.pc \in Locked /\ ~r.closed /\ ~r.only => platform[r.ord] = "shipped"

\* "卡券发送成功再确认发货": when a message handler has shipped the order in
\* this mode, every code it took reached the chat, or was rejected too late.
\* (A call does not look at the results of its sends.)
ShippedAfterSent ==
    \A t \in Autos :
        LET r == th[t] IN
        SendBeforeConfirm /\ r.conf => r.rej \/ r.got \subseteq buyer[r.ord]

\* card_only_delivered, "持久化防重复标记": once it is set no code leaves the
\* stock for the order, from whatever flow, after whatever switch changes.
MarkerIsFinal ==
    [][\A o \in Orders : marker[o] => marker'[o] /\ Taken(o)' = Taken(o)]_vars

\* The codes of an order are handed out once, in one go (CardHandout).
Settled(o) ==
    Taken(o) # {} /\ \A t \in Threads : ~(Working(t, o) /\ th[t].got # {})

Handout == INSTANCE CardHandout WITH
             given <- [o \in Orders |-> Taken(o)],
             settled <- [o \in Orders |-> Settled(o)]

HandsOutOnce == Handout!Spec

\* _handle_auto_delivery, deliver_order: no wait for a lock, a receipt or an
\* answer keeps a flow for ever; every one of them comes to its end.
FlowEnds == \A t \in Threads : ~At(t, "idle") ~> At(t, "idle")

(***************************************************************************)
(* The redelivery task comes back to an order of today until it is         *)
(* settled, however often the platform, the lock or the request failed it: *)
(* the scheduler takes it up in every round, and neither the platform nor  *)
(* the lock fails for ever (and the row names the chat, the item, the      *)
(* buyer and a card, without which SchedCanShip only ever gives up).       *)
(***************************************************************************)
Redelivery ==
    /\ \A s \in Scheds, o \in Orders :
         /\ WF_vars(SchedSnapshot(s, o))
         /\ SF_vars(CallerRedis(s) /\ cl'[s].pc = "ship")
         /\ SF_vars(SchedCanShip(s) /\ (cl'[s].pc = "call" \/ status' # status))
    /\ \A t \in Calls :
         /\ SF_vars(Acquire(t) /\ th'[t].pc = "check")
         /\ SF_vars(CallCheck(t) /\ th'[t].pc = "confirm")
         /\ SF_vars(Confirm(t) /\ th'[t].pc = "take")

RedeliverySpec == FairSpec /\ Redelivery

\* _get_pending_orders: a paid order whose message handler was lost or failed
\* is settled in the end, once the buyer's messages stop occupying it: it is
\* shipped, marked as delivered or cancelled, unless its day ends before. (An
\* order left open at midnight, or without placed_at, no round takes up.)
EventuallySettled ==
    <>[](\A t \in Autos : At(t, "idle"))
    => \A o \in Orders : <>(Delivered(o) \/ status[o] = "cancelled" \/ ~today[o])

=============================================================================
