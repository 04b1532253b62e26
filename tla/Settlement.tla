---------------------------- MODULE Settlement ----------------------------
(***************************************************************************)
(* Money and stock of cards that dealers sell for their owner.             *)
(*                                                                         *)
(* Every transaction of the database that changes a user's balance is a    *)
(* member of Txs: the settlement of a delivered order (websocket service), *)
(* a pickup, a withdrawal and the income of an advertisement (backend-web  *)
(* service).  Balances live in one row per user; SELECT ... FOR UPDATE     *)
(* locks a row until the transaction ends.  A step is one statement.       *)
(***************************************************************************)
EXTENDS Integers, Sequences, FiniteSets, Functions

CONSTANTS
    Users,              \* user ids
    Txs, Nobody,
    Codes, NoCode, Stock,   \* codes of the card, and its stock at the start
    Deals, NoDeal,      \* what each transaction may be about
    CardPrice,          \* Card.price, what the owner gets
    SubPrice,           \* DockRecord.sub_dock_price, what a level 1 dealer gets
    Fee,                \* the platform's fee for one sale
    Opening,            \* balances at the start
    LockTimeouts,       \* innodb_lock_wait_timeout may strike
    RedisFaults,        \* a pickup may go on without its Redis lock
    Failures            \* a connection or process may be lost in a transaction

Kinds == {"order", "pickup", "withdraw", "income"}

(***************************************************************************)
(* A deal: kind and level, its dealer (for a withdrawal or an income: the  *)
(* user), the dealer's own upstream dealer if level is 2, the card's owner *)
(* and fee_payer, the amount of a withdrawal or income, and whether the    *)
(* card is of type 'data', that is: has a stock.                           *)
(***************************************************************************)
Deal == [kind : Kinds, level : {1, 2}, dealer : Users, level1 : Users,
         owner : Users, payer : {"dealer", "distributor", "none"},
         amount : Nat \ {0}, data : BOOLEAN]

ASSUME SettlementAssumption ==
    /\ Users \subseteq Nat /\ IsFiniteSet(Users) /\ Deals \in [Txs -> SUBSET Deal]
    /\ Nobody \notin Txs /\ NoDeal \notin Deal /\ NoCode \notin Codes
    /\ CardPrice \in Nat \ {0} /\ SubPrice \in Nat \ {0} /\ Fee \in Nat \ {0}
    /\ Opening \in [Users -> Int] /\ Stock \in Seq(Codes)
    /\ {LockTimeouts, RedisFaults, Failures} \subseteq BOOLEAN

VARIABLES
    bal,        \* committed xy_user_settings rows with key 'balance'
    row,        \* holder of each row's lock
    flows,      \* committed xy_fund_flows of each user, by id
    stock,      \* the card's committed data_content
    cardLock,   \* holder of the card row's lock
    tx          \* the transactions

vars == <<bal, row, flows, stock, cardLock, tx>>

Active == {"lock", "decide", "take", "settle", "commit"}
Ended  == {"done", "refused", "lost"}

\* A FundFlow: balance_before and balance_after.
FlowRow == [before : Int, after : Int]

(***************************************************************************)
(* A transaction: the next leg of its settlement, AgentOrder.status =      *)
(* 'settled' (ok), the balances it has read and changed (mem) and the      *)
(* flows it has added (pend) in rows it holds, the stock its session has   *)
(* loaded (seen), the code it hands out (got).                             *)
(***************************************************************************)
Fresh == [pc |-> "idle", deal |-> NoDeal, leg |-> 1, ok |-> TRUE,
          mem |-> [u \in Users |-> 0], pend |-> [u \in Users |-> <<>>],
          seen |-> <<>>, got |-> NoCode]

Init ==
    /\ bal = Opening
    /\ row = [u \in Users |-> Nobody]
    /\ flows = [u \in Users |-> <<>>]
    /\ stock = Stock
    /\ cardLock = Nobody
    /\ tx = [t \in Txs |-> Fresh]

At(t, pc)    == tx[t].pc = pc
Become(t, r) == tx' = [tx EXCEPT ![t] = r]
Goto(t, pc)  == Become(t, [tx[t] EXCEPT !.pc = pc])
Held(t)      == {u \in Users : row[u] = t}

-----------------------------------------------------------------------------
\* Who pays what.

\* What the dealer pays for the card.
Cost(d) == IF d.level = 1 THEN CardPrice ELSE SubPrice

Leg(u, a) == [user |-> u, amount |-> a]

\* settle_level1_order: the changes of balances, in the order of the code.
SettleLevel1(d) ==
    IF d.payer = "distributor"
    THEN <<Leg(d.dealer, -CardPrice), Leg(d.owner, CardPrice), Leg(d.owner, -Fee)>>
    ELSE <<Leg(d.dealer, -CardPrice), Leg(d.dealer, -Fee), Leg(d.owner, CardPrice)>>

\* Mutant: the level 1 dealer gets its price and does not pay the owner's.
SettleLevel2_NoPass(d) ==
    <<Leg(d.dealer, -SubPrice), Leg(d.level1, SubPrice),
      Leg(d.owner, CardPrice), Leg(d.owner, -Fee)>>

\* settle_level2_order.
SettleLevel2(d) ==
    LET pass == <<Leg(d.level1, SubPrice), Leg(d.level1, -CardPrice),
                  Leg(d.owner, CardPrice)>>
    IN  IF d.payer = "distributor"
        THEN <<Leg(d.dealer, -SubPrice)>> \o pass \o <<Leg(d.owner, -Fee)>>
        ELSE <<Leg(d.dealer, -SubPrice), Leg(d.dealer, -Fee)>> \o pass

Legs(d) ==
    CASE d.kind = "withdraw" -> <<Leg(d.dealer, -d.amount)>>
      [] d.kind = "income"   -> <<Leg(d.dealer, d.amount)>>
      [] d.kind \in {"order", "pickup"} /\ d.level = 1 -> SettleLevel1(d)
      [] d.kind \in {"order", "pickup"} /\ d.level = 2 -> SettleLevel2(d)

\* _validate_dock_delivery: the balance a dealer needs before an order is sent.
Required(d) == Cost(d) + (IF d.payer = "dealer" THEN Fee ELSE 0)

\* Mutant: the fee is forgotten.
NetDelta_NoFee(d, u) ==
    IF d.kind = "withdraw" THEN -d.amount
    ELSE IF d.kind = "income" THEN d.amount
    ELSE (IF u = d.dealer THEN -Cost(d) ELSE 0)
       + (IF d.level = 2 /\ u = d.level1 THEN SubPrice - CardPrice ELSE 0)
       + (IF u = d.owner THEN CardPrice ELSE 0)

\* _compute_net_deltas: a pickup's own account of what its settlement will do
\* to u; create_withdraw_record compares the amount with the balance.
NetDelta(d, u) ==
    IF d.kind = "withdraw" THEN -d.amount
    ELSE IF d.kind = "income" THEN d.amount
    ELSE (IF u = d.dealer THEN -Cost(d) ELSE 0)
       + (IF d.level = 2 /\ u = d.level1 THEN SubPrice - CardPrice ELSE 0)
       + (IF u = d.owner THEN CardPrice ELSE 0)
       - (IF u = (IF d.payer = "dealer" THEN d.dealer ELSE d.owner) THEN Fee ELSE 0)

\* The rows locked before anything is decided.
Parties(d) ==
    IF d.kind \in {"withdraw", "income"} THEN {d.dealer}
    ELSE {d.dealer, d.owner} \cup (IF d.level = 2 THEN {d.level1} ELSE {})

\* Mutant: the dealer's row first.
NextRow_DealerFirst(d, todo) ==
    IF d.dealer \in todo THEN d.dealer
    ELSE CHOOSE u \in todo : \A v \in todo : u <= v

\* _check_parties_balance locks in ascending order of user ids.
NextRow(d, todo) == CHOOSE u \in todo : \A v \in todo : u <= v

-----------------------------------------------------------------------------
\* Steps of a transaction.

\* The row of u, read under its lock.
Grab(t, u) ==
    /\ row[u] = Nobody
    /\ row' = [row EXCEPT ![u] = t]

\* The transaction ends without a trace; the code of an order was taken in
\* a transaction of its own and has been sent.
GivenUp(t, pc) ==
    Become(t, [Fresh EXCEPT !.pc = pc, !.deal = tx[t].deal,
                 !.got = IF tx[t].deal.kind = "order" THEN tx[t].got ELSE NoCode])

\* Mutant: an early return leaves the transaction open.
Rollback_Leaks(t, pc) ==
    /\ GivenUp(t, pc)
    /\ UNCHANGED <<bal, row, flows, stock, cardLock>>

Rollback(t, pc) ==
    /\ GivenUp(t, pc)
    /\ row' = [u \in Users |-> IF row[u] = t THEN Nobody ELSE row[u]]
    /\ cardLock' = IF cardLock = t THEN Nobody ELSE cardLock
    /\ UNCHANGED <<bal, flows, stock>>

\* An order is sent if its dealer can pay for it now; no lock is taken.
OrderBegin(t, d) ==
    /\ At(t, "idle") /\ d.kind = "order"
    /\ bal[d.dealer] >= Required(d)
    /\ d.level = 2 => SubPrice >= CardPrice
    /\ Become(t, [Fresh EXCEPT !.pc = "take", !.deal = d])
    /\ UNCHANGED <<bal, row, flows, stock, cardLock>>

\* The compare-and-swap of db_manager.consume_batch_data, committed at once.
OrderTake(t) ==
    /\ At(t, "take") /\ tx[t].deal.kind = "order"
    /\ \/ /\ ~tx[t].deal.data /\ Goto(t, "settle")
          /\ UNCHANGED <<bal, row, flows, stock, cardLock>>
       \/ /\ tx[t].deal.data /\ cardLock = Nobody /\ stock # <<>>
          /\ Become(t, [tx[t] EXCEPT !.pc = "settle", !.got = Head(stock)])
          /\ stock' = Tail(stock)
          /\ UNCHANGED <<bal, row, flows, cardLock>>
       \/ tx[t].deal.data /\ cardLock = Nobody /\ stock = <<>> /\ Rollback(t, "refused")

(***************************************************************************)
(* A pickup runs alone for its dock record, by its Redis lock, and loads   *)
(* the card into its session before it locks any row.                      *)
(***************************************************************************)
PickupBegin(t, d) ==
    /\ At(t, "idle") /\ d.kind = "pickup"
    /\ RedisFaults \/ \A s \in Txs : tx[s].deal = d => tx[s].pc \notin Active
    /\ Become(t, [Fresh EXCEPT !.pc = "lock", !.deal = d, !.seen = stock])
    /\ UNCHANGED <<bal, row, flows, stock, cardLock>>

\* create_withdraw_record; the income of a paid advertisement.
OtherBegin(t, d) ==
    /\ At(t, "idle") /\ d.kind \in {"withdraw", "income"}
    /\ Become(t, [Fresh EXCEPT !.pc = "lock", !.deal = d])
    /\ UNCHANGED <<bal, row, flows, stock, cardLock>>

LockRow(t) ==
    LET todo == Parties(tx[t].deal) \ Held(t)
        u    == NextRow(tx[t].deal, todo)
    IN
    /\ At(t, "lock")
    /\ \/ /\ todo # {} /\ Grab(t, u)
          /\ Become(t, [tx[t] EXCEPT !.mem[u] = bal[u]])
       \/ todo = {} /\ Goto(t, "decide") /\ UNCHANGED row
    /\ UNCHANGED <<bal, flows, stock, cardLock>>

\* The balances under lock decide; an API card may yield no content.
Decide(t) ==
    LET d == tx[t].deal IN
    /\ At(t, "decide")
    /\ IF \E u \in Parties(d) : NetDelta(d, u) < 0 /\ tx[t].mem[u] + NetDelta(d, u) < 0
       THEN Rollback(t, "refused")
       ELSE /\ Goto(t, IF d.kind = "pickup" THEN "take" ELSE "settle")
            /\ UNCHANGED <<bal, row, flows, stock, cardLock>>

(***************************************************************************)
(* build_delivery_content.  consume_batch_data locks the card's row; the   *)
(* query returns the Card object the session holds since the beginning,    *)
(* whose data_content is not read again.                                   *)
(***************************************************************************)
PickupTake(t) ==
    LET seen == tx[t].seen IN
    /\ At(t, "take") /\ tx[t].deal.kind = "pickup"
    /\ \/ /\ ~tx[t].deal.data /\ Goto(t, "settle")
          /\ UNCHANGED <<bal, row, flows, stock, cardLock>>
       \/ ~tx[t].deal.data /\ Rollback(t, "refused")
       \/ /\ tx[t].deal.data /\ cardLock = Nobody /\ seen # <<>>
          /\ cardLock' = t
          /\ Become(t, [tx[t] EXCEPT !.pc = "settle", !.got = Head(seen),
                                     !.seen = Tail(seen)])
          /\ UNCHANGED <<bal, row, flows, stock>>
       \/ tx[t].deal.data /\ cardLock = Nobody /\ seen = <<>> /\ Rollback(t, "refused")

\* One change of a balance: the amount and the flow that goes with it.
Booked(t, u, before, a) ==
    LET r == tx[t] IN
    [r EXCEPT !.mem[u] = before + a,
              !.pend[u] = Append(@, [before |-> before, after |-> before + a]),
              !.leg = @ + 1,
              !.pc = IF r.leg = Len(Legs(r.deal)) THEN "commit" ELSE "settle"]

\* Mutant: the balance is read without FOR UPDATE.
Book_NoLock(t) ==
    LET l == Legs(tx[t].deal)[tx[t].leg] u == l.user IN
    /\ At(t, "settle")
    /\ row' = [row EXCEPT ![u] = t]
    /\ Become(t, Booked(t, u, IF row[u] = t THEN tx[t].mem[u] ELSE bal[u], l.amount))
    /\ UNCHANGED <<bal, flows, stock, cardLock>>

\* _add_balance, _deduct_balance.
Book(t) ==
    LET l == Legs(tx[t].deal)[tx[t].leg] u == l.user IN
    /\ At(t, "settle")
    /\ \/ /\ row[u] = t /\ UNCHANGED row
          /\ Become(t, Booked(t, u, tx[t].mem[u], l.amount))
       \/ /\ Grab(t, u)
          /\ Become(t, Booked(t, u, bal[u], l.amount))
    /\ UNCHANGED <<bal, flows, stock, cardLock>>

Commit(t) ==
    LET r == tx[t] IN
    /\ At(t, "commit")
    /\ bal' = [u \in Users |-> IF row[u] = t THEN r.mem[u] ELSE bal[u]]
    /\ flows' = [u \in Users |-> IF row[u] = t THEN flows[u] \o r.pend[u] ELSE flows[u]]
    /\ stock' = IF cardLock = t THEN r.seen ELSE stock
    /\ row' = [u \in Users |-> IF row[u] = t THEN Nobody ELSE row[u]]
    /\ cardLock' = IF cardLock = t THEN Nobody ELSE cardLock
    /\ Become(t, [Fresh EXCEPT !.pc = "done", !.deal = r.deal, !.ok = r.ok,
                               !.got = r.got])

-----------------------------------------------------------------------------
\* The database.

\* The transaction that holds the row the next statement of t asks for.
Blocker(t) ==
    LET d    == tx[t].deal
        todo == Parties(d) \ Held(t)
    IN  CASE At(t, "lock") /\ todo # {} -> row[NextRow(d, todo)]
          [] At(t, "settle") -> LET u == Legs(d)[tx[t].leg].user
                                IN  IF row[u] = t THEN Nobody ELSE row[u]
          [] At(t, "take") /\ d.data -> cardLock
          [] OTHER -> Nobody

Waits(t) == Blocker(t) # Nobody

(***************************************************************************)
(* 50 s of waiting are over: only the statement fails.  A settlement that  *)
(* fails is noted in settle_remark, and the transaction is committed with  *)
(* the changes made so far; anything else is given up.                     *)
(***************************************************************************)
LockTimeout(t) ==
    /\ LockTimeouts /\ Waits(t)
    /\ IF At(t, "settle") /\ tx[t].deal.kind \in {"order", "pickup"}
       THEN /\ Become(t, [tx[t] EXCEPT !.pc = "commit", !.ok = FALSE])
            /\ UNCHANGED <<bal, row, flows, stock, cardLock>>
       ELSE Rollback(t, "refused")

\* Transactions that wait for each other.
Cycle(S) == S # {} /\ S = {Blocker(s) : s \in S}

\* InnoDB rolls one transaction of a cycle back.
DeadlockVictim(t) ==
    /\ Waits(t) /\ \E S \in SUBSET Txs : t \in S /\ Cycle(S)
    /\ Rollback(t, "lost")

Fail(t) ==
    /\ Failures /\ tx[t].pc \in Active
    /\ Rollback(t, "lost")

-----------------------------------------------------------------------------
Begin(t) == \E d \in Deals[t] : OrderBegin(t, d) \/ PickupBegin(t, d) \/ OtherBegin(t, d)

Step(t) ==
    \/ OrderTake(t) \/ LockRow(t) \/ Decide(t) \/ PickupTake(t)
    \/ Book(t) \/ Commit(t) \/ DeadlockVictim(t)

Next == \E t \in Txs : Begin(t) \/ Step(t) \/ LockTimeout(t) \/ Fail(t)

Spec == Init /\ [][Next]_vars

\* The services go on with what they began, and InnoDB resolves deadlocks.
FairSpec == Spec /\ \A t \in Txs : WF_vars(Step(t))

-----------------------------------------------------------------------------
\* What is said of balances and codes.

TxType == [pc : Active \cup Ended \cup {"idle"}, deal : Deal \cup {NoDeal},
           leg : 1..6, ok : BOOLEAN, mem : [Users -> Int],
           pend : [Users -> Seq(FlowRow)], seen : Seq(Codes),
           got : Codes \cup {NoCode}]

\* Types; and only a transaction at work holds a lock.
TypeOK ==
    /\ bal \in [Users -> Int]
    /\ row \in [Users -> Txs \cup {Nobody}]
    /\ flows \in [Users -> Seq(FlowRow)]
    /\ stock \in Seq(Codes)
    /\ cardLock \in Txs \cup {Nobody}
    /\ tx \in [Txs -> TxType]
    /\ \A t \in Txs : tx[t].pc \notin Active => cardLock # t /\ Held(t) = {}

\* withdraw_risk_check, for every user at every moment: each flow starts with
\* the balance the flow before it left ("流水余额序列完整性"), and the last one
\* left the balance that is stored ("余额一致性").  No update is lost.
Chained(start, s, end) ==
    /\ s = <<>> => start = end
    /\ s # <<>> => s[1].before = start /\ s[Len(s)].after = end
    /\ \A i \in 1 .. Len(s) - 1 : s[i].after = s[i + 1].before

LedgerAgrees == \A u \in Users : Chained(Opening[u], flows[u], bal[u])

\* All the users' money together.
Total == FoldFunction(LAMBDA a, b : a + b, 0, bal)

\* What leaves the system with a deal: the fee, or the amount paid out.
Outside(d) ==
    CASE d.kind = "withdraw" -> -d.amount
      [] d.kind = "income" -> d.amount
      [] OTHER -> -Fee

Commits(t) == At(t, "commit") /\ tx'[t].pc = "done"

\* settle_level1_order, settle_level2_order: money is only passed on; a
\* settlement marked as settled takes the fee out of the system, not more,
\* whatever other transactions do between its statements.
MoneyConserved ==
    [][\A t \in Txs : Commits(t) /\ tx[t].ok => Total' = Total + Outside(tx[t].deal)]_vars

\* A pickup of a card that does not say who pays the fee (batch_save_card does
\* not ask): the check charges the owner with it, the settlement the dealer.
Unforeseen(d) == d.kind = "pickup" /\ d.payer = "none"

\* _check_parties_balance, "防超扣": a balance is driven below zero only by
\* the settlement of an order, whose check takes no lock, or by an unforeseen
\* fee; never by another pickup or a withdrawal, whatever runs beside them.
OnlyOrdersOverdraw ==
    [][\A u \in Users : bal'[u] < 0 /\ bal'[u] < bal[u]
         => \E t \in Txs :
               Commits(t) /\ (tx[t].deal.kind = "order" \/ Unforeseen(tx[t].deal))]_vars

\* _check_parties_balance, "防死锁": pickups, withdrawals and incomes alone
\* never wait for each other; every deadlock has an order's settlement in it.
PickupsOrdered ==
    \A S \in SUBSET Txs : Cycle(S) => \E t \in S : tx[t].deal.kind = "order"

\* Whoever waits for a row or for the
\* card gets it or is given up: no transaction stays open for ever.
TxEnds == \A t \in Txs : tx[t].pc \in Active ~> tx[t].pc \in Ended

\* consume_batch_data, "行锁，防止并发重复派发": no two deliveries, pickups or
\* orders, hand out the same code.
Delivered(t) ==
    \/ tx[t].pc = "done"
    \/ tx[t].deal # NoDeal /\ tx[t].deal.kind = "order"

CodesOnce ==
    \A s, t \in Txs :
        s # t /\ Delivered(s) /\ Delivered(t) /\ tx[s].got # NoCode => tx[s].got # tx[t].got

=============================================================================
