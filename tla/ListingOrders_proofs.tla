------------------------ MODULE ListingOrders_proofs ------------------------
(***************************************************************************)
(* ListingOrders: types and limits, one order of an item by each of the    *)
(* collector and the round, and orders that stay on record.                *)
(***************************************************************************)
EXTENDS ListingOrders, FiniteSetTheorems, TLAPS

\* The types, records as wholes.
Hands == [row : Listings \cup {<<>>}, left : SUBSET Accounts, failed : BOOLEAN,
          account : Accounts \cup {Nobody}]
News == UNION {[rows -> RowOK] : rows \in SUBSET Listings}
AutoType == [pc : {"idle", "next", "place", "record"}, turn : 0..(Turns - 1),
             todo : Seq(Listings), hand : Hands, off : SUBSET Accounts,
             keys : SUBSET Keys, done : [Tasks -> 0..Batch]]
CollType == [pc : {"idle", "next", "place"}, todo : SUBSET Listings, hand : Hands,
             off : SUBSET Accounts, seen : SUBSET Keys, new : News]

Types ==
    /\ row \in [Listings -> RowOK] /\ orders \in [Keys -> Nat] /\ faults \in 0..(MaxFaults + 1)
    /\ auto \in AutoType /\ coll \in CollType

\* An order, placed by one while the other service was about to order the item.
Apart(r, by) == row[r].by = by /\ row[r].over

\* The round's rows are pending and different.
TodoOK ==
    /\ auto.pc # "idle" => auto.todo # <<>>
    /\ \A i \in 1..Len(auto.todo) : Pending(auto.todo[i])
    /\ \A i, j \in 1..Len(auto.todo) : i # j => auto.todo[i] # auto.todo[j]

\* The round has its first row in hand, and may buy it: if the item has been ordered
\* since, the collector has done so, next to the round.
HandKept ==
    /\ auto.pc # "record" => auto.hand.account = Nobody
    /\ auto.pc \in {"place", "record"} =>
          /\ auto.hand.row = Head(auto.todo)
          /\ auto.done[Task(auto.hand.row)] < Batch
          /\ \A r \in Success(Key(auto.hand.row)) : Apart(r, "coll")

\* The collector's rows are of one task and not there yet; each is to do or done.
Found == coll.todo \cup DOMAIN coll.new
FoundOK ==
    /\ coll.todo \cap DOMAIN coll.new = {}
    /\ \A r \in Found : ~There(r)
    /\ \A r, s \in Found : Task(r) = Task(s)
    /\ coll.pc = "idle" => Found = {}
    /\ coll.pc = "place" => coll.hand.row \in coll.todo /\ Key(coll.hand.row) \notin coll.seen
    /\ coll.hand.account = Nobody

\* It buys nothing that it has seen bought; what it has to buy and has not seen bought
\* the round alone may have bought since, next to it.
NewOK ==
    \A r \in DOMAIN coll.new :
        coll.new[r].state = "success" => coll.new[r].by = "coll" /\ Key(r) \notin coll.seen
SeenOK ==
    \A r \in Wanted : Key(r) \notin coll.seen => \A s \in Success(Key(r)) : Apart(s, "auto")

BuyersOK == \A r \in Listings : row[r].state = "success" => row[r].by \in {"auto", "coll"}

Inv == Types /\ TodoOK /\ HandKept /\ FoundOK /\ NewOK /\ SeenOK /\ BuyersOK /\ OrderedOnce

-----------------------------------------------------------------------------
\* Facts about the operators.

LEMMA ConstantFacts ==
    /\ Batch \in Nat \ {0} /\ MaxAttempts \in Nat \ {0} /\ MaxFaults \in Nat
    /\ Turns \in Nat \ {0} /\ IsFiniteSet(Listings)
    /\ \A r \in Listings : r = <<r[1], r[2]>> /\ Task(r) \in Tasks /\ Key(r) \in Keys
    /\ <<>> \notin Listings /\ Nobody \notin Accounts
    /\ \A t \in Tasks : AccountsOf[t] \subseteq Accounts
<1>1. <<>> \notin Listings
  <2> SUFFICES ASSUME <<>> \in Listings PROVE FALSE
    OBVIOUS
  <2>1. <<>> = <<(<<>>)[1], (<<>>)[2]>>
    BY ListingAssumption
  <2>2. Len(<<>>) = 0 /\ \A a, b : Len(<<a, b>>) = 2
    OBVIOUS
  <2> QED BY <2>1, <2>2
<1>2. \A r \in Listings : Key(r) \in Keys
  BY DEF Keys
<1>3. \A t \in Tasks : AccountsOf[t] \subseteq Accounts
  BY DEF Accounts
<1> QED BY <1>1, <1>2, <1>3, ListingAssumption DEF Task

\* The rows of one task for one item are one row.
LEMMA OneRow ==
    ASSUME NEW r \in Listings, NEW s \in Listings, Task(r) = Task(s), Key(r) = Key(s)
    PROVE  r = s
BY ConstantFacts DEF Task, Key

\* A queue of pending rows has each of them at most once.
LEMMA QueueFacts ==
    ASSUME NEW c \in Queues, NEW q \in c.queues
    PROVE  /\ c.pending \subseteq Listings /\ q \in Seq(c.pending) /\ q \in Seq(Listings)
           /\ \A i, j \in 1..Len(q) : i # j => q[i] # q[j]
<1>1. PICK p \in SUBSET Listings, t \in 0..(Turns - 1) :
          c = [pending |-> p, turn |-> t, queues |-> Queue(p, t)]
  BY DEF Queues
<1>2. c.pending = p /\ q \in Queue(p, t)
  BY <1>1
<1>3. \E rows \in SUBSET p : q \in SetToSeqs(rows)
  BY <1>2 DEF Queue, kSubset
<1>4. PICK rows \in SUBSET p : q \in SetToSeqs(rows)
  BY <1>3
<1>5. IsFiniteSet(rows)
  BY ConstantFacts, FS_Subset
<1>6. Cardinality(rows) \in Nat
  BY <1>5, FS_CardinalityType
<1> DEFINE n == Cardinality(rows)
<1>7. q \in [1..n -> rows] /\ \A i, j \in 1..n : i # j => q[i] # q[j]
  BY <1>4 DEF SetToSeqs
<1> HIDE DEF n
<1>8. n \in Nat
  BY <1>6 DEF n
<1>9. q \in Seq(rows) /\ Len(q) = n
  BY <1>7, <1>8
<1> QED BY <1>2, <1>7, <1>9

\* What comes of an attempt to order: an order, a refusal, a lost answer, or an
\* account that is turned down.
LEMMA OutcomeFacts ==
    ASSUME NEW h \in Hands, h.account = Nobody, NEW off \in SUBSET Accounts,
           NEW o \in Outcomes(h, off)
    PROVE  /\ o.hand \in Hands /\ o.hand.row = h.row /\ o.off \in SUBSET Accounts
           /\ o.placed \in {0, 1} /\ o.faults \in {0, 1}
           /\ o.hand.account # Nobody => o.placed = 1 /\ o.faults = 0
           /\ o.hand.account = Nobody => o.placed <= o.faults
<1>1. PICK a \in h.left :
        LET rest   == [h EXCEPT !.left = @ \ {a}]
            failed == [rest EXCEPT !.failed = TRUE]
        IN  \/ o = [hand |-> [rest EXCEPT !.account = a], off |-> off, placed |-> 1, faults |-> 0]
            \/ o = [hand |-> failed, off |-> off, placed |-> 0, faults |-> 0]
            \/ o = [hand |-> failed, off |-> off, placed |-> 1, faults |-> 1]
            \/ o = [hand |-> rest, off |-> off \cup {a}, placed |-> 0,
                    faults |-> IF a \in Sick THEN 0 ELSE 1]
  BY DEF Outcomes
<1>2. a \in Accounts /\ a # Nobody
  BY ConstantFacts DEF Hands
<1> DEFINE rest   == [h EXCEPT !.left = @ \ {a}]
           failed == [rest EXCEPT !.failed = TRUE]
           won    == [rest EXCEPT !.account = a]
<1>3. rest \in Hands /\ rest.row = h.row /\ rest.account = Nobody
  BY DEF Hands
<1> HIDE DEF rest
<1>4. failed \in Hands /\ failed.row = h.row /\ failed.account = Nobody
  BY <1>3 DEF Hands
<1>5. won \in Hands /\ won.row = h.row /\ won.account = a
  BY <1>2, <1>3 DEF Hands
<1> HIDE DEF failed, won
<1>6. \/ o = [hand |-> won, off |-> off, placed |-> 1, faults |-> 0]
      \/ o = [hand |-> failed, off |-> off, placed |-> 0, faults |-> 0]
      \/ o = [hand |-> failed, off |-> off, placed |-> 1, faults |-> 1]
      \/ o = [hand |-> rest, off |-> off \cup {a}, placed |-> 0,
              faults |-> IF a \in Sick THEN 0 ELSE 1]
  BY <1>1 DEF rest, failed, won
<1> QED BY <1>2, <1>3, <1>4, <1>5, <1>6

-----------------------------------------------------------------------------
\* Facts about shapes of steps.

LEMMA InitInv == Init => Inv
<1> SUFFICES ASSUME Init PROVE Inv
  OBVIOUS
<1> USE ConstantFacts DEF Init
<1>1. Unseen \in RowOK
  BY DEF Unseen, RowOK
<1>2. Empty \in Hands
  BY DEF Empty, Hands
<1>3. IdleAuto \in AutoType
  BY <1>2 DEF IdleAuto, AutoType
<1>4. <<>> \in News
  <2>1. <<>> \in [{} -> RowOK]
    OBVIOUS
  <2> QED BY <2>1 DEF News
<1>5. IdleColl \in CollType
  BY <1>2, <1>4 DEF IdleColl, CollType
<1>6. Types
  BY <1>1, <1>3, <1>5 DEF Types
<1>7. TodoOK /\ HandKept
  BY DEF TodoOK, HandKept, IdleAuto, Empty
<1>8. FoundOK /\ NewOK /\ SeenOK
  BY DEF FoundOK, Found, NewOK, SeenOK, Wanted, IdleColl, Empty
<1>9. BuyersOK /\ OrderedOnce
  BY DEF BuyersOK, OrderedOnce, Success, Unseen
<1> QED BY <1>6, <1>7, <1>8, <1>9 DEF Inv

\* The idle values keep to what is asked of them.
LEMMA IdleFacts ==
    /\ IdleAuto \in AutoType /\ IdleColl \in CollType /\ Empty \in Hands /\ Unseen \in RowOK
    /\ Empty.account = Nobody /\ IdleAuto.hand = Empty /\ IdleAuto.pc = "idle"
    /\ IdleAuto.todo = <<>> /\ IdleColl.pc = "idle" /\ IdleColl.todo = {}
    /\ IdleColl.hand = Empty
    /\ IdleColl.new = <<>> /\ DOMAIN IdleColl.new = {}
<1>1. Unseen \in RowOK
  BY ConstantFacts DEF Unseen, RowOK
<1>2. Empty \in Hands
  BY DEF Empty, Hands
<1>3. IdleAuto \in AutoType
  BY <1>2, ConstantFacts DEF IdleAuto, AutoType
<1>4. <<>> \in News
  <2>1. <<>> \in [{} -> RowOK]
    OBVIOUS
  <2> QED BY <2>1 DEF News
<1>5. IdleColl \in CollType
  BY <1>2, <1>4 DEF IdleColl, CollType
<1> QED BY <1>1, <1>2, <1>3, <1>5 DEF Empty, IdleAuto, IdleColl

\* The rows that the collector has in its session, wanted or not.
LEMMA WantedFacts == ASSUME Inv PROVE Wanted \subseteq Found /\ Found \subseteq Listings
BY DEF Inv, Types, CollType, News, Found, Wanted

\* A step that leaves the collector alone, adds no row and buys for the round at most.
LEMMA CollAlone ==
    ASSUME Inv, UNCHANGED coll, \A r \in Listings : There(r)' => There(r),
           \A r \in Listings : row'[r].state = "success" =>
              \/ row'[r] = row[r]
              \/ row'[r].by = "auto" /\ (CollHas(Key(r)) => row'[r].over)
    PROVE  FoundOK' /\ NewOK' /\ SeenOK'
<1>1. Found \subseteq Listings /\ Wanted \subseteq Listings
  BY WantedFacts
<1>2. FoundOK'
  BY <1>1 DEF Inv, FoundOK, Found
<1>3. Wanted' = Wanted
  BY DEF Wanted
<1>4. SeenOK'
  <2> SUFFICES ASSUME NEW r \in Wanted, Key(r) \notin coll.seen, NEW s \in Listings,
                      Key(s) = Key(r), row'[s].state = "success"
               PROVE  row'[s].by = "auto" /\ row'[s].over
    BY <1>3 DEF SeenOK, Success, Apart
  <2>1. CASE row'[s] = row[s]
    BY <2>1 DEF Inv, SeenOK, Success, Apart
  <2>2. CASE row'[s].by = "auto" /\ (CollHas(Key(s)) => row'[s].over)
    BY <2>2 DEF CollHas
  <2> QED BY <2>1, <2>2
<1> QED BY <1>2, <1>4 DEF Inv, NewOK

\* A step that leaves the round and the rows that are there alone, and buys for the
\* collector at most.
LEMMA AutoAlone ==
    ASSUME Inv, UNCHANGED auto, \A r \in Listings : There(r) => row'[r] = row[r],
           \A r \in Listings : row'[r].state = "success" =>
              \/ row'[r] = row[r]
              \/ row'[r].by = "coll" /\ (AutoHas(Key(r)) => row'[r].over)
    PROVE  TodoOK' /\ HandKept'
<1>1. \A i \in 1..Len(auto.todo) : auto.todo[i] \in Listings
  BY DEF Inv, Types, AutoType
<1>2. \A i \in 1..Len(auto.todo) : Pending(auto.todo[i])'
  BY <1>1 DEF Inv, TodoOK, Pending, There, Ordered
<1>3. TodoOK'
  BY <1>2 DEF Inv, TodoOK
<1>4. ASSUME auto.pc \in {"place", "record"}, NEW r \in Listings,
             Key(r) = Key(auto.hand.row), row'[r].state = "success"
      PROVE  row'[r].by = "coll" /\ row'[r].over
  <2>1. CASE row'[r] = row[r]
    BY <1>4, <2>1 DEF Inv, HandKept, Success, Apart
  <2>2. CASE row'[r].by = "coll" /\ (AutoHas(Key(r)) => row'[r].over)
    BY <1>4, <2>2 DEF AutoHas
  <2> QED BY <1>4, <2>1, <2>2
<1>5. HandKept'
  BY <1>4 DEF Inv, HandKept, Success, Apart
<1> QED BY <1>3, <1>5

\* A step that buys nothing.
LEMMA NothingBought ==
    ASSUME Inv, \A r \in Listings : row'[r].state = "success" => row'[r] = row[r]
    PROVE  BuyersOK' /\ OrderedOnce'
BY DEF Inv, BuyersOK, OrderedOnce, Success

\* The first row of the round.
LEMMA HeadFacts ==
    ASSUME Inv, auto.pc # "idle"
    PROVE  /\ Head(auto.todo) \in Listings /\ Pending(Head(auto.todo))
           /\ Task(Head(auto.todo)) \in Tasks /\ Key(Head(auto.todo)) \in Keys
           /\ auto.todo \in Seq(Listings) /\ auto.todo # <<>>
           /\ Head(auto.todo) = auto.todo[1] /\ Len(auto.todo) \in Nat \ {0}
<1>1. auto.todo \in Seq(Listings) /\ auto.todo # <<>>
  BY DEF Inv, Types, AutoType, TodoOK
<1>2. Len(auto.todo) \in Nat \ {0} /\ Head(auto.todo) = auto.todo[1]
  BY <1>1
<1>3. auto.todo[1] \in Listings /\ Pending(auto.todo[1])
  BY <1>1, <1>2 DEF Inv, TodoOK
<1> QED BY <1>1, <1>2, <1>3, ConstantFacts

\* On to the next row, with a change of the first row at most.
LEMMA AdvanceInv ==
    ASSUME Inv, auto.pc # "idle",
           NEW n \in {0, 1}, NEW k \in SUBSET Keys, NEW off \in SUBSET Accounts,
           auto.done[Task(Head(auto.todo))] + n <= Batch, Advance(n, k, off),
           \A r \in Listings : r # Head(auto.todo) => row'[r] = row[r]
    PROVE  /\ auto' \in AutoType /\ TodoOK' /\ HandKept'
           /\ auto'.hand = Empty
<1> DEFINE t == Task(Head(auto.todo))
<1> USE HeadFacts
<1>p. PICK rest : rest = Tail(auto.todo)
  OBVIOUS
<1>0. auto \in AutoType
  BY DEF Inv, Types
<1>1. /\ rest \in Seq(Listings) /\ Len(rest) = Len(auto.todo) - 1
      /\ \A i \in 1..Len(rest) : rest[i] = auto.todo[i + 1]
  BY <1>p
<1>2. CASE rest = <<>>
  <2>1. auto' = [IdleAuto EXCEPT !.turn = auto.turn]
    BY <1>p, <1>2 DEF Advance
  <2>2. auto' \in AutoType
    BY <2>1, <1>0, IdleFacts DEF AutoType
  <2>3. auto'.pc = "idle" /\ auto'.todo = <<>> /\ auto'.hand = Empty
    BY <2>1, IdleFacts DEF IdleAuto
  <2> QED BY <2>2, <2>3, IdleFacts DEF TodoOK, HandKept
<1>3. CASE rest # <<>>
  <2>1. auto' = [auto EXCEPT !.pc = "next", !.todo = rest, !.hand = Empty,
                             !.off = off, !.keys = @ \cup k, !.done[t] = @ + n]
    BY <1>p, <1>3 DEF Advance
  <2>2. /\ auto.done \in [Tasks -> 0..Batch] /\ auto.keys \subseteq Keys
        /\ auto.turn \in 0..(Turns - 1)
    BY <1>0 DEF AutoType
  <2>3. [auto.done EXCEPT ![t] = @ + n] \in [Tasks -> 0..Batch]
    BY <2>2, ConstantFacts
  <2> DEFINE done == [auto.done EXCEPT ![t] = @ + n]
  <2>4. /\ auto'.pc = "next" /\ auto'.todo = rest /\ auto'.hand = Empty /\ auto'.off = off
        /\ auto' = [auto EXCEPT !.pc = "next", !.todo = rest, !.hand = Empty,
                                !.off = off, !.keys = @ \cup k, !.done = done]
    BY <2>1, <1>0 DEF AutoType
  <2> HIDE DEF done
  <2>5. done \in [Tasks -> 0..Batch]
    BY <2>3 DEF done
  <2>6. auto' \in AutoType
    <3>1. rest \in Seq(Listings) /\ Empty \in Hands /\ auto.keys \cup k \in SUBSET Keys
      BY <1>1, <2>2, IdleFacts
    <3> QED BY ONLY <2>4, <2>5, <3>1, <1>0, off \in SUBSET Accounts DEF AutoType
  <2>7. \A i \in 1..Len(rest) : i + 1 \in 1..Len(auto.todo) /\ i + 1 # 1
    BY <1>1
  <2>8. \A i \in 1..Len(rest) : rest[i] \in Listings /\ rest[i] # Head(auto.todo)
    BY <1>1, <2>7 DEF Inv, TodoOK
  <2>9. \A i \in 1..Len(rest) : Pending(rest[i])'
    BY <1>1, <2>7, <2>8 DEF Inv, TodoOK, Pending, There, Ordered
  <2>10. \A i, j \in 1..Len(rest) : i # j => rest[i] # rest[j]
    BY <1>1, <2>7 DEF Inv, TodoOK
  <2>11. TodoOK'
    BY <2>4, <2>9, <2>10, <1>3 DEF TodoOK
  <2>12. HandKept'
    BY <2>4, IdleFacts DEF HandKept
  <2> QED BY <2>4, <2>6, <2>11, <2>12
<1> QED BY <1>2, <1>3

\* A statement on a row that waits, which buys nothing or may.
LEMMA UpdateFacts ==
    ASSUME Inv, NEW r \in Listings, NEW v \in RowOK, Pending(r), Update(r, v)
    PROVE  /\ row' \in [Listings -> RowOK] /\ faults' \in 0..(MaxFaults + 1)
           /\ row'[r] \in {row[r], v} /\ \A s \in Listings : s # r => row'[s] = row[s]
           /\ faults' \in {faults, faults + 1}
           /\ row'[r] = v \/ (row' = row /\ faults' = faults + 1)
<1>1. row \in [Listings -> RowOK] /\ faults \in 0..(MaxFaults + 1)
  BY DEF Inv, Types
<1> QED BY <1>1, ConstantFacts DEF Update, Fault

-----------------------------------------------------------------------------
\* The steps of the round.

LEMMA AutoStartInv == ASSUME Inv, AutoStart PROVE Inv'
<1> DEFINE turn == (auto.turn + 1) % Turns
           pending == {r \in Listings : Pending(r)}
<1>0. PICK c \in Queues :
        /\ c.turn = turn /\ c.pending = pending
        /\ \E q \in c.queues :
              auto' = [IdleAuto EXCEPT !.pc = IF q = <<>> THEN "idle" ELSE "next",
                                       !.turn = turn, !.todo = q]
  BY DEF AutoStart
<1>1. PICK q \in c.queues :
        auto' = [IdleAuto EXCEPT !.pc = IF q = <<>> THEN "idle" ELSE "next",
                                 !.turn = turn, !.todo = q]
  BY <1>0
<1>2. UNCHANGED <<row, orders, coll, faults>>
  BY DEF AutoStart
<1>3. /\ q \in Seq(Listings) /\ q \in Seq(c.pending)
      /\ \A i, j \in 1..Len(q) : i # j => q[i] # q[j]
  BY QueueFacts
<1>4. turn \in 0..(Turns - 1)
  BY ConstantFacts DEF Inv, Types, AutoType
<1> HIDE DEF turn
<1>5. auto' \in AutoType
  BY <1>1, <1>3, <1>4, IdleFacts DEF AutoType
<1>6. /\ auto'.pc = IF q = <<>> THEN "idle" ELSE "next"
      /\ auto'.todo = q /\ auto'.hand = Empty
  BY <1>1, IdleFacts DEF IdleAuto
<1>7. \A i \in 1..Len(q) : q[i] \in pending
  BY <1>0, <1>3
<1>8. \A i \in 1..Len(q) : Pending(q[i])'
  BY <1>2, <1>7 DEF Pending, There, Ordered
<1>9. TodoOK'
  BY <1>3, <1>6, <1>8 DEF TodoOK
<1>10. HandKept'
  BY <1>6, IdleFacts DEF HandKept
<1>11. FoundOK' /\ NewOK' /\ SeenOK'
  BY <1>2, CollAlone DEF There
<1>12. BuyersOK' /\ OrderedOnce'
  BY <1>2, NothingBought
<1>13. Types'
  BY <1>2, <1>5 DEF Inv, Types
<1> QED BY <1>9, <1>10, <1>11, <1>12, <1>13 DEF Inv

\* What the round writes to a row without buying anything.
LEMMA MarkInv ==
    ASSUME Inv, auto.pc # "idle",
           NEW v \in RowOK, v.state \notin {"absent", "success"},
           NEW n \in {0, 1}, NEW off \in SUBSET Accounts,
           auto.done[Task(Head(auto.todo))] + n <= Batch,
           Update(Head(auto.todo), v), Advance(n, {}, off), UNCHANGED <<orders, coll>>
    PROVE  Inv'
<1> USE HeadFacts
<1>1. PICK r \in Listings : r = Head(auto.todo) /\ Pending(r)
  OBVIOUS
<1>2. /\ row' \in [Listings -> RowOK] /\ faults' \in 0..(MaxFaults + 1)
      /\ row'[r] \in {row[r], v} /\ \A s \in Listings : s # r => row'[s] = row[s]
  BY <1>1, UpdateFacts
<1>3. auto' \in AutoType /\ TodoOK' /\ HandKept'
  BY <1>1, <1>2, AdvanceInv
<1>4. Types'
  BY <1>2, <1>3 DEF Inv, Types
<1>5. \A s \in Listings : row'[s].state = "success" => row'[s] = row[s]
  BY <1>2
<1>6. BuyersOK' /\ OrderedOnce'
  BY <1>5, NothingBought
<1>7. There(r)
  BY <1>1 DEF Pending
<1>8. \A s \in Listings : There(s)' => There(s)
  BY <1>2, <1>7 DEF There
<1>9. FoundOK' /\ NewOK' /\ SeenOK'
  BY <1>5, <1>8, CollAlone
<1> QED BY <1>3, <1>4, <1>6, <1>9 DEF Inv

\* The round goes on without writing.
LEMMA SkipInv ==
    ASSUME Inv, auto.pc # "idle",
           NEW n \in {0, 1}, NEW off \in SUBSET Accounts, faults' \in 0..(MaxFaults + 1),
           auto.done[Task(Head(auto.todo))] + n <= Batch,
           Advance(n, {}, off), orders' \in [Keys -> Nat], UNCHANGED <<row, coll>>
    PROVE  Inv'
<1>1. auto' \in AutoType /\ TodoOK' /\ HandKept'
  BY AdvanceInv
<1>2. Types'
  BY <1>1 DEF Inv, Types
<1>3. BuyersOK' /\ OrderedOnce'
  BY NothingBought
<1>4. FoundOK' /\ NewOK' /\ SeenOK'
  BY CollAlone DEF There
<1> QED BY <1>1, <1>2, <1>3, <1>4 DEF Inv

\* The round takes its first row in hand, or goes on with it.
LEMMA GraspInv ==
    ASSUME Inv, auto.pc # "idle", UNCHANGED <<row, coll>>, faults' \in 0..(MaxFaults + 1),
           orders' \in [Keys -> Nat],
           NEW pc \in {"place", "record"}, NEW h \in Hands, NEW off \in SUBSET Accounts,
           auto' = [auto EXCEPT !.pc = pc, !.hand = h, !.off = off],
           h.row = Head(auto.todo), pc # "record" => h.account = Nobody,
           auto.done[Task(Head(auto.todo))] < Batch,
           \A r \in Success(Key(Head(auto.todo))) : Apart(r, "coll")
    PROVE  Inv'
<1> USE HeadFacts
<1>0. auto \in AutoType
  BY DEF Inv, Types
<1>1. /\ auto' \in AutoType /\ auto'.pc = pc /\ auto'.todo = auto.todo /\ auto'.hand = h
      /\ auto'.done = auto.done
  BY <1>0 DEF AutoType
<1>2. TodoOK'
  BY <1>1 DEF Inv, TodoOK, Pending, There, Ordered
<1>3. HandKept'
  BY <1>1 DEF HandKept, Success, Apart
<1>4. Types'
  BY <1>1 DEF Inv, Types
<1>5. BuyersOK' /\ OrderedOnce'
  BY NothingBought
<1>6. FoundOK' /\ NewOK' /\ SeenOK'
  BY CollAlone DEF There
<1> QED BY <1>2, <1>3, <1>4, <1>5, <1>6 DEF Inv

LEMMA AutoNextInv == ASSUME Inv, AutoNext PROVE Inv'
<1> DEFINE accounts == AccountsOf[Task(Head(auto.todo))] \ auto.off
<1>1. auto.pc = "next" /\ UNCHANGED <<orders, coll>>
  BY DEF AutoNext
<1> USE <1>1, HeadFacts
<1>2. PICK r \in Listings : r = Head(auto.todo) /\ Pending(r)
  OBVIOUS
<1>3. /\ auto.off \in SUBSET Accounts /\ auto.done[Task(r)] \in 0..Batch
      /\ row \in [Listings -> RowOK] /\ orders \in [Keys -> Nat] /\ faults \in 0..(MaxFaults + 1)
  BY <1>2 DEF Inv, Types, AutoType
<1>4. \A s \in {"duplicate", "no_account"} :
        [row[r] EXCEPT !.state = s] \in RowOK /\ [row[r] EXCEPT !.state = s].state = s
  BY <1>3 DEF RowOK
<1>5. auto.done[Task(r)] + 0 <= Batch
  BY <1>3, ConstantFacts
<1>6. CASE Update(r, [row[r] EXCEPT !.state = "duplicate"]) /\ Advance(0, {}, auto.off)
  BY <1>2, <1>3, <1>4, <1>5, <1>6, MarkInv
<1>7. CASE Update(r, [row[r] EXCEPT !.state = "no_account"]) /\ Advance(0, {}, auto.off)
  BY <1>2, <1>3, <1>4, <1>5, <1>7, MarkInv
<1>8. CASE Advance(0, {}, auto.off) /\ UNCHANGED <<row, faults>>
  BY <1>2, <1>3, <1>5, <1>8, SkipInv
<1>9. CASE /\ Key(r) \notin auto.keys \cup OrderedKeys /\ auto.done[Task(r)] < Batch
           /\ auto' = [auto EXCEPT !.pc = "place",
                                   !.hand = [Empty EXCEPT !.row = r, !.left = accounts]]
           /\ UNCHANGED <<row, faults>>
  <2> DEFINE h == [Empty EXCEPT !.row = r, !.left = accounts]
  <2>1. accounts \subseteq Accounts
    BY ConstantFacts
  <2>2. h \in Hands /\ h.row = r /\ h.account = Nobody
    BY <2>1, IdleFacts DEF Hands
  <2>3. auto' = [auto EXCEPT !.pc = "place", !.hand = h, !.off = auto.off]
    BY <1>9 DEF Inv, Types, AutoType
  <2>4. Success(Key(r)) = {}
    BY <1>9 DEF Success, OrderedKeys, Ordered
  <2>5. PICK g \in Hands, off \in SUBSET Accounts : g = h /\ off = auto.off
    BY <1>3, <2>2
  <2>6. /\ auto' = [auto EXCEPT !.pc = "place", !.hand = g, !.off = off]
        /\ g.row = Head(auto.todo) /\ g.account = Nobody
    BY <1>2, <2>2, <2>3, <2>5
  <2> HIDE DEF h
  <2>7. \A s \in Success(Key(Head(auto.todo))) : Apart(s, "coll")
    BY <1>2, <2>4
  <2>8. faults' \in 0..(MaxFaults + 1) /\ orders' \in [Keys -> Nat] /\ UNCHANGED <<row, coll>>
    BY <1>3, <1>9
  <2> QED BY <1>2, <1>9, <2>6, <2>7, <2>8, GraspInv
<1>10. \/ Update(r, [row[r] EXCEPT !.state = "duplicate"]) /\ Advance(0, {}, auto.off)
       \/ Update(r, [row[r] EXCEPT !.state = "no_account"]) /\ Advance(0, {}, auto.off)
       \/ Advance(0, {}, auto.off) /\ UNCHANGED <<row, faults>>
       \/ /\ Key(r) \notin auto.keys \cup OrderedKeys /\ ~(auto.done[Task(r)] >= Batch)
          /\ auto' = [auto EXCEPT !.pc = "place",
                                  !.hand = [Empty EXCEPT !.row = r, !.left = accounts]]
          /\ UNCHANGED <<row, faults>>
  BY <1>2 DEF AutoNext
<1> QED BY <1>3, <1>6, <1>7, <1>8, <1>9, <1>10, ConstantFacts

\* An attempt to order keeps counts and faults in their types.
LEMMA PlaceFacts ==
    ASSUME Inv, NEW h \in Hands, h.row \in Listings, h.account = Nobody,
           NEW off \in SUBSET Accounts, NEW o \in Outcomes(h, off), Place(h, o)
    PROVE  /\ orders' \in [Keys -> Nat] /\ faults' \in 0..(MaxFaults + 1) /\ faults' = faults + o.faults
           /\ orders'[Key(h.row)] = orders[Key(h.row)] + o.placed
           /\ \A k \in Keys : k # Key(h.row) => orders'[k] = orders[k]
<1>1. Key(h.row) \in Keys /\ o.placed \in {0, 1} /\ o.faults \in {0, 1}
  BY OutcomeFacts, ConstantFacts
<1>2. orders \in [Keys -> Nat] /\ faults \in 0..(MaxFaults + 1)
  BY DEF Inv, Types
<1> QED BY <1>1, <1>2, ConstantFacts DEF Place

\* And so does an exception.
LEMMA PlaceBreaksFacts ==
    ASSUME Inv, NEW h \in Hands, h.row \in Listings, PlaceBreaks(h)
    PROVE  /\ orders' \in [Keys -> Nat] /\ faults' \in 0..(MaxFaults + 1)
           /\ faults' = faults + 1
           /\ \A k \in Keys : orders[k] \in Nat /\ orders'[k] \in {orders[k], orders[k] + 1}
<1>1. Key(h.row) \in Keys
  BY ConstantFacts
<1>2. orders \in [Keys -> Nat] /\ faults \in 0..(MaxFaults + 1)
  BY DEF Inv, Types
<1>3. PICK n \in {0, 1} : orders' = [orders EXCEPT ![Key(h.row)] = @ + n]
  BY DEF PlaceBreaks
<1>4. faults' \in 0..(MaxFaults + 1) /\ faults' = faults + 1
  BY <1>2, ConstantFacts DEF PlaceBreaks, Fault
<1>5. \A k \in Keys : orders[k] \in Nat /\ orders'[k] \in {orders[k], orders[k] + 1}
  BY <1>1, <1>2, <1>3
<1>6. orders' \in [Keys -> Nat]
  BY <1>1, <1>2, <1>3
<1> QED BY <1>4, <1>5, <1>6

LEMMA AutoPlaceInv == ASSUME Inv, AutoPlace PROVE Inv'
<1>1. auto.pc = "place" /\ UNCHANGED <<row, coll>>
  BY DEF AutoPlace
<1>2. PICK o \in Outcomes(auto.hand, auto.off) :
        /\ Place(auto.hand, o)
        /\ IF o.hand.account # Nobody \/ (o.hand.left = {} /\ o.hand.failed)
           THEN auto' = [auto EXCEPT !.pc = "record", !.hand = o.hand, !.off = o.off]
           ELSE IF o.hand.left # {} THEN auto' = [auto EXCEPT !.hand = o.hand, !.off = o.off]
           ELSE Advance(1, {}, o.off)
  BY DEF AutoPlace
<1> USE <1>1, HeadFacts
<1>3. /\ auto.hand \in Hands /\ auto.hand.account = Nobody /\ auto.off \in SUBSET Accounts
      /\ auto.hand.row = Head(auto.todo) /\ auto.done[Task(Head(auto.todo))] < Batch
      /\ auto.done[Task(Head(auto.todo))] \in 0..Batch
      /\ \A r \in Success(Key(Head(auto.todo))) : Apart(r, "coll")
  BY DEF Inv, HandKept, Types, AutoType
<1>4. orders' \in [Keys -> Nat] /\ faults' \in 0..(MaxFaults + 1)
  BY <1>2, <1>3, PlaceFacts
<1>5. o.hand \in Hands /\ o.hand.row = Head(auto.todo) /\ o.off \in SUBSET Accounts
  BY <1>2, <1>3, OutcomeFacts
<1>6. PICK h \in Hands, off \in SUBSET Accounts : h = o.hand /\ off = o.off
  BY <1>5
<1>7. CASE auto' = [auto EXCEPT !.pc = "record", !.hand = h, !.off = off]
  BY <1>3, <1>4, <1>5, <1>6, <1>7, GraspInv
<1>8. CASE h.account = Nobody /\ auto' = [auto EXCEPT !.hand = h, !.off = off]
  <2>1. auto' = [auto EXCEPT !.pc = "place", !.hand = h, !.off = off]
    BY <1>8 DEF Inv, Types, AutoType
  <2> QED BY <1>3, <1>4, <1>5, <1>6, <1>8, <2>1, GraspInv
<1>9. CASE Advance(1, {}, off)
  <2>1. auto.done[Task(Head(auto.todo))] + 1 <= Batch
    BY <1>3, ConstantFacts
  <2> QED BY <1>4, <1>9, <2>1, SkipInv
<1> QED BY <1>2, <1>6, <1>7, <1>8, <1>9

\* An order that its row says: no other row of the round says the same.
LEMMA AutoRecordInv == ASSUME Inv, AutoRecord PROVE Inv'
<1> DEFINE h == auto.hand
           v == [row[h.row] EXCEPT !.attempts = @ + 1, !.state = "failed"]
           w == [v EXCEPT !.state = "success", !.by = "auto", !.over = CollHas(Key(h.row))]
<1>1. auto.pc = "record" /\ UNCHANGED <<orders, coll>>
  BY DEF AutoRecord
<1> USE <1>1, HeadFacts
<1>2. PICK r \in Listings : r = Head(auto.todo) /\ Pending(r) /\ h.row = r
  BY DEF Inv, HandKept
<1>3. /\ auto.off \in SUBSET Accounts /\ auto.done[Task(r)] \in 0..Batch
      /\ auto.done[Task(r)] < Batch
      /\ row \in [Listings -> RowOK] /\ orders \in [Keys -> Nat] /\ faults \in 0..(MaxFaults + 1)
      /\ \A s \in Success(Key(r)) : Apart(s, "coll")
  BY <1>2 DEF Inv, Types, AutoType, HandKept
<1>4. auto.done[Task(Head(auto.todo))] + 1 <= Batch
  BY <1>2, <1>3, ConstantFacts
<1>5. row[r] \in RowOK /\ row[r].attempts < MaxAttempts
  BY <1>2, <1>3 DEF Pending
<1>6. v \in RowOK /\ v.state = "failed"
  <2> DEFINE c == row[r]
  <2>1. c \in RowOK /\ c.attempts + 1 \in 0..MaxAttempts
    BY <1>5, ConstantFacts DEF RowOK
  <2>2. v = [c EXCEPT !.attempts = c.attempts + 1, !.state = "failed"]
    BY <1>2
  <2> HIDE DEF c
  <2> QED BY <2>1, <2>2 DEF RowOK
<1>7. /\ w \in RowOK /\ w.state = "success" /\ w.by = "auto"
      /\ CollHas(Key(r)) => w.over
  <2>1. PICK b \in BOOLEAN : b = CollHas(Key(r))
    BY DEF CollHas
  <2>2. w = [v EXCEPT !.state = "success", !.by = "auto", !.over = b]
    BY <1>2, <2>1
  <2> HIDE DEF v, w
  <2> QED BY <1>6, <2>1, <2>2 DEF RowOK
<1>8. CASE h.account = Nobody
  <2>1. Update(r, v) /\ Advance(1, {}, auto.off)
    BY <1>2, <1>8 DEF AutoRecord
  <2> HIDE DEF v
  <2> QED BY <1>2, <1>3, <1>4, <1>6, <2>1, MarkInv
<1>9. CASE h.account # Nobody
  <2>1. Update(r, w) /\ Advance(1, {Key(r)}, auto.off)
    BY <1>2, <1>9 DEF AutoRecord
  <2> HIDE DEF v, w
  <2>2. /\ row' \in [Listings -> RowOK] /\ faults' \in 0..(MaxFaults + 1)
        /\ row'[r] \in {row[r], w} /\ \A s \in Listings : s # r => row'[s] = row[s]
    BY <1>2, <1>7, <2>1, UpdateFacts
  <2>3. {Key(r)} \in SUBSET Keys
    BY <1>2
  <2>4. auto' \in AutoType /\ TodoOK' /\ HandKept'
    BY <1>2, <1>3, <1>4, <2>1, <2>2, <2>3, AdvanceInv
  <2>5. Types'
    BY <1>3, <2>2, <2>4 DEF Inv, Types
  <2>6. There(r) /\ row[r].state # "success"
    BY <1>2 DEF Pending, Ordered
  <2>7. \A s \in Listings : There(s)' => There(s)
    BY <2>2, <2>6 DEF There
  <2>8. \A s \in Listings : row'[s].state = "success" =>
           \/ row'[s] = row[s]
           \/ row'[s].by = "auto" /\ (CollHas(Key(s)) => row'[s].over)
    BY <1>7, <2>2
  <2>9. FoundOK' /\ NewOK' /\ SeenOK'
    BY <2>7, <2>8, CollAlone
  <2>10. BuyersOK'
    BY <1>7, <2>2 DEF Inv, BuyersOK
  <2>11. OrderedOnce'
    <3> SUFFICES ASSUME NEW a \in Listings, NEW b \in Listings, Key(a) = Key(b), a # b,
                        row'[a].state = "success", row'[b].state = "success"
                 PROVE  row'[a].by # row'[b].by /\ (row'[a].over \/ row'[b].over)
      BY DEF OrderedOnce, Success
    <3>1. CASE a # r /\ b # r
      <4>1. row'[a] = row[a] /\ row'[b] = row[b] /\ Key(a) \in Keys
        BY <2>2, <3>1, ConstantFacts
      <4> QED BY <4>1 DEF Inv, OrderedOnce, Success
    <3>2. CASE a = r
      <4>1. row'[b] = row[b] /\ row'[a].by = "auto"
        BY <1>7, <2>2, <2>6, <3>2
      <4>2. row[b].by = "coll" /\ row[b].over
        BY <1>3, <3>2, <4>1 DEF Success, Apart
      <4> QED BY <4>1, <4>2
    <3>3. CASE b = r
      <4>1. row'[a] = row[a] /\ row'[b].by = "auto"
        BY <1>7, <2>2, <2>6, <3>3
      <4>2. row[a].by = "coll" /\ row[a].over
        BY <1>3, <3>3, <4>1 DEF Success, Apart
      <4> QED BY <4>1, <4>2
    <3> QED BY <3>1, <3>2, <3>3
  <2> QED BY <2>4, <2>5, <2>9, <2>10, <2>11 DEF Inv
<1> QED BY <1>8, <1>9

-----------------------------------------------------------------------------
\* The steps of the collector.

\* A step of the collector that writes no row.
LEMMA CollSide ==
    ASSUME Inv, UNCHANGED <<row, auto>>, orders' \in [Keys -> Nat], faults' \in 0..(MaxFaults + 1),
           coll' \in CollType, FoundOK', NewOK', SeenOK'
    PROVE  Inv'
<1>1. TodoOK' /\ HandKept'
  BY AutoAlone
<1>2. BuyersOK' /\ OrderedOnce'
  BY NothingBought
<1>3. Types'
  BY DEF Inv, Types
<1> QED BY <1>1, <1>2, <1>3 DEF Inv

LEMMA CollStartInv == ASSUME Inv, NEW t \in Tasks, CollStart(t) PROVE Inv'
<1>1. PICK fresh \in SUBSET {r \in Listings : Task(r) = t /\ ~There(r)} :
        coll' = [IdleColl EXCEPT
                      !.pc = "next", !.seen = OrderedKeys,
                      !.todo = IF t \in Direct THEN fresh ELSE {},
                      !.new  = IF t \in Direct THEN <<>>
                               ELSE [r \in fresh |-> [Unseen EXCEPT !.state = "none"]]]
  BY DEF CollStart
<1>2. UNCHANGED <<row, orders, auto, faults>>
  BY DEF CollStart
<1> DEFINE v    == [Unseen EXCEPT !.state = "none"]
           todo == IF t \in Direct THEN fresh ELSE {}
           new  == IF t \in Direct THEN <<>> ELSE [r \in fresh |-> v]
<1>3. v \in RowOK /\ v.state = "none"
  BY IdleFacts DEF RowOK
<1> HIDE DEF v
<1>4. new \in News /\ DOMAIN new \subseteq fresh /\ todo \subseteq fresh
      /\ todo \cap DOMAIN new = {} /\ \A r \in DOMAIN new : new[r].state = "none"
  <2>1. CASE t \in Direct
    BY <2>1, IdleFacts DEF CollType
  <2>2. CASE t \notin Direct
    BY <1>3, <2>2 DEF News
  <2> QED BY <2>1, <2>2
<1>5. OrderedKeys \in SUBSET Keys
  BY ConstantFacts DEF OrderedKeys
<1>6. coll' = [IdleColl EXCEPT !.pc = "next", !.seen = OrderedKeys, !.todo = todo, !.new = new]
  BY <1>1 DEF v
<1> HIDE DEF todo, new
<1>7. /\ coll' \in CollType /\ coll'.pc = "next" /\ coll'.seen = OrderedKeys
      /\ coll'.todo = todo /\ coll'.new = new /\ coll'.hand = Empty
  BY <1>4, <1>5, <1>6, IdleFacts DEF CollType
<1>8. \A r \in fresh : r \in Listings /\ Task(r) = t /\ ~There(r)'
  BY <1>2 DEF There
<1>9. FoundOK'
  BY <1>4, <1>7, <1>8, IdleFacts DEF FoundOK, Found
<1>10. NewOK'
  BY <1>4, <1>7 DEF NewOK
<1>11. SeenOK'
  <2>1. \A k : Success(k)' # {} => k \in coll'.seen
    BY <1>2, <1>7 DEF Success, OrderedKeys, Ordered
  <2> QED BY <2>1 DEF SeenOK
<1>12. orders' \in [Keys -> Nat] /\ faults' \in 0..(MaxFaults + 1)
  BY <1>2 DEF Inv, Types
<1> QED BY <1>2, <1>7, <1>9, <1>10, <1>11, <1>12, CollSide

\* A row is done with: it goes to the new ones.
LEMMA AddFacts ==
    ASSUME NEW c \in CollType, NEW r \in Listings, NEW v \in RowOK
    PROVE  /\ Add(c, r, v) \in CollType
           /\ Add(c, r, v).pc = "next" /\ Add(c, r, v).hand = Empty /\ Add(c, r, v).todo = c.todo \ {r}
           /\ Add(c, r, v).seen = c.seen
           /\ DOMAIN Add(c, r, v).new = DOMAIN c.new \cup {r}
           /\ Add(c, r, v).new[r] = v
           /\ \A s \in DOMAIN c.new : s # r => Add(c, r, v).new[s] = c.new[s]
<1> DEFINE new == [s \in DOMAIN c.new \cup {r} |-> IF s = r THEN v ELSE c.new[s]]
<1>1. PICK rows \in SUBSET Listings : c.new \in [rows -> RowOK]
  BY DEF CollType, News
<1>2. new \in [rows \cup {r} -> RowOK]
  BY <1>1
<1>3. rows \cup {r} \in SUBSET Listings
  OBVIOUS
<1>4. new \in News
  BY <1>2, <1>3 DEF News
<1>5. /\ DOMAIN new = DOMAIN c.new \cup {r} /\ new[r] = v
      /\ \A s \in DOMAIN c.new : s # r => new[s] = c.new[s]
  OBVIOUS
<1>6. Add(c, r, v) = [c EXCEPT !.pc = "next", !.hand = Empty, !.todo = c.todo \ {r}, !.new = new]
  BY DEF Add, CollType
<1> HIDE DEF new
<1> DEFINE todo == c.todo \ {r}
<1>7. todo \in SUBSET Listings /\ Empty \in Hands
  BY IdleFacts DEF CollType
<1>8. Add(c, r, v) = [c EXCEPT !.pc = "next", !.hand = Empty, !.todo = todo, !.new = new]
  BY <1>6
<1> HIDE DEF todo
<1>9. /\ Add(c, r, v) \in CollType /\ Add(c, r, v).pc = "next" /\ Add(c, r, v).hand = Empty
      /\ Add(c, r, v).todo = todo /\ Add(c, r, v).seen = c.seen /\ Add(c, r, v).new = new
  BY <1>4, <1>7, <1>8 DEF CollType
<1> QED BY <1>5, <1>9 DEF todo

LEMMA AddInv ==
    ASSUME Inv, coll.pc # "idle", UNCHANGED <<row, auto>>,
           orders' \in [Keys -> Nat], faults' \in 0..(MaxFaults + 1),
           NEW c \in CollType, c.todo = coll.todo, c.new = coll.new, c.seen = coll.seen,
           NEW r \in coll.todo, NEW v \in RowOK,
           v.state = "success" => v.by = "coll" /\ Key(r) \notin coll.seen,
           coll' = Add(c, r, v)
    PROVE  Inv'
<1>1. r \in Listings
  BY DEF Inv, Types, CollType
<1>2. /\ coll' \in CollType /\ coll'.pc = "next" /\ coll'.todo = coll.todo \ {r}
      /\ coll'.hand = Empty
      /\ coll'.seen = coll.seen /\ DOMAIN coll'.new = DOMAIN coll.new \cup {r}
      /\ coll'.new[r] = v /\ \A s \in DOMAIN coll.new : s # r => coll'.new[s] = coll.new[s]
  BY <1>1, AddFacts
<1>3. Found' = Found
  BY <1>2 DEF Found
<1>4. FoundOK'
  BY <1>2, <1>3, IdleFacts DEF Inv, FoundOK, There
<1>5. NewOK'
  BY <1>2 DEF Inv, NewOK
<1>6. SeenOK'
  <2>1. Wanted' \subseteq Wanted
    <3>1. v.state = "success" => r \in Wanted
      BY DEF Wanted
    <3> QED BY <1>2, <3>1 DEF Wanted
  <2> QED BY <1>2, <2>1 DEF Inv, SeenOK, Success, Apart
<1> QED BY <1>2, <1>4, <1>5, <1>6, CollSide

LEMMA CollNextInv == ASSUME Inv, NEW r \in Listings, CollNext(r) PROVE Inv'
<1> DEFINE accounts == AccountsOf[Task(r)] \ coll.off
           h == [Empty EXCEPT !.row = r, !.left = accounts]
<1>1. coll.pc = "next" /\ r \in coll.todo /\ UNCHANGED <<row, orders, auto, faults>>
  BY DEF CollNext
<1>2. coll \in CollType /\ orders' \in [Keys -> Nat] /\ faults' \in 0..(MaxFaults + 1)
  BY <1>1 DEF Inv, Types
<1>3. \A s \in {"duplicate", "no_account"} :
        [Unseen EXCEPT !.state = s] \in RowOK /\ [Unseen EXCEPT !.state = s].state = s
  BY IdleFacts DEF RowOK
<1>4. CASE coll' = Add(coll, r, [Unseen EXCEPT !.state = "duplicate"])
  BY <1>1, <1>2, <1>3, <1>4, AddInv
<1>5. CASE coll' = Add(coll, r, [Unseen EXCEPT !.state = "no_account"])
  BY <1>1, <1>2, <1>3, <1>5, AddInv
<1>6. CASE Key(r) \notin coll.seen /\ coll' = [coll EXCEPT !.pc = "place", !.hand = h]
  <2>1. accounts \subseteq Accounts
    BY ConstantFacts
  <2>2. h \in Hands /\ h.row = r /\ h.account = Nobody
    BY <2>1, IdleFacts DEF Hands
  <2> HIDE DEF h
  <2>3. /\ coll' \in CollType /\ coll'.pc = "place" /\ coll'.hand = h /\ coll'.todo = coll.todo
        /\ coll'.new = coll.new /\ coll'.seen = coll.seen
    BY <1>2, <1>6, <2>2 DEF CollType
  <2>4. FoundOK'
    BY <1>1, <1>6, <2>2, <2>3 DEF Inv, FoundOK, Found, There
  <2>5. NewOK' /\ SeenOK'
    BY <1>1, <2>3 DEF Inv, NewOK, SeenOK, Wanted, Success, Apart
  <2> QED BY <1>1, <1>2, <2>3, <2>4, <2>5, CollSide
<1> QED BY <1>4, <1>5, <1>6 DEF CollNext

\* What an attempt of the collector leaves: its row done with, or its hand.
CollTried ==
    \E r \in coll.todo, o \in Outcomes(coll.hand, coll.off), c \in CollType :
       /\ r = coll.hand.row /\ Place(coll.hand, o) /\ UNCHANGED <<row, auto>>
       /\ c.todo = coll.todo /\ c.new = coll.new /\ c.seen = coll.seen
       /\ c.pc = "place" /\ c.hand = o.hand
       /\ \/ \E v \in RowOK :
                /\ coll' = Add(c, r, v)
                /\ o.hand.account # Nobody => v.state = "success" /\ v.by = "coll"
                /\ o.hand.account = Nobody => v.state # "success"
          \/ coll' = c /\ o.hand.account = Nobody

\* And what an exception does.
CollFailed ==
    \E r \in coll.todo, v \in RowOK :
        /\ r = coll.hand.row /\ PlaceBreaks(coll.hand) /\ UNCHANGED <<row, auto>>
        /\ v.state = "failed" /\ coll' = Add(coll, r, v)

LEMMA CollPlaceFacts == ASSUME Inv, CollPlace PROVE CollTried \/ CollFailed
<1> DEFINE v == [Unseen EXCEPT !.attempts = 1]
           bought == [v EXCEPT !.state = "success", !.by = "coll"]
           failed == [v EXCEPT !.state = "failed"]
           none   == [Unseen EXCEPT !.state = "no_account"]
           c(o) == [coll EXCEPT !.hand = o.hand, !.off = o.off]
<1>1. coll.pc = "place" /\ UNCHANGED <<row, auto>>
  BY DEF CollPlace
<1>2. /\ coll \in CollType /\ coll.hand \in Hands /\ coll.hand.account = Nobody
      /\ coll.hand.row \in coll.todo /\ coll.off \in SUBSET Accounts
  BY <1>1 DEF Inv, Types, FoundOK, CollType
<1>3. /\ bought \in RowOK /\ bought.state = "success" /\ bought.by = "coll"
      /\ failed \in RowOK /\ failed.state = "failed"
      /\ none \in RowOK /\ none.state = "no_account"
  <2>1. v \in RowOK /\ none \in RowOK /\ none.state = "no_account"
    BY IdleFacts, ConstantFacts DEF RowOK
  <2> HIDE DEF v
  <2>2. /\ bought \in RowOK /\ bought.state = "success" /\ bought.by = "coll"
        /\ failed \in RowOK /\ failed.state = "failed"
    BY <2>1 DEF RowOK
  <2> QED BY <2>1, <2>2
<1>4. CASE PlaceBreaks(coll.hand) /\ coll' = Add(coll, coll.hand.row, failed)
  <2> HIDE DEF failed
  <2> QED BY <1>1, <1>2, <1>3, <1>4 DEF CollFailed
<1>5. ASSUME NEW o \in Outcomes(coll.hand, coll.off), Place(coll.hand, o),
             coll' = IF o.hand.account # Nobody THEN Add(c(o), o.hand.row, bought)
                     ELSE IF o.hand.left # {} THEN c(o)
                     ELSE IF o.hand.failed THEN Add(c(o), o.hand.row, failed)
                     ELSE Add(c(o), o.hand.row, none)
      PROVE  CollTried
  <2>1. o.hand \in Hands /\ o.hand.row = coll.hand.row /\ o.off \in SUBSET Accounts
    BY <1>2, OutcomeFacts
  <2>2. PICK d : d = c(o)
    OBVIOUS
  <2>3. /\ d \in CollType /\ d.todo = coll.todo /\ d.new = coll.new /\ d.seen = coll.seen
        /\ d.pc = "place" /\ d.hand = o.hand
    BY <1>1, <1>2, <2>1, <2>2 DEF CollType
  <2> HIDE DEF c, bought, failed, none
  <2>4. \/ o.hand.account # Nobody /\ coll' = Add(d, coll.hand.row, bought)
        \/ o.hand.account = Nobody /\ coll' = d
        \/ o.hand.account = Nobody /\ coll' = Add(d, coll.hand.row, failed)
        \/ o.hand.account = Nobody /\ coll' = Add(d, coll.hand.row, none)
    BY <1>5, <2>1, <2>2
  <2> QED BY <1>1, <1>2, <1>3, <1>5, <2>3, <2>4 DEF CollTried
<1>6. \/ PlaceBreaks(coll.hand) /\ coll' = Add(coll, coll.hand.row, failed)
      \/ \E o \in Outcomes(coll.hand, coll.off) :
            /\ Place(coll.hand, o)
            /\ coll' = IF o.hand.account # Nobody THEN Add(c(o), o.hand.row, bought)
                       ELSE IF o.hand.left # {} THEN c(o)
                       ELSE IF o.hand.failed THEN Add(c(o), o.hand.row, failed)
                       ELSE Add(c(o), o.hand.row, none)
  BY DEF CollPlace
<1> HIDE DEF c, bought, failed, none
<1> QED BY <1>4, <1>5, <1>6

\* It does not make the row wanted again.
LEMMA CollFailedInv == ASSUME Inv, coll.pc = "place", CollFailed PROVE Inv'
<1>1. PICK r \in coll.todo, v \in RowOK :
        /\ r = coll.hand.row /\ PlaceBreaks(coll.hand) /\ UNCHANGED <<row, auto>>
        /\ v.state = "failed" /\ coll' = Add(coll, r, v)
  BY DEF CollFailed
<1>2. coll \in CollType /\ coll.hand \in Hands /\ coll.hand.row \in Listings
  BY <1>1 DEF Inv, Types, CollType
<1>3. orders' \in [Keys -> Nat] /\ faults' \in 0..(MaxFaults + 1)
  BY <1>1, <1>2, PlaceBreaksFacts
<1> QED BY <1>1, <1>2, <1>3, AddInv

LEMMA CollTriedInv == ASSUME Inv, coll.pc = "place", CollTried PROVE Inv'
<1>1. PICK r \in coll.todo, o \in Outcomes(coll.hand, coll.off), c \in CollType :
          /\ r = coll.hand.row /\ Place(coll.hand, o) /\ UNCHANGED <<row, auto>>
          /\ c.todo = coll.todo /\ c.new = coll.new /\ c.seen = coll.seen
          /\ c.pc = "place" /\ c.hand = o.hand
          /\ \/ \E v \in RowOK :
                   /\ coll' = Add(c, r, v)
                   /\ o.hand.account # Nobody => v.state = "success" /\ v.by = "coll"
                   /\ o.hand.account = Nobody => v.state # "success"
             \/ coll' = c /\ o.hand.account = Nobody
  BY DEF CollTried
<1>2. coll.pc = "place"
  OBVIOUS
<1>3. /\ coll.hand \in Hands /\ coll.hand.account = Nobody /\ coll.hand.row \in Listings
      /\ coll.off \in SUBSET Accounts /\ Key(r) \notin coll.seen
  BY <1>1, <1>2 DEF Inv, Types, FoundOK, CollType
<1>4. orders' \in [Keys -> Nat] /\ faults' \in 0..(MaxFaults + 1)
  BY <1>1, <1>3, PlaceFacts
<1>5. CASE coll' = c /\ o.hand.account = Nobody
  <2>0. o.hand.row = r
    BY <1>1, <1>3, OutcomeFacts
  <2>1. FoundOK'
    BY <1>1, <1>2, <1>3, <1>5, <2>0 DEF Inv, FoundOK, Found, There
  <2>2. NewOK' /\ SeenOK'
    BY <1>1, <1>2, <1>5 DEF Inv, NewOK, SeenOK, Wanted, Success, Apart
  <2> QED BY <1>1, <1>4, <1>5, <2>1, <2>2, CollSide
<1>6. CASE \E v \in RowOK : /\ coll' = Add(c, r, v)
                            /\ o.hand.account # Nobody => v.state = "success" /\ v.by = "coll"
                            /\ o.hand.account = Nobody => v.state # "success"
  <2>1. PICK v \in RowOK : /\ coll' = Add(c, r, v)
                           /\ o.hand.account # Nobody => v.state = "success" /\ v.by = "coll"
                           /\ o.hand.account = Nobody => v.state # "success"
    BY <1>6
  <2>2. v.state = "success" => v.by = "coll" /\ Key(r) \notin coll.seen
    BY <1>3, <2>1
  <2> QED BY <1>1, <1>2, <1>4, <2>1, <2>2, AddInv
<1> QED BY <1>1, <1>5, <1>6

LEMMA CollPlaceInv == ASSUME Inv, CollPlace PROVE Inv'
<1>1. coll.pc = "place"
  BY DEF CollPlace
<1> QED BY <1>1, CollPlaceFacts, CollTriedInv, CollFailedInv

\* What a commit writes.
LEMMA CommitFacts ==
    ASSUME Inv, CollCommit
    PROVE  /\ DOMAIN coll.new \subseteq Listings
           /\ \A r \in Listings : r \notin DOMAIN coll.new => row'[r] = row[r]
           /\ \A r \in DOMAIN coll.new :
                /\ row'[r] \in RowOK /\ row'[r].state = coll.new[r].state
                /\ row'[r].by = coll.new[r].by
                /\ row'[r].over = (r \in Wanted /\ AutoHas(Key(r)))
<1>1. row' = [r \in Listings |->
                 IF r \in DOMAIN coll.new
                 THEN [coll.new[r] EXCEPT !.over = r \in Wanted /\ AutoHas(Key(r))]
                 ELSE row[r]]
  BY DEF CollCommit
<1>2. PICK rows \in SUBSET Listings : coll.new \in [rows -> RowOK]
  BY DEF Inv, Types, CollType, News
<1>3. ASSUME NEW r \in rows
      PROVE  /\ row'[r] \in RowOK /\ row'[r].state = coll.new[r].state
             /\ row'[r].by = coll.new[r].by
             /\ row'[r].over = (r \in Wanted /\ AutoHas(Key(r)))
  <2>1. PICK b \in BOOLEAN : b = (r \in Wanted /\ AutoHas(Key(r)))
    BY DEF AutoHas
  <2>2. row'[r] = [coll.new[r] EXCEPT !.over = b] /\ coll.new[r] \in RowOK
    BY <1>1, <1>2, <2>1
  <2>3. /\ row'[r] \in RowOK /\ row'[r].state = coll.new[r].state
        /\ row'[r].by = coll.new[r].by /\ row'[r].over = b
    BY ONLY <2>2, b \in BOOLEAN DEF RowOK
  <2> QED BY <2>1, <2>3
<1> QED BY <1>1, <1>2, <1>3

LEMMA CollCommitInv == ASSUME Inv, CollCommit PROVE Inv'
<1>1. coll.pc = "next" /\ coll' = IdleColl /\ UNCHANGED <<orders, auto, faults>>
  BY DEF CollCommit
<1>2. PICK rows \in SUBSET Listings : rows = DOMAIN coll.new
  BY CommitFacts
<1>3. \A r \in rows :
        /\ row'[r] \in RowOK /\ ~There(r) /\ \A s \in rows : Task(r) = Task(s)
        /\ row'[r].state = "success" =>
              /\ r \in Wanted /\ row'[r].by = "coll" /\ Key(r) \notin coll.seen
              /\ AutoHas(Key(r)) => row'[r].over
  <2>1. \A r \in rows : row'[r].state = "success" => r \in Wanted
    BY <1>2, CommitFacts DEF Wanted
  <2> QED BY <1>2, <2>1, CommitFacts DEF Inv, FoundOK, Found, NewOK
<1>4. \A r \in Listings : r \notin rows => row'[r] = row[r]
  BY <1>2, CommitFacts
<1>5. row' \in [Listings -> RowOK]
  <2>1. row \in [Listings -> RowOK]
    BY DEF Inv, Types
  <2>2. \A r \in Listings : row'[r] \in RowOK
    BY <1>3, <1>4, <2>1
  <2>3. DOMAIN row' = Listings /\ row' = [r \in Listings |-> row'[r]]
    BY DEF CollCommit
  <2> QED BY <2>2, <2>3
<1>6. Types'
  BY <1>1, <1>5, IdleFacts DEF Inv, Types
<1>7. \A r \in Listings : There(r) => row'[r] = row[r]
  BY <1>3, <1>4
<1>8. TodoOK' /\ HandKept'
  BY <1>1, <1>3, <1>4, <1>7, AutoAlone
<1>9. FoundOK' /\ NewOK' /\ SeenOK'
  BY <1>1, IdleFacts DEF FoundOK, Found, NewOK, SeenOK, Wanted
<1>10. BuyersOK'
  BY <1>3, <1>4 DEF Inv, BuyersOK
<1>11. ASSUME NEW a \in rows, NEW b \in Listings \ rows, Key(a) = Key(b),
              row'[a].state = "success", row'[b].state = "success"
       PROVE  row'[a].by = "coll" /\ row'[b].by = "auto" /\ row'[b].over
  <2>1. a \in Wanted /\ Key(a) \notin coll.seen /\ row'[a].by = "coll" /\ row'[b] = row[b]
    BY <1>3, <1>4, <1>11
  <2>2. Apart(b, "auto")
    BY <1>11, <2>1 DEF Inv, SeenOK, Success
  <2> QED BY <2>1, <2>2 DEF Apart
<1>12. OrderedOnce'
  <2> SUFFICES ASSUME NEW a \in Listings, NEW b \in Listings, Key(a) = Key(b), a # b,
                      row'[a].state = "success", row'[b].state = "success"
               PROVE  row'[a].by # row'[b].by /\ (row'[a].over \/ row'[b].over)
    BY DEF OrderedOnce, Success
  <2>1. CASE a \in rows /\ b \in rows
    BY <1>3, <2>1, OneRow
  <2>2. CASE a \in rows /\ b \notin rows
    BY <1>11, <2>2
  <2>3. CASE a \notin rows /\ b \in rows
    BY <1>11, <2>3
  <2>4. CASE a \notin rows /\ b \notin rows
    <3>1. row'[a] = row[a] /\ row'[b] = row[b] /\ Key(a) \in Keys
      BY <1>4, <2>4, ConstantFacts
    <3> QED BY <3>1 DEF Inv, OrderedOnce, Success
  <2> QED BY <2>1, <2>2, <2>3, <2>4
<1> QED BY <1>6, <1>8, <1>9, <1>10, <1>12 DEF Inv

-----------------------------------------------------------------------------
\* Faults.

\* Either side starts over, or stays; the round may have placed an order.
Idle == auto \in AutoType /\ auto.pc = "idle" /\ auto.todo = <<>> /\ auto.hand = Empty
LEMMA FaultInv ==
    ASSUME Inv, UNCHANGED row, orders' \in [Keys -> Nat], faults' \in 0..(MaxFaults + 1),
           auto' = auto \/ Idle',
           coll' = coll \/ coll' = IdleColl
    PROVE  Inv'
<1>2. auto' \in AutoType /\ TodoOK' /\ HandKept'
  <2>1. CASE auto' = auto
    BY <2>1, AutoAlone DEF Inv, Types
  <2>2. CASE Idle'
    BY <2>2, IdleFacts DEF Idle, TodoOK, HandKept
  <2> QED BY <2>1, <2>2
<1>3. coll' \in CollType /\ FoundOK' /\ NewOK' /\ SeenOK'
  <2>1. CASE coll' = coll
    BY <2>1, CollAlone DEF Inv, Types, There
  <2>2. CASE coll' = IdleColl
    BY <2>2, IdleFacts DEF FoundOK, Found, NewOK, SeenOK, Wanted
  <2> QED BY <2>1, <2>2
<1>4. BuyersOK' /\ OrderedOnce'
  BY NothingBought
<1> QED BY <1>2, <1>3, <1>4 DEF Inv, Types

LEMMA FaultsInv == ASSUME Inv, AutoBreaks \/ CollBreaks \/ Crash PROVE Inv'
<1>1. /\ auto \in AutoType /\ auto.turn \in 0..(Turns - 1)
      /\ orders \in [Keys -> Nat] /\ faults \in 0..(MaxFaults + 1)
  BY DEF Inv, Types, AutoType
<1>2. CASE AutoBreaks
  <2>1. UNCHANGED <<row, coll>> /\ auto' = [IdleAuto EXCEPT !.turn = auto.turn]
    BY <1>2 DEF AutoBreaks
  <2>2. auto' \in AutoType
    BY <1>1, <2>1, IdleFacts DEF AutoType
  <2>3. auto'.pc = "idle" /\ auto'.todo = <<>> /\ auto'.hand = Empty
    BY <2>1, IdleFacts DEF IdleAuto
  <2>4. orders' \in [Keys -> Nat] /\ faults' \in 0..(MaxFaults + 1)
    <3>1. CASE Fault /\ UNCHANGED orders
      BY <1>1, <3>1, ConstantFacts DEF Fault
    <3>2. CASE auto.pc = "place" /\ PlaceBreaks(auto.hand)
      <4>1. auto.hand \in Hands /\ auto.hand.row \in Listings
        BY <1>1, <3>2, HeadFacts DEF AutoType, Inv, HandKept
      <4> QED BY <3>2, <4>1, PlaceBreaksFacts
    <3> QED BY <1>2, <3>1, <3>2 DEF AutoBreaks
  <2> QED BY <2>1, <2>2, <2>3, <2>4, FaultInv DEF Idle
<1>3. CASE CollBreaks
  <2>1. Fault /\ UNCHANGED <<row, orders, auto>> /\ coll' = IdleColl
    BY <1>3 DEF CollBreaks
  <2>2. faults' \in 0..(MaxFaults + 1)
    BY <1>1, <2>1, ConstantFacts DEF Fault
  <2> QED BY <1>1, <2>1, <2>2, FaultInv
<1>4. CASE Crash
  <2>1. UNCHANGED <<row, orders>> /\ coll' = IdleColl /\ auto' = IdleAuto
    BY <1>4 DEF Crash
  <2>2. faults' \in 0..(MaxFaults + 1)
    BY <1>1, <1>4, ConstantFacts DEF Crash
  <2> QED BY <1>1, <2>1, <2>2, IdleFacts, FaultInv DEF Idle
<1> QED BY <1>2, <1>3, <1>4

LEMMA InvStep == Inv /\ [Next]_vars => Inv'
<1> SUFFICES ASSUME Inv, [Next]_vars PROVE Inv'
  OBVIOUS
<1>1. CASE Round
  BY <1>1, AutoStartInv, AutoNextInv, AutoPlaceInv, AutoRecordInv DEF Round
<1>2. ASSUME NEW t \in Tasks, CollStart(t) PROVE Inv'
  BY <1>2, CollStartInv
<1>3. ASSUME NEW r \in Listings, CollNext(r) PROVE Inv'
  BY <1>3, CollNextInv
<1>4. CASE CollPlace
  BY <1>4, CollPlaceInv
<1>5. CASE CollCommit
  BY <1>5, CollCommitInv
<1>6. CASE AutoBreaks \/ CollBreaks \/ Crash
  BY <1>6, FaultsInv
<1>7. CASE UNCHANGED vars
  <2>1. UNCHANGED <<row, orders, auto, coll, faults>>
    BY <1>7 DEF vars
  <2>2. TodoOK' /\ HandKept'
    BY <2>1, AutoAlone
  <2>3. FoundOK' /\ NewOK' /\ SeenOK'
    BY <2>1, CollAlone DEF There
  <2>4. BuyersOK' /\ OrderedOnce' /\ Types'
    BY <2>1, NothingBought DEF Inv, Types
  <2> QED BY <2>2, <2>3, <2>4 DEF Inv
<1> QED BY <1>1, <1>2, <1>3, <1>4, <1>5, <1>6, <1>7 DEF Next

LEMMA InvAlways == Spec => []Inv
BY InitInv, InvStep, PTL DEF Spec

-----------------------------------------------------------------------------
\* Types of the columns and of the rounds' variables; an attempt more than
\* MAX_ORDER_ATTEMPTS or a batch over order_batch_size there never is.
THEOREM LimitsHold == Spec => []TypeOK
<1>1. Inv => TypeOK
  <2> SUFFICES ASSUME Inv PROVE TypeOK
    OBVIOUS
  <2>1. /\ row \in [Listings -> RowOK] /\ orders \in [Keys -> Nat] /\ faults \in 0..(MaxFaults + 1)
        /\ auto \in AutoType /\ coll \in CollType
    BY DEF Inv, Types
  <2>2. \A h \in Hands : HandOK(h)
    BY DEF Hands, HandOK
  <2>3. /\ auto.pc \in {"idle", "next", "place", "record"} /\ auto.turn \in 0..(Turns - 1)
        /\ auto.todo \in Seq(Listings) /\ HandOK(auto.hand) /\ auto.off \subseteq Accounts
        /\ auto.keys \subseteq Keys /\ auto.done \in [Tasks -> 0..Batch]
    BY <2>1, <2>2 DEF AutoType
  <2>4. /\ coll.pc \in {"idle", "next", "place"} /\ coll.todo \subseteq Listings
        /\ HandOK(coll.hand) /\ coll.off \subseteq Accounts /\ coll.seen \subseteq Keys
    BY <2>1, <2>2 DEF CollType
  <2>5. DOMAIN coll.new \subseteq Listings
    BY <2>1 DEF CollType, News
  <2> QED BY <2>1, <2>3, <2>4, <2>5 DEF TypeOK
<1> QED BY <1>1, InvAlways, PTL

\* Two tasks of an owner that find one item do not both order it, however the round
\* and the collector interleave, but for one order by each of the two.
THEOREM BoughtOnce == Spec => []OrderedOnce
<1>1. Inv => OrderedOnce
  BY DEF Inv
<1> QED BY <1>1, InvAlways, PTL

-----------------------------------------------------------------------------
\* Orders on record.

Held(k) == {r \in Listings : Key(r) = k /\ auto.hand.row = r /\ auto.hand.account # Nobody}
Kept(k) == {r \in DOMAIN coll.new : Key(r) = k /\ coll.new[r].state = "success"}
Known(k) == Success(k) \cup Held(k) \cup Kept(k)
Told(k)  == Cardinality(Success(k)) + Cardinality(InHand(k))

\* The rows that tell of an order of an item, written and not, are different rows, and
\* either side has one of them at most.
LEMMA KnownFacts ==
    ASSUME Inv, NEW k
    PROVE  /\ Told(k) = Cardinality(Known(k))
           /\ Known(k) \subseteq Listings /\ Held(k) \subseteq {auto.hand.row}
           /\ \E s : Kept(k) \subseteq {s}
<1>1. DOMAIN coll.new \subseteq Listings
  BY DEF Inv, Types, CollType, News
<1>2. Success(k) \subseteq Listings /\ Held(k) \subseteq Listings /\ Kept(k) \subseteq Listings
  BY <1>1 DEF Success, Held, Kept
<1>3. InHand(k) = Held(k) \cup Kept(k)
  BY DEF InHand, Held, Kept
<1>4. Success(k) \cap Held(k) = {}
  <2> SUFFICES ASSUME NEW r \in Held(k), row[r].state = "success" PROVE FALSE
    BY DEF Success
  <2>1. auto.hand.row = r /\ auto.pc = "record"
    BY DEF Held, Inv, HandKept
  <2>2. Pending(r)
    BY <2>1, HeadFacts DEF Inv, HandKept
  <2> QED BY <2>2 DEF Pending, Ordered
<1>5. Success(k) \cap Kept(k) = {}
  <2> SUFFICES ASSUME NEW r \in Kept(k), row[r].state = "success" PROVE FALSE
    BY DEF Success
  <2>1. ~There(r)
    BY DEF Kept, Inv, FoundOK, Found
  <2> QED BY <2>1 DEF There
<1> DEFINE S == Success(k)
           I == InHand(k)
<1>6. S \cap I = {} /\ Known(k) = S \cup I /\ I \subseteq Listings /\ S \subseteq Listings
  BY <1>2, <1>3, <1>4, <1>5 DEF Known
<1> HIDE DEF S, I
<1>7. IsFiniteSet(S) /\ IsFiniteSet(I)
  BY <1>6, ConstantFacts, FS_Subset
<1>8. /\ Cardinality(S) \in Nat /\ Cardinality(I) \in Nat
      /\ Cardinality(S \cup I) = Cardinality(S) + Cardinality(I) - Cardinality(S \cap I)
  BY <1>7, FS_CardinalityType, FS_Union
<1>9. Cardinality(S) + Cardinality(I) = Cardinality(Known(k))
  <2>1. Cardinality(S \cap I) = 0
    BY <1>6, FS_EmptySet
  <2> QED BY <1>6, <1>8, <2>1
<1>10. Held(k) \subseteq {auto.hand.row}
  BY DEF Held
<1>11. \E s : Kept(k) \subseteq {s}
  <2>1. \A r, s \in Kept(k) : r = s
    BY <1>1, OneRow DEF Kept, Inv, FoundOK, Found
  <2>2. CASE Kept(k) = {}
    BY <2>2
  <2>3. CASE Kept(k) # {}
    <3>1. PICK s : s \in Kept(k)
      BY <2>3
    <3>2. Kept(k) \subseteq {s}
      BY <2>1, <3>1
    <3> QED BY <3>2
  <2> QED BY <2>2, <2>3
<1> QED BY <1>2, <1>6, <1>9, <1>10, <1>11 DEF Known, Told, S, I

KnownOK(k) == Told(k) = Cardinality(Known(k)) /\ Known(k) \subseteq Listings

LEMMA KnownNext ==
    ASSUME NEW k
    PROVE  Inv' => KnownOK(k)'
<1>1. Inv => KnownOK(k)
  BY KnownFacts DEF KnownOK
<1> QED BY <1>1, PTL

\* What a step has to do: for each order one more row, or a fault; for each lost row
\* a fault.
LEMMA RecordStep ==
    ASSUME Inv, Inv', OnRecord, NEW k \in Keys,
           \/ orders'[k] = orders[k] /\ faults' >= faults /\ Known(k) \subseteq Known(k)'
           \/ /\ orders'[k] <= orders[k] + 1 /\ faults' >= faults
              /\ \E r : r \notin Known(k) /\ Known(k) \cup {r} \subseteq Known(k)'
           \/ orders'[k] <= orders[k] + 1 /\ faults' = faults + 1 /\ Known(k) \subseteq Known(k)'
           \/ /\ orders'[k] = orders[k] /\ faults' = faults + 1
              /\ \E r : Known(k) \subseteq Known(k)' \cup {r}
           \/ /\ orders'[k] = orders[k] /\ faults' = faults + 2
              /\ \E r, s : Known(k) \subseteq Known(k)' \cup {r, s}
    PROVE  orders'[k] <= Told(k)' + faults'
<1>1. Told(k) = Cardinality(Known(k)) /\ Known(k) \in SUBSET Listings
  BY KnownFacts
<1>2. Told(k)' = Cardinality(Known(k)') /\ Known(k)' \in SUBSET Listings
  BY KnownNext DEF KnownOK
<1>3. PICK old \in SUBSET Listings : old = Known(k)
  BY <1>1
<1>4. PICK new \in SUBSET Listings : new = Known(k)'
  BY <1>2
<1>5. /\ orders[k] <= Cardinality(old) + faults
      /\ orders[k] \in Nat /\ orders'[k] \in Nat /\ faults \in Nat /\ faults' \in Nat
  BY <1>1, <1>3, ConstantFacts DEF OnRecord, Told, Inv, Types
<1>6. IsFiniteSet(old) /\ IsFiniteSet(new)
  BY ConstantFacts, FS_Subset
<1>7. Cardinality(old) \in Nat /\ Cardinality(new) \in Nat
  BY <1>6, FS_CardinalityType
<1>8. SUFFICES orders'[k] <= Cardinality(new) + faults'
  BY <1>2, <1>4
<1>9. old \subseteq new => Cardinality(old) <= Cardinality(new)
  BY <1>6, FS_Subset
<1>10. CASE orders'[k] = orders[k] /\ faults' >= faults /\ old \subseteq new
  BY <1>5, <1>7, <1>9, <1>10
<1>11. CASE /\ orders'[k] <= orders[k] + 1 /\ faults' >= faults
            /\ \E r : r \notin old /\ old \cup {r} \subseteq new
  <2>1. PICK r : r \notin old /\ old \cup {r} \subseteq new
    BY <1>11
  <2>2. Cardinality(old \cup {r}) = Cardinality(old) + 1
    BY <1>6, <2>1, FS_AddElement
  <2>3. Cardinality(old \cup {r}) <= Cardinality(new)
    BY <1>6, <2>1, FS_Subset
  <2> QED BY <1>5, <1>7, <1>11, <2>2, <2>3
<1>12. CASE orders'[k] <= orders[k] + 1 /\ faults' = faults + 1 /\ old \subseteq new
  BY <1>5, <1>7, <1>9, <1>12
<1>13. ASSUME NEW r PROVE
          /\ IsFiniteSet(new \cup {r}) /\ Cardinality(new \cup {r}) \in Nat
          /\ Cardinality(new \cup {r}) <= Cardinality(new) + 1
  <2>1. /\ IsFiniteSet(new \cup {r})
        /\ Cardinality(new \cup {r}) =
              IF r \in new THEN Cardinality(new) ELSE Cardinality(new) + 1
    BY <1>6, FS_AddElement
  <2> QED BY <1>7, <2>1
<1>14. CASE /\ orders'[k] = orders[k] /\ faults' = faults + 1
            /\ \E r : old \subseteq new \cup {r}
  <2>1. PICK r : old \subseteq new \cup {r}
    BY <1>14
  <2>2. Cardinality(old) <= Cardinality(new \cup {r})
    BY <1>13, <2>1, FS_Subset
  <2> QED BY <1>5, <1>7, <1>13, <1>14, <2>2
<1>15. CASE /\ orders'[k] = orders[k] /\ faults' = faults + 2
            /\ \E r, s : old \subseteq new \cup {r, s}
  <2>1. PICK r, s : old \subseteq new \cup {r, s}
    BY <1>15
  <2> DEFINE one == new \cup {r}
             two == one \cup {s}
  <2>2. IsFiniteSet(one) /\ Cardinality(one) <= Cardinality(new) + 1 /\ Cardinality(one) \in Nat
    BY <1>13
  <2> HIDE DEF one
  <2>3. IsFiniteSet(two) /\ Cardinality(two) <= Cardinality(one) + 1
    BY <2>2, FS_AddElement
  <2> HIDE DEF two
  <2>4. Cardinality(two) \in Nat /\ old \subseteq two
    BY <2>1, <2>3, FS_CardinalityType DEF one, two
  <2>5. Cardinality(old) <= Cardinality(two)
    BY <2>3, <2>4, FS_Subset
  <2> QED BY <1>5, <1>7, <1>15, <2>2, <2>3, <2>4, <2>5
<1> QED BY <1>3, <1>4, <1>10, <1>11, <1>12, <1>14, <1>15

\* What is asked of each step.
StepOK(k) ==
    \/ orders'[k] = orders[k] /\ faults' >= faults /\ Known(k) \subseteq Known(k)'
    \/ /\ orders'[k] <= orders[k] + 1 /\ faults' >= faults
       /\ \E r : r \notin Known(k) /\ Known(k) \cup {r} \subseteq Known(k)'
    \/ orders'[k] <= orders[k] + 1 /\ faults' = faults + 1 /\ Known(k) \subseteq Known(k)'
    \/ /\ orders'[k] = orders[k] /\ faults' = faults + 1
       /\ \E r : Known(k) \subseteq Known(k)' \cup {r}
    \/ /\ orders'[k] = orders[k] /\ faults' = faults + 2
       /\ \E r, s : Known(k) \subseteq Known(k)' \cup {r, s}

\* The parts of it.
LEMMA KnownGrows ==
    ASSUME NEW k, Success(k) \subseteq Success(k)', Held(k) \subseteq Held(k)',
           Kept(k) \subseteq Kept(k)'
    PROVE  Known(k) \subseteq Known(k)'
BY DEF Known

LEMMA NobodyHeld == ASSUME Inv, auto.pc # "record", NEW k PROVE Held(k) = {}
BY DEF Held, Inv, HandKept

LEMMA SuccessStays ==
    ASSUME NEW k, \A r \in Listings : row[r].state = "success" => row'[r].state = "success"
    PROVE  Success(k) \subseteq Success(k)'
BY DEF Success

\* Steps of the round that place no order.
LEMMA RoundStepOK ==
    ASSUME Inv, AutoStart \/ AutoNext, NEW k \in Keys PROVE StepOK(k)
<1>1. auto.pc # "record" /\ UNCHANGED <<orders, coll>>
  BY DEF AutoStart, AutoNext
<1>2. Held(k) = {}
  BY <1>1, NobodyHeld
<1>3. Kept(k)' = Kept(k)
  BY <1>1 DEF Kept
<1>4. faults \in 0..(MaxFaults + 1)
  BY DEF Inv, Types
<1>5. (\A r \in Listings : row[r].state = "success" => row'[r].state = "success")
      /\ faults' >= faults
  <2>1. CASE UNCHANGED <<row, faults>>
    BY <1>4, <2>1, ConstantFacts
  <2>2. CASE AutoNext /\ ~ UNCHANGED <<row, faults>>
    <3>1. auto.pc # "idle"
      BY <2>2 DEF AutoNext
    <3>2. PICK r \in Listings : r = Head(auto.todo) /\ Pending(r)
      BY <3>1, HeadFacts
    <3>3. PICK s \in {"duplicate", "no_account"} : Update(r, [row[r] EXCEPT !.state = s])
      BY <2>2, <3>2 DEF AutoNext
    <3>4. row \in [Listings -> RowOK] /\ row[r].state # "success"
      BY <3>2 DEF Inv, Types, Pending, Ordered
    <3> QED BY <1>4, <3>3, <3>4, ConstantFacts DEF Update, Fault
  <2>3. AutoStart => UNCHANGED <<row, faults>>
    BY DEF AutoStart
  <2> QED BY <2>1, <2>2, <2>3
<1>6. Success(k) \subseteq Success(k)'
  BY <1>5, SuccessStays
<1>7. Known(k) \subseteq Known(k)'
  BY <1>2, <1>3, <1>6, KnownGrows
<1> QED BY <1>1, <1>5, <1>7 DEF StepOK

LEMMA AutoPlaceStepOK == ASSUME Inv, AutoPlace, NEW k \in Keys PROVE StepOK(k)
<1>1. auto.pc = "place" /\ UNCHANGED <<row, coll>>
  BY DEF AutoPlace
<1>2. PICK o \in Outcomes(auto.hand, auto.off) :
        /\ Place(auto.hand, o)
        /\ o.hand.account # Nobody => auto'.hand = o.hand
  <2>1. auto \in AutoType
    BY DEF Inv, Types
  <2> QED BY <2>1 DEF AutoPlace, AutoType
<1>3. /\ auto.hand \in Hands /\ auto.hand.account = Nobody /\ auto.off \in SUBSET Accounts
      /\ auto.hand.row = Head(auto.todo)
  BY <1>1 DEF Inv, HandKept, Types, AutoType
<1>4. PICK r \in Listings : r = auto.hand.row /\ Pending(r)
  BY <1>1, <1>3, HeadFacts
<1>5. /\ o.hand.row = r /\ o.placed \in {0, 1} /\ o.faults \in {0, 1}
      /\ o.hand.account # Nobody => o.placed = 1 /\ o.faults = 0
      /\ o.hand.account = Nobody => o.placed <= o.faults
  BY <1>2, <1>3, <1>4, OutcomeFacts
<1>6. /\ faults' = faults + o.faults
      /\ orders'[Key(r)] = orders[Key(r)] + o.placed
      /\ k # Key(r) => orders'[k] = orders[k]
  BY <1>2, <1>3, <1>4, PlaceFacts
<1>7. orders \in [Keys -> Nat] /\ faults \in 0..(MaxFaults + 1) /\ Key(r) \in Keys
  BY ConstantFacts DEF Inv, Types
<1>8. orders[k] \in Nat /\ orders[Key(r)] \in Nat /\ faults \in Nat /\ faults' >= faults
  BY <1>5, <1>6, <1>7, ConstantFacts
<1>9. /\ Held(k) = {} /\ Kept(k)' = Kept(k) /\ Success(k)' = Success(k)
  BY <1>1, NobodyHeld DEF Kept, Success
<1>10. Known(k) \subseteq Known(k)'
  BY <1>9, KnownGrows
<1>11. CASE k # Key(r)
  BY <1>6, <1>8, <1>10, <1>11 DEF StepOK
<1>12. CASE k = Key(r) /\ o.hand.account # Nobody
  <2>1. r \in Held(k)'
    BY <1>2, <1>4, <1>5, <1>12 DEF Held
  <2>2. r \notin Success(k)
    BY <1>4 DEF Success, Pending, Ordered
  <2>3. r \notin Kept(k)
    BY <1>4 DEF Kept, Pending, Inv, FoundOK, Found
  <2>4. r \notin Known(k) /\ Known(k) \cup {r} \subseteq Known(k)'
    BY <1>9, <1>10, <2>1, <2>2, <2>3 DEF Known
  <2> QED BY <1>5, <1>6, <1>8, <1>12, <2>4 DEF StepOK
<1>13. CASE k = Key(r) /\ o.hand.account = Nobody
  <2>1. CASE o.faults = 0
    BY <1>5, <1>6, <1>8, <1>10, <1>13, <2>1 DEF StepOK
  <2>2. CASE o.faults = 1
    BY <1>5, <1>6, <1>8, <1>10, <1>13, <2>2 DEF StepOK
  <2> QED BY <1>5, <2>1, <2>2
<1> QED BY <1>11, <1>12, <1>13

LEMMA AutoRecordStepOK == ASSUME Inv, AutoRecord, NEW k \in Keys PROVE StepOK(k)
<1> DEFINE h == auto.hand
           v == [row[h.row] EXCEPT !.attempts = @ + 1, !.state = "failed"]
           w == [v EXCEPT !.state = "success", !.by = "auto", !.over = CollHas(Key(h.row))]
<1>1. auto.pc = "record" /\ UNCHANGED <<orders, coll>>
  BY DEF AutoRecord
<1>2. PICK r \in Listings : r = h.row /\ Pending(r)
  BY <1>1, HeadFacts DEF Inv, HandKept
<1>3. row \in [Listings -> RowOK] /\ row[r] \in RowOK /\ row[r].state # "success"
      /\ faults \in 0..(MaxFaults + 1)
  BY <1>2 DEF Inv, Types, Pending, Ordered
<1>4. PICK x : /\ Update(r, x)
               /\ h.account # Nobody => x.state = "success"
  <2>1. CASE h.account = Nobody
    BY <1>2, <2>1 DEF AutoRecord
  <2>2. CASE h.account # Nobody
    <3>1. Update(r, w)
      BY <1>2, <2>2 DEF AutoRecord
    <3>2. w.state = "success"
      BY <1>2, <1>3 DEF RowOK
    <3> HIDE DEF w
    <3> QED BY <3>1, <3>2
  <2> QED BY <2>1, <2>2
<1>5. \/ row' = [row EXCEPT ![r] = x] /\ faults' = faults
      \/ row' = row /\ faults' = faults + 1
  BY <1>4 DEF Update, Fault
<1>6. Kept(k)' = Kept(k)
  BY <1>1 DEF Kept
<1>7. Success(k) \subseteq Success(k)'
  BY <1>3, <1>5, SuccessStays
<1>8. Held(k) \subseteq {r}
  BY <1>2 DEF Held
<1>9. CASE row' = [row EXCEPT ![r] = x] /\ faults' = faults
  <2>1. Held(k) \subseteq Success(k)'
    BY <1>2, <1>3, <1>4, <1>9 DEF Held, Success
  <2>2. Known(k) \subseteq Known(k)'
    BY <1>6, <1>7, <2>1 DEF Known
  <2> QED BY <1>1, <1>3, <1>9, <2>2, ConstantFacts DEF StepOK
<1>10. CASE row' = row /\ faults' = faults + 1
  <2>1. Known(k) \subseteq Known(k)' \cup {r}
    BY <1>6, <1>7, <1>8 DEF Known
  <2> QED BY <1>1, <1>10, <2>1 DEF StepOK
<1> QED BY <1>5, <1>9, <1>10

\* Steps of the collector.
LEMMA CollStepOK ==
    ASSUME Inv, (\E t \in Tasks : CollStart(t)) \/ (\E r \in Listings : CollNext(r)),
           NEW k \in Keys
    PROVE  StepOK(k)
<1>1. UNCHANGED <<row, orders, auto, faults>>
  BY DEF CollStart, CollNext
<1>2. Held(k)' = Held(k) /\ Success(k)' = Success(k) /\ faults' >= faults
  BY <1>1, ConstantFacts DEF Held, Success, Inv, Types
<1>3. Kept(k) \subseteq Kept(k)'
  <2>1. CASE \E t \in Tasks : CollStart(t)
    BY <2>1 DEF CollStart, Inv, FoundOK, Found, Kept
  <2>2. ASSUME NEW r \in Listings, CollNext(r) PROVE Kept(k) \subseteq Kept(k)'
    <3>1. coll \in CollType /\ r \in coll.todo /\ r \notin DOMAIN coll.new
      BY <2>2 DEF CollNext, Inv, Types, FoundOK
    <3>2. CASE coll'.new = coll.new
      BY <3>2 DEF Kept
    <3>3. ASSUME NEW s \in {"duplicate", "no_account"},
                 coll' = Add(coll, r, [Unseen EXCEPT !.state = s])
          PROVE  Kept(k) \subseteq Kept(k)'
      <4>1. [Unseen EXCEPT !.state = s] \in RowOK
        BY IdleFacts DEF RowOK
      <4>2. /\ DOMAIN coll'.new = DOMAIN coll.new \cup {r}
            /\ \A q \in DOMAIN coll.new : q # r => coll'.new[q] = coll.new[q]
        BY <3>1, <3>3, <4>1, AddFacts
      <4> QED BY <3>1, <4>2 DEF Kept
    <3>4. \/ \E s \in {"duplicate", "no_account"} : coll' = Add(coll, r, [Unseen EXCEPT !.state = s])
          \/ coll'.new = coll.new
      BY <2>2, <3>1 DEF CollNext, CollType
    <3> QED BY <3>2, <3>3, <3>4
  <2> QED BY <2>1, <2>2
<1>4. Known(k) \subseteq Known(k)'
  BY <1>2, <1>3, KnownGrows
<1> QED BY <1>1, <1>2, <1>4 DEF StepOK

LEMMA CollTriedStepOK ==
    ASSUME Inv, coll.pc = "place", CollTried, NEW k \in Keys PROVE StepOK(k)
<1>1. PICK r \in coll.todo, o \in Outcomes(coll.hand, coll.off), c \in CollType :
          /\ r = coll.hand.row /\ Place(coll.hand, o) /\ UNCHANGED <<row, auto>>
          /\ c.todo = coll.todo /\ c.new = coll.new /\ c.seen = coll.seen
          /\ c.pc = "place" /\ c.hand = o.hand
          /\ \/ \E v \in RowOK :
                   /\ coll' = Add(c, r, v)
                   /\ o.hand.account # Nobody => v.state = "success" /\ v.by = "coll"
                   /\ o.hand.account = Nobody => v.state # "success"
             \/ coll' = c /\ o.hand.account = Nobody
  BY DEF CollTried
<1>2. coll.pc = "place"
  OBVIOUS
<1>3. /\ coll.hand \in Hands /\ coll.hand.account = Nobody /\ r \in Listings
      /\ coll.off \in SUBSET Accounts /\ r \notin DOMAIN coll.new /\ ~There(r)
  BY <1>1, <1>2 DEF Inv, Types, FoundOK, Found, CollType
<1>4. /\ o.placed \in {0, 1} /\ o.faults \in {0, 1}
      /\ o.hand.account # Nobody => o.placed = 1 /\ o.faults = 0
      /\ o.hand.account = Nobody => o.placed <= o.faults
  BY <1>3, OutcomeFacts
<1>5. /\ faults' = faults + o.faults
      /\ orders'[Key(r)] = orders[Key(r)] + o.placed
      /\ k # Key(r) => orders'[k] = orders[k]
  BY <1>1, <1>3, PlaceFacts
<1>6. orders \in [Keys -> Nat] /\ faults \in 0..(MaxFaults + 1) /\ Key(r) \in Keys
  BY <1>3, ConstantFacts DEF Inv, Types
<1>7. orders[k] \in Nat /\ orders[Key(r)] \in Nat /\ faults \in Nat /\ faults' >= faults
  BY <1>4, <1>5, <1>6, ConstantFacts
<1>8. Held(k)' = Held(k) /\ Success(k)' = Success(k)
  BY <1>1 DEF Held, Success
<1>9. /\ DOMAIN coll.new \subseteq DOMAIN coll'.new
      /\ \A s \in DOMAIN coll.new : coll'.new[s] = coll.new[s]
      /\ o.hand.account # Nobody => r \in DOMAIN coll'.new /\ coll'.new[r].state = "success"
  <2>1. CASE coll' = c /\ o.hand.account = Nobody
    BY <1>1, <2>1
  <2>2. CASE \E v \in RowOK : /\ coll' = Add(c, r, v)
                              /\ o.hand.account # Nobody => v.state = "success" /\ v.by = "coll"
    <3>1. PICK v \in RowOK : /\ coll' = Add(c, r, v)
                             /\ o.hand.account # Nobody => v.state = "success" /\ v.by = "coll"
      BY <2>2
    <3>2. /\ DOMAIN coll'.new = DOMAIN c.new \cup {r} /\ coll'.new[r] = v
          /\ \A s \in DOMAIN c.new : s # r => coll'.new[s] = c.new[s]
      BY <1>3, <3>1, AddFacts
    <3> QED BY <1>1, <1>3, <3>1, <3>2
  <2> QED BY <1>1, <2>1, <2>2
<1>10. Kept(k) \subseteq Kept(k)'
  BY <1>9 DEF Kept
<1>11. Known(k) \subseteq Known(k)'
  BY <1>8, <1>10, KnownGrows
<1>12. CASE k # Key(r)
  BY <1>5, <1>7, <1>11, <1>12 DEF StepOK
<1>13. CASE k = Key(r) /\ o.hand.account # Nobody
  <2>1. r \in Kept(k)'
    BY <1>9, <1>13 DEF Kept
  <2>2. r \notin Success(k) /\ r \notin Kept(k)
    BY <1>3 DEF Success, Kept, There
  <2>3. r \notin Held(k)
    <3> SUFFICES ASSUME r \in Held(k) PROVE FALSE
      OBVIOUS
    <3>1. auto.hand.row = r /\ auto.pc = "record"
      BY DEF Held, Inv, HandKept
    <3>2. Pending(r)
      BY <3>1, HeadFacts DEF Inv, HandKept
    <3> QED BY <1>3, <3>2 DEF Pending
  <2>4. r \notin Known(k) /\ Known(k) \cup {r} \subseteq Known(k)'
    BY <1>11, <2>1, <2>2, <2>3 DEF Known
  <2> QED BY <1>4, <1>5, <1>7, <1>13, <2>4 DEF StepOK
<1>14. CASE k = Key(r) /\ o.hand.account = Nobody
  <2>1. CASE o.faults = 0
    BY <1>4, <1>5, <1>7, <1>11, <1>14, <2>1 DEF StepOK
  <2>2. CASE o.faults = 1
    BY <1>4, <1>5, <1>7, <1>11, <1>14, <2>2 DEF StepOK
  <2> QED BY <1>4, <2>1, <2>2
<1> QED BY <1>12, <1>13, <1>14

LEMMA CollPlaceStepOK == ASSUME Inv, CollPlace, NEW k \in Keys PROVE StepOK(k)
<1>1. coll.pc = "place"
  BY DEF CollPlace
<1>2. CASE CollFailed
  <2>1. PICK r \in coll.todo, v \in RowOK :
          /\ r = coll.hand.row /\ PlaceBreaks(coll.hand) /\ UNCHANGED <<row, auto>>
          /\ coll' = Add(coll, r, v)
    BY <1>2 DEF CollFailed
  <2>2. /\ coll \in CollType /\ coll.hand \in Hands /\ coll.hand.row \in Listings
        /\ r \notin DOMAIN coll.new
    BY <2>1 DEF Inv, Types, FoundOK, CollType
  <2>3. faults' = faults + 1 /\ orders[k] \in Nat /\ orders'[k] \in {orders[k], orders[k] + 1}
    BY <2>1, <2>2, PlaceBreaksFacts
  <2>4. /\ DOMAIN coll'.new = DOMAIN coll.new \cup {r}
        /\ \A s \in DOMAIN coll.new : s # r => coll'.new[s] = coll.new[s]
    BY <2>1, <2>2, AddFacts
  <2>5. Kept(k) \subseteq Kept(k)'
    BY <2>2, <2>4 DEF Kept
  <2>6. Known(k) \subseteq Known(k)'
    BY <2>1, <2>5 DEF Known, Held, Success
  <2>7. orders'[k] <= orders[k] + 1
    BY <2>3
  <2> QED BY <2>3, <2>6, <2>7 DEF StepOK
<1> QED BY <1>1, <1>2, CollPlaceFacts, CollTriedStepOK

LEMMA CollCommitStepOK == ASSUME Inv, CollCommit, NEW k \in Keys PROVE StepOK(k)
<1>1. UNCHANGED <<orders, auto, faults>>
  BY DEF CollCommit
<1>2. DOMAIN coll.new \subseteq Listings /\ \A r \in DOMAIN coll.new : ~There(r)
  BY CommitFacts DEF Inv, FoundOK, Found
<1>3. \A r \in Listings : row[r].state = "success" => row'[r] = row[r]
  BY <1>2, CommitFacts DEF There
<1>4. Success(k) \subseteq Success(k)'
  BY <1>3, SuccessStays
<1>5. Kept(k) \subseteq Success(k)'
  BY <1>2, CommitFacts DEF Kept, Success
<1>6. Held(k)' = Held(k)
  BY <1>1 DEF Held
<1>7. Known(k) \subseteq Known(k)'
  BY <1>4, <1>5, <1>6 DEF Known
<1> QED BY <1>1, <1>7, ConstantFacts DEF StepOK, Inv, Types

\* A fault loses an order of the round or one of the collector, and a crash both.
LEMMA FaultStepOK ==
    ASSUME Inv, AutoBreaks \/ CollBreaks \/ Crash, NEW k \in Keys PROVE StepOK(k)
<1>1. PICK s : Kept(k) \subseteq {s}
  BY KnownFacts
<1>2. PICK r : r = auto.hand.row
  OBVIOUS
<1>3. Held(k) \subseteq {r}
  BY <1>2, KnownFacts
<1>4. Success(k)' = Success(k)
  BY DEF Success, AutoBreaks, CollBreaks, Crash
<1>5. CASE AutoBreaks
  <2>1. auto.pc \in {"next", "place"} /\ UNCHANGED coll
    BY <1>5 DEF AutoBreaks
  <2>2. Held(k) = {} /\ Kept(k)' = Kept(k)
    BY <2>1, NobodyHeld DEF Kept
  <2>3. Known(k) \subseteq Known(k)'
    BY <1>4, <2>2 DEF Known
  <2>4. faults' = faults + 1 /\ orders[k] \in Nat /\ orders'[k] <= orders[k] + 1
    <3>1. CASE Fault /\ UNCHANGED orders
      BY <3>1 DEF Fault, Inv, Types
    <3>2. CASE auto.pc = "place" /\ PlaceBreaks(auto.hand)
      <4>1. auto.hand \in Hands /\ auto.hand.row \in Listings
        BY <3>2, HeadFacts DEF AutoType, Inv, Types, HandKept
      <4>2. /\ faults' = faults + 1 /\ orders[k] \in Nat
            /\ orders'[k] \in {orders[k], orders[k] + 1}
        BY <3>2, <4>1, PlaceBreaksFacts
      <4> QED BY <4>2
    <3> QED BY <1>5, <3>1, <3>2 DEF AutoBreaks
  <2> QED BY <2>3, <2>4 DEF StepOK
<1>6. CASE CollBreaks
  <2>1. UNCHANGED <<orders, auto>> /\ faults' = faults + 1
    BY <1>6 DEF CollBreaks, Fault
  <2>2. Held(k)' = Held(k)
    BY <2>1 DEF Held
  <2>3. Known(k) \subseteq Known(k)' \cup {s}
    BY <1>1, <1>4, <2>2 DEF Known
  <2> QED BY <2>1, <2>3 DEF StepOK
<1>7. CASE Crash
  <2>1. UNCHANGED orders /\ faults' = faults + 2
    BY <1>7 DEF Crash
  <2>2. Known(k) \subseteq Known(k)' \cup {r, s}
    BY <1>1, <1>3, <1>4 DEF Known
  <2> QED BY <2>1, <2>2 DEF StepOK
<1> QED BY <1>5, <1>6, <1>7

LEMMA OnRecordStep == ASSUME Inv, Inv', OnRecord, [Next]_vars PROVE OnRecord'
<1>1. ASSUME NEW k \in Keys PROVE StepOK(k)
  <2>1. CASE AutoStart \/ AutoNext
    BY <2>1, RoundStepOK
  <2>2. CASE AutoPlace
    BY <2>2, AutoPlaceStepOK
  <2>3. CASE AutoRecord
    BY <2>3, AutoRecordStepOK
  <2>4. CASE (\E t \in Tasks : CollStart(t)) \/ (\E r \in Listings : CollNext(r))
    BY <2>4, CollStepOK
  <2>5. CASE CollPlace
    BY <2>5, CollPlaceStepOK
  <2>6. CASE CollCommit
    BY <2>6, CollCommitStepOK
  <2>7. CASE AutoBreaks \/ CollBreaks \/ Crash
    BY <2>7, FaultStepOK
  <2>8. CASE UNCHANGED vars
    <3>1. UNCHANGED <<row, orders, auto, coll, faults>>
      BY <2>8 DEF vars
    <3>2. Known(k)' = Known(k)
      BY <3>1 DEF Known, Success, Held, Kept
    <3>3. faults \in 0..(MaxFaults + 1)
      BY DEF Inv, Types
    <3> QED BY <3>1, <3>2, <3>3, ConstantFacts DEF StepOK
  <2> QED BY <2>1, <2>2, <2>3, <2>4, <2>5, <2>6, <2>7, <2>8 DEF Next, Round
<1>2. \A k \in Keys : orders'[k] <= Told(k)' + faults'
  BY <1>1, RecordStep DEF StepOK
<1> QED BY <1>2 DEF OnRecord, Told

\* Whatever answers, writes, batches and processes are lost, an order that was placed
\* has a row that says so or will be written, but for one order of an item a fault.
THEOREM OrdersStayOnRecord == Spec => []OnRecord
<1>1. Init => OnRecord
  <2> SUFFICES ASSUME Init, NEW k \in Keys
               PROVE  orders[k] <= Cardinality(Success(k)) + Cardinality(InHand(k)) + faults
    BY DEF OnRecord
  <2>1. Inv
    BY InitInv
  <2>2. Told(k) = Cardinality(Known(k)) /\ IsFiniteSet(Known(k))
    BY <2>1, KnownFacts, ConstantFacts, FS_Subset
  <2>3. Told(k) \in Nat
    BY <2>2, FS_CardinalityType
  <2> QED BY <2>3 DEF Told, Init
<1>2. Inv /\ Inv' /\ OnRecord /\ [Next]_vars => OnRecord'
  BY OnRecordStep
<1> QED BY <1>1, <1>2, InvAlways, PTL DEF Spec

=============================================================================
