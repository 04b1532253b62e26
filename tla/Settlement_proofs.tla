------------------------- MODULE Settlement_proofs -------------------------
(***************************************************************************)
(* Theorems about Settlement, for any number of users and transactions,    *)
(* any deals, prices, fee, balances and stock, and every fault.            *)
(***************************************************************************)
EXTENDS Settlement, FiniteSetTheorems, SequenceTheorems, WellFoundedInduction, TLAPS

(***************************************************************************)
(* TypeOK is not inductive: a transaction at work knows its deal, starts   *)
(* its settlement at the first leg and is in one of its legs.              *)
(***************************************************************************)
TxOK(r) ==
  /\ r \in TxType
  /\ r.pc # "idle" => r.deal \in Deal
  /\ r.pc \in {"lock", "decide", "take"} => r.leg = 1
  /\ r.pc = "settle" => r.leg \in 1 .. Len(Legs(r.deal))

LegType == [user : Users, amount : Int]

TypeInv == TypeOK /\ \A t \in Txs : TxOK(tx[t])

(***************************************************************************)
(* What has been booked and not committed: in a row that t holds, its own  *)
(* flows lead from the committed balance to the one it works with; in any  *)
(* other row it has booked nothing.                                        *)
(***************************************************************************)
PendingOK(t, u, r) ==
  IF row[u] = t THEN Chained(bal[u], r.pend[u], r.mem[u]) ELSE r.pend[u] = <<>>

LedgerInv ==
  /\ TypeInv
  /\ LedgerAgrees
  /\ \A t \in Txs, u \in Users : PendingOK(t, u, tx[t])

-----------------------------------------------------------------------------
\* Chains of flows.

LEMMA ChainEmpty == \A a : Chained(a, <<>>, a)
  BY DEF Chained

LEMMA ChainAppend ==
  ASSUME NEW s \in Seq(FlowRow), NEW a \in Int, NEW b \in Int, NEW c \in Int,
         Chained(a, s, b)
  PROVE  Chained(a, Append(s, [before |-> b, after |-> c]), c)
  <1> DEFINE e == [before |-> b, after |-> c]
             n == Append(s, e)
  <1>1. e \in FlowRow /\ e.before = b /\ e.after = c
    BY DEF FlowRow
  <1>2. /\ n \in Seq(FlowRow) /\ Len(n) = Len(s) + 1 /\ n[Len(s) + 1] = e
        /\ \A i \in 1 .. Len(s) : n[i] = s[i]
    BY <1>1, AppendProperties
  <1>3. Len(s) \in Nat /\ (s = <<>> <=> Len(s) = 0)
    BY EmptySeq, LenProperties
  <1>4. n # <<>>
    BY <1>2, <1>3, EmptySeq
  <1> HIDE DEF n, e
  <1>5. n[1].before = a
    <2>1. CASE s = <<>>
      BY <2>1, <1>1, <1>2, <1>3 DEF Chained
    <2>2. CASE s # <<>>
      BY <2>2, <1>2, <1>3 DEF Chained
    <2> QED BY <2>1, <2>2
  <1>6. \A i \in 1 .. Len(n) - 1 : n[i].after = n[i + 1].before
    <2> TAKE i \in 1 .. Len(n) - 1
    <2>1. CASE i = Len(s)
      BY <2>1, <1>1, <1>2, <1>3 DEF Chained
    <2>2. CASE i # Len(s)
      <3>1. i \in 1 .. Len(s) - 1 /\ i + 1 \in 1 .. Len(s) /\ i \in 1 .. Len(s)
        BY <2>2, <1>2, <1>3
      <3> QED BY <3>1, <1>2 DEF Chained
    <2> QED BY <2>1, <2>2
  <1>7. n[Len(n)].after = c
    BY <1>1, <1>2
  <1> QED BY <1>4, <1>5, <1>6, <1>7 DEF Chained, n, e

LEMMA ChainConcat ==
  ASSUME NEW s1 \in Seq(FlowRow), NEW s2 \in Seq(FlowRow),
         NEW a \in Int, NEW b \in Int, NEW c \in Int,
         Chained(a, s1, b), Chained(b, s2, c)
  PROVE  Chained(a, s1 \o s2, c)
  <1> DEFINE n == s1 \o s2
  <1>1. /\ n \in Seq(FlowRow) /\ Len(n) = Len(s1) + Len(s2)
        /\ \A i \in 1 .. Len(s1) + Len(s2) :
              n[i] = IF i <= Len(s1) THEN s1[i] ELSE s2[i - Len(s1)]
    BY ConcatProperties
  <1>2. /\ Len(s1) \in Nat /\ (s1 = <<>> <=> Len(s1) = 0)
        /\ Len(s2) \in Nat /\ (s2 = <<>> <=> Len(s2) = 0)
    BY EmptySeq, LenProperties
  <1>3. CASE s1 = <<>>
    BY <1>3, ConcatEmptySeq DEF Chained
  <1>4. CASE s2 = <<>>
    BY <1>4, ConcatEmptySeq DEF Chained
  <1>5. CASE s1 # <<>> /\ s2 # <<>>
    <2> HIDE DEF n
    <2>1. Len(s1) > 0 /\ Len(s2) > 0 /\ n # <<>>
      BY <1>1, <1>2, <1>5, EmptySeq
    <2>2. n[1].before = a
      BY <1>1, <1>2, <1>5, <2>1 DEF Chained
    <2>3. n[Len(n)].after = c
      <3>1. n[Len(n)] = s2[Len(s2)]
        <4>1. Len(n) - Len(s1) = Len(s2) /\ Len(n) \in 1 .. Len(s1) + Len(s2)
              /\ ~(Len(n) <= Len(s1))
          BY <1>1, <1>2, <2>1
        <4>2. n[Len(n)] = s2[Len(n) - Len(s1)]
          BY <1>1, <4>1
        <4> QED BY <4>1, <4>2
      <3> QED BY <3>1, <1>5 DEF Chained
    <2>4. \A i \in 1 .. Len(n) - 1 : n[i].after = n[i + 1].before
      <3> TAKE i \in 1 .. Len(n) - 1
      <3>1. CASE i < Len(s1)
        <4>1. n[i] = s1[i] /\ n[i + 1] = s1[i + 1] /\ i \in 1 .. Len(s1) - 1
          BY <3>1, <1>1, <1>2
        <4> QED BY <4>1 DEF Chained
      <3>2. CASE i = Len(s1)
        <4>1. n[i] = s1[Len(s1)] /\ n[i + 1] = s2[1]
          BY <3>2, <1>1, <1>2, <2>1
        <4> QED BY <4>1, <1>5 DEF Chained
      <3>3. CASE i > Len(s1)
        <4>1. /\ n[i] = s2[i - Len(s1)] /\ n[i + 1] = s2[(i - Len(s1)) + 1]
              /\ i - Len(s1) \in 1 .. Len(s2) - 1
          BY <3>3, <1>1, <1>2
        <4> QED BY <4>1 DEF Chained
      <3> QED BY <3>1, <3>2, <3>3, <1>2
    <2> QED BY <2>1, <2>2, <2>3, <2>4 DEF Chained, n
  <1> QED BY <1>3, <1>4, <1>5

-----------------------------------------------------------------------------
\* The legs of a settlement.

LEMMA DealFields ==
  ASSUME NEW d \in Deal
  PROVE  /\ d.kind \in Kinds /\ d.level \in {1, 2}
         /\ d.dealer \in Users /\ d.level1 \in Users /\ d.owner \in Users
         /\ d.payer \in {"dealer", "distributor", "none"}
         /\ d.amount \in Nat \ {0} /\ d.data \in BOOLEAN
  BY DEF Deal

LEMMA LegTuples ==
  /\ \A x \in LegType : <<x>> \in Seq(LegType) /\ Len(<<x>>) = 1
  /\ \A x, y \in LegType : <<x, y>> \in Seq(LegType) /\ Len(<<x, y>>) = 2
  /\ \A x, y, z \in LegType : <<x, y, z>> \in Seq(LegType) /\ Len(<<x, y, z>>) = 3
  OBVIOUS

LEMMA LegConcat ==
  ASSUME NEW one \in Seq(LegType), NEW two \in Seq(LegType),
         NEW pass \in Seq(LegType), NEW last \in Seq(LegType),
         Len(one) = 1, Len(two) = 2, Len(pass) = 3, Len(last) = 1
  PROVE  /\ (one \o pass) \o last \in Seq(LegType) /\ Len((one \o pass) \o last) = 5
         /\ two \o pass \in Seq(LegType) /\ Len(two \o pass) = 5
  <1>1. one \o pass \in Seq(LegType) /\ Len(one \o pass) = Len(one) + Len(pass)
    BY ConcatProperties, Zenon
  <1>2. /\ (one \o pass) \o last \in Seq(LegType)
        /\ Len((one \o pass) \o last) = Len(one \o pass) + Len(last)
    BY <1>1, ConcatProperties, Zenon
  <1>3. two \o pass \in Seq(LegType) /\ Len(two \o pass) = Len(two) + Len(pass)
    BY ConcatProperties, Zenon
  <1> QED BY <1>1, <1>2, <1>3

LEMMA LegsOK ==
  ASSUME NEW d \in Deal
  PROVE  Legs(d) \in Seq(LegType) /\ Len(Legs(d)) \in 1 .. 5
  <1>1. /\ CardPrice \in Int /\ SubPrice \in Int /\ Fee \in Int /\ d.amount \in Int
        /\ -CardPrice \in Int /\ -SubPrice \in Int /\ -Fee \in Int /\ -d.amount \in Int
    BY SettlementAssumption, DealFields
  <1>2. \A u \in {d.dealer, d.level1, d.owner} :
          /\ Leg(u, CardPrice) \in LegType /\ Leg(u, -CardPrice) \in LegType
          /\ Leg(u, SubPrice) \in LegType /\ Leg(u, -SubPrice) \in LegType
          /\ Leg(u, -Fee) \in LegType
          /\ Leg(u, d.amount) \in LegType /\ Leg(u, -d.amount) \in LegType
    BY <1>1, DealFields DEF Leg, LegType
  <1>3. SettleLevel1(d) \in Seq(LegType) /\ Len(SettleLevel1(d)) = 3
    BY <1>2, LegTuples DEF SettleLevel1
  <1>4. SettleLevel2(d) \in Seq(LegType) /\ Len(SettleLevel2(d)) = 5
    <2> DEFINE pass == <<Leg(d.level1, SubPrice), Leg(d.level1, -CardPrice),
                         Leg(d.owner, CardPrice)>>
               one == <<Leg(d.dealer, -SubPrice)>>
               two == <<Leg(d.dealer, -SubPrice), Leg(d.dealer, -Fee)>>
               last == <<Leg(d.owner, -Fee)>>
    <2>1. /\ pass \in Seq(LegType) /\ Len(pass) = 3
          /\ one \in Seq(LegType) /\ Len(one) = 1
          /\ two \in Seq(LegType) /\ Len(two) = 2
          /\ last \in Seq(LegType) /\ Len(last) = 1
      BY <1>2, LegTuples
    <2>2. SettleLevel2(d) = IF d.payer = "distributor" THEN (one \o pass) \o last
                                                      ELSE two \o pass
      BY DEF SettleLevel2
    <2> HIDE DEF pass, one, two, last
    <2>3. /\ (one \o pass) \o last \in Seq(LegType) /\ Len((one \o pass) \o last) = 5
          /\ two \o pass \in Seq(LegType) /\ Len(two \o pass) = 5
      BY <2>1, LegConcat
    <2> QED BY <2>2, <2>3
  <1>5. CASE d.kind = "withdraw"
    <2>1. Legs(d) = <<Leg(d.dealer, -d.amount)>>
      BY <1>5 DEF Legs
    <2> QED BY <2>1, <1>2, LegTuples
  <1>6. CASE d.kind = "income"
    <2>1. Legs(d) = <<Leg(d.dealer, d.amount)>>
      BY <1>6 DEF Legs
    <2> QED BY <2>1, <1>2, LegTuples
  <1>7. CASE d.kind \in {"order", "pickup"} /\ d.level = 1
    BY <1>7, <1>3 DEF Legs
  <1>8. CASE d.kind \in {"order", "pickup"} /\ d.level = 2
    BY <1>8, <1>4 DEF Legs
  <1> QED BY <1>5, <1>6, <1>7, <1>8, DealFields DEF Kinds


-----------------------------------------------------------------------------
\* What steps do to the invariant.

\* A transaction at work takes locks and changes its own view.
LEMMA WorkInv ==
  ASSUME LedgerInv, NEW t \in Txs, NEW r, TxOK(r), r.pc \in Active, Become(t, r),
         row' \in [Users -> Txs \cup {Nobody}],
         \A u \in Users : row'[u] = row[u] \/ (row[u] = Nobody /\ row'[u] = t),
         bal' = bal, flows' = flows, stock' \in Seq(Codes), cardLock' \in {cardLock, t},
         \A u \in Users : IF row'[u] = t THEN Chained(bal[u], r.pend[u], r.mem[u])
                                        ELSE r.pend[u] = <<>>
  PROVE  LedgerInv'
  <1>1. /\ tx' \in [Txs -> TxType] /\ tx'[t] = r
        /\ \A s \in Txs : s # t => tx'[s] = tx[s]
    BY DEF LedgerInv, TypeInv, TypeOK, Become, TxOK
  <1>2. \A s \in Txs : TxOK(tx'[s])
    BY <1>1 DEF LedgerInv, TypeInv
  <1>3. TypeOK'
    <2>1. \A s \in Txs : tx'[s].pc \notin Active
            => cardLock' # s /\ {u \in Users : row'[u] = s} = {}
      <3> SUFFICES ASSUME NEW s \in Txs, tx'[s].pc \notin Active
                   PROVE  cardLock' # s /\ \A u \in Users : row'[u] # s
        OBVIOUS
      <3>1. s # t /\ tx[s].pc \notin Active
        BY <1>1
      <3>2. cardLock # s /\ \A u \in Users : row[u] # s
        BY <3>1 DEF LedgerInv, TypeInv, TypeOK, Held
      <3> QED BY <3>1, <3>2
    <2>2. cardLock' \in Txs \cup {Nobody}
      BY DEF LedgerInv, TypeInv, TypeOK
    <2> QED BY <1>1, <2>1, <2>2 DEF LedgerInv, TypeInv, TypeOK, Held
  <1>4. LedgerAgrees'
    BY DEF LedgerInv, LedgerAgrees
  <1>5. \A s \in Txs, u \in Users : PendingOK(s, u, tx[s])'
    <2> SUFFICES ASSUME NEW s \in Txs, NEW u \in Users
                 PROVE  PendingOK(s, u, tx[s])'
      OBVIOUS
    <2>1. CASE s = t
      BY <2>1, <1>1 DEF PendingOK
    <2>2. CASE s # t
      <3>1. row'[u] = s <=> row[u] = s
        BY <2>2, SettlementAssumption
      <3>2. PendingOK(s, u, tx[s])
        BY DEF LedgerInv
      <3> QED BY <2>2, <3>1, <3>2, <1>1 DEF PendingOK
    <2> QED BY <2>1, <2>2
  <1> QED BY <1>2, <1>3, <1>4, <1>5 DEF LedgerInv, TypeInv

\* A transaction ends: its locks go, and other rows keep their balance.
LEMMA EndInv ==
  ASSUME LedgerInv, NEW t \in Txs, NEW r, TxOK(r), Become(t, r),
         \A u \in Users : r.pend[u] = <<>>,
         row' = [u \in Users |-> IF row[u] = t THEN Nobody ELSE row[u]],
         cardLock' = IF cardLock = t THEN Nobody ELSE cardLock,
         bal' \in [Users -> Int], flows' \in [Users -> Seq(FlowRow)],
         stock' \in Seq(Codes),
         \A u \in Users : row[u] # t => bal'[u] = bal[u],
         \A u \in Users : Chained(Opening[u], flows'[u], bal'[u])
  PROVE  LedgerInv'
  <1>1. /\ tx' \in [Txs -> TxType] /\ tx'[t] = r
        /\ \A s \in Txs : s # t => tx'[s] = tx[s]
    BY DEF LedgerInv, TypeInv, TypeOK, Become, TxOK
  <1>2. \A s \in Txs : TxOK(tx'[s])
    BY <1>1 DEF LedgerInv, TypeInv
  <1>3. t # Nobody
    BY SettlementAssumption
  <1>4. /\ row' \in [Users -> Txs \cup {Nobody}]
        /\ \A u \in Users : row'[u] # t
        /\ \A s \in Txs, u \in Users : s # t => (row'[u] = s <=> row[u] = s)
    BY <1>3, SettlementAssumption DEF LedgerInv, TypeInv, TypeOK
  <1>5. TypeOK'
    <2>1. \A s \in Txs : tx'[s].pc \notin Active
            => cardLock' # s /\ {u \in Users : row'[u] = s} = {}
      <3> SUFFICES ASSUME NEW s \in Txs, tx'[s].pc \notin Active
                   PROVE  cardLock' # s /\ \A u \in Users : row'[u] # s
        OBVIOUS
      <3>1. CASE s = t
        BY <3>1, <1>3, <1>4
      <3>2. CASE s # t
        <4>1. cardLock # s /\ \A u \in Users : row[u] # s
          BY <3>2, <1>1 DEF LedgerInv, TypeInv, TypeOK, Held
        <4> QED BY <3>2, <4>1, <1>4, SettlementAssumption
      <3> QED BY <3>1, <3>2
    <2>2. cardLock' \in Txs \cup {Nobody}
      BY DEF LedgerInv, TypeInv, TypeOK
    <2> QED BY <1>1, <1>4, <2>1, <2>2 DEF LedgerInv, TypeInv, TypeOK, Held
  <1>6. LedgerAgrees'
    BY DEF LedgerAgrees
  <1>7. \A s \in Txs, u \in Users : PendingOK(s, u, tx[s])'
    <2> SUFFICES ASSUME NEW s \in Txs, NEW u \in Users
                 PROVE  PendingOK(s, u, tx[s])'
      OBVIOUS
    <2>1. CASE s = t
      BY <2>1, <1>1, <1>4 DEF PendingOK
    <2>2. CASE s # t
      <3>1. PendingOK(s, u, tx[s])
        BY DEF LedgerInv
      <3>2. row[u] = s => bal'[u] = bal[u]
        BY <2>2
      <3> QED BY <2>2, <3>1, <3>2, <1>1, <1>4 DEF PendingOK
    <2> QED BY <2>1, <2>2
  <1> QED BY <1>2, <1>5, <1>6, <1>7 DEF LedgerInv, TypeInv

LEMMA FreshFields ==
  /\ Fresh \in TxType /\ Fresh.leg = 1 /\ \A u \in Users : Fresh.pend[u] = <<>>
  /\ Fresh.pc = "idle"
  <1>1. [u \in Users |-> 0] \in [Users -> Int] /\ \A S : <<>> \in Seq(S)
    BY EmptySeq
  <1>2. [u \in Users |-> <<>>] \in [Users -> Seq(FlowRow)]
    BY <1>1
  <1> QED BY <1>1, <1>2 DEF Fresh, TxType

LEMMA FreshOK ==
  ASSUME NEW r \in TxType, r.pc # "settle", r.deal \in Deal, r.leg = 1
  PROVE  TxOK(r)
  BY DEF TxOK

LEMMA RollbackInv ==
  ASSUME LedgerInv, NEW t \in Txs, tx[t].pc # "idle", NEW pc \in Ended, Rollback(t, pc)
  PROVE  LedgerInv'
  <1> DEFINE c == IF tx[t].deal.kind = "order" THEN tx[t].got ELSE NoCode
             r == [Fresh EXCEPT !.pc = pc, !.deal = tx[t].deal, !.got = c]
  <1>1. tx[t].deal \in Deal /\ c \in Codes \cup {NoCode}
    BY DEF LedgerInv, TypeInv, TxOK, TxType
  <1> HIDE DEF c
  <1>2. /\ r \in TxType /\ r.pc = pc /\ r.deal = tx[t].deal
        /\ r.leg = Fresh.leg /\ r.pend = Fresh.pend
    BY <1>1, FreshFields DEF TxType
  <1>3. TxOK(r)
    BY <1>1, <1>2, FreshFields, FreshOK DEF Ended
  <1>4. \A u \in Users : r.pend[u] = <<>>
    BY <1>2, FreshFields
  <1>5. Become(t, r)
    BY DEF Rollback, GivenUp, c
  <1>6. /\ row' = [u \in Users |-> IF row[u] = t THEN Nobody ELSE row[u]]
        /\ cardLock' = IF cardLock = t THEN Nobody ELSE cardLock
        /\ bal' = bal /\ flows' = flows /\ stock' = stock
    BY DEF Rollback
  <1>7. /\ bal' \in [Users -> Int] /\ flows' \in [Users -> Seq(FlowRow)]
        /\ stock' \in Seq(Codes)
        /\ \A u \in Users : Chained(Opening[u], flows'[u], bal'[u])
    BY <1>6 DEF LedgerInv, TypeInv, TypeOK, LedgerAgrees
  <1> HIDE DEF r, c
  <1> QED BY <1>3, <1>4, <1>5, <1>6, <1>7, EndInv


-----------------------------------------------------------------------------
\* The actions.

LEMMA AtWork ==
  ASSUME LedgerInv, NEW t \in Txs
  PROVE  /\ tx[t] \in TxType /\ TxOK(tx[t])
         /\ tx[t].pc # "idle" => tx[t].deal \in Deal
         /\ tx[t].pc \notin Active => \A u \in Users : row[u] # t
         /\ \A u \in Users : PendingOK(t, u, tx[t])
         /\ row \in [Users -> Txs \cup {Nobody}] /\ stock \in Seq(Codes)
         /\ bal \in [Users -> Int] /\ flows \in [Users -> Seq(FlowRow)]
  BY DEF LedgerInv, TypeInv, TypeOK, TxOK, Held

LEMMA BeginInv ==
  ASSUME LedgerInv, NEW t \in Txs, Begin(t)
  PROVE  LedgerInv'
  <1>1. PICK d \in Deals[t] : OrderBegin(t, d) \/ PickupBegin(t, d) \/ OtherBegin(t, d)
    BY DEF Begin
  <1>2. d \in Deal
    BY SettlementAssumption
  <1>3. /\ tx[t].pc = "idle"
        /\ UNCHANGED <<bal, row, flows, stock, cardLock>>
    BY <1>1 DEF OrderBegin, PickupBegin, OtherBegin, At
  <1>4. PICK r : /\ Become(t, r) /\ r \in TxType /\ r.pc \in {"take", "lock"}
                 /\ r.deal = d /\ r.leg = Fresh.leg /\ r.pend = Fresh.pend
    <2> DEFINE plain(pc) == [Fresh EXCEPT !.pc = pc, !.deal = d]
               full == [Fresh EXCEPT !.pc = "lock", !.deal = d, !.seen = stock]
    <2>1. \A pc \in {"take", "lock"} :
            /\ plain(pc) \in TxType /\ plain(pc).pc = pc /\ plain(pc).deal = d
            /\ plain(pc).leg = Fresh.leg /\ plain(pc).pend = Fresh.pend
      BY <1>2, FreshFields DEF TxType, Active
    <2>2. /\ full \in TxType /\ full.pc = "lock" /\ full.deal = d
          /\ full.leg = Fresh.leg /\ full.pend = Fresh.pend
      BY <1>2, FreshFields, AtWork DEF TxType, Active
    <2>3. Become(t, plain("take")) \/ Become(t, plain("lock")) \/ Become(t, full)
      BY <1>1 DEF OrderBegin, PickupBegin, OtherBegin
    <2> HIDE DEF plain, full
    <2> QED BY <2>1, <2>2, <2>3
  <1>5. r.pc \in Active /\ \A u \in Users : r.pend[u] = <<>>
    BY <1>4, FreshFields DEF Active
  <1>6. TxOK(r)
    BY <1>2, <1>4, FreshFields, FreshOK
  <1>7. \A u \in Users : row[u] # t
    BY <1>3, AtWork DEF Active
  <1>8. \A u \in Users : IF row'[u] = t THEN Chained(bal[u], r.pend[u], r.mem[u])
                                       ELSE r.pend[u] = <<>>
    BY <1>3, <1>5, <1>7
  <1> QED BY <1>3, <1>4, <1>5, <1>6, <1>8, AtWork, WorkInv

\* A transaction goes on without booking anything.
LEMMA GoOnInv ==
  ASSUME LedgerInv, NEW t \in Txs, NEW r, TxOK(r), r.pc \in Active, Become(t, r),
         r.mem = tx[t].mem, r.pend = tx[t].pend,
         UNCHANGED <<bal, row, flows>>, stock' \in Seq(Codes), cardLock' \in {cardLock, t}
  PROVE  LedgerInv'
  <1>1. \A u \in Users : IF row'[u] = t THEN Chained(bal[u], r.pend[u], r.mem[u])
                                       ELSE r.pend[u] = <<>>
    BY AtWork DEF PendingOK
  <1> QED BY <1>1, AtWork, WorkInv

LEMMA LegBounds ==
  ASSUME NEW n \in 1 .. 5
  PROVE  1 \in 1 .. n /\ \A k \in 1 .. n : k + 1 \in 1 .. 6 /\ (k # n => k + 1 \in 1 .. n)
  OBVIOUS

LEMMA GotoOK ==
  ASSUME LedgerInv, NEW t \in Txs, tx[t].pc \in Active, NEW pc \in Active,
         pc \in {"lock", "decide", "take", "settle"} => tx[t].pc \in {"lock", "decide", "take"}
  PROVE  TxOK([tx[t] EXCEPT !.pc = pc])
  <1> DEFINE r == [tx[t] EXCEPT !.pc = pc]
  <1>1. tx[t] \in TxType /\ TxOK(tx[t]) /\ tx[t].deal \in Deal
    BY AtWork DEF Active
  <1>2. r \in TxType /\ r.pc = pc /\ r.leg = tx[t].leg /\ r.deal = tx[t].deal
    BY <1>1 DEF TxType
  <1>3. Len(Legs(tx[t].deal)) \in 1 .. 5
    BY <1>1, LegsOK
  <1> HIDE DEF r
  <1>4. 1 \in 1 .. Len(Legs(tx[t].deal))
    BY <1>3, LegBounds
  <1>5. r.pc = "settle" => r.leg = 1
    BY <1>1, <1>2 DEF TxOK
  <1>6. r.pc \in {"lock", "decide", "take"} => r.leg = 1
    BY <1>1, <1>2 DEF TxOK
  <1>7. TxOK(r)
    BY <1>1, <1>2, <1>4, <1>5, <1>6 DEF TxOK
  <1> QED BY <1>7 DEF r

LEMMA OrderTakeInv ==
  ASSUME LedgerInv, NEW t \in Txs, OrderTake(t)
  PROVE  LedgerInv'
  <1>1. tx[t].pc = "take" /\ tx[t] \in TxType
    BY AtWork DEF OrderTake, At
  <1>2. CASE Goto(t, "settle") /\ UNCHANGED <<bal, row, flows, stock, cardLock>>
    <2>1. TxOK([tx[t] EXCEPT !.pc = "settle"])
      BY <1>1, GotoOK DEF Active
    <2>2. stock' \in Seq(Codes)
      BY <1>2, AtWork
    <2> QED BY <1>1, <1>2, <2>1, <2>2, GoOnInv DEF Goto, TxType, Active
  <1>3. CASE /\ stock # <<>>
             /\ Become(t, [tx[t] EXCEPT !.pc = "settle", !.got = Head(stock)])
             /\ stock' = Tail(stock)
             /\ UNCHANGED <<bal, row, flows, cardLock>>
    <2> DEFINE g == [tx[t] EXCEPT !.pc = "settle"]
               r == [tx[t] EXCEPT !.pc = "settle", !.got = Head(stock)]
    <2>1. Head(stock) \in Codes /\ stock' \in Seq(Codes)
      BY <1>3, AtWork, HeadTailProperties
    <2>2. TxOK(g)
      BY <1>1, GotoOK DEF Active
    <2>3. /\ r \in TxType /\ r.pc = "settle" /\ r.mem = tx[t].mem /\ r.pend = tx[t].pend
          /\ g.pc = "settle" /\ r.leg = g.leg /\ r.deal = g.deal
      BY <1>1, <2>1 DEF TxType, Active
    <2> HIDE DEF r, g
    <2>4. TxOK(r)
      BY <2>2, <2>3 DEF TxOK
    <2>5. Become(t, r)
      BY <1>3 DEF r
    <2> QED BY <1>3, <2>1, <2>3, <2>4, <2>5, GoOnInv DEF Active
  <1>4. CASE Rollback(t, "refused")
    BY <1>1, <1>4, RollbackInv DEF Ended
  <1> QED BY <1>2, <1>3, <1>4 DEF OrderTake

LEMMA LockRowInv ==
  ASSUME LedgerInv, NEW t \in Txs, LockRow(t)
  PROVE  LedgerInv'
  <1> DEFINE u == NextRow(tx[t].deal, Parties(tx[t].deal) \ Held(t))
             r == [tx[t] EXCEPT !.mem[u] = bal[u]]
  <1>1. /\ tx[t].pc = "lock" /\ tx[t] \in TxType /\ UNCHANGED <<bal, flows, stock, cardLock>>
        /\ tx[t].pc \in Active
    BY AtWork DEF LockRow, At, Active
  <1>2. stock' \in Seq(Codes)
    BY <1>1, AtWork
  <1>3. CASE Goto(t, "decide") /\ UNCHANGED row
    <2>1. TxOK([tx[t] EXCEPT !.pc = "decide"])
      BY <1>1, GotoOK DEF Active
    <2> QED BY <1>1, <1>2, <1>3, <2>1, GoOnInv DEF Goto, TxType, Active
  <1>4. CASE Grab(t, u) /\ Become(t, r)
    <2>1. row[u] = Nobody /\ row' = [row EXCEPT ![u] = t] /\ t # Nobody
      BY <1>4, SettlementAssumption DEF Grab
    <2>2. /\ r.pc = tx[t].pc /\ r.leg = tx[t].leg /\ r.deal = tx[t].deal
          /\ r.pend = tx[t].pend /\ r.mem = [tx[t].mem EXCEPT ![u] = bal[u]]
      BY <1>1 DEF TxType
    <2> HIDE DEF u
    <2>3. r \in TxType
      BY <1>1, AtWork DEF TxType
    <2>4. Become(t, r)
      BY <1>4
    <2> HIDE DEF r
    <2>5. TxOK(r)
      BY <2>2, <2>3, AtWork DEF TxOK
    <2>6. ASSUME NEW v \in Users
          PROVE  IF row'[v] = t THEN Chained(bal[v], r.pend[v], r.mem[v])
                                ELSE r.pend[v] = <<>>
      <3>1. /\ row'[v] = (IF v = u THEN t ELSE row[v])
            /\ r.mem[v] = (IF v = u THEN bal[v] ELSE tx[t].mem[v])
            /\ PendingOK(t, v, tx[t])
        BY <1>1, <2>1, <2>2, AtWork DEF TxType
      <3>2. CASE v = u
        BY <2>1, <2>2, <3>1, <3>2, ChainEmpty DEF PendingOK
      <3>3. CASE v # u
        BY <2>2, <3>1, <3>3 DEF PendingOK
      <3> QED BY <3>2, <3>3
    <2>7. /\ row' \in [Users -> Txs \cup {Nobody}]
          /\ \A v \in Users : row'[v] = row[v] \/ (row[v] = Nobody /\ row'[v] = t)
      BY <2>1, AtWork
    <2> QED BY <1>1, <1>2, <2>2, <2>4, <2>5, <2>6, <2>7, WorkInv
  <1> QED BY <1>3, <1>4 DEF LockRow

LEMMA DecideInv ==
  ASSUME LedgerInv, NEW t \in Txs, Decide(t)
  PROVE  LedgerInv'
  <1>1. tx[t].pc = "decide" /\ tx[t] \in TxType
    BY AtWork DEF Decide, At
  <1>2. CASE Rollback(t, "refused")
    BY <1>1, <1>2, RollbackInv DEF Ended
  <1>3. CASE /\ \E pc \in {"take", "settle"} : Goto(t, pc)
             /\ UNCHANGED <<bal, row, flows, stock, cardLock>>
    <2>1. PICK pc \in {"take", "settle"} : Goto(t, pc)
      BY <1>3
    <2>2. TxOK([tx[t] EXCEPT !.pc = pc])
      BY <1>1, GotoOK DEF Active
    <2>3. stock' \in Seq(Codes)
      BY <1>3, AtWork
    <2> QED BY <1>1, <1>3, <2>1, <2>2, <2>3, GoOnInv DEF Goto, TxType, Active
  <1> QED BY <1>2, <1>3 DEF Decide

LEMMA PickupTakeInv ==
  ASSUME LedgerInv, NEW t \in Txs, PickupTake(t)
  PROVE  LedgerInv'
  <1>1. tx[t].pc = "take" /\ tx[t] \in TxType
    BY AtWork DEF PickupTake, At
  <1>2. CASE Goto(t, "settle") /\ UNCHANGED <<bal, row, flows, stock, cardLock>>
    <2>1. TxOK([tx[t] EXCEPT !.pc = "settle"])
      BY <1>1, GotoOK DEF Active
    <2>2. stock' \in Seq(Codes)
      BY <1>2, AtWork
    <2> QED BY <1>1, <1>2, <2>1, <2>2, GoOnInv DEF Goto, TxType, Active
  <1>3. CASE /\ tx[t].seen # <<>> /\ cardLock' = t
             /\ Become(t, [tx[t] EXCEPT !.pc = "settle", !.got = Head(tx[t].seen),
                                        !.seen = Tail(tx[t].seen)])
             /\ UNCHANGED <<bal, row, flows, stock>>
    <2> DEFINE g == [tx[t] EXCEPT !.pc = "settle"]
               r == [tx[t] EXCEPT !.pc = "settle", !.got = Head(tx[t].seen),
                                  !.seen = Tail(tx[t].seen)]
    <2>1. tx[t].seen \in Seq(Codes)
      BY <1>1 DEF TxType
    <2>2. Head(tx[t].seen) \in Codes /\ Tail(tx[t].seen) \in Seq(Codes)
      BY <1>3, <2>1, HeadTailProperties
    <2>3. TxOK(g)
      BY <1>1, GotoOK DEF Active
    <2>4. /\ r \in TxType /\ r.pc = "settle" /\ r.mem = tx[t].mem /\ r.pend = tx[t].pend
          /\ g.pc = "settle" /\ r.leg = g.leg /\ r.deal = g.deal
      BY <1>1, <2>2 DEF TxType, Active
    <2>5. stock' \in Seq(Codes)
      BY <1>3, AtWork
    <2> HIDE DEF r, g
    <2>6. TxOK(r)
      BY <2>3, <2>4 DEF TxOK
    <2>7. Become(t, r)
      BY <1>3 DEF r
    <2> QED BY <1>3, <2>4, <2>5, <2>6, <2>7, GoOnInv DEF Active
  <1>4. CASE Rollback(t, "refused")
    BY <1>1, <1>4, RollbackInv DEF Ended
  <1> QED BY <1>2, <1>3, <1>4 DEF PickupTake

LEMMA BookInv ==
  ASSUME LedgerInv, NEW t \in Txs, Book(t)
  PROVE  LedgerInv'
  <1> DEFINE ls == Legs(tx[t].deal)
             l == ls[tx[t].leg]
             u == l.user
  <1>1. /\ tx[t].pc = "settle" /\ tx[t] \in TxType /\ tx[t].deal \in Deal
        /\ tx[t].leg \in 1 .. Len(ls)
    BY AtWork DEF Book, At, TxOK
  <1>2. ls \in Seq(LegType) /\ Len(ls) \in 1 .. 5
    BY <1>1, LegsOK
  <1>3. l \in LegType
    <2> HIDE DEF ls
    <2> QED BY <1>1, <1>2, ElementOfSeq
  <1>4. u \in Users /\ l.amount \in Int
    BY <1>3 DEF LegType
  <1>5. PICK b \in Int :
          /\ \/ row[u] = t /\ row' = row /\ b = tx[t].mem[u]
             \/ row[u] = Nobody /\ row' = [row EXCEPT ![u] = t] /\ b = bal[u]
          /\ Become(t, Booked(t, u, b, l.amount))
    <2>1. tx[t].mem[u] \in Int /\ bal[u] \in Int
      BY <1>1, <1>4, AtWork DEF TxType
    <2> QED BY <2>1 DEF Book, Grab
  <1>6. UNCHANGED <<bal, flows, stock, cardLock>>
    BY DEF Book
  <1> DEFINE a == l.amount
             e == [before |-> b, after |-> b + a]
             r == Booked(t, u, b, a)
  <1> HIDE DEF l, u, a, ls
  <1>7. /\ a \in Int /\ u \in Users /\ b + a \in Int /\ e \in FlowRow
        /\ tx[t].pend[u] \in Seq(FlowRow)
    BY <1>1, <1>4 DEF FlowRow, TxType, a
  <1>8. Append(tx[t].pend[u], e) \in Seq(FlowRow)
    BY <1>7, AppendProperties
  <1>9. /\ r = [tx[t] EXCEPT !.mem[u] = b + a,
                             !.pend[u] = Append(tx[t].pend[u], e),
                             !.leg = tx[t].leg + 1,
                             !.pc = IF tx[t].leg = Len(ls) THEN "commit" ELSE "settle"]
    BY <1>1 DEF Booked, ls, TxType
  <1> HIDE DEF r, e
  <1>10. /\ r \in TxType /\ r.deal = tx[t].deal /\ r.leg = tx[t].leg + 1
         /\ r.pc = IF tx[t].leg = Len(ls) THEN "commit" ELSE "settle"
         /\ r.mem = [tx[t].mem EXCEPT ![u] = b + a]
         /\ r.pend = [tx[t].pend EXCEPT ![u] = Append(tx[t].pend[u], e)]
    <2>1. tx[t].leg + 1 \in 1 .. 6
      BY <1>1, <1>2, LegBounds
    <2> QED BY <1>1, <1>7, <1>8, <1>9, <2>1 DEF TxType, Active
  <1>11. TxOK(r) /\ r.pc \in Active
    BY <1>1, <1>2, <1>10, LegBounds DEF TxOK, Active, ls
  <1>12. /\ row' \in [Users -> Txs \cup {Nobody}]
         /\ \A v \in Users : row'[v] = IF v = u THEN t ELSE row[v]
         /\ row[u] # t => row[u] = Nobody
    BY <1>5, <1>7, AtWork
  <1>13. ASSUME NEW v \in Users
         PROVE  IF row'[v] = t THEN Chained(bal[v], r.pend[v], r.mem[v])
                               ELSE r.pend[v] = <<>>
    <2>1. PendingOK(t, v, tx[t])
      BY AtWork
    <2>2. CASE v = u
      <3>1. r.pend[v] = Append(tx[t].pend[u], e) /\ r.mem[v] = b + a /\ row'[v] = t
        BY <2>2, <1>1, <1>7, <1>10, <1>12 DEF TxType
      <3>2. Chained(bal[u], tx[t].pend[u], b)
        BY <2>1, <2>2, <1>5, ChainEmpty, SettlementAssumption DEF PendingOK
      <3>3. bal[u] \in Int
        BY <1>7, AtWork
      <3>4. Chained(bal[u], Append(tx[t].pend[u], e), b + a)
        BY <3>2, <3>3, <1>7, ChainAppend DEF e
      <3> QED BY <2>2, <3>1, <3>4
    <2>3. CASE v # u
      <3>1. r.pend[v] = tx[t].pend[v] /\ r.mem[v] = tx[t].mem[v] /\ row'[v] = row[v]
        BY <2>3, <1>1, <1>10, <1>12 DEF TxType
      <3> QED BY <2>1, <3>1 DEF PendingOK
    <2> QED BY <2>2, <2>3
  <1>14. /\ Become(t, r) /\ stock' \in Seq(Codes)
         /\ \A v \in Users : row'[v] = row[v] \/ (row[v] = Nobody /\ row'[v] = t)
    BY <1>5, <1>6, <1>12, AtWork DEF r, a
  <1> QED BY <1>6, <1>11, <1>12, <1>13, <1>14, WorkInv

LEMMA CommitInv ==
  ASSUME LedgerInv, NEW t \in Txs, Commit(t)
  PROVE  LedgerInv'
  <1> DEFINE r == [Fresh EXCEPT !.pc = "done", !.deal = tx[t].deal, !.ok = tx[t].ok,
                               !.got = tx[t].got]
  <1>1. /\ tx[t].pc = "commit" /\ tx[t] \in TxType /\ tx[t].deal \in Deal
    BY AtWork DEF Commit, At
  <1>2. /\ tx[t].mem \in [Users -> Int] /\ tx[t].pend \in [Users -> Seq(FlowRow)]
        /\ tx[t].seen \in Seq(Codes)
    BY <1>1 DEF TxType
  <1>3. /\ r \in TxType /\ r.pc = "done" /\ r.deal = tx[t].deal
        /\ r.leg = Fresh.leg /\ r.pend = Fresh.pend
    BY <1>1, FreshFields DEF TxType, Ended
  <1>4. Become(t, r)
    BY DEF Commit
  <1> HIDE DEF r
  <1>5. TxOK(r) /\ \A u \in Users : r.pend[u] = <<>>
    BY <1>1, <1>3, FreshFields, FreshOK
  <1>6. /\ row' = [u \in Users |-> IF row[u] = t THEN Nobody ELSE row[u]]
        /\ cardLock' = IF cardLock = t THEN Nobody ELSE cardLock
        /\ bal' = [u \in Users |-> IF row[u] = t THEN tx[t].mem[u] ELSE bal[u]]
        /\ flows' = [u \in Users |-> IF row[u] = t THEN flows[u] \o tx[t].pend[u]
                                                  ELSE flows[u]]
        /\ stock' = IF cardLock = t THEN tx[t].seen ELSE stock
    BY DEF Commit
  <1>7. stock' \in Seq(Codes) /\ bal' \in [Users -> Int]
    BY <1>2, <1>6, AtWork
  <1>8. ASSUME NEW u \in Users
        PROVE  flows'[u] \in Seq(FlowRow) /\ Chained(Opening[u], flows'[u], bal'[u])
    <2>1. /\ flows[u] \in Seq(FlowRow) /\ tx[t].pend[u] \in Seq(FlowRow)
          /\ Opening[u] \in Int /\ bal[u] \in Int /\ tx[t].mem[u] \in Int
      BY <1>2, AtWork, SettlementAssumption
    <2>2. Chained(Opening[u], flows[u], bal[u])
      BY DEF LedgerInv, LedgerAgrees
    <2>3. CASE row[u] = t
      <3>1. flows'[u] = flows[u] \o tx[t].pend[u] /\ bal'[u] = tx[t].mem[u]
        BY <1>6, <2>3
      <3>2. Chained(bal[u], tx[t].pend[u], tx[t].mem[u])
        BY <2>3, AtWork DEF PendingOK
      <3>3. flows[u] \o tx[t].pend[u] \in Seq(FlowRow)
        BY <2>1, ConcatProperties
      <3> QED BY <2>1, <2>2, <3>1, <3>2, <3>3, ChainConcat
    <2>4. CASE row[u] # t
      BY <1>6, <2>1, <2>2, <2>4
    <2> QED BY <2>3, <2>4
  <1>9. flows' \in [Users -> Seq(FlowRow)]
    BY <1>6, <1>8
  <1>10. \A u \in Users : row[u] # t => bal'[u] = bal[u]
    BY <1>6
  <1> QED BY <1>4, <1>5, <1>6, <1>7, <1>8, <1>9, <1>10, EndInv

\* Only a transaction at work waits.
LEMMA WaitsAtWork ==
  ASSUME NEW t, Waits(t)
  PROVE  tx[t].pc \in {"lock", "take", "settle"}
  BY DEF Waits, Blocker, At

LEMMA LockTimeoutInv ==
  ASSUME LedgerInv, NEW t \in Txs, LockTimeout(t)
  PROVE  LedgerInv'
  <1>1. tx[t] \in TxType /\ tx[t].pc \in {"lock", "take", "settle"}
    BY AtWork, WaitsAtWork DEF LockTimeout
  <1>2. CASE /\ Become(t, [tx[t] EXCEPT !.pc = "commit", !.ok = FALSE])
             /\ UNCHANGED <<bal, row, flows, stock, cardLock>>
    <2> DEFINE r == [tx[t] EXCEPT !.pc = "commit", !.ok = FALSE]
    <2>1. /\ r \in TxType /\ r.pc = "commit" /\ r.deal = tx[t].deal
          /\ r.mem = tx[t].mem /\ r.pend = tx[t].pend
      BY <1>1 DEF TxType, Active
    <2>2. Become(t, r) /\ stock' \in Seq(Codes)
      BY <1>2, AtWork
    <2> HIDE DEF r
    <2>3. TxOK(r)
      BY <1>1, <2>1, AtWork DEF TxOK
    <2> QED BY <1>2, <2>1, <2>2, <2>3, GoOnInv DEF Active
  <1>3. CASE Rollback(t, "refused")
    BY <1>1, <1>3, RollbackInv DEF Ended
  <1> QED BY <1>2, <1>3 DEF LockTimeout

LEMMA GivenUpInv ==
  ASSUME LedgerInv, NEW t \in Txs, DeadlockVictim(t) \/ Fail(t)
  PROVE  LedgerInv'
  <1>1. Rollback(t, "lost")
    BY DEF DeadlockVictim, Fail
  <1>2. tx[t].pc # "idle"
    BY WaitsAtWork DEF DeadlockVictim, Fail, Active
  <1> QED BY <1>1, <1>2, RollbackInv DEF Ended

-----------------------------------------------------------------------------
\* The theorems.

LEMMA InitInv == Init => LedgerInv
  <1> SUFFICES ASSUME Init PROVE LedgerInv
    OBVIOUS
  <1>1. /\ bal = Opening /\ stock = Stock /\ cardLock = Nobody
        /\ row = [u \in Users |-> Nobody] /\ flows = [u \in Users |-> <<>>]
        /\ tx = [t \in Txs |-> Fresh]
    BY DEF Init
  <1>2. flows \in [Users -> Seq(FlowRow)]
    BY <1>1, EmptySeq
  <1>3. TypeOK
    <2>1. \A t \in Txs : cardLock # t /\ Held(t) = {}
      BY <1>1, SettlementAssumption DEF Held
    <2>2. tx \in [Txs -> TxType]
      BY <1>1, FreshFields
    <2>3. /\ bal \in [Users -> Int] /\ row \in [Users -> Txs \cup {Nobody}]
          /\ stock \in Seq(Codes) /\ cardLock \in Txs \cup {Nobody}
      BY <1>1, SettlementAssumption
    <2> QED BY <1>2, <2>1, <2>2, <2>3 DEF TypeOK
  <1>4. \A t \in Txs : TxOK(tx[t])
    BY <1>1, FreshFields DEF TxOK
  <1>5. LedgerAgrees
    BY <1>1, ChainEmpty DEF LedgerAgrees
  <1>6. \A t \in Txs, u \in Users : PendingOK(t, u, tx[t])
    BY <1>1, FreshFields, SettlementAssumption DEF PendingOK
  <1> QED BY <1>3, <1>4, <1>5, <1>6 DEF LedgerInv, TypeInv

LEMMA NextInv == LedgerInv /\ [Next]_vars => LedgerInv'
  <1> SUFFICES ASSUME LedgerInv, [Next]_vars PROVE LedgerInv'
    OBVIOUS
  <1>1. ASSUME NEW t \in Txs, Begin(t) PROVE LedgerInv'
    BY <1>1, BeginInv
  <1>2. ASSUME NEW t \in Txs, OrderTake(t) PROVE LedgerInv'
    BY <1>2, OrderTakeInv
  <1>3. ASSUME NEW t \in Txs, LockRow(t) PROVE LedgerInv'
    BY <1>3, LockRowInv
  <1>4. ASSUME NEW t \in Txs, Decide(t) PROVE LedgerInv'
    BY <1>4, DecideInv
  <1>5. ASSUME NEW t \in Txs, PickupTake(t) PROVE LedgerInv'
    BY <1>5, PickupTakeInv
  <1>6. ASSUME NEW t \in Txs, Book(t) PROVE LedgerInv'
    BY <1>6, BookInv
  <1>7. ASSUME NEW t \in Txs, Commit(t) PROVE LedgerInv'
    BY <1>7, CommitInv
  <1>8. ASSUME NEW t \in Txs, DeadlockVictim(t) \/ Fail(t) PROVE LedgerInv'
    BY <1>8, GivenUpInv
  <1>9. ASSUME NEW t \in Txs, LockTimeout(t) PROVE LedgerInv'
    BY <1>9, LockTimeoutInv
  <1>10. CASE UNCHANGED vars
    BY <1>10 DEF vars, LedgerInv, TypeInv, TypeOK, Held, LedgerAgrees, PendingOK
  <1> QED BY <1>1, <1>2, <1>3, <1>4, <1>5, <1>6, <1>7, <1>8, <1>9, <1>10 DEF Next, Step

LEMMA LedgerInvariant == Spec => []LedgerInv
  BY InitInv, NextInv, PTL DEF Spec

(***************************************************************************)
(* Whatever deals are closed at the same time, whichever of them is cut    *)
(* off by a timeout, a deadlock or a lost connection: every transaction    *)
(* stays inside its deal's settlement, and no lock outlives its holder.    *)
(***************************************************************************)
THEOREM LocksReleased == Spec => []TypeOK
  <1>1. LedgerInv => TypeOK
    BY DEF LedgerInv, TypeInv
  <1> QED BY <1>1, LedgerInvariant, PTL

(***************************************************************************)
(* The ledger: each user's committed flows lead from the opening balance   *)
(* to the stored one without a gap.  No update of a balance is lost, for   *)
(* any number of users and of transactions that book on the same rows.     *)
(***************************************************************************)
THEOREM LedgerKept == Spec => []LedgerAgrees
  <1>1. LedgerInv => LedgerAgrees
    BY DEF LedgerInv
  <1> QED BY <1>1, LedgerInvariant, PTL

-----------------------------------------------------------------------------
(***************************************************************************)
(* What a transaction at work knows of its rows.  After its first leg - 1  *)
(* legs it holds their users' rows, and its balance of a row it holds is   *)
(* the committed one with these legs.                                      *)
(***************************************************************************)
Amount(d, i)  == IF i \in 1 .. Len(Legs(d)) THEN Legs(d)[i].amount ELSE 0
Part(d, i, u) == IF i \in 1 .. Len(Legs(d)) /\ Legs(d)[i].user = u
                 THEN Legs(d)[i].amount ELSE 0
Past(d, k, i, u) == IF i < k THEN Part(d, i, u) ELSE 0
Moved(d, k, u) == Past(d, k, 1, u) + Past(d, k, 2, u) + Past(d, k, 3, u)
                    + Past(d, k, 4, u) + Past(d, k, 5, u)

BooksOK(t, r) ==
  r.pc \in Active =>
    /\ r.leg <= Len(Legs(r.deal)) + 1
    /\ r.pc = "commit" /\ r.ok => r.leg = Len(Legs(r.deal)) + 1
    /\ \A i \in 1 .. r.leg - 1 : row[Legs(r.deal)[i].user] = t
    /\ \A u \in Users : row[u] = t => r.mem[u] = bal[u] + Moved(r.deal, r.leg, u)

(***************************************************************************)
(* A transaction that is no order's locks its parties' rows in ascending   *)
(* order, all of them before it decides, and no other row; once it has     *)
(* decided, every party can bear what the settlement will do to it.        *)
(***************************************************************************)
Bears(d, u) == NetDelta(d, u) < 0 => bal[u] + NetDelta(d, u) >= 0

SortedOK(t, r) ==
  r.pc \in Active /\ r.deal.kind # "order" =>
    /\ r.ok
    /\ \A u \in Users : row[u] = t => u \in Parties(r.deal)
    /\ r.pc = "lock" =>
         \A u, v \in Parties(r.deal) : row[u] = t /\ row[v] # t => u < v
    /\ r.pc # "lock" => \A u \in Parties(r.deal) : row[u] = t
    /\ r.pc \in {"take", "settle", "commit"} => \A u \in Parties(r.deal) : Bears(r.deal, u)

\* The card's row is held by a pickup that has its code.
CardOK == cardLock \in Txs =>
  tx[cardLock].pc \in {"settle", "commit"} /\ tx[cardLock].deal.kind = "pickup"

RowsInv == (\A t \in Txs : BooksOK(t, tx[t]) /\ SortedOK(t, tx[t])) /\ CardOK

-----------------------------------------------------------------------------
\* The legs of a settlement, one by one.

LEMMA Sums ==
  /\ CardPrice \in Int /\ SubPrice \in Int /\ Fee \in Int
  /\ \A d \in Deal : d.amount \in Int
  BY SettlementAssumption, DealFields

LEMMA LegFields == \A u, a : Leg(u, a).user = u /\ Leg(u, a).amount = a
  BY DEF Leg

LEMMA TupleEntries ==
  /\ \A x : <<x>> \in Seq({x}) /\ Len(<<x>>) = 1 /\ <<x>>[1] = x
  /\ \A x, y : <<x, y>> \in Seq({x, y}) /\ Len(<<x, y>>) = 2
                 /\ <<x, y>>[1] = x /\ <<x, y>>[2] = y
  /\ \A x, y, z : <<x, y, z>> \in Seq({x, y, z}) /\ Len(<<x, y, z>>) = 3
                 /\ <<x, y, z>>[1] = x /\ <<x, y, z>>[2] = y /\ <<x, y, z>>[3] = z
  OBVIOUS

LEMMA Concat131 ==
  ASSUME NEW a, NEW x, NEW y, NEW z, NEW b
  PROVE  LET s == <<a>> \o <<x, y, z>> \o <<b>>
         IN  /\ Len(s) = 5 /\ s[1] = a /\ s[2] = x /\ s[3] = y /\ s[4] = z /\ s[5] = b
  OBVIOUS

LEMMA Concat23 ==
  ASSUME NEW a, NEW b, NEW x, NEW y, NEW z
  PROVE  LET s == <<a, b>> \o <<x, y, z>>
         IN  /\ Len(s) = 5 /\ s[1] = a /\ s[2] = b /\ s[3] = x /\ s[4] = y /\ s[5] = z
  OBVIOUS

Sold(d) == d.kind \in {"order", "pickup"}

\* The legs of each kind of deal.
LEMMA LegsAre ==
  ASSUME NEW d \in Deal
  PROVE  LET ls == Legs(d)
             ByOwner == d.payer = "distributor"
         IN
         /\ d.kind = "withdraw" => Len(ls) = 1 /\ ls[1] = Leg(d.dealer, -d.amount)
         /\ d.kind = "income"   => Len(ls) = 1 /\ ls[1] = Leg(d.dealer, d.amount)
         /\ Sold(d) /\ d.level = 1 =>
              /\ Len(ls) = 3 /\ ls[1] = Leg(d.dealer, -CardPrice)
              /\ ByOwner => ls[2] = Leg(d.owner, CardPrice) /\ ls[3] = Leg(d.owner, -Fee)
              /\ ~ByOwner => ls[2] = Leg(d.dealer, -Fee) /\ ls[3] = Leg(d.owner, CardPrice)
         /\ Sold(d) /\ d.level = 2 =>
              /\ Len(ls) = 5 /\ ls[1] = Leg(d.dealer, -SubPrice)
              /\ ByOwner =>
                   /\ ls[2] = Leg(d.level1, SubPrice) /\ ls[3] = Leg(d.level1, -CardPrice)
                   /\ ls[4] = Leg(d.owner, CardPrice) /\ ls[5] = Leg(d.owner, -Fee)
              /\ ~ByOwner =>
                   /\ ls[2] = Leg(d.dealer, -Fee) /\ ls[3] = Leg(d.level1, SubPrice)
                   /\ ls[4] = Leg(d.level1, -CardPrice) /\ ls[5] = Leg(d.owner, CardPrice)
  <1>1. CASE d.kind = "withdraw"
    BY <1>1, TupleEntries DEF Legs, Sold
  <1>2. CASE d.kind = "income"
    BY <1>2, TupleEntries DEF Legs, Sold
  <1>3. CASE Sold(d) /\ d.level = 1
    <2>1. Legs(d) = SettleLevel1(d) /\ d.kind # "withdraw" /\ d.kind # "income" /\ d.level # 2
      BY <1>3 DEF Legs, Sold
    <2> QED BY <1>3, <2>1, TupleEntries DEF SettleLevel1
  <1>4. CASE Sold(d) /\ d.level = 2
    <2>1. Legs(d) = SettleLevel2(d) /\ d.kind # "withdraw" /\ d.kind # "income" /\ d.level # 1
      BY <1>4 DEF Legs, Sold
    <2>2. CASE d.payer = "distributor"
      BY <1>4, <2>1, <2>2, Concat131 DEF SettleLevel2
    <2>3. CASE d.payer # "distributor"
      BY <1>4, <2>1, <2>3, Concat23 DEF SettleLevel2
    <2> QED BY <2>2, <2>3
  <1> QED BY <1>1, <1>2, <1>3, <1>4, DealFields DEF Sold, Kinds

LEMMA PartInt ==
  ASSUME NEW d \in Deal, NEW i \in 1 .. 5, NEW u
  PROVE  Part(d, i, u) \in Int /\ Amount(d, i) \in Int
  <1>1. CASE i \in 1 .. Len(Legs(d))
    <2>1. Legs(d)[i] \in LegType
      BY <1>1, LegsOK, ElementOfSeq
    <2> QED BY <2>1 DEF Part, Amount, LegType
  <1>2. CASE i \notin 1 .. Len(Legs(d))
    BY <1>2 DEF Part, Amount
  <1> QED BY <1>1, <1>2

\* Nothing is moved before the first leg, and each leg adds its part.
LEMMA MovedSteps ==
  ASSUME NEW d \in Deal, NEW u
  PROVE  /\ Moved(d, 1, u) = 0
         /\ \A k \in 1 .. 6 : Moved(d, k, u) \in Int
         /\ \A k \in 1 .. 5 : Moved(d, k + 1, u) = Moved(d, k, u) + Part(d, k, u)
         /\ Moved(d, Len(Legs(d)) + 1, u) = Moved(d, 6, u)
  <1>1. /\ Part(d, 1, u) \in Int /\ Part(d, 2, u) \in Int /\ Part(d, 3, u) \in Int
        /\ Part(d, 4, u) \in Int /\ Part(d, 5, u) \in Int
    BY PartInt
  <1>3. Moved(d, 1, u) = 0
    BY DEF Moved, Past
  <1>4. \A k \in 1 .. 6 : Moved(d, k, u) \in Int
    BY <1>1 DEF Moved, Past
  <1>5. \A k \in 1 .. 5 : Moved(d, k + 1, u) = Moved(d, k, u) + Part(d, k, u)
    BY <1>1 DEF Moved, Past
  <1>6. Moved(d, Len(Legs(d)) + 1, u) = Moved(d, 6, u)
    <2> DEFINE n == Len(Legs(d))
    <2>1. /\ n \in 1 .. 5
          /\ n < 2 => Part(d, 2, u) = 0
          /\ n < 3 => Part(d, 3, u) = 0
          /\ n < 4 => Part(d, 4, u) = 0
          /\ n < 5 => Part(d, 5, u) = 0
      BY LegsOK DEF Part
    <2> HIDE DEF n
    <2>2. Moved(d, n + 1, u) = Moved(d, 6, u)
      <3>1. n = 1 \/ n = 2 \/ n = 3 \/ n = 4 \/ n = 5
        BY <2>1
      <3>2. \A k \in 1 .. 5 : Past(d, n + 1, k, u) = Past(d, 6, k, u)
        BY <2>1, <3>1 DEF Past
      <3> QED BY <3>2 DEF Moved
    <2> QED BY <2>2 DEF n
  <1> QED BY <1>3, <1>4, <1>5, <1>6

LEMMA PartIs ==
  ASSUME NEW d \in Deal, NEW i \in 1 .. 5, NEW u, NEW w, NEW a,
         i <= Len(Legs(d)), Legs(d)[i] = Leg(w, a)
  PROVE  Part(d, i, u) = (IF u = w THEN a ELSE 0) /\ Amount(d, i) = a
  <1>1. Len(Legs(d)) \in 1 .. 5
    BY LegsOK
  <1> QED BY <1>1, LegFields DEF Part, Amount

LEMMA PartsAre ==
  ASSUME NEW d \in Deal, NEW u
  PROVE  /\ \A w, a : 1 <= Len(Legs(d)) /\ Legs(d)[1] = Leg(w, a)
              => Part(d, 1, u) = (IF u = w THEN a ELSE 0) /\ Amount(d, 1) = a
         /\ \A w, a : 2 <= Len(Legs(d)) /\ Legs(d)[2] = Leg(w, a)
              => Part(d, 2, u) = (IF u = w THEN a ELSE 0) /\ Amount(d, 2) = a
         /\ \A w, a : 3 <= Len(Legs(d)) /\ Legs(d)[3] = Leg(w, a)
              => Part(d, 3, u) = (IF u = w THEN a ELSE 0) /\ Amount(d, 3) = a
         /\ \A w, a : 4 <= Len(Legs(d)) /\ Legs(d)[4] = Leg(w, a)
              => Part(d, 4, u) = (IF u = w THEN a ELSE 0) /\ Amount(d, 4) = a
         /\ \A w, a : 5 <= Len(Legs(d)) /\ Legs(d)[5] = Leg(w, a)
              => Part(d, 5, u) = (IF u = w THEN a ELSE 0) /\ Amount(d, 5) = a
         /\ 2 > Len(Legs(d)) => Part(d, 2, u) = 0 /\ Amount(d, 2) = 0
         /\ 3 > Len(Legs(d)) => Part(d, 3, u) = 0 /\ Amount(d, 3) = 0
         /\ 4 > Len(Legs(d)) => Part(d, 4, u) = 0 /\ Amount(d, 4) = 0
         /\ 5 > Len(Legs(d)) => Part(d, 5, u) = 0 /\ Amount(d, 5) = 0
  <1>1. \A i \in 1 .. 5 : \A w, a : i <= Len(Legs(d)) /\ Legs(d)[i] = Leg(w, a)
          => Part(d, i, u) = (IF u = w THEN a ELSE 0) /\ Amount(d, i) = a
    BY PartIs
  <1>2. \A i \in 1 .. 5 : i > Len(Legs(d)) => Part(d, i, u) = 0 /\ Amount(d, i) = 0
    <2>1. Len(Legs(d)) \in 1 .. 5
      BY LegsOK
    <2> QED BY <2>1 DEF Part, Amount
  <1>3. 1 \in 1 .. 5 /\ 2 \in 1 .. 5 /\ 3 \in 1 .. 5 /\ 4 \in 1 .. 5 /\ 5 \in 1 .. 5
    OBVIOUS
  <1> QED BY <1>1, <1>2, <1>3, Zenon

\* What a pickup expects of its settlement is what its legs do, if the card names
\* who pays the fee; and all legs together move what leaves the system.
LEMMA MovedIsNet ==
  ASSUME NEW d \in Deal, NEW u \in Parties(d)
  PROVE  /\ NetDelta(d, u) \in Int
         /\ d.payer # "none" \/ ~Sold(d) => Moved(d, 6, u) = NetDelta(d, u)
         /\ Amount(d, 1) + Amount(d, 2) + Amount(d, 3) + Amount(d, 4) + Amount(d, 5)
              = Outside(d)
  <1> DEFINE C == CardPrice
             S == SubPrice
             nC == -CardPrice
             nS == -SubPrice
             nF == -Fee
             For(w, a) == IF u = w THEN a ELSE 0
             Net == Part(d, 1, u) + Part(d, 2, u) + Part(d, 3, u) + Part(d, 4, u) + Part(d, 5, u)
             Sum == Amount(d, 1) + Amount(d, 2) + Amount(d, 3) + Amount(d, 4) + Amount(d, 5)
  <1>0. Moved(d, 6, u) = Net
    BY DEF Moved, Past
  <1>1. /\ d.amount \in Int /\ C \in Int /\ S \in Int /\ nC \in Int /\ nS \in Int /\ nF \in Int
        /\ C + nC = 0 /\ S + nS = 0
        /\ d.level \in {1, 2} /\ d.payer \in {"dealer", "distributor", "none"}
    BY Sums, DealFields
  <1>2. CASE d.kind \in {"withdraw", "income"}
    <2> DEFINE a == IF d.kind = "withdraw" THEN -d.amount ELSE d.amount
    <2>1. Len(Legs(d)) = 1 /\ Legs(d)[1] = Leg(d.dealer, a)
      BY <1>2, LegsAre
    <2>2. Parties(d) = {d.dealer} /\ u = d.dealer
      BY <1>2 DEF Parties
    <2> HIDE DEF a
    <2>3. Part(d, 1, u) = a /\ Amount(d, 1) = a
      BY <2>1, <2>2, PartsAre
    <2>4. /\ Part(d, 2, u) = 0 /\ Part(d, 3, u) = 0 /\ Part(d, 4, u) = 0 /\ Part(d, 5, u) = 0
          /\ Amount(d, 2) = 0 /\ Amount(d, 3) = 0 /\ Amount(d, 4) = 0 /\ Amount(d, 5) = 0
      BY <2>1, PartsAre
    <2> QED BY <1>0, <1>1, <1>2, <2>3, <2>4 DEF NetDelta, Outside, a
  <1>3. ASSUME Sold(d)
        PROVE  /\ NetDelta(d, u) =
                    (IF d.level = 1 THEN For(d.dealer, nC) + For(d.owner, C)
                     ELSE For(d.dealer, nS) + For(d.level1, S + nC) + For(d.owner, C))
                    + (IF d.payer = "dealer" THEN For(d.dealer, nF) ELSE For(d.owner, nF))
               /\ Outside(d) = nF
    <2>1. d.kind # "withdraw" /\ d.kind # "income"
      BY <1>3 DEF Sold
    <2> DEFINE payer == IF d.payer = "dealer" THEN d.dealer ELSE d.owner
    <2>2. NetDelta(d, u) = For(d.dealer, -Cost(d))
                             + (IF d.level = 2 /\ u = d.level1 THEN SubPrice - CardPrice ELSE 0)
                             + For(d.owner, CardPrice) - For(payer, Fee)
      BY <2>1 DEF NetDelta
    <2>3. For(payer, Fee) \in Int /\ -For(payer, Fee) = For(payer, nF)
      BY Sums
    <2>4. For(payer, nF) = IF d.payer = "dealer" THEN For(d.dealer, nF) ELSE For(d.owner, nF)
      OBVIOUS
    <2>5. CASE d.level = 1
      <3>1. For(d.dealer, -Cost(d)) = For(d.dealer, nC) /\ For(d.dealer, nC) \in Int
            /\ (IF d.level = 2 /\ u = d.level1 THEN SubPrice - CardPrice ELSE 0) = 0
            /\ For(d.owner, CardPrice) = For(d.owner, C) /\ For(d.owner, C) \in Int
        BY <2>5, Sums DEF Cost
      <3> HIDE DEF For
      <3> QED BY <2>1, <2>2, <2>3, <2>4, <2>5, <3>1 DEF Outside
    <2>6. CASE d.level = 2
      <3>1. For(d.dealer, -Cost(d)) = For(d.dealer, nS) /\ For(d.dealer, nS) \in Int
            /\ (IF d.level = 2 /\ u = d.level1 THEN SubPrice - CardPrice ELSE 0)
                 = For(d.level1, S + nC)
            /\ For(d.level1, S + nC) \in Int
            /\ For(d.owner, CardPrice) = For(d.owner, C) /\ For(d.owner, C) \in Int
        BY <2>6, Sums DEF Cost
      <3>2. d.level # 1
        BY <2>6
      <3> HIDE DEF For
      <3> QED BY <2>1, <2>2, <2>3, <2>4, <3>1, <3>2 DEF Outside
    <2> QED BY <1>1, <2>5, <2>6
  <1>4. Sold(d) => LET ls == Legs(d) IN
          /\ d.level = 1 =>
               /\ Len(ls) = 3 /\ ls[1] = Leg(d.dealer, nC)
               /\ d.payer = "distributor" => ls[2] = Leg(d.owner, C) /\ ls[3] = Leg(d.owner, nF)
               /\ d.payer # "distributor" => ls[2] = Leg(d.dealer, nF) /\ ls[3] = Leg(d.owner, C)
          /\ d.level = 2 =>
               /\ Len(ls) = 5 /\ ls[1] = Leg(d.dealer, nS)
               /\ d.payer = "distributor" =>
                    /\ ls[2] = Leg(d.level1, S) /\ ls[3] = Leg(d.level1, nC)
                    /\ ls[4] = Leg(d.owner, C) /\ ls[5] = Leg(d.owner, nF)
               /\ d.payer # "distributor" =>
                    /\ ls[2] = Leg(d.dealer, nF) /\ ls[3] = Leg(d.level1, S)
                    /\ ls[4] = Leg(d.level1, nC) /\ ls[5] = Leg(d.owner, C)
    BY LegsAre
  <1> HIDE DEF C, S, nC, nS, nF
  <1>5. CASE Sold(d) /\ d.level = 1
    <2>1. /\ Len(Legs(d)) = 3 /\ Legs(d)[1] = Leg(d.dealer, nC)
      BY <1>4, <1>5
    <2>2. /\ Part(d, 1, u) = For(d.dealer, nC) /\ Amount(d, 1) = nC
          /\ Part(d, 4, u) = 0 /\ Part(d, 5, u) = 0 /\ Amount(d, 4) = 0 /\ Amount(d, 5) = 0
      <3>1. Part(d, 1, u) = For(d.dealer, nC) /\ Amount(d, 1) = nC
        BY <2>1, PartsAre
      <3>2. 4 > Len(Legs(d)) /\ 5 > Len(Legs(d))
        BY <2>1
      <3>3. Part(d, 4, u) = 0 /\ Part(d, 5, u) = 0 /\ Amount(d, 4) = 0 /\ Amount(d, 5) = 0
        BY <3>2, PartsAre, Zenon
      <3> QED BY <3>1, <3>3
    <2>3. CASE d.payer = "distributor"
      <3>1. Legs(d)[2] = Leg(d.owner, C) /\ Legs(d)[3] = Leg(d.owner, nF)
        BY <1>4, <1>5, <2>3
      <3>2. /\ Part(d, 2, u) = For(d.owner, C) /\ Amount(d, 2) = C
            /\ Part(d, 3, u) = For(d.owner, nF) /\ Amount(d, 3) = nF
        BY <2>1, <3>1, PartsAre
      <3> QED BY <1>0, <1>1, <1>3, <1>5, <2>2, <2>3, <3>2
    <2>4. CASE d.payer # "distributor"
      <3>1. Legs(d)[2] = Leg(d.dealer, nF) /\ Legs(d)[3] = Leg(d.owner, C)
        BY <1>4, <1>5, <2>4
      <3>2. /\ Part(d, 2, u) = For(d.dealer, nF) /\ Amount(d, 2) = nF
            /\ Part(d, 3, u) = For(d.owner, C) /\ Amount(d, 3) = C
        BY <2>1, <3>1, PartsAre
      <3> QED BY <1>0, <1>1, <1>3, <1>5, <2>2, <2>4, <3>2
    <2> QED BY <2>3, <2>4
  <1>6. CASE Sold(d) /\ d.level = 2
    <2>1. /\ Len(Legs(d)) = 5 /\ Legs(d)[1] = Leg(d.dealer, nS)
      BY <1>4, <1>6
    <2>2. Part(d, 1, u) = For(d.dealer, nS) /\ Amount(d, 1) = nS
      BY <2>1, PartsAre
    <2>3. /\ For(d.level1, S) + For(d.level1, nC) = For(d.level1, S + nC)
          /\ For(d.level1, S) \in Int /\ For(d.level1, nC) \in Int
          /\ For(d.owner, C) \in Int /\ For(d.owner, nF) \in Int
          /\ For(d.dealer, nS) \in Int /\ For(d.dealer, nF) \in Int
      BY <1>1
    <2>4. d.level # 1
      BY <1>6
    <2>5. CASE d.payer = "distributor"
      <3>1. /\ Legs(d)[2] = Leg(d.level1, S) /\ Legs(d)[3] = Leg(d.level1, nC)
            /\ Legs(d)[4] = Leg(d.owner, C) /\ Legs(d)[5] = Leg(d.owner, nF)
        BY <1>4, <1>6, <2>5
      <3>2. /\ Part(d, 2, u) = For(d.level1, S) /\ Amount(d, 2) = S
            /\ Part(d, 3, u) = For(d.level1, nC) /\ Amount(d, 3) = nC
        BY <2>1, <3>1, PartsAre
      <3>3. /\ Part(d, 4, u) = For(d.owner, C) /\ Amount(d, 4) = C
            /\ Part(d, 5, u) = For(d.owner, nF) /\ Amount(d, 5) = nF
        BY <2>1, <3>1, PartsAre
      <3>4. NetDelta(d, u) = For(d.dealer, nS) + For(d.level1, S + nC) + For(d.owner, C)
                               + For(d.owner, nF)
        BY <1>3, <1>6, <2>4, <2>5
      <3>5. Sum = Outside(d)
        BY <1>1, <1>3, <1>6, <2>2, <3>2, <3>3
      <3> HIDE DEF For
      <3> QED BY <1>0, <2>2, <2>3, <3>2, <3>3, <3>4, <3>5
    <2>6. CASE d.payer # "distributor"
      <3>1. /\ Legs(d)[2] = Leg(d.dealer, nF) /\ Legs(d)[3] = Leg(d.level1, S)
            /\ Legs(d)[4] = Leg(d.level1, nC) /\ Legs(d)[5] = Leg(d.owner, C)
        BY <1>4, <1>6, <2>6
      <3>2. /\ Part(d, 2, u) = For(d.dealer, nF) /\ Amount(d, 2) = nF
            /\ Part(d, 3, u) = For(d.level1, S) /\ Amount(d, 3) = S
        BY <2>1, <3>1, PartsAre
      <3>3. /\ Part(d, 4, u) = For(d.level1, nC) /\ Amount(d, 4) = nC
            /\ Part(d, 5, u) = For(d.owner, C) /\ Amount(d, 5) = C
        BY <2>1, <3>1, PartsAre
      <3>4. /\ d.payer # "none" =>
                 NetDelta(d, u) = For(d.dealer, nS) + For(d.level1, S + nC) + For(d.owner, C)
                                    + For(d.dealer, nF)
            /\ NetDelta(d, u) \in Int
        <4>1. /\ NetDelta(d, u) = For(d.dealer, nS) + For(d.level1, S + nC) + For(d.owner, C)
                  + (IF d.payer = "dealer" THEN For(d.dealer, nF) ELSE For(d.owner, nF))
              /\ For(d.level1, S + nC) \in Int
          BY <1>1, <1>3, <1>6, <2>4
        <4> HIDE DEF For
        <4> QED BY <1>1, <2>3, <2>6, <4>1
      <3>5. Sum = Outside(d)
        BY <1>1, <1>3, <1>6, <2>2, <3>2, <3>3
      <3> HIDE DEF For
      <3> QED BY <1>0, <1>6, <2>2, <2>3, <3>2, <3>3, <3>4, <3>5
    <2> QED BY <2>5, <2>6
  <1> QED BY <1>2, <1>5, <1>6, DealFields DEF Sold, Kinds

\* A deal without an order books on its parties' rows only.
LEMMA LegParties ==
  ASSUME NEW d \in Deal, NEW i \in 1 .. Len(Legs(d))
  PROVE  Legs(d)[i].user \in Parties(d)
  <1>0. Len(Legs(d)) \in 1 .. 5 /\ i \in {1, 2, 3, 4, 5}
    <2> DEFINE n == Len(Legs(d))
    <2>1. n \in 1 .. 5 /\ i \in 1 .. n
      BY LegsOK
    <2> HIDE DEF n
    <2>2. i = 1 \/ i = 2 \/ i = 3 \/ i = 4 \/ i = 5
      BY <2>1
    <2> QED BY <2>1, <2>2 DEF n
  <1>1. CASE d.kind \in {"withdraw", "income"}
    BY <1>0, <1>1, LegsAre, LegFields DEF Parties
  <1>2. CASE Sold(d) /\ d.level = 1
    <2>1. d.kind \notin {"withdraw", "income"} /\ Len(Legs(d)) = 3
      BY <1>2, LegsAre DEF Sold
    <2>2. i = 1 \/ i = 2 \/ i = 3
      BY <2>1, <1>0
    <2>3. Legs(d)[i].user \in {d.dealer, d.owner}
      BY <1>2, <2>2, LegsAre, LegFields
    <2> QED BY <2>1, <2>3 DEF Parties
  <1>3. CASE Sold(d) /\ d.level = 2
    <2>1. d.kind \notin {"withdraw", "income"}
      BY <1>3 DEF Sold
    <2>2. Legs(d)[i].user \in {d.dealer, d.owner, d.level1}
      BY <1>0, <1>3, LegsAre, LegFields
    <2> QED BY <1>3, <2>1, <2>2 DEF Parties
  <1> QED BY <1>1, <1>2, <1>3, DealFields DEF Sold, Kinds

-----------------------------------------------------------------------------
\* Induction on natural numbers, for a set in place of a predicate.

LEMMA LessWellFounded == IsWellFoundedOn({p \in Nat \X Nat : p[1] < p[2]}, Nat)
  BY NatLessThanWellFounded DEF OpToRel

LEMMA LeastElement ==
  ASSUME NEW S \in SUBSET Nat, S # {}
  PROVE  \E m \in S : \A n \in S : m <= n
  <1> DEFINE Less == {p \in Nat \X Nat : p[1] < p[2]}
  <1>1. PICK m \in S : \A n \in S : <<n, m>> \notin Less
    <2>1. IsWellFoundedOn(Less, Nat)
      BY LessWellFounded
    <2> HIDE DEF Less
    <2> QED BY <2>1, WFMin
  <1>2. ASSUME NEW n \in S PROVE m <= n
    <2>1. m \in Nat /\ n \in Nat /\ <<n, m>> \in Nat \X Nat
      OBVIOUS
    <2>2. n < m => <<n, m>> \in Less
      BY <2>1
    <2> QED BY <1>1, <2>1, <2>2
  <1> QED BY <1>2

LEMMA SetInduction ==
  ASSUME NEW N \in Nat, NEW S, 0 \in S, \A n \in 0 .. N - 1 : n \in S => n + 1 \in S
  PROVE  \A n \in 0 .. N : n \in S
  <1> SUFFICES ASSUME NEW k \in 0 .. N, k \notin S PROVE FALSE
    OBVIOUS
  <1> DEFINE Out == {n \in 0 .. N : n \notin S}
  <1>1. PICK m \in Out : \A n \in Out : m <= n
    <2>1. Out \in SUBSET Nat /\ Out # {}
      OBVIOUS
    <2> QED BY <2>1, LeastElement
  <1>2. m - 1 \in 0 .. N - 1 /\ m - 1 \in S
    BY <1>1
  <1> QED BY <1>1, <1>2

-----------------------------------------------------------------------------
\* The sum of all balances.

\* What FoldFunction does for the users s: g is the sum of f.
One(s) == CHOOSE u \in s : TRUE
SumStep(f, g, s) == IF s = {} THEN 0 ELSE f[One(s)] + g[s \ {One(s)}]
SumFcn(f) == CHOOSE g : g = [s \in SUBSET DOMAIN f |-> SumStep(f, g, s)]

LEMMA TotalIsSum == Total = SumFcn(bal)[DOMAIN bal] /\ Total' = SumFcn(bal')[DOMAIN bal']
  BY DEF Total, FoldFunction, FoldFunctionOnSet, MapThenFoldSet, SumFcn, SumStep, One

LEMMA Without ==
  ASSUME IsFiniteSet(Users), NEW s \in SUBSET Users, s # {}
  PROVE  /\ One(s) \in s /\ s \ {One(s)} \in SUBSET Users
         /\ Cardinality(s) \in Nat /\ Cardinality(s) # 0
         /\ Cardinality(s \ {One(s)}) = Cardinality(s) - 1
  <1>1. One(s) \in s
    BY DEF One
  <1>2. IsFiniteSet(s) /\ Cardinality(s) \in Nat
    BY FS_Subset, FS_CardinalityType
  <1>3. Cardinality(s) # 0
    BY <1>2, FS_EmptySet
  <1>4. Cardinality(s \ {One(s)}) = Cardinality(s) - 1
    BY <1>1, <1>2, FS_RemoveElement
  <1> QED BY <1>1, <1>2, <1>3, <1>4

\* There is such a function: it is built up for larger and larger sets.
LEMMA SumFcnExists ==
  ASSUME IsFiniteSet(Users), NEW f, DOMAIN f = Users
  PROVE  SumFcn(f) = [s \in SUBSET Users |-> SumStep(f, SumFcn(f), s)]
  <1> DEFINE Small(n) == {s \in SUBSET Users : Cardinality(s) <= n}
             Built(n, g) == DOMAIN g = Small(n) /\ \A s \in Small(n) : g[s] = SumStep(f, g, s)
             N == Cardinality(Users)
             Can == {n \in 0 .. N : \E g : Built(n, g)}
  <1>1. N \in Nat /\ \A s \in SUBSET Users : Cardinality(s) \in 0 .. N
    BY FS_Subset, FS_CardinalityType
  <1>2. 0 \in Can
    <2> DEFINE g == [s \in Small(0) |-> 0]
    <2>1. \A s \in Small(0) : s = {}
      BY <1>1, FS_Subset, FS_EmptySet
    <2>2. Built(0, g)
      BY <2>1 DEF SumStep
    <2> HIDE DEF g, Built
    <2> QED BY <1>1, <2>2
  <1>3. ASSUME NEW n \in 0 .. N - 1, n \in Can
        PROVE  n + 1 \in Can
    <2>1. PICK g : Built(n, g)
      BY <1>3
    <2> DEFINE h == [s \in Small(n + 1) |-> SumStep(f, g, s)]
    <2>2. n \in Nat /\ \A s \in Small(n) : s \in Small(n + 1)
      BY <1>1
    <2>3. \A s \in Small(n) : h[s] = g[s]
      BY <2>1, <2>2
    <2>4. \A s \in Small(n + 1) : s # {} => s \ {One(s)} \in Small(n)
      BY <1>1, <2>2, Without
    <2>5. \A s \in Small(n + 1) : SumStep(f, h, s) = SumStep(f, g, s)
      <3> HIDE DEF h, Small
      <3> QED BY <2>3, <2>4 DEF SumStep
    <2>6. Built(n + 1, h)
      <3>1. DOMAIN h = Small(n + 1) /\ \A s \in Small(n + 1) : h[s] = SumStep(f, g, s)
        OBVIOUS
      <3> HIDE DEF h, Small
      <3> QED BY <2>5, <3>1
    <2> HIDE DEF h, Built
    <2> QED BY <1>1, <2>6
  <1>4. N \in Can
    <2>1. \A n \in 0 .. N : n \in Can
      <3> HIDE DEF Can, N
      <3> QED BY <1>1, <1>2, <1>3, SetInduction
    <2> HIDE DEF Can
    <2> QED BY <1>1, <2>1
  <1>5. PICK g : Built(N, g)
    BY <1>4
  <1>6. Small(N) = SUBSET Users
    BY <1>1
  <1>7. \E h : h = [s \in SUBSET Users |-> SumStep(f, h, s)]
    <2> DEFINE h == [s \in SUBSET Users |-> SumStep(f, g, s)]
    <2>1. \A s \in SUBSET Users : h[s] = g[s]
      BY <1>5, <1>6
    <2>2. \A s \in SUBSET Users : s # {} => s \ {One(s)} \in SUBSET Users
      OBVIOUS
    <2>3. \A s \in SUBSET Users : SumStep(f, h, s) = SumStep(f, g, s)
      <3> HIDE DEF h
      <3> QED BY <2>1, <2>2 DEF SumStep
    <2>4. h = [s \in SUBSET Users |-> SumStep(f, h, s)]
      BY <2>3, Zenon
    <2> QED BY <2>4
  <1> QED BY <1>7, Zenon DEF SumFcn

\* One balance that changes by a changes the sum by a.
LEMMA SumUpdate ==
  ASSUME IsFiniteSet(Users), NEW f \in [Users -> Int], NEW g \in [Users -> Int],
         NEW w \in Users, NEW a \in Int,
         \A u \in Users : g[u] = f[u] + (IF u = w THEN a ELSE 0)
  PROVE  /\ SumFcn(f)[Users] \in Int
         /\ SumFcn(g)[Users] = SumFcn(f)[Users] + a
  <1> DEFINE F == SumFcn(f)
             G == SumFcn(g)
             Right(s) == F[s] \in Int /\ G[s] = F[s] + (IF w \in s THEN a ELSE 0)
             Sized(n) == \A s \in SUBSET Users : Cardinality(s) = n => Right(s)
             N == Cardinality(Users)
             Good == {n \in 0 .. N : Sized(n)}
  <1>1. N \in Nat /\ \A s \in SUBSET Users : Cardinality(s) \in 0 .. N
    BY FS_Subset, FS_CardinalityType
  <1>2. /\ \A s \in SUBSET Users : F[s] = SumStep(f, F, s)
        /\ \A s \in SUBSET Users : G[s] = SumStep(g, G, s)
    BY SumFcnExists
  <1> HIDE DEF F, G
  <1>3. 0 \in Good
    <2>1. ASSUME NEW s \in SUBSET Users, Cardinality(s) = 0
          PROVE  Right(s)
      <3>1. s = {}
        BY <2>1, FS_Subset, FS_EmptySet
      <3>2. F[s] = 0 /\ G[s] = 0
        BY <1>2, <3>1 DEF SumStep
      <3> QED BY <3>1, <3>2
    <2> HIDE DEF Right
    <2> QED BY <1>1, <2>1
  <1>4. ASSUME NEW n \in 0 .. N - 1, n \in Good
        PROVE  n + 1 \in Good
    <2>1. ASSUME NEW s \in SUBSET Users, Cardinality(s) = n + 1
          PROVE  Right(s)
      <3> DEFINE u == One(s)
                 r == s \ {u}
      <3>0. s # {}
        BY <2>1, <1>1, FS_EmptySet
      <3>1. u \in s /\ r \in SUBSET Users /\ Cardinality(r) = n
        BY <2>1, <3>0, Without
      <3>2. Right(r)
        BY <1>4, <3>1
      <3>3. F[s] = f[u] + F[r] /\ G[s] = g[u] + G[r]
        BY <1>2, <3>0 DEF SumStep
      <3>4. f[u] \in Int /\ g[u] = f[u] + (IF u = w THEN a ELSE 0)
        BY <3>1
      <3>5. (w \in s <=> (w \in r \/ u = w)) /\ u \notin r
        BY <3>1
      <3> HIDE DEF u, r
      <3> QED BY <3>2, <3>3, <3>4, <3>5
    <2> HIDE DEF Right
    <2> QED BY <1>1, <2>1
  <1>5. \A n \in 0 .. N : n \in Good
    <2> HIDE DEF Good, N
    <2> QED BY <1>1, <1>3, <1>4, SetInduction
  <1>6. Right(Users)
    <2> HIDE DEF Right
    <2> QED BY <1>1, <1>5
  <1> QED BY <1>6 DEF F, G

-----------------------------------------------------------------------------
\* What the actions do to RowsInv.

LEMMA PartiesAre ==
  ASSUME NEW d \in Deal
  PROVE  Parties(d) \in SUBSET Users /\ Parties(d) \in SUBSET Nat
  BY DealFields, SettlementAssumption DEF Parties

LEMMA LegUsers ==
  ASSUME NEW d \in Deal, NEW i \in 1 .. Len(Legs(d))
  PROVE  Legs(d)[i].user \in Users
  <1>1. Legs(d)[i] \in LegType
    BY LegsOK, ElementOfSeq
  <1> QED BY <1>1 DEF LegType

LEMMA NextRowIs ==
  ASSUME NEW d \in Deal, NEW todo \in SUBSET Parties(d), todo # {}
  PROVE  NextRow(d, todo) \in todo /\ \A v \in todo : NextRow(d, todo) <= v
  <1>1. \E u \in todo : \A v \in todo : u <= v
    BY PartiesAre, LeastElement
  <1> QED BY <1>1 DEF NextRow

\* What a step of t leaves to the others.
LEMMA OthersKept ==
  ASSUME LedgerInv, RowsInv, NEW t \in Txs,
         \A s \in Txs \ {t} : tx'[s] = tx[s],
         \A s \in Txs \ {t}, u \in Users : row'[u] = s <=> row[u] = s,
         \A u \in Users : row[u] # t => bal'[u] = bal[u],
         BooksOK(t, tx[t])', SortedOK(t, tx[t])', CardOK'
  PROVE  RowsInv'
  <1>1. ASSUME NEW s \in Txs \ {t} PROVE BooksOK(s, tx[s])' /\ SortedOK(s, tx[s])'
    <2>1. tx'[s] = tx[s] /\ BooksOK(s, tx[s]) /\ SortedOK(s, tx[s])
      BY DEF RowsInv
    <2>2. \A u \in Users : (row'[u] = s <=> row[u] = s) /\ (row[u] = s => bal'[u] = bal[u])
      OBVIOUS
    <2>3. CASE tx[s].pc \in Active
      <3> DEFINE r == tx[s]
                 d == r.deal
      <3>1. d \in Deal /\ r \in TxType
        BY <2>3, AtWork DEF Active
      <3>2. /\ r.leg <= Len(Legs(d)) + 1 /\ r.leg \in 1 .. 6 /\ Len(Legs(d)) \in 1 .. 5
            /\ \A i \in 1 .. r.leg - 1 : i \in 1 .. Len(Legs(d)) /\ Legs(d)[i].user \in Users
        <4>1. r.leg <= Len(Legs(d)) + 1 /\ r.leg \in 1 .. 6 /\ Len(Legs(d)) \in 1 .. 5
          BY <2>1, <2>3, <3>1, LegsOK DEF BooksOK, TxType
        <4> HIDE DEF r
        <4>2. \A n \in 1 .. 5 : r.leg <= n + 1 => \A i \in 1 .. r.leg - 1 : i \in 1 .. n
          BY <4>1
        <4>3. \A i \in 1 .. r.leg - 1 : i \in 1 .. Len(Legs(d))
          BY <4>1, <4>2
        <4> QED BY <3>1, <4>1, <4>3, LegUsers
      <3>3. BooksOK(s, tx[s])'
        BY <2>1, <2>2, <2>3, <3>2 DEF BooksOK
      <3>4. SortedOK(s, tx[s])'
        <4>1. Parties(d) \in SUBSET Users
          BY <3>1, PartiesAre
        <4> QED BY <2>1, <2>2, <2>3, <4>1 DEF SortedOK, Bears
      <3> QED BY <3>3, <3>4
    <2>4. CASE tx[s].pc \notin Active
      BY <2>1, <2>4 DEF BooksOK, SortedOK
    <2> QED BY <2>3, <2>4
  <1> QED BY <1>1 DEF RowsInv

\* t ends.
LEMMA RowsEnd ==
  ASSUME LedgerInv, RowsInv, NEW t \in Txs, NEW r, Become(t, r), r.pc \notin Active,
         row' = [u \in Users |-> IF row[u] = t THEN Nobody ELSE row[u]],
         cardLock' = IF cardLock = t THEN Nobody ELSE cardLock,
         \A u \in Users : row[u] # t => bal'[u] = bal[u]
  PROVE  RowsInv'
  <1>1. tx'[t] = r /\ \A s \in Txs \ {t} : tx'[s] = tx[s]
    BY DEF Become, LedgerInv, TypeInv, TypeOK
  <1>2. \A s \in Txs \ {t}, u \in Users : row'[u] = s <=> row[u] = s
    BY SettlementAssumption
  <1>3. BooksOK(t, tx[t])' /\ SortedOK(t, tx[t])'
    BY <1>1 DEF BooksOK, SortedOK
  <1>4. CardOK'
    BY <1>1, SettlementAssumption DEF RowsInv, CardOK
  <1> QED BY <1>1, <1>2, <1>3, <1>4, OthersKept

LEMMA RollbackRows ==
  ASSUME LedgerInv, RowsInv, NEW t \in Txs, NEW pc \in Ended, Rollback(t, pc)
  PROVE  RowsInv'
  <1> DEFINE c == IF tx[t].deal.kind = "order" THEN tx[t].got ELSE NoCode
             r == [Fresh EXCEPT !.pc = pc, !.deal = tx[t].deal, !.got = c]
  <1>1. r.pc = pc /\ pc \notin Active
    <2> HIDE DEF c
    <2> QED BY DEF Fresh, Ended, Active
  <1>2. Become(t, r)
    BY DEF Rollback, GivenUp
  <1> HIDE DEF r
  <1> QED BY <1>1, <1>2, RowsEnd DEF Rollback

LEMMA CommitRows ==
  ASSUME LedgerInv, RowsInv, NEW t \in Txs, Commit(t)
  PROVE  RowsInv'
  <1> DEFINE r == [Fresh EXCEPT !.pc = "done", !.deal = tx[t].deal, !.ok = tx[t].ok,
                               !.got = tx[t].got]
  <1>1. r.pc = "done" /\ r.pc \notin Active
    BY DEF Fresh, Active
  <1>2. Become(t, r)
    BY DEF Commit
  <1> HIDE DEF r
  <1>3. \A u \in Users : row[u] # t => bal'[u] = bal[u]
    BY DEF Commit
  <1> QED BY <1>1, <1>2, <1>3, RowsEnd DEF Commit

\* t goes on and locks no row.
LEMMA RowsGoOn ==
  ASSUME LedgerInv, RowsInv, NEW t \in Txs, NEW r, Become(t, r), tx[t].pc \in Active,
         r.deal = tx[t].deal, r.leg = tx[t].leg, r.mem = tx[t].mem, r.pc # "lock",
         r.pc = "commit" /\ r.ok => tx[t].pc = "commit" /\ tx[t].ok,
         UNCHANGED <<bal, row>>,
         r.pc \in Active /\ r.deal.kind # "order" =>
            /\ r.ok
            /\ \A u \in Parties(r.deal) : row[u] = t
            /\ r.pc \in {"take", "settle", "commit"} => \A u \in Parties(r.deal) : Bears(r.deal, u),
         cardLock' \in {cardLock, t},
         cardLock' = t => r.pc \in {"settle", "commit"} /\ r.deal.kind = "pickup"
  PROVE  RowsInv'
  <1>1. tx'[t] = r /\ \A s \in Txs \ {t} : tx'[s] = tx[s]
    BY DEF Become, LedgerInv, TypeInv, TypeOK
  <1>2. BooksOK(t, tx[t]) /\ SortedOK(t, tx[t])
    BY DEF RowsInv
  <1>3. BooksOK(t, tx[t])'
    BY <1>1, <1>2 DEF BooksOK
  <1>4. SortedOK(t, tx[t])'
    BY <1>1, <1>2 DEF SortedOK, Bears
  <1>5. CardOK'
    BY <1>1 DEF RowsInv, CardOK
  <1> QED BY <1>1, <1>3, <1>4, <1>5, OthersKept

LEMMA BeginRows ==
  ASSUME LedgerInv, RowsInv, NEW t \in Txs, Begin(t)
  PROVE  RowsInv'
  <1>1. PICK d \in Deals[t] : OrderBegin(t, d) \/ PickupBegin(t, d) \/ OtherBegin(t, d)
    BY DEF Begin
  <1>2. d \in Deal
    BY SettlementAssumption
  <1>3. /\ tx[t].pc = "idle"
        /\ UNCHANGED <<bal, row, flows, stock, cardLock>>
    BY <1>1 DEF OrderBegin, PickupBegin, OtherBegin, At
  <1>4. PICK r : /\ Become(t, r) /\ r.deal = d /\ r.leg = 1 /\ r.ok
                 /\ r.pc = IF d.kind = "order" THEN "take" ELSE "lock"
    <2> DEFINE plain(pc) == [Fresh EXCEPT !.pc = pc, !.deal = d]
               full == [Fresh EXCEPT !.pc = "lock", !.deal = d, !.seen = stock]
    <2>1. /\ \A pc \in {"take", "lock"} :
               plain(pc).pc = pc /\ plain(pc).deal = d /\ plain(pc).leg = 1 /\ plain(pc).ok
          /\ full.pc = "lock" /\ full.deal = d /\ full.leg = 1 /\ full.ok
      BY DEF Fresh
    <2>2. \/ Become(t, plain("take")) /\ d.kind = "order"
          \/ Become(t, plain("lock")) /\ d.kind # "order"
          \/ Become(t, full) /\ d.kind # "order"
      BY <1>1 DEF OrderBegin, PickupBegin, OtherBegin
    <2> HIDE DEF plain, full
    <2> QED BY <2>1, <2>2
  <1>5. \A u \in Users : row[u] # t
    BY <1>3, AtWork DEF Active
  <1>6. tx'[t] = r /\ \A s \in Txs \ {t} : tx'[s] = tx[s]
    BY <1>4 DEF Become, LedgerInv, TypeInv, TypeOK
  <1>7. BooksOK(t, tx[t])'
    <2>1. Len(Legs(d)) \in 1 .. 5
      BY <1>2, LegsOK
    <2>2. 1 <= Len(Legs(d)) + 1 /\ 1 .. 1 - 1 = {}
      BY <2>1
    <2> QED BY <1>3, <1>4, <1>5, <1>6, <2>2 DEF BooksOK
  <1>8. SortedOK(t, tx[t])'
    BY <1>2, <1>3, <1>4, <1>5, <1>6, PartiesAre DEF SortedOK
  <1>9. CardOK'
    BY <1>3, <1>6 DEF RowsInv, CardOK
  <1> QED BY <1>3, <1>6, <1>7, <1>8, <1>9, OthersKept

LEMMA LockRowRows ==
  ASSUME LedgerInv, RowsInv, NEW t \in Txs, LockRow(t)
  PROVE  RowsInv'
  <1> DEFINE d == tx[t].deal
             todo == Parties(d) \ Held(t)
             u == NextRow(d, todo)
             r == [tx[t] EXCEPT !.mem[u] = bal[u]]
  <1>1. /\ tx[t].pc = "lock" /\ tx[t] \in TxType /\ UNCHANGED <<bal, flows, stock, cardLock>>
        /\ tx[t].pc \in Active /\ d \in Deal
    BY AtWork DEF LockRow, At, Active
  <1>2. /\ tx[t].leg = 1 /\ BooksOK(t, tx[t]) /\ SortedOK(t, tx[t])
        /\ cardLock # t
    BY <1>1, AtWork DEF TxOK, RowsInv, CardOK
  <1>3. /\ Parties(d) \in SUBSET Users /\ todo \in SUBSET Parties(d)
        /\ \A v \in Users : v \in todo <=> (v \in Parties(d) /\ row[v] # t)
    BY <1>1, PartiesAre DEF Held
  <1>4. CASE todo = {} /\ Goto(t, "decide") /\ UNCHANGED row
    <2> DEFINE g == [tx[t] EXCEPT !.pc = "decide"]
    <2>1. /\ Become(t, g) /\ g.pc = "decide" /\ g.deal = d /\ g.leg = tx[t].leg
          /\ g.mem = tx[t].mem /\ g.ok = tx[t].ok
      BY <1>1, <1>4 DEF Goto, TxType
    <2>2. d.kind # "order" => g.ok /\ \A v \in Parties(d) : row[v] = t
      BY <1>1, <1>2, <1>3, <1>4, <2>1 DEF SortedOK
    <2> HIDE DEF g, todo
    <2> QED BY <1>1, <1>2, <1>4, <2>1, <2>2, RowsGoOn
  <1>5. CASE todo # {} /\ Grab(t, u) /\ Become(t, r)
    <2>1. u \in todo /\ \A v \in todo : u <= v
      <3> HIDE DEF todo
      <3> QED BY <1>1, <1>3, <1>5, NextRowIs
    <2>2. u \in Users /\ u \in Parties(d) /\ Parties(d) \in SUBSET Nat /\ Users \in SUBSET Nat
      BY <1>1, <1>3, <2>1, PartiesAre, SettlementAssumption
    <2>3. /\ row[u] = Nobody /\ \A v \in Users : row'[v] = IF v = u THEN t ELSE row[v]
      BY <1>5, <2>2, AtWork DEF Grab
    <2> HIDE DEF u, todo
    <2>4. /\ r.pc = "lock" /\ r.leg = 1 /\ r.deal = d /\ r.ok = tx[t].ok
          /\ r.mem = [tx[t].mem EXCEPT ![u] = bal[u]]
      BY <1>1, <1>2 DEF TxType
    <2>5. tx'[t] = r /\ \A s \in Txs \ {t} : tx'[s] = tx[s]
      BY <1>5 DEF Become, LedgerInv, TypeInv, TypeOK
    <2> HIDE DEF r
    <2>6. BooksOK(t, tx[t])'
      <3>1. Len(Legs(d)) \in 1 .. 5 /\ 1 .. 1 - 1 = {}
        BY <1>1, LegsOK
      <3>2. 1 <= Len(Legs(d)) + 1
        BY <3>1
      <3>3. ASSUME NEW v \in Users, row'[v] = t
            PROVE  r.mem[v] = bal'[v] + Moved(d, 1, v)
        <4>1. Moved(d, 1, v) = 0 /\ bal[v] \in Int
          BY <1>1, MovedSteps, AtWork
        <4>2. CASE v = u
          BY <1>1, <2>4, <4>1, <4>2 DEF TxType
        <4>3. CASE v # u
          <5>1. row[v] = t /\ r.mem[v] = tx[t].mem[v]
            BY <1>1, <2>3, <2>4, <3>3, <4>3 DEF TxType
          <5> QED BY <1>1, <1>2, <5>1 DEF BooksOK
        <4> QED BY <4>2, <4>3
      <3> QED BY <2>4, <2>5, <3>1, <3>2, <3>3 DEF BooksOK
    <2>7. SortedOK(t, tx[t])'
      <3> SUFFICES ASSUME d.kind # "order" PROVE SortedOK(t, tx[t])'
        BY <2>4, <2>5 DEF SortedOK
      <3>1. /\ r.ok /\ \A v \in Users : row[v] = t => v \in Parties(d)
            /\ \A v, w \in Parties(d) : row[v] = t /\ row[w] # t => v < w
        BY <1>1, <1>2, <2>4 DEF SortedOK
      <3>2. ASSUME NEW v \in Parties(d), NEW w \in Parties(d), row'[v] = t, row'[w] # t
            PROVE  v < w
        <4>1. v \in Users /\ w \in Users /\ w # u /\ row[w] # t /\ w \in todo /\ u <= w
          BY <1>3, <2>1, <2>2, <2>3, <3>2
        <4>2. CASE v = u
          BY <2>2, <4>1, <4>2
        <4>3. CASE v # u
          BY <2>3, <3>1, <3>2, <4>1, <4>3
        <4> QED BY <4>2, <4>3
      <3> QED BY <2>2, <2>3, <2>4, <2>5, <3>1, <3>2 DEF SortedOK
    <2>8. CardOK'
      BY <1>1, <1>2, <2>5 DEF RowsInv, CardOK
    <2>9. /\ \A s \in Txs \ {t}, v \in Users : row'[v] = s <=> row[v] = s
          /\ \A v \in Users : row[v] # t => bal'[v] = bal[v]
      BY <1>1, <2>3, SettlementAssumption
    <2> QED BY <2>5, <2>6, <2>7, <2>8, <2>9, OthersKept
  <1> QED BY <1>4, <1>5 DEF LockRow

LEMMA DecideRows ==
  ASSUME LedgerInv, RowsInv, NEW t \in Txs, Decide(t)
  PROVE  RowsInv'
  <1> DEFINE d == tx[t].deal
  <1>1. /\ tx[t].pc = "decide" /\ tx[t].pc \in Active /\ tx[t] \in TxType /\ d \in Deal
        /\ tx[t].leg = 1 /\ BooksOK(t, tx[t]) /\ SortedOK(t, tx[t]) /\ cardLock # t
    BY AtWork DEF Decide, At, Active, TxOK, RowsInv, CardOK
  <1>2. CASE Rollback(t, "refused")
    BY <1>2, RollbackRows DEF Ended
  <1>3. CASE /\ ~(\E u \in Parties(d) : NetDelta(d, u) < 0 /\ tx[t].mem[u] + NetDelta(d, u) < 0)
             /\ Goto(t, IF d.kind = "pickup" THEN "take" ELSE "settle")
             /\ UNCHANGED <<bal, row, flows, stock, cardLock>>
    <2> DEFINE pc == IF d.kind = "pickup" THEN "take" ELSE "settle"
               g == [tx[t] EXCEPT !.pc = pc]
    <2>1. pc \in {"take", "settle"}
      OBVIOUS
    <2> HIDE DEF pc
    <2>2. /\ Become(t, g) /\ g.pc = pc /\ g.deal = d /\ g.leg = tx[t].leg
          /\ g.mem = tx[t].mem /\ g.ok = tx[t].ok
      BY <1>1, <1>3 DEF Goto, TxType, pc
    <2>3. d.kind # "order" => g.ok /\ \A u \in Parties(d) : row[u] = t
      BY <1>1, <2>2 DEF SortedOK
    <2>4. d.kind # "order" => \A u \in Parties(d) : Bears(d, u)
      <3> SUFFICES ASSUME d.kind # "order", NEW u \in Parties(d), NetDelta(d, u) < 0
                   PROVE  bal[u] + NetDelta(d, u) >= 0
        BY DEF Bears
      <3>1. u \in Users /\ row[u] = t
        BY <1>1, <2>3, PartiesAre
      <3>2. tx[t].mem[u] = bal[u] + Moved(d, 1, u) /\ Moved(d, 1, u) = 0 /\ bal[u] \in Int
        BY <1>1, <3>1, MovedSteps, AtWork DEF BooksOK
      <3>3. NetDelta(d, u) \in Int /\ ~(tx[t].mem[u] + NetDelta(d, u) < 0)
        BY <1>1, <1>3, MovedIsNet
      <3> QED BY <3>2, <3>3
    <2> HIDE DEF g
    <2> QED BY <1>1, <1>3, <2>1, <2>2, <2>3, <2>4, RowsGoOn
  <1> QED BY <1>2, <1>3 DEF Decide

LEMMA OrderTakeRows ==
  ASSUME LedgerInv, RowsInv, NEW t \in Txs, OrderTake(t)
  PROVE  RowsInv'
  <1>1. /\ tx[t].pc = "take" /\ tx[t].pc \in Active /\ tx[t] \in TxType
        /\ tx[t].deal.kind = "order" /\ cardLock # t
    BY AtWork DEF OrderTake, At, Active, RowsInv, CardOK
  <1>2. CASE Rollback(t, "refused")
    BY <1>2, RollbackRows DEF Ended
  <1>3. CASE /\ \/ Goto(t, "settle")
                \/ Become(t, [tx[t] EXCEPT !.pc = "settle", !.got = Head(stock)])
             /\ UNCHANGED <<bal, row, flows, cardLock>>
    <2>1. PICK r : /\ Become(t, r) /\ r.pc = "settle" /\ r.deal = tx[t].deal
                   /\ r.leg = tx[t].leg /\ r.mem = tx[t].mem
      <3> DEFINE g == [tx[t] EXCEPT !.pc = "settle"]
                 h == [tx[t] EXCEPT !.pc = "settle", !.got = Head(stock)]
      <3>1. /\ g.pc = "settle" /\ g.deal = tx[t].deal /\ g.leg = tx[t].leg /\ g.mem = tx[t].mem
            /\ h.pc = "settle" /\ h.deal = tx[t].deal /\ h.leg = tx[t].leg /\ h.mem = tx[t].mem
        BY <1>1 DEF TxType
      <3>2. Become(t, g) \/ Become(t, h)
        BY <1>3 DEF Goto
      <3> HIDE DEF g, h
      <3> QED BY <3>1, <3>2
    <2> QED BY <1>1, <1>3, <2>1, RowsGoOn
  <1> QED BY <1>2, <1>3 DEF OrderTake

LEMMA PickupTakeRows ==
  ASSUME LedgerInv, RowsInv, NEW t \in Txs, PickupTake(t)
  PROVE  RowsInv'
  <1>1. /\ tx[t].pc = "take" /\ tx[t].pc \in Active /\ tx[t] \in TxType
        /\ tx[t].deal.kind = "pickup" /\ SortedOK(t, tx[t])
    BY AtWork DEF PickupTake, At, Active, RowsInv, CardOK
  <1>2. CASE Rollback(t, "refused")
    BY <1>2, RollbackRows DEF Ended
  <1>3. CASE /\ \/ Goto(t, "settle")
                \/ Become(t, [tx[t] EXCEPT !.pc = "settle", !.got = Head(tx[t].seen),
                                           !.seen = Tail(tx[t].seen)])
             /\ cardLock' \in {cardLock, t}
             /\ UNCHANGED <<bal, row, flows, stock>>
    <2>1. PICK r : /\ Become(t, r) /\ r.pc = "settle" /\ r.deal = tx[t].deal
                   /\ r.leg = tx[t].leg /\ r.mem = tx[t].mem /\ r.ok = tx[t].ok
      <3> DEFINE g == [tx[t] EXCEPT !.pc = "settle"]
                 h == [tx[t] EXCEPT !.pc = "settle", !.got = Head(tx[t].seen),
                                    !.seen = Tail(tx[t].seen)]
      <3>1. /\ g.pc = "settle" /\ g.deal = tx[t].deal /\ g.leg = tx[t].leg
            /\ g.mem = tx[t].mem /\ g.ok = tx[t].ok
            /\ h.pc = "settle" /\ h.deal = tx[t].deal /\ h.leg = tx[t].leg
            /\ h.mem = tx[t].mem /\ h.ok = tx[t].ok
        BY <1>1 DEF TxType
      <3>2. Become(t, g) \/ Become(t, h)
        BY <1>3 DEF Goto
      <3> HIDE DEF g, h
      <3> QED BY <3>1, <3>2
    <2>2. r.ok /\ \A u \in Parties(r.deal) : row[u] = t /\ Bears(r.deal, u)
      BY <1>1, <2>1 DEF SortedOK
    <2> QED BY <1>1, <1>3, <2>1, <2>2, RowsGoOn
  <1> QED BY <1>2, <1>3 DEF PickupTake

\* A user none of the legs is about is not moved.
LEMMA NotMoved ==
  ASSUME NEW d \in Deal, NEW k \in 1 .. 6, NEW u, \A i \in 1 .. k - 1 : Legs(d)[i].user # u
  PROVE  Moved(d, k, u) = 0
  <1>1. ASSUME NEW i \in 1 .. 5
        PROVE  Past(d, k, i, u) = 0
    <2>1. i < k => i \in 1 .. k - 1
      OBVIOUS
    <2> QED BY <2>1 DEF Past, Part
  <1> QED BY <1>1 DEF Moved

\* A deal that is no order's holds the row of its next leg.
LEMMA LegRowHeld ==
  ASSUME LedgerInv, RowsInv, NEW t \in Txs, tx[t].pc = "settle", tx[t].deal.kind # "order"
  PROVE  /\ row[Legs(tx[t].deal)[tx[t].leg].user] = t
         /\ Legs(tx[t].deal)[tx[t].leg].user \in Parties(tx[t].deal)
  <1>1. tx[t].leg \in 1 .. Len(Legs(tx[t].deal)) /\ tx[t].deal \in Deal
    BY AtWork DEF TxOK
  <1>2. \A u \in Parties(tx[t].deal) : row[u] = t
    BY DEF RowsInv, SortedOK, Active
  <1> QED BY <1>1, <1>2, LegParties

LEMMA BookRows ==
  ASSUME LedgerInv, RowsInv, NEW t \in Txs, Book(t)
  PROVE  RowsInv'
  <1> DEFINE d == tx[t].deal
             k == tx[t].leg
             ls == Legs(d)
             n == Len(ls)
             u == ls[k].user
             a == ls[k].amount
  <1>1. /\ tx[t].pc = "settle" /\ tx[t].pc \in Active /\ tx[t] \in TxType /\ d \in Deal
        /\ k \in 1 .. n /\ BooksOK(t, tx[t]) /\ SortedOK(t, tx[t])
    BY AtWork DEF Book, At, Active, TxOK, RowsInv
  <1>2. n \in 1 .. 5 /\ u \in Users
    BY <1>1, LegsOK, LegUsers
  <1> HIDE DEF n
  <1>3. k \in 1 .. 5 /\ k \in Nat /\ k + 1 <= n + 1 /\ (k = n => k + 1 = n + 1)
    BY <1>1, <1>2
  <1>4. Part(d, k, u) = a /\ a \in Int /\ \A v : v # u => Part(d, k, v) = 0
    <2>1. Part(d, k, u) = a /\ \A v : v # u => Part(d, k, v) = 0
      BY <1>1 DEF Part, n
    <2> QED BY <1>1, <1>3, <2>1, PartInt
  <1>5. PICK b \in Int :
          /\ \/ row[u] = t /\ row' = row /\ b = tx[t].mem[u]
             \/ row[u] = Nobody /\ row' = [row EXCEPT ![u] = t] /\ b = bal[u]
          /\ Become(t, Booked(t, u, b, a))
    <2>1. tx[t].mem[u] \in Int /\ bal[u] \in Int
      BY <1>1, <1>2, AtWork DEF TxType
    <2> QED BY <2>1 DEF Book, Grab
  <1>6. UNCHANGED <<bal, flows, stock, cardLock>>
    BY DEF Book
  <1>7. /\ \A v \in Users : row'[v] = IF v = u THEN t ELSE row[v]
        /\ row[u] \in {t, Nobody}
    BY <1>2, <1>5, AtWork
  <1> DEFINE r == Booked(t, u, b, a)
  <1>8. /\ r.deal = d /\ r.leg = k + 1 /\ r.ok = tx[t].ok
        /\ r.pc = IF k = n THEN "commit" ELSE "settle"
        /\ r.mem = [tx[t].mem EXCEPT ![u] = b + a]
    BY <1>1 DEF Booked, TxType, n
  <1>9. tx'[t] = r /\ \A s \in Txs \ {t} : tx'[s] = tx[s]
    BY <1>5 DEF Become, LedgerInv, TypeInv, TypeOK
  <1>10. b = bal[u] + Moved(d, k, u)
    <2>1. CASE row[u] = t
      BY <1>1, <1>2, <1>5, <2>1, SettlementAssumption DEF BooksOK
    <2>2. CASE row[u] # t
      <3>1. \A i \in 1 .. k - 1 : ls[i].user # u
        BY <1>1, <2>2 DEF BooksOK
      <3>2. Moved(d, k, u) = 0
        BY <1>1, <1>3, <3>1, NotMoved
      <3>3. b = bal[u] /\ bal[u] \in Int
        BY <1>2, <1>5, <2>2, AtWork
      <3> QED BY <3>2, <3>3
    <2> QED BY <2>1, <2>2
  <1> HIDE DEF r, u, a
  <1>11. BooksOK(t, tx[t])'
    <2>1. ASSUME NEW i \in 1 .. (k + 1) - 1
          PROVE  row'[ls[i].user] = t
      <3>1. CASE i = k
        BY <1>2, <1>7, <3>1 DEF u
      <3>2. CASE i # k
        <4>1. i \in 1 .. k - 1 /\ i \in 1 .. n
          BY <1>1, <1>2, <1>3, <3>2
        <4>2. row[ls[i].user] = t /\ ls[i].user \in Users
          BY <1>1, <4>1, LegUsers DEF BooksOK, n
        <4> QED BY <1>7, <4>2
      <3> QED BY <3>1, <3>2
    <2>2. ASSUME NEW v \in Users, row'[v] = t
          PROVE  r.mem[v] = bal'[v] + Moved(d, k + 1, v)
      <3>1. /\ Moved(d, k + 1, v) = Moved(d, k, v) + Part(d, k, v)
            /\ Moved(d, k, v) \in Int /\ bal[v] \in Int
        <4>1. k \in 1 .. 6
          BY <1>3
        <4> QED BY <1>1, <1>3, <4>1, MovedSteps, AtWork
      <3>2. CASE v = u
        <4>1. r.mem[v] = b + a
          BY <1>1, <1>8, <3>2 DEF TxType
        <4> QED BY <1>4, <1>6, <1>10, <3>1, <3>2, <4>1
      <3>3. CASE v # u
        <4>1. r.mem[v] = tx[t].mem[v] /\ row[v] = t
          BY <1>1, <1>7, <1>8, <2>2, <3>3 DEF TxType
        <4>2. tx[t].mem[v] = bal[v] + Moved(d, k, v)
          BY <1>1, <4>1 DEF BooksOK
        <4> QED BY <1>4, <1>6, <3>1, <3>3, <4>1, <4>2
      <3> QED BY <3>2, <3>3
    <2> QED BY <1>3, <1>8, <1>9, <2>1, <2>2 DEF BooksOK, n
  <1>12. SortedOK(t, tx[t])'
    <2> SUFFICES ASSUME d.kind # "order" PROVE SortedOK(t, tx[t])'
      BY <1>8, <1>9 DEF SortedOK
    <2>1. row[u] = t
      BY <1>1, LegRowHeld DEF u
    <2>2. \A v \in Users : row'[v] = row[v]
      BY <1>7, <2>1
    <2>3. Parties(d) \in SUBSET Users
      BY <1>1, PartiesAre
    <2>4. /\ tx[t].ok /\ \A v \in Users : row[v] = t => v \in Parties(d)
          /\ \A v \in Parties(d) : row[v] = t /\ Bears(d, v)
      BY <1>1 DEF SortedOK
    <2>5. r.pc # "lock"
      BY <1>8
    <2> QED BY <1>6, <1>8, <1>9, <2>2, <2>3, <2>4, <2>5 DEF SortedOK, Bears
  <1>13. CardOK'
    <2>1. r.pc \in {"settle", "commit"}
      BY <1>8
    <2> QED BY <1>6, <1>8, <1>9, <2>1 DEF RowsInv, CardOK
  <1>14. /\ \A s \in Txs \ {t}, v \in Users : row'[v] = s <=> row[v] = s
         /\ \A v \in Users : row[v] # t => bal'[v] = bal[v]
    BY <1>6, <1>7, SettlementAssumption
  <1> QED BY <1>9, <1>11, <1>12, <1>13, <1>14, OthersKept

LEMMA LockTimeoutRows ==
  ASSUME LedgerInv, RowsInv, NEW t \in Txs, LockTimeout(t)
  PROVE  RowsInv'
  <1>1. CASE Rollback(t, "refused")
    BY <1>1, RollbackRows DEF Ended
  <1>2. CASE /\ At(t, "settle")
             /\ Become(t, [tx[t] EXCEPT !.pc = "commit", !.ok = FALSE])
             /\ UNCHANGED <<bal, row, flows, stock, cardLock>>
    <2> DEFINE r == [tx[t] EXCEPT !.pc = "commit", !.ok = FALSE]
    <2>1. tx[t].pc = "settle" /\ tx[t].pc \in Active /\ tx[t] \in TxType
      BY <1>2, AtWork DEF At, Active
    <2>2. tx[t].deal.kind = "order"
      <3> SUFFICES ASSUME tx[t].deal.kind # "order" PROVE FALSE
        OBVIOUS
      <3>1. row[Legs(tx[t].deal)[tx[t].leg].user] = t
        BY <2>1, LegRowHeld
      <3> QED BY <2>1, <3>1 DEF LockTimeout, Waits, Blocker, At
    <2>3. /\ r.pc = "commit" /\ ~r.ok /\ r.deal = tx[t].deal /\ r.leg = tx[t].leg
          /\ r.mem = tx[t].mem
      BY <2>1 DEF TxType
    <2>4. Become(t, r) /\ cardLock # t
      BY <1>2, <2>2 DEF RowsInv, CardOK
    <2> HIDE DEF r
    <2> QED BY <1>2, <2>1, <2>2, <2>3, <2>4, RowsGoOn
  <1> QED BY <1>1, <1>2 DEF LockTimeout

LEMMA InitRows == Init => RowsInv
  <1> SUFFICES ASSUME Init PROVE RowsInv
    OBVIOUS
  <1>1. \A t \in Txs : tx[t].pc = "idle"
    BY FreshFields DEF Init
  <1>2. cardLock = Nobody
    BY DEF Init
  <1> QED BY <1>1, <1>2, SettlementAssumption DEF RowsInv, BooksOK, SortedOK, CardOK, Active

LEMMA NextRows == LedgerInv /\ RowsInv /\ [Next]_vars => RowsInv'
  <1> SUFFICES ASSUME LedgerInv, RowsInv, [Next]_vars PROVE RowsInv'
    OBVIOUS
  <1>1. ASSUME NEW t \in Txs, Begin(t) PROVE RowsInv'
    BY <1>1, BeginRows
  <1>2. ASSUME NEW t \in Txs, OrderTake(t) PROVE RowsInv'
    BY <1>2, OrderTakeRows
  <1>3. ASSUME NEW t \in Txs, LockRow(t) PROVE RowsInv'
    BY <1>3, LockRowRows
  <1>4. ASSUME NEW t \in Txs, Decide(t) PROVE RowsInv'
    BY <1>4, DecideRows
  <1>5. ASSUME NEW t \in Txs, PickupTake(t) PROVE RowsInv'
    BY <1>5, PickupTakeRows
  <1>6. ASSUME NEW t \in Txs, Book(t) PROVE RowsInv'
    BY <1>6, BookRows
  <1>7. ASSUME NEW t \in Txs, Commit(t) PROVE RowsInv'
    BY <1>7, CommitRows
  <1>8. ASSUME NEW t \in Txs, DeadlockVictim(t) \/ Fail(t) PROVE RowsInv'
    BY <1>8, RollbackRows DEF DeadlockVictim, Fail, Ended
  <1>9. ASSUME NEW t \in Txs, LockTimeout(t) PROVE RowsInv'
    BY <1>9, LockTimeoutRows
  <1>10. CASE UNCHANGED vars
    BY <1>10 DEF vars, RowsInv, BooksOK, SortedOK, Bears, CardOK
  <1> QED BY <1>1, <1>2, <1>3, <1>4, <1>5, <1>6, <1>7, <1>8, <1>9, <1>10 DEF Next, Step

LEMMA RowsInvariant == Spec => [](LedgerInv /\ RowsInv)
  <1>1. Init => LedgerInv /\ RowsInv
    BY InitInv, InitRows
  <1>2. LedgerInv /\ RowsInv /\ [Next]_vars => (LedgerInv /\ RowsInv)'
    BY NextInv, NextRows
  <1> QED BY <1>1, <1>2, PTL DEF Spec

-----------------------------------------------------------------------------
\* No circle without an order.

Awaited(s) == NextRow(tx[s].deal, Parties(tx[s].deal) \ Held(s))

\* A deal that is no order's and waits for others like it waits for a row of its
\* parties' that comes after all it holds.
LEMMA WaitsForRow ==
  ASSUME LedgerInv, RowsInv, NEW S \in SUBSET Txs, Cycle(S),
         \A s \in S : tx[s].deal.kind # "order", NEW s \in S
  PROVE  /\ tx[s].pc = "lock" /\ Blocker(s) = row[Awaited(s)] /\ tx[s].deal \in Deal
         /\ Awaited(s) \in Parties(tx[s].deal) /\ row[Awaited(s)] # s
  <1>1. \A x \in S : Blocker(x) \in S /\ Blocker(x) # Nobody /\ x \in Txs
    BY SettlementAssumption DEF Cycle
  <1>2. \A x \in S : tx[x].pc \notin {"settle", "commit"}
    <2> SUFFICES ASSUME NEW x \in S, tx[x].pc \in {"settle", "commit"} PROVE FALSE
      OBVIOUS
    <2>1. CASE tx[x].pc = "settle"
      <3>1. row[Legs(tx[x].deal)[tx[x].leg].user] = x
        BY <2>1, LegRowHeld
      <3> QED BY <1>1, <2>1, <3>1 DEF Blocker, At
    <2>2. CASE tx[x].pc = "commit"
      BY <1>1, <2>2 DEF Blocker, At
    <2> QED BY <2>1, <2>2
  <1>3. cardLock \notin S
    BY <1>1, <1>2 DEF RowsInv, CardOK
  <1> DEFINE d == tx[s].deal
             todo == Parties(d) \ Held(s)
  <1>4. tx[s].pc = "lock" /\ todo # {} /\ Blocker(s) = row[Awaited(s)]
    BY <1>1, <1>2, <1>3 DEF Blocker, At, Awaited
  <1>5. d \in Deal /\ todo \in SUBSET Parties(d)
    BY <1>1, <1>4, AtWork
  <1>6. Awaited(s) \in todo
    <2> HIDE DEF todo, d
    <2>1. NextRow(d, todo) \in todo
      BY <1>4, <1>5, NextRowIs
    <2> QED BY <2>1 DEF Awaited, todo, d
  <1>7. Awaited(s) \in Users /\ row[Awaited(s)] # s
    BY <1>5, <1>6, PartiesAre DEF Held
  <1> QED BY <1>4, <1>5, <1>6, <1>7

LEMMA RowsOrdered == LedgerInv /\ RowsInv => PickupsOrdered
  <1> SUFFICES ASSUME LedgerInv, RowsInv, NEW S \in SUBSET Txs, Cycle(S),
                      \A s \in S : tx[s].deal.kind # "order"
               PROVE  FALSE
    BY DEF PickupsOrdered
  <1> DEFINE M == {Awaited(s) : s \in S}
  <1>1. \A s \in S : /\ tx[s].pc = "lock" /\ Blocker(s) = row[Awaited(s)]
                     /\ tx[s].deal \in Deal /\ s \in Txs
                     /\ Awaited(s) \in Parties(tx[s].deal) /\ row[Awaited(s)] # s
    BY WaitsForRow
  <1>2. \A s \in S : Parties(tx[s].deal) \in SUBSET Users /\ Parties(tx[s].deal) \in SUBSET Nat
    BY <1>1, PartiesAre
  <1>3. M \in SUBSET Nat /\ M # {}
    BY <1>1, <1>2 DEF Cycle
  <1>4. PICK x \in S : \A s \in S : Awaited(x) <= Awaited(s)
    <2>1. PICK m \in M : \A n \in M : m <= n
      <3> HIDE DEF M
      <3> QED BY <1>3, LeastElement
    <2> QED BY <2>1
  <1>5. PICK s \in S : Blocker(s) = x
    BY DEF Cycle
  <1>6. row[Awaited(s)] = x /\ Awaited(s) \in Users
    BY <1>1, <1>2, <1>5
  <1>7. /\ Awaited(s) \in Parties(tx[x].deal)
        /\ \A u, v \in Parties(tx[x].deal) : row[u] = x /\ row[v] # x => u < v
    BY <1>1, <1>6 DEF RowsInv, SortedOK, Active
  <1>8. Awaited(s) < Awaited(x)
    BY <1>1, <1>6, <1>7
  <1>9. Awaited(x) <= Awaited(s) /\ Awaited(x) \in Nat /\ Awaited(s) \in Nat
    BY <1>1, <1>2, <1>4, <1>7
  <1> QED BY <1>8, <1>9

(***************************************************************************)
(* Pickups, withdrawals and incomes alone never wait for each other in a   *)
(* circle, however many there are and whoever they concern: the ascending  *)
(* order in which _check_parties_balance locks rows is enough, and neither *)
(* the card's row nor the rows a settlement locks again close a circle.    *)
(***************************************************************************)
THEOREM PickupsNeverDeadlock == Spec => []PickupsOrdered
  BY RowsInvariant, RowsOrdered, PTL

-----------------------------------------------------------------------------
\* What a commit does to the balances.

LEMMA CommitMoves ==
  ASSUME LedgerInv, RowsInv, NEW t \in Txs, Commit(t)
  PROVE  /\ tx[t].deal \in Deal /\ BooksOK(t, tx[t]) /\ SortedOK(t, tx[t])
         /\ bal \in [Users -> Int] /\ bal' \in [Users -> Int] /\ tx[t].pc = "commit"
         /\ \A u \in Users : bal'[u] # bal[u] => row[u] = t
         /\ tx[t].ok => \A u \in Users : bal'[u] = bal[u] + Moved(tx[t].deal, 6, u)
  <1> DEFINE d == tx[t].deal
             n == Len(Legs(d))
  <1>1. /\ tx[t].pc = "commit" /\ tx[t].pc \in Active /\ tx[t] \in TxType /\ d \in Deal
        /\ BooksOK(t, tx[t]) /\ SortedOK(t, tx[t]) /\ bal \in [Users -> Int]
    BY AtWork DEF Commit, At, Active, RowsInv
  <1>2. bal' = [u \in Users |-> IF row[u] = t THEN tx[t].mem[u] ELSE bal[u]]
    BY DEF Commit
  <1>3. bal' \in [Users -> Int]
    BY <1>1, <1>2 DEF TxType
  <1>4. ASSUME tx[t].ok, NEW u \in Users
        PROVE  bal'[u] = bal[u] + Moved(d, 6, u)
    <2>1. /\ tx[t].leg = n + 1 /\ n \in 1 .. 5 /\ Moved(d, n + 1, u) = Moved(d, 6, u)
          /\ bal[u] \in Int
      BY <1>1, <1>4, LegsOK, MovedSteps DEF BooksOK
    <2>2. CASE row[u] = t
      BY <1>1, <1>2, <2>1, <2>2 DEF BooksOK
    <2>3. CASE row[u] # t
      <3>1. \A i \in 1 .. tx[t].leg - 1 : Legs(d)[i].user # u
        BY <1>1, <2>3 DEF BooksOK
      <3>2. tx[t].leg \in 1 .. 6
        BY <1>1 DEF TxType
      <3>3. Moved(d, tx[t].leg, u) = 0
        BY <1>1, <3>1, <3>2, NotMoved
      <3> QED BY <1>2, <2>1, <2>3, <3>3
    <2> QED BY <2>2, <2>3
  <1> QED BY <1>1, <1>2, <1>3, <1>4

\* Only a commit changes a balance, and only a commit ends with "done".
LEMMA OnlyCommits ==
  ASSUME LedgerInv, Next
  PROVE  \E t \in Txs :
            /\ \A s \in Txs \ {t} : tx'[s] = tx[s]
            /\ \/ Commit(t) /\ tx'[t].pc = "done"
               \/ bal' = bal /\ tx'[t].pc # "done"
  <1> DEFINE Kept(t) == \A s \in Txs \ {t} : tx'[s] = tx[s]
             Other(t) == bal' = bal /\ tx'[t].pc # "done"
  <1>1. ASSUME NEW t \in Txs, NEW r, Become(t, r)
        PROVE  Kept(t) /\ tx'[t] = r
    BY <1>1 DEF Become, LedgerInv, TypeInv, TypeOK
  <1>2. ASSUME NEW t \in Txs, NEW pc \in {"refused", "lost"}, Rollback(t, pc)
        PROVE  Kept(t) /\ Other(t)
    <2> DEFINE c == IF tx[t].deal.kind = "order" THEN tx[t].got ELSE NoCode
               r == [Fresh EXCEPT !.pc = pc, !.deal = tx[t].deal, !.got = c]
    <2>1. Become(t, r) /\ bal' = bal
      BY <1>2 DEF Rollback, GivenUp
    <2>2. r.pc = pc
      <3> HIDE DEF c
      <3> QED BY DEF Fresh
    <2> HIDE DEF r
    <2> QED BY <1>1, <2>1, <2>2
  <1>3. ASSUME NEW t \in Txs, Commit(t)
        PROVE  Kept(t) /\ tx'[t].pc = "done"
    <2> DEFINE r == [Fresh EXCEPT !.pc = "done", !.deal = tx[t].deal, !.ok = tx[t].ok,
                                 !.got = tx[t].got]
    <2>1. Become(t, r)
      BY <1>3 DEF Commit
    <2>2. r.pc = "done"
      BY DEF Fresh
    <2> HIDE DEF r
    <2> QED BY <1>1, <2>1, <2>2
  <1>4. ASSUME NEW t \in Txs, Begin(t) \/ OrderTake(t) \/ LockRow(t) \/ Decide(t)
                  \/ PickupTake(t) \/ Book(t) \/ DeadlockVictim(t) \/ LockTimeout(t) \/ Fail(t)
        PROVE  Kept(t) /\ Other(t)
    <2>1. tx[t] \in TxType
      BY AtWork
    <2>2. ASSUME NEW r, Become(t, r), r.pc # "done", bal' = bal
          PROVE  Kept(t) /\ Other(t)
      BY <2>2, <1>1
    <2>3. CASE Begin(t)
      <3>1. PICK d \in Deals[t] : OrderBegin(t, d) \/ PickupBegin(t, d) \/ OtherBegin(t, d)
        BY <2>3 DEF Begin
      <3>2. \A pc : [Fresh EXCEPT !.pc = pc, !.deal = d].pc = pc
                    /\ [Fresh EXCEPT !.pc = pc, !.deal = d, !.seen = stock].pc = pc
        BY DEF Fresh
      <3> QED BY <2>2, <3>1, <3>2 DEF OrderBegin, PickupBegin, OtherBegin
    <2>4. CASE OrderTake(t)
      <3>1. CASE Rollback(t, "refused")
        BY <1>2, <3>1
      <3>2. CASE /\ \/ Goto(t, "settle")
                    \/ Become(t, [tx[t] EXCEPT !.pc = "settle", !.got = Head(stock)])
                 /\ bal' = bal
        <4>1. /\ [tx[t] EXCEPT !.pc = "settle"].pc = "settle"
              /\ [tx[t] EXCEPT !.pc = "settle", !.got = Head(stock)].pc = "settle"
          BY <2>1 DEF TxType
        <4> QED BY <2>2, <3>2, <4>1 DEF Goto
      <3> QED BY <2>4, <3>1, <3>2 DEF OrderTake
    <2>5. CASE LockRow(t)
      <3>1. PICK u : \/ Become(t, [tx[t] EXCEPT !.mem[u] = bal[u]])
                     \/ Goto(t, "decide")
        BY <2>5 DEF LockRow
      <3>2. tx[t].pc = "lock" /\ bal' = bal
        BY <2>5 DEF LockRow, At
      <3>3. /\ [tx[t] EXCEPT !.mem[u] = bal[u]].pc = "lock"
            /\ [tx[t] EXCEPT !.pc = "decide"].pc = "decide"
        BY <2>1, <3>2 DEF TxType
      <3> QED BY <2>2, <3>1, <3>2, <3>3 DEF Goto
    <2>6. CASE Decide(t)
      <3>1. CASE Rollback(t, "refused")
        BY <1>2, <3>1
      <3>2. CASE (\E pc \in {"take", "settle"} : Goto(t, pc)) /\ bal' = bal
        <4>1. PICK pc \in {"take", "settle"} : Goto(t, pc)
          BY <3>2
        <4>2. [tx[t] EXCEPT !.pc = pc].pc = pc
          BY <2>1 DEF TxType
        <4> QED BY <2>2, <3>2, <4>1, <4>2 DEF Goto
      <3> QED BY <2>6, <3>1, <3>2 DEF Decide
    <2>7. CASE PickupTake(t)
      <3>1. CASE Rollback(t, "refused")
        BY <1>2, <3>1
      <3>2. CASE /\ \/ Goto(t, "settle")
                    \/ Become(t, [tx[t] EXCEPT !.pc = "settle", !.got = Head(tx[t].seen),
                                               !.seen = Tail(tx[t].seen)])
                 /\ bal' = bal
        <4>1. /\ [tx[t] EXCEPT !.pc = "settle"].pc = "settle"
              /\ [tx[t] EXCEPT !.pc = "settle", !.got = Head(tx[t].seen),
                               !.seen = Tail(tx[t].seen)].pc = "settle"
          BY <2>1 DEF TxType
        <4> QED BY <2>2, <3>2, <4>1 DEF Goto
      <3> QED BY <2>7, <3>1, <3>2 DEF PickupTake
    <2>8. CASE Book(t)
      <3>1. PICK u, b, a : Become(t, Booked(t, u, b, a)) /\ bal' = bal
        BY <2>8 DEF Book
      <3>2. Booked(t, u, b, a).pc # "done"
        <4> DEFINE pc == IF tx[t].leg = Len(Legs(tx[t].deal)) THEN "commit" ELSE "settle"
        <4>1. Booked(t, u, b, a).pc = pc
          BY <2>1 DEF Booked, TxType
        <4> QED BY <4>1
      <3> QED BY <2>2, <3>1, <3>2
    <2>9. CASE LockTimeout(t)
      <3>1. CASE Rollback(t, "refused")
        BY <1>2, <3>1
      <3>2. CASE Become(t, [tx[t] EXCEPT !.pc = "commit", !.ok = FALSE]) /\ bal' = bal
        <4>1. [tx[t] EXCEPT !.pc = "commit", !.ok = FALSE].pc = "commit"
          BY <2>1 DEF TxType
        <4> QED BY <2>2, <3>2, <4>1
      <3> QED BY <2>9, <3>1, <3>2 DEF LockTimeout
    <2>10. CASE DeadlockVictim(t) \/ Fail(t)
      BY <1>2, <2>10 DEF DeadlockVictim, Fail
    <2> QED BY <1>4, <2>3, <2>4, <2>5, <2>6, <2>7, <2>8, <2>9, <2>10
  <1> QED BY <1>3, <1>4 DEF Next, Step

LEMMA OverdrawStep == LedgerInv /\ RowsInv /\ [Next]_vars =>
  \A u \in Users : bal'[u] < 0 /\ bal'[u] < bal[u]
    => \E t \in Txs : Commits(t) /\ (tx[t].deal.kind = "order" \/ Unforeseen(tx[t].deal))
  <1> SUFFICES ASSUME LedgerInv, RowsInv, [Next]_vars, NEW u \in Users,
                      bal'[u] < 0, bal'[u] < bal[u]
               PROVE  \E t \in Txs : /\ Commits(t)
                                     /\ tx[t].deal.kind = "order" \/ Unforeseen(tx[t].deal)
    OBVIOUS
  <1>1. bal \in [Users -> Int] /\ bal' \in [Users -> Int]
    BY NextInv DEF LedgerInv, TypeInv, TypeOK
  <1>2. bal' # bal
    BY <1>1
  <1>3. PICK t \in Txs : Commit(t) /\ tx'[t].pc = "done"
    BY <1>2, OnlyCommits DEF vars
  <1> DEFINE d == tx[t].deal
  <1>4. /\ d \in Deal /\ BooksOK(t, tx[t]) /\ SortedOK(t, tx[t]) /\ tx[t].pc = "commit"
        /\ row[u] = t /\ (tx[t].ok => bal'[u] = bal[u] + Moved(d, 6, u))
    BY <1>1, <1>3, CommitMoves
  <1>5. ASSUME d.kind # "order", ~Unforeseen(d)
        PROVE  FALSE
    <2>1. tx[t].ok /\ u \in Parties(d) /\ Bears(d, u)
      BY <1>4, <1>5 DEF SortedOK, Active
    <2>2. d.payer # "none" \/ ~Sold(d)
      BY <1>5 DEF Unforeseen, Sold
    <2>3. NetDelta(d, u) \in Int /\ Moved(d, 6, u) = NetDelta(d, u)
      BY <1>4, <2>1, <2>2, MovedIsNet
    <2>4. bal[u] \in Int /\ bal'[u] = bal[u] + NetDelta(d, u)
      BY <1>1, <1>4, <2>1, <2>3
    <2> QED BY <2>1, <2>3, <2>4 DEF Bears
  <1> QED BY <1>3, <1>4, <1>5 DEF Commits, At

(***************************************************************************)
(* Whatever runs beside them, pickups whose card names who pays the fee,   *)
(* withdrawals and incomes never take a balance below zero: what           *)
(* _compute_net_deltas foresees is what the legs of the settlement move,   *)
(* and the rows locked before the decision stay locked until the commit.   *)
(***************************************************************************)
THEOREM OnlyOrdersGoBelow == Spec => OnlyOrdersOverdraw
  BY RowsInvariant, OverdrawStep, PTL DEF Spec, OnlyOrdersOverdraw

\* A leg moves its amount to one user.
LEMMA PartOfOne ==
  ASSUME NEW d \in Deal, NEW i \in 1 .. 5
  PROVE  \E w \in Users : \A u : Part(d, i, u) = IF u = w THEN Amount(d, i) ELSE 0
  <1>1. CASE i \in 1 .. Len(Legs(d))
    <2>1. Legs(d)[i].user \in Users
      BY <1>1, LegUsers
    <2> QED BY <1>1, <2>1 DEF Part, Amount
  <1>2. CASE i \notin 1 .. Len(Legs(d))
    BY <1>2, DealFields DEF Part, Amount
  <1> QED BY <1>1, <1>2

\* A leg changes the sum of the balances by its amount.
LEMMA LegOfSum ==
  ASSUME NEW d \in Deal, NEW i \in 1 .. 5, NEW f \in [Users -> Int], NEW g \in [Users -> Int],
         \A u \in Users : g[u] = f[u] + Part(d, i, u)
  PROVE  SumFcn(f)[Users] \in Int /\ SumFcn(g)[Users] = SumFcn(f)[Users] + Amount(d, i)
  <1>1. PICK w \in Users : \A u : Part(d, i, u) = IF u = w THEN Amount(d, i) ELSE 0
    BY PartOfOne
  <1>2. \A u \in Users : g[u] = f[u] + (IF u = w THEN Amount(d, i) ELSE 0)
    BY <1>1
  <1>3. Amount(d, i) \in Int /\ IsFiniteSet(Users)
    BY PartInt, SettlementAssumption
  <1> HIDE DEF Amount
  <1> QED BY <1>2, <1>3, SumUpdate

\* All the legs of a deal change it by what leaves the system with the deal.
LEMMA LegsOfSum ==
  ASSUME NEW d \in Deal, NEW f \in [Users -> Int], NEW g \in [Users -> Int],
         \A u \in Users : g[u] = f[u] + Moved(d, 6, u)
  PROVE  SumFcn(g)[Users] = SumFcn(f)[Users] + Outside(d)
  <1> DEFINE F(k) == [u \in Users |-> f[u] + Moved(d, k, u)]
             T(k) == SumFcn(F(k))[Users]
  <1>1. \A k \in 1 .. 6 : F(k) \in [Users -> Int]
    BY MovedSteps
  <1>2. ASSUME NEW k \in 1 .. 5
        PROVE  T(k) \in Int /\ T(k + 1) = T(k) + Amount(d, k)
    <2>1. /\ k \in 1 .. 6 /\ k + 1 \in 1 .. 6
      OBVIOUS
    <2>2. F(k) \in [Users -> Int] /\ F(k + 1) \in [Users -> Int]
      BY <1>1, <2>1
    <2>3. \A u \in Users : F(k + 1)[u] = F(k)[u] + Part(d, k, u)
      <3> SUFFICES ASSUME NEW u \in Users PROVE F(k + 1)[u] = F(k)[u] + Part(d, k, u)
        OBVIOUS
      <3>1. /\ Moved(d, k + 1, u) = Moved(d, k, u) + Part(d, k, u)
            /\ Moved(d, k, u) \in Int /\ Part(d, k, u) \in Int
        BY <2>1, MovedSteps, PartInt
      <3>2. F(k + 1)[u] = f[u] + Moved(d, k + 1, u) /\ F(k)[u] = f[u] + Moved(d, k, u)
        OBVIOUS
      <3> QED BY <3>1, <3>2
    <2> HIDE DEF F
    <2> QED BY <2>2, <2>3, LegOfSum
  <1>3. f = F(1) /\ g = F(6)
    <2>1. \A u \in Users : Moved(d, 1, u) = 0
      BY MovedSteps
    <2>2. \A u \in Users : F(1)[u] = f[u] /\ F(6)[u] = g[u]
      BY <2>1
    <2>3. F(1) \in [Users -> Int] /\ F(6) \in [Users -> Int]
      BY <1>1
    <2> HIDE DEF F
    <2> QED BY <2>2, <2>3
  <1>4. /\ T(2) = T(1) + Amount(d, 1) /\ T(3) = T(2) + Amount(d, 2)
        /\ T(4) = T(3) + Amount(d, 3) /\ T(5) = T(4) + Amount(d, 4)
        /\ T(6) = T(5) + Amount(d, 5)
        /\ T(1) \in Int
    <2>1. \A k \in 1 .. 5 : T(k) \in Int /\ T(k + 1) = T(k) + Amount(d, k)
      BY <1>2
    <2> HIDE DEF T
    <2>2. /\ 1 \in 1 .. 5 /\ 2 \in 1 .. 5 /\ 3 \in 1 .. 5 /\ 4 \in 1 .. 5 /\ 5 \in 1 .. 5
          /\ 1 + 1 = 2 /\ 2 + 1 = 3 /\ 3 + 1 = 4 /\ 4 + 1 = 5 /\ 5 + 1 = 6
      OBVIOUS
    <2> QED BY <2>1, <2>2
  <1>5. /\ Amount(d, 1) \in Int /\ Amount(d, 2) \in Int /\ Amount(d, 3) \in Int
        /\ Amount(d, 4) \in Int /\ Amount(d, 5) \in Int
    BY PartInt
  <1>6. Amount(d, 1) + Amount(d, 2) + Amount(d, 3) + Amount(d, 4) + Amount(d, 5) = Outside(d)
    <2>1. d.dealer \in Parties(d)
      BY DEF Parties
    <2> QED BY <2>1, MovedIsNet
  <1>7. T(6) = T(1) + Outside(d)
    <2> HIDE DEF T
    <2> QED BY <1>4, <1>5, <1>6
  <1> QED BY <1>3, <1>7

LEMMA MoneyStep == LedgerInv /\ RowsInv /\ [Next]_vars =>
  \A t \in Txs : Commits(t) /\ tx[t].ok => Total' = Total + Outside(tx[t].deal)
  <1> SUFFICES ASSUME LedgerInv, RowsInv, [Next]_vars, NEW t \in Txs, Commits(t), tx[t].ok
               PROVE  Total' = Total + Outside(tx[t].deal)
    OBVIOUS
  <1>1. tx[t].pc = "commit" /\ tx'[t].pc = "done"
    BY DEF Commits, At
  <1>2. Commit(t)
    <2>1. tx' # tx
      BY <1>1
    <2>2. PICK s \in Txs : /\ \A x \in Txs \ {s} : tx'[x] = tx[x]
                           /\ \/ Commit(s) /\ tx'[s].pc = "done"
                              \/ bal' = bal /\ tx'[s].pc # "done"
      BY <2>1, OnlyCommits DEF vars
    <2>3. s = t
      BY <1>1, <2>2
    <2> QED BY <1>1, <2>2, <2>3
  <1>3. /\ tx[t].deal \in Deal /\ bal \in [Users -> Int] /\ bal' \in [Users -> Int]
        /\ \A u \in Users : bal'[u] = bal[u] + Moved(tx[t].deal, 6, u)
    BY <1>2, CommitMoves
  <1>4. PICK d, f, g : d = tx[t].deal /\ f = bal /\ g = bal'
    OBVIOUS
  <1>5. SumFcn(g)[Users] = SumFcn(f)[Users] + Outside(d)
    BY <1>3, <1>4, LegsOfSum
  <1>6. DOMAIN f = Users /\ DOMAIN g = Users
    BY <1>3, <1>4
  <1>7. Total = SumFcn(f)[Users] /\ Total' = SumFcn(g)[Users]
    BY <1>4, <1>6, TotalIsSum
  <1> QED BY <1>4, <1>5, <1>7

(***************************************************************************)
(* Money is only passed on.  A settlement that is marked as settled takes  *)
(* the fee out of the users' money together, a withdrawal its amount, and  *)
(* nothing else is lost or made, whatever the prices, the level and the    *)
(* payer of the fee are and whatever commits between its statements.       *)
(***************************************************************************)
THEOREM MoneyKept == Spec => MoneyConserved
  BY RowsInvariant, MoneyStep, PTL DEF Spec, MoneyConserved

=============================================================================
