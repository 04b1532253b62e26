------------------------ MODULE OrderDelivery_proofs ------------------------
(***************************************************************************)
(* Theorems about OrderDelivery, for every value of its constants that     *)
(* DeliveryAssumption admits: any number of flows, orders, codes and       *)
(* restarts, and every switch and fault.                                   *)
(***************************************************************************)
EXTENDS OrderDelivery, TLAPS

USE DEF Threads, Callers, Gens

(***************************************************************************)
(* TypeOK is not inductive: a flow at work knows its order, a round begins *)
(* only if one is left, a caller waits only while it is owed an answer,    *)
(* and a request is repeated only while tries are left.                    *)
(***************************************************************************)
FlowOK(t, r) ==
  /\ r \in Flow
  /\ r.pc # "idle" => r.ord \in Orders
  /\ r.pc \in {"redis", "lock", "check", "enter", "confirm", "take"} => r.round < Qty
  /\ r.pc = "send" /\ t \in Calls => r.round < Qty

CallerOK(r) ==
  /\ r \in Caller
  /\ r.pc # "idle" => r.ord \in Orders
  /\ r.req # Nobody => r.pc = "wait"
  /\ r.pc \in {"redis", "ship", "call"} => r.tries < MaxTries

FlowsOK   == th \in [Threads -> Flow] /\ \A t \in Threads : FlowOK(t, th[t])
CallersOK == cl \in [Callers -> Caller] /\ \A c \in Callers : CallerOK(cl[c])

TypeInv == StoreOK /\ FlowsOK /\ CallersOK

-----------------------------------------------------------------------------
\* What the building blocks of the actions do to the flows and the callers.

LEMMA IdleOK == \A t \in Threads : FlowOK(t, Idle)
  BY DeliveryAssumption DEF FlowOK, Idle, Flow, Locked, ReplyKinds

LEMMA WaitingOK == CallerOK(Waiting)
  BY DeliveryAssumption DEF CallerOK, Waiting, Caller, ReplyKinds, MaxTries

LEMMA BecomeOK ==
  ASSUME FlowsOK, NEW t \in Threads, NEW r, FlowOK(t, r), Become(t, r)
  PROVE  FlowsOK'
  <1>1. r \in Flow
    BY DEF FlowOK
  <1>2. th' = [th EXCEPT ![t] = r] /\ th \in [Threads -> Flow]
    BY DEF Become, FlowsOK
  <1>3. th' \in [Threads -> Flow] /\ \A u \in Threads : FlowOK(u, th'[u])
    <2> HIDE DEF FlowOK
    <2> QED BY <1>1, <1>2 DEF FlowsOK
  <1> QED BY <1>3 DEF FlowsOK, FlowOK

LEMMA CallerBecomeOK ==
  ASSUME CallersOK, NEW c \in Callers, NEW r, CallerOK(r), CallerBecome(c, r)
  PROVE  CallersOK'
  <1>1. r \in Caller
    BY DEF CallerOK
  <1>2. cl' = [cl EXCEPT ![c] = r] /\ cl \in [Callers -> Caller]
    BY DEF CallerBecome, CallersOK
  <1>3. cl' \in [Callers -> Caller] /\ \A d \in Callers : CallerOK(cl'[d])
    <2> HIDE DEF CallerOK
    <2> QED BY <1>1, <1>2 DEF CallersOK
  <1> QED BY <1>3 DEF CallersOK, CallerOK

LEMMA AnswerOK ==
  ASSUME CallersOK, NEW t \in Threads, NEW kind \in ReplyKinds,
         NEW codes \in SUBSET Codes, Answer(t, kind, codes)
  PROVE  CallersOK'
  <1> DEFINE v(c) == IF cl[c].req = t
                     THEN [cl[c] EXCEPT !.pc = "done", !.req = Nobody,
                                        !.reply = kind, !.codes = codes]
                     ELSE cl[c]
  <1>1. ASSUME NEW c \in Callers
        PROVE  CallerOK(v(c))
    <2>1. CallerOK(cl[c])
      BY DEF CallersOK
    <2>2. CASE cl[c].req = t
      <3>1. t # Nobody
        BY DeliveryAssumption
      <3>2. cl[c].pc = "wait"
        BY <2>1, <2>2, <3>1 DEF CallerOK
      <3>3. cl[c].ord \in Orders
        BY <2>1, <3>2 DEF CallerOK
      <3> DEFINE n == [cl[c] EXCEPT !.pc = "done", !.req = Nobody,
                                    !.reply = kind, !.codes = codes]
      <3>4. n \in Caller /\ n.pc = "done" /\ n.req = Nobody /\ n.ord \in Orders
        BY <2>1, <3>3 DEF CallerOK, Caller
      <3> HIDE DEF n
      <3>5. CallerOK(n)
        BY <3>4 DEF CallerOK
      <3> QED BY <2>2, <3>5 DEF n
    <2> QED BY <2>1, <2>2
  <1>2. cl' = [c \in Callers |-> v(c)]
    BY DEF Answer
  <1> HIDE DEF v
  <1>3. cl' \in [Callers -> Caller] /\ \A c \in Callers : CallerOK(cl'[c])
    BY <1>1, <1>2 DEF CallerOK
  <1> QED BY <1>3 DEF CallersOK, CallerOK

LEMMA FinishOK ==
  ASSUME TypeInv, NEW t \in Threads, th[t].ord \in Orders,
         NEW kind \in ReplyKinds, NEW codes \in SUBSET Codes,
         Finish(t, kind, codes)
  PROVE  /\ FlowsOK' /\ CallersOK'
         /\ lock' \in [Gens -> [Orders -> Threads \cup {Nobody}]]
  <1>1. CallersOK'
    BY AnswerOK DEF Finish, TypeInv
  <1>2. FlowsOK'
    <2>1. FlowOK(t, [th[t] EXCEPT !.pc = "free"])
      BY DEF TypeInv, FlowsOK, FlowOK, Flow
    <2> QED BY <2>1, IdleOK, BecomeOK DEF Finish, Goto, TypeInv
  <1>3. lock' \in [Gens -> [Orders -> Threads \cup {Nobody}]]
    <2>1. th[t].inst \in Gens
      BY DEF TypeInv, FlowsOK, Flow
    <2> QED BY <2>1 DEF Finish, TypeInv, StoreOK, outside
  <1> QED BY <1>1, <1>2, <1>3

LEMMA RoundOK ==
  ASSUME NEW t \in Autos, NEW r, FlowOK(t, r), r.pc \in {"confirm", "take"}
  PROVE  FlowOK(t, NextRound(r))
  <1> DEFINE n == NextRound(r)
  <1>1. r \in Flow /\ r.ord \in Orders /\ r.round < Qty /\ r.round \in 0..Qty
    BY DEF FlowOK, Flow
  <1>2. Qty \in Nat /\ Rounds(r) \in Nat /\ Rounds(r) <= Qty /\ t \notin Calls
    BY DeliveryAssumption DEF Rounds
  <1>3. r.round + 1 \in 0..Qty
    BY <1>1, <1>2
  <1> DEFINE pc == IF r.round + 1 < Rounds(r) THEN "enter"
                   ELSE IF r.got # {} THEN "mark" ELSE "leave"
  <1>4. pc \in {"enter", "mark", "leave"} /\ (pc = "enter" => r.round + 1 < Qty)
    BY <1>1, <1>2
  <1>5. n = [r EXCEPT !.pc = pc, !.round = r.round + 1, !.rOnly = FALSE, !.rConf = FALSE]
    BY DEF NextRound
  <1> HIDE DEF pc, n
  <1>6. n \in Flow /\ n.pc = pc /\ n.round = r.round + 1 /\ n.ord = r.ord
    BY <1>1, <1>3, <1>4, <1>5 DEF Flow, Locked
  <1>7. FlowOK(t, n)
    BY <1>1, <1>2, <1>4, <1>6 DEF FlowOK
  <1> QED BY <1>7 DEF n

LEMMA EmptyRoundOK ==
  ASSUME FlowsOK, NEW t \in Autos, th[t].pc \in {"confirm", "take"}, EmptyRound(t)
  PROVE  FlowsOK'
  <1>1. FlowOK(t, [th[t] EXCEPT !.pc = "leave"])
    BY DEF FlowsOK, FlowOK, Flow, Locked
  <1>2. FlowOK(t, NextRound(th[t]))
    BY RoundOK DEF FlowsOK
  <1> QED BY <1>1, <1>2, BecomeOK DEF EmptyRound, Goto

LEMMA PreCheckOK ==
  ASSUME StoreOK, NEW o \in Orders, NEW p \in PreCheck(o)
  PROVE  p[1] \in PlatformStates
  BY DEF PreCheck, StoreOK, PlatformStates, outside

LEMMA AnswersOK ==
  ASSUME StoreOK, NEW o \in Orders, NEW a \in Answers(o)
  PROVE  a[1] \in PlatformStates
  BY DEF Answers, StoreOK, PlatformStates, outside

LEMMA LockResultsOK ==
  ASSUME StoreOK, NEW o \in Orders, NEW n \in Threads \cup Callers,
         NEW a \in LockResults(n, o)
  PROVE  a[1] \in Threads \cup Callers \cup {Nobody}
  BY DEF LockResults, StoreOK, outside

LEMMA ReleaseResultsOK ==
  ASSUME StoreOK, NEW o \in Orders, NEW n \in Threads \cup Callers,
         NEW m \in ReleaseResults(n, redis[o])
  PROVE  m \in Threads \cup Callers \cup {Nobody}
  BY DEF ReleaseResults, StoreOK, outside

-----------------------------------------------------------------------------
\* One lemma per action.

LEMMA AutoStartType ==
  ASSUME TypeInv, NEW t \in Autos, NEW o \in Orders, AutoStart(t, o)
  PROVE  TypeInv'
  <1>1. PICK p \in PreCheck(o) :
          /\ platform' = [platform EXCEPT ![o] = p[1]]
          /\ \/ UNCHANGED th
             \/ Become(t, [Idle EXCEPT !.pc = "redis", !.ord = o, !.inst = gen,
                                       !.closed = (p[2] = "card_only"),
                                       !.only = onlySend])
    BY DEF AutoStart
  <1>2. p[1] \in PlatformStates
    BY PreCheckOK DEF TypeInv
  <1>3. StoreOK'
    BY <1>1, <1>2 DEF AutoStart, TypeInv, StoreOK, database, memory, outside
  <1>4. CallersOK'
    BY DEF AutoStart, TypeInv, CallersOK, CallerOK
  <1>5. FlowsOK'
    <2> DEFINE r == [Idle EXCEPT !.pc = "redis", !.ord = o, !.inst = gen,
                                 !.closed = (p[2] = "card_only"), !.only = onlySend]
    <2>1. gen \in Gens /\ onlySend \in BOOLEAN
      BY DeliveryAssumption DEF TypeInv, StoreOK, outside
    <2>2. r \in Flow /\ r.pc = "redis" /\ r.ord = o /\ r.round = 0
      <3>1. Idle \in Flow /\ Idle.round = 0
        BY IdleOK DEF FlowOK, Idle
      <3> QED BY <2>1, <3>1 DEF Flow
    <2> HIDE DEF r
    <2>3. FlowOK(t, r)
      BY <2>2, DeliveryAssumption DEF FlowOK
    <2>4. CASE Become(t, r)
      BY <2>3, <2>4, BecomeOK DEF TypeInv
    <2>5. CASE UNCHANGED th
      BY <2>5 DEF TypeInv, FlowsOK, FlowOK
    <2> QED BY <1>1, <2>4, <2>5 DEF r
  <1> QED BY <1>3, <1>4, <1>5 DEF TypeInv

LEMMA AutoRedisType ==
  ASSUME TypeInv, NEW t \in Autos, AutoRedis(t)
  PROVE  TypeInv'
  <1>1. th[t] \in Flow /\ th[t].ord \in Orders /\ FlowOK(t, th[t]) /\ th[t].pc = "redis"
    BY DEF AutoRedis, At, TypeInv, FlowsOK, FlowOK
  <1>2. PICK a \in LockResults(t, th[t].ord) :
          /\ redis' = [redis EXCEPT ![th[t].ord] = a[1]]
          /\ \/ Become(t, Idle)
             \/ Become(t, [th[t] EXCEPT !.pc = "lock", !.redis = (a[2] = "got")])
    BY DEF AutoRedis
  <1>3. a[1] \in Threads \cup Callers \cup {Nobody}
    BY <1>1, LockResultsOK DEF TypeInv
  <1>4. StoreOK'
    BY <1>1, <1>2, <1>3 DEF AutoRedis, TypeInv, StoreOK, database, memory, outside
  <1>5. FlowOK(t, [th[t] EXCEPT !.pc = "lock", !.redis = (a[2] = "got")])
    BY <1>1 DEF FlowOK, Flow
  <1>6. FlowsOK'
    BY <1>2, <1>5, IdleOK, BecomeOK DEF TypeInv
  <1>7. CallersOK'
    BY DEF AutoRedis, TypeInv, CallersOK, CallerOK
  <1> QED BY <1>4, <1>6, <1>7 DEF TypeInv

LEMMA AcquireType ==
  ASSUME TypeInv, NEW t \in Threads, Acquire(t)
  PROVE  TypeInv'
  <1>1. th[t] \in Flow /\ th[t].ord \in Orders /\ FlowOK(t, th[t]) /\ th[t].pc = "lock"
    BY DEF Acquire, At, TypeInv, FlowsOK, FlowOK
  <1>2. FlowOK(t, [th[t] EXCEPT !.pc = "check"]) /\ FlowOK(t, [th[t] EXCEPT !.pc = "free"])
    BY <1>1 DEF FlowOK, Flow, Locked
  <1>3. FlowsOK'
    BY <1>2, IdleOK, BecomeOK DEF Acquire, Goto, TypeInv
  <1>4. CallersOK'
    <2>1. CASE UNCHANGED cl
      BY <2>1 DEF TypeInv, CallersOK, CallerOK
    <2>2. CASE Answer(t, "fail", {})
      BY <2>2, AnswerOK DEF TypeInv, ReplyKinds
    <2> QED BY <2>1, <2>2 DEF Acquire
  <1>5. th[t].inst \in Gens
    BY <1>1 DEF Flow
  <1>6. lock' \in [Gens -> [Orders -> Threads \cup {Nobody}]]
    <2>1. lock \in [Gens -> [Orders -> Threads \cup {Nobody}]]
      BY DEF TypeInv, StoreOK
    <2>2. \/ lock' = lock
          \/ lock' = [lock EXCEPT ![th[t].inst][th[t].ord] = t]
      BY DEF Acquire
    <2> QED BY <1>1, <1>5, <2>1, <2>2
  <1>7. UNCHANGED <<platform, buyer, database, card, outside, redis,
                    gen, hold, cool, confd, snap>>
    BY DEF Acquire
  <1>8. StoreOK'
    BY <1>6, <1>7 DEF TypeInv, StoreOK, database, outside
  <1> QED BY <1>3, <1>4, <1>8 DEF TypeInv

LEMMA AutoCheckType ==
  ASSUME TypeInv, NEW t \in Autos, AutoCheck(t)
  PROVE  TypeInv'
  <1>1. th[t] \in Flow /\ th[t].ord \in Orders /\ FlowOK(t, th[t]) /\ th[t].pc = "check"
    BY DEF AutoCheck, At, TypeInv, FlowsOK, FlowOK
  <1>2. CASE Finish(t, "none", {})
    <2>1. StoreOK'
      BY <1>2, <1>1, FinishOK DEF AutoCheck, TypeInv, StoreOK, database, ReplyKinds, outside
    <2> QED BY <1>2, <1>1, <2>1, FinishOK DEF TypeInv, ReplyKinds
  <1>3. CASE Goto(t, "enter") /\ UNCHANGED <<lock, cl>>
    <2>1. FlowOK(t, [th[t] EXCEPT !.pc = "enter"])
      BY <1>1 DEF FlowOK, Flow, Locked
    <2>2. StoreOK' /\ CallersOK'
      BY <1>3 DEF AutoCheck, TypeInv, StoreOK, CallersOK, CallerOK, database, outside
    <2> QED BY <1>3, <2>1, <2>2, BecomeOK DEF Goto, TypeInv
  <1> QED BY <1>2, <1>3 DEF AutoCheck

LEMMA CallCheckType ==
  ASSUME TypeInv, NEW t \in Calls, CallCheck(t)
  PROVE  TypeInv'
  <1> DEFINE o == th[t].ord
  <1>1. th[t] \in Flow /\ o \in Orders /\ FlowOK(t, th[t]) /\ th[t].pc = "check"
    BY DEF CallCheck, At, TypeInv, FlowsOK, FlowOK
  <1>2. UNCHANGED <<buyer, database, card, outside, redis, gen, hold, cool, confd, snap>>
    BY DEF CallCheck
  <1>3. platform' \in [Orders -> PlatformStates]
    BY <1>1, PreCheckOK DEF CallCheck, TypeInv, StoreOK, outside
  <1>4. ASSUME NEW kind \in ReplyKinds, NEW codes \in SUBSET Codes, Finish(t, kind, codes)
        PROVE  TypeInv'
    <2>1. FlowsOK' /\ CallersOK' /\ lock' \in [Gens -> [Orders -> Threads \cup {Nobody}]]
      BY <1>1, <1>4, FinishOK
    <2>2. StoreOK'
      BY <1>2, <1>3, <2>1 DEF TypeInv, StoreOK, database, outside
    <2> QED BY <2>1, <2>2 DEF TypeInv
  <1>5. ASSUME NEW b, NEW only \in BOOLEAN, b \in BOOLEAN, UNCHANGED <<lock, cl>>,
               Become(t, [th[t] EXCEPT !.pc = "confirm", !.closed = b, !.only = only])
        PROVE  TypeInv'
    <2>1. FlowOK(t, [th[t] EXCEPT !.pc = "confirm", !.closed = b, !.only = only])
      BY <1>1, <1>5 DEF FlowOK, Flow, Locked
    <2>2. StoreOK' /\ CallersOK'
      BY <1>2, <1>3, <1>5 DEF TypeInv, StoreOK, CallersOK, CallerOK, database, outside
    <2> QED BY <1>5, <2>1, <2>2, BecomeOK DEF TypeInv
  <1>6. content[o] \in SUBSET Codes /\ onlySend \in BOOLEAN
    BY <1>1, DeliveryAssumption DEF TypeInv, StoreOK, outside
  <1>7. CASE Finish(t, "alreadyOnly", content[o])
    BY <1>4, <1>6, <1>7 DEF ReplyKinds
  <1>8. CASE Finish(t, "already", {}) \/ Finish(t, "fail", {})
    BY <1>4, <1>8 DEF ReplyKinds
  <1>9. CASE \E p \in PreCheck(o) :
               /\ Become(t, [th[t] EXCEPT !.pc = "confirm",
                                          !.closed = (p[2] = "card_only"),
                                          !.only = onlySend])
               /\ UNCHANGED <<lock, cl>>
    BY <1>5, <1>6, <1>9
  <1> QED BY <1>7, <1>8, <1>9 DEF CallCheck

LEMMA AutoEnterType ==
  ASSUME TypeInv, NEW t \in Autos, AutoEnter(t)
  PROVE  TypeInv'
  <1>1. FlowOK(t, th[t]) /\ th[t].pc = "enter" /\ onlySend \in BOOLEAN
    BY DeliveryAssumption DEF AutoEnter, At, TypeInv, FlowsOK, StoreOK, outside
  <1>2. FlowOK(t, [th[t] EXCEPT !.pc = "confirm", !.rOnly = onlySend])
    BY <1>1 DEF FlowOK, Flow, Locked
  <1>3. StoreOK' /\ CallersOK'
    BY DEF AutoEnter, TypeInv, StoreOK, CallersOK, CallerOK, database, memory, outside
  <1> QED BY <1>2, <1>3, BecomeOK DEF AutoEnter, TypeInv

LEMMA ConfirmAskType ==
  ASSUME TypeInv, NEW t \in Threads, ConfirmAsk(t)
  PROVE  TypeInv'
  <1> DEFINE g == th[t].inst
             o == th[t].ord
  <1>1. o \in Orders /\ g \in Gens /\ FlowOK(t, th[t]) /\ th[t].pc = "confirm"
    BY DEF ConfirmAsk, At, TypeInv, FlowsOK, FlowOK, Flow
  <1>2. PICK a \in Answers(o) :
         /\ platform' = [platform EXCEPT ![o] = a[1]]
         /\ confd' = IF t \in Autos /\ a[2] # "error"
                     THEN [confd EXCEPT ![g][o] = TRUE] ELSE confd
         /\ cool' = IF t \in Autos /\ a[2] = "already"
                    THEN [cool EXCEPT ![g][o] = TRUE] ELSE cool
         /\ \/ /\ Become(t, [th[t] EXCEPT !.pc = "take", !.rConf = (a[2] = "ok")])
               /\ UNCHANGED <<lock, cl>>
            \/ t \in Calls /\ Finish(t, "already", {})
            \/ t \in Calls /\ Finish(t, "fail", {})
            \/ t \in Autos /\ EmptyRound(t) /\ UNCHANGED <<lock, cl>>
    <2>1. t \in Autos \/ t \in Calls
      OBVIOUS
    <2>2. ASSUME NEW a \in Answers(o) PROVE a[2] \in {"ok", "already", "error"}
      BY <1>1 DEF Answers, TypeInv, StoreOK, PlatformStates, outside
    <2> QED BY <2>1, <2>2 DEF ConfirmAsk
  <1>3. platform' \in [Orders -> PlatformStates]
    BY <1>1, <1>2, AnswersOK DEF TypeInv, StoreOK, outside
  <1>4. confd' \in [Gens -> [Orders -> BOOLEAN]] /\ cool' \in [Gens -> [Orders -> BOOLEAN]]
    BY <1>1, <1>2 DEF TypeInv, StoreOK, outside
  <1>5. UNCHANGED <<buyer, database, card, outside, redis, gen, hold, snap>>
    BY DEF ConfirmAsk
  <1>6. CASE UNCHANGED <<lock, cl>> /\ FlowsOK'
    BY <1>3, <1>4, <1>5, <1>6 DEF TypeInv, StoreOK, CallersOK, CallerOK, database, outside
  <1>7. CASE Become(t, [th[t] EXCEPT !.pc = "take", !.rConf = (a[2] = "ok")])
             /\ UNCHANGED <<lock, cl>>
    <2>1. FlowOK(t, [th[t] EXCEPT !.pc = "take", !.rConf = (a[2] = "ok")])
      BY <1>1 DEF FlowOK, Flow, Locked
    <2> QED BY <1>6, <1>7, <2>1, BecomeOK DEF TypeInv
  <1>8. CASE t \in Autos /\ EmptyRound(t) /\ UNCHANGED <<lock, cl>>
    BY <1>1, <1>6, <1>8, EmptyRoundOK DEF TypeInv
  <1>9. CASE Finish(t, "already", {}) \/ Finish(t, "fail", {})
    <2>1. /\ FlowsOK' /\ CallersOK'
          /\ lock' \in [Gens -> [Orders -> Threads \cup {Nobody}]]
      BY <1>1, <1>9, FinishOK DEF ReplyKinds
    <2>2. StoreOK'
      BY <1>3, <1>4, <1>5, <2>1 DEF TypeInv, StoreOK, database, outside
    <2> QED BY <2>1, <2>2 DEF TypeInv
  <1> QED BY <1>2, <1>7, <1>8, <1>9

LEMMA ConfirmType ==
  ASSUME TypeInv, NEW t \in Threads, Confirm(t)
  PROVE  TypeInv'
  <1>1. FlowOK(t, th[t]) /\ th[t].pc = "confirm" /\ th[t].ord \in Orders
    BY DEF Confirm, ConfirmSkip, ConfirmRefused, At, TypeInv, FlowsOK, FlowOK
  <1>2. CASE ConfirmSkip(t)
    <2>1. FlowOK(t, [th[t] EXCEPT !.pc = "take"])
      BY <1>1 DEF FlowOK, Flow, Locked
    <2>2. StoreOK' /\ CallersOK'
      BY <1>2 DEF ConfirmSkip, TypeInv, StoreOK, CallersOK, CallerOK, database, memory, outside
    <2> QED BY <1>2, <2>1, <2>2, BecomeOK DEF ConfirmSkip, Goto, TypeInv
  <1>3. CASE ConfirmRefused(t)
    <2>1. CASE t \in Autos
      <3>1. FlowsOK'
        BY <1>1, <1>3, <2>1, EmptyRoundOK DEF ConfirmRefused, TypeInv
      <3>2. StoreOK' /\ CallersOK'
        BY <1>3, <2>1 DEF ConfirmRefused, TypeInv, StoreOK, CallersOK, CallerOK, database, outside
      <3> QED BY <3>1, <3>2 DEF TypeInv
    <2>2. CASE t \notin Autos
      <3>1. /\ FlowsOK' /\ CallersOK'
            /\ lock' \in [Gens -> [Orders -> Threads \cup {Nobody}]]
        BY <1>1, <1>3, <2>2, FinishOK DEF ConfirmRefused, ReplyKinds
      <3>2. StoreOK'
        BY <1>3, <3>1 DEF ConfirmRefused, TypeInv, StoreOK, database, outside
      <3> QED BY <3>1, <3>2 DEF TypeInv
    <2> QED BY <2>1, <2>2
  <1>4. CASE ConfirmOnlySend(t)
    <2>1. FlowOK(t, [th[t] EXCEPT !.pc = "take", !.rOnly = TRUE])
      BY <1>1 DEF FlowOK, Flow, Locked
    <2>2. StoreOK' /\ CallersOK'
      BY <1>4 DEF ConfirmOnlySend, TypeInv, StoreOK, CallersOK, CallerOK, database, memory, outside
    <2> QED BY <1>4, <2>1, <2>2, BecomeOK DEF ConfirmOnlySend, TypeInv
  <1> QED BY <1>2, <1>3, <1>4, ConfirmAskType DEF Confirm

LEMMA TakeType ==
  ASSUME TypeInv, NEW t \in Threads, Take(t)
  PROVE  TypeInv'
  <1>1. FlowOK(t, th[t]) /\ th[t].pc = "take" /\ th[t].ord \in Orders
    BY DEF Take, At, TypeInv, FlowsOK, FlowOK
  <1>2. UNCHANGED <<platform, buyer, database, outside, redis, gen, hold, cool, confd, snap>>
    BY DEF Take
  <1>3. ASSUME FlowsOK', UNCHANGED <<lock, cl>>, card' \in [Codes -> Orders \cup {NoOrder}]
        PROVE  TypeInv'
    BY <1>2, <1>3 DEF TypeInv, StoreOK, CallersOK, CallerOK, database, outside
  <1>4. ASSUME NEW c \in Codes, card' = [card EXCEPT ![c] = th[t].ord], UNCHANGED <<lock, cl>>,
               LET n == [th[t] EXCEPT !.got = @ \cup {c}, !.only = @ \/ th[t].rOnly,
                                      !.conf = @ \/ th[t].rConf]
               IN  Become(t, IF t \in Autos THEN NextRound(n)
                             ELSE [n EXCEPT !.pc = "send", !.todo = {c}])
        PROVE  TypeInv'
    <2> DEFINE n == [th[t] EXCEPT !.got = @ \cup {c}, !.only = @ \/ th[t].rOnly,
                                  !.conf = @ \/ th[t].rConf]
    <2>1. n \in Flow /\ n.pc = "take" /\ n.round = th[t].round /\ n.ord = th[t].ord
      BY <1>1 DEF FlowOK, Flow
    <2>2. Become(t, IF t \in Autos THEN NextRound(n) ELSE [n EXCEPT !.pc = "send", !.todo = {c}])
      BY <1>4
    <2> HIDE DEF n
    <2>3. FlowOK(t, n)
      BY <1>1, <2>1 DEF FlowOK
    <2>4. FlowOK(t, [n EXCEPT !.pc = "send", !.todo = {c}])
      BY <1>4, <2>3, <2>1 DEF FlowOK, Flow, Locked
    <2>5. t \in Autos => FlowOK(t, NextRound(n))
      BY <2>1, <2>3, RoundOK
    <2>6. FlowsOK'
      BY <2>2, <2>4, <2>5, BecomeOK DEF TypeInv
    <2>7. card' \in [Codes -> Orders \cup {NoOrder}]
      BY <1>1, <1>4 DEF TypeInv, StoreOK, outside
    <2> QED BY <1>3, <1>4, <2>6, <2>7
  <1>5. CASE UNCHANGED <<card, lock, cl>> /\ t \in Autos /\ EmptyRound(t)
    BY <1>1, <1>3, <1>5, EmptyRoundOK DEF TypeInv, StoreOK, outside
  <1>6. CASE UNCHANGED card /\ Finish(t, "fail", {})
    <2>1. /\ FlowsOK' /\ CallersOK'
          /\ lock' \in [Gens -> [Orders -> Threads \cup {Nobody}]]
      BY <1>1, <1>6, FinishOK DEF ReplyKinds
    <2>2. StoreOK'
      BY <1>2, <1>6, <2>1 DEF TypeInv, StoreOK, database, outside
    <2> QED BY <2>1, <2>2 DEF TypeInv
  <1>7. CASE UNCHANGED <<card, lock, cl>> /\ Goto(t, "post")
    <2>1. FlowOK(t, [th[t] EXCEPT !.pc = "post"])
      BY <1>1 DEF FlowOK, Flow, Locked
    <2> QED BY <1>3, <1>7, <2>1, BecomeOK DEF Goto, TypeInv, StoreOK, outside
  <1>8. CASE \E c \in Codes :
               LET n == [th[t] EXCEPT !.got = @ \cup {c}, !.only = @ \/ th[t].rOnly,
                                      !.conf = @ \/ th[t].rConf]
               IN  /\ card' = [card EXCEPT ![c] = th[t].ord]
                   /\ Become(t, IF t \in Autos THEN NextRound(n)
                                ELSE [n EXCEPT !.pc = "send", !.todo = {c}])
                   /\ UNCHANGED <<lock, cl>>
    BY <1>4, <1>8
  <1> QED BY <1>5, <1>6, <1>7, <1>8 DEF Take

LEMMA AutoMarkType ==
  ASSUME TypeInv, NEW t \in Autos, AutoMark(t)
  PROVE  TypeInv'
  <1>1. /\ FlowOK(t, th[t]) /\ th[t].pc = "mark"
        /\ th[t].ord \in Orders /\ th[t].inst \in Gens /\ t \notin Calls
    BY DeliveryAssumption DEF AutoMark, At, TypeInv, FlowsOK, FlowOK, Flow
  <1>2. FlowOK(t, [th[t] EXCEPT !.pc = "send", !.todo = th[t].got])
    BY <1>1 DEF FlowOK, Flow, Locked
  <1>3. StoreOK'
    BY <1>1 DEF AutoMark, TypeInv, StoreOK, database, outside
  <1>4. CallersOK'
    BY DEF AutoMark, TypeInv, CallersOK, CallerOK
  <1> QED BY <1>2, <1>3, <1>4, BecomeOK DEF AutoMark, TypeInv

LEMMA SendType ==
  ASSUME TypeInv, NEW t \in Threads, Send(t)
  PROVE  TypeInv'
  <1> DEFINE r == th[t]
             After(c) ==
               IF t \in Autos
               THEN [r EXCEPT !.todo = @ \ {c},
                              !.pc = IF r.todo = {c} THEN "post" ELSE "send"]
               ELSE [r EXCEPT !.todo = {}, !.round = @ + 1,
                              !.pc = IF r.round + 1 < Rounds(r) THEN "take" ELSE "post"]
  <1>1. FlowOK(t, r) /\ r \in Flow /\ r.pc = "send" /\ r.ord \in Orders
    BY DEF Send, At, TypeInv, FlowsOK, FlowOK
  <1>2. PICK c \in r.todo :
          /\ buyer' \in {buyer, [buyer EXCEPT ![r.ord] = @ \cup {c}]}
          /\ \/ Become(t, After(c))
             \/ Become(t, [After(c) EXCEPT !.bad = @ \/ t \in Autos])
             \/ Become(t, [After(c) EXCEPT !.rej = TRUE])
    BY DEF Send
  <1>3. c \in Codes
    BY <1>1, <1>2 DEF Flow
  <1>4. FlowOK(t, After(c))
    <2>1. CASE t \in Autos
      <3> DEFINE pc == IF r.todo = {c} THEN "post" ELSE "send"
                 n  == [r EXCEPT !.todo = @ \ {c}, !.pc = pc]
      <3>1. pc \in {"post", "send"}
        OBVIOUS
      <3> HIDE DEF pc
      <3>2. n \in Flow /\ n.pc = pc /\ n.ord = r.ord
        BY <1>1, <3>1 DEF Flow, Locked
      <3>3. t \notin Calls
        BY <2>1, DeliveryAssumption
      <3>4. After(c) = n
        BY <2>1 DEF pc
      <3> HIDE DEF n, After
      <3>5. FlowOK(t, n)
        BY <1>1, <3>1, <3>2, <3>3 DEF FlowOK
      <3> QED BY <3>4, <3>5
    <2>2. CASE t \notin Autos
      <3> DEFINE pc == IF r.round + 1 < Rounds(r) THEN "take" ELSE "post"
                 n  == [r EXCEPT !.todo = {}, !.round = @ + 1, !.pc = pc]
      <3>1. r.round \in 0..Qty /\ r.round < Qty /\ Qty \in Nat /\ Rounds(r) \in Nat /\ Rounds(r) <= Qty
        BY <1>1, <2>2, DeliveryAssumption DEF FlowOK, Flow, Rounds
      <3>2. r.round + 1 \in 0..Qty /\ pc \in {"take", "post"} /\ (pc = "take" => r.round + 1 < Qty)
        BY <3>1
      <3>3. After(c) = n
        BY <2>2
      <3> HIDE DEF pc
      <3>4. n \in Flow /\ n.pc = pc /\ n.ord = r.ord /\ n.round = r.round + 1
        BY <1>1, <3>2 DEF Flow, Locked
      <3> HIDE DEF n, After
      <3>5. FlowOK(t, n)
        BY <1>1, <3>2, <3>4 DEF FlowOK
      <3> QED BY <3>3, <3>5
    <2> QED BY <2>1, <2>2
  <1> HIDE DEF After
  <1>5. FlowOK(t, [After(c) EXCEPT !.bad = @ \/ t \in Autos])
        /\ FlowOK(t, [After(c) EXCEPT !.rej = TRUE])
    BY <1>4 DEF FlowOK, Flow
  <1>6. FlowsOK'
    BY <1>2, <1>4, <1>5, BecomeOK DEF TypeInv
  <1>7. buyer' \in [Orders -> SUBSET Codes]
    BY <1>1, <1>2, <1>3 DEF TypeInv, StoreOK, outside
  <1>8. StoreOK' /\ CallersOK'
    BY <1>7 DEF Send, TypeInv, StoreOK, CallersOK, CallerOK, database, memory, outside
  <1> QED BY <1>6, <1>8 DEF TypeInv

LEMMA PostType ==
  ASSUME TypeInv, NEW t \in Threads, Post(t)
  PROVE  TypeInv'
  <1> DEFINE r    == th[t]
             only == r.only \/ (~r.conf /\ onlySend)
             n    == [r EXCEPT !.pc = "write", !.only = only]
  <1>1. FlowOK(t, r) /\ r \in Flow /\ r.pc = "post" /\ r.ord \in Orders /\ onlySend \in BOOLEAN
    BY DeliveryAssumption DEF Post, At, TypeInv, FlowsOK, FlowOK, StoreOK, outside
  <1>2. FlowOK(t, n)
    BY <1>1 DEF FlowOK, Flow, Locked
  <1>3. \/ Become(t, n) /\ UNCHANGED platform
        \/ \E a \in Answers(r.ord) :
              /\ platform' = [platform EXCEPT ![r.ord] = a[1]]
              /\ Become(t, [n EXCEPT !.conf = @ \/ a[2] # "error"])
    BY DEF Post
  <1> HIDE DEF n
  <1>4. ASSUME NEW a \in Answers(r.ord)
        PROVE  FlowOK(t, [n EXCEPT !.conf = @ \/ a[2] # "error"])
    BY <1>2 DEF FlowOK, Flow
  <1>5. FlowsOK'
    BY <1>2, <1>3, <1>4, BecomeOK DEF TypeInv
  <1>6. platform' \in [Orders -> PlatformStates]
    BY <1>1, <1>3, AnswersOK DEF TypeInv, StoreOK, outside
  <1>7. StoreOK' /\ CallersOK'
    BY <1>6 DEF Post, TypeInv, StoreOK, CallersOK, CallerOK, database, memory, outside
  <1> QED BY <1>5, <1>7 DEF TypeInv

LEMMA WriteType ==
  ASSUME TypeInv, NEW t \in Threads, Write(t)
  PROVE  TypeInv'
  <1> DEFINE r    == th[t]
             o    == r.ord
             only == r.only \/ (~r.conf /\ onlySend)
             kind == IF r.closed THEN "closed" ELSE IF only /\ ~r.conf THEN "only" ELSE "normal"
             n    == [r EXCEPT !.pc = "leave", !.only = only, !.reply = kind]
  <1>1. FlowOK(t, r) /\ r \in Flow /\ r.pc = "write" /\ o \in Orders /\ onlySend \in BOOLEAN
    BY DeliveryAssumption DEF Write, At, TypeInv, FlowsOK, FlowOK, StoreOK, outside
  <1>2. Become(t, n)
    BY DEF Write
  <1>3. kind \in ReplyKinds /\ only \in BOOLEAN
    BY <1>1 DEF ReplyKinds, Flow
  <1>4. content' \in [Orders -> SUBSET Codes]
    BY <1>1 DEF Write, database, TypeInv, StoreOK, Flow, outside
  <1>5. marker' \in [Orders -> BOOLEAN] /\ status' \in [Orders -> Statuses]
    BY <1>1 DEF Write, database, TypeInv, StoreOK, Statuses
  <1>6. StoreOK' /\ CallersOK'
    BY <1>4, <1>5 DEF Write, TypeInv, StoreOK, CallersOK, CallerOK, memory, outside
  <1> HIDE DEF kind, only
  <1>7. FlowOK(t, n)
    BY <1>1, <1>3 DEF FlowOK, Flow, Locked
  <1> QED BY <1>2, <1>6, <1>7, BecomeOK DEF TypeInv

LEMMA LeaveType ==
  ASSUME TypeInv, NEW t \in Threads, Leave(t)
  PROVE  TypeInv'
  <1>1. /\ FlowOK(t, th[t]) /\ th[t].ord \in Orders
        /\ th[t].reply \in ReplyKinds /\ th[t].got \in SUBSET Codes
    BY DEF Leave, At, TypeInv, FlowsOK, FlowOK, Flow
  <1>2. /\ FlowsOK' /\ CallersOK'
        /\ lock' \in [Gens -> [Orders -> Threads \cup {Nobody}]]
    BY <1>1, FinishOK DEF Leave
  <1>3. StoreOK'
    BY <1>2 DEF Leave, TypeInv, StoreOK, database, outside
  <1> QED BY <1>2, <1>3 DEF TypeInv

LEMMA AutoFreeType ==
  ASSUME TypeInv, NEW t \in Autos, AutoFree(t)
  PROVE  TypeInv'
  <1>1. th[t].ord \in Orders
    BY DEF AutoFree, At, TypeInv, FlowsOK, FlowOK
  <1>2. redis' \in [Orders -> Threads \cup Callers \cup {Nobody}]
    BY <1>1, ReleaseResultsOK DEF AutoFree, TypeInv, StoreOK, outside
  <1>3. StoreOK' /\ CallersOK'
    BY <1>2 DEF AutoFree, TypeInv, StoreOK, CallersOK, CallerOK, database, memory, outside
  <1> QED BY <1>3, IdleOK, BecomeOK DEF AutoFree, TypeInv

-----------------------------------------------------------------------------

LEMMA BeginType ==
  ASSUME TypeInv, NEW c \in Callers, NEW o \in Orders, Begin(c, o),
         UNCHANGED <<platform, buyer, database, card, outside, redis, memory, th, snap>>
  PROVE  TypeInv'
  <1>1. CallerOK([Waiting EXCEPT !.pc = "redis", !.ord = o])
    <2>1. Waiting \in Caller /\ Waiting.req = Nobody /\ Waiting.tries = 0
      BY WaitingOK DEF CallerOK, Waiting
    <2> DEFINE n == [Waiting EXCEPT !.pc = "redis", !.ord = o]
    <2>2. n \in Caller /\ n.pc = "redis" /\ n.ord = o /\ n.req = Nobody /\ n.tries = 0
      BY <2>1 DEF Caller
    <2> HIDE DEF n
    <2>3. CallerOK(n)
      BY <2>2 DEF CallerOK, MaxTries
    <2> QED BY <2>3 DEF n
  <1>2. StoreOK' /\ FlowsOK'
    BY DEF TypeInv, StoreOK, FlowsOK, FlowOK, database, memory, outside
  <1> QED BY <1>1, <1>2, CallerBecomeOK DEF Begin, TypeInv

LEMMA CallerRedisType ==
  ASSUME TypeInv, NEW c \in Callers, CallerRedis(c)
  PROVE  TypeInv'
  <1> DEFINE next == IF c \in Scheds THEN "ship" ELSE "call"
             n(a) == [cl[c] EXCEPT !.pc = next, !.redis = (a[2] = "got")]
  <1>1. CallerOK(cl[c]) /\ cl[c] \in Caller /\ cl[c].pc = "redis" /\ cl[c].ord \in Orders
    BY DEF CallerRedis, CallerAt, TypeInv, CallersOK, CallerOK
  <1>2. PICK a \in LockResults(c, cl[c].ord) :
         /\ redis' = [redis EXCEPT ![cl[c].ord] = a[1]]
         /\ \/ CallerBecome(c, Waiting)
            \/ CallerBecome(c, n(a))
    BY DEF CallerRedis
  <1>3. redis' \in [Orders -> Threads \cup Callers \cup {Nobody}]
    BY <1>1, <1>2, LockResultsOK DEF TypeInv, StoreOK, outside
  <1>4. next \in {"ship", "call"}
    OBVIOUS
  <1> HIDE DEF next
  <1>5. CallerOK(n(a))
    BY <1>1, <1>4 DEF CallerOK, Caller
  <1>6. CallersOK'
    BY <1>2, <1>5, WaitingOK, CallerBecomeOK DEF TypeInv
  <1>7. StoreOK' /\ FlowsOK'
    BY <1>3 DEF CallerRedis, TypeInv, StoreOK, FlowsOK, FlowOK, database, memory, outside
  <1> QED BY <1>6, <1>7 DEF TypeInv

LEMMA SchedCanShipType ==
  ASSUME TypeInv, NEW s \in Scheds, SchedCanShip(s)
  PROVE  TypeInv'
  <1>1. CallerOK(cl[s]) /\ cl[s] \in Caller /\ cl[s].pc = "ship" /\ cl[s].ord \in Orders
    BY DEF SchedCanShip, CallerAt, TypeInv, CallersOK, CallerOK
  <1>2. CallerOK([cl[s] EXCEPT !.pc = "call"]) /\ CallerOK([cl[s] EXCEPT !.pc = "free"])
    BY <1>1 DEF CallerOK, Caller
  <1>3. CallersOK'
    BY <1>2, CallerBecomeOK DEF SchedCanShip, CallerGoto, TypeInv
  <1>4. status' \in [Orders -> Statuses]
    BY <1>1 DEF SchedCanShip, TypeInv, StoreOK, PlatformStates, StatusOf, Statuses
  <1>5. StoreOK' /\ FlowsOK'
    BY <1>4 DEF SchedCanShip, TypeInv, StoreOK, FlowsOK, FlowOK, memory, outside
  <1> QED BY <1>3, <1>5 DEF TypeInv

LEMMA CallerCallType ==
  ASSUME TypeInv, NEW c \in Callers, CallerCall(c)
  PROVE  TypeInv'
  <1>1. /\ CallerOK(cl[c]) /\ cl[c] \in Caller /\ cl[c].pc = "call"
        /\ cl[c].ord \in Orders /\ cl[c].tries < MaxTries /\ cl[c].tries \in 0..MaxTries
    BY DEF CallerCall, CallerAt, TypeInv, CallersOK, CallerOK, Caller
  <1>2. PICK t \in Calls :
         /\ Become(t, [Idle EXCEPT !.pc = "lock", !.ord = cl[c].ord, !.inst = gen])
         /\ CallerBecome(c, [cl[c] EXCEPT !.pc = "wait", !.req = t, !.tries = @ + 1])
    BY DEF CallerCall
  <1>3. cl[c].tries + 1 \in 0..MaxTries
    BY <1>1 DEF MaxTries
  <1>4. CallerOK([cl[c] EXCEPT !.pc = "wait", !.req = t, !.tries = @ + 1])
    BY <1>1, <1>3 DEF CallerOK, Caller
  <1>5. FlowOK(t, [Idle EXCEPT !.pc = "lock", !.ord = cl[c].ord, !.inst = gen])
    <2>1. Idle \in Flow /\ Idle.round = 0 /\ gen \in Gens
      BY IdleOK DEF FlowOK, Idle, TypeInv, StoreOK, outside
    <2> DEFINE n == [Idle EXCEPT !.pc = "lock", !.ord = cl[c].ord, !.inst = gen]
    <2>2. n \in Flow /\ n.pc = "lock" /\ n.ord \in Orders /\ n.round = 0
      BY <1>1, <2>1 DEF Flow
    <2> HIDE DEF n
    <2>3. FlowOK(t, n)
      BY <2>2, DeliveryAssumption DEF FlowOK
    <2> QED BY <2>3 DEF n
  <1>6. FlowsOK' /\ CallersOK'
    BY <1>2, <1>4, <1>5, BecomeOK, CallerBecomeOK DEF TypeInv
  <1>7. StoreOK'
    BY DEF CallerCall, TypeInv, StoreOK, database, memory, outside
  <1> QED BY <1>6, <1>7 DEF TypeInv

LEMMA CallerTimeoutType ==
  ASSUME TypeInv, NEW c \in Callers, CallerTimeout(c)
  PROVE  TypeInv'
  <1> DEFINE pc == IF cl[c].tries < MaxTries THEN "call" ELSE "free"
  <1>1. CallerOK(cl[c]) /\ cl[c] \in Caller /\ cl[c].pc = "wait" /\ cl[c].ord \in Orders
    BY DEF CallerTimeout, CallerAt, TypeInv, CallersOK, CallerOK
  <1>2. pc \in {"call", "free"} /\ (pc = "call" => cl[c].tries < MaxTries)
    OBVIOUS
  <1>3. CallerBecome(c, [cl[c] EXCEPT !.req = Nobody, !.pc = pc])
    BY DEF CallerTimeout
  <1> HIDE DEF pc
  <1>4. CallerOK([cl[c] EXCEPT !.req = Nobody, !.pc = pc])
    BY <1>1, <1>2 DEF CallerOK, Caller
  <1>5. StoreOK' /\ FlowsOK'
    BY DEF CallerTimeout, TypeInv, StoreOK, FlowsOK, FlowOK, database, memory, outside
  <1> QED BY <1>3, <1>4, <1>5, CallerBecomeOK DEF TypeInv

LEMMA CallerDoneType ==
  ASSUME TypeInv, NEW c \in Callers, CallerDone(c)
  PROVE  TypeInv'
  <1>1. CallerOK(cl[c]) /\ cl[c] \in Caller /\ cl[c].pc = "done" /\ cl[c].ord \in Orders
    BY DEF CallerDone, CallerAt, TypeInv, CallersOK, CallerOK
  <1>2. CallerOK([cl[c] EXCEPT !.pc = "free"])
    BY <1>1 DEF CallerOK, Caller
  <1>3. /\ status' \in [Orders -> Statuses]
        /\ marker' \in [Orders -> BOOLEAN] /\ content' \in [Orders -> SUBSET Codes]
    BY <1>1 DEF CallerDone, TypeInv, StoreOK, Caller, Statuses
  <1>4. StoreOK' /\ FlowsOK'
    BY <1>3 DEF CallerDone, TypeInv, StoreOK, FlowsOK, FlowOK, memory, outside
  <1> QED BY <1>2, <1>4, CallerBecomeOK DEF CallerDone, CallerGoto, TypeInv

LEMMA CallerFreeType ==
  ASSUME TypeInv, NEW c \in Callers, CallerFree(c)
  PROVE  TypeInv'
  <1>1. cl[c].ord \in Orders
    BY DEF CallerFree, CallerAt, TypeInv, CallersOK, CallerOK
  <1>2. redis' \in [Orders -> Threads \cup Callers \cup {Nobody}]
    BY <1>1, ReleaseResultsOK DEF CallerFree, TypeInv, StoreOK, outside
  <1>3. StoreOK' /\ FlowsOK'
    BY <1>2 DEF CallerFree, TypeInv, StoreOK, FlowsOK, FlowOK, database, memory, outside
  <1> QED BY <1>3, WaitingOK, CallerBecomeOK DEF CallerFree, TypeInv

LEMMA EnvironmentType ==
  ASSUME TypeInv, Environment
  PROVE  TypeInv'
  <1>1. CASE Toggle
    BY <1>1 DEF Toggle, TypeInv, StoreOK, FlowsOK, FlowOK, CallersOK, CallerOK, database, memory, outside
  <1>6. CASE DayEnds
    BY <1>6 DEF DayEnds, TypeInv, StoreOK, FlowsOK, FlowOK, CallersOK, CallerOK, database, memory
  <1>2. CASE Restart
    <2>1. gen' \in Gens
      BY <1>2, DeliveryAssumption DEF Restart, TypeInv, StoreOK, outside
    <2> QED BY <1>2, <2>1 DEF Restart, TypeInv, StoreOK, FlowsOK, FlowOK, CallersOK, CallerOK, database, outside
  <1>3. CASE Crash
    <2>1. FlowsOK'
      <3>1. th' = [t \in Threads |-> Idle] /\ \A t \in Threads : FlowOK(t, Idle)
        BY <1>3, IdleOK DEF Crash
      <3> QED BY <3>1 DEF FlowsOK, FlowOK
    <2>2. CallersOK'
      <3>1. ASSUME NEW c \in Callers
            PROVE  CallerOK([cl[c] EXCEPT !.req = Nobody])
        BY DEF TypeInv, CallersOK, CallerOK, Caller
      <3>2. cl' = [c \in Callers |-> [cl[c] EXCEPT !.req = Nobody]]
        BY <1>3 DEF Crash
      <3>3. \A c \in Callers : cl'[c] = [cl[c] EXCEPT !.req = Nobody]
        BY <3>2
      <3>4. cl' \in [Callers -> Caller] /\ \A c \in Callers : CallerOK(cl'[c])
        BY <3>1, <3>2, <3>3 DEF CallerOK
      <3> QED BY <3>4 DEF CallersOK, CallerOK
    <2>3. /\ hold' \in [Gens -> [Orders -> BOOLEAN]] /\ cool' \in [Gens -> [Orders -> BOOLEAN]]
          /\ confd' \in [Gens -> [Orders -> BOOLEAN]] /\ gen' \in Gens
          /\ lock' \in [Gens -> [Orders -> Threads \cup {Nobody}]]
      <3> hold' = [g \in Gens |-> [o \in Orders |-> FALSE]] /\ cool' = hold' /\ confd' = hold'
        BY <1>3 DEF Crash
      <3> gen' \in Gens /\ lock' = [g \in Gens |-> [o \in Orders |-> Nobody]]
        BY <1>3, DeliveryAssumption DEF Crash
      <3> QED OBVIOUS
    <2>4. StoreOK'
      BY <1>3, <2>3 DEF Crash, TypeInv, StoreOK, database, outside
    <2> QED BY <2>1, <2>2, <2>4 DEF TypeInv
  <1>4. ASSUME NEW o \in Orders, Elsewhere(o) \/ SyncRead(o) \/ SyncWrite(o) \/ RedisExpire(o)
        PROVE  TypeInv'
    <2>1. FlowsOK' /\ CallersOK'
      BY <1>4 DEF Elsewhere, SyncRead, SyncWrite, RedisExpire, TypeInv,
                  FlowsOK, FlowOK, CallersOK, CallerOK
    <2>2. platform' \in [Orders -> PlatformStates]
      BY <1>4 DEF Elsewhere, SyncRead, SyncWrite, RedisExpire, TypeInv, StoreOK, PlatformStates, outside
    <2>3. snap' \in [Orders -> PlatformStates \cup {"none"}]
      BY <1>4 DEF Elsewhere, SyncRead, SyncWrite, RedisExpire, TypeInv, StoreOK, outside
    <2>4. status' \in [Orders -> Statuses]
      <3>1. \A p \in PlatformStates : Synced(p) \subseteq Statuses
        BY DEF Synced, StatusOf, PlatformStates, Statuses
      <3>2. CASE SyncWrite(o)
        BY <3>1, <3>2 DEF SyncWrite, TypeInv, StoreOK
      <3>3. CASE ~SyncWrite(o)
        BY <1>4, <3>3 DEF Elsewhere, SyncRead, RedisExpire, TypeInv, StoreOK, database
      <3> QED BY <3>2, <3>3
    <2>5. redis' \in [Orders -> Threads \cup Callers \cup {Nobody}]
      BY <1>4 DEF Elsewhere, SyncRead, SyncWrite, RedisExpire, TypeInv, StoreOK, outside
    <2>6. UNCHANGED <<buyer, marker, content, card, outside, memory>>
      BY <1>4 DEF Elsewhere, SyncRead, SyncWrite, RedisExpire, database
    <2>7. StoreOK'
      BY <2>2, <2>3, <2>4, <2>5, <2>6 DEF TypeInv, StoreOK, memory, outside
    <2> QED BY <2>1, <2>7 DEF TypeInv
  <1>5. ASSUME NEW g \in Gens, NEW o \in Orders,
               CoolExpire(g, o) \/ ConfirmedExpire(g, o) \/ HoldExpire(g, o)
        PROVE  TypeInv'
    <2>1. FlowsOK' /\ CallersOK'
      BY <1>5 DEF CoolExpire, ConfirmedExpire, HoldExpire, TypeInv,
                  FlowsOK, FlowOK, CallersOK, CallerOK
    <2>2. /\ cool' \in [Gens -> [Orders -> BOOLEAN]] /\ confd' \in [Gens -> [Orders -> BOOLEAN]]
          /\ hold' \in [Gens -> [Orders -> BOOLEAN]]
      <3>1. CASE CoolExpire(g, o)
        BY <3>1 DEF CoolExpire, TypeInv, StoreOK, outside
      <3>2. CASE ConfirmedExpire(g, o)
        BY <3>2 DEF ConfirmedExpire, TypeInv, StoreOK, outside
      <3>3. CASE HoldExpire(g, o)
        BY <3>3 DEF HoldExpire, TypeInv, StoreOK, outside
      <3> QED BY <1>5, <3>1, <3>2, <3>3
    <2>3. StoreOK'
      <3>1. UNCHANGED <<platform, buyer, status, marker, content, card, outside, redis,
                        gen, lock, snap>>
        BY <1>5 DEF CoolExpire, ConfirmedExpire, HoldExpire, database
      <3> QED BY <2>2, <3>1 DEF TypeInv, StoreOK, outside
    <2> QED BY <2>1, <2>3 DEF TypeInv
  <1> QED BY <1>1, <1>2, <1>3, <1>4, <1>5, <1>6 DEF Environment

LEMMA InitType == Init => TypeInv
  <1> SUFFICES ASSUME Init PROVE TypeInv
    OBVIOUS
  <1>1. StoreOK
    <2>1. today \in [Orders -> BOOLEAN]
      <3>1. (IF Midnight THEN BOOLEAN ELSE {TRUE}) \subseteq BOOLEAN
        OBVIOUS
      <3>2. today \in [Orders -> IF Midnight THEN BOOLEAN ELSE {TRUE}]
        BY DEF Init
      <3> QED BY <3>1, <3>2
    <2>2. status \in [Orders -> Statuses]
      BY DEF Init, Statuses
    <2> QED BY <2>1, <2>2, DeliveryAssumption DEF Init, StoreOK, PlatformStates
  <1>2. FlowsOK /\ CallersOK
    <2>1. th = [t \in Threads |-> Idle] /\ cl = [c \in Callers |-> Waiting]
      BY DEF Init
    <2> QED BY <2>1, IdleOK, WaitingOK DEF FlowsOK, FlowOK, CallersOK, CallerOK
  <1> QED BY <1>1, <1>2 DEF TypeInv

LEMMA NextType == TypeInv /\ [Next]_vars => TypeInv'
  <1> SUFFICES ASSUME TypeInv, [Next]_vars PROVE TypeInv'
    OBVIOUS
  <1>1. ASSUME NEW t \in Threads, SharedStep(t)
        PROVE  TypeInv'
    BY <1>1, AcquireType, ConfirmType, TakeType, SendType, PostType, WriteType, LeaveType
       DEF SharedStep
  <1>2. ASSUME NEW t \in Autos, (\E o \in Orders : AutoStart(t, o)) \/ AutoStep(t)
        PROVE  TypeInv'
    BY <1>2, AutoStartType, AutoRedisType, AutoCheckType, AutoEnterType, AutoMarkType,
       AutoFreeType DEF AutoStep
  <1>3. ASSUME NEW t \in Calls, CallCheck(t)
        PROVE  TypeInv'
    BY <1>3, CallCheckType
  <1>4. ASSUME NEW s \in Scheds, (\E o \in Orders : SchedSnapshot(s, o)) \/ SchedCanShip(s)
        PROVE  TypeInv'
    BY <1>4, BeginType, SchedCanShipType DEF SchedSnapshot
  <1>5. ASSUME NEW m \in Manuals, NEW o \in Orders, ManualStart(m, o)
        PROVE  TypeInv'
    BY <1>5, BeginType DEF ManualStart
  <1>6. ASSUME NEW c \in Callers, CallerStep(c)
        PROVE  TypeInv'
    BY <1>6, CallerRedisType, CallerCallType, CallerTimeoutType, CallerDoneType, CallerFreeType
       DEF CallerStep
  <1>7. CASE UNCHANGED vars
    BY <1>7 DEF vars, TypeInv, StoreOK, database, memory, FlowsOK, FlowOK, CallersOK, CallerOK, outside
  <1> QED BY <1>1, <1>2, <1>3, <1>4, <1>5, <1>6, <1>7, EnvironmentType DEF Next

\* Whatever flows, callers and faults do, every variable keeps its type.
THEOREM TypeCorrect == Spec => []TypeOK
  <1>1. TypeInv => TypeOK
    BY DEF TypeInv, TypeOK, FlowsOK, CallersOK
  <1>2. Spec => []TypeInv
    BY InitType, NextType, PTL DEF Spec
  <1> QED BY <1>1, <1>2, PTL

-----------------------------------------------------------------------------
(***************************************************************************)
(* The local lock.  LocalLock itself is inductive: an entry is written by  *)
(* the flow that finds it free, and by the flow that owns it.              *)
(***************************************************************************)

LEMMA LockInit == Init => LocalLock
  BY DEF Init, LocalLock, Idle, Locked

\* A step of t that leaves every lock alone.
LEMMA LockKept ==
  ASSUME TypeInv, LocalLock, NEW t \in Threads, NEW r, Become(t, r), UNCHANGED lock,
         \/ r.pc \notin Locked
         \/ th[t].pc \in Locked /\ r.inst = th[t].inst /\ r.ord = th[t].ord
  PROVE  LocalLock'
  <1>1. th' = [th EXCEPT ![t] = r] /\ th \in [Threads -> Flow]
    BY DEF Become, TypeInv, FlowsOK
  <1>2. ASSUME NEW u \in Threads, th'[u].pc \in Locked
        PROVE  lock'[th'[u].inst][th'[u].ord] = u
    BY <1>1, <1>2 DEF LocalLock
  <1> QED BY <1>2 DEF LocalLock

LEMMA LockFinish ==
  ASSUME TypeInv, LocalLock, NEW t \in Threads, th[t].pc \in Locked,
         NEW kind, NEW codes, Finish(t, kind, codes)
  PROVE  LocalLock'
  <1>1. /\ th[t].inst \in Gens /\ th[t].ord \in Orders /\ lock[th[t].inst][th[t].ord] = t
        /\ lock \in [Gens -> [Orders -> Threads \cup {Nobody}]]
    BY DEF TypeInv, FlowsOK, FlowOK, Flow, StoreOK, LocalLock, Locked, outside
  <1>2. PICK r : Become(t, r) /\ r.pc \notin Locked
    <2>1. CASE t \in Autos
      <3>1. [th[t] EXCEPT !.pc = "free"].pc = "free"
        BY DEF TypeInv, FlowsOK, Flow
      <3> QED BY <2>1, <3>1 DEF Finish, Goto, Locked
    <2>2. CASE t \notin Autos
      BY <2>2 DEF Finish, Idle, Locked
    <2> QED BY <2>1, <2>2
  <1>3. th' = [th EXCEPT ![t] = r] /\ th \in [Threads -> Flow]
    BY <1>2 DEF Become, TypeInv, FlowsOK
  <1>4. lock' = [lock EXCEPT ![th[t].inst][th[t].ord] = Nobody]
    BY DEF Finish
  <1>5. ASSUME NEW u \in Threads, th'[u].pc \in Locked
        PROVE  lock'[th'[u].inst][th'[u].ord] = u
    <2>1. u # t /\ th'[u] = th[u] /\ th[u].pc \in Locked
      BY <1>2, <1>3, <1>5
    <2>2. lock[th[u].inst][th[u].ord] = u /\ th[u].inst \in Gens /\ th[u].ord \in Orders
      BY <2>1 DEF TypeInv, FlowsOK, FlowOK, Flow, LocalLock, Locked
    <2>3. lock'[th[u].inst][th[u].ord] = lock[th[u].inst][th[u].ord]
      BY <1>1, <1>4, <2>1, <2>2
    <2> QED BY <2>1, <2>2, <2>3
  <1> QED BY <1>5 DEF LocalLock

LEMMA LockAcquire ==
  ASSUME TypeInv, LocalLock, NEW t \in Threads, Acquire(t)
  PROVE  LocalLock'
  <1> DEFINE g == th[t].inst
             o == th[t].ord
  <1>1. /\ th[t] \in Flow /\ th[t].pc = "lock" /\ g \in Gens /\ o \in Orders
        /\ lock \in [Gens -> [Orders -> Threads \cup {Nobody}]]
        /\ th \in [Threads -> Flow]
    BY DEF Acquire, At, TypeInv, FlowsOK, FlowOK, Flow, StoreOK, outside
  <1>2. CASE lock[g][o] = Nobody /\ lock' = [lock EXCEPT ![g][o] = t] /\ Goto(t, "check")
    <2>1. th' = [th EXCEPT ![t] = [th[t] EXCEPT !.pc = "check"]]
      BY <1>2 DEF Goto, Become
    <2>2. ASSUME NEW u \in Threads, th'[u].pc \in Locked
          PROVE  lock'[th'[u].inst][th'[u].ord] = u
      <3>1. CASE u = t
        BY <1>1, <1>2, <2>1, <3>1 DEF Flow
      <3>2. CASE u # t
        <4>1. th'[u] = th[u] /\ th[u].pc \in Locked
          BY <1>1, <2>1, <2>2, <3>2
        <4>2. lock[th[u].inst][th[u].ord] = u /\ th[u].inst \in Gens /\ th[u].ord \in Orders
          BY <4>1 DEF TypeInv, FlowsOK, FlowOK, Flow, LocalLock, Locked
        <4>3. u # Nobody
          BY DeliveryAssumption
        <4> QED BY <1>1, <1>2, <4>1, <4>2, <4>3
      <3> QED BY <3>1, <3>2
    <2> QED BY <2>2 DEF LocalLock
  <1>3. CASE UNCHANGED lock /\ (IF t \in Autos THEN Goto(t, "free") ELSE Become(t, Idle))
    <2>1. Idle.pc \notin Locked /\ [th[t] EXCEPT !.pc = "free"].pc \notin Locked
      BY <1>1 DEF Idle, Locked, Flow
    <2> QED BY <1>3, <2>1, LockKept DEF Goto
  <1> QED BY <1>2, <1>3 DEF Acquire

LEMMA LockEmptyRound ==
  ASSUME TypeInv, LocalLock, NEW t \in Threads, th[t].pc \in Locked,
         EmptyRound(t), UNCHANGED lock
  PROVE  LocalLock'
  <1>1. th[t] \in Flow
    BY DEF TypeInv, FlowsOK
  <1>2. \A r \in {NextRound(th[t]), [th[t] EXCEPT !.pc = "leave"]} :
          r.inst = th[t].inst /\ r.ord = th[t].ord
    BY <1>1 DEF NextRound, Flow
  <1> QED BY <1>2, LockKept DEF EmptyRound, Goto

LEMMA LockConfirm ==
  ASSUME TypeInv, LocalLock, NEW t \in Threads, Confirm(t)
  PROVE  LocalLock'
  <1>1. th[t] \in Flow /\ th[t].pc = "confirm" /\ th[t].pc \in Locked
    BY DEF Confirm, ConfirmSkip, ConfirmRefused, At, TypeInv, FlowsOK, Locked
  <1>2. CASE ConfirmSkip(t)
    <2>1. [th[t] EXCEPT !.pc = "take"].inst = th[t].inst
          /\ [th[t] EXCEPT !.pc = "take"].ord = th[t].ord
      BY <1>1 DEF Flow
    <2> QED BY <1>1, <1>2, <2>1, LockKept DEF ConfirmSkip, Goto, memory, outside
  <1>3. CASE ConfirmRefused(t)
    BY <1>1, <1>3, LockEmptyRound, LockFinish DEF ConfirmRefused
  <1>4. CASE ConfirmOnlySend(t)
    <2> DEFINE r == [th[t] EXCEPT !.pc = "take", !.rOnly = TRUE]
    <2>1. r.inst = th[t].inst /\ r.ord = th[t].ord
      BY <1>1 DEF Flow
    <2> QED BY <1>1, <1>4, <2>1, LockKept DEF ConfirmOnlySend, memory, outside
  <1>5. CASE ConfirmAsk(t)
    <2>1. PICK a :
            \/ /\ Become(t, [th[t] EXCEPT !.pc = "take", !.rConf = (a[2] = "ok")])
               /\ UNCHANGED <<lock, cl>>
            \/ Finish(t, "already", {})
            \/ Finish(t, "fail", {})
            \/ EmptyRound(t) /\ UNCHANGED <<lock, cl>>
      BY <1>5 DEF ConfirmAsk
    <2> DEFINE r == [th[t] EXCEPT !.pc = "take", !.rConf = (a[2] = "ok")]
    <2>2. r.inst = th[t].inst /\ r.ord = th[t].ord
      BY <1>1 DEF Flow
    <2>3. CASE Become(t, r) /\ UNCHANGED lock
      BY <1>1, <2>2, <2>3, LockKept
    <2> QED BY <1>1, <2>1, <2>3, LockFinish, LockEmptyRound
  <1> QED BY <1>2, <1>3, <1>4, <1>5 DEF Confirm

LEMMA LockTake ==
  ASSUME TypeInv, LocalLock, NEW t \in Threads, Take(t)
  PROVE  LocalLock'
  <1>1. th[t] \in Flow /\ th[t].pc = "take" /\ th[t].pc \in Locked
    BY DEF Take, At, TypeInv, FlowsOK, Locked
  <1>2. ASSUME NEW c \in Codes, UNCHANGED <<lock, cl>>,
               LET n == [th[t] EXCEPT !.got = @ \cup {c}, !.only = @ \/ th[t].rOnly,
                                      !.conf = @ \/ th[t].rConf]
               IN  Become(t, IF t \in Autos THEN NextRound(n)
                             ELSE [n EXCEPT !.pc = "send", !.todo = {c}])
        PROVE  LocalLock'
    <2> DEFINE n == [th[t] EXCEPT !.got = @ \cup {c}, !.only = @ \/ th[t].rOnly,
                                  !.conf = @ \/ th[t].rConf]
    <2>1. Become(t, IF t \in Autos THEN NextRound(n) ELSE [n EXCEPT !.pc = "send", !.todo = {c}])
      BY <1>2
    <2>2. n \in Flow /\ n.inst = th[t].inst /\ n.ord = th[t].ord
      BY <1>1 DEF Flow
    <2> HIDE DEF n
    <2>3. \A r \in {NextRound(n), [n EXCEPT !.pc = "send", !.todo = {c}]} :
            r.inst = th[t].inst /\ r.ord = th[t].ord
      BY <2>2 DEF NextRound, Flow
    <2> QED BY <1>1, <1>2, <2>1, <2>3, LockKept
  <1>3. CASE Goto(t, "post") /\ UNCHANGED <<lock, cl>>
    <2> DEFINE r == [th[t] EXCEPT !.pc = "post"]
    <2>1. r.inst = th[t].inst /\ r.ord = th[t].ord
      BY <1>1 DEF Flow
    <2> QED BY <1>1, <1>3, <2>1, LockKept DEF Goto
  <1>4. CASE EmptyRound(t) /\ UNCHANGED <<lock, cl>>
    BY <1>1, <1>4, LockEmptyRound
  <1>5. CASE Finish(t, "fail", {})
    BY <1>1, <1>5, LockFinish
  <1> QED BY <1>2, <1>3, <1>4, <1>5 DEF Take

LEMMA LockSend ==
  ASSUME TypeInv, LocalLock, NEW t \in Threads, Send(t)
  PROVE  LocalLock'
  <1> DEFINE r == th[t]
             After(c) ==
               IF t \in Autos
               THEN [r EXCEPT !.todo = @ \ {c},
                              !.pc = IF r.todo = {c} THEN "post" ELSE "send"]
               ELSE [r EXCEPT !.todo = {}, !.round = @ + 1,
                              !.pc = IF r.round + 1 < Rounds(r) THEN "take" ELSE "post"]
  <1>1. r \in Flow /\ r.pc \in Locked
    BY DEF Send, At, TypeInv, FlowsOK, Locked
  <1>2. PICK c \in r.todo :
          \/ Become(t, After(c))
          \/ Become(t, [After(c) EXCEPT !.bad = @ \/ t \in Autos])
          \/ Become(t, [After(c) EXCEPT !.rej = TRUE])
    BY DEF Send
  <1>3. /\ After(c).inst = r.inst /\ After(c).ord = r.ord
        /\ [After(c) EXCEPT !.bad = @ \/ t \in Autos].inst = r.inst
        /\ [After(c) EXCEPT !.bad = @ \/ t \in Autos].ord = r.ord
        /\ [After(c) EXCEPT !.rej = TRUE].inst = r.inst
        /\ [After(c) EXCEPT !.rej = TRUE].ord = r.ord
    BY <1>1 DEF Flow
  <1>4. UNCHANGED lock
    BY DEF Send, memory, outside
  <1> HIDE DEF After
  <1> QED BY <1>1, <1>2, <1>3, <1>4, LockKept

LEMMA LockPost ==
  ASSUME TypeInv, LocalLock, NEW t \in Threads, Post(t)
  PROVE  LocalLock'
  <1> DEFINE r    == th[t]
             only == r.only \/ (~r.conf /\ onlySend)
             n    == [r EXCEPT !.pc = "write", !.only = only]
  <1>1. r \in Flow /\ r.pc \in Locked
    BY DEF Post, At, TypeInv, FlowsOK, Locked
  <1>2. PICK a : Become(t, n) \/ Become(t, [n EXCEPT !.conf = @ \/ a[2] # "error"])
    BY DEF Post
  <1>3. /\ n.inst = r.inst /\ n.ord = r.ord
        /\ [n EXCEPT !.conf = @ \/ a[2] # "error"].inst = r.inst
        /\ [n EXCEPT !.conf = @ \/ a[2] # "error"].ord = r.ord
    BY <1>1 DEF Flow
  <1> HIDE DEF n
  <1>4. UNCHANGED lock
    BY DEF Post, memory, outside
  <1> QED BY <1>1, <1>2, <1>3, <1>4, LockKept

LEMMA LockWrite ==
  ASSUME TypeInv, LocalLock, NEW t \in Threads, Write(t)
  PROVE  LocalLock'
  <1>1. th[t] \in Flow /\ th[t].pc \in Locked /\ UNCHANGED lock
    BY DEF Write, At, TypeInv, FlowsOK, Locked, memory, outside
  <1>2. PICK only, kind :
          Become(t, [th[t] EXCEPT !.pc = "leave", !.only = only, !.reply = kind])
    BY DEF Write
  <1>3. /\ [th[t] EXCEPT !.pc = "leave", !.only = only, !.reply = kind].inst = th[t].inst
        /\ [th[t] EXCEPT !.pc = "leave", !.only = only, !.reply = kind].ord = th[t].ord
    BY <1>1 DEF Flow
  <1> QED BY <1>1, <1>2, <1>3, LockKept

LEMMA LockAuto ==
  ASSUME TypeInv, LocalLock, NEW t \in Autos,
         (\E o \in Orders : AutoStart(t, o)) \/ AutoStep(t)
  PROVE  LocalLock'
  <1>1. th[t] \in Flow /\ Idle.pc \notin Locked
    BY DEF TypeInv, FlowsOK, Idle, Locked
  <1>2. ASSUME NEW o \in Orders, AutoStart(t, o)
        PROVE  LocalLock'
    <2>1. PICK p : \/ UNCHANGED th
                   \/ Become(t, [Idle EXCEPT !.pc = "redis", !.ord = o, !.inst = gen,
                                             !.closed = (p[2] = "card_only"),
                                             !.only = onlySend])
      BY <1>2 DEF AutoStart
    <2>2. [Idle EXCEPT !.pc = "redis", !.ord = o, !.inst = gen,
                       !.closed = (p[2] = "card_only"), !.only = onlySend].pc \notin Locked
      BY DEF Idle, Locked
    <2>3. UNCHANGED lock
      BY <1>2 DEF AutoStart, memory, outside
    <2>4. CASE UNCHANGED th
      BY <2>3, <2>4 DEF LocalLock
    <2> QED BY <2>1, <2>2, <2>3, <2>4, LockKept
  <1>3. CASE AutoRedis(t)
    <2>1. PICK b : Become(t, Idle) \/ Become(t, [th[t] EXCEPT !.pc = "lock", !.redis = b])
      BY <1>3 DEF AutoRedis
    <2>2. [th[t] EXCEPT !.pc = "lock", !.redis = b].pc \notin Locked
      BY <1>1 DEF Flow, Locked
    <2> QED BY <1>1, <1>3, <2>1, <2>2, LockKept DEF AutoRedis, memory, outside
  <1>4. CASE AutoCheck(t)
    <2>1. th[t].pc \in Locked
      BY <1>4 DEF AutoCheck, At, Locked
    <2>2. [th[t] EXCEPT !.pc = "enter"].inst = th[t].inst
          /\ [th[t] EXCEPT !.pc = "enter"].ord = th[t].ord
      BY <1>1 DEF Flow
    <2> QED BY <1>4, <2>1, <2>2, LockFinish, LockKept DEF AutoCheck, Goto
  <1>5. CASE AutoEnter(t)
    <2>1. th[t].pc \in Locked
      BY <1>5 DEF AutoEnter, At, Locked
    <2>2. [th[t] EXCEPT !.pc = "confirm", !.rOnly = onlySend].inst = th[t].inst
          /\ [th[t] EXCEPT !.pc = "confirm", !.rOnly = onlySend].ord = th[t].ord
      BY <1>1 DEF Flow
    <2> QED BY <1>5, <2>1, <2>2, LockKept DEF AutoEnter, memory, outside
  <1>6. CASE AutoMark(t)
    <2>1. th[t].pc \in Locked
      BY <1>6 DEF AutoMark, At, Locked
    <2>2. [th[t] EXCEPT !.pc = "send", !.todo = th[t].got].inst = th[t].inst
          /\ [th[t] EXCEPT !.pc = "send", !.todo = th[t].got].ord = th[t].ord
      BY <1>1 DEF Flow
    <2> QED BY <1>6, <2>1, <2>2, LockKept DEF AutoMark
  <1>7. CASE AutoFree(t)
    BY <1>1, <1>7, LockKept DEF AutoFree, memory, outside
  <1> QED BY <1>2, <1>3, <1>4, <1>5, <1>6, <1>7 DEF AutoStep

LEMMA LockCallCheck ==
  ASSUME TypeInv, LocalLock, NEW t \in Calls, CallCheck(t)
  PROVE  LocalLock'
  <1>1. th[t] \in Flow /\ th[t].pc \in Locked
    BY DEF CallCheck, At, TypeInv, FlowsOK, Locked
  <1>2. PICK b :
          \/ Finish(t, "alreadyOnly", content[th[t].ord])
          \/ Finish(t, "already", {})
          \/ Finish(t, "fail", {})
          \/ /\ Become(t, [th[t] EXCEPT !.pc = "confirm", !.closed = b, !.only = onlySend])
             /\ UNCHANGED <<lock, cl>>
    BY DEF CallCheck
  <1>3. /\ [th[t] EXCEPT !.pc = "confirm", !.closed = b, !.only = onlySend].inst = th[t].inst
        /\ [th[t] EXCEPT !.pc = "confirm", !.closed = b, !.only = onlySend].ord = th[t].ord
    BY <1>1 DEF Flow
  <1> QED BY <1>1, <1>2, <1>3, LockFinish, LockKept

LEMMA LockShared ==
  ASSUME TypeInv, LocalLock, NEW t \in Threads, SharedStep(t)
  PROVE  LocalLock'
  <1>1. CASE Leave(t)
    <2>1. th[t].pc \in Locked
      BY <1>1 DEF Leave, At, Locked
    <2> QED BY <1>1, <2>1, LockFinish DEF Leave
  <1> QED BY <1>1, LockAcquire, LockConfirm, LockTake, LockSend, LockPost, LockWrite
          DEF SharedStep

LEMMA LockCaller ==
  ASSUME TypeInv, LocalLock, NEW c \in Callers, CallerStep(c)
  PROVE  LocalLock'
  <1>1. CASE CallerCall(c)
    <2>1. PICK t \in Calls :
            Become(t, [Idle EXCEPT !.pc = "lock", !.ord = cl[c].ord, !.inst = gen])
      BY <1>1 DEF CallerCall
    <2>2. [Idle EXCEPT !.pc = "lock", !.ord = cl[c].ord, !.inst = gen].pc \notin Locked
      BY DEF Idle, Locked
    <2> QED BY <1>1, <2>1, <2>2, LockKept DEF CallerCall, memory, outside
  <1>2. CASE UNCHANGED <<th, lock>>
    BY <1>2 DEF LocalLock
  <1> QED BY <1>1, <1>2 DEF CallerStep, CallerRedis, CallerTimeout, CallerDone, CallerFree, memory, outside

LEMMA LockEnvironment ==
  ASSUME TypeInv, LocalLock, Environment
  PROVE  LocalLock'
  <1>1. CASE Crash
    <2>1. \A t \in Threads : th'[t].pc \notin Locked
      BY <1>1 DEF Crash, Idle, Locked
    <2> QED BY <2>1 DEF LocalLock
  <1>2. CASE UNCHANGED <<th, lock>>
    BY <1>2 DEF LocalLock
  <1> QED BY <1>1, <1>2 DEF Environment, Toggle, DayEnds, Restart, Elsewhere, SyncRead, SyncWrite,
             RedisExpire, CoolExpire, ConfirmedExpire, HoldExpire, memory

\* deliver_order and _handle_auto_delivery: a flow past the acquisition of
\* the order's local lock owns its entry until it gives it back, whatever
\* restarts, expires or fails meanwhile.
THEOREM LockHeld == Spec => []LocalLock
  <1>1. TypeInv /\ LocalLock /\ [Next]_vars => LocalLock'
    <2> SUFFICES ASSUME TypeInv, LocalLock, [Next]_vars PROVE LocalLock'
      OBVIOUS
    <2>1. ASSUME NEW s \in Scheds, (\E o \in Orders : SchedSnapshot(s, o)) \/ SchedCanShip(s)
          PROVE  LocalLock'
      BY <2>1 DEF SchedSnapshot, SchedCanShip, LocalLock, memory, outside
    <2>2. ASSUME NEW m \in Manuals, NEW o \in Orders, ManualStart(m, o)
          PROVE  LocalLock'
      BY <2>2 DEF ManualStart, LocalLock, memory, outside
    <2>3. CASE UNCHANGED vars
      BY <2>3 DEF vars, memory, LocalLock, outside
    <2> QED BY <2>1, <2>2, <2>3, LockAuto, LockCallCheck, LockShared, LockCaller,
               LockEnvironment DEF Next
  <1> QED BY <1>1, LockInit, InitType, NextType, PTL DEF Spec

\* In one instance no two flows, message handlers or calls, are between the
\* check of an order and the record of its delivery together.
THEOREM MutualExclusion == Spec => []Exclusion
  <1>1. LocalLock => Exclusion
    BY DEF LocalLock, Exclusion, Working
  <1> QED BY <1>1, LockHeld, PTL

=============================================================================
