------------------------ MODULE OrderHandout_proofs ------------------------
(***************************************************************************)
(* Theorems about what OrderDelivery hands out: the gate of the            *)
(* confirmation, exclusion across instances, the marker, that it           *)
(* implements CardHandout, that a handler sends before it ships where it   *)
(* should, and that no code is lost from sight.  Each names the switches   *)
(* and faults it needs.                                                    *)
(***************************************************************************)
EXTENDS OrderDelivery_proofs, FiniteSetTheorems

USE DEF Threads, Callers, Gens

\* confirm-before-send, as the account switches have it by default.
ConfirmMode ==
  ConfirmBeforeSend /\ ~SendBeforeConfirm /\ AutoConfirmModes = {TRUE}

-----------------------------------------------------------------------------
\* Facts about single steps.

LEMMA BecomeAt ==
  ASSUME FlowsOK, NEW t \in Threads, NEW r, Become(t, r)
  PROVE  th'[t] = r /\ \A u \in Threads : u # t => th'[u] = th[u]
  BY DEF FlowsOK, Become

LEMMA CallerBecomeAt ==
  ASSUME CallersOK, NEW c \in Callers, NEW r, CallerBecome(c, r)
  PROVE  cl'[c] = r /\ \A d \in Callers : d # c => cl'[d] = cl[d]
  BY DEF CallersOK, CallerBecome

LEMMA AnswerAt ==
  ASSUME CallersOK, NEW t \in Threads, NEW kind, NEW codes, Answer(t, kind, codes)
  PROVE  \A c \in Callers :
           \/ /\ cl[c].req = t /\ cl'[c].req = Nobody /\ cl'[c].pc = "done"
              /\ cl'[c].reply = kind /\ cl'[c].codes = codes
              /\ cl'[c].ord = cl[c].ord /\ cl'[c].redis = cl[c].redis
           \/ cl[c].req # t /\ cl'[c] = cl[c]
  BY DEF Answer, CallersOK, Caller

LEMMA FinishAt ==
  ASSUME FlowsOK, NEW t \in Threads, NEW kind, NEW codes, Finish(t, kind, codes)
  PROVE  /\ \A u \in Threads : u # t => th'[u] = th[u]
         /\ \/ t \in Autos /\ th'[t] = [th[t] EXCEPT !.pc = "free"]
            \/ t \in Calls /\ th'[t] = Idle
         /\ Answer(t, kind, codes)
  BY BecomeAt DEF Finish, Goto

\* An order that is shipped or closed on the platform stays so.
PlatformFinal ==
  \A o \in Orders : platform[o] # "pending" => platform'[o] = platform[o]

LEMMA PreCheckFinal ==
  ASSUME StoreOK, NEW o \in Orders, NEW p \in PreCheck(o),
         platform' = [platform EXCEPT ![o] = p[1]]
  PROVE  PlatformFinal
  BY DEF PreCheck, PlatformFinal, StoreOK

LEMMA AnswersFinal ==
  ASSUME StoreOK, NEW o \in Orders, NEW a \in Answers(o),
         platform' = [platform EXCEPT ![o] = a[1]]
  PROVE  PlatformFinal
  <1>1. platform[o] \in PlatformStates
    BY DEF StoreOK
  <1>2. platform[o] # "pending" => a[1] = platform[o]
    BY <1>1 DEF Answers, PlatformStates
  <1> QED BY <1>2 DEF PlatformFinal, StoreOK

LEMMA FlowFinal ==
  ASSUME TypeInv, NEW t \in Threads, CallCheck(t) \/ SharedStep(t)
  PROVE  PlatformFinal
  <1>1. \A pc : At(t, pc) /\ pc # "idle" => th[t].ord \in Orders
    BY DEF TypeInv, FlowsOK, FlowOK, At
  <1>2. CASE UNCHANGED platform
    BY <1>2 DEF PlatformFinal
  <1>3. CASE CallCheck(t)
    <2>1. th[t].ord \in Orders
      BY <1>1, <1>3 DEF CallCheck
    <2> QED BY <2>1, <1>2, <1>3, PreCheckFinal DEF CallCheck, TypeInv
  <1>4. CASE Confirm(t)
    <2>1. th[t].ord \in Orders
      BY <1>1, <1>4 DEF Confirm, ConfirmSkip, ConfirmRefused
    <2>2. CASE ConfirmAsk(t)
      BY <2>1, <2>2, AnswersFinal DEF ConfirmAsk, TypeInv
    <2> QED BY <1>2, <1>4, <2>2 DEF Confirm, ConfirmSkip, ConfirmRefused, ConfirmOnlySend
  <1>5. CASE Post(t)
    <2>1. th[t].ord \in Orders
      BY <1>1, <1>5 DEF Post
    <2>2. UNCHANGED platform \/ \E a \in Answers(th[t].ord) :
              platform' = [platform EXCEPT ![th[t].ord] = a[1]]
      BY <1>5 DEF Post
    <2> QED BY <1>2, <2>1, <2>2, AnswersFinal DEF TypeInv
  <1> QED BY <1>2, <1>3, <1>4, <1>5 DEF SharedStep, Acquire, Take, Send, Write, Leave

LEMMA NextFinal ==
  ASSUME TypeInv, [Next]_vars
  PROVE  PlatformFinal
  <1>1. CASE UNCHANGED platform
    BY <1>1 DEF PlatformFinal
  <1>2. ASSUME NEW t \in Autos, NEW o \in Orders, AutoStart(t, o)
        PROVE  PlatformFinal
    BY <1>2, PreCheckFinal DEF AutoStart, TypeInv
  <1>3. ASSUME NEW o \in Orders, Elsewhere(o)
        PROVE  PlatformFinal
    BY <1>3 DEF Elsewhere, PlatformFinal, TypeInv, StoreOK
  <1>4. ASSUME NEW t \in Autos, AutoStep(t)
        PROVE  PlatformFinal
    BY <1>1, <1>4 DEF AutoStep, AutoRedis, AutoCheck, AutoEnter, AutoMark, AutoFree
  <1>5. ASSUME NEW c \in Callers, CallerStep(c)
        PROVE  PlatformFinal
    BY <1>1, <1>5 DEF CallerStep, CallerRedis, CallerCall, CallerTimeout, CallerDone, CallerFree
  <1>6. ASSUME NEW s \in Scheds, (\E o \in Orders : SchedSnapshot(s, o)) \/ SchedCanShip(s)
        PROVE  PlatformFinal
    BY <1>1, <1>6 DEF SchedSnapshot, SchedCanShip
  <1>7. ASSUME NEW m \in Manuals, NEW o \in Orders, ManualStart(m, o)
        PROVE  PlatformFinal
    BY <1>1, <1>7 DEF ManualStart
  <1>8. CASE Environment
    BY <1>1, <1>3, <1>8 DEF Environment, Toggle, DayEnds, Restart, Crash, SyncRead, SyncWrite,
          RedisExpire, CoolExpire, ConfirmedExpire, HoldExpire
  <1>9. CASE UNCHANGED vars
    BY <1>1, <1>9 DEF vars
  <1> QED BY <1>2, <1>4, <1>5, <1>6, <1>7, <1>8, <1>9, FlowFinal DEF Next

-----------------------------------------------------------------------------
(***************************************************************************)
(* What the steps that compute a flow's next record make of it, field by   *)
(* field.                                                                  *)
(***************************************************************************)
Kept(r, n) ==
  /\ n.ord = r.ord /\ n.inst = r.inst /\ n.redis = r.redis
  /\ n.closed = r.closed /\ n.reply = r.reply

LEMMA NextRoundAt ==
  ASSUME NEW r \in Flow
  PROVE  LET n == NextRound(r) IN
         /\ Kept(r, n) /\ n.got = r.got /\ n.only = r.only /\ n.conf = r.conf
         /\ n.round = r.round + 1 /\ n.rOnly = FALSE /\ n.rConf = FALSE
         /\ n.pc = IF r.round + 1 < Rounds(r) THEN "enter"
                   ELSE IF r.got # {} THEN "mark" ELSE "leave"
  <1> DEFINE pc == IF r.round + 1 < Rounds(r) THEN "enter"
                   ELSE IF r.got # {} THEN "mark" ELSE "leave"
             round == r.round + 1
  <1>1. NextRound(r) = [r EXCEPT !.pc = pc, !.round = round, !.rOnly = FALSE, !.rConf = FALSE]
    BY DEF NextRound
  <1> HIDE DEF pc, round
  <1>2. LET n == NextRound(r) IN
        /\ Kept(r, n) /\ n.got = r.got /\ n.only = r.only /\ n.conf = r.conf
        /\ n.round = round /\ n.rOnly = FALSE /\ n.rConf = FALSE /\ n.pc = pc
    BY <1>1 DEF Flow, Kept
  <1> QED BY <1>2 DEF pc, round

LEMMA EmptyRoundAt ==
  ASSUME FlowsOK, NEW t \in Autos, EmptyRound(t)
  PROVE  LET r == th[t] n == th'[t] IN
         /\ \A u \in Threads : u # t => th'[u] = th[u]
         /\ Kept(r, n) /\ n.got = r.got /\ n.only = r.only /\ n.conf = r.conf
         /\ \/ /\ r.round = 0 /\ status[r.ord] = "shipped" /\ n.pc = "leave"
               /\ n.round = r.round /\ n.rOnly = r.rOnly /\ n.rConf = r.rConf
            \/ /\ n.round = r.round + 1 /\ n.rOnly = FALSE /\ n.rConf = FALSE
               /\ n.pc = IF r.round + 1 < Rounds(r) THEN "enter"
                         ELSE IF r.got # {} THEN "mark" ELSE "leave"
  <1>1. th[t] \in Flow
    BY DEF FlowsOK
  <1>2. CASE th[t].round = 0 /\ status[th[t].ord] = "shipped"
    <2>1. th'[t] = [th[t] EXCEPT !.pc = "leave"] /\ \A u \in Threads : u # t => th'[u] = th[u]
      BY <1>2, BecomeAt DEF EmptyRound, Goto
    <2> QED BY <1>1, <1>2, <2>1 DEF Flow, Kept
  <1>3. CASE ~(th[t].round = 0 /\ status[th[t].ord] = "shipped")
    <2>1. th'[t] = NextRound(th[t]) /\ \A u \in Threads : u # t => th'[u] = th[u]
      BY <1>3, BecomeAt DEF EmptyRound
    <2> QED BY <1>1, <2>1, NextRoundAt
  <1> QED BY <1>2, <1>3

\* What becomes of a flow that takes the code c.
LEMMA TakeAt ==
  ASSUME FlowsOK, NEW t \in Threads, Take(t)
  PROVE  LET r == th[t] n == th'[t] IN
         \/ \E c \in Codes :
              /\ \A u \in Threads : u # t => th'[u] = th[u]
              /\ UNCHANGED <<lock, cl>>
              /\ card[c] = NoOrder /\ card' = [card EXCEPT ![c] = r.ord]
              /\ Kept(r, n) /\ n.got = r.got \cup {c}
              /\ n.only = (r.only \/ r.rOnly) /\ n.conf = (r.conf \/ r.rConf)
              /\ \/ /\ t \in Autos /\ n.round = r.round + 1
                    /\ n.rOnly = FALSE /\ n.rConf = FALSE
                    /\ n.pc = IF r.round + 1 < Rounds(r) THEN "enter" ELSE "mark"
                 \/ /\ t \in Calls /\ n.round = r.round /\ n.pc = "send"
                    /\ n.rOnly = r.rOnly /\ n.rConf = r.rConf
         \/ /\ UNCHANGED card
            /\ \/ t \in Autos /\ EmptyRound(t) /\ UNCHANGED <<lock, cl>>
               \/ t \in Calls /\ r.got = {} /\ Finish(t, "fail", {})
               \/ /\ t \in Calls /\ r.got # {} /\ Goto(t, "post")
                  /\ UNCHANGED <<lock, cl>>
  <1> DEFINE r == th[t]
             only == (r.only \/ r.rOnly)
             conf == (r.conf \/ r.rConf)
             m(c) == [r EXCEPT !.got = r.got \cup {c}, !.only = only, !.conf = conf]
  <1>1. r \in Flow
    BY DEF FlowsOK
  <1>2. only \in BOOLEAN /\ conf \in BOOLEAN
    BY <1>1 DEF Flow
  <1>3. ASSUME NEW c \in Codes,
               LET n == [th[t] EXCEPT !.got = @ \cup {c}, !.only = @ \/ th[t].rOnly,
                                      !.conf = @ \/ th[t].rConf]
               IN  Become(t, IF t \in Autos THEN NextRound(n)
                             ELSE [n EXCEPT !.pc = "send", !.todo = {c}])
        PROVE  LET n == th'[t] IN
              /\ \A u \in Threads : u # t => th'[u] = th[u]
              /\ Kept(r, n) /\ n.got = r.got \cup {c}
              /\ n.only = only /\ n.conf = conf
              /\ \/ /\ t \in Autos /\ n.round = r.round + 1
                    /\ n.rOnly = FALSE /\ n.rConf = FALSE
                    /\ n.pc = IF r.round + 1 < Rounds(r) THEN "enter" ELSE "mark"
                 \/ /\ t \in Calls /\ n.round = r.round /\ n.pc = "send"
                    /\ n.rOnly = r.rOnly /\ n.rConf = r.rConf
    <2>0. Become(t, IF t \in Autos THEN NextRound(m(c))
                    ELSE [m(c) EXCEPT !.pc = "send", !.todo = {c}])
      BY <1>3
    <2> HIDE DEF only, conf
    <2>1. /\ m(c) \in Flow /\ Kept(r, m(c)) /\ m(c).got = r.got \cup {c} /\ m(c).got # {}
          /\ m(c).only = only /\ m(c).conf = conf /\ m(c).round = r.round
          /\ m(c).rOnly = r.rOnly /\ m(c).rConf = r.rConf
      BY <1>1, <1>2 DEF Flow, Kept
    <2> HIDE DEF m
    <2>2. Rounds(m(c)) = Rounds(r)
      BY <2>1 DEF Rounds, Kept
    <2>3. CASE t \in Autos
      <3>1. th'[t] = NextRound(m(c)) /\ \A u \in Threads : u # t => th'[u] = th[u]
        BY <2>0, <2>3, BecomeAt
      <3>2. LET n == NextRound(m(c)) IN
            /\ Kept(m(c), n) /\ n.got = m(c).got /\ n.only = m(c).only /\ n.conf = m(c).conf
            /\ n.round = m(c).round + 1 /\ n.rOnly = FALSE /\ n.rConf = FALSE
            /\ n.pc = IF m(c).round + 1 < Rounds(m(c)) THEN "enter" ELSE "mark"
        BY <2>1, NextRoundAt
      <3> QED BY <2>1, <2>2, <2>3, <3>1, <3>2 DEF Kept
    <2>4. CASE t \notin Autos
      <3>1. /\ th'[t] = [m(c) EXCEPT !.pc = "send", !.todo = {c}]
            /\ \A u \in Threads : u # t => th'[u] = th[u]
        BY <2>0, <2>4, BecomeAt
      <3> QED BY <2>1, <2>4, <3>1 DEF Flow, Kept
    <2> QED BY <2>3, <2>4
  <1>4. CASE \E c \in Codes :
               LET n == [th[t] EXCEPT !.got = @ \cup {c}, !.only = @ \/ th[t].rOnly,
                                      !.conf = @ \/ th[t].rConf]
               IN  /\ card[c] = NoOrder
                   /\ card' = [card EXCEPT ![c] = th[t].ord]
                   /\ Become(t, IF t \in Autos THEN NextRound(n)
                                ELSE [n EXCEPT !.pc = "send", !.todo = {c}])
                   /\ UNCHANGED <<lock, cl>>
    <2>1. PICK c \in Codes :
               LET n == [th[t] EXCEPT !.got = @ \cup {c}, !.only = @ \/ th[t].rOnly,
                                      !.conf = @ \/ th[t].rConf]
               IN  /\ card[c] = NoOrder
                   /\ card' = [card EXCEPT ![c] = th[t].ord]
                   /\ Become(t, IF t \in Autos THEN NextRound(n)
                                ELSE [n EXCEPT !.pc = "send", !.todo = {c}])
                   /\ UNCHANGED <<lock, cl>>
      BY <1>4
    <2>2. /\ card[c] = NoOrder /\ card' = [card EXCEPT ![c] = r.ord]
          /\ UNCHANGED <<lock, cl>>
      BY <2>1
    <2>3. LET n == [th[t] EXCEPT !.got = @ \cup {c}, !.only = @ \/ th[t].rOnly,
                                 !.conf = @ \/ th[t].rConf]
          IN  Become(t, IF t \in Autos THEN NextRound(n)
                        ELSE [n EXCEPT !.pc = "send", !.todo = {c}])
      BY <2>1
    <2> HIDE <2>1
    <2> DEFINE Took(d) ==
          LET n == th'[t] IN
              /\ \A u \in Threads : u # t => th'[u] = th[u]
              /\ Kept(r, n) /\ n.got = r.got \cup {d}
              /\ n.only = only /\ n.conf = conf
              /\ \/ /\ t \in Autos /\ n.round = r.round + 1
                    /\ n.rOnly = FALSE /\ n.rConf = FALSE
                    /\ n.pc = IF r.round + 1 < Rounds(r) THEN "enter" ELSE "mark"
                 \/ /\ t \in Calls /\ n.round = r.round /\ n.pc = "send"
                    /\ n.rOnly = r.rOnly /\ n.rConf = r.rConf
    <2>4. Took(c)
      BY <1>3, <2>3
    <2> QED BY <2>2, <2>4
  <1>5. CASE /\ UNCHANGED card
             /\ IF t \in Autos THEN EmptyRound(t) /\ UNCHANGED <<lock, cl>>
                ELSE IF th[t].got = {} THEN Finish(t, "fail", {})
                ELSE Goto(t, "post") /\ UNCHANGED <<lock, cl>>
    BY <1>5
  <1> QED BY <1>4, <1>5 DEF Take

LEMMA SendAt ==
  ASSUME FlowsOK, NEW t \in Threads, Send(t)
  PROVE  LET r == th[t] n == th'[t] IN
         /\ \A u \in Threads : u # t => th'[u] = th[u]
         /\ Kept(r, n) /\ n.got = r.got /\ n.only = r.only /\ n.conf = r.conf
         /\ n.rOnly = r.rOnly /\ n.rConf = r.rConf
         /\ \/ t \in Autos /\ n.round = r.round /\ n.pc \in {"post", "send"}
            \/ /\ t \in Calls /\ n.round = r.round + 1
               /\ n.pc = IF r.round + 1 < Rounds(r) THEN "take" ELSE "post"
  <1> DEFINE r == th[t]
             Sent(n) ==
               /\ Kept(r, n) /\ n.got = r.got /\ n.only = r.only /\ n.conf = r.conf
               /\ n.rOnly = r.rOnly /\ n.rConf = r.rConf
               /\ \/ t \in Autos /\ n.round = r.round /\ n.pc \in {"post", "send"}
                  \/ /\ t \in Calls /\ n.round = r.round + 1
                     /\ n.pc = IF r.round + 1 < Rounds(r) THEN "take" ELSE "post"
             After(c) ==
               IF t \in Autos
               THEN [r EXCEPT !.todo = @ \ {c},
                              !.pc = IF r.todo = {c} THEN "post" ELSE "send"]
               ELSE [r EXCEPT !.todo = {}, !.round = @ + 1,
                              !.pc = IF r.round + 1 < Rounds(r) THEN "take" ELSE "post"]
  <1>1. r \in Flow /\ Rounds(r) \in Nat
    BY DeliveryAssumption DEF FlowsOK, Rounds
  <1>2. PICK c \in r.todo :
          \/ Become(t, After(c))
          \/ Become(t, [After(c) EXCEPT !.bad = @ \/ t \in Autos])
          \/ Become(t, [After(c) EXCEPT !.rej = TRUE])
    BY DEF Send
  <1>3. Sent(After(c))
    BY <1>1 DEF Flow, Kept
  <1>4. \A b : Sent([After(c) EXCEPT !.bad = b]) /\ Sent([After(c) EXCEPT !.rej = b])
    BY <1>1 DEF Flow, Kept
  <1> HIDE DEF After
  <1>5. Sent(th'[t]) /\ \A u \in Threads : u # t => th'[u] = th[u]
    <2> HIDE DEF Sent
    <2>1. Sent([After(c) EXCEPT !.bad = @ \/ t \in Autos])
      BY <1>4, Zenon
    <2>2. PICK n : Sent(n) /\ Become(t, n)
      BY <1>2, <1>3, <1>4, <2>1, Zenon
    <2> QED BY <2>2, BecomeAt
  <1> QED BY <1>5

LEMMA PostAt ==
  ASSUME TypeInv, NEW t \in Threads, Post(t)
  PROVE  LET r == th[t] n == th'[t] IN
         /\ \A u \in Threads : u # t => th'[u] = th[u]
         /\ Kept(r, n) /\ n.got = r.got /\ n.rConf = r.rConf /\ n.rOnly = r.rOnly
         /\ n.round = r.round /\ n.pc = "write"
         /\ n.only = (r.only \/ (~r.conf /\ onlySend))
         /\ \/ n.conf = r.conf
            \/ /\ SendBeforeConfirm /\ n.conf = TRUE /\ ~r.closed /\ ~n.only
               /\ ~r.bad /\ platform'[r.ord] = "shipped"
  <1> DEFINE r    == th[t]
             only == r.only \/ (~r.conf /\ onlySend)
             asks == SendBeforeConfirm /\ ~r.closed /\ ~only /\ ~r.bad
             n    == [r EXCEPT !.pc = "write", !.only = only]
  <1>1. r \in Flow /\ r.ord \in Orders /\ onlySend \in BOOLEAN
    BY DeliveryAssumption DEF Post, At, TypeInv, FlowsOK, FlowOK, StoreOK
  <1>2. only \in BOOLEAN
    BY <1>1 DEF Flow
  <1>3. CASE Become(t, n)
    <2>1. only = (r.only \/ (~r.conf /\ onlySend))
      OBVIOUS
    <2> HIDE DEF only
    <2>2. /\ Kept(r, n) /\ n.got = r.got /\ n.rConf = r.rConf /\ n.rOnly = r.rOnly
          /\ n.round = r.round /\ n.pc = "write" /\ n.only = only /\ n.conf = r.conf
      BY <1>1, <1>2 DEF Flow, Kept
    <2>3. th'[t] = n /\ \A u \in Threads : u # t => th'[u] = th[u]
      BY <1>3, BecomeAt DEF TypeInv
    <2> HIDE DEF n
    <2> QED BY <2>1, <2>2, <2>3
  <1>4. ASSUME asks, NEW a \in Answers(r.ord),
               platform' = [platform EXCEPT ![r.ord] = a[1]],
               Become(t, [n EXCEPT !.conf = @ \/ a[2] # "error"])
        PROVE  LET m == th'[t] IN
         /\ \A u \in Threads : u # t => th'[u] = th[u]
         /\ Kept(r, m) /\ m.got = r.got /\ m.rConf = r.rConf /\ m.rOnly = r.rOnly
         /\ m.round = r.round /\ m.pc = "write" /\ m.only = only
         /\ \/ m.conf = r.conf
            \/ /\ SendBeforeConfirm /\ m.conf = TRUE /\ ~r.closed /\ ~m.only
               /\ ~r.bad /\ platform'[r.ord] = "shipped"
    <2>1. platform[r.ord] \in PlatformStates /\ platform'[r.ord] = a[1]
      BY <1>1, <1>4 DEF TypeInv, StoreOK
    <2>2. a[2] # "error" => platform'[r.ord] = "shipped"
      BY <2>1 DEF Answers, PlatformStates
    <2> DEFINE conf == (r.conf \/ a[2] # "error")
    <2>3. conf \in BOOLEAN /\ (conf = r.conf \/ (conf = TRUE /\ a[2] # "error"))
      BY <1>1 DEF Flow
    <2>4. n.conf = r.conf
      BY <1>1 DEF Flow
    <2>5. Become(t, [n EXCEPT !.conf = conf])
      BY <1>4, <2>4
    <2> HIDE DEF conf, only
    <2> DEFINE m == [n EXCEPT !.conf = conf]
    <2>6. /\ Kept(r, m) /\ m.got = r.got /\ m.rConf = r.rConf /\ m.rOnly = r.rOnly
          /\ m.round = r.round /\ m.pc = "write" /\ m.only = only /\ m.conf = conf
      BY <1>1 DEF Flow, Kept
    <2>7. th'[t] = m /\ \A u \in Threads : u # t => th'[u] = th[u]
      BY <2>5, BecomeAt DEF TypeInv
    <2> HIDE DEF m, n
    <2>8. SendBeforeConfirm /\ ~r.closed /\ ~only /\ ~r.bad
      BY <1>4 
    <2> QED BY <2>2, <2>3, <2>6, <2>7, <2>8
  <1> QED BY <1>3, <1>4 DEF Post

LEMMA WriteAt ==
  ASSUME TypeInv, NEW t \in Threads, Write(t)
  PROVE  LET r == th[t] n == th'[t] IN
         /\ \A u \in Threads : u # t => th'[u] = th[u]
         /\ n.ord = r.ord /\ n.inst = r.inst /\ n.redis = r.redis /\ n.closed = r.closed
         /\ n.got = r.got /\ n.rConf = r.rConf /\ n.rOnly = r.rOnly /\ n.round = r.round
         /\ n.pc = "leave" /\ n.conf = r.conf
         /\ n.only = (r.only \/ (~r.conf /\ onlySend))
         /\ n.reply = IF r.closed THEN "closed"
                      ELSE IF n.only /\ ~r.conf THEN "only" ELSE "normal"
         /\ \/ /\ marker' = [marker EXCEPT ![r.ord] = @ \/ n.reply = "only"]
               /\ status' = IF n.reply = "normal" THEN [status EXCEPT ![r.ord] = "shipped"]
                            ELSE status
            \/ DbFaults /\ UNCHANGED <<status, marker>>
  <1> DEFINE r    == th[t]
             only == r.only \/ (~r.conf /\ onlySend)
             kind == IF r.closed THEN "closed" ELSE IF only /\ ~r.conf THEN "only" ELSE "normal"
             n    == [r EXCEPT !.pc = "leave", !.only = only, !.reply = kind]
  <1>1. r \in Flow /\ onlySend \in BOOLEAN
    BY DeliveryAssumption DEF TypeInv, FlowsOK, StoreOK
  <1>2. only \in BOOLEAN /\ kind \in ReplyKinds
    BY <1>1 DEF Flow, ReplyKinds
  <1>3. /\ Become(t, n)
        /\ \/ /\ marker' = [marker EXCEPT ![r.ord] = @ \/ kind = "only"]
              /\ status' = IF kind = "normal" THEN [status EXCEPT ![r.ord] = "shipped"]
                           ELSE status
           \/ DbFaults /\ UNCHANGED <<status, marker>>
    BY DEF Write, database
  <1>4. kind = IF r.closed THEN "closed" ELSE IF only /\ ~r.conf THEN "only" ELSE "normal"
    OBVIOUS
  <1>5. only = (r.only \/ (~r.conf /\ onlySend))
    OBVIOUS
  <1> HIDE DEF only, kind
  <1>6. /\ n.ord = r.ord /\ n.inst = r.inst /\ n.redis = r.redis /\ n.closed = r.closed
        /\ n.got = r.got /\ n.rConf = r.rConf /\ n.rOnly = r.rOnly /\ n.round = r.round
        /\ n.pc = "leave" /\ n.conf = r.conf /\ n.only = only /\ n.reply = kind
    BY <1>1 DEF Flow
  <1>7. th'[t] = n /\ \A u \in Threads : u # t => th'[u] = th[u]
    BY <1>3, BecomeAt DEF TypeInv
  <1> HIDE DEF n
  <1> QED BY <1>3, <1>4, <1>5, <1>6, <1>7

\* A record that differs in its step, its Redis flag and its work list only.
Same(r, n) ==
  /\ n.ord = r.ord /\ n.inst = r.inst /\ n.closed = r.closed /\ n.reply = r.reply
  /\ n.got = r.got /\ n.only = r.only /\ n.conf = r.conf
  /\ n.round = r.round /\ n.rOnly = r.rOnly /\ n.rConf = r.rConf

Only(t) == \A u \in Threads : u # t => th'[u] = th[u]

LEMMA GotoAt ==
  ASSUME FlowsOK, NEW t \in Threads, NEW pc, Goto(t, pc)
  PROVE  Only(t) /\ Same(th[t], th'[t]) /\ th'[t].pc = pc /\ th'[t].redis = th[t].redis
  <1>1. th[t] \in Flow
    BY DEF FlowsOK
  <1>2. th'[t] = [th[t] EXCEPT !.pc = pc] /\ Only(t)
    BY BecomeAt DEF Goto, Only
  <1> QED BY <1>1, <1>2 DEF Flow, Same

LEMMA AutoStartAt ==
  ASSUME TypeInv, NEW t \in Autos, NEW o \in Orders, AutoStart(t, o)
  PROVE  LET n == th'[t] IN
         /\ Only(t) /\ th[t].pc = "idle"
         /\ \/ UNCHANGED th
            \/ /\ n.pc = "redis" /\ n.ord = o /\ n.inst = gen /\ n.only = onlySend
               /\ n.closed => Rules /\ platform[o] = "pending" /\ platform'[o] = "closed"
               /\ n.conf = FALSE /\ n.rOnly = FALSE /\ n.rConf = FALSE
               /\ n.got = {} /\ n.round = 0 /\ n.reply = "none"
  <1>1. PICK p \in PreCheck(o) :
          /\ platform' = [platform EXCEPT ![o] = p[1]]
          /\ \/ UNCHANGED th
             \/ Become(t, [Idle EXCEPT !.pc = "redis", !.ord = o, !.inst = gen,
                                       !.closed = (p[2] = "card_only"),
                                       !.only = onlySend])
    BY DEF AutoStart
  <1>2. th[t].pc = "idle"
    BY DEF AutoStart, At
  <1>3. p[2] = "card_only" => Rules /\ platform[o] = "pending" /\ platform'[o] = "closed"
    BY <1>1 DEF PreCheck, TypeInv, StoreOK
  <1>4. CASE UNCHANGED th
    BY <1>2, <1>4 DEF Only
  <1>5. CASE Become(t, [Idle EXCEPT !.pc = "redis", !.ord = o, !.inst = gen,
                                       !.closed = (p[2] = "card_only"),
                                       !.only = onlySend])
    <2> DEFINE closed == (p[2] = "card_only")
               n == [Idle EXCEPT !.pc = "redis", !.ord = o, !.inst = gen,
                                       !.closed = closed, !.only = onlySend]
    <2>1. th'[t] = n /\ Only(t)
      BY <1>5, BecomeAt DEF TypeInv, Only
    <2>2. closed => Rules /\ platform[o] = "pending" /\ platform'[o] = "closed"
      BY <1>3
    <2> HIDE DEF closed
    <2> QED BY <1>2, <2>1, <2>2 DEF Idle
  <1> QED BY <1>1, <1>4, <1>5

LEMMA AutoRedisAt ==
  ASSUME TypeInv, NEW t \in Autos, AutoRedis(t)
  PROVE  LET n == th'[t] o == th[t].ord IN
         /\ Only(t) /\ th[t].pc = "redis" /\ o \in Orders
         /\ \/ n = Idle /\ (~RedisFaults => UNCHANGED redis)
            \/ /\ Same(th[t], n) /\ n.pc = "lock"
               /\ ~RedisFaults => /\ n.redis = TRUE /\ redis[o] = Nobody
                                  /\ redis' = [redis EXCEPT ![o] = t]
  <1> DEFINE o == th[t].ord
  <1>1. th[t] \in Flow /\ th[t].pc = "redis" /\ o \in Orders
    BY DEF AutoRedis, At, TypeInv, FlowsOK, FlowOK
  <1>2. PICK a \in LockResults(t, o) :
         /\ redis' = [redis EXCEPT ![o] = a[1]]
         /\ Become(t, IF a[2] = "busy" THEN Idle
                      ELSE [th[t] EXCEPT !.pc = "lock", !.redis = (a[2] = "got")])
    BY DEF AutoRedis
  <1>3. ~RedisFaults =>
           \/ a[2] = "got" /\ a[1] = t /\ redis[o] = Nobody
           \/ a[2] = "busy" /\ a[1] = redis[o]
    BY <1>2 DEF LockResults
  <1>4. CASE a[2] = "busy"
    <2>1. th'[t] = Idle /\ Only(t)
      BY <1>2, <1>4, BecomeAt DEF TypeInv, Only
    <2> QED BY <1>1, <1>2, <1>3, <1>4, <2>1 DEF TypeInv, StoreOK
  <1>5. CASE a[2] # "busy"
    <2> DEFINE b == (a[2] = "got")
    <2>1. th'[t] = [th[t] EXCEPT !.pc = "lock", !.redis = b] /\ Only(t)
      BY <1>2, <1>5, BecomeAt DEF TypeInv, Only
    <2>2. ~RedisFaults => b = TRUE /\ a[1] = t /\ redis[o] = Nobody
      BY <1>3, <1>5
    <2> HIDE DEF b
    <2> QED BY <1>1, <1>2, <2>1, <2>2 DEF Flow, Same
  <1> QED BY <1>4, <1>5

LEMMA AcquireAt ==
  ASSUME TypeInv, NEW t \in Threads, Acquire(t)
  PROVE  LET r == th[t] n == th'[t] IN
         /\ Only(t) /\ r.pc = "lock"
         /\ \/ /\ lock[r.inst][r.ord] = Nobody /\ lock' = [lock EXCEPT ![r.inst][r.ord] = t]
               /\ Same(r, n) /\ n.redis = r.redis /\ n.pc = "check" /\ UNCHANGED cl
            \/ /\ t \in Autos /\ Same(r, n) /\ n.redis = r.redis /\ n.pc = "free"
               /\ Answer(t, "fail", {}) /\ UNCHANGED lock
            \/ t \in Calls /\ n = Idle /\ Answer(t, "fail", {}) /\ UNCHANGED lock
  BY GotoAt, BecomeAt DEF Acquire, At, TypeInv, Only

LEMMA AutoCheckAt ==
  ASSUME TypeInv, NEW t \in Autos, AutoCheck(t)
  PROVE  LET r == th[t] n == th'[t] IN
         /\ r.pc = "check"
         /\ \/ Finish(t, "none", {})
            \/ /\ ~Handled(r.ord) \/ DbFaults
               /\ Only(t) /\ Same(r, n) /\ n.redis = r.redis
               /\ n.pc = "enter" /\ UNCHANGED <<lock, cl>>
  BY GotoAt DEF AutoCheck, At, TypeInv

LEMMA CallCheckAt ==
  ASSUME TypeInv, NEW t \in Calls, CallCheck(t)
  PROVE  LET r == th[t] n == th'[t] o == r.ord IN
         /\ r.pc = "check"
         /\ \/ marker[o] /\ Finish(t, "alreadyOnly", content[o]) /\ UNCHANGED platform
            \/ /\ status[o] \in {"shipped", "completed"}
               /\ Finish(t, "already", {}) /\ UNCHANGED platform
            \/ Finish(t, "fail", {})
            \/ /\ ~Handled(o) /\ Only(t) /\ UNCHANGED <<lock, cl>>
               /\ n.pc = "confirm" /\ n.only = onlySend
               /\ n.closed => Rules /\ platform[o] = "pending" /\ platform'[o] = "closed"
               /\ n.ord = r.ord /\ n.inst = r.inst /\ n.reply = r.reply /\ n.got = r.got
               /\ n.conf = r.conf /\ n.round = r.round /\ n.redis = r.redis
               /\ n.rOnly = r.rOnly /\ n.rConf = r.rConf
  <1> DEFINE o == th[t].ord
  <1>1. th[t] \in Flow /\ th[t].pc = "check" /\ o \in Orders
    BY DEF CallCheck, At, TypeInv, FlowsOK, FlowOK
  <1>2. ASSUME ~Handled(o), NEW p \in PreCheck(o), platform' = [platform EXCEPT ![o] = p[1]],
               Become(t, [th[t] EXCEPT !.pc = "confirm", !.closed = (p[2] = "card_only"),
                                       !.only = onlySend]),
               UNCHANGED <<lock, cl>>
        PROVE  LET r == th[t] n == th'[t] IN
               /\ ~Handled(o) /\ Only(t) /\ UNCHANGED <<lock, cl>>
               /\ n.pc = "confirm" /\ n.only = onlySend
               /\ n.closed => Rules /\ platform[o] = "pending" /\ platform'[o] = "closed"
               /\ n.ord = r.ord /\ n.inst = r.inst /\ n.reply = r.reply /\ n.got = r.got
               /\ n.conf = r.conf /\ n.round = r.round /\ n.redis = r.redis
               /\ n.rOnly = r.rOnly /\ n.rConf = r.rConf
    <2> DEFINE closed == (p[2] = "card_only")
    <2>1. th'[t] = [th[t] EXCEPT !.pc = "confirm", !.closed = closed, !.only = onlySend]
          /\ Only(t)
      BY <1>2, BecomeAt DEF TypeInv, Only
    <2>2. closed => Rules /\ platform[o] = "pending" /\ platform'[o] = "closed"
      BY <1>1, <1>2 DEF PreCheck, TypeInv, StoreOK
    <2> HIDE DEF closed
    <2> QED BY <1>1, <1>2, <2>1, <2>2 DEF Flow
  <1>3. CASE /\ ~Handled(o)
             /\ \E p \in PreCheck(o) :
               /\ platform' = [platform EXCEPT ![o] = p[1]]
               /\ IF p[2] = "block"
                  THEN Finish(t, "fail", {})
                  ELSE /\ Become(t, [th[t] EXCEPT !.pc = "confirm",
                                                  !.closed = (p[2] = "card_only"),
                                                  !.only = onlySend])
                       /\ UNCHANGED <<lock, cl>>
    BY <1>1, <1>2, <1>3
  <1>4. CASE marker[o] /\ Finish(t, "alreadyOnly", content[o]) /\ UNCHANGED platform
    BY <1>1, <1>4
  <1>5. CASE status[o] \in {"shipped", "completed"} /\ Finish(t, "already", {}) /\ UNCHANGED platform
    BY <1>1, <1>5
  <1>6. CASE Finish(t, "fail", {})
    BY <1>1, <1>6
  <1> QED BY <1>3, <1>4, <1>5, <1>6 DEF CallCheck, Delivered, Handled

LEMMA AutoEnterAt ==
  ASSUME TypeInv, NEW t \in Autos, AutoEnter(t)
  PROVE  LET r == th[t] n == th'[t] IN
         /\ Only(t) /\ r.pc = "enter" /\ n.pc = "confirm" /\ n.redis = r.redis
         /\ Kept(r, n) /\ n.got = r.got /\ n.only = r.only /\ n.conf = r.conf
         /\ n.round = r.round /\ n.rConf = r.rConf /\ n.rOnly = onlySend
  <1>1. th[t] \in Flow /\ th[t].pc = "enter"
    BY DEF AutoEnter, At, TypeInv, FlowsOK
  <1>2. th'[t] = [th[t] EXCEPT !.pc = "confirm", !.rOnly = onlySend] /\ Only(t)
    BY BecomeAt DEF AutoEnter, TypeInv, Only
  <1> QED BY <1>1, <1>2 DEF Flow, Kept

LEMMA AutoMarkAt ==
  ASSUME TypeInv, NEW t \in Autos, AutoMark(t)
  PROVE  LET r == th[t] n == th'[t] IN
         Only(t) /\ r.pc = "mark" /\ n.pc = "send" /\ Same(r, n) /\ n.redis = r.redis
  <1>1. th[t] \in Flow /\ th[t].pc = "mark"
    BY DEF AutoMark, At, TypeInv, FlowsOK
  <1>2. th'[t] = [th[t] EXCEPT !.pc = "send", !.todo = th[t].got] /\ Only(t)
    BY BecomeAt DEF AutoMark, TypeInv, Only
  <1> QED BY <1>1, <1>2 DEF Flow, Same

LEMMA ConfirmAt ==
  ASSUME TypeInv, NEW t \in Threads, Confirm(t)
  PROVE  LET r == th[t] n == th'[t] o == r.ord IN
         /\ r.pc = "confirm" /\ o \in Orders /\ r.inst \in Gens
         /\ \/ UNCHANGED confd
            \/ platform'[o] = "shipped" /\ confd' = [confd EXCEPT ![r.inst][o] = TRUE]
         /\ \/ /\ Only(t) /\ UNCHANGED <<lock, cl>> /\ n.pc = "take" /\ n.redis = r.redis
               /\ Kept(r, n) /\ n.got = r.got /\ n.only = r.only /\ n.conf = r.conf
               /\ n.round = r.round
               /\ \/ /\ n.rOnly = r.rOnly /\ n.rConf = r.rConf /\ UNCHANGED platform
                     /\ \/ Skips(r) \/ SendBeforeConfirm \/ ~autoConfirm
                        \/ confd[r.inst][o]
                  \/ n.rOnly = TRUE /\ n.rConf = r.rConf /\ onlySend /\ UNCHANGED platform
                  \/ /\ n.rOnly = r.rOnly /\ ~onlySend
                     /\ n.rConf = TRUE /\ platform'[o] = "shipped"
                  \/ n.rOnly = r.rOnly /\ ~onlySend /\ n.rConf = FALSE /\ ~ConfirmBeforeSend
            \/ t \in Autos /\ EmptyRound(t) /\ UNCHANGED <<lock, cl>>
            \/ t \in Calls /\ Finish(t, "fail", {})
            \/ t \in Calls /\ Finish(t, "already", {}) /\ platform'[o] = "shipped"
  <1> DEFINE r == th[t]
             o == r.ord
  <1>1. /\ r \in Flow /\ r.pc = "confirm" /\ o \in Orders /\ r.inst \in Gens
        /\ t \in Autos \/ t \in Calls
    BY DEF Confirm, ConfirmSkip, ConfirmRefused, At, TypeInv, FlowsOK, FlowOK, Flow
  <1>2. CASE ConfirmSkip(t)
    <2>1. Only(t) /\ Same(r, th'[t]) /\ th'[t].pc = "take" /\ th'[t].redis = r.redis
      BY <1>2, GotoAt DEF ConfirmSkip, TypeInv
    <2>2. UNCHANGED <<confd, lock, cl, platform>>
      BY <1>2 DEF ConfirmSkip, memory
    <2>3. Skips(r) \/ SendBeforeConfirm \/ ~autoConfirm \/ confd[r.inst][o]
      BY <1>2 DEF ConfirmSkip
    <2> QED BY <1>1, <2>1, <2>2, <2>3 DEF Same, Kept
  <1>3. CASE ConfirmRefused(t)
    <2>1. UNCHANGED confd
      BY <1>3 DEF ConfirmRefused
    <2>2. \/ t \in Autos /\ EmptyRound(t) /\ UNCHANGED <<lock, cl>>
          \/ t \in Calls /\ Finish(t, "fail", {})
      BY <1>1, <1>3 DEF ConfirmRefused
    <2> QED BY <1>1, <2>1, <2>2
  <1>4. CASE ConfirmOnlySend(t)
    <2>1. th'[t] = [r EXCEPT !.pc = "take", !.rOnly = TRUE] /\ Only(t)
      BY <1>4, BecomeAt DEF ConfirmOnlySend, TypeInv, Only
    <2>2. UNCHANGED <<confd, lock, cl, platform>> /\ onlySend
      BY <1>4 DEF ConfirmOnlySend, memory
    <2> QED BY <1>1, <2>1, <2>2 DEF Flow, Kept
  <1>5. CASE ConfirmAsk(t)
    <2>1. PICK a \in Answers(o) :
         /\ platform' = [platform EXCEPT ![o] = a[1]]
         /\ confd' = IF t \in Autos /\ a[2] # "error"
                     THEN [confd EXCEPT ![r.inst][o] = TRUE] ELSE confd
         /\ CASE a[2] = "ok" \/ (a[2] = "error" /\ ~ConfirmBeforeSend) ->
                   /\ Become(t, [r EXCEPT !.pc = "take", !.rConf = (a[2] = "ok")])
                   /\ UNCHANGED <<lock, cl>>
              [] a[2] = "already" /\ t \in Calls -> Finish(t, "already", {})
              [] a[2] = "error" /\ ConfirmBeforeSend /\ t \in Calls -> Finish(t, "fail", {})
              [] OTHER -> EmptyRound(t) /\ UNCHANGED <<lock, cl>>
      BY <1>5 DEF ConfirmAsk
    <2>2. platform[o] \in PlatformStates /\ platform'[o] = a[1]
      BY <1>1, <2>1 DEF TypeInv, StoreOK
    <2>3. a[2] \in {"ok", "already", "error"} /\ (a[2] # "error" => platform'[o] = "shipped")
      BY <2>1, <2>2 DEF Answers, PlatformStates
    <2>4. ~onlySend
      BY <1>5 DEF ConfirmAsk
    <2>5. \/ UNCHANGED confd
          \/ platform'[o] = "shipped" /\ confd' = [confd EXCEPT ![r.inst][o] = TRUE]
      <3>1. confd' = IF t \in Autos /\ a[2] # "error"
                     THEN [confd EXCEPT ![r.inst][o] = TRUE] ELSE confd
        BY <2>1, Zenon
      <3> QED BY <2>3, <3>1
    <2>6. CASE a[2] = "ok" \/ (a[2] = "error" /\ ~ConfirmBeforeSend)
      <3> DEFINE b == (a[2] = "ok")
      <3>1. Become(t, [r EXCEPT !.pc = "take", !.rConf = b]) /\ UNCHANGED <<lock, cl>>
        BY <2>1, <2>6
      <3>2. b \in BOOLEAN /\ (b => platform'[o] = "shipped") /\ (~b => ~ConfirmBeforeSend)
        BY <2>3, <2>6
      <3> HIDE DEF b
      <3>3. th'[t] = [r EXCEPT !.pc = "take", !.rConf = b] /\ Only(t)
        BY <3>1, BecomeAt DEF TypeInv, Only
      <3> QED BY <1>1, <2>4, <2>5, <3>1, <3>2, <3>3 DEF Flow, Kept
    <2>7. CASE ~(a[2] = "ok" \/ (a[2] = "error" /\ ~ConfirmBeforeSend))
      <3>1. \/ a[2] = "already" /\ t \in Calls /\ Finish(t, "already", {})
            \/ t \in Calls /\ Finish(t, "fail", {})
            \/ t \in Autos /\ EmptyRound(t) /\ UNCHANGED <<lock, cl>>
        BY <1>1, <2>1, <2>3, <2>7
      <3> QED BY <1>1, <2>3, <2>5, <3>1
    <2> QED BY <2>6, <2>7
  <1> QED BY <1>2, <1>3, <1>4, <1>5 DEF Confirm

LEMMA CallerCallAt ==
  ASSUME TypeInv, NEW c \in Callers, CallerCall(c)
  PROVE  /\ cl[c].pc = "call" /\ \A d \in Callers : d # c => cl'[d] = cl[d]
         /\ \E t \in Calls :
              /\ Only(t) /\ th[t].pc = "idle"
              /\ th'[t] = [Idle EXCEPT !.pc = "lock", !.ord = cl[c].ord, !.inst = gen]
              /\ cl'[c].pc = "wait" /\ cl'[c].req = t /\ cl'[c].ord = cl[c].ord
              /\ cl'[c].reply = cl[c].reply /\ cl'[c].redis = cl[c].redis
  <1>1. cl[c] \in Caller /\ cl[c].pc = "call"
    BY DEF CallerCall, CallerAt, TypeInv, CallersOK
  <1>2. PICK t \in Calls :
         /\ At(t, "idle")
         /\ Become(t, [Idle EXCEPT !.pc = "lock", !.ord = cl[c].ord, !.inst = gen])
         /\ CallerBecome(c, [cl[c] EXCEPT !.pc = "wait", !.req = t, !.tries = @ + 1])
    BY DEF CallerCall
  <1>3. th'[t] = [Idle EXCEPT !.pc = "lock", !.ord = cl[c].ord, !.inst = gen] /\ Only(t)
    BY <1>2, BecomeAt DEF TypeInv, Only
  <1>4. /\ cl'[c] = [cl[c] EXCEPT !.pc = "wait", !.req = t, !.tries = @ + 1]
        /\ \A d \in Callers : d # c => cl'[d] = cl[d]
    BY <1>2, CallerBecomeAt DEF TypeInv
  <1>5. cl'[c].pc = "wait" /\ cl'[c].req = t /\ cl'[c].ord = cl[c].ord
        /\ cl'[c].reply = cl[c].reply /\ cl'[c].redis = cl[c].redis
    BY <1>1, <1>4 DEF Caller
  <1> QED BY <1>1, <1>2, <1>3, <1>4, <1>5 DEF At

-----------------------------------------------------------------------------
(***************************************************************************)
(* A flow or a caller that is idle remembers nothing, and a request that   *)
(* is waited for is running, for one caller, on the order it was sent for. *)
(***************************************************************************)
Links ==
  /\ \A t \in Threads : th[t].pc = "idle" => th[t] = Idle
  /\ \A c \in Callers : cl[c].pc = "idle" => cl[c] = Waiting
  /\ \A c \in Callers : cl[c].req # Nobody =>
        th[cl[c].req].pc # "idle" /\ th[cl[c].req].ord = cl[c].ord
  /\ \A c, d \in Callers : cl[c].req # Nobody /\ cl[c].req = cl[d].req => c = d

\* The step of a flow t: it goes on, unseen by the callers, or it answers.
GoesOn(t) ==
  /\ Only(t) /\ UNCHANGED cl
  /\ \/ UNCHANGED th
     \/ /\ th'[t].pc # "idle"
        /\ t \in Autos \/ (th[t].pc # "idle" /\ th'[t].ord = th[t].ord)
     \/ t \in Autos /\ th'[t] = Idle

Ends(t) ==
  /\ Only(t)
  /\ \/ t \in Autos /\ th'[t].pc = "free" /\ Same(th[t], th'[t])
     \/ th'[t] = Idle
  /\ \E kind, codes : Answer(t, kind, codes)

LEMMA FinishEnds ==
  ASSUME TypeInv, NEW t \in Threads, NEW kind, NEW codes, Finish(t, kind, codes)
  PROVE  Ends(t)
  <1>1. th[t] \in Flow
    BY DEF TypeInv, FlowsOK
  <1>2. LET n == [th[t] EXCEPT !.pc = "free"] IN n.pc = "free" /\ Same(th[t], n)
    BY <1>1 DEF Flow, Same
  <1> QED BY <1>2, FinishAt DEF Ends, Only, TypeInv

LEMMA EmptyRoundGoesOn ==
  ASSUME TypeInv, NEW t \in Autos, EmptyRound(t), UNCHANGED cl
  PROVE  GoesOn(t)
  <1>1. th'[t].pc \in {"enter", "mark", "leave"} /\ Only(t)
    BY EmptyRoundAt DEF TypeInv, Only
  <1> QED BY <1>1 DEF GoesOn

LEMMA FlowStep ==
  ASSUME TypeInv, NEW t \in Threads,
         \/ t \in Autos /\ ((\E o \in Orders : AutoStart(t, o)) \/ AutoStep(t))
         \/ t \in Calls /\ CallCheck(t)
         \/ SharedStep(t)
  PROVE  GoesOn(t) \/ Ends(t)
  <1>0. th[t] \in Flow
    BY DEF TypeInv, FlowsOK
  <1>1. ASSUME t \in Autos, NEW o \in Orders, AutoStart(t, o)
        PROVE  GoesOn(t)
    <2>1. UNCHANGED cl
      BY <1>1 DEF AutoStart
    <2> QED BY <1>1, <2>1, AutoStartAt DEF GoesOn
  <1>2. CASE t \in Autos /\ AutoRedis(t)
    <2>1. UNCHANGED cl
      BY <1>2 DEF AutoRedis
    <2> QED BY <1>2, <2>1, AutoRedisAt DEF GoesOn
  <1>3. CASE t \in Autos /\ AutoCheck(t)
    BY <1>3, AutoCheckAt, FinishEnds DEF GoesOn
  <1>4. CASE t \in Autos /\ AutoEnter(t)
    <2>1. UNCHANGED cl
      BY <1>4 DEF AutoEnter
    <2> QED BY <1>4, <2>1, AutoEnterAt DEF GoesOn
  <1>5. CASE t \in Autos /\ AutoMark(t)
    <2>1. UNCHANGED cl
      BY <1>5 DEF AutoMark
    <2> QED BY <1>5, <2>1, AutoMarkAt DEF GoesOn
  <1>6. CASE t \in Autos /\ AutoFree(t)
    BY <1>6, BecomeAt DEF AutoFree, GoesOn, TypeInv, Only
  <1>7. CASE t \in Calls /\ CallCheck(t)
    BY <1>7, CallCheckAt, FinishEnds DEF GoesOn
  <1>8. CASE Acquire(t)
    BY <1>8, AcquireAt DEF GoesOn, Ends, Same
  <1>9. CASE Confirm(t)
    BY <1>9, ConfirmAt, FinishEnds, EmptyRoundGoesOn DEF GoesOn, Kept
  <1>10. CASE Take(t)
    <2>1. th[t].pc = "take"
      BY <1>10 DEF Take, At
    <2>2. CASE Goto(t, "post") /\ UNCHANGED cl
      BY <2>1, <2>2, GotoAt DEF GoesOn, Same, TypeInv
    <2>3. CASE th'[t].pc \in {"enter", "mark", "send"} /\ th'[t].ord = th[t].ord /\ Only(t) /\ UNCHANGED cl
      BY <2>1, <2>3 DEF GoesOn
    <2> QED BY <1>10, <2>2, <2>3, TakeAt, FinishEnds, EmptyRoundGoesOn DEF Kept, Only, TypeInv
  <1>11. CASE Send(t)
    <2>1. th[t].pc = "send" /\ UNCHANGED cl
      BY <1>11 DEF Send, At
    <2>2. th'[t].pc # "idle" /\ th'[t].ord = th[t].ord /\ Only(t)
      BY <1>11, SendAt DEF Kept, Only, TypeInv
    <2> QED BY <2>1, <2>2 DEF GoesOn
  <1>12. CASE Post(t)
    <2>1. th[t].pc = "post" /\ UNCHANGED cl
      BY <1>12 DEF Post, At
    <2> QED BY <1>12, <2>1, PostAt DEF GoesOn, Kept, Only
  <1>13. CASE Write(t)
    <2>1. th[t].pc = "write" /\ UNCHANGED cl
      BY <1>13 DEF Write, At
    <2> QED BY <1>13, <2>1, WriteAt DEF GoesOn, Only
  <1>14. CASE Leave(t)
    BY <1>14, FinishEnds DEF Leave
  <1>15. CASE t \in Autos /\ AutoStep(t)
    BY <1>2, <1>3, <1>4, <1>5, <1>6, <1>15 DEF AutoStep
  <1>16. CASE SharedStep(t)
    BY <1>8, <1>9, <1>10, <1>11, <1>12, <1>13, <1>14, <1>16 DEF SharedStep
  <1> QED BY <1>1, <1>7, <1>15, <1>16

LEMMA LinksFlow ==
  ASSUME TypeInv, Links, NEW t \in Threads, GoesOn(t) \/ Ends(t)
  PROVE  Links'
  <1>0. \A c \in Callers : cl[c].req # Nobody => cl[c].req \in Calls /\ cl[c].req \notin Autos
    BY DeliveryAssumption DEF TypeInv, CallersOK, Caller
  <1>1. CASE GoesOn(t)
    <2>1. \A u \in Threads : th'[u].pc = "idle" => th'[u] = Idle
      BY <1>1 DEF GoesOn, Only, Links
    <2>2. \A c \in Callers : cl[c].req # Nobody =>
              th'[cl[c].req].pc # "idle" /\ th'[cl[c].req].ord = cl[c].ord
      BY <1>0, <1>1 DEF GoesOn, Only, Links
    <2> QED BY <1>1, <2>1, <2>2 DEF GoesOn, Links
  <1>2. CASE Ends(t)
    <2>1. PICK kind, codes : Answer(t, kind, codes)
      BY <1>2 DEF Ends
    <2>2. \A c \in Callers :
           \/ cl[c].req = t /\ cl'[c].req = Nobody /\ cl'[c].pc = "done"
           \/ cl[c].req # t /\ cl'[c] = cl[c]
      BY <2>1, AnswerAt DEF TypeInv
    <2>3. \A u \in Threads : th'[u].pc = "idle" => th'[u] = Idle
      BY <1>2 DEF Ends, Only, Links
    <2>4. \A c \in Callers : cl'[c].pc = "idle" => cl'[c] = Waiting
      BY <2>2 DEF Links
    <2>5. \A c \in Callers : cl'[c].req # Nobody =>
              th'[cl'[c].req].pc # "idle" /\ th'[cl'[c].req].ord = cl'[c].ord
      BY <1>0, <1>2, <2>2 DEF Ends, Only, Links
    <2>6. \A c, d \in Callers : cl'[c].req # Nobody /\ cl'[c].req = cl'[d].req => c = d
      BY <2>2 DEF Links
    <2> QED BY <2>3, <2>4, <2>5, <2>6 DEF Links
  <1> QED BY <1>1, <1>2

LEMMA WaitingIdle == Waiting.pc = "idle" /\ Waiting.req = Nobody /\ Waiting.reply = "none"
  BY DEF Waiting

\* A caller's step that is not the sending of a request.
CallerGoesOn(c) ==
  /\ UNCHANGED th /\ \A d \in Callers : d # c => cl'[d] = cl[d]
  /\ \/ cl'[c] = Waiting
     \/ /\ cl'[c].pc # "idle" /\ cl'[c].req = Nobody
        /\ cl[c].pc # "idle" => cl'[c].ord = cl[c].ord

LEMMA CallerGotoAt ==
  ASSUME TypeInv, NEW c \in Callers, NEW pc, CallerGoto(c, pc)
  PROVE  LET r == cl[c] n == cl'[c] IN
         /\ \A d \in Callers : d # c => cl'[d] = cl[d]
         /\ n.pc = pc /\ n.ord = r.ord /\ n.req = r.req /\ n.redis = r.redis
         /\ n.reply = r.reply /\ n.codes = r.codes
  <1>1. cl[c] \in Caller
    BY DEF TypeInv, CallersOK
  <1> QED BY <1>1, CallerBecomeAt DEF CallerGoto, Caller, TypeInv

LEMMA BeginAt ==
  ASSUME TypeInv, NEW c \in Callers, NEW o, Begin(c, o)
  PROVE  LET n == cl'[c] IN
         /\ \A d \in Callers : d # c => cl'[d] = cl[d]
         /\ n.pc = "redis" /\ n.ord = o /\ n.req = Nobody /\ n.redis = FALSE
         /\ n.reply = "none"
  <1>1. /\ cl'[c] = [Waiting EXCEPT !.pc = "redis", !.ord = o]
        /\ \A d \in Callers : d # c => cl'[d] = cl[d]
    BY CallerBecomeAt DEF Begin, TypeInv
  <1> QED BY <1>1 DEF Waiting

LEMMA CallerRedisAt ==
  ASSUME TypeInv, NEW c \in Callers, CallerRedis(c)
  PROVE  LET r == cl[c] n == cl'[c] o == r.ord IN
         /\ UNCHANGED th /\ \A d \in Callers : d # c => cl'[d] = cl[d]
         /\ r.pc = "redis" /\ o \in Orders
         /\ \/ n = Waiting /\ (~RedisFaults => UNCHANGED redis)
            \/ /\ n.pc \in {"ship", "call"} /\ n.ord = o /\ n.req = Nobody
               /\ n.reply = r.reply
               /\ ~RedisFaults => /\ n.redis = TRUE /\ redis[o] = Nobody
                                  /\ redis' = [redis EXCEPT ![o] = c]
  <1> DEFINE o    == cl[c].ord
             next == IF c \in Scheds THEN "ship" ELSE "call"
  <1>1. cl[c] \in Caller /\ cl[c].pc = "redis" /\ o \in Orders /\ cl[c].req = Nobody
    BY DEF CallerRedis, CallerAt, TypeInv, CallersOK, CallerOK
  <1>2. PICK a \in LockResults(c, o) :
         /\ redis' = [redis EXCEPT ![o] = a[1]]
         /\ CallerBecome(c, IF a[2] = "busy" THEN Waiting
                            ELSE [cl[c] EXCEPT !.pc = next, !.redis = (a[2] = "got")])
    BY DEF CallerRedis
  <1>3. ~RedisFaults =>
           \/ a[2] = "got" /\ a[1] = c /\ redis[o] = Nobody
           \/ a[2] = "busy" /\ a[1] = redis[o]
    BY <1>2 DEF LockResults
  <1>4. UNCHANGED th
    BY DEF CallerRedis
  <1>5. CASE a[2] = "busy"
    <2>1. cl'[c] = Waiting /\ \A d \in Callers : d # c => cl'[d] = cl[d]
      BY <1>2, <1>5, CallerBecomeAt DEF TypeInv
    <2>2. ~RedisFaults => UNCHANGED redis
      BY <1>1, <1>2, <1>3, <1>5 DEF TypeInv, StoreOK
    <2> QED BY <1>1, <1>4, <2>1, <2>2
  <1>6. CASE a[2] # "busy"
    <2> DEFINE b == (a[2] = "got")
    <2>1. /\ cl'[c] = [cl[c] EXCEPT !.pc = next, !.redis = b]
          /\ \A d \in Callers : d # c => cl'[d] = cl[d]
      BY <1>2, <1>6, CallerBecomeAt DEF TypeInv
    <2>2. ~RedisFaults => b = TRUE /\ a[1] = c /\ redis[o] = Nobody
      BY <1>3, <1>6
    <2>3. next \in {"ship", "call"}
      OBVIOUS
    <2> HIDE DEF b, next
    <2> QED BY <1>1, <1>2, <1>4, <2>1, <2>2, <2>3 DEF Caller
  <1> QED BY <1>5, <1>6

LEMMA CallerTimeoutAt ==
  ASSUME TypeInv, NEW c \in Callers, CallerTimeout(c)
  PROVE  LET r == cl[c] n == cl'[c] IN
         /\ UNCHANGED th /\ \A d \in Callers : d # c => cl'[d] = cl[d]
         /\ r.pc = "wait" /\ n.pc \in {"call", "free"} /\ n.ord = r.ord /\ n.req = Nobody
         /\ n.reply = r.reply /\ n.redis = r.redis
  <1> DEFINE pc == IF cl[c].tries < MaxTries THEN "call" ELSE "free"
  <1>1. cl[c] \in Caller /\ cl[c].pc = "wait" /\ UNCHANGED th
    BY DEF CallerTimeout, CallerAt, TypeInv, CallersOK
  <1>2. cl'[c] = [cl[c] EXCEPT !.req = Nobody, !.pc = pc]
        /\ \A d \in Callers : d # c => cl'[d] = cl[d]
    BY CallerBecomeAt DEF CallerTimeout, TypeInv
  <1>3. pc \in {"call", "free"}
    OBVIOUS
  <1> HIDE DEF pc
  <1> QED BY <1>1, <1>2, <1>3 DEF Caller

LEMMA CallerFreeAt ==
  ASSUME TypeInv, NEW c \in Callers, CallerFree(c)
  PROVE  /\ UNCHANGED th /\ \A d \in Callers : d # c => cl'[d] = cl[d]
         /\ cl[c].pc = "free" /\ cl'[c] = Waiting
  BY CallerBecomeAt DEF CallerFree, CallerAt, TypeInv

LEMMA CallerStepGoesOn ==
  ASSUME TypeInv, NEW c \in Callers,
         \/ CallerStep(c) /\ ~CallerCall(c)
         \/ c \in Scheds /\ ((\E o \in Orders : SchedSnapshot(c, o)) \/ SchedCanShip(c))
         \/ c \in Manuals /\ \E o \in Orders : ManualStart(c, o)
  PROVE  CallerGoesOn(c)
  <1>1. cl[c].pc # "wait" => cl[c].req = Nobody
    BY DEF TypeInv, CallersOK, CallerOK
  <1>2. CASE CallerRedis(c)
    BY <1>2, CallerRedisAt DEF CallerGoesOn
  <1>3. CASE CallerTimeout(c)
    BY <1>3, CallerTimeoutAt DEF CallerGoesOn
  <1>4. CASE CallerDone(c)
    BY <1>1, <1>4, CallerGotoAt DEF CallerDone, CallerAt, CallerGoesOn
  <1>5. CASE CallerFree(c)
    BY <1>5, CallerFreeAt DEF CallerGoesOn
  <1>6. ASSUME NEW o \in Orders, SchedSnapshot(c, o) \/ ManualStart(c, o)
        PROVE  CallerGoesOn(c)
    BY <1>6, BeginAt DEF SchedSnapshot, ManualStart, CallerAt, CallerGoesOn
  <1>7. CASE SchedCanShip(c)
    BY <1>1, <1>7, CallerGotoAt DEF SchedCanShip, CallerAt, CallerGoesOn
  <1> QED BY <1>2, <1>3, <1>4, <1>5, <1>6, <1>7 DEF CallerStep

LEMMA LinksCaller ==
  ASSUME TypeInv, Links, NEW c \in Callers, CallerGoesOn(c)
  PROVE  Links'
  BY WaitingIdle DEF Links, CallerGoesOn

LEMMA LinksCall ==
  ASSUME TypeInv, Links, NEW c \in Callers, CallerCall(c)
  PROVE  Links'
  <1>1. \A d \in Callers : d # c => cl'[d] = cl[d]
    BY CallerCallAt
  <1>2. PICK t \in Calls :
          /\ Only(t) /\ th[t].pc = "idle"
          /\ th'[t] = [Idle EXCEPT !.pc = "lock", !.ord = cl[c].ord, !.inst = gen]
          /\ cl'[c].pc = "wait" /\ cl'[c].req = t /\ cl'[c].ord = cl[c].ord
    BY CallerCallAt
  <1>3. th'[t].pc = "lock" /\ th'[t].ord = cl[c].ord
    BY <1>2 DEF Idle
  <1>4. \A d \in Callers : cl[d].req # t /\ cl[d].req \in Threads \cup {Nobody}
    BY <1>2, DeliveryAssumption DEF Links, TypeInv, CallersOK, Caller
  <1>5. \A u \in Threads : th'[u].pc = "idle" => th'[u] = Idle
    BY <1>2, <1>3 DEF Links, Only
  <1>6. \A d \in Callers : cl'[d].pc = "idle" => cl'[d] = Waiting
    BY <1>1, <1>2 DEF Links
  <1>7. \A d \in Callers : cl'[d].req # Nobody =>
            th'[cl'[d].req].pc # "idle" /\ th'[cl'[d].req].ord = cl'[d].ord
    <2>1. ASSUME NEW d \in Callers, cl'[d].req # Nobody
          PROVE  th'[cl'[d].req].pc # "idle" /\ th'[cl'[d].req].ord = cl'[d].ord
      <3>1. CASE d = c
        BY <1>2, <1>3, <3>1
      <3>2. CASE d # c
        <4>1. cl'[d] = cl[d] /\ cl[d].req \in Threads /\ cl[d].req # t
          BY <1>1, <1>4, <2>1, <3>2
        <4> QED BY <1>2, <2>1, <4>1 DEF Links, Only
      <3> QED BY <3>1, <3>2
    <2> QED BY <2>1
  <1>8. \A d, e \in Callers : cl'[d].req # Nobody /\ cl'[d].req = cl'[e].req => d = e
    BY <1>1, <1>2, <1>4 DEF Links
  <1> QED BY <1>5, <1>6, <1>7, <1>8 DEF Links

LEMMA CrashAt ==
  ASSUME TypeInv, Crash
  PROVE  /\ Crashes /\ \A t \in Threads : th'[t] = Idle
         /\ \A c \in Callers :
              /\ cl'[c].pc = cl[c].pc /\ cl'[c].ord = cl[c].ord /\ cl'[c].req = Nobody
              /\ cl'[c].reply = cl[c].reply /\ cl'[c].redis = cl[c].redis
              /\ cl'[c].codes = cl[c].codes /\ (cl[c].req = Nobody => cl'[c] = cl[c])
  BY DEF Crash, TypeInv, CallersOK, Caller

LEMMA LinksNext ==
  ASSUME TypeInv, Links, [Next]_vars
  PROVE  Links'
  <1>1. CASE UNCHANGED <<th, cl>>
    BY <1>1 DEF Links
  <1>2. ASSUME NEW t \in Autos, (\E o \in Orders : AutoStart(t, o)) \/ AutoStep(t)
        PROVE  Links'
    BY <1>2, FlowStep, LinksFlow
  <1>3. ASSUME NEW t \in Calls, CallCheck(t)
        PROVE  Links'
    BY <1>3, FlowStep, LinksFlow
  <1>4. ASSUME NEW t \in Threads, SharedStep(t)
        PROVE  Links'
    BY <1>4, FlowStep, LinksFlow
  <1>5. ASSUME NEW c \in Callers, CallerStep(c)
        PROVE  Links'
    BY <1>5, CallerStepGoesOn, LinksCaller, LinksCall
  <1>6. ASSUME NEW s \in Scheds, (\E o \in Orders : SchedSnapshot(s, o)) \/ SchedCanShip(s)
        PROVE  Links'
    BY <1>6, CallerStepGoesOn, LinksCaller
  <1>7. ASSUME NEW m \in Manuals, NEW o \in Orders, ManualStart(m, o)
        PROVE  Links'
    BY <1>7, CallerStepGoesOn, LinksCaller
  <1>8. CASE Crash
    <2>1. \A c \in Callers : cl[c].pc = "idle" => cl[c].req = Nobody
      BY DEF TypeInv, CallersOK, CallerOK
    <2> QED BY <1>8, <2>1, CrashAt DEF Links
  <1>9. CASE Environment
    BY <1>1, <1>8, <1>9 DEF Environment, Toggle, DayEnds, Restart, Elsewhere, SyncRead, SyncWrite,
          RedisExpire, CoolExpire, ConfirmedExpire, HoldExpire
  <1>10. CASE UNCHANGED vars
    BY <1>1, <1>10 DEF vars
  <1> QED BY <1>2, <1>3, <1>4, <1>5, <1>6, <1>7, <1>9, <1>10 DEF Next

LEMMA LinksInit == Init => Links
  BY WaitingIdle DEF Init, Links

-----------------------------------------------------------------------------
(***************************************************************************)
(* The gate of the confirmation.  A shipment is remembered in many places  *)
(* (the instance's memory, the status, what the synchronisation has read,  *)
(* the flow's flags, the answer of a call), and a flow is let through by   *)
(* any of them: each must be true of the platform, and stay true while the *)
(* flow goes on.                                                           *)
(***************************************************************************)
FlowGate(r, p) ==
  /\ r.conf \/ r.rConf => p[r.ord] = "shipped"
  /\ r.pc \in {"redis", "lock", "check"} => r.got = {}
  /\ r.pc = "take" => r.closed \/ r.only \/ r.rOnly \/ p[r.ord] = "shipped"
  /\ r.got # {} => r.closed \/ r.only \/ p[r.ord] = "shipped"
  /\ r.pc \in {"mark", "send", "post", "write"} => r.got # {}
  /\ r.reply \in {"normal", "already"} => p[r.ord] = "shipped"

StoreGate ==
  /\ \A g \in Gens, o \in Orders : confd[g][o] => platform[o] = "shipped"
  /\ \A o \in Orders : status[o] \in {"shipped", "completed"} \/ snap[o] = "shipped" =>
                        platform[o] = "shipped"

FlowsGate   == \A t \in Threads : FlowGate(th[t], platform)
CallersGate == \A c \in Callers : cl[c].reply \in {"normal", "already"} =>
                                     platform[cl[c].ord] = "shipped"

GateInv == StoreGate /\ FlowsGate /\ CallersGate

LEMMA IdleGate == \A p : FlowGate(Idle, p)
  BY DEF FlowGate, Idle

LEMMA GateKept ==
  ASSUME TypeInv, Links, PlatformFinal, NEW r \in Flow, r.pc = "idle" => r = Idle,
         r.pc # "idle" => r.ord \in Orders, FlowGate(r, platform)
  PROVE  FlowGate(r, platform')
  <1>1. CASE r = Idle
    BY <1>1, IdleGate
  <1>2. CASE r.ord \in Orders
    <2>1. platform[r.ord] = "shipped" => platform'[r.ord] = "shipped"
      BY <1>2 DEF PlatformFinal
    <2> QED BY <2>1 DEF FlowGate
  <1> QED BY <1>1, <1>2

LEMMA GateOthers ==
  ASSUME TypeInv, Links, PlatformFinal, FlowsGate, NEW t \in Threads, Only(t),
         FlowGate(th'[t], platform')
  PROVE  FlowsGate'
  <1>1. ASSUME NEW u \in Threads PROVE FlowGate(th'[u], platform')
    <2>1. CASE u # t
      <3>1. /\ th[u] \in Flow /\ (th[u].pc = "idle" => th[u] = Idle)
            /\ th[u].pc # "idle" => th[u].ord \in Orders
        BY DEF TypeInv, FlowsOK, FlowOK, Links
      <3>2. FlowGate(th[u], platform')
        BY <3>1, GateKept DEF FlowsGate
      <3> QED BY <2>1, <3>2 DEF Only
    <2> QED BY <2>1
  <1>2. FlowsGate' <=> \A u \in Threads : FlowGate(th'[u], platform')
    BY DEF FlowsGate, FlowGate
  <1> QED BY <1>1, <1>2

LEMMA GateFlowsKept ==
  ASSUME TypeInv, Links, PlatformFinal, FlowsGate, UNCHANGED th
  PROVE  FlowsGate'
  <1>1. ASSUME NEW u \in Threads PROVE FlowGate(th'[u], platform')
    <2>1. /\ th[u] \in Flow /\ (th[u].pc = "idle" => th[u] = Idle)
          /\ th[u].pc # "idle" => th[u].ord \in Orders
      BY DEF TypeInv, FlowsOK, FlowOK, Links
    <2> QED BY <2>1, GateKept DEF FlowsGate
  <1>2. FlowsGate' <=> \A u \in Threads : FlowGate(th'[u], platform')
    BY DEF FlowsGate, FlowGate
  <1> QED BY <1>1, <1>2

LEMMA CallerShipped ==
  ASSUME TypeInv, Links, PlatformFinal, CallersGate, NEW c \in Callers,
         cl[c].reply \in {"normal", "already"}
  PROVE  cl[c].ord \in Orders /\ platform[cl[c].ord] = "shipped" /\ platform'[cl[c].ord] = "shipped"
  <1>1. cl[c].pc # "idle"
    BY WaitingIdle DEF Links
  <1>2. cl[c].ord \in Orders
    BY <1>1 DEF TypeInv, CallersOK, CallerOK
  <1> QED BY <1>2 DEF CallersGate, PlatformFinal

\* An answer that says the order is shipped says the truth.
Honest(t) ==
  \E kind, codes : /\ Answer(t, kind, codes)
                   /\ kind \in {"normal", "already"} => platform'[th[t].ord] = "shipped"

LEMMA GateCallers ==
  ASSUME TypeInv, Links, PlatformFinal, CallersGate,
         UNCHANGED cl \/ \E t \in Threads : Honest(t)
  PROVE  CallersGate'
  <1>1. CASE UNCHANGED cl
    BY <1>1, CallerShipped DEF CallersGate
  <1>2. ASSUME NEW t \in Threads, NEW kind, NEW codes, Answer(t, kind, codes),
               kind \in {"normal", "already"} => platform'[th[t].ord] = "shipped"
        PROVE  CallersGate'
    <2>1. \A c \in Callers :
           \/ cl[c].req = t /\ cl'[c].reply = kind /\ cl'[c].ord = cl[c].ord
           \/ cl'[c] = cl[c]
      BY <1>2, AnswerAt DEF TypeInv
    <2>2. t # Nobody
      BY DeliveryAssumption
    <2>3. \A c \in Callers : cl[c].req = t => cl[c].ord = th[t].ord
      BY <2>2 DEF Links
    <2> QED BY <1>2, <2>1, <2>3, CallerShipped DEF CallersGate
  <1> QED BY <1>1, <1>2 DEF Honest

LEMMA GateStoreKept ==
  ASSUME TypeInv, PlatformFinal, StoreGate, UNCHANGED <<status, snap>>,
         \/ UNCHANGED confd
         \/ \E g \in Gens, o \in Orders :
              platform'[o] = "shipped" /\ confd' = [confd EXCEPT ![g][o] = TRUE]
  PROVE  StoreGate'
  <1>1. \A o \in Orders : status'[o] \in {"shipped", "completed"} \/ snap'[o] = "shipped" =>
                            platform'[o] = "shipped"
    BY DEF StoreGate, PlatformFinal
  <1>2. \A g \in Gens, o \in Orders : confd'[g][o] => platform'[o] = "shipped"
    <2>1. CASE UNCHANGED confd
      BY <2>1 DEF StoreGate, PlatformFinal
    <2>2. ASSUME NEW g \in Gens, NEW o \in Orders, platform'[o] = "shipped",
                 confd' = [confd EXCEPT ![g][o] = TRUE]
          PROVE  \A h \in Gens, q \in Orders : confd'[h][q] => platform'[q] = "shipped"
      <3>1. confd \in [Gens -> [Orders -> BOOLEAN]]
        BY DEF TypeInv, StoreOK
      <3>2. ASSUME NEW h \in Gens, NEW q \in Orders, confd'[h][q]
            PROVE  platform'[q] = "shipped"
        <4>1. CASE q = o
          BY <2>2, <4>1
        <4>2. CASE q # o
          <5>1. confd'[h][q] = confd[h][q]
            BY <2>2, <3>1, <4>2
          <5> QED BY <3>2, <5>1 DEF StoreGate, PlatformFinal
        <4> QED BY <4>1, <4>2
      <3> QED BY <3>2
    <2> QED BY <2>1, <2>2
  <1> QED BY <1>1, <1>2 DEF StoreGate

\* What a step of the flow t has to show.
GateStep(t) ==
  Only(t) /\ FlowGate(th'[t], platform') /\ StoreGate' /\ (UNCHANGED cl \/ Honest(t))

LEMMA GateStepKeeps ==
  ASSUME TypeInv, Links, PlatformFinal, GateInv, NEW t \in Threads, GateStep(t)
  PROVE  GateInv'
  BY GateOthers, GateCallers DEF GateInv, GateStep

LEMMA GateFinish ==
  ASSUME TypeInv, Links, PlatformFinal, GateInv, NEW t \in Threads, th[t].pc # "idle",
         NEW kind, NEW codes, Finish(t, kind, codes),
         kind \in {"normal", "already"} => platform'[th[t].ord] = "shipped"
  PROVE  Only(t) /\ FlowGate(th'[t], platform') /\ Honest(t)
  <1>1. th[t] \in Flow /\ th[t].ord \in Orders
    BY DEF TypeInv, FlowsOK, FlowOK
  <1>2. FlowGate(th[t], platform')
    BY <1>1, GateKept DEF GateInv, FlowsGate
  <1>3. FlowGate([th[t] EXCEPT !.pc = "free"], platform')
    BY <1>1, <1>2 DEF FlowGate, Flow
  <1> QED BY <1>3, IdleGate, FinishAt DEF Only, Honest, TypeInv

LEMMA GateEmptyRound ==
  ASSUME TypeInv, Links, PlatformFinal, GateInv, NEW t \in Autos, th[t].pc # "idle",
         EmptyRound(t)
  PROVE  Only(t) /\ FlowGate(th'[t], platform')
  <1>1. th[t] \in Flow /\ th[t].ord \in Orders
    BY DEF TypeInv, FlowsOK, FlowOK
  <1>2. FlowGate(th[t], platform')
    BY <1>1, GateKept DEF GateInv, FlowsGate
  <1>3. LET r == th[t] n == th'[t] IN
        /\ Only(t) /\ Kept(r, n) /\ n.got = r.got /\ n.only = r.only /\ n.conf = r.conf
        /\ n.rConf => r.rConf
        /\ n.pc \in {"enter", "mark", "leave"} /\ (n.pc = "mark" => r.got # {})
    BY EmptyRoundAt DEF TypeInv, Only
  <1> HIDE DEF Only
  <1> QED BY <1>2, <1>3 DEF FlowGate, Kept

\* Flows that only move on: their record says no more than it did.
LEMMA GateMoves ==
  ASSUME TypeInv, Links, PlatformFinal, GateInv, NEW t \in Threads, th[t].pc # "idle",
         Only(t), Same(th[t], th'[t]),
         \/ th'[t].pc \in {"lock", "check", "free"} /\ th[t].pc \in {"redis", "lock"}
         \/ th'[t].pc \in {"enter", "free", "leave"}
         \/ th'[t].pc \in {"send", "post"} /\ th[t].got # {}
  PROVE  FlowGate(th'[t], platform')
  <1>1. th[t] \in Flow /\ th[t].ord \in Orders
    BY DEF TypeInv, FlowsOK, FlowOK
  <1>2. FlowGate(th[t], platform')
    BY <1>1, GateKept DEF GateInv, FlowsGate
  <1> QED BY <1>2 DEF FlowGate, Same

LEMMA GateAuto ==
  ASSUME TypeInv, Links, PlatformFinal, GateInv, NEW t \in Autos,
         (\E o \in Orders : AutoStart(t, o)) \/ AutoStep(t)
  PROVE  GateStep(t)
  <1>1. th[t] \in Flow /\ (th[t].pc # "idle" => th[t].ord \in Orders)
    BY DEF TypeInv, FlowsOK, FlowOK
  <1>2. (th[t].pc # "idle" \/ UNCHANGED th) => FlowGate(th[t], platform')
    BY <1>1, GateKept DEF GateInv, FlowsGate, Links
  <1>3. StoreGate'
    <2>1. UNCHANGED <<status, snap, confd>>
      BY DEF AutoStart, AutoStep, AutoRedis, AutoCheck, AutoEnter, AutoMark, AutoFree,
             database, memory
    <2> QED BY <2>1, GateStoreKept DEF GateInv
  <1>4. ASSUME NEW o \in Orders, AutoStart(t, o)
        PROVE  GateStep(t)
    <2>1. UNCHANGED cl
      BY <1>4 DEF AutoStart
    <2>2. CASE UNCHANGED th
      BY <1>2, <1>3, <1>4, <2>1, <2>2 DEF GateStep, Only
    <2>3. CASE ~UNCHANGED th
      <3>1. LET n == th'[t] IN
               /\ Only(t) /\ n.pc = "redis" /\ n.conf = FALSE /\ n.rConf = FALSE
               /\ n.got = {} /\ n.reply = "none"
        BY <1>4, <2>3, AutoStartAt
      <3>2. FlowGate(th'[t], platform')
        BY <3>1 DEF FlowGate
      <3> QED BY <1>3, <2>1, <3>1, <3>2 DEF GateStep
    <2> QED BY <2>2, <2>3
  <1>5. CASE AutoRedis(t)
    <2>1. UNCHANGED cl
      BY <1>5 DEF AutoRedis
    <2> QED BY <1>3, <1>5, <2>1, AutoRedisAt, IdleGate, GateMoves DEF GateStep
  <1>6. CASE AutoCheck(t)
    BY <1>3, <1>6, AutoCheckAt, GateMoves, GateFinish DEF GateStep
  <1>7. CASE AutoEnter(t)
    <2>1. UNCHANGED cl /\ th[t].pc = "enter"
      BY <1>7 DEF AutoEnter, At
    <2>2. FlowGate(th'[t], platform')
      BY <1>2, <1>7, <2>1, AutoEnterAt DEF FlowGate, Kept
    <2> QED BY <1>3, <1>7, <2>1, <2>2, AutoEnterAt DEF GateStep
  <1>8. CASE AutoMark(t)
    <2>1. UNCHANGED cl /\ th[t].pc = "mark"
      BY <1>8 DEF AutoMark, At
    <2>2. th[t].got # {}
      BY <2>1 DEF GateInv, FlowsGate, FlowGate
    <2> QED BY <1>3, <1>8, <2>1, <2>2, AutoMarkAt, GateMoves DEF GateStep
  <1>9. CASE AutoFree(t)
    <2>1. UNCHANGED cl /\ th'[t] = Idle /\ Only(t)
      BY <1>9, BecomeAt DEF AutoFree, TypeInv, Only
    <2> QED BY <1>3, <2>1, IdleGate DEF GateStep
  <1> QED BY <1>4, <1>5, <1>6, <1>7, <1>8, <1>9 DEF AutoStep

LEMMA GateCallCheck ==
  ASSUME TypeInv, Links, PlatformFinal, GateInv, NEW t \in Calls, CallCheck(t)
  PROVE  GateStep(t)
  <1>1. th[t] \in Flow /\ th[t].ord \in Orders /\ th[t].pc = "check"
    BY DEF TypeInv, FlowsOK, FlowOK, CallCheck, At
  <1>2. FlowGate(th[t], platform')
    BY <1>1, GateKept DEF GateInv, FlowsGate
  <1>3. StoreGate'
    <2>1. UNCHANGED <<status, snap, confd>>
      BY DEF CallCheck, database
    <2> QED BY <2>1, GateStoreKept DEF GateInv
  <1>4. status[th[t].ord] \in {"shipped", "completed"} => platform'[th[t].ord] = "shipped"
    BY <1>1 DEF GateInv, StoreGate, PlatformFinal
  <1>5. CASE Finish(t, "alreadyOnly", content[th[t].ord]) \/ Finish(t, "fail", {})
    BY <1>1, <1>3, <1>5, GateFinish DEF GateStep
  <1>6. CASE status[th[t].ord] \in {"shipped", "completed"} /\ Finish(t, "already", {})
    BY <1>1, <1>3, <1>4, <1>6, GateFinish DEF GateStep
  <1>7. CASE ~(\/ Finish(t, "alreadyOnly", content[th[t].ord]) \/ Finish(t, "fail", {})
               \/ status[th[t].ord] \in {"shipped", "completed"} /\ Finish(t, "already", {}))
    <2>1. LET r == th[t] n == th'[t] IN
          /\ Only(t) /\ UNCHANGED cl /\ n.pc = "confirm"
          /\ n.ord = r.ord /\ n.reply = r.reply /\ n.got = r.got
          /\ n.conf = r.conf /\ n.rConf = r.rConf
      BY <1>7, CallCheckAt
    <2>2. FlowGate(th'[t], platform')
      BY <1>1, <1>2, <2>1 DEF FlowGate
    <2> QED BY <1>3, <2>1, <2>2 DEF GateStep
  <1> QED BY <1>5, <1>6, <1>7

LEMMA GateAcquire ==
  ASSUME TypeInv, Links, PlatformFinal, GateInv, NEW t \in Threads, Acquire(t)
  PROVE  GateStep(t)
  <1>1. StoreGate'
    <2>1. UNCHANGED <<status, snap, confd>>
      BY DEF Acquire, database
    <2> QED BY <2>1, GateStoreKept DEF GateInv
  <1>2. FlowGate(th'[t], platform')
    <2>1. /\ Only(t) /\ th[t].pc = "lock"
          /\ th'[t] = Idle \/ (Same(th[t], th'[t]) /\ th'[t].pc \in {"check", "free"})
      BY AcquireAt
    <2>2. CASE th'[t] = Idle
      BY <2>2, IdleGate
    <2>3. CASE Same(th[t], th'[t]) /\ th'[t].pc \in {"check", "free"}
      <3> HIDE DEF Only
      <3> QED BY <2>1, <2>3, GateMoves
    <2> QED BY <2>1, <2>2, <2>3
  <1>3. Only(t) /\ (UNCHANGED cl \/ Answer(t, "fail", {}))
    BY AcquireAt
  <1>4. UNCHANGED cl \/ Honest(t)
    BY <1>3 DEF Honest
  <1> QED BY <1>1, <1>2, <1>3, <1>4 DEF GateStep

LEMMA GateConfirm ==
  ASSUME TypeInv, Links, PlatformFinal, GateInv, ConfirmMode, NEW t \in Threads, Confirm(t)
  PROVE  GateStep(t)
  <1> DEFINE r == th[t]
             n == th'[t]
  <1>1. r \in Flow /\ r.ord \in Orders /\ r.inst \in Gens /\ r.pc = "confirm"
    BY ConfirmAt DEF TypeInv, FlowsOK
  <1>2. FlowGate(r, platform')
    BY <1>1, GateKept DEF GateInv, FlowsGate
  <1>3. StoreGate'
    <2>1. UNCHANGED <<status, snap>>
      BY DEF Confirm, ConfirmSkip, ConfirmRefused, ConfirmOnlySend, ConfirmAsk, database
    <2> QED BY <2>1, ConfirmAt, GateStoreKept DEF GateInv
  <1>4. autoConfirm = TRUE /\ ConfirmBeforeSend /\ ~SendBeforeConfirm
    BY DEF ConfirmMode, TypeInv, StoreOK
  <1>5. confd[r.inst][r.ord] => platform[r.ord] = "shipped" /\ platform'[r.ord] = "shipped"
    BY <1>1 DEF GateInv, StoreGate, PlatformFinal
  <1>6. CASE t \in Autos /\ EmptyRound(t) /\ UNCHANGED <<lock, cl>>
    BY <1>1, <1>3, <1>6, GateEmptyRound DEF GateStep
  <1>7. CASE Finish(t, "fail", {})
    BY <1>1, <1>3, <1>7, GateFinish DEF GateStep
  <1>8. CASE Finish(t, "already", {}) /\ platform'[r.ord] = "shipped"
    BY <1>1, <1>3, <1>8, GateFinish DEF GateStep
  <1>9. CASE ~(\/ t \in Autos /\ EmptyRound(t) /\ UNCHANGED <<lock, cl>>
               \/ Finish(t, "fail", {})
               \/ Finish(t, "already", {}) /\ platform'[r.ord] = "shipped")
    <2>1. /\ Only(t) /\ UNCHANGED cl /\ n.pc = "take"
          /\ Kept(r, n) /\ n.got = r.got /\ n.only = r.only /\ n.conf = r.conf
          /\ \/ /\ n.rOnly = r.rOnly /\ n.rConf = r.rConf
                /\ Skips(r) \/ confd[r.inst][r.ord]
             \/ n.rOnly = TRUE /\ n.rConf = r.rConf
             \/ n.rOnly = r.rOnly /\ n.rConf = TRUE /\ platform'[r.ord] = "shipped"
      BY <1>4, <1>9, ConfirmAt
    <2>2. FlowGate(n, platform')
      BY <1>2, <1>5, <2>1 DEF FlowGate, Kept, Skips
    <2> QED BY <1>3, <2>1, <2>2 DEF GateStep
  <1> QED BY <1>6, <1>7, <1>8, <1>9

LEMMA GateTake ==
  ASSUME TypeInv, Links, PlatformFinal, GateInv, NEW t \in Threads, Take(t)
  PROVE  GateStep(t)
  <1> DEFINE r == th[t]
             n == th'[t]
  <1>1. r \in Flow /\ r.ord \in Orders /\ r.pc = "take"
    BY DEF TypeInv, FlowsOK, FlowOK, Take, At
  <1>2. FlowGate(r, platform')
    BY <1>1, GateKept DEF GateInv, FlowsGate
  <1>3. StoreGate'
    <2>1. UNCHANGED <<status, snap, confd>>
      BY DEF Take, database
    <2> QED BY <2>1, GateStoreKept DEF GateInv
  <1>4. CASE t \in Autos /\ EmptyRound(t) /\ UNCHANGED cl
    BY <1>1, <1>3, <1>4, GateEmptyRound DEF GateStep
  <1>5. CASE Finish(t, "fail", {})
    BY <1>1, <1>3, <1>5, GateFinish DEF GateStep
  <1>6. CASE r.got # {} /\ Goto(t, "post") /\ UNCHANGED cl
    <2>1. Only(t) /\ Same(r, n) /\ n.pc = "post"
      BY <1>6, GotoAt DEF TypeInv
    <2> QED BY <1>1, <1>3, <1>6, <2>1, GateMoves DEF GateStep
  <1>7. ASSUME NEW c \in Codes, Only(t), UNCHANGED cl, Kept(r, n), n.got = r.got \cup {c},
               n.only = (r.only \/ r.rOnly), n.conf = (r.conf \/ r.rConf),
               n.rConf = FALSE \/ n.rConf = r.rConf,
               n.pc \in {"enter", "mark", "send"}
        PROVE  GateStep(t)
    <2>1. n.got # {}
      BY <1>7
    <2>2. FlowGate(n, platform')
      BY <1>1, <1>2, <1>7, <2>1 DEF FlowGate, Kept
    <2> QED BY <1>3, <1>7, <2>2 DEF GateStep
  <1>8. CASE \E c \in Codes :
              /\ Only(t) /\ UNCHANGED cl /\ Kept(r, n) /\ n.got = r.got \cup {c}
              /\ n.only = (r.only \/ r.rOnly) /\ n.conf = (r.conf \/ r.rConf)
              /\ n.rConf = FALSE \/ n.rConf = r.rConf
              /\ n.pc \in {"enter", "mark", "send"}
    BY <1>7, <1>8
  <1> QED BY <1>4, <1>5, <1>6, <1>8, TakeAt DEF Only, TypeInv

LEMMA GateSend ==
  ASSUME TypeInv, Links, PlatformFinal, GateInv, NEW t \in Threads, Send(t)
  PROVE  GateStep(t)
  <1> DEFINE r == th[t]
             n == th'[t]
  <1>1. r \in Flow /\ r.ord \in Orders /\ r.pc = "send"
    BY DEF TypeInv, FlowsOK, FlowOK, Send, At
  <1>2. FlowGate(r, platform')
    BY <1>1, GateKept DEF GateInv, FlowsGate
  <1>3. UNCHANGED <<status, snap, confd, cl>>
    BY DEF Send, database, memory
  <1>4. /\ Only(t) /\ Kept(r, n) /\ n.got = r.got /\ n.only = r.only /\ n.conf = r.conf
        /\ n.rConf = r.rConf /\ n.pc \in {"post", "send", "take"}
    BY SendAt DEF Only, TypeInv
  <1>5. FlowGate(n, platform')
    BY <1>1, <1>2, <1>4 DEF FlowGate, Kept
  <1> QED BY <1>3, <1>4, <1>5, GateStoreKept DEF GateStep, GateInv

LEMMA GatePost ==
  ASSUME TypeInv, Links, PlatformFinal, GateInv, NEW t \in Threads, Post(t)
  PROVE  GateStep(t)
  <1> DEFINE r == th[t]
             n == th'[t]
  <1>1. r \in Flow /\ r.ord \in Orders /\ r.pc = "post"
    BY DEF TypeInv, FlowsOK, FlowOK, Post, At
  <1>2. FlowGate(r, platform')
    BY <1>1, GateKept DEF GateInv, FlowsGate
  <1>3. UNCHANGED <<status, snap, confd, cl>>
    BY DEF Post, database, memory
  <1>4. FlowGate(n, platform')
    BY <1>1, <1>2, PostAt DEF FlowGate, Kept
  <1> QED BY <1>3, <1>4, PostAt, GateStoreKept DEF GateStep, GateInv, Only

LEMMA GateWrite ==
  ASSUME TypeInv, Links, PlatformFinal, GateInv, NEW t \in Threads, Write(t)
  PROVE  GateStep(t)
  <1> DEFINE r == th[t]
             n == th'[t]
  <1>1. r \in Flow /\ r.ord \in Orders /\ r.pc = "write"
    BY DEF TypeInv, FlowsOK, FlowOK, Write, At
  <1>2. FlowGate(r, platform')
    BY <1>1, GateKept DEF GateInv, FlowsGate
  <1>3. UNCHANGED <<snap, confd, cl>>
    BY DEF Write, memory
  <1>4. /\ Only(t) /\ n.ord = r.ord /\ n.closed = r.closed /\ n.got = r.got
        /\ n.rConf = r.rConf /\ n.pc = "leave" /\ n.conf = r.conf
        /\ r.only => n.only
        /\ n.reply = IF r.closed THEN "closed"
                     ELSE IF n.only /\ ~r.conf THEN "only" ELSE "normal"
        /\ \/ status' = IF n.reply = "normal" THEN [status EXCEPT ![r.ord] = "shipped"]
                        ELSE status
           \/ UNCHANGED status
    BY WriteAt DEF Only
  <1>5. n.reply = "normal" => platform'[r.ord] = "shipped"
    BY <1>1, <1>2, <1>4 DEF FlowGate
  <1>6. FlowGate(n, platform')
    BY <1>1, <1>2, <1>4, <1>5 DEF FlowGate
  <1>7. StoreGate'
    <2>1. \A o \in Orders : status'[o] = status[o] \/ (o = r.ord /\ n.reply = "normal")
      BY <1>1, <1>4 DEF TypeInv, StoreOK
    <2>2. \A o \in Orders : platform[o] = "shipped" => platform'[o] = "shipped"
      BY DEF PlatformFinal
    <2> QED BY <1>3, <1>5, <2>1, <2>2 DEF GateInv, StoreGate
  <1> QED BY <1>3, <1>4, <1>6, <1>7 DEF GateStep

LEMMA GateShared ==
  ASSUME TypeInv, Links, PlatformFinal, GateInv, ConfirmMode, NEW t \in Threads, SharedStep(t)
  PROVE  GateStep(t)
  <1>1. CASE Leave(t)
    <2>1. th[t].pc = "leave" /\ Finish(t, th[t].reply, th[t].got) /\ UNCHANGED <<status, snap, confd>>
      BY <1>1 DEF Leave, At, database
    <2>2. th[t].ord \in Orders
      BY <2>1 DEF TypeInv, FlowsOK, FlowOK
    <2>3. th[t].reply \in {"normal", "already"} => platform'[th[t].ord] = "shipped"
      BY <2>2 DEF GateInv, FlowsGate, FlowGate, PlatformFinal
    <2> QED BY <2>1, <2>3, GateFinish, GateStoreKept DEF GateStep, GateInv
  <1> QED BY <1>1, GateAcquire, GateConfirm, GateTake, GateSend, GatePost, GateWrite
          DEF SharedStep

LEMMA GateCaller ==
  ASSUME TypeInv, Links, PlatformFinal, GateInv, NEW c \in Callers,
         \/ CallerStep(c)
         \/ c \in Scheds /\ ((\E o \in Orders : SchedSnapshot(c, o)) \/ SchedCanShip(c))
         \/ c \in Manuals /\ \E o \in Orders : ManualStart(c, o)
  PROVE  GateInv'
  <1>1. \A d \in Callers : d # c => cl'[d] = cl[d]
    BY CallerCallAt, CallerStepGoesOn DEF CallerGoesOn
  <1>2. \/ cl'[c].reply = "none"
        \/ cl'[c].reply = cl[c].reply /\ cl'[c].ord = cl[c].ord
    <2>1. ASSUME NEW o, Begin(c, o)
          PROVE  cl'[c].reply = "none"
      BY <2>1, BeginAt
    <2>2. ASSUME NEW pc, CallerGoto(c, pc)
          PROVE  cl'[c].reply = cl[c].reply /\ cl'[c].ord = cl[c].ord
      BY <2>2, CallerGotoAt
    <2> QED BY <2>1, <2>2, CallerRedisAt, CallerCallAt, CallerTimeoutAt, CallerFreeAt, WaitingIdle
            DEF CallerStep, SchedSnapshot, ManualStart, SchedCanShip, CallerDone
  <1>3. CallersGate'
    BY <1>1, <1>2, CallerShipped DEF GateInv, CallersGate
  <1>4. FlowsGate'
    <2>1. CASE UNCHANGED th
      BY <2>1, GateFlowsKept DEF GateInv
    <2>2. CASE CallerCall(c)
      <3>1. PICK t \in Calls : Only(t) /\
              th'[t] = [Idle EXCEPT !.pc = "lock", !.ord = cl[c].ord, !.inst = gen]
        BY <2>2, CallerCallAt
      <3>2. FlowGate(th'[t], platform')
        BY <3>1 DEF FlowGate, Idle
      <3> QED BY <3>1, <3>2, GateOthers DEF GateInv
    <2> QED BY <2>1, <2>2, CallerStepGoesOn DEF CallerGoesOn
  <1>5. StoreGate'
    <2>1. UNCHANGED <<snap, confd>>
      BY DEF CallerStep, CallerRedis, CallerCall, CallerTimeout, CallerFree, CallerDone,
             SchedSnapshot, SchedCanShip, ManualStart, memory
    <2>2. \A o \in Orders : status'[o] \in {"shipped", "completed"} => platform'[o] = "shipped"
      <3>1. CASE CallerDone(c)
        <4> DEFINE sent == c \in Scheds /\ cl[c].reply \in {"normal", "already"}
        <4>1. status' = IF sent THEN [status EXCEPT ![cl[c].ord] = "shipped"] ELSE status
          BY <3>1 DEF CallerDone
        <4>2. sent => cl[c].ord \in Orders /\ platform'[cl[c].ord] = "shipped"
          BY CallerShipped DEF GateInv
        <4>3. \A o \in Orders : status'[o] = status[o] \/ platform'[o] = "shipped"
          BY <4>1, <4>2 DEF TypeInv, StoreOK
        <4> QED BY <4>3 DEF GateInv, StoreGate, PlatformFinal
      <3>2. CASE SchedCanShip(c)
        <4> DEFINE o == cl[c].ord
        <4>1. o \in Orders
          BY <3>2 DEF SchedCanShip, CallerAt, TypeInv, CallersOK, CallerOK
        <4>2. UNCHANGED status \/ status' = [status EXCEPT ![o] = StatusOf[platform[o]]]
          BY <3>2 DEF SchedCanShip
        <4>3. platform[o] \in PlatformStates
          BY <4>1 DEF TypeInv, StoreOK
        <4>4. StatusOf[platform[o]] \in {"shipped", "completed"} => platform[o] = "shipped"
          BY <4>3 DEF StatusOf, PlatformStates
        <4>5. \A q \in Orders : status'[q] = status[q] \/ (q = o /\ status'[q] = StatusOf[platform[o]])
          BY <4>1, <4>2 DEF TypeInv, StoreOK
        <4> QED BY <4>4, <4>5 DEF GateInv, StoreGate, PlatformFinal
      <3>3. CASE UNCHANGED status
        BY <3>3 DEF GateInv, StoreGate, PlatformFinal
      <3> QED BY <3>1, <3>2, <3>3 DEF CallerStep, CallerRedis, CallerCall, CallerTimeout,
                CallerFree, SchedSnapshot, ManualStart, database
    <2> QED BY <2>1, <2>2 DEF GateInv, StoreGate, PlatformFinal
  <1> QED BY <1>3, <1>4, <1>5 DEF GateInv

LEMMA GateEnvironment ==
  ASSUME TypeInv, Links, PlatformFinal, GateInv, Environment
  PROVE  GateInv'
  <1>0. TypeInv' /\ \A o \in Orders : platform[o] \in PlatformStates
    BY NextType DEF Next, TypeInv, StoreOK
  <1>1. CASE Crash
    <2>1. FlowsGate'
      <3>1. \A t \in Threads : FlowGate(th'[t], platform')
        BY <1>1, CrashAt, IdleGate
      <3> QED BY <3>1 DEF FlowsGate, FlowGate
    <2>2. CallersGate'
      BY <1>1, CrashAt, CallerShipped DEF GateInv, CallersGate
    <2>3. /\ UNCHANGED <<status, snap>>
          /\ \A g \in Gens, o \in Orders : confd'[g][o] = FALSE
      BY <1>1 DEF Crash, database
    <2>4. StoreGate'
      BY <2>3 DEF GateInv, StoreGate, PlatformFinal
    <2> QED BY <2>1, <2>2, <2>4 DEF GateInv
  <1>2. CASE UNCHANGED <<th, cl>>
    <2>1. FlowsGate' /\ CallersGate'
      BY <1>2, GateFlowsKept, GateCallers DEF GateInv
    <2>2. ASSUME UNCHANGED <<status, snap, confd>>
          PROVE  StoreGate'
      BY <2>2, GateStoreKept DEF GateInv
    <2>3. ASSUME NEW o \in Orders, SyncRead(o)
          PROVE  StoreGate'
      <3>1. UNCHANGED <<status, confd>> /\ snap' = [snap EXCEPT ![o] = platform[o]]
        BY <2>3 DEF SyncRead, database, memory
      <3>2. \A q \in Orders : snap'[q] = snap[q] \/ (q = o /\ snap'[q] = platform[q])
        BY <3>1 DEF TypeInv, StoreOK
      <3> QED BY <3>1, <3>2 DEF GateInv, StoreGate, PlatformFinal
    <2>4. ASSUME NEW o \in Orders, SyncWrite(o)
          PROVE  StoreGate'
      <3>1. UNCHANGED confd
        BY <2>4 DEF SyncWrite, memory
      <3>2. ASSUME NEW q \in PlatformStates, NEW s \in Synced(q), s \in {"shipped", "completed"}
            PROVE  q = "shipped"
        BY <3>2 DEF Synced, StatusOf, PlatformStates
      <3> DEFINE read == IF StaleSync THEN snap[o] ELSE platform[o]
      <3>3. /\ snap' = [snap EXCEPT ![o] = "none"] /\ read \in PlatformStates
            /\ \E s \in Synced(read) : status' = [status EXCEPT ![o] = s]
        BY <2>4 DEF SyncWrite, TypeInv, StoreOK
      <3>4. read = "shipped" => platform[o] = "shipped"
        BY DEF GateInv, StoreGate
      <3> HIDE DEF read
      <3>5. \A q \in Orders : status'[q] \in {"shipped", "completed"} => platform[q] = "shipped"
        BY <3>2, <3>3, <3>4 DEF TypeInv, StoreOK, GateInv, StoreGate
      <3>6. \A q \in Orders : snap'[q] = "shipped" => platform[q] = "shipped"
        BY <3>3 DEF TypeInv, StoreOK, GateInv, StoreGate
      <3> QED BY <3>1, <3>5, <3>6 DEF GateInv, StoreGate, PlatformFinal
    <2>5. ASSUME NEW g \in Gens, NEW o \in Orders, ConfirmedExpire(g, o)
          PROVE  StoreGate'
      <3>1. UNCHANGED <<status, snap>> /\ confd' = [confd EXCEPT ![g][o] = FALSE]
        BY <2>5 DEF ConfirmedExpire, database
      <3>2. \A h \in Gens, q \in Orders : confd'[h][q] => confd[h][q]
        BY <3>1 DEF TypeInv, StoreOK
      <3> QED BY <3>1, <3>2 DEF GateInv, StoreGate, PlatformFinal
    <2>6. StoreGate' \/ Crash
      BY <2>2, <2>3, <2>4, <2>5 DEF Environment, Toggle, DayEnds, Restart, Elsewhere, RedisExpire,
            CoolExpire, HoldExpire, database, memory
    <2> QED BY <1>1, <2>1, <2>6 DEF GateInv
  <1> QED BY <1>1, <1>2 DEF Environment, Toggle, DayEnds, Restart, Elsewhere, SyncRead, SyncWrite,
          RedisExpire, CoolExpire, ConfirmedExpire, HoldExpire

LEMMA GateNext ==
  ASSUME TypeInv, Links, GateInv, ConfirmMode, [Next]_vars
  PROVE  GateInv'
  <1>0. PlatformFinal
    BY NextFinal
  <1>1. ASSUME NEW t \in Autos, (\E o \in Orders : AutoStart(t, o)) \/ AutoStep(t)
        PROVE  GateInv'
    BY <1>0, <1>1, GateAuto, GateStepKeeps
  <1>2. ASSUME NEW t \in Calls, CallCheck(t)
        PROVE  GateInv'
    BY <1>0, <1>2, GateCallCheck, GateStepKeeps
  <1>3. ASSUME NEW t \in Threads, SharedStep(t)
        PROVE  GateInv'
    BY <1>0, <1>3, GateShared, GateStepKeeps
  <1>4. ASSUME NEW c \in Callers,
         \/ CallerStep(c)
         \/ c \in Scheds /\ ((\E o \in Orders : SchedSnapshot(c, o)) \/ SchedCanShip(c))
         \/ c \in Manuals /\ \E o \in Orders : ManualStart(c, o)
        PROVE  GateInv'
    BY <1>0, <1>4, GateCaller
  <1>5. CASE UNCHANGED vars
    <2>1. UNCHANGED <<th, cl, status, snap, confd>>
      BY <1>5 DEF vars, database, memory
    <2> QED BY <1>0, <2>1, GateFlowsKept, GateCallers, GateStoreKept DEF GateInv
  <1> QED BY <1>0, <1>1, <1>2, <1>3, <1>4, <1>5, GateEnvironment DEF Next

LEMMA GateInit == Init => GateInv
  <1> SUFFICES ASSUME Init PROVE GateInv
    OBVIOUS
  <1>1. FlowsGate
    BY IdleGate DEF Init, FlowsGate
  <1>2. CallersGate
    BY WaitingIdle DEF Init, CallersGate
  <1>3. StoreGate
    BY DEF Init, StoreGate
  <1> QED BY <1>1, <1>2, <1>3 DEF GateInv

LEMMA LinksHold == Spec => [](TypeInv /\ Links)
  BY InitType, NextType, LinksInit, LinksNext, PTL DEF Spec

LEMMA GateHolds ==
  ASSUME ConfirmMode
  PROVE  Spec => []GateInv
  <1>1. TypeInv /\ Links /\ GateInv /\ [Next]_vars => GateInv'
    BY GateNext
  <1> QED BY <1>1, GateInit, LinksHold, PTL DEF Spec

\* The local status is never ahead of the platform when the account confirms
\* before it sends: no handler, answer, redelivery, synchronisation or restart
\* writes 'shipped' for an order that Xianyu does not have as shipped.
THEOREM StatusHonest ==
  ASSUME ConfirmMode
  PROVE  Spec => []ShippedHonest
  <1>1. GateInv => ShippedHonest
    BY DEF GateInv, StoreGate, ShippedHonest
  <1> QED BY <1>1, GateHolds, PTL

\* "发货成功再发卡券": when the account confirms before it sends, a flow that
\* neither only sends cards nor compensates a closed order holds a code only
\* of an order the platform has shipped, whatever is lost, expires or restarts.
THEOREM GateKeptShut ==
  ASSUME ConfirmMode
  PROVE  Spec => []SendGate
  <1>1. GateInv => SendGate
    BY DEF GateInv, FlowsGate, FlowGate, SendGate
  <1> QED BY <1>1, GateHolds, PTL

-----------------------------------------------------------------------------
(***************************************************************************)
(* One flow at a time works on an order, in whatever instance, if either   *)
(* the account was never restarted (then the local lock does it) or Redis  *)
(* is reliable and no caller gives up on a running request (then the key   *)
(* does it, held by a handler itself and for a call by its caller).        *)
(***************************************************************************)
RedisReliable == ~RedisFaults /\ ~HttpTimeouts
Isolated      == MaxGen = 0 \/ RedisReliable

OneDeliverer ==
  \A t, u \in Threads, o \in Orders : Working(t, o) /\ Working(u, o) => t = u

RedisInv ==
  /\ \A t \in Autos : th[t].pc \notin {"idle", "redis"} => redis[th[t].ord] = t /\ th[t].redis
  /\ \A c \in Callers : cl[c].pc \notin {"idle", "redis"} => redis[cl[c].ord] = c /\ cl[c].redis
  /\ \A t \in Calls : th[t].pc # "idle" => \E c \in Callers : cl[c].req = t

LEMMA RedisExcludes ==
  ASSUME TypeInv, Links, RedisInv
  PROVE  OneDeliverer
  <1> SUFFICES ASSUME NEW t \in Threads, NEW u \in Threads, NEW o \in Orders,
                      Working(t, o), Working(u, o)
               PROVE  t = u
    BY DEF OneDeliverer
  <1>1. ASSUME NEW v \in Threads, Working(v, o)
        PROVE  \/ v \in Autos /\ redis[o] = v
               \/ \E c \in Callers : cl[c].req = v /\ redis[o] = c
    <2>1. th[v].pc \notin {"idle", "redis"} /\ th[v].ord = o
      BY <1>1 DEF Working, Locked
    <2>2. CASE v \in Autos
      BY <2>1, <2>2 DEF RedisInv
    <2>3. CASE v \in Calls
      <3>1. PICK c \in Callers : cl[c].req = v
        BY <2>1, <2>3 DEF RedisInv
      <3>2. v # Nobody
        BY DeliveryAssumption
      <3>3. cl[c].pc = "wait" /\ cl[c].ord = o
        BY <2>1, <3>1, <3>2 DEF TypeInv, CallersOK, CallerOK, Links
      <3> QED BY <3>1, <3>3 DEF RedisInv
    <2> QED BY <2>2, <2>3
  <1> QED BY <1>1, DeliveryAssumption

LEMMA StaysUnderKey ==
  ASSUME TypeInv, NEW t \in Autos, SharedStep(t) \/ AutoCheck(t) \/ AutoEnter(t) \/ AutoMark(t)
  PROVE  /\ UNCHANGED redis /\ th[t].pc \notin {"idle", "redis"}
         /\ th'[t].ord = th[t].ord /\ th'[t].redis = th[t].redis
  <1>1. UNCHANGED redis
    BY DEF SharedStep, AutoCheck, AutoEnter, AutoMark, Acquire, Confirm, ConfirmSkip,
           ConfirmRefused, ConfirmOnlySend, ConfirmAsk, Take, Send, Post, Write, Leave
  <1>2. th[t].pc \notin {"idle", "redis"}
    BY DEF SharedStep, AutoCheck, AutoEnter, AutoMark, Acquire, Confirm, ConfirmSkip,
           ConfirmRefused, Take, Send, Post, Write, Leave, At
  <1> DEFINE Stays == th'[t].ord = th[t].ord /\ th'[t].redis = th[t].redis
  <1>3. th[t] \in Flow /\ t \notin Calls
    BY DeliveryAssumption DEF TypeInv, FlowsOK
  <1>4. ASSUME NEW kind, NEW codes, Finish(t, kind, codes)
        PROVE  Stays
    <2>1. th'[t] = [th[t] EXCEPT !.pc = "free"]
      BY <1>3, <1>4, FinishAt DEF TypeInv
    <2> QED BY <1>3, <2>1 DEF Flow
  <1>5. ASSUME EmptyRound(t)
        PROVE  Stays
    BY <1>5, EmptyRoundAt DEF TypeInv, Kept
  <1>6. Stays
    <2>1. CASE AutoCheck(t)
      BY <1>4, <2>1, AutoCheckAt DEF Same
    <2>2. CASE AutoEnter(t)
      BY <2>2, AutoEnterAt DEF Kept
    <2>3. CASE AutoMark(t)
      BY <2>3, AutoMarkAt DEF Same
    <2>4. CASE Acquire(t)
      BY <1>3, <2>4, AcquireAt DEF Same
    <2>5. CASE Confirm(t)
      BY <1>3, <1>5, <2>5, ConfirmAt DEF Kept
    <2>6. CASE Take(t)
      <3>1. Kept(th[t], th'[t]) \/ EmptyRound(t)
        BY <1>3, <2>6, TakeAt DEF TypeInv
      <3>2. Kept(th[t], th'[t]) => Stays
        BY DEF Kept
      <3> QED BY <1>5, <3>1, <3>2
    <2>7. CASE Send(t)
      BY <2>7, SendAt DEF Kept, TypeInv
    <2>8. CASE Post(t)
      BY <2>8, PostAt DEF Kept
    <2>9. CASE Write(t)
      BY <2>9, WriteAt
    <2>10. CASE Leave(t)
      BY <1>4, <2>10 DEF Leave
    <2> QED BY <2>1, <2>2, <2>3, <2>4, <2>5, <2>6, <2>7, <2>8, <2>9, <2>10 DEF SharedStep
  <1> QED BY <1>1, <1>2, <1>6

LEMMA RedisAnswers ==
  ASSUME TypeInv, NEW t \in Threads, GoesOn(t) \/ Ends(t)
  PROVE  \A c \in Callers :
           /\ cl'[c] = cl[c] \/ (cl[c].req = t /\ cl'[c].pc = "done" /\ cl[c].pc = "wait")
           /\ cl'[c].ord = cl[c].ord /\ cl'[c].redis = cl[c].redis
  <1>1. CASE GoesOn(t)
    BY <1>1 DEF GoesOn
  <1>2. ASSUME NEW kind, NEW codes, Answer(t, kind, codes)
        PROVE  \A c \in Callers :
           /\ cl'[c] = cl[c] \/ (cl[c].req = t /\ cl'[c].pc = "done" /\ cl[c].pc = "wait")
           /\ cl'[c].ord = cl[c].ord /\ cl'[c].redis = cl[c].redis
    <2>1. \A c \in Callers : cl[c].req = t => cl[c].pc = "wait"
      BY DeliveryAssumption DEF TypeInv, CallersOK, CallerOK
    <2> QED BY <1>2, <2>1, AnswerAt DEF TypeInv
  <1> QED BY <1>1, <1>2 DEF Ends

LEMMA RedisCalls ==
  ASSUME TypeInv, RedisInv, NEW t \in Threads, GoesOn(t) \/ Ends(t)
  PROVE  \A u \in Calls : th'[u].pc # "idle" => \E c \in Callers : cl'[c].req = u
  <1> SUFFICES ASSUME NEW u \in Calls, th'[u].pc # "idle"
               PROVE  \E c \in Callers : cl'[c].req = u
    OBVIOUS
  <1>1. th[u].pc # "idle" /\ (u = t => GoesOn(t))
    BY DeliveryAssumption DEF GoesOn, Ends, Only, Idle
  <1>2. PICK c \in Callers : cl[c].req = u
    BY <1>1 DEF RedisInv
  <1>3. CASE u = t
    BY <1>1, <1>2, <1>3 DEF GoesOn
  <1>4. CASE u # t
    BY <1>2, <1>4, RedisAnswers
  <1> QED BY <1>3, <1>4

LEMMA RedisFlow ==
  ASSUME TypeInv, Links, RedisInv, RedisReliable, NEW t \in Threads,
         \/ t \in Autos /\ ((\E o \in Orders : AutoStart(t, o)) \/ AutoStep(t))
         \/ t \in Calls /\ CallCheck(t)
         \/ SharedStep(t)
  PROVE  RedisInv'
  <1>1. GoesOn(t) \/ Ends(t)
    BY FlowStep
  <1>2. Only(t)
    BY <1>1 DEF GoesOn, Ends
  <1>3. ASSUME UNCHANGED redis,
               t \in Autos => \/ th'[t].pc \in {"idle", "redis"}
                              \/ /\ th[t].pc \notin {"idle", "redis"}
                                 /\ th'[t].ord = th[t].ord /\ th'[t].redis = th[t].redis
        PROVE  RedisInv'
    <2>1. \A u \in Autos : th'[u].pc \notin {"idle", "redis"} => redis'[th'[u].ord] = u /\ th'[u].redis
      BY <1>2, <1>3 DEF Only, RedisInv
    <2>2. \A c \in Callers : cl'[c].pc \notin {"idle", "redis"} => redis'[cl'[c].ord] = c /\ cl'[c].redis
      BY <1>1, <1>3, RedisAnswers DEF RedisInv
    <2> QED BY <1>1, <2>1, <2>2, RedisCalls DEF RedisInv
  <1>4. ASSUME t \in Autos, NEW o \in Orders, AutoStart(t, o)
        PROVE  RedisInv'
    <2>1. UNCHANGED redis
      BY <1>4 DEF AutoStart
    <2>2. th'[t].pc \in {"idle", "redis"}
      BY <1>4, AutoStartAt
    <2> QED BY <1>3, <2>1, <2>2
  <1>5. CASE t \in Calls
    <2>1. UNCHANGED redis /\ t \notin Autos
      BY <1>5, DeliveryAssumption
         DEF SharedStep, CallCheck, Acquire, Confirm, ConfirmSkip,
           ConfirmRefused, ConfirmOnlySend, ConfirmAsk, Take, Send, Post, Write, Leave
    <2> QED BY <1>3, <2>1
  <1>6. CASE t \in Autos /\ (SharedStep(t) \/ AutoCheck(t) \/ AutoEnter(t) \/ AutoMark(t))
    BY <1>3, <1>6, StaysUnderKey
  <1>7. CASE t \in Autos /\ AutoRedis(t)
    <2> DEFINE o == th[t].ord
    <2>1. CASE th'[t] = Idle /\ UNCHANGED redis
      BY <1>3, <2>1 DEF Idle
    <2>2. CASE /\ th'[t].ord = o /\ th'[t].redis = TRUE /\ redis[o] = Nobody /\ o \in Orders
               /\ redis' = [redis EXCEPT ![o] = t] /\ UNCHANGED cl
      <3>1. redis \in [Orders -> Threads \cup Callers \cup {Nobody}] /\ redis'[o] = t
        BY <2>2 DEF TypeInv, StoreOK
      <3>2. Nobody \notin Threads \cup Callers
        BY DeliveryAssumption
      <3>3. ASSUME NEW u \in Autos, u # t, th'[u].pc \notin {"idle", "redis"}
            PROVE  redis'[th'[u].ord] = u /\ th'[u].redis
        <4>1. th'[u] = th[u] /\ redis[th[u].ord] = u /\ th[u].redis /\ th[u].ord \in Orders
          BY <1>2, <3>3 DEF Only, RedisInv, TypeInv, FlowsOK, FlowOK
        <4> QED BY <2>2, <3>1, <3>2, <4>1
      <3>4. ASSUME NEW c \in Callers, cl'[c].pc \notin {"idle", "redis"}
            PROVE  redis'[cl'[c].ord] = c /\ cl'[c].redis
        <4>1. cl'[c] = cl[c] /\ redis[cl[c].ord] = c /\ cl[c].redis /\ cl[c].ord \in Orders
          BY <2>2, <3>4 DEF RedisInv, TypeInv, CallersOK, CallerOK
        <4> QED BY <2>2, <3>1, <3>2, <4>1
      <3> QED BY <1>1, <2>2, <3>1, <3>3, <3>4, RedisCalls DEF RedisInv
    <2>3. UNCHANGED cl
      BY <1>7 DEF AutoRedis
    <2> QED BY <1>7, <2>1, <2>2, <2>3, AutoRedisAt DEF RedisReliable, Same
  <1>8. CASE t \in Autos /\ AutoFree(t)
    <2> DEFINE o == th[t].ord
    <2>1. /\ th[t].pc = "free" /\ o \in Orders /\ th'[t] = Idle /\ UNCHANGED cl
          /\ redis[o] = t
      BY <1>8, BecomeAt DEF AutoFree, At, TypeInv, FlowsOK, FlowOK, RedisInv
    <2>2. UNCHANGED redis \/ \E n : redis' = [redis EXCEPT ![o] = n]
      BY <1>8 DEF AutoFree
    <2>3. redis \in [Orders -> Threads \cup Callers \cup {Nobody}]
      BY DEF TypeInv, StoreOK
    <2>4. \A q \in Orders : redis'[q] = redis[q] \/ redis[q] = t
      BY <2>1, <2>2, <2>3
    <2>5. ASSUME NEW u \in Autos, th'[u].pc \notin {"idle", "redis"}
          PROVE  redis'[th'[u].ord] = u /\ th'[u].redis
      <3>1. u # t /\ th'[u] = th[u] /\ redis[th[u].ord] = u /\ th[u].redis /\ th[u].ord \in Orders
        BY <1>2, <2>1, <2>5 DEF Only, RedisInv, TypeInv, FlowsOK, FlowOK, Idle
      <3> QED BY <2>4, <3>1
    <2>6. ASSUME NEW c \in Callers, cl'[c].pc \notin {"idle", "redis"}
          PROVE  redis'[cl'[c].ord] = c /\ cl'[c].redis
      <3>1. cl'[c] = cl[c] /\ redis[cl[c].ord] = c /\ cl[c].redis /\ cl[c].ord \in Orders /\ c # t
        BY <2>1, <2>6, DeliveryAssumption DEF RedisInv, TypeInv, CallersOK, CallerOK
      <3> QED BY <2>4, <3>1
    <2> QED BY <1>1, <2>5, <2>6, RedisCalls DEF RedisInv
  <1> QED BY <1>4, <1>5, <1>6, <1>7, <1>8 DEF AutoStep

LEMMA RedisCaller ==
  ASSUME TypeInv, Links, RedisInv, RedisReliable, NEW c \in Callers,
         \/ CallerStep(c)
         \/ c \in Scheds /\ ((\E o \in Orders : SchedSnapshot(c, o)) \/ SchedCanShip(c))
         \/ c \in Manuals /\ \E o \in Orders : ManualStart(c, o)
  PROVE  RedisInv'
  <1>0. /\ \A d \in Callers : d # c => cl'[d] = cl[d]
        /\ CallerCall(c) \/ UNCHANGED th
    BY CallerCallAt, CallerStepGoesOn DEF CallerGoesOn
  <1>1. /\ cl[c].req # Nobody => cl[c].pc = "wait"
        /\ redis \in [Orders -> Threads \cup Callers \cup {Nobody}]
        /\ cl[c].pc # "idle" => cl[c].ord \in Orders
        /\ Nobody \notin Threads \cup Callers /\ Threads \cap Callers = {}
    BY DeliveryAssumption DEF TypeInv, CallersOK, CallerOK, StoreOK
  \* what is left of the redis key of the others
  <1>2. ASSUME UNCHANGED th, cl[c].req = Nobody,
               \A o \in Orders : redis'[o] = redis[o] \/ redis[o] \in {c, Nobody},
               cl'[c].pc \notin {"idle", "redis"} => redis'[cl'[c].ord] = c /\ cl'[c].redis
        PROVE  RedisInv'
    <2>1. \A u \in Autos : th'[u].pc \notin {"idle", "redis"} => redis'[th'[u].ord] = u /\ th'[u].redis
      <3>1. \A u \in Autos : th[u].pc # "idle" => th[u].ord \in Orders
        BY DEF TypeInv, FlowsOK, FlowOK
      <3> QED BY <1>1, <1>2, <3>1 DEF RedisInv
    <2>2. ASSUME NEW d \in Callers, cl'[d].pc \notin {"idle", "redis"}
          PROVE  redis'[cl'[d].ord] = d /\ cl'[d].redis
      <3>1. CASE d = c
        BY <1>2, <2>2, <3>1
      <3>2. CASE d # c
        <4>1. cl'[d] = cl[d] /\ redis[cl[d].ord] = d /\ cl[d].redis /\ cl[d].ord \in Orders
          BY <1>0, <2>2, <3>2 DEF RedisInv, TypeInv, CallersOK, CallerOK
        <4> QED BY <1>1, <1>2, <3>2, <4>1
      <3> QED BY <3>1, <3>2
    <2>3. \A u \in Calls : th'[u].pc # "idle" => \E d \in Callers : cl'[d].req = u
      BY <1>0, <1>1, <1>2 DEF RedisInv
    <2> QED BY <2>1, <2>2, <2>3 DEF RedisInv
  <1>3. ASSUME UNCHANGED redis, UNCHANGED th, cl[c].req = Nobody,
               \/ cl'[c].pc \in {"idle", "redis"}
               \/ /\ cl[c].pc \notin {"idle", "redis"}
                  /\ cl'[c].ord = cl[c].ord /\ cl'[c].redis = cl[c].redis
        PROVE  RedisInv'
    BY <1>2, <1>3 DEF RedisInv
  <1>4. CASE CallerRedis(c)
    <2>1. cl[c].req = Nobody /\ UNCHANGED th
      BY <1>1, <1>4, CallerRedisAt
    <2>2. CASE cl'[c] = Waiting /\ UNCHANGED redis
      BY <1>3, <2>1, <2>2, WaitingIdle
    <2>3. CASE ~(cl'[c] = Waiting /\ UNCHANGED redis)
      <3> DEFINE o == cl[c].ord
      <3>1. /\ o \in Orders /\ cl'[c].ord = o /\ cl'[c].redis = TRUE
            /\ redis[o] = Nobody /\ redis' = [redis EXCEPT ![o] = c]
        BY <1>4, <2>3, CallerRedisAt DEF RedisReliable
      <3>2. \A q \in Orders : redis'[q] = redis[q] \/ redis[q] \in {c, Nobody}
        BY <1>1, <3>1
      <3>3. redis'[o] = c
        BY <1>1, <3>1
      <3> QED BY <1>2, <2>1, <3>1, <3>2, <3>3
    <2> QED BY <2>2, <2>3
  <1>5. CASE CallerCall(c)
    <2>1. UNCHANGED redis
      BY <1>5 DEF CallerCall
    <2>2. PICK t \in Calls :
              /\ Only(t) /\ cl'[c].pc = "wait" /\ cl'[c].req = t /\ cl'[c].ord = cl[c].ord
              /\ cl'[c].redis = cl[c].redis /\ cl[c].pc = "call"
      BY <1>5, CallerCallAt
    <2>3. t \notin Autos
      BY DeliveryAssumption
    <2>4. \A u \in Autos : th'[u].pc \notin {"idle", "redis"} => redis'[th'[u].ord] = u /\ th'[u].redis
      BY <2>1, <2>2, <2>3 DEF Only, RedisInv
    <2>5. \A d \in Callers : cl'[d].pc \notin {"idle", "redis"} => redis'[cl'[d].ord] = d /\ cl'[d].redis
      BY <1>0, <2>1, <2>2 DEF RedisInv
    <2>6. ASSUME NEW u \in Calls, th'[u].pc # "idle"
          PROVE  \E d \in Callers : cl'[d].req = u
      <3>1. CASE u = t
        BY <2>2, <3>1
      <3>2. CASE u # t
        <4>1. PICK d \in Callers : cl[d].req = u
          BY <2>2, <2>6, <3>2 DEF Only, RedisInv
        <4>2. d # c
          BY <1>1, <2>2, <4>1
        <4> QED BY <1>0, <4>1, <4>2
      <3> QED BY <3>1, <3>2
    <2> QED BY <2>4, <2>5, <2>6 DEF RedisInv
  <1>6. CASE CallerTimeout(c)
    <2>1. UNCHANGED redis /\ cl[c].req = Nobody
      BY <1>6 DEF CallerTimeout, RedisReliable
    <2> QED BY <1>3, <1>6, <2>1, CallerTimeoutAt
  <1>7. CASE CallerDone(c)
    <2>1. UNCHANGED <<redis, th>> /\ cl[c].pc = "done" /\ CallerGoto(c, "free")
      BY <1>7 DEF CallerDone, CallerAt
    <2> QED BY <1>1, <1>3, <2>1, CallerGotoAt
  <1>8. CASE CallerFree(c)
    <2>1. cl[c].pc = "free" /\ cl'[c] = Waiting /\ UNCHANGED th
      BY <1>8, CallerFreeAt
    <2>2. UNCHANGED redis \/ \E n : redis' = [redis EXCEPT ![cl[c].ord] = n]
      BY <1>8 DEF CallerFree
    <2>3. redis[cl[c].ord] = c /\ cl[c].ord \in Orders
      BY <1>1, <2>1 DEF RedisInv
    <2>4. \A q \in Orders : redis'[q] = redis[q] \/ redis[q] \in {c, Nobody}
      BY <1>1, <2>2, <2>3
    <2> QED BY <1>1, <1>2, <2>1, <2>4, WaitingIdle
  <1>9. ASSUME NEW o \in Orders, SchedSnapshot(c, o) \/ ManualStart(c, o)
        PROVE  RedisInv'
    <2>1. UNCHANGED <<redis, th>> /\ cl[c].pc = "idle" /\ Begin(c, o)
      BY <1>9 DEF SchedSnapshot, ManualStart, CallerAt
    <2> QED BY <1>1, <1>3, <2>1, BeginAt
  <1>10. CASE SchedCanShip(c)
    <2>1. UNCHANGED <<redis, th>> /\ cl[c].pc = "ship" /\ \E pc : CallerGoto(c, pc)
      BY <1>10 DEF SchedCanShip, CallerAt
    <2> QED BY <1>1, <1>3, <2>1, CallerGotoAt
  <1> QED BY <1>4, <1>5, <1>6, <1>7, <1>8, <1>9, <1>10 DEF CallerStep

LEMMA RedisEnvironment ==
  ASSUME TypeInv, Links, RedisInv, ~RedisFaults, Environment
  PROVE  RedisInv'
  <1>1. CASE Crash
    <2>1. UNCHANGED redis /\ \A t \in Threads : th'[t].pc = "idle"
      BY <1>1, CrashAt DEF Crash, Idle
    <2> QED BY <1>1, <2>1, CrashAt DEF RedisInv
  <1>2. CASE UNCHANGED <<th, cl, redis>>
    BY <1>2 DEF RedisInv
  <1>3. ASSUME NEW o \in Orders, RedisExpire(o), ~RedisFaults
        PROVE  RedisInv'
    <2>1. UNCHANGED <<th, cl>> /\ ~AtWork(redis[o], o) /\ redis' = [redis EXCEPT ![o] = Nobody]
      BY <1>3 DEF RedisExpire
    <2>2. \A q \in Orders : redis'[q] = redis[q] \/ q = o
      BY <2>1 DEF TypeInv, StoreOK
    <2>3. ASSUME NEW t \in Autos, th[t].pc \notin {"idle", "redis"}
          PROVE  redis'[th[t].ord] = t /\ th[t].redis
      <3>1. redis[th[t].ord] = t /\ th[t].redis /\ th[t].ord \in Orders
        BY <2>3 DEF RedisInv, TypeInv, FlowsOK, FlowOK
      <3>2. th[t].ord # o
        BY <2>1, <3>1 DEF AtWork
      <3> QED BY <2>2, <3>1, <3>2
    <2>4. ASSUME NEW c \in Callers, cl[c].pc \notin {"idle", "redis"}
          PROVE  redis'[cl[c].ord] = c /\ cl[c].redis
      <3>1. redis[cl[c].ord] = c /\ cl[c].redis /\ cl[c].ord \in Orders
        BY <2>4 DEF RedisInv, TypeInv, CallersOK, CallerOK
      <3>2. cl[c].ord # o
        BY <2>1, <3>1, DeliveryAssumption DEF AtWork
      <3> QED BY <2>2, <3>1, <3>2
    <2> QED BY <2>1, <2>3, <2>4 DEF RedisInv
  <1> QED BY <1>1, <1>2, <1>3 DEF Environment, Toggle, DayEnds, Restart, Elsewhere, SyncRead, SyncWrite,
          RedisExpire, CoolExpire, ConfirmedExpire, HoldExpire, memory

LEMMA RedisNext ==
  ASSUME TypeInv, Links, RedisInv, RedisReliable, [Next]_vars
  PROVE  RedisInv'
  <1>1. ASSUME NEW t \in Autos, (\E o \in Orders : AutoStart(t, o)) \/ AutoStep(t)
        PROVE  RedisInv'
    BY <1>1, RedisFlow
  <1>2. ASSUME NEW t \in Calls, CallCheck(t)
        PROVE  RedisInv'
    BY <1>2, RedisFlow
  <1>3. ASSUME NEW t \in Threads, SharedStep(t)
        PROVE  RedisInv'
    BY <1>3, RedisFlow
  <1>4. CASE UNCHANGED vars
    BY <1>4 DEF vars, RedisInv
  <1> QED BY <1>1, <1>2, <1>3, <1>4, RedisCaller, RedisEnvironment DEF Next, RedisReliable

LEMMA RedisInit == Init => RedisInv
  BY WaitingIdle DEF Init, RedisInv, Idle

LEMMA OneInstance ==
  ASSUME TypeInv, LocalLock, MaxGen = 0
  PROVE  OneDeliverer
  <1>1. Gens = {0}
    OBVIOUS
  <1>2. \A t \in Threads : th[t].inst = 0
    BY <1>1 DEF TypeInv, FlowsOK, Flow
  <1> QED BY <1>2 DEF LocalLock, OneDeliverer, Working

\* deliver_order, _handle_auto_delivery and their callers: between the check
\* of an order and the record of its delivery there is one flow at a time, in
\* all instances of the account together, however often it crashes; restarts
\* need a Redis that does not fail and callers that wait for their answer.
THEOREM OneAtATime ==
  ASSUME Isolated
  PROVE  Spec => []OneDeliverer
  <1>1. CASE MaxGen = 0
    <2>1. TypeInv /\ LocalLock => OneDeliverer
      BY <1>1, OneInstance
    <2> QED BY <2>1, LockHeld, LinksHold, PTL
  <1>2. CASE RedisReliable
    <2>1. TypeInv /\ Links /\ RedisInv /\ [Next]_vars => RedisInv'
      BY <1>2, RedisNext
    <2>2. TypeInv /\ Links /\ RedisInv => OneDeliverer
      BY RedisExcludes
    <2> QED BY <2>1, <2>2, RedisInit, LinksHold, PTL DEF Spec
  <1> QED BY <1>1, <1>2 DEF Isolated

-----------------------------------------------------------------------------
(***************************************************************************)
(* card_only_delivered is final.  A flow that passed the check of the      *)
(* order works on one that is not marked, and as it is the only one, the   *)
(* order stays so until the flow itself marks it; who reports "only cards" *)
(* has marked the order, unless the write failed.                          *)
(***************************************************************************)
Inner == Locked \ {"check", "leave"}

MarkerInv ==
  /\ \A t \in Threads : th[t].pc \in Inner => ~marker[th[t].ord]
  /\ \A t \in Threads : th[t].reply \in {"only", "alreadyOnly"} => marker[th[t].ord]
  /\ \A c \in Callers : cl[c].reply \in {"only", "alreadyOnly"} => marker[cl[c].ord]

MarkerKept == \A o \in Orders : marker[o] => marker'[o]

LEMMA MarkerFinal ==
  ASSUME TypeInv, MarkerInv, [Next]_vars
  PROVE  MarkerKept
  <1>1. CASE UNCHANGED marker
    BY <1>1 DEF MarkerKept
  <1>2. ASSUME NEW t \in Threads, Write(t)
        PROVE  MarkerKept
    BY <1>1, <1>2, WriteAt DEF MarkerKept, TypeInv, StoreOK
  <1>3. ASSUME NEW c \in Callers, CallerDone(c)
        PROVE  MarkerKept
    BY <1>3 DEF CallerDone, MarkerKept, TypeInv, StoreOK
  <1>4. ASSUME NEW t \in Autos, (\E o \in Orders : AutoStart(t, o)) \/ AutoStep(t)
        PROVE  UNCHANGED marker
    BY <1>4 DEF AutoStart, AutoStep, AutoRedis, AutoCheck, AutoEnter, AutoMark, AutoFree, database
  <1>5. ASSUME NEW t \in Threads, CallCheck(t) \/ SharedStep(t)
        PROVE  UNCHANGED marker \/ Write(t)
    BY <1>5 DEF CallCheck, SharedStep, Acquire, Confirm, ConfirmSkip, ConfirmRefused,
          ConfirmOnlySend, ConfirmAsk, Take, Send, Post, Leave, database
  <1>6. ASSUME NEW c \in Callers, CallerStep(c)
        PROVE  UNCHANGED marker \/ CallerDone(c)
    BY <1>6 DEF CallerStep, CallerRedis, CallerCall, CallerTimeout, CallerFree, database
  <1>7. ASSUME NEW s \in Scheds, (\E o \in Orders : SchedSnapshot(s, o)) \/ SchedCanShip(s)
        PROVE  UNCHANGED marker
    BY <1>7 DEF SchedSnapshot, SchedCanShip, database
  <1>8. ASSUME NEW m \in Manuals, NEW o \in Orders, ManualStart(m, o)
        PROVE  UNCHANGED marker
    BY <1>8 DEF ManualStart, database
  <1>9. CASE Environment
    BY <1>1, <1>9 DEF Environment, Toggle, DayEnds, Restart, Crash, Elsewhere, SyncRead, SyncWrite,
          RedisExpire, CoolExpire, ConfirmedExpire, HoldExpire, database
  <1>10. CASE UNCHANGED vars
    BY <1>1, <1>10 DEF vars, database
  <1> QED BY <1>1, <1>2, <1>3, <1>4, <1>5, <1>6, <1>7, <1>8, <1>9, <1>10 DEF Next

\* The answer of a flow: what it says of the marker is so.
Marks(t) ==
  \/ UNCHANGED cl
  \/ \E kind, codes : /\ Answer(t, kind, codes)
                      /\ kind \in {"only", "alreadyOnly"} => marker[th[t].ord]

\* A flow's step, the writing of the result apart: how it enters and stays in
\* the part where the order is known to be unmarked.
MovesInside(t) ==
  LET r == th[t] n == th'[t] IN
  /\ Only(t) /\ Marks(t)
  /\ n.pc \in Inner =>
       /\ n.ord = r.ord
       /\ r.pc \in Inner \/ (r.pc = "check" /\ ~Handled(r.ord))
  /\ n.reply # "none" => n.reply = r.reply /\ n.ord = r.ord

LEMMA FinishInside ==
  ASSUME TypeInv, NEW t \in Threads, NEW kind, NEW codes, Finish(t, kind, codes),
         kind \in {"only", "alreadyOnly"} => marker[th[t].ord]
  PROVE  MovesInside(t)
  <1>1. th[t] \in Flow
    BY DEF TypeInv, FlowsOK
  <1>2. LET n == [th[t] EXCEPT !.pc = "free"] IN n.pc = "free" /\ n.reply = th[t].reply /\ n.ord = th[t].ord
    BY <1>1 DEF Flow
  <1>3. LET n == th'[t] IN
        /\ Only(t) /\ Answer(t, kind, codes)
        /\ n = Idle \/ (n.pc = "free" /\ n.reply = th[t].reply /\ n.ord = th[t].ord)
    BY <1>2, FinishAt DEF Only, TypeInv
  <1>4. Marks(t)
    BY <1>3 DEF Marks
  <1> QED BY <1>3, <1>4 DEF MovesInside, Inner, Locked, Idle

LEMMA EmptyRoundInside ==
  ASSUME TypeInv, NEW t \in Autos, EmptyRound(t), UNCHANGED cl, th[t].pc \in Inner
  PROVE  MovesInside(t)
  BY EmptyRoundAt DEF MovesInside, Kept, TypeInv, Only, Marks

LEMMA FlowInside ==
  ASSUME TypeInv, MarkerInv, ~DbFaults, NEW t \in Threads, ~Write(t),
         \/ t \in Autos /\ ((\E o \in Orders : AutoStart(t, o)) \/ AutoStep(t))
         \/ t \in Calls /\ CallCheck(t)
         \/ SharedStep(t)
  PROVE  MovesInside(t)
  <1> DEFINE r == th[t]
             n == th'[t]
  <1>1. ASSUME t \in Autos, NEW o \in Orders, AutoStart(t, o)
        PROVE  MovesInside(t)
    <2>1. UNCHANGED cl
      BY <1>1 DEF AutoStart
    <2> QED BY <1>1, <2>1, AutoStartAt DEF MovesInside, Marks, Inner, Locked
  <1>2. CASE t \in Autos /\ AutoRedis(t)
    <2>1. UNCHANGED cl
      BY <1>2 DEF AutoRedis
    <2>2. Only(t) /\ (n = Idle \/ (Same(r, n) /\ n.pc = "lock"))
      BY <1>2, AutoRedisAt
    <2> QED BY <2>1, <2>2 DEF MovesInside, Marks, Inner, Locked, Same, Idle
  <1>3. CASE t \in Autos /\ AutoCheck(t)
    BY <1>3, AutoCheckAt, FinishInside DEF MovesInside, Marks, Same, Inner, Locked
  <1>4. CASE t \in Autos /\ AutoEnter(t)
    <2>1. UNCHANGED cl
      BY <1>4 DEF AutoEnter
    <2> QED BY <1>4, <2>1, AutoEnterAt DEF MovesInside, Marks, Kept, Inner, Locked
  <1>5. CASE t \in Autos /\ AutoMark(t)
    <2>1. UNCHANGED cl
      BY <1>5 DEF AutoMark
    <2> QED BY <1>5, <2>1, AutoMarkAt DEF MovesInside, Marks, Same, Inner, Locked
  <1>6. CASE t \in Autos /\ AutoFree(t)
    <2>1. UNCHANGED cl /\ Only(t) /\ n = Idle
      BY <1>6, BecomeAt DEF AutoFree, TypeInv, Only
    <2> QED BY <2>1 DEF MovesInside, Marks, Inner, Locked, Idle
  <1>7. CASE t \in Calls /\ CallCheck(t)
    <2>1. CASE \/ marker[r.ord] /\ Finish(t, "alreadyOnly", content[r.ord])
               \/ Finish(t, "already", {}) \/ Finish(t, "fail", {})
      BY <2>1, FinishInside
    <2>2. CASE ~(\/ marker[r.ord] /\ Finish(t, "alreadyOnly", content[r.ord])
                 \/ Finish(t, "already", {}) \/ Finish(t, "fail", {}))
      <3>1. /\ r.pc = "check" /\ ~Handled(r.ord) /\ Only(t) /\ UNCHANGED cl
            /\ n.ord = r.ord /\ n.reply = r.reply
        BY <1>7, <2>2, CallCheckAt
      <3> QED BY <3>1 DEF MovesInside, Marks
    <2> QED BY <2>1, <2>2
  <1>8. CASE Acquire(t)
    <2>1. /\ Only(t)
          /\ n = Idle \/ (Same(r, n) /\ n.pc \in {"check", "free"})
          /\ UNCHANGED cl \/ Answer(t, "fail", {})
      BY <1>8, AcquireAt
    <2> QED BY <2>1 DEF MovesInside, Marks, Same, Inner, Locked, Idle
  <1>9. CASE Confirm(t)
    <2>1. r.pc \in Inner
      BY <1>9, ConfirmAt DEF Inner, Locked
    <2>2. CASE \/ t \in Autos /\ EmptyRound(t) /\ UNCHANGED cl
               \/ Finish(t, "already", {}) \/ Finish(t, "fail", {})
      BY <2>1, <2>2, FinishInside, EmptyRoundInside
    <2>3. CASE Only(t) /\ UNCHANGED cl /\ Kept(r, n)
      BY <2>1, <2>3 DEF MovesInside, Marks, Kept
    <2> QED BY <1>9, <2>2, <2>3, ConfirmAt
  <1>10. CASE Take(t)
    <2>1. r.pc \in Inner
      BY <1>10 DEF Take, At, Inner, Locked
    <2>2. CASE (t \in Autos /\ EmptyRound(t) /\ UNCHANGED cl) \/ Finish(t, "fail", {})
      BY <2>1, <2>2, FinishInside, EmptyRoundInside
    <2>3. CASE Only(t) /\ UNCHANGED cl /\ (Kept(r, n) \/ Same(r, n))
      BY <2>1, <2>3 DEF MovesInside, Marks, Kept, Same
    <2>4. \/ Only(t) /\ UNCHANGED cl /\ Kept(r, n)
          \/ (t \in Autos /\ EmptyRound(t) /\ UNCHANGED cl) \/ Finish(t, "fail", {})
          \/ Goto(t, "post") /\ UNCHANGED cl
      BY <1>10, TakeAt DEF TypeInv, Only
    <2>5. Goto(t, "post") => Only(t) /\ Same(r, n)
      BY GotoAt DEF TypeInv
    <2> QED BY <2>2, <2>3, <2>4, <2>5
  <1>11. CASE Send(t)
    <2>1. r.pc \in Inner /\ UNCHANGED cl
      BY <1>11 DEF Send, At, Inner, Locked
    <2>2. Only(t) /\ Kept(r, n)
      BY <1>11, SendAt DEF TypeInv, Only
    <2> QED BY <2>1, <2>2 DEF MovesInside, Marks, Kept
  <1>12. CASE Post(t)
    <2>1. r.pc \in Inner /\ UNCHANGED cl
      BY <1>12 DEF Post, At, Inner, Locked
    <2>2. Only(t) /\ Kept(r, n)
      BY <1>12, PostAt DEF Only
    <2> QED BY <2>1, <2>2 DEF MovesInside, Marks, Kept
  <1>13. CASE Leave(t)
    <2>1. Finish(t, r.reply, r.got) /\ r.pc # "idle"
      BY <1>13 DEF Leave, At
    <2> QED BY <2>1, FinishInside DEF MarkerInv
  <1>14. CASE t \in Autos /\ AutoStep(t)
    BY <1>2, <1>3, <1>4, <1>5, <1>6, <1>14 DEF AutoStep
  <1>15. CASE SharedStep(t)
    BY <1>8, <1>9, <1>10, <1>11, <1>12, <1>13, <1>15 DEF SharedStep
  <1> QED BY <1>1, <1>7, <1>14, <1>15

LEMMA MarkerOfFlow ==
  ASSUME NEW t \in Threads, ~Write(t),
         \/ t \in Autos /\ ((\E o \in Orders : AutoStart(t, o)) \/ AutoStep(t))
         \/ t \in Calls /\ CallCheck(t)
         \/ SharedStep(t)
  PROVE  UNCHANGED marker
  <1>1. ASSUME NEW o \in Orders, AutoStart(t, o)
        PROVE  UNCHANGED marker
    BY <1>1 DEF AutoStart, database
  <1>2. CASE AutoStep(t)
    BY <1>2 DEF AutoStep, AutoRedis, AutoCheck, AutoEnter, AutoMark, AutoFree, database
  <1>3. CASE CallCheck(t) \/ SharedStep(t)
    BY <1>3 DEF CallCheck, SharedStep, Acquire, Confirm, ConfirmSkip, ConfirmRefused,
          ConfirmOnlySend, ConfirmAsk, Take, Send, Post, Leave, database
  <1> QED BY <1>1, <1>2, <1>3

LEMMA MarkerFlow ==
  ASSUME TypeInv, Links, MarkerInv, NEW t \in Threads, MovesInside(t), UNCHANGED marker
  PROVE  MarkerInv'
  <1>1. \A u \in Threads : th'[u].pc \in Inner => ~marker[th'[u].ord]
    BY DEF MovesInside, MarkerInv, Only, Handled
  <1>2. \A u \in Threads : th'[u].reply \in {"only", "alreadyOnly"} => marker[th'[u].ord]
    BY DEF MovesInside, MarkerInv, Only
  <1>3. \A c \in Callers : cl'[c].reply \in {"only", "alreadyOnly"} => marker[cl'[c].ord]
    <2>1. CASE UNCHANGED cl
      BY <2>1 DEF MarkerInv
    <2>2. ASSUME NEW kind, NEW codes, Answer(t, kind, codes),
                 kind \in {"only", "alreadyOnly"} => marker[th[t].ord],
                 NEW c \in Callers, cl'[c].reply \in {"only", "alreadyOnly"}
          PROVE  marker[cl'[c].ord]
      <3>1. CASE cl[c].req = t
        <4>1. t # Nobody
          BY DeliveryAssumption
        <4>2. cl[c].ord = th[t].ord
          BY <3>1, <4>1 DEF Links
        <4>3. cl'[c].ord = cl[c].ord /\ cl'[c].reply = kind
          BY <2>2, <3>1, AnswerAt DEF TypeInv
        <4> QED BY <2>2, <4>2, <4>3
      <3>2. CASE cl[c].req # t
        <4>1. cl'[c] = cl[c]
          BY <2>2, <3>2, AnswerAt DEF TypeInv
        <4> QED BY <2>2, <4>1 DEF MarkerInv
      <3> QED BY <3>1, <3>2
    <2> QED BY <2>1, <2>2 DEF MovesInside, Marks
  <1> QED BY <1>1, <1>2, <1>3 DEF MarkerInv

LEMMA MarkerWrite ==
  ASSUME TypeInv, Links, OneDeliverer, MarkerInv, ~DbFaults, NEW t \in Threads, Write(t)
  PROVE  MarkerInv'
  <1> DEFINE o == th[t].ord
             b == (marker[o] \/ th'[t].reply = "only")
  <1>1. /\ Only(t) /\ th'[t].ord = o /\ th'[t].pc = "leave"
        /\ th'[t].reply \in {"closed", "only", "normal"}
        /\ marker' = [marker EXCEPT ![o] = b]
    BY WriteAt DEF Only
  <1>2. marker \in [Orders -> BOOLEAN] /\ Working(t, o) /\ o \in Orders /\ UNCHANGED cl
    BY DEF Write, At, Working, Locked, TypeInv, StoreOK, FlowsOK, FlowOK
  <1>3. (b = marker[o] \/ b = TRUE) /\ (th'[t].reply = "only" => b = TRUE)
    BY <1>2
  <1> HIDE DEF b
  <1>4. \A p : marker[p] /\ p \in Orders => marker'[p]
    BY <1>1, <1>2, <1>3
  <1>5. \A u \in Threads : th'[u].pc \in Inner => ~marker'[th'[u].ord]
    <2>1. ASSUME NEW u \in Threads, th'[u].pc \in Inner
          PROVE  ~marker'[th'[u].ord]
      <3>1. u # t /\ th'[u] = th[u] /\ th[u].pc \in Locked /\ th[u].ord \in Orders
        BY <1>1, <2>1 DEF Only, Inner, Locked, TypeInv, FlowsOK, FlowOK
      <3>2. th[u].ord # o
        BY <1>2, <3>1 DEF OneDeliverer, Working
      <3> QED BY <1>1, <1>2, <2>1, <3>1, <3>2 DEF MarkerInv
    <2> QED BY <2>1
  <1>6. \A u \in Threads : th'[u].reply \in {"only", "alreadyOnly"} => marker'[th'[u].ord]
    <2>1. ASSUME NEW u \in Threads, th'[u].reply \in {"only", "alreadyOnly"}
          PROVE  marker'[th'[u].ord]
      <3>1. CASE u = t
        BY <1>1, <1>2, <1>3, <2>1, <3>1
      <3>2. CASE u # t
        <4>1. th'[u] = th[u] /\ marker[th[u].ord]
          BY <1>1, <2>1, <3>2 DEF Only, MarkerInv
        <4>2. th[u].ord = o \/ marker'[th[u].ord] = marker[th[u].ord]
          BY <1>1, <1>2
        <4>3. marker[o] => marker'[o]
          BY <1>2, <1>4
        <4> QED BY <4>1, <4>2, <4>3
      <3> QED BY <3>1, <3>2
    <2> QED BY <2>1
  <1>7. \A c \in Callers : cl'[c].reply \in {"only", "alreadyOnly"} => marker'[cl'[c].ord]
    <2>1. \A c \in Callers : cl[c].reply # "none" => cl[c].ord \in Orders
      BY WaitingIdle DEF Links, TypeInv, CallersOK, CallerOK
    <2> QED BY <1>2, <1>4, <2>1 DEF MarkerInv
  <1> QED BY <1>5, <1>6, <1>7 DEF MarkerInv

\* A caller's step forgets what it was told, or keeps it for the same order.
CallerKeeps(c) ==
  /\ \A d \in Callers : d # c => cl'[d] = cl[d]
  /\ \/ cl'[c].reply = "none"
     \/ cl'[c].reply = cl[c].reply /\ cl'[c].ord = cl[c].ord

LEMMA CallerKept ==
  ASSUME TypeInv, NEW c \in Callers,
         \/ CallerStep(c)
         \/ c \in Scheds /\ ((\E o \in Orders : SchedSnapshot(c, o)) \/ SchedCanShip(c))
         \/ c \in Manuals /\ \E o \in Orders : ManualStart(c, o)
  PROVE  CallerKeeps(c)
  <1>1. CASE CallerRedis(c)
    BY <1>1, CallerRedisAt, WaitingIdle DEF CallerKeeps
  <1>2. CASE CallerCall(c)
    BY <1>2, CallerCallAt DEF CallerKeeps
  <1>3. CASE CallerTimeout(c)
    BY <1>3, CallerTimeoutAt DEF CallerKeeps
  <1>4. CASE CallerDone(c)
    BY <1>4, CallerGotoAt DEF CallerDone, CallerKeeps
  <1>5. CASE CallerFree(c)
    BY <1>5, CallerFreeAt, WaitingIdle DEF CallerKeeps
  <1>6. ASSUME NEW o \in Orders, SchedSnapshot(c, o) \/ ManualStart(c, o)
        PROVE  CallerKeeps(c)
    BY <1>6, BeginAt DEF SchedSnapshot, ManualStart, CallerKeeps
  <1>7. CASE SchedCanShip(c)
    BY <1>7, CallerGotoAt DEF SchedCanShip, CallerKeeps
  <1> QED BY <1>1, <1>2, <1>3, <1>4, <1>5, <1>6, <1>7 DEF CallerStep

LEMMA MarkerCaller ==
  ASSUME TypeInv, MarkerInv, NEW c \in Callers,
         \/ CallerStep(c)
         \/ c \in Scheds /\ ((\E o \in Orders : SchedSnapshot(c, o)) \/ SchedCanShip(c))
         \/ c \in Manuals /\ \E o \in Orders : ManualStart(c, o)
  PROVE  MarkerInv' /\ UNCHANGED marker
  <1>1. CallerKeeps(c)
    BY CallerKept
  <1>2. UNCHANGED marker
    <2>1. CASE CallerDone(c)
      <3>1. marker \in [Orders -> BOOLEAN]
        BY DEF TypeInv, StoreOK
      <3>2. marker' = marker \/
            (marker[cl[c].ord] /\ marker' = [marker EXCEPT ![cl[c].ord] = TRUE])
        BY <2>1 DEF CallerDone, MarkerInv
      <3>3. cl[c].ord \in Orders
        BY <2>1 DEF CallerDone, CallerAt, TypeInv, CallersOK, CallerOK
      <3> QED BY <3>1, <3>2, <3>3
    <2>2. CASE ~CallerDone(c)
      BY <2>2 DEF CallerStep, CallerRedis, CallerCall, CallerTimeout, CallerFree, SchedSnapshot,
                  SchedCanShip, ManualStart, database
    <2> QED BY <2>1, <2>2
  <1>3. \A t \in Threads : th'[t].pc \in Inner => ~marker[th'[t].ord]
    <2>1. CASE CallerCall(c)
      <3>1. PICK t \in Calls : Only(t) /\ th'[t] = [Idle EXCEPT !.pc = "lock", !.ord = cl[c].ord, !.inst = gen]
        BY <2>1, CallerCallAt
      <3>2. th'[t].pc = "lock"
        BY <3>1 DEF Idle
      <3> QED BY <3>1, <3>2 DEF Only, MarkerInv, Inner, Locked
    <2>2. CASE ~CallerCall(c)
      <3>1. UNCHANGED th
        BY <2>2, CallerStepGoesOn DEF CallerGoesOn
      <3> QED BY <3>1 DEF MarkerInv
    <2> QED BY <2>1, <2>2
  <1>4. \A t \in Threads : th'[t].reply \in {"only", "alreadyOnly"} => marker[th'[t].ord]
    <2>1. CASE CallerCall(c)
      <3>1. PICK t \in Calls : Only(t) /\ th'[t] = [Idle EXCEPT !.pc = "lock", !.ord = cl[c].ord, !.inst = gen]
        BY <2>1, CallerCallAt
      <3>2. th'[t].reply = "none"
        BY <3>1 DEF Idle
      <3> QED BY <3>1, <3>2 DEF Only, MarkerInv
    <2>2. CASE ~CallerCall(c)
      <3>1. UNCHANGED th
        BY <2>2, CallerStepGoesOn DEF CallerGoesOn
      <3> QED BY <3>1 DEF MarkerInv
    <2> QED BY <2>1, <2>2
  <1> QED BY <1>1, <1>2, <1>3, <1>4 DEF MarkerInv, CallerKeeps

LEMMA MarkerEnvironment ==
  ASSUME TypeInv, MarkerInv, Environment
  PROVE  MarkerInv' /\ UNCHANGED marker
  <1>1. UNCHANGED marker
    BY DEF Environment, Toggle, DayEnds, Restart, Crash, Elsewhere, SyncRead, SyncWrite,
          RedisExpire, CoolExpire, ConfirmedExpire, HoldExpire, database
  <1>2. CASE UNCHANGED <<th, cl>>
    BY <1>1, <1>2 DEF MarkerInv
  <1>3. CASE Crash
    BY <1>1, <1>3, CrashAt DEF MarkerInv, Inner, Locked, Idle
  <1> QED BY <1>1, <1>2, <1>3 DEF Environment, Toggle, DayEnds, Restart, Elsewhere, SyncRead, SyncWrite,
          RedisExpire, CoolExpire, ConfirmedExpire, HoldExpire

LEMMA MarkerNext ==
  ASSUME TypeInv, Links, OneDeliverer, MarkerInv, ~DbFaults, [Next]_vars
  PROVE  MarkerInv'
  <1>1. ASSUME NEW t \in Threads,
               \/ t \in Autos /\ ((\E o \in Orders : AutoStart(t, o)) \/ AutoStep(t))
               \/ t \in Calls /\ CallCheck(t)
               \/ SharedStep(t)
        PROVE  MarkerInv'
    BY <1>1, FlowInside, MarkerOfFlow, MarkerFlow, MarkerWrite
  <1>2. CASE UNCHANGED vars
    BY <1>2 DEF vars, MarkerInv, database
  <1> QED BY <1>1, <1>2, MarkerCaller, MarkerEnvironment DEF Next

LEMMA MarkerInit == Init => MarkerInv
  BY WaitingIdle DEF Init, MarkerInv, Inner, Locked, Idle

LEMMA MarkerHolds ==
  ASSUME Isolated, ~DbFaults
  PROVE  Spec => []MarkerInv
  <1>1. TypeInv /\ Links /\ OneDeliverer /\ MarkerInv /\ [Next]_vars => MarkerInv'
    BY MarkerNext
  <1> QED BY <1>1, MarkerInit, LinksHold, OneAtATime, PTL DEF Spec

\* Only Take touches the stock, and what it does to the codes of an order.
LEMMA CardStep ==
  ASSUME [Next]_vars
  PROVE  UNCHANGED card \/ \E t \in Threads : Take(t)
  <1>1. ASSUME NEW t \in Autos, (\E o \in Orders : AutoStart(t, o)) \/ AutoStep(t)
        PROVE  UNCHANGED card
    BY <1>1 DEF AutoStart, AutoStep, AutoRedis, AutoCheck, AutoEnter, AutoMark, AutoFree
  <1>2. ASSUME NEW t \in Threads, CallCheck(t) \/ SharedStep(t)
        PROVE  UNCHANGED card \/ Take(t)
    BY <1>2 DEF CallCheck, SharedStep, Acquire, Confirm, ConfirmSkip, ConfirmRefused,
          ConfirmOnlySend, ConfirmAsk, Send, Post, Write, Leave
  <1>3. ASSUME NEW c \in Callers, CallerStep(c)
        PROVE  UNCHANGED card
    BY <1>3 DEF CallerStep, CallerRedis, CallerCall, CallerTimeout, CallerDone, CallerFree
  <1>4. ASSUME NEW s \in Scheds, (\E o \in Orders : SchedSnapshot(s, o)) \/ SchedCanShip(s)
        PROVE  UNCHANGED card
    BY <1>4 DEF SchedSnapshot, SchedCanShip
  <1>5. ASSUME NEW m \in Manuals, NEW o \in Orders, ManualStart(m, o)
        PROVE  UNCHANGED card
    BY <1>5 DEF ManualStart
  <1>6. CASE Environment
    BY <1>6 DEF Environment, Toggle, DayEnds, Restart, Crash, Elsewhere, SyncRead, SyncWrite,
          RedisExpire, CoolExpire, ConfirmedExpire, HoldExpire
  <1>7. CASE UNCHANGED vars
    BY <1>7 DEF vars
  <1> QED BY <1>1, <1>2, <1>3, <1>4, <1>5, <1>6, <1>7 DEF Next

LEMMA TakenAt ==
  ASSUME TypeInv, NEW t \in Threads, NEW c \in Codes,
         card[c] = NoOrder, card' = [card EXCEPT ![c] = th[t].ord], th[t].ord \in Orders
  PROVE  \A o \in Orders : Taken(o)' = IF o = th[t].ord THEN Taken(o) \cup {c} ELSE Taken(o)
  <1>1. card \in [Codes -> Orders \cup {NoOrder}] /\ NoOrder \notin Orders
    BY DeliveryAssumption DEF TypeInv, StoreOK
  <1> QED BY <1>1 DEF Taken

\* card_only_delivered, "持久化防重复标记": once the marker of an order is set
\* it stays, and no code leaves the stock for the order, from whatever flow,
\* after whatever switch changes; provided one flow works on the order at a
\* time and the writes of the result do not fail.
THEOREM MarkerStaysFinal ==
  ASSUME Isolated, ~DbFaults
  PROVE  Spec => MarkerIsFinal
  <1>1. ASSUME TypeInv, MarkerInv, [Next]_vars
        PROVE  \A o \in Orders : marker[o] => marker'[o] /\ Taken(o)' = Taken(o)
    <2>1. MarkerKept
      BY <1>1, MarkerFinal
    <2>2. CASE UNCHANGED card
      BY <2>1, <2>2 DEF Taken, MarkerKept
    <2>3. ASSUME NEW t \in Threads, Take(t), NEW o \in Orders, marker[o]
          PROVE  Taken(o)' = Taken(o)
      <3>1. th[t].ord \in Orders /\ th[t].ord # o
        BY <1>1, <2>3 DEF Take, At, MarkerInv, Inner, Locked, TypeInv, FlowsOK, FlowOK
      <3>2. CASE UNCHANGED card
        BY <3>2 DEF Taken
      <3>3. ASSUME NEW c \in Codes, card[c] = NoOrder, card' = [card EXCEPT ![c] = th[t].ord]
            PROVE  Taken(o)' = Taken(o)
        BY <1>1, <3>1, <3>3, TakenAt
      <3>4. UNCHANGED card \/ \E c \in Codes : card[c] = NoOrder /\ card' = [card EXCEPT ![c] = th[t].ord]
        BY <1>1, <2>3, TakeAt DEF TypeInv
      <3> QED BY <3>2, <3>3, <3>4
    <2> QED BY <1>1, <2>1, <2>2, <2>3, CardStep DEF MarkerKept
  <1>2. TypeInv /\ MarkerInv /\ [Next]_vars
        => [\A o \in Orders : marker[o] => marker'[o] /\ Taken(o)' = Taken(o)]_vars
    BY <1>1
  <1> QED BY <1>2, MarkerHolds, LinksHold, PTL DEF Spec, MarkerIsFinal

-----------------------------------------------------------------------------
(***************************************************************************)
(* The codes of an order are handed out once, in one go.  This needs the   *)
(* gate (a flow that was told the order is shipped elsewhere takes none),  *)
(* one flow at a time, a record of the result that is written and read, a  *)
(* synchronisation that writes no stale status and no 'completed' (which   *)
(* the message handler does not know); and if rules                        *)
(* close orders, an account that is not switched to only sending cards, as *)
(* the compensation of a closed order leaves no mark in the database.      *)
(***************************************************************************)
NoOnlySend == OnlySendModes = {FALSE}

Safe ==
  /\ ConfirmMode /\ Isolated
  /\ ~DbFaults /\ ~Crashes /\ ~StaleSync /\ ~Completes
  /\ Rules => NoOnlySend

Beyond == Locked \ {"check"}
Compensated(p) == NoOnlySend /\ p = "closed"

\* The rounds of flow t, and a call's current one once its code is taken.
Seats(t, r) == r.round + (IF t \in Calls /\ r.pc = "send" THEN 1 ELSE 0)

\* A flow t with the record r, on an order in state p on the platform, for
\* which the codes T are taken, and which is handled or not (h).
FlowOnce(t, r, p, T, h) ==
  /\ NoOnlySend => ~r.only /\ ~r.rOnly
  /\ r.closed => Rules /\ p = "closed" /\ T = r.got
  /\ IsFiniteSet(r.got) /\ Cardinality(r.got) <= Seats(t, r)
  /\ r.pc \in Beyond => T = r.got \/ (Compensated(p) /\ r.got = {})
  /\ r.pc = "leave" /\ r.got # {} => h \/ Compensated(p)
  /\ t \in Calls /\ r.pc = "confirm" => r.got = {}

Once(t) == FlowOnce(t, th[t], platform[th[t].ord], Taken(th[t].ord), Handled(th[t].ord))

OrderOnce(o) ==
  /\ IsFiniteSet(Taken(o)) /\ Cardinality(Taken(o)) <= Qty
  /\ NoOnlySend /\ Taken(o) # {} => platform[o] # "pending"
  /\ Settled(o) => Handled(o) \/ Compensated(platform[o])

ClosedOnce ==
  \A t, u \in Threads : th[t].closed /\ th[u].closed /\ th[t].ord = th[u].ord => t = u

OnceInv ==
  /\ \A t \in Threads : Once(t)
  /\ \A o \in Orders : OrderOnce(o)
  /\ ClosedOnce

-----------------------------------------------------------------------------
\* Every step either leaves the stock alone or takes one code.

\* A rule closes the order on the platform, to be compensated by a card.
Closes(o) == Rules /\ platform[o] = "pending" /\ platform'[o] = "closed"

Starts(t) ==
  LET n == th'[t] IN
  /\ th[t].pc = "idle" /\ n.pc \in {"redis", "lock"} /\ n.ord \in Orders
  /\ n.got = {} /\ n.round = 0 /\ n.rOnly = FALSE
  /\ n.only => onlySend
  /\ n.closed => Closes(n.ord)

Stops(t) ==
  LET r == th[t] n == th'[t] IN
  /\ n = Idle \/ (t \in Autos /\ n.pc = "free" /\ Same(r, n))
  /\ r.pc \in Beyond /\ r.got # {} => r.pc = "leave"

Onward(t) ==
  LET r == th[t] n == th'[t] IN
  /\ n.ord = r.ord /\ n.got = r.got /\ Seats(t, r) <= Seats(t, n)
  /\ n.only => r.only \/ r.rOnly \/ onlySend
  /\ n.rOnly => r.rOnly \/ onlySend
  /\ n.closed => r.closed \/ (r.pc = "check" /\ Closes(r.ord))
  /\ r.pc \notin {"idle", "free"} /\ n.pc \notin {"idle", "free"}
  /\ r.pc \in Locked => n.pc \in Locked
  /\ n.pc \in Locked => r.pc \in Locked \/ r.pc = "lock"
  /\ n.pc \in Beyond => r.pc \in Beyond \/ (r.pc = "check" /\ ~Handled(r.ord))
  /\ n.pc = "leave" /\ r.got # {} => r.closed \/ Handled(r.ord)'
  /\ t \in Calls /\ n.pc = "confirm" => r.pc = "check"

Steady(t) ==
  /\ Only(t) /\ UNCHANGED card
  /\ UNCHANGED th \/ Starts(t) \/ Stops(t) \/ Onward(t)

Takes(t, c) ==
  LET r == th[t] n == th'[t] IN
  /\ Only(t) /\ r.pc = "take"
  /\ card[c] = NoOrder /\ card' = [card EXCEPT ![c] = r.ord]
  /\ n.ord = r.ord /\ n.got = r.got \cup {c} /\ n.closed = r.closed
  /\ n.only => r.only \/ r.rOnly
  /\ n.rOnly => r.rOnly
  /\ Seats(t, n) = r.round + 1
  /\ n.pc \in {"enter", "mark", "send"}
  /\ UNCHANGED <<platform, status, marker>>

LEMMA SameOnward ==
  ASSUME TypeInv, NEW t \in Threads, Only(t), UNCHANGED card, Same(th[t], th'[t]),
         \/ th[t].pc = "redis" /\ th'[t].pc = "lock"
         \/ th[t].pc = "lock" /\ th'[t].pc = "check"
         \/ t \in Autos /\ th[t].pc = "check" /\ th'[t].pc = "enter" /\ ~Handled(th[t].ord)
         \/ t \in Autos /\ th[t].pc = "mark" /\ th'[t].pc = "send"
         \/ t \in Calls /\ th[t].pc = "take" /\ th'[t].pc = "post"
  PROVE  Steady(t)
  <1>1. t \notin Autos \/ t \notin Calls
    BY DeliveryAssumption DEF TypeInv, FlowsOK
  <1>2. th[t].round \in Nat
    BY DEF TypeInv, FlowsOK, Flow
  <1>3. Seats(t, th[t]) <= Seats(t, th'[t])
    BY <1>1, <1>2, DeliveryAssumption DEF Seats, Same
  <1> QED BY <1>3 DEF Steady, Onward, Same, Beyond, Locked

LEMMA StopsFinish ==
  ASSUME TypeInv, NEW t \in Threads, NEW kind, NEW codes, Finish(t, kind, codes), UNCHANGED card,
         th[t].pc \in Beyond /\ th[t].got # {} => th[t].pc = "leave"
  PROVE  Steady(t)
  <1>1. th[t] \in Flow
    BY DEF TypeInv, FlowsOK
  <1>2. LET n == [th[t] EXCEPT !.pc = "free"] IN n.pc = "free" /\ Same(th[t], n)
    BY <1>1 DEF Flow, Same
  <1>3. Only(t) /\ (th'[t] = Idle \/ (t \in Autos /\ th'[t].pc = "free" /\ Same(th[t], th'[t])))
    BY <1>2, FinishAt DEF Only, TypeInv
  <1> QED BY <1>3 DEF Steady, Stops

LEMMA OnwardEmptyRound ==
  ASSUME TypeInv, NEW t \in Autos, EmptyRound(t), UNCHANGED card, Once(t),
         th[t].pc \in {"confirm", "take"}
  PROVE  Steady(t)
  <1> DEFINE r == th[t]
             n == th'[t]
  <1>1. r.round \in Nat /\ t \notin Calls
    BY DeliveryAssumption DEF TypeInv, FlowsOK, Flow
  <1>2. r.round = 0 => r.got = {}
    BY <1>1, FS_EmptySet, FS_CardinalityType DEF Once, FlowOnce, Seats
  <1>3. /\ Only(t) /\ Kept(r, n) /\ n.got = r.got /\ n.only = r.only
        /\ n.rOnly => r.rOnly
        /\ n.round = r.round \/ n.round = r.round + 1
        /\ n.pc \in {"enter", "mark", "leave"} /\ (n.pc = "leave" => r.got = {})
    BY <1>2, EmptyRoundAt DEF TypeInv, Only
  <1>4. Seats(t, r) <= Seats(t, n)
    BY <1>1, <1>3 DEF Seats
  <1> QED BY <1>1, <1>3, <1>4 DEF Steady, Onward, Kept, Beyond, Locked

LEMMA AutoSteady ==
  ASSUME TypeInv, GateInv, ~DbFaults, NEW t \in Autos, Once(t),
         (\E o \in Orders : AutoStart(t, o)) \/ AutoStep(t)
  PROVE  Steady(t)
  <1> DEFINE r == th[t]
             n == th'[t]
  <1>0. t \notin Calls /\ r \in Flow
    BY DeliveryAssumption DEF TypeInv, FlowsOK
  <1>1. ASSUME NEW o \in Orders, AutoStart(t, o)
        PROVE  Steady(t)
    <2>1. UNCHANGED card
      BY <1>1 DEF AutoStart
    <2>2. CASE UNCHANGED th
      BY <2>1, <2>2 DEF Steady, Only
    <2>3. CASE ~UNCHANGED th
      <3>1. /\ Only(t) /\ r.pc = "idle" /\ n.pc = "redis" /\ n.ord = o /\ n.only = onlySend
            /\ n.closed => Rules /\ platform[o] = "pending" /\ platform'[o] = "closed"
            /\ n.rOnly = FALSE /\ n.got = {} /\ n.round = 0
        BY <1>1, <2>3, AutoStartAt
      <3> QED BY <2>1, <3>1 DEF Steady, Starts, Closes
    <2> QED BY <2>2, <2>3
  <1>2. CASE AutoRedis(t)
    <2>1. UNCHANGED card
      BY <1>2 DEF AutoRedis
    <2>2. Only(t) /\ r.pc = "redis" /\ (n = Idle \/ (Same(r, n) /\ n.pc = "lock"))
      BY <1>2, AutoRedisAt
    <2> QED BY <2>1, <2>2, SameOnward DEF Steady, Stops, Beyond, Locked
  <1>3. CASE AutoCheck(t)
    <2>1. UNCHANGED card
      BY <1>3 DEF AutoCheck
    <2> QED BY <1>3, <2>1, AutoCheckAt, StopsFinish, SameOnward DEF Beyond
  <1>4. CASE AutoEnter(t)
    <2>1. UNCHANGED card
      BY <1>4 DEF AutoEnter
    <2>2. /\ Only(t) /\ r.pc = "enter" /\ n.pc = "confirm" /\ Kept(r, n) /\ n.got = r.got
          /\ n.only = r.only /\ n.round = r.round /\ n.rOnly = onlySend
      BY <1>4, AutoEnterAt
    <2>3. Seats(t, r) <= Seats(t, n)
      BY <1>0, <2>2 DEF Seats, Flow
    <2> QED BY <1>0, <2>1, <2>2, <2>3 DEF Steady, Onward, Kept, Beyond, Locked
  <1>5. CASE AutoMark(t)
    <2>1. UNCHANGED card
      BY <1>5 DEF AutoMark
    <2> QED BY <1>5, <2>1, AutoMarkAt, SameOnward
  <1>6. CASE AutoFree(t)
    <2>1. UNCHANGED card /\ Only(t) /\ n = Idle /\ r.pc = "free"
      BY <1>6, BecomeAt DEF AutoFree, TypeInv, Only, At
    <2> QED BY <2>1 DEF Steady, Stops, Beyond, Locked
  <1> QED BY <1>1, <1>2, <1>3, <1>4, <1>5, <1>6 DEF AutoStep

LEMMA CallSteady ==
  ASSUME TypeInv, GateInv, NEW t \in Calls, CallCheck(t)
  PROVE  Steady(t)
  <1> DEFINE r == th[t]
             n == th'[t]
  <1>1. UNCHANGED card /\ r.pc = "check" /\ r \in Flow
    BY DEF CallCheck, At, TypeInv, FlowsOK
  <1>2. CASE \E kind, codes : Finish(t, kind, codes)
    BY <1>1, <1>2, StopsFinish DEF Beyond
  <1>3. CASE ~\E kind, codes : Finish(t, kind, codes)
    <2>1. /\ ~Handled(r.ord) /\ Only(t)
          /\ n.pc = "confirm" /\ n.only = onlySend
          /\ n.closed => Rules /\ platform[r.ord] = "pending" /\ platform'[r.ord] = "closed"
          /\ n.ord = r.ord /\ n.got = r.got /\ n.round = r.round /\ n.rOnly = r.rOnly
      BY <1>3, CallCheckAt
    <2>2. Seats(t, r) <= Seats(t, n)
      BY <1>1, <2>1 DEF Seats, Flow
    <2> QED BY <1>1, <2>1, <2>2 DEF Steady, Onward, Closes, Beyond, Locked
  <1> QED BY <1>2, <1>3

LEMMA AcquireSteady ==
  ASSUME TypeInv, NEW t \in Threads, Acquire(t)
  PROVE  Steady(t)
  <1>1. UNCHANGED card
    BY DEF Acquire
  <1>2. /\ Only(t) /\ th[t].pc = "lock"
        /\ \/ Same(th[t], th'[t]) /\ th'[t].pc = "check"
           \/ t \in Autos /\ Same(th[t], th'[t]) /\ th'[t].pc = "free"
           \/ th'[t] = Idle
    BY AcquireAt
  <1> QED BY <1>1, <1>2, SameOnward DEF Steady, Stops, Beyond, Locked

LEMMA ConfirmSteady ==
  ASSUME TypeInv, NEW t \in Threads, Once(t), Confirm(t)
  PROVE  Steady(t)
  <1> DEFINE r == th[t]
             n == th'[t]
  <1>1. UNCHANGED card /\ r.pc = "confirm" /\ r \in Flow /\ (t \in Autos => t \notin Calls)
    BY ConfirmAt, DeliveryAssumption
       DEF Confirm, ConfirmSkip, ConfirmRefused, ConfirmOnlySend, ConfirmAsk, TypeInv, FlowsOK
  <1>2. CASE t \in Autos /\ EmptyRound(t)
    BY <1>1, <1>2, OnwardEmptyRound
  <1>3. CASE t \in Calls /\ \E kind, codes : Finish(t, kind, codes)
    <2>1. r.got = {}
      BY <1>1, <1>3 DEF Once, FlowOnce
    <2> QED BY <1>1, <1>3, <2>1, StopsFinish
  <1>4. CASE ~(\/ t \in Autos /\ EmptyRound(t)
               \/ t \in Calls /\ \E kind, codes : Finish(t, kind, codes))
    <2>1. /\ Only(t) /\ n.pc = "take" /\ Kept(r, n) /\ n.got = r.got /\ n.only = r.only
          /\ n.round = r.round /\ (n.rOnly = r.rOnly \/ onlySend)
      BY <1>4, ConfirmAt
    <2>2. Seats(t, r) <= Seats(t, n)
      BY <1>1, <2>1 DEF Seats, Flow
    <2> QED BY <1>1, <2>1, <2>2 DEF Steady, Onward, Kept, Beyond, Locked
  <1> QED BY <1>2, <1>3, <1>4

LEMMA TakeSteady ==
  ASSUME TypeInv, NEW t \in Threads, Once(t), Take(t)
  PROVE  Steady(t) \/ \E c \in Codes : Takes(t, c)
  <1> DEFINE r == th[t]
             n == th'[t]
  <1>1. /\ r.pc = "take" /\ r \in Flow /\ (t \in Autos => t \notin Calls)
        /\ UNCHANGED <<platform, status, marker>>
    BY DeliveryAssumption DEF Take, At, TypeInv, FlowsOK, database
  <1>2. CASE t \in Autos /\ EmptyRound(t) /\ UNCHANGED card
    BY <1>1, <1>2, OnwardEmptyRound
  <1>3. CASE r.got = {} /\ Finish(t, "fail", {}) /\ UNCHANGED card
    BY <1>3, StopsFinish
  <1>4. CASE t \in Calls /\ Goto(t, "post") /\ UNCHANGED card
    <2>1. Only(t) /\ Same(r, n) /\ n.pc = "post"
      BY <1>4, GotoAt DEF TypeInv
    <2> QED BY <1>1, <1>4, <2>1, SameOnward
  <1>5. ASSUME NEW c \in Codes, Only(t), card[c] = NoOrder, card' = [card EXCEPT ![c] = r.ord],
               Kept(r, n), n.got = r.got \cup {c}, n.only = (r.only \/ r.rOnly),
               \/ t \in Autos /\ n.round = r.round + 1 /\ n.rOnly = FALSE
                  /\ n.pc \in {"enter", "mark"}
               \/ t \in Calls /\ n.round = r.round /\ n.pc = "send" /\ n.rOnly = r.rOnly
        PROVE  Takes(t, c)
    <2>1. Seats(t, n) = r.round + 1
      BY <1>1, <1>5 DEF Seats, Flow
    <2> QED BY <1>1, <1>5, <2>1 DEF Takes, Kept
  <1>6. CASE \E c \in Codes :
              /\ Only(t) /\ card[c] = NoOrder /\ card' = [card EXCEPT ![c] = r.ord]
              /\ Kept(r, n) /\ n.got = r.got \cup {c} /\ n.only = (r.only \/ r.rOnly)
              /\ \/ t \in Autos /\ n.round = r.round + 1 /\ n.rOnly = FALSE
                    /\ n.pc \in {"enter", "mark"}
                 \/ t \in Calls /\ n.round = r.round /\ n.pc = "send" /\ n.rOnly = r.rOnly
    BY <1>5, <1>6
  <1> QED BY <1>2, <1>3, <1>4, <1>6, TakeAt DEF Only, TypeInv

LEMMA SharedSteady ==
  ASSUME TypeInv, NEW t \in Threads, Once(t), ~DbFaults, SharedStep(t)
  PROVE  Steady(t) \/ \E c \in Codes : Takes(t, c)
  <1> DEFINE r == th[t]
             n == th'[t]
  <1>0. r \in Flow /\ (t \in Autos <=> t \notin Calls)
    BY DeliveryAssumption DEF TypeInv, FlowsOK
  <1>1. CASE Send(t)
    <2>1. UNCHANGED card /\ r.pc = "send"
      BY <1>1 DEF Send, At
    <2>2. /\ Only(t) /\ Kept(r, n) /\ n.got = r.got /\ n.only = r.only /\ n.rOnly = r.rOnly
          /\ n.pc \in {"send", "post", "take"}
          /\ \/ t \in Autos /\ n.round = r.round
             \/ t \in Calls /\ n.round = r.round + 1
      BY <1>1, SendAt DEF TypeInv, Only
    <2>3. Seats(t, r) <= Seats(t, n)
      BY <1>0, <2>1, <2>2 DEF Seats, Flow
    <2> QED BY <2>1, <2>2, <2>3 DEF Steady, Onward, Kept, Beyond, Locked
  <1>2. CASE Post(t)
    <2>1. UNCHANGED card /\ r.pc = "post"
      BY <1>2 DEF Post, At
    <2>2. /\ Only(t) /\ Kept(r, n) /\ n.got = r.got /\ n.rOnly = r.rOnly
          /\ n.pc = "write" /\ n.round = r.round
          /\ n.only = (r.only \/ (~r.conf /\ onlySend))
      BY <1>2, PostAt DEF Only
    <2>3. Seats(t, r) <= Seats(t, n) /\ (n.only => r.only \/ onlySend)
      BY <1>0, <2>1, <2>2 DEF Seats, Flow
    <2> QED BY <2>1, <2>2, <2>3 DEF Steady, Onward, Kept, Beyond, Locked
  <1>3. CASE Write(t)
    <2>1. UNCHANGED card /\ r.pc = "write" /\ r.ord \in Orders
      BY <1>3 DEF Write, At, TypeInv, FlowsOK, FlowOK
    <2>2. /\ Only(t) /\ n.ord = r.ord /\ n.closed = r.closed /\ n.got = r.got
          /\ n.rOnly = r.rOnly /\ n.round = r.round /\ n.pc = "leave"
          /\ n.only = (r.only \/ (~r.conf /\ onlySend))
          /\ n.reply = IF r.closed THEN "closed"
                       ELSE IF n.only /\ ~r.conf THEN "only" ELSE "normal"
          /\ marker' = [marker EXCEPT ![r.ord] = @ \/ n.reply = "only"]
          /\ status' = IF n.reply = "normal" THEN [status EXCEPT ![r.ord] = "shipped"]
                       ELSE status
      BY <1>3, WriteAt DEF Only
    <2>3. Seats(t, r) <= Seats(t, n) /\ (n.only => r.only \/ onlySend)
      BY <1>0, <2>1, <2>2 DEF Seats, Flow
    <2>4. r.closed \/ Handled(r.ord)'
      <3>1. /\ marker \in [Orders -> BOOLEAN]
            /\ status \in [Orders -> Statuses]
        BY DEF TypeInv, StoreOK
      <3>2. n.reply = "normal" => status'[r.ord] = "shipped"
        BY <2>1, <2>2, <3>1
      <3> DEFINE b == (marker[r.ord] \/ n.reply = "only")
      <3>3. marker' = [marker EXCEPT ![r.ord] = b]
        BY <2>2
      <3>4. n.reply = "only" => b = TRUE
        OBVIOUS
      <3> HIDE DEF b
      <3>5. n.reply = "only" => marker'[r.ord] = TRUE
        BY <2>1, <3>1, <3>3, <3>4
      <3>6. r.closed \/ n.reply \in {"only", "normal"}
        BY <2>2
      <3>7. n.ord = r.ord
        BY <2>2
      <3> QED BY <3>2, <3>5, <3>6, <3>7 DEF Handled
    <2>5. /\ Only(t) /\ n.ord = r.ord /\ n.closed = r.closed /\ n.got = r.got
          /\ n.rOnly = r.rOnly /\ n.pc = "leave"
      BY <2>2
    <2> QED BY <1>0, <2>1, <2>3, <2>4, <2>5 DEF Steady, Onward, Beyond, Locked
  <1>4. CASE Leave(t)
    BY <1>4, StopsFinish DEF Leave, At
  <1> QED BY <1>1, <1>2, <1>3, <1>4, AcquireSteady, ConfirmSteady, TakeSteady DEF SharedStep

LEMMA CallerSteady ==
  ASSUME TypeInv, NEW c \in Callers, CallerCall(c)
  PROVE  \E t \in Threads : Steady(t)
  <1>1. UNCHANGED card /\ cl[c].pc = "call"
    BY DEF CallerCall, CallerAt
  <1>2. cl[c].ord \in Orders
    BY <1>1 DEF TypeInv, CallersOK, CallerOK
  <1>3. PICK t \in Calls :
              /\ Only(t) /\ th[t].pc = "idle"
              /\ th'[t] = [Idle EXCEPT !.pc = "lock", !.ord = cl[c].ord, !.inst = gen]
    BY CallerCallAt
  <1>4. LET n == th'[t] IN
        /\ n.pc = "lock" /\ n.ord = cl[c].ord /\ n.got = {} /\ n.round = 0
        /\ n.rOnly = FALSE /\ n.only = FALSE /\ n.closed = FALSE
    BY <1>3 DEF Idle
  <1> QED BY <1>1, <1>2, <1>3, <1>4 DEF Steady, Starts

LEMMA NextSteady ==
  ASSUME TypeInv, GateInv, OnceInv, Safe, [Next]_vars
  PROVE  \/ UNCHANGED <<th, card>>
         \/ \E t \in Threads : Steady(t) \/ \E c \in Codes : Takes(t, c)
  <1>0. \A t \in Threads : Once(t)
    BY DEF OnceInv
  <1>1. ASSUME NEW t \in Autos, (\E o \in Orders : AutoStart(t, o)) \/ AutoStep(t)
        PROVE  Steady(t)
    BY <1>0, <1>1, AutoSteady DEF Safe
  <1>2. ASSUME NEW t \in Calls, CallCheck(t)
        PROVE  Steady(t)
    BY <1>2, CallSteady
  <1>3. ASSUME NEW t \in Threads, SharedStep(t)
        PROVE  Steady(t) \/ \E c \in Codes : Takes(t, c)
    BY <1>0, <1>3, SharedSteady DEF Safe
  <1>4. ASSUME NEW c \in Callers, CallerStep(c)
        PROVE  UNCHANGED <<th, card>> \/ \E t \in Threads : Steady(t)
    BY <1>4, CallerSteady DEF CallerStep, CallerRedis, CallerTimeout, CallerDone, CallerFree
  <1>5. ASSUME NEW s \in Scheds, (\E o \in Orders : SchedSnapshot(s, o)) \/ SchedCanShip(s)
        PROVE  UNCHANGED <<th, card>>
    BY <1>5 DEF SchedSnapshot, SchedCanShip
  <1>6. ASSUME NEW m \in Manuals, NEW o \in Orders, ManualStart(m, o)
        PROVE  UNCHANGED <<th, card>>
    BY <1>6 DEF ManualStart
  <1>7. CASE Environment
    BY <1>7 DEF Environment, Toggle, DayEnds, Restart, Crash, Elsewhere, SyncRead, SyncWrite,
          RedisExpire, CoolExpire, ConfirmedExpire, HoldExpire, Safe
  <1>8. CASE UNCHANGED vars
    BY <1>8 DEF vars
  <1> QED BY <1>1, <1>2, <1>3, <1>4, <1>5, <1>6, <1>7, <1>8 DEF Next

\* What the database says of an order that was handed out stays.
HandledKept == \A o \in Orders : Handled(o) => Handled(o)'

LEMMA StatusKept ==
  ASSUME TypeInv, GateInv, ~StaleSync, ~Completes, [Next]_vars, NEW o \in Orders, status[o] = "shipped"
  PROVE  status'[o] = "shipped"
  <1>0. /\ platform[o] = "shipped" /\ StatusOf["shipped"] = "shipped"
        /\ status \in [Orders -> Statuses]
    BY DEF GateInv, StoreGate, StatusOf, TypeInv, StoreOK
  <1>1. CASE UNCHANGED status
    BY <1>1
  <1>2. ASSUME NEW q, \/ status' = [status EXCEPT ![q] = "shipped"]
                      \/ status' = [status EXCEPT ![q] = StatusOf[platform[q]]]
        PROVE  status'[o] = "shipped"
    BY <1>0, <1>2
  <1>3. ASSUME NEW t \in Autos, (\E q \in Orders : AutoStart(t, q)) \/ AutoStep(t)
        PROVE  UNCHANGED status
    BY <1>3 DEF AutoStart, AutoStep, AutoRedis, AutoCheck, AutoEnter, AutoMark, AutoFree, database
  <1>4. ASSUME NEW t \in Threads, CallCheck(t) \/ SharedStep(t)
        PROVE  UNCHANGED status \/ \E q : status' = [status EXCEPT ![q] = "shipped"]
    BY <1>4, WriteAt DEF CallCheck, SharedStep, Acquire, Confirm, ConfirmSkip, ConfirmRefused,
          ConfirmOnlySend, ConfirmAsk, Take, Send, Post, Leave, database
  <1>5. ASSUME NEW c \in Callers, CallerStep(c)
        PROVE  UNCHANGED status \/ \E q : status' = [status EXCEPT ![q] = "shipped"]
    BY <1>5 DEF CallerStep, CallerRedis, CallerCall, CallerTimeout, CallerDone, CallerFree, database
  <1>6. ASSUME NEW s \in Scheds, (\E q \in Orders : SchedSnapshot(s, q)) \/ SchedCanShip(s)
        PROVE  UNCHANGED status \/ \E q : status' = [status EXCEPT ![q] = StatusOf[platform[q]]]
    BY <1>6 DEF SchedSnapshot, SchedCanShip, database
  <1>7. ASSUME NEW m \in Manuals, NEW q \in Orders, ManualStart(m, q)
        PROVE  UNCHANGED status
    BY <1>7 DEF ManualStart, database
  <1>8. CASE Environment
    <2>1. UNCHANGED status \/ \E q \in Orders : SyncWrite(q)
      BY <1>8 DEF Environment, Toggle, DayEnds, Restart, Crash, Elsewhere, SyncRead,
          RedisExpire, CoolExpire, ConfirmedExpire, HoldExpire, database
    <2>2. ASSUME NEW q \in Orders, SyncWrite(q)
          PROVE  status' = [status EXCEPT ![q] = StatusOf[platform[q]]]
      BY <2>2 DEF SyncWrite, Synced
    <2> QED BY <1>1, <1>2, <2>1, <2>2
  <1>9. CASE UNCHANGED vars
    BY <1>1, <1>9 DEF vars, database
  <1> QED BY <1>1, <1>2, <1>3, <1>4, <1>5, <1>6, <1>7, <1>8, <1>9 DEF Next

LEMMA HandledStays ==
  ASSUME TypeInv, GateInv, MarkerInv, ~StaleSync, ~Completes, [Next]_vars
  PROVE  HandledKept
  BY StatusKept, MarkerFinal DEF HandledKept, Handled, MarkerKept

\* The parts of the invariant that only grow.
LEMMA OnceKept ==
  ASSUME NEW t \in Threads, NEW r, NEW p, NEW q, NEW T, NEW h, NEW g,
         FlowOnce(t, r, p, T, h), p # "pending" => q = p, h => g
  PROVE  FlowOnce(t, r, q, T, g)
  BY Zenon DEF FlowOnce, Compensated

LEMMA IdleOnce ==
  ASSUME NEW t \in Threads, NEW p, NEW T, NEW h
  PROVE  FlowOnce(t, Idle, p, T, h)
  BY FS_EmptySet DEF FlowOnce, Idle, Beyond, Locked, Seats

LEMMA OnceAt ==
  ASSUME NEW t \in Threads, NEW r, NEW o, th'[t] = r, r.ord = o,
         FlowOnce(t, r, platform'[o], Taken(o)', Handled(o)')
  PROVE  Once(t)'
  <1>1. /\ platform'[o] = platform'[th'[t].ord]
        /\ Taken(o)' = {c \in Codes : card'[c] = th'[t].ord}
        /\ Handled(o)' = (status'[th'[t].ord] = "shipped" \/ marker'[th'[t].ord])
    BY DEF Taken, Handled
  <1>2. FlowOnce(t, th'[t], platform'[th'[t].ord], {c \in Codes : card'[c] = th'[t].ord},
                 status'[th'[t].ord] = "shipped" \/ marker'[th'[t].ord])
    BY <1>1
  <1> QED BY <1>2 DEF Once, FlowOnce, Taken, Handled, Compensated, Seats

LEMMA OtherOnce ==
  ASSUME TypeInv, Links, PlatformFinal, HandledKept, NEW u \in Threads, Once(u),
         th'[u] = th[u],
         \A o \in Orders : o = th[u].ord => Taken(o)' = Taken(o)
  PROVE  Once(u)'
  <1>1. CASE th[u].pc = "idle"
    <2>1. th'[u] = Idle
      BY <1>1 DEF Links
    <2> QED BY <2>1, IdleOnce, OnceAt
  <1>2. CASE th[u].pc # "idle"
    <2>1. PICK o \in Orders : o = th[u].ord
      BY <1>2 DEF TypeInv, FlowsOK, FlowOK
    <2>2. FlowOnce(u, th[u], platform[o], Taken(o), Handled(o))
      BY <2>1 DEF Once
    <2>3. FlowOnce(u, th[u], platform'[o], Taken(o), Handled(o)')
      BY <2>2, OnceKept DEF PlatformFinal, HandledKept
    <2>4. FlowOnce(u, th[u], platform'[o], Taken(o)', Handled(o)')
      BY <2>1, <2>3
    <2> QED BY <2>1, <2>4, OnceAt
  <1> QED BY <1>1, <1>2

\* A flow that passes the check works on an order that has got nothing.
LEMMA EntersClean ==
  ASSUME TypeInv, Links, GateInv, OneDeliverer, OnceInv, NEW t \in Threads,
         th[t].pc = "check", ~Handled(th[t].ord)
  PROVE  /\ th[t].got = {}
         /\ Taken(th[t].ord) = {} \/ (Compensated(platform[th[t].ord]) /\ ~th[t].closed)
  <1> DEFINE o == th[t].ord
  <1>1. o \in Orders /\ Working(t, o) /\ th[t].got = {}
    BY DEF TypeInv, FlowsOK, FlowOK, Working, Locked, GateInv, FlowsGate, FlowGate
  <1>2. \A u \in Threads : ~(Working(u, o) /\ th[u].got # {})
    BY <1>1 DEF OneDeliverer
  <1>3. Taken(o) # {} => Compensated(platform[o])
    BY <1>1, <1>2 DEF OnceInv, OrderOnce, Settled
  <1>4. th[t].closed => Taken(o) = {}
    BY <1>1 DEF OnceInv, Once, FlowOnce
  <1> QED BY <1>1, <1>3, <1>4

LEMMA SteadyOnce ==
  ASSUME TypeInv, TypeInv', Links, GateInv, OneDeliverer, OnceInv, Safe, PlatformFinal, HandledKept,
         NEW t \in Threads, Steady(t)
  PROVE  Once(t)'
  <1> DEFINE r == th[t]
             n == th'[t]
  <1>1. Once(t) /\ UNCHANGED card /\ (\A o \in Orders : OrderOnce(o)) /\ r \in Flow
    BY DEF OnceInv, Steady, TypeInv, FlowsOK
  <1>2. \A o \in Orders : Taken(o)' = Taken(o)
    BY <1>1 DEF Taken
  <1>3. NoOnlySend => onlySend = FALSE
    BY DEF TypeInv, StoreOK, NoOnlySend
  <1>4. CASE UNCHANGED th
    BY <1>1, <1>2, <1>4, OtherOnce
  <1>5. CASE Starts(t)
    <2>1. PICK o \in Orders : o = n.ord
      BY <1>5 DEF Starts
    <2>2. /\ n.pc \in {"redis", "lock"} /\ n.got = {} /\ n.round = 0 /\ n.rOnly = FALSE
          /\ n.only => onlySend
          /\ n.closed => Closes(o)
      BY <1>5, <2>1 DEF Starts
    <2>3. n.closed => Rules /\ platform'[o] = "closed" /\ Taken(o)' = {}
      BY <1>1, <1>2, <2>2 DEF Closes, OrderOnce, Safe
    <2>4. IsFiniteSet(n.got) /\ Cardinality(n.got) <= Seats(t, n)
      BY <2>2, FS_EmptySet DEF Seats
    <2>5. FlowOnce(t, n, platform'[o], Taken(o)', Handled(o)')
      BY <1>3, <2>2, <2>3, <2>4 DEF FlowOnce, Beyond, Locked
    <2> QED BY <2>1, <2>5, OnceAt
  <1>6. CASE n = Idle
    BY <1>6, IdleOnce, OnceAt
  <1>7. CASE t \in Autos /\ n.pc = "free" /\ Same(r, n)
    <2>1. r.pc # "idle"
      BY <1>7, DeliveryAssumption DEF Links, Same, Idle, TypeInv, FlowsOK, FlowOK
    <2>2. PICK o \in Orders : o = r.ord
      BY <2>1 DEF TypeInv, FlowsOK, FlowOK
    <2>3. FlowOnce(t, r, platform'[o], Taken(o)', Handled(o)')
      BY <1>1, <1>2, <2>2, OnceKept DEF Once, PlatformFinal, HandledKept
    <2>4. Seats(t, n) = Seats(t, r)
      BY <1>1, <1>7, DeliveryAssumption DEF Seats, Same, Flow
    <2>5. FlowOnce(t, n, platform'[o], Taken(o)', Handled(o)')
      BY <1>7, <2>3, <2>4 DEF FlowOnce, Same, Beyond, Locked
    <2> QED BY <1>7, <2>2, <2>5, OnceAt DEF Same
  <1>8. CASE Onward(t)
    <2>1. PICK o \in Orders : o = r.ord
      BY <1>8 DEF Onward, TypeInv, FlowsOK, FlowOK
    <2>2. FlowOnce(t, r, platform[o], Taken(o), Handled(o))
      BY <1>1, <2>1 DEF Once
    <2>3. NoOnlySend => ~n.only /\ ~n.rOnly
      BY <1>3, <1>8, <2>2 DEF Onward, FlowOnce
    <2>4. n.closed => Rules /\ platform'[o] = "closed" /\ Taken(o)' = n.got
      <3>1. CASE r.closed
        BY <1>2, <1>8, <2>1, <2>2, <3>1 DEF Onward, FlowOnce, PlatformFinal
      <3>2. CASE r.pc = "check" /\ Closes(r.ord)
        <4>1. r.got = {}
          BY <3>2 DEF GateInv, FlowsGate, FlowGate
        <4>2. Taken(o) = {}
          BY <1>1, <2>1, <3>2 DEF Closes, OrderOnce, Safe
        <4> QED BY <1>2, <1>8, <2>1, <3>2, <4>1, <4>2 DEF Onward, Closes
      <3> QED BY <1>8, <3>1, <3>2 DEF Onward
    <2>5. IsFiniteSet(n.got) /\ Cardinality(n.got) <= Seats(t, n)
      <3>1. Seats(t, r) \in Int /\ Seats(t, n) \in Int
        BY <1>1 DEF Seats, Flow, TypeInv, FlowsOK
      <3>2. Cardinality(r.got) \in Nat /\ IsFiniteSet(r.got) /\ Cardinality(r.got) <= Seats(t, r)
        BY <2>2, FS_CardinalityType DEF FlowOnce
      <3> QED BY <1>8, <3>1, <3>2 DEF Onward
    <2>6. n.pc \in Beyond => Taken(o)' = n.got \/ (Compensated(platform'[o]) /\ n.got = {})
      <3>1. CASE r.pc \in Beyond
        BY <1>2, <1>8, <2>1, <2>2, <3>1 DEF Onward, FlowOnce, PlatformFinal, Compensated
      <3>2. CASE r.pc = "check" /\ ~Handled(r.ord)
        BY <1>2, <1>8, <2>1, <3>2, EntersClean DEF Onward, PlatformFinal, Compensated
      <3> QED BY <1>8, <3>1, <3>2 DEF Onward
    <2>7. n.pc = "leave" /\ n.got # {} => Handled(o)' \/ Compensated(platform'[o])
      <3>1. r.closed => Compensated(platform'[o])
        BY <2>1, <2>2 DEF FlowOnce, PlatformFinal, Compensated, Safe
      <3>2. Handled(r.ord)' => Handled(o)'
        BY <1>8, <2>1 DEF Onward, Handled
      <3> QED BY <1>8, <3>1, <3>2 DEF Onward
    <2>8. t \in Calls /\ n.pc = "confirm" => n.got = {}
      BY <1>8 DEF Onward, GateInv, FlowsGate, FlowGate
    <2>9. FlowOnce(t, n, platform'[o], Taken(o)', Handled(o)')
      BY <2>3, <2>4, <2>5, <2>6, <2>7, <2>8 DEF FlowOnce
    <2>10. n.ord = o
      BY <1>8, <2>1 DEF Onward
    <2> QED BY <2>9, <2>10, OnceAt
  <1> QED BY <1>4, <1>5, <1>6, <1>7, <1>8 DEF Steady, Stops

\* Who may take a code took all that the order has, and nobody compensates it.
LEMMA TakerAlone ==
  ASSUME TypeInv, GateInv, OneDeliverer, OnceInv, Safe,
         NEW t \in Threads, th[t].pc = "take"
  PROVE  /\ th[t].ord \in Orders /\ Working(t, th[t].ord)
         /\ Taken(th[t].ord) = th[t].got
         /\ NoOnlySend => platform[th[t].ord] # "pending"
         /\ \A u \in Threads : u # t /\ th[u].ord = th[t].ord =>
              th[u].pc \notin Locked /\ ~th[u].closed
  <1> DEFINE r == th[t]
             o == r.ord
  <1>1. o \in Orders /\ Working(t, o)
    BY DEF TypeInv, FlowsOK, FlowOK, Working, Locked
  <1>2. FlowGate(r, platform) /\ FlowOnce(t, r, platform[o], Taken(o), Handled(o))
    BY DEF GateInv, FlowsGate, OnceInv, Once
  <1>3. NoOnlySend => r.closed \/ platform[o] = "shipped"
    BY <1>2 DEF FlowGate, FlowOnce
  <1>4. r.closed => platform[o] = "closed" /\ Taken(o) = r.got
    BY <1>2 DEF FlowOnce
  <1>5. Taken(o) = r.got
    BY <1>2, <1>3, <1>4 DEF FlowOnce, Beyond, Locked, Compensated
  <1>6. ASSUME NEW u \in Threads, u # t, th[u].ord = o
        PROVE  th[u].pc \notin Locked /\ ~th[u].closed
    <2>1. th[u].pc \notin Locked
      BY <1>1, <1>6 DEF OneDeliverer, Working
    <2>2. th[u].closed => NoOnlySend /\ platform[o] = "closed"
      BY <1>6 DEF OnceInv, Once, FlowOnce, Safe
    <2>3. th[u].closed => ~r.closed
      BY <1>6 DEF OnceInv, ClosedOnce
    <2> QED BY <1>3, <2>1, <2>2, <2>3
  <1> QED BY <1>1, <1>3, <1>4, <1>5, <1>6

LEMMA TakesOnce ==
  ASSUME TypeInv, Links, GateInv, OneDeliverer, OnceInv, Safe,
         NEW t \in Threads, NEW c \in Codes, Takes(t, c)
  PROVE  /\ \A u \in Threads : Once(u)'
         /\ Cardinality(Taken(th[t].ord)) < Qty
         /\ \A o \in Orders : o = th[t].ord => IsFiniteSet(Taken(o)') /\ Cardinality(Taken(o)') <= Qty
  <1> DEFINE r == th[t]
             n == th'[t]
  <1>1. PICK o \in Orders : o = r.ord
    BY TakerAlone DEF Takes
  <1>2. /\ Working(t, o) /\ Taken(o) = r.got
        /\ NoOnlySend => platform[o] # "pending"
        /\ \A u \in Threads : u # t /\ th[u].ord = o => th[u].pc \notin Locked /\ ~th[u].closed
    BY <1>1, TakerAlone DEF Takes
  <1>3. \A q \in Orders : Taken(q)' = IF q = o THEN Taken(q) \cup {c} ELSE Taken(q)
    BY <1>1, TakenAt DEF Takes
  <1>4. Taken(o)' = n.got /\ n.got = r.got \cup {c} /\ c \notin r.got
    <2>1. c \notin Taken(o)
      BY <1>1, DeliveryAssumption DEF Takes, Taken
    <2> QED BY <1>2, <1>3, <2>1 DEF Takes
  <1>5. FlowOnce(t, r, platform[o], Taken(o), Handled(o)) /\ r \in Flow /\ r.round < Qty
    BY <1>1, <1>2 DEF OnceInv, Once, Takes, TypeInv, FlowsOK, FlowOK
  <1>6. /\ IsFiniteSet(r.got) /\ Cardinality(r.got) \in Nat /\ Cardinality(r.got) <= r.round
        /\ IsFiniteSet(n.got) /\ Cardinality(n.got) = Cardinality(r.got) + 1
        /\ Cardinality(n.got) <= Seats(t, n) /\ Cardinality(n.got) <= Qty
    <2>1. Seats(t, r) = r.round /\ Seats(t, n) = r.round + 1 /\ r.round \in Nat /\ Qty \in Nat
      BY <1>5, DeliveryAssumption DEF Takes, Seats, Flow
    <2>2. IsFiniteSet(r.got) /\ Cardinality(r.got) <= r.round
      BY <1>5, <2>1 DEF FlowOnce
    <2>3. Cardinality(r.got) \in Nat
      BY <2>2, FS_CardinalityType
    <2>4. IsFiniteSet(n.got) /\ Cardinality(n.got) = Cardinality(r.got) + 1
      BY <1>4, <2>2, FS_AddElement
    <2> QED BY <1>5, <2>1, <2>2, <2>3, <2>4
  <1>7. /\ \A q \in Orders : platform'[q] = platform[q]
        /\ \A q : Handled(q) => Handled(q)'
    BY DEF Takes, Handled
  <1>8. Once(t)'
    <2>1. n.closed => Rules /\ platform'[o] = "closed"
      BY <1>5, <1>7 DEF Takes, FlowOnce
    <2>2. NoOnlySend => ~n.only /\ ~n.rOnly
      BY <1>5 DEF Takes, FlowOnce
    <2>3. n.pc \in {"enter", "mark", "send"} /\ n.ord = o
      BY <1>1 DEF Takes
    <2>4. FlowOnce(t, n, platform'[o], Taken(o)', Handled(o)')
      BY <1>4, <1>6, <2>1, <2>2, <2>3 DEF FlowOnce
    <2> QED BY <2>3, <2>4, OnceAt
  <1>9. ASSUME NEW u \in Threads, u # t
        PROVE  Once(u)'
    <2>1. th'[u] = th[u] /\ Once(u)
      BY <1>9 DEF Takes, Only, OnceInv
    <2>2. CASE th[u].ord = o
      <3>1. FlowOnce(u, th[u], platform[o], Taken(o), Handled(o))
        BY <2>1, <2>2 DEF Once
      <3>2. th[u].pc \notin Locked /\ ~th[u].closed
        BY <1>2, <1>9, <2>2
      <3>3. FlowOnce(u, th[u], platform'[o], Taken(o)', Handled(o)')
        BY <3>1, <3>2 DEF FlowOnce, Beyond, Locked
      <3> QED BY <2>1, <2>2, <3>3, OnceAt
    <2>3. CASE th[u].ord # o
      <3>1. PlatformFinal /\ HandledKept
        BY <1>7 DEF PlatformFinal, HandledKept
      <3>2. \A q \in Orders : q = th[u].ord => Taken(q)' = Taken(q)
        BY <1>3, <2>3
      <3> QED BY <2>1, <3>1, <3>2, OtherOnce
    <2> QED BY <2>2, <2>3
  <1>10. Cardinality(Taken(th[t].ord)) < Qty
    BY <1>1, <1>2, <1>5, <1>6, DeliveryAssumption DEF Flow
  <1>11. \A q \in Orders : q = th[t].ord => IsFiniteSet(Taken(q)') /\ Cardinality(Taken(q)') <= Qty
    BY <1>1, <1>4, <1>6
  <1> QED BY <1>8, <1>9, <1>10, <1>11

\* Flow t is at work on order o and has codes of it in hand.
Carries(t, o) == Working(t, o) /\ th[t].got # {}

LEMMA SteadyCarries ==
  ASSUME TypeInv, Links, GateInv, NEW t \in Threads, Steady(t), NEW u \in Threads, NEW o \in Orders
  PROVE  /\ Carries(u, o)' => Carries(u, o)
         /\ Carries(u, o) => Carries(u, o)' \/ (u = t /\ th[t].pc = "leave")
  <1>1. CASE th'[u] = th[u]
    BY <1>1 DEF Carries, Working
  <1>2. CASE u = t /\ th'[t] # th[t]
    <2>1. Starts(t) \/ Stops(t) \/ Onward(t)
      BY <1>2 DEF Steady, TypeInv, FlowsOK
    <2>2. CASE Starts(t)
      BY <1>2, <2>2 DEF Starts, Carries, Working, Locked
    <2>3. CASE Stops(t)
      <3>1. th[t].pc = "check" => th[t].got = {}
        BY DEF GateInv, FlowsGate, FlowGate
      <3> QED BY <1>2, <2>3, <3>1 DEF Stops, Carries, Working, Locked, Beyond, Idle
    <2>4. CASE Onward(t)
      <3>1. th[t].pc = "lock" => th[t].got = {}
        BY DEF GateInv, FlowsGate, FlowGate
      <3> QED BY <1>2, <2>4, <3>1 DEF Onward, Carries, Working
    <2> QED BY <2>1, <2>2, <2>3, <2>4
  <1> QED BY <1>1, <1>2 DEF Steady, Only

\* What a step that takes no code does to the orders: one of them is settled.
LEMMA SteadySettles ==
  ASSUME TypeInv, Links, GateInv, OneDeliverer, OnceInv, NEW t \in Threads, Steady(t),
         NEW o \in Orders
  PROVE  /\ Taken(o)' = Taken(o)
         /\ Settled(o) => Settled(o)'
         /\ Settled(o)' => Settled(o) \/ (Taken(o) # {} /\ o = th[t].ord
                                          /\ (Handled(o) \/ Compensated(platform[o])))
  <1>1. Taken(o)' = Taken(o)
    BY DEF Steady, Taken
  <1>2. Settled(o) <=> Taken(o) # {} /\ \A u \in Threads : ~Carries(u, o)
    BY DEF Settled, Carries
  <1>3. Settled(o)' <=> Taken(o) # {} /\ \A u \in Threads : ~Carries(u, o)'
    BY <1>1 DEF Settled, Carries
  <1>4. ASSUME Settled(o)', ~Settled(o)
        PROVE  Taken(o) # {} /\ o = th[t].ord /\ (Handled(o) \/ Compensated(platform[o]))
    <2>1. PICK u \in Threads : Carries(u, o)
      BY <1>2, <1>3, <1>4
    <2>2. u = t /\ th[t].pc = "leave"
      BY <1>3, <1>4, <2>1, SteadyCarries
    <2> QED BY <1>3, <1>4, <2>1, <2>2 DEF Carries, Working, OnceInv, Once, FlowOnce
  <1>5. Settled(o) => Settled(o)'
    BY <1>2, <1>3, SteadyCarries
  <1> QED BY <1>1, <1>4, <1>5

LEMMA TakesSettles ==
  ASSUME TypeInv, Links, GateInv, OneDeliverer, OnceInv, Safe,
         NEW t \in Threads, NEW c \in Codes, Takes(t, c)
  PROVE  /\ th[t].ord \in Orders
         /\ \A o \in Orders :
              /\ Taken(o)' = IF o = th[t].ord THEN Taken(o) \cup {c} ELSE Taken(o)
              /\ Settled(o)' = Settled(o)
              /\ o = th[t].ord => ~Settled(o)
              /\ c \notin Taken(o)
  <1>1. /\ th[t].ord \in Orders /\ Working(t, th[t].ord) /\ Taken(th[t].ord) = th[t].got
      BY TakerAlone DEF Takes
  <1>2. \A o \in Orders : Taken(o)' = IF o = th[t].ord THEN Taken(o) \cup {c} ELSE Taken(o)
    BY <1>1, TakenAt DEF Takes
  <1>3. \A o \in Orders : c \notin Taken(o)
    BY DeliveryAssumption DEF Takes, Taken
  <1>4. ASSUME NEW o \in Orders, o = th[t].ord
        PROVE  ~Settled(o) /\ ~Settled(o)'
    <2>1. ~Settled(o)
      BY <1>1, <1>4 DEF Settled
    <2>2. th'[t].pc \in Locked /\ th'[t].ord = o /\ th'[t].got # {}
      BY <1>4 DEF Takes, Locked
    <2> QED BY <2>1, <2>2 DEF Settled, Working
  <1>5. ASSUME NEW o \in Orders, o # th[t].ord
        PROVE  Settled(o)' = Settled(o)
    <2>1. Taken(o)' = Taken(o)
      BY <1>2, <1>5
    <2>2. \A u \in Threads : Carries(u, o)' <=> Carries(u, o)
      <3>1. ASSUME NEW u \in Threads PROVE Carries(u, o)' <=> Carries(u, o)
        <4>1. CASE u = t
          BY <1>5, <4>1 DEF Carries, Working, Takes
        <4>2. CASE u # t
          BY <4>2 DEF Carries, Working, Takes, Only
        <4> QED BY <4>1, <4>2
      <3> QED BY <3>1
    <2>3. Settled(o) <=> Taken(o) # {} /\ \A u \in Threads : ~Carries(u, o)
      BY DEF Settled, Carries
    <2>4. Settled(o)' <=> Taken(o) # {} /\ \A u \in Threads : ~Carries(u, o)'
      BY <2>1 DEF Settled, Carries
    <2>5. Settled(o) \in BOOLEAN /\ Settled(o)' \in BOOLEAN
      BY DEF Settled
    <2> QED BY <2>2, <2>3, <2>4, <2>5
  <1>6. ASSUME NEW o \in Orders, o = th[t].ord
        PROVE  Settled(o)' = Settled(o)
    <2>1. Settled(o) \in BOOLEAN /\ Settled(o)' \in BOOLEAN
      BY DEF Settled
    <2> QED BY <1>4, <1>6, <2>1
  <1> QED BY <1>1, <1>2, <1>3, <1>4, <1>5, <1>6

LEMMA IdleSettles ==
  ASSUME UNCHANGED <<th, card>>, NEW o \in Orders
  PROVE  Taken(o)' = Taken(o) /\ Settled(o)' = Settled(o)
  BY DEF Taken, Settled, Working

LEMMA OrdersKept ==
  ASSUME TypeInv, PlatformFinal, HandledKept, NEW o \in Orders, OrderOnce(o),
         Taken(o)' = Taken(o),
         Settled(o)' => Settled(o) \/ Handled(o) \/ Compensated(platform[o])
  PROVE  OrderOnce(o)'
  <1>1. IsFiniteSet(Taken(o)') /\ Cardinality(Taken(o)') <= Qty
    BY DEF OrderOnce
  <1>2. NoOnlySend /\ Taken(o)' # {} => platform'[o] # "pending"
    BY DEF OrderOnce, PlatformFinal
  <1>3. Settled(o)' => Handled(o)' \/ Compensated(platform'[o])
    BY DEF OrderOnce, PlatformFinal, HandledKept, Compensated
  <1> QED BY <1>1, <1>2, <1>3 DEF OrderOnce, Compensated, Taken

LEMMA ClosedKept ==
  ASSUME TypeInv, TypeInv', OnceInv, NEW t \in Threads,
         Steady(t) \/ \E c \in Codes : Takes(t, c)
  PROVE  ClosedOnce'
  <1>1. Only(t) /\ ClosedOnce
    BY DEF Steady, Takes, OnceInv
  <1>2. ASSUME th'[t].closed
        PROVE  \/ th[t].closed /\ th'[t].ord = th[t].ord
               \/ platform[th'[t].ord] = "pending"
    <2>1. CASE UNCHANGED th
      BY <1>2, <2>1
    <2>2. CASE Starts(t)
      BY <1>2, <2>2 DEF Starts, Closes
    <2>3. CASE Stops(t)
      <3>1. Idle.closed = FALSE
        BY DEF Idle
      <3> QED BY <1>2, <2>3, <3>1 DEF Stops, Same
    <2>4. CASE Onward(t)
      BY <1>2, <2>4 DEF Onward, Closes
    <2>5. CASE \E c \in Codes : Takes(t, c)
      BY <1>2, <2>5 DEF Takes
    <2> QED BY <2>1, <2>2, <2>3, <2>4, <2>5 DEF Steady
  <1>3. \A u \in Threads : th[u].closed => platform[th[u].ord] = "closed"
    BY DEF OnceInv, Once, FlowOnce
  <1>4. ASSUME NEW u \in Threads, u # t, th'[t].closed, th'[u].closed, th'[t].ord = th'[u].ord
        PROVE  FALSE
    <2>1. th'[u] = th[u]
      BY <1>1, <1>4 DEF Only
    <2> QED BY <1>1, <1>2, <1>3, <1>4, <2>1 DEF ClosedOnce
  <1> QED BY <1>1, <1>4 DEF ClosedOnce, Only

LEMMA OnceNext ==
  ASSUME TypeInv, TypeInv', Links, GateInv, MarkerInv, OneDeliverer, OnceInv, Safe, [Next]_vars
  PROVE  OnceInv'
  <1>1. PlatformFinal /\ HandledKept
    BY NextFinal, HandledStays DEF Safe
  <1>2. \A o \in Orders : OrderOnce(o)
    BY DEF OnceInv
  <1>3. ASSUME NEW t \in Threads, Steady(t)
        PROVE  OnceInv'
    <2>1. \A o \in Orders : Taken(o)' = Taken(o)
      BY <1>3 DEF Steady, Taken
    <2>2. ASSUME NEW u \in Threads PROVE Once(u)'
      <3>1. CASE u = t
        BY <1>1, <1>3, <3>1, SteadyOnce
      <3>2. CASE u # t
        <4>1. th'[u] = th[u] /\ Once(u)
          BY <1>3, <3>2 DEF Steady, Only, OnceInv
        <4> QED BY <1>1, <2>1, <4>1, OtherOnce
      <3> QED BY <3>1, <3>2
    <2>3. ASSUME NEW o \in Orders PROVE OrderOnce(o)'
      BY <1>1, <1>2, <1>3, SteadySettles, OrdersKept
    <2>4. ClosedOnce'
      BY <1>3, ClosedKept
    <2> QED BY <2>2, <2>3, <2>4 DEF OnceInv
  <1>4. ASSUME NEW t \in Threads, NEW c \in Codes, Takes(t, c)
        PROVE  OnceInv'
    <2>1. \A u \in Threads : Once(u)'
      BY <1>4, TakesOnce
    <2>2. ASSUME NEW o \in Orders PROVE OrderOnce(o)'
      <3>1. CASE o # th[t].ord
        <4>1. Taken(o)' = Taken(o) /\ Settled(o)' = Settled(o)
          BY <1>4, <3>1, TakesSettles
        <4> QED BY <1>1, <1>2, <4>1, OrdersKept
      <3>2. CASE o = th[t].ord
        <4>1. IsFiniteSet(Taken(o)') /\ Cardinality(Taken(o)') <= Qty
          BY <1>4, <3>2, TakesOnce
        <4>2. ~Settled(o)'
          BY <1>4, <3>2, TakesSettles
        <4>3. NoOnlySend => platform'[o] # "pending"
          BY <1>4, <3>2, TakerAlone DEF Takes
        <4> QED BY <4>1, <4>2, <4>3 DEF OrderOnce, Taken
      <3> QED BY <3>1, <3>2
    <2>3. ClosedOnce'
      BY <1>4, ClosedKept
    <2> QED BY <2>1, <2>2, <2>3 DEF OnceInv
  <1>5. CASE UNCHANGED <<th, card>>
    <2>1. \A o \in Orders : Taken(o)' = Taken(o) /\ Settled(o)' = Settled(o)
      BY <1>5, IdleSettles
    <2>2. ASSUME NEW u \in Threads PROVE Once(u)'
      BY <1>1, <1>5, <2>1, OtherOnce DEF OnceInv
    <2>3. ASSUME NEW o \in Orders PROVE OrderOnce(o)'
      BY <1>1, <1>2, <2>1, OrdersKept
    <2>4. ClosedOnce'
      BY <1>5 DEF OnceInv, ClosedOnce
    <2> QED BY <2>2, <2>3, <2>4 DEF OnceInv
  <1> QED BY <1>3, <1>4, <1>5, NextSteady

LEMMA OnceInit == Init => OnceInv
  <1> SUFFICES ASSUME Init PROVE OnceInv
    OBVIOUS
  <1>1. \A t \in Threads : th[t] = Idle
    BY DEF Init
  <1>2. \A t \in Threads : Once(t)
    BY <1>1, IdleOnce DEF Once
  <1>3. \A o \in Orders : Taken(o) = {}
    BY DeliveryAssumption DEF Init, Taken
  <1>4. \A o \in Orders : OrderOnce(o)
    BY <1>3, FS_EmptySet, DeliveryAssumption DEF OrderOnce, Settled
  <1>5. ClosedOnce
    BY <1>1 DEF ClosedOnce, Idle
  <1> QED BY <1>2, <1>4, <1>5 DEF OnceInv

LEMMA OnceHolds ==
  ASSUME Safe
  PROVE  Spec => []OnceInv
  <1>0. Isolated /\ ~DbFaults /\ ConfirmMode
    BY DEF Safe
  <1>1. Spec => [](TypeInv /\ Links /\ GateInv /\ MarkerInv /\ OneDeliverer)
    BY <1>0, LinksHold, GateHolds, MarkerHolds, OneAtATime, PTL
  <1>2. TypeInv /\ TypeInv' /\ Links /\ GateInv /\ MarkerInv /\ OneDeliverer /\ OnceInv /\ [Next]_vars
        => OnceInv'
    BY OnceNext
  <1> QED BY <1>1, <1>2, OnceInit, PTL DEF Spec

\* However messages, redelivery rounds, manual deliveries and the retries of
\* their requests interleave, the stock loses at most the order's quantity.
THEOREM NoCodeTwice ==
  ASSUME Safe
  PROVE  Spec => []NoDoubleDelivery
  <1>1. OnceInv => NoDoubleDelivery
    BY DEF OnceInv, OrderOnce, NoDoubleDelivery
  <1> QED BY <1>1, OnceHolds, PTL

LEMMA HandoutInit == Init => Handout!Init
  <1>1. ASSUME Init, NEW o \in Orders
        PROVE  Taken(o) = {} /\ Settled(o) = FALSE
    BY <1>1, DeliveryAssumption DEF Init, Taken, Settled
  <1> QED BY <1>1 DEF Handout!Init

LEMMA HandoutCard == \A S : Handout!Cardinality(S) = Cardinality(S)
  BY DEF Handout!Cardinality, Cardinality

LEMMA HandoutNext ==
  ASSUME TypeInv, Links, GateInv, OneDeliverer, OnceInv, Safe, [Next]_vars
  PROVE  [Handout!Next]_(Handout!vars)
  <1> DEFINE given == [o \in Orders |-> Taken(o)]
             settled == [o \in Orders |-> Settled(o)]
  <1>1. ASSUME \A o \in Orders : Taken(o)' = Taken(o) /\ Settled(o)' = Settled(o)
        PROVE  given' = given /\ settled' = settled
    BY <1>1
  <1>2. ASSUME NEW t \in Threads, NEW c \in Codes, Takes(t, c)
        PROVE  Handout!Next
    <2>1. PICK o \in Orders : o = th[t].ord
      BY <1>2, TakesSettles
    <2>2. /\ ~Settled(o) /\ Cardinality(Taken(o)) < Qty
          /\ \A q \in Orders : c \notin Taken(q)
          /\ \A q \in Orders : Taken(q)' = IF q = o THEN Taken(q) \cup {c} ELSE Taken(q)
          /\ \A q \in Orders : Settled(q)' = Settled(q)
      BY <1>2, <2>1, TakesSettles, TakesOnce
    <2>3. given' = [given EXCEPT ![o] = @ \cup {c}]
      BY <2>2
    <2>4. settled' = settled
      BY <2>2
    <2>5. /\ ~settled[o] /\ Cardinality(given[o]) < Qty
          /\ \A q \in Orders : c \notin given[q]
      BY <2>2
    <2>6. Handout!Give(o, c)
      BY <2>3, <2>4, <2>5, HandoutCard DEF Handout!Give
    <2> QED BY <2>6 DEF Handout!Next
  <1>3. ASSUME NEW t \in Threads, Steady(t), NEW o \in Orders, ~Settled(o), Settled(o)'
        PROVE  Handout!Next
    <2>1. /\ \A q \in Orders : Taken(q)' = Taken(q)
          /\ o = th[t].ord /\ Taken(o) # {}
          /\ \A q \in Orders : q # o => Settled(q)' = Settled(q)
      <3>1. \A q \in Orders : Settled(q) \in BOOLEAN /\ Settled(q)' \in BOOLEAN
        BY DEF Settled
      <3> QED BY <1>3, <3>1, SteadySettles
    <2>2. given' = given
      BY <2>1
    <2>3. settled' = [settled EXCEPT ![o] = TRUE]
      <3>1. Settled(o)' = TRUE
        BY <1>3 DEF Settled
      <3> QED BY <2>1, <3>1
    <2>4. Handout!Settle(o)
      BY <1>3, <2>1, <2>2, <2>3 DEF Handout!Settle
    <2> QED BY <2>4 DEF Handout!Next
  <1>4. ASSUME NEW t \in Threads, Steady(t), ~\E o \in Orders : ~Settled(o) /\ Settled(o)'
        PROVE  given' = given /\ settled' = settled
    <2>1. \A q \in Orders : Settled(q) \in BOOLEAN /\ Settled(q)' \in BOOLEAN
      BY DEF Settled
    <2> QED BY <1>1, <1>4, <2>1, SteadySettles
  <1>5. CASE UNCHANGED <<th, card>>
    BY <1>1, <1>5, IdleSettles DEF Handout!vars
  <1>6. ASSUME given' = given, settled' = settled
        PROVE  UNCHANGED Handout!vars
    BY <1>6 DEF Handout!vars
  <1> QED BY <1>2, <1>3, <1>4, <1>5, <1>6, NextSteady

\* The codes of an order are handed out once, in one go (CardHandout): what
\* the message handlers, the calls of the two callers and the restarts of the
\* account do to the stock is what one hand-out of at most Qty codes does.
THEOREM HandoutImplemented ==
  ASSUME Safe
  PROVE  Spec => HandsOutOnce
  <1>0. Isolated /\ ConfirmMode
    BY DEF Safe
  <1>1. Spec => [](TypeInv /\ Links /\ GateInv /\ OneDeliverer /\ OnceInv)
    BY <1>0, LinksHold, GateHolds, OneAtATime, OnceHolds, PTL
  <1>2. TypeInv /\ Links /\ GateInv /\ OneDeliverer /\ OnceInv /\ [Next]_vars
        => [Handout!Next]_(Handout!vars)
    BY HandoutNext
  <1> QED BY <1>1, <1>2, HandoutInit, PTL DEF Spec, HandsOutOnce, Handout!Spec

-----------------------------------------------------------------------------
(***************************************************************************)
(* Send before confirm.  What a message handler has sent is in the chat,   *)
(* unless it knows of a failure, and only then does it confirm.  Nothing   *)
(* takes a code out of the chat, so this outlives the handler's next steps.*)
(***************************************************************************)
BuyerGrows == \A o \in Orders : buyer[o] \subseteq buyer'[o]

\* A handler's record r, with the codes b in the chat of its order.
FlowSent(r, b) ==
  /\ ~r.rConf
  /\ r.conf => r.pc \in {"write", "leave", "free"} /\ (r.rej \/ r.got \subseteq b)
  /\ r.pc = "send" => r.bad \/ r.rej \/ r.got \ r.todo \subseteq b
  /\ r.pc = "post" => r.bad \/ r.rej \/ r.got \subseteq b

Sent(t) == FlowSent(th[t], buyer[th[t].ord])
SentInv == \A t \in Autos : Sent(t)

LEMMA BuyerStep ==
  ASSUME TypeInv, [Next]_vars
  PROVE  BuyerGrows
  <1>0. buyer \in [Orders -> SUBSET Codes]
    BY DEF TypeInv, StoreOK
  <1>1. CASE UNCHANGED buyer
    BY <1>1 DEF BuyerGrows
  <1>2. ASSUME NEW t \in Threads, Send(t)
        PROVE  BuyerGrows
    <2>1. UNCHANGED buyer \/ \E c : buyer' = [buyer EXCEPT ![th[t].ord] = @ \cup {c}]
      BY <1>2 DEF Send
    <2> QED BY <1>0, <1>1, <2>1 DEF BuyerGrows
  <1>3. ASSUME NEW t \in Autos, (\E o \in Orders : AutoStart(t, o)) \/ AutoStep(t)
        PROVE  UNCHANGED buyer
    BY <1>3 DEF AutoStart, AutoStep, AutoRedis, AutoCheck, AutoEnter, AutoMark, AutoFree
  <1>4. ASSUME NEW t \in Threads, CallCheck(t) \/ SharedStep(t)
        PROVE  UNCHANGED buyer \/ Send(t)
    BY <1>4 DEF CallCheck, SharedStep, Acquire, Confirm, ConfirmSkip, ConfirmRefused,
          ConfirmOnlySend, ConfirmAsk, Take, Post, Write, Leave
  <1>5. ASSUME NEW c \in Callers, CallerStep(c)
        PROVE  UNCHANGED buyer
    BY <1>5 DEF CallerStep, CallerRedis, CallerCall, CallerTimeout, CallerDone, CallerFree
  <1>6. ASSUME NEW s \in Scheds, (\E o \in Orders : SchedSnapshot(s, o)) \/ SchedCanShip(s)
        PROVE  UNCHANGED buyer
    BY <1>6 DEF SchedSnapshot, SchedCanShip
  <1>7. ASSUME NEW m \in Manuals, NEW o \in Orders, ManualStart(m, o)
        PROVE  UNCHANGED buyer
    BY <1>7 DEF ManualStart
  <1>8. CASE Environment
    BY <1>1, <1>8 DEF Environment, Toggle, DayEnds, Restart, Crash, Elsewhere, SyncRead, SyncWrite,
          RedisExpire, CoolExpire, ConfirmedExpire, HoldExpire
  <1>9. CASE UNCHANGED vars
    BY <1>1, <1>9 DEF vars
  <1> QED BY <1>1, <1>2, <1>3, <1>4, <1>5, <1>6, <1>7, <1>8, <1>9 DEF Next

\* Nothing is claimed of a handler that has neither sent nor confirmed.
LEMMA SentEarly ==
  ASSUME NEW r, NEW b, ~r.rConf, ~r.conf, r.pc \notin {"send", "post"}
  PROVE  FlowSent(r, b)
  BY DEF FlowSent

LEMMA SentOther ==
  ASSUME TypeInv, Links, BuyerGrows, NEW t \in Autos, Sent(t), th'[t] = th[t]
  PROVE  Sent(t)'
  <1>1. CASE th[t].pc = "idle"
    <2>1. th'[t].pc = "idle" /\ ~th'[t].conf /\ ~th'[t].rConf
      BY <1>1 DEF Links, Idle
    <2> QED BY <2>1 DEF Sent, FlowSent
  <1>2. CASE th[t].pc # "idle"
    <2>1. buyer[th[t].ord] \subseteq buyer'[th[t].ord]
      BY <1>2 DEF TypeInv, FlowsOK, FlowOK, BuyerGrows
    <2> QED BY <2>1 DEF Sent, FlowSent
  <1> QED BY <1>1, <1>2

LEMMA SentOfSend ==
  ASSUME TypeInv, NEW t \in Autos, Sent(t), Send(t)
  PROVE  Sent(t)'
  <1> DEFINE r == th[t]
             o == th[t].ord
             pc(c) == IF r.todo = {c} THEN "post" ELSE "send"
             After(c) == [r EXCEPT !.todo = r.todo \ {c}, !.pc = pc(c)]
  <1>1. /\ r \in Flow /\ o \in Orders /\ r.pc = "send"
        /\ buyer \in [Orders -> SUBSET Codes]
    BY DEF Send, At, TypeInv, FlowsOK, FlowOK, StoreOK
  <1>2. /\ ~r.rConf /\ ~r.conf
        /\ r.bad \/ r.rej \/ r.got \ r.todo \subseteq buyer[o]
    BY <1>1 DEF Sent, FlowSent
  <1>3. PICK c \in r.todo :
         \/ buyer' = [buyer EXCEPT ![o] = @ \cup {c}] /\ Become(t, After(c))
         \/ Become(t, [After(c) EXCEPT !.bad = TRUE]) /\ UNCHANGED buyer
         \/ Become(t, [After(c) EXCEPT !.rej = TRUE]) /\ UNCHANGED buyer
    <2>1. \A b, e : (b \/ t \in Autos) = TRUE
      OBVIOUS
    <2> QED BY <2>1 DEF Send
  <1>4. LET n == After(c) IN
        /\ n.ord = o /\ n.got = r.got /\ n.conf = r.conf /\ n.rConf = r.rConf
        /\ n.bad = r.bad /\ n.rej = r.rej /\ n.todo = r.todo \ {c} /\ n.pc = pc(c) /\ n \in Flow
    BY <1>1 DEF Flow, Locked
  <1>5. /\ r.todo = {c} => r.todo \ {c} = {}
        /\ pc(c) = "send" \/ (pc(c) = "post" /\ r.todo = {c})
    OBVIOUS
  <1> HIDE DEF After, pc
  <1>6. CASE buyer' = [buyer EXCEPT ![o] = @ \cup {c}] /\ Become(t, After(c))
    <2>1. th'[t] = After(c) /\ buyer'[o] = buyer[o] \cup {c}
      BY <1>1, <1>6, BecomeAt DEF TypeInv
    <2> QED BY <1>2, <1>4, <1>5, <2>1 DEF Sent, FlowSent
  <1>7. CASE Become(t, [After(c) EXCEPT !.bad = TRUE])
    <2>1. th'[t] = [After(c) EXCEPT !.bad = TRUE]
      BY <1>7, BecomeAt DEF TypeInv
    <2>2. ~th'[t].conf /\ ~th'[t].rConf /\ th'[t].bad
      BY <1>2, <1>4, <2>1 DEF Flow
    <2> QED BY <2>2 DEF Sent, FlowSent
  <1>8. CASE Become(t, [After(c) EXCEPT !.rej = TRUE])
    <2>1. th'[t] = [After(c) EXCEPT !.rej = TRUE]
      BY <1>8, BecomeAt DEF TypeInv
    <2>2. ~th'[t].conf /\ ~th'[t].rConf /\ th'[t].rej
      BY <1>2, <1>4, <2>1 DEF Flow
    <2> QED BY <2>2 DEF Sent, FlowSent
  <1> QED BY <1>3, <1>6, <1>7, <1>8

LEMMA SentOfPost ==
  ASSUME TypeInv, NEW t \in Autos, Sent(t), Post(t)
  PROVE  Sent(t)'
  <1> DEFINE r    == th[t]
             only == r.only \/ (~r.conf /\ onlySend)
             n    == [r EXCEPT !.pc = "write", !.only = only]
  <1>1. r \in Flow /\ r.pc = "post" /\ UNCHANGED buyer /\ onlySend \in BOOLEAN
    BY DeliveryAssumption DEF Post, At, TypeInv, FlowsOK, StoreOK
  <1>2. ~r.rConf /\ ~r.conf /\ (r.bad \/ r.rej \/ r.got \subseteq buyer[r.ord])
    BY <1>1 DEF Sent, FlowSent
  <1>3. only \in BOOLEAN
    BY <1>1 DEF Flow
  <1>4. \/ Become(t, n)
        \/ ~r.bad /\ \E b \in BOOLEAN : Become(t, [n EXCEPT !.conf = b])
    <2>1. ASSUME NEW a, Become(t, [n EXCEPT !.conf = @ \/ a[2] # "error"])
          PROVE  \E b \in BOOLEAN : Become(t, [n EXCEPT !.conf = b])
      <3>1. (n.conf \/ a[2] # "error") \in BOOLEAN
        OBVIOUS
      <3> HIDE DEF n
      <3> QED BY <2>1, <3>1
    <2> QED BY <2>1 DEF Post
  <1> HIDE DEF only
  <1>5. /\ n.pc = "write" /\ n.ord = r.ord /\ n.got = r.got /\ n.conf = r.conf
        /\ n.rConf = r.rConf /\ n.rej = r.rej
        /\ \A b \in BOOLEAN : LET m == [n EXCEPT !.conf = b] IN
              /\ m.pc = "write" /\ m.ord = r.ord /\ m.got = r.got
              /\ m.rConf = r.rConf /\ m.rej = r.rej
    BY <1>1, <1>3 DEF Flow
  <1> HIDE DEF n
  <1>6. CASE Become(t, n)
    <2>1. th'[t] = n
      BY <1>6, BecomeAt DEF TypeInv
    <2> QED BY <1>2, <1>5, <2>1 DEF Sent, FlowSent
  <1>7. ASSUME ~r.bad, NEW b \in BOOLEAN, Become(t, [n EXCEPT !.conf = b])
        PROVE  Sent(t)'
    <2>1. th'[t] = [n EXCEPT !.conf = b]
      BY <1>7, BecomeAt DEF TypeInv
    <2>2. /\ th'[t].pc = "write" /\ th'[t].ord = r.ord /\ th'[t].got = r.got
          /\ th'[t].rConf = r.rConf /\ th'[t].rej = r.rej
      BY <1>5, <2>1
    <2> QED BY <1>1, <1>2, <1>7, <2>2 DEF Sent, FlowSent
  <1> QED BY <1>4, <1>6, <1>7

\* The steps after the confirmation carry its reason along.
LEMMA SentAfter ==
  ASSUME TypeInv, NEW t \in Autos, Sent(t), Write(t) \/ Leave(t)
  PROVE  Sent(t)'
  <1> DEFINE r == th[t]
             n == th'[t]
  <1>1. r \in Flow /\ r.pc \in {"write", "leave"} /\ UNCHANGED buyer
    BY DEF Write, Leave, At, TypeInv, FlowsOK
  <1>2. /\ n.pc \in {"leave", "free"} /\ n.ord = r.ord /\ n.got = r.got /\ n.conf = r.conf
        /\ n.rConf = r.rConf /\ n.rej = r.rej
    <2>1. CASE Write(t)
      <3>1. PICK only, kind : Become(t, [r EXCEPT !.pc = "leave", !.only = only, !.reply = kind])
        BY <2>1 DEF Write
      <3>2. n = [r EXCEPT !.pc = "leave", !.only = only, !.reply = kind]
        BY <3>1, BecomeAt DEF TypeInv
      <3> QED BY <1>1, <3>2 DEF Flow
    <2>2. CASE Leave(t)
      <3>1. n = [r EXCEPT !.pc = "free"]
        BY <2>2, BecomeAt DEF Leave, Finish, Goto, TypeInv
      <3> QED BY <1>1, <3>1 DEF Flow
    <2> QED BY <2>1, <2>2
  <1> QED BY <1>1, <1>2 DEF Sent, FlowSent

LEMMA SentStep ==
  ASSUME TypeInv, Links, BuyerGrows, SendBeforeConfirm, NEW t \in Autos, Sent(t),
         (\E o \in Orders : AutoStart(t, o)) \/ AutoStep(t) \/ SharedStep(t)
  PROVE  Sent(t)'
  <1> DEFINE r == th[t]
             n == th'[t]
             Before == r.pc \notin {"write", "leave", "free"} => ~r.conf
  <1>0. r \in Flow /\ ~r.rConf /\ Before
    BY DEF TypeInv, FlowsOK, Sent, FlowSent
  <1>1. ASSUME ~n.conf, ~n.rConf, n.pc \notin {"send", "post"}
        PROVE  Sent(t)'
    BY <1>1 DEF Sent, FlowSent
  <1>2. ASSUME r.pc \notin {"write", "leave", "free"}, EmptyRound(t)
        PROVE  Sent(t)'
    <2>1. n.conf = r.conf /\ (n.rConf = r.rConf \/ n.rConf = FALSE) /\ n.pc \in {"enter", "mark", "leave"}
      BY <1>2, EmptyRoundAt DEF TypeInv
    <2> QED BY <1>0, <1>1, <1>2, <2>1
  <1>3. ASSUME r.pc \notin {"write", "leave", "free"}, NEW kind, NEW codes, Finish(t, kind, codes)
        PROVE  Sent(t)'
    <2>1. n = [r EXCEPT !.pc = "free"]
      BY <1>3, BecomeAt DEF Finish, Goto, TypeInv
    <2>2. n.pc = "free" /\ n.conf = r.conf /\ n.rConf = r.rConf
      BY <1>0, <2>1 DEF Flow
    <2> QED BY <1>0, <1>1, <1>3, <2>2
  <1>4. ASSUME r.pc \notin {"write", "leave", "free"}, Same(r, n), n.pc \notin {"send", "post"}
        PROVE  Sent(t)'
    BY <1>0, <1>1, <1>4 DEF Same
  <1>5. ASSUME n = Idle
        PROVE  Sent(t)'
    BY <1>1, <1>5 DEF Idle
  <1>6. ASSUME NEW o \in Orders, AutoStart(t, o)
        PROVE  Sent(t)'
    <2>1. UNCHANGED th \/ (n.pc = "redis" /\ n.conf = FALSE /\ n.rConf = FALSE)
      BY <1>6, AutoStartAt
    <2> QED BY <1>1, <2>1, SentOther
  <1>7. CASE AutoRedis(t)
    BY <1>4, <1>5, <1>7, AutoRedisAt
  <1>8. CASE AutoCheck(t)
    BY <1>3, <1>4, <1>8, AutoCheckAt
  <1>9. CASE AutoEnter(t)
    BY <1>0, <1>1, <1>9, AutoEnterAt
  <1>10. CASE AutoMark(t)
    <2>1. r.pc = "mark" /\ n = [r EXCEPT !.pc = "send", !.todo = r.got]
      BY <1>10, BecomeAt DEF AutoMark, At, TypeInv
    <2>2. n.pc = "send" /\ n.conf = r.conf /\ n.rConf = r.rConf /\ n.todo = n.got
      BY <1>0, <2>1 DEF Flow
    <2> QED BY <1>0, <2>1, <2>2 DEF Sent, FlowSent
  <1>11. CASE AutoFree(t)
    BY <1>5, <1>11, BecomeAt DEF AutoFree, TypeInv
  <1>12. CASE Acquire(t)
    BY <1>4, <1>5, <1>12, AcquireAt
  <1>13. CASE Confirm(t)
    <2>1. r.pc = "confirm"
      BY <1>13, ConfirmAt
    <2>2. ConfirmSkip(t) \/ ConfirmRefused(t)
      BY <1>13 DEF Confirm
    <2>3. Goto(t, "take") \/ EmptyRound(t)
      BY <2>2 DEF ConfirmSkip, ConfirmRefused
    <2> QED BY <1>2, <1>4, <2>1, <2>3, GotoAt DEF TypeInv
  <1>14. CASE Take(t)
    <2>1. r.pc = "take" /\ t \notin Calls
      BY <1>14, DeliveryAssumption DEF Take, At
    <2>2. \/ EmptyRound(t)
          \/ n.conf = (r.conf \/ r.rConf) /\ n.rConf = FALSE /\ n.pc \in {"enter", "mark"}
      BY <1>14, <2>1, TakeAt DEF TypeInv
    <2> QED BY <1>0, <1>1, <1>2, <2>1, <2>2
  <1> QED BY <1>6, <1>7, <1>8, <1>9, <1>10, <1>11, <1>12, <1>13, <1>14,
             SentOfSend, SentOfPost, SentAfter DEF AutoStep, SharedStep

LEMMA SentNext ==
  ASSUME TypeInv, Links, SendBeforeConfirm, SentInv, [Next]_vars
  PROVE  SentInv'
  <1>0. BuyerGrows
    BY BuyerStep
  <1>1. ASSUME NEW t \in Threads,
               \/ t \in Autos /\ ((\E o \in Orders : AutoStart(t, o)) \/ AutoStep(t))
               \/ t \in Calls /\ CallCheck(t)
               \/ SharedStep(t),
               NEW u \in Autos
        PROVE  Sent(u)'
    <2>1. CASE u = t
      <3>1. ~CallCheck(t) \/ t \notin Calls
        BY <2>1, DeliveryAssumption
      <3> QED BY <1>0, <1>1, <2>1, <3>1, SentStep DEF SentInv
    <2>2. CASE u # t
      <3>1. th'[u] = th[u]
        BY <1>1, <2>2, FlowStep DEF GoesOn, Ends, Only
      <3> QED BY <1>0, <3>1, SentOther DEF SentInv
    <2> QED BY <2>1, <2>2
  <1>2. ASSUME NEW u \in Autos, th'[u] = th[u]
        PROVE  Sent(u)'
    BY <1>0, <1>2, SentOther DEF SentInv
  <1>3. ASSUME NEW c \in Callers,
         \/ CallerStep(c)
         \/ c \in Scheds /\ ((\E o \in Orders : SchedSnapshot(c, o)) \/ SchedCanShip(c))
         \/ c \in Manuals /\ (\E o \in Orders : ManualStart(c, o)),
               NEW u \in Autos
        PROVE  Sent(u)'
    <2>1. CASE CallerCall(c)
      <3>1. PICK t \in Calls : Only(t)
        BY <2>1, CallerCallAt
      <3>2. u # t
        BY DeliveryAssumption
      <3> QED BY <1>2, <3>1, <3>2 DEF Only
    <2>2. CASE ~CallerCall(c)
      <3>1. UNCHANGED th
        BY <1>3, <2>2, CallerStepGoesOn DEF CallerGoesOn
      <3> QED BY <1>2, <3>1
    <2> QED BY <2>1, <2>2
  <1>4. ASSUME Environment \/ UNCHANGED vars, NEW u \in Autos
        PROVE  Sent(u)'
    <2>1. UNCHANGED th \/ Crash
      BY <1>4 DEF vars, Environment, Toggle, DayEnds, Restart, Elsewhere, SyncRead, SyncWrite,
          RedisExpire, CoolExpire, ConfirmedExpire, HoldExpire
    <2>2. CASE Crash
      <3>1. th'[u] = Idle
        BY <2>2, CrashAt
      <3> QED BY <3>1 DEF Sent, FlowSent, Idle
    <2> QED BY <1>2, <2>1, <2>2
  <1> QED BY <1>1, <1>3, <1>4 DEF Next, SentInv

LEMMA SentInit == Init => SentInv
  BY DEF Init, SentInv, Sent, FlowSent, Idle

\* "卡券发送成功再确认发货": a message handler that has shipped the order itself,
\* after its codes, shipped it because every code it took is in the chat, or
\* one was rejected too late to be seen; whatever switches change, fails,
\* expires or restarts while it sends, waits for receipts and confirms.
THEOREM ShippedOnlyAfterSent ==
  Spec => []ShippedAfterSent
  <1>1. CASE SendBeforeConfirm
    <2>1. TypeInv /\ Links /\ SentInv /\ [Next]_vars => SentInv'
      BY <1>1, SentNext
    <2>2. SentInv => ShippedAfterSent
      BY DEF SentInv, Sent, FlowSent, ShippedAfterSent
    <2> QED BY <2>1, <2>2, SentInit, LinksHold, PTL DEF Spec
  <1>2. CASE ~SendBeforeConfirm
    <2>1. ShippedAfterSent
      BY <1>2 DEF ShippedAfterSent
    <2> QED BY <2>1, PTL
  <1> QED BY <1>1, <1>2

-----------------------------------------------------------------------------
(***************************************************************************)
(* Every code that left the stock can be found.  A flow that leaves has    *)
(* written its codes down; after it only the scheduler writes, and what it *)
(* writes holds every code of the order: a request that is told "already"  *)
(* was sent for an order without codes, as the platform still waited for   *)
(* the shipment when the scheduler, alone under the Redis key, asked it.   *)
(***************************************************************************)
\* The answers after which the scheduler writes the codes it was told.
Written == {"normal", "already", "only", "alreadyOnly"}

\* The request of caller c is about to look at the order.
Fresh(c) ==
  \/ cl[c].pc = "call"
  \/ cl[c].pc = "wait" /\ th[cl[c].req].pc \in {"lock", "check"}

FlowTrace(t) ==
  th[t].pc = "leave" =>
    th[t].got \subseteq content[th[t].ord] /\ (t \in Calls => th[t].got # {})

SchedTrace(s) ==
  /\ Fresh(s) => Taken(cl[s].ord) = {} \/ marker[cl[s].ord]
  /\ cl[s].pc = "done" /\ cl[s].reply \in Written => Taken(cl[s].ord) \subseteq cl[s].codes

TraceInv ==
  /\ Traceable
  /\ \A t \in Threads : FlowTrace(t)
  /\ \A c \in Callers : cl[c].pc = "wait" => cl[c].req # Nobody
  /\ \A s \in Scheds : SchedTrace(s)

\* Under a caller's key nobody works on the order but its own request.
LEMMA UnderKey ==
  ASSUME TypeInv, Links, RedisInv, NEW c \in Callers, cl[c].pc \notin {"idle", "redis"},
         NEW t \in Threads, Working(t, cl[c].ord)
  PROVE  cl[c].req = t
  <1>1. redis[cl[c].ord] = c /\ th[t].pc \notin {"idle", "redis"} /\ th[t].ord = cl[c].ord
    BY DEF RedisInv, Working, Locked
  <1>2. t \notin Autos
    BY <1>1, DeliveryAssumption DEF RedisInv
  <1>3. PICK d \in Callers : cl[d].req = t
    BY <1>1, <1>2 DEF RedisInv
  <1>4. cl[d].pc = "wait" /\ cl[d].ord = cl[c].ord
    BY <1>1, <1>3, DeliveryAssumption DEF TypeInv, CallersOK, CallerOK, Links
  <1>5. redis[cl[c].ord] = d
    BY <1>4 DEF RedisInv
  <1> QED BY <1>1, <1>3, <1>5

\* A step of flow t.
FlowAction(t) ==
  \/ t \in Autos /\ ((\E o \in Orders : AutoStart(t, o)) \/ AutoStep(t))
  \/ t \in Calls /\ CallCheck(t)
  \/ SharedStep(t)

LEMMA FlowContent ==
  ASSUME NEW t \in Threads, FlowAction(t)
  PROVE  UNCHANGED content \/ Write(t)
  <1>1. ASSUME NEW o \in Orders, AutoStart(t, o)
        PROVE  UNCHANGED content
    BY <1>1 DEF AutoStart, database
  <1>2. CASE AutoStep(t)
    BY <1>2 DEF AutoStep, AutoRedis, AutoCheck, AutoEnter, AutoMark, AutoFree, database
  <1>3. CASE CallCheck(t) \/ SharedStep(t)
    BY <1>3 DEF CallCheck, SharedStep, Acquire, Confirm, ConfirmSkip, ConfirmRefused,
          ConfirmOnlySend, ConfirmAsk, Take, Send, Post, Leave, database
  <1> QED BY <1>1, <1>2, <1>3 DEF FlowAction

LEMMA ActionSteady ==
  ASSUME TypeInv, GateInv, OnceInv, Safe, NEW t \in Threads, FlowAction(t)
  PROVE  Steady(t) \/ \E c \in Codes : Takes(t, c)
  <1>0. Once(t) /\ ~DbFaults
    BY DEF OnceInv, Safe
  <1> QED BY <1>0, AutoSteady, CallSteady, SharedSteady DEF FlowAction

LEMMA IdleStep == Idle.pc = "idle"
  BY DEF Idle

\* How a flow gets to its last step, and a call to its first.
Placed(t) ==
  LET n == th'[t] IN
  /\ n.pc = "leave" => UNCHANGED th \/ (t \in Autos /\ n.got = {})
  /\ t \in Calls /\ n.pc \in {"lock", "check"} => th[t].pc \in {"lock", "check"}

LEMMA EmptyRoundPlaced ==
  ASSUME TypeInv, NEW t \in Autos, Once(t), th[t].pc \in {"confirm", "take"}, EmptyRound(t)
  PROVE  Placed(t)
  <1> DEFINE r == th[t]
             n == th'[t]
  <1>1. r \in Flow /\ t \notin Calls
    BY DeliveryAssumption DEF TypeInv, FlowsOK
  <1>2. n.pc = "leave" => r.got = {} \/ r.round = 0
    BY EmptyRoundAt DEF TypeInv
  <1>3. ASSUME r.round = 0 PROVE r.got = {}
    <2>1. IsFiniteSet(r.got) /\ Cardinality(r.got) <= 0
      BY <1>1, <1>3 DEF Once, FlowOnce, Seats
    <2>2. Cardinality(r.got) \in Nat
      BY <2>1, FS_CardinalityType
    <2>3. Cardinality(r.got) = 0
      BY <2>1, <2>2
    <2> QED BY <2>1, <2>3, FS_EmptySet
  <1>4. n.got = r.got
    BY EmptyRoundAt DEF TypeInv
  <1> QED BY <1>1, <1>2, <1>3, <1>4 DEF Placed

LEMMA FinishPlaced ==
  ASSUME TypeInv, NEW t \in Threads, NEW kind, NEW codes, Finish(t, kind, codes)
  PROVE  Placed(t)
  <1>1. th[t] \in Flow /\ (t \in Autos => t \notin Calls)
    BY DeliveryAssumption DEF TypeInv, FlowsOK
  <1>2. th'[t].pc = "idle" \/ (t \in Autos /\ th'[t].pc = "free")
    <2>1. [th[t] EXCEPT !.pc = "free"].pc = "free"
      BY <1>1 DEF Flow
    <2>2. th'[t] = Idle \/ (t \in Autos /\ th'[t] = [th[t] EXCEPT !.pc = "free"])
      BY FinishAt DEF TypeInv
    <2> QED BY <2>1, <2>2, IdleStep
  <1> QED BY <1>1, <1>2 DEF Placed

LEMMA FlowPlaced ==
  ASSUME TypeInv, OnceInv, NEW t \in Threads, FlowAction(t), ~Write(t)
  PROVE  Placed(t)
  <1> DEFINE r == th[t]
             n == th'[t]
  <1>0. Once(t) /\ (t \in Autos => t \notin Calls)
    BY DeliveryAssumption DEF OnceInv
  <1>1. ASSUME n.pc \notin {"leave", "lock", "check"}
        PROVE  Placed(t)
    BY <1>1 DEF Placed
  <1>2. ASSUME t \in Autos, n.pc # "leave"
        PROVE  Placed(t)
    BY <1>0, <1>2 DEF Placed
  <1>3. ASSUME t \in Autos, NEW o \in Orders, AutoStart(t, o)
        PROVE  Placed(t)
    <2>1. r.pc = "idle" /\ (UNCHANGED th \/ n.pc = "redis")
      BY <1>3, AutoStartAt
    <2> QED BY <1>2, <1>3, <2>1
  <1>4. CASE t \in Autos /\ AutoStep(t)
    <2>1. CASE AutoRedis(t)
      BY <1>2, <1>4, <2>1, AutoRedisAt, IdleStep
    <2>2. CASE AutoCheck(t)
      BY <1>1, <1>4, <2>2, AutoCheckAt, FinishPlaced
    <2>3. CASE AutoEnter(t)
      BY <1>1, <1>4, <2>3, AutoEnterAt
    <2>4. CASE AutoMark(t)
      BY <1>1, <1>4, <2>4, AutoMarkAt
    <2>5. CASE AutoFree(t)
      BY <1>1, <1>4, <2>5, BecomeAt DEF AutoFree, TypeInv, Idle
    <2> QED BY <1>4, <2>1, <2>2, <2>3, <2>4, <2>5 DEF AutoStep
  <1>5. CASE t \in Calls /\ CallCheck(t)
    BY <1>1, <1>5, CallCheckAt, FinishPlaced
  <1>6. CASE Acquire(t)
    <2>1. r.pc = "lock" /\ (n.pc \in {"check", "free"} \/ n = Idle)
      BY <1>6, AcquireAt
    <2> QED BY <2>1, IdleStep DEF Placed
  <1>7. CASE Confirm(t)
    BY <1>0, <1>1, <1>7, ConfirmAt, EmptyRoundPlaced, FinishPlaced
  <1>8. CASE Take(t)
    <2>1. r.pc = "take"
      BY <1>8 DEF Take, At
    <2>2. \/ n.pc \in {"enter", "mark", "send"}
          \/ t \in Autos /\ EmptyRound(t)
          \/ Finish(t, "fail", {})
          \/ Goto(t, "post")
      BY <1>8, TakeAt DEF TypeInv
    <2>3. Goto(t, "post") => n.pc = "post"
      BY GotoAt DEF TypeInv
    <2> QED BY <1>0, <1>1, <2>1, <2>2, <2>3, EmptyRoundPlaced, FinishPlaced
  <1>9. CASE Send(t)
    BY <1>1, <1>9, SendAt DEF TypeInv
  <1>10. CASE Post(t)
    BY <1>1, <1>10, PostAt
  <1>11. CASE Leave(t)
    BY <1>11, FinishPlaced DEF Leave
  <1> QED BY <1>3, <1>4, <1>5, <1>6, <1>7, <1>8, <1>9, <1>10, <1>11 DEF FlowAction, SharedStep

\* Write puts down exactly the codes of the order.
LEMMA WriteTrace ==
  ASSUME TypeInv, GateInv, OnceInv, ~DbFaults, NEW t \in Threads, Write(t)
  PROVE  LET o == th[t].ord n == th'[t] IN
         /\ o \in Orders /\ Working(t, o) /\ Only(t)
         /\ n.pc = "leave" /\ n.ord = o /\ n.got = th[t].got /\ th[t].got # {}
         /\ content'[o] = th[t].got /\ Taken(o) = th[t].got
         /\ \A q \in Orders : q # o => content'[q] = content[q]
  <1> DEFINE o == th[t].ord
  <1>1. th[t].pc = "write" /\ o \in Orders /\ content \in [Orders -> SUBSET Codes]
    BY DEF Write, At, TypeInv, FlowsOK, FlowOK, StoreOK
  <1>2. content' = [content EXCEPT ![o] = th[t].got]
    BY DEF Write
  <1>3. th[t].got # {}
    BY <1>1 DEF GateInv, FlowsGate, FlowGate
  <1>4. Taken(o) = th[t].got
    BY <1>1, <1>3 DEF OnceInv, Once, FlowOnce, Beyond, Locked
  <1>5. Only(t) /\ th'[t].pc = "leave" /\ th'[t].ord = o /\ th'[t].got = th[t].got
    BY WriteAt DEF Only
  <1> QED BY <1>1, <1>2, <1>3, <1>4, <1>5 DEF Working, Locked

\* A code in hand, or written down, stays where it can be found.
LEMMA TraceFlow ==
  ASSUME TypeInv, GateInv, OnceInv, TraceInv, Safe, NEW t \in Threads, FlowAction(t)
  PROVE  Traceable'
  <1> DEFINE Found(o, x) == \E u \in Threads : Working(u, o)' /\ x \in th'[u].got
  <1>1. ASSUME NEW o \in Orders, NEW u \in Threads, Working(u, o), th'[u] = th[u],
               NEW x \in th[u].got
        PROVE  Found(o, x)
    BY <1>1 DEF Working
  <1>2. Only(t)
    BY ActionSteady DEF Steady, Takes
  <1>3. ASSUME NEW c \in Codes, Takes(t, c), NEW o \in Orders, NEW x \in Taken(o)' \ content'[o]
        PROVE  Found(o, x)
    <2>1. th[t].ord \in Orders /\ th[t].pc = "take"
      BY <1>3 DEF Takes, TypeInv, FlowsOK, FlowOK
    <2>2. content' = content
      BY <2>1, FlowContent DEF Write, At
    <2>3. Taken(o)' = IF o = th[t].ord THEN Taken(o) \cup {c} ELSE Taken(o)
      BY <1>3, <2>1, TakenAt DEF Takes
    <2>4. /\ th'[t].pc \in Locked /\ th'[t].ord = th[t].ord /\ th'[t].got = th[t].got \cup {c}
      BY <1>3 DEF Takes, Locked
    <2>5. CASE x = c /\ o = th[t].ord
      BY <2>4, <2>5 DEF Working
    <2>6. CASE x \in Taken(o)
      <3>1. PICK u \in Threads : Working(u, o) /\ x \in th[u].got
        BY <1>3, <2>2, <2>6 DEF TraceInv, Traceable
      <3>2. CASE u = t
        BY <2>4, <3>1, <3>2 DEF Working
      <3>3. CASE u # t
        BY <1>1, <1>2, <3>1, <3>3 DEF Only
      <3> QED BY <3>2, <3>3
    <2> QED BY <1>3, <2>3, <2>5, <2>6
  <1>4. ASSUME Steady(t), NEW o \in Orders, NEW x \in Taken(o)' \ content'[o]
        PROVE  Found(o, x)
    <2>1. Taken(o)' = Taken(o)
      BY <1>4 DEF Steady, Taken
    <2>2. CASE Write(t)
      <3>1. o # th[t].ord
        BY <1>4, <2>1, <2>2, WriteTrace DEF Safe
      <3>2. content'[o] = content[o]
        BY <2>2, <3>1, WriteTrace DEF Safe
      <3>3. PICK u \in Threads : Working(u, o) /\ x \in th[u].got
        BY <1>4, <2>1, <3>2 DEF TraceInv, Traceable
      <3> QED BY <1>1, <1>2, <3>1, <3>3 DEF Only, Working
    <2>3. CASE ~Write(t)
      <3>1. PICK u \in Threads : Working(u, o) /\ x \in th[u].got
        BY <1>4, <2>1, <2>3, FlowContent DEF TraceInv, Traceable
      <3>2. CASE th'[u] = th[u]
        BY <1>1, <3>1, <3>2
      <3>3. CASE u = t /\ ~UNCHANGED th
        <4>1. th[t].pc \in Locked /\ th[t].ord = o /\ x \in th[t].got /\ x \notin content[o]
          BY <1>4, <2>3, <3>1, <3>3, FlowContent DEF Working
        <4>2. ~Starts(t)
          BY <4>1 DEF Starts, Locked
        <4>3. ~Stops(t)
          <5>1. th[t].pc # "leave" /\ th[t].pc # "check"
            BY <4>1 DEF TraceInv, FlowTrace, GateInv, FlowsGate, FlowGate
          <5> QED BY <4>1, <5>1 DEF Stops, Beyond
        <4>4. Onward(t)
          BY <1>4, <3>3, <4>2, <4>3 DEF Steady
        <4> QED BY <4>1, <4>4 DEF Onward, Working
      <3> QED BY <1>2, <3>2, <3>3 DEF Only
    <2> QED BY <2>2, <2>3
  <1>5. \A o \in Orders : \A x \in Taken(o)' \ content'[o] : Found(o, x)
    BY <1>3, <1>4, ActionSteady
  <1> QED BY <1>5 DEF Traceable

\* Who leaves has written down what it has.
LEMMA LeaveFlow ==
  ASSUME TypeInv, GateInv, OneDeliverer, OnceInv, TraceInv, Safe, NEW t \in Threads,
         FlowAction(t), NEW u \in Threads
  PROVE  FlowTrace(u)'
  <1>1. Only(t) /\ FlowTrace(u)
    BY ActionSteady DEF Steady, Takes, TraceInv
  <1>2. CASE Write(t)
    <2>1. CASE u = t
      BY <1>2, <2>1, WriteTrace DEF Safe, FlowTrace
    <2>2. CASE u # t
      <3>1. th'[u] = th[u]
        BY <1>1, <2>2 DEF Only
      <3>2. CASE th[u].pc = "leave"
        <4>1. th[u].ord \in Orders /\ th[u].ord # th[t].ord
          BY <1>2, <2>2, <3>2, WriteTrace
             DEF Safe, TypeInv, FlowsOK, FlowOK, OneDeliverer, Working, Locked
        <4>2. content'[th[u].ord] = content[th[u].ord]
          BY <1>2, <4>1, WriteTrace DEF Safe
        <4> QED BY <1>1, <3>1, <4>2 DEF FlowTrace
      <3> QED BY <3>1, <3>2 DEF FlowTrace
    <2> QED BY <2>1, <2>2
  <1>3. CASE ~Write(t)
    <2>1. content' = content /\ Placed(t)
      BY <1>3, FlowContent, FlowPlaced
    <2>2. CASE th'[u] = th[u]
      BY <1>1, <2>1, <2>2 DEF FlowTrace
    <2>3. CASE u = t /\ ~UNCHANGED th
      <3>1. th'[t].pc = "leave" => t \notin Calls /\ th'[t].got = {}
        BY <2>1, <2>3, DeliveryAssumption DEF Placed
      <3> QED BY <2>3, <3>1 DEF FlowTrace
    <2> QED BY <1>1, <2>2, <2>3 DEF Only
  <1> QED BY <1>2, <1>3

\* What a request is answered: codes the scheduler may write down.
Tells(t) ==
  \/ UNCHANGED cl
  \/ \E kind, codes : /\ Answer(t, kind, codes)
                      /\ kind \in Written => Taken(th[t].ord) \subseteq codes

LEMMA CallTells ==
  ASSUME TypeInv, GateInv, OneDeliverer, OnceInv, TraceInv, PlatformFinal,
         NEW t \in Calls, FlowAction(t),
         th[t].pc = "check" => Taken(th[t].ord) = {} \/ marker[th[t].ord]
  PROVE  Tells(t)
  <1> DEFINE r == th[t]
             o == th[t].ord
  <1>0. t \in Threads /\ t \notin Autos
    BY DeliveryAssumption
  <1>1. ASSUME NEW kind, NEW codes, Finish(t, kind, codes),
               kind \in Written => Taken(o) \subseteq codes
        PROVE  Tells(t)
    <2>1. Answer(t, kind, codes)
      BY <1>1, FinishAt DEF TypeInv
    <2> QED BY <1>1, <2>1 DEF Tells
  <1>2. "fail" \notin Written
    BY DEF Written
  <1>3. CASE CallCheck(t)
    <2>1. o \in Orders /\ r.pc = "check" /\ Working(t, o) /\ r.got = {}
      BY <1>3 DEF CallCheck, At, TypeInv, FlowsOK, FlowOK, Working, Locked,
                  GateInv, FlowsGate, FlowGate
    <2>2. Taken(o) \subseteq content[o]
      <3>1. ASSUME NEW x \in Taken(o) \ content[o] PROVE FALSE
        <4>1. PICK u \in Threads : Working(u, o) /\ x \in th[u].got
          BY <2>1, <3>1 DEF TraceInv, Traceable
        <4>2. u = t
          BY <2>1, <4>1 DEF OneDeliverer
        <4> QED BY <2>1, <4>1, <4>2
      <3> QED BY <3>1
    <2>3. ~marker[o] => Taken(o) = {}
      BY <2>1
    <2>4. \/ Finish(t, "alreadyOnly", content[o])
          \/ ~marker[o] /\ Finish(t, "already", {})
          \/ Finish(t, "fail", {})
          \/ UNCHANGED cl
      BY <1>3 DEF CallCheck
    <2>5. UNCHANGED cl => Tells(t)
      BY DEF Tells
    <2> QED BY <1>1, <1>2, <2>2, <2>3, <2>4, <2>5
  <1>4. CASE Acquire(t)
    BY <1>0, <1>2, <1>4, AcquireAt DEF Tells
  <1>5. CASE Confirm(t)
    <2>1. r.pc = "confirm" /\ o \in Orders
      BY <1>0, <1>5, ConfirmAt
    <2>2. platform'[o] = "shipped" => Taken(o) = {}
      <3>1. FlowOnce(t, r, platform[o], Taken(o), Handled(o))
        BY <1>0 DEF OnceInv, Once
      <3>2. platform'[o] = "shipped" => platform[o] # "closed"
        BY <2>1 DEF PlatformFinal
      <3> QED BY <2>1, <3>1, <3>2 DEF FlowOnce, Beyond, Locked, Compensated
    <2>3. \/ UNCHANGED cl
          \/ Finish(t, "fail", {})
          \/ Finish(t, "already", {}) /\ platform'[o] = "shipped"
      BY <1>0, <1>5, ConfirmAt
    <2>4. UNCHANGED cl => Tells(t)
      BY DEF Tells
    <2> QED BY <1>1, <1>2, <2>2, <2>3, <2>4
  <1>6. CASE Take(t)
    <2>1. UNCHANGED cl \/ Finish(t, "fail", {})
      BY <1>0, <1>6, TakeAt DEF TypeInv
    <2>2. UNCHANGED cl => Tells(t)
      BY DEF Tells
    <2> QED BY <1>1, <1>2, <2>1, <2>2
  <1>7. CASE Send(t) \/ Post(t) \/ Write(t)
    BY <1>7 DEF Send, Post, Write, Tells
  <1>8. CASE Leave(t)
    <2>1. r.pc = "leave" /\ Finish(t, r.reply, r.got)
      BY <1>8 DEF Leave, At
    <2>2. r.got # {} /\ (Taken(o) = r.got \/ r.got = {})
      BY <1>0, <2>1 DEF TraceInv, FlowTrace, OnceInv, Once, FlowOnce, Beyond, Locked
    <2> QED BY <1>1, <2>1, <2>2
  <1> QED BY <1>0, <1>3, <1>4, <1>5, <1>6, <1>7, <1>8 DEF FlowAction, SharedStep

LEMMA SchedAt ==
  ASSUME NEW s \in Scheds, NEW o, cl'[s].ord = o,
         Fresh(s)' => Taken(o)' = {} \/ marker'[o],
         cl'[s].pc = "done" /\ cl'[s].reply \in Written => Taken(o)' \subseteq cl'[s].codes
  PROVE  SchedTrace(s)'
  BY DEF SchedTrace, Fresh, Taken, Written

\* The callers, when flow t takes a step.
LEMMA CallersFlow ==
  ASSUME TypeInv, Links, GateInv, RedisInv, OneDeliverer, OnceInv, TraceInv, Safe,
         PlatformFinal, MarkerKept, NEW t \in Threads, FlowAction(t), NEW c \in Callers
  PROVE  /\ cl'[c].pc = "wait" => cl'[c].req # Nobody
         /\ c \in Scheds => SchedTrace(c)'
  <1> PICK o : o = cl[c].ord
    OBVIOUS
  <1>0. /\ cl[c].req \in Calls \cup {Nobody} /\ (cl[c].req # Nobody => cl[c].pc = "wait")
        /\ cl[c].pc # "idle" => o \in Orders
        /\ cl[c].pc = "wait" => cl[c].req # Nobody
    BY DEF TypeInv, CallersOK, CallerOK, Caller, TraceInv
  <1>1. Only(t) /\ (Steady(t) \/ \E x \in Codes : Takes(t, x))
    BY ActionSteady DEF Steady, Takes
  <1>2. ASSUME o \in Orders, ~(th[t].pc = "take" /\ th[t].ord = o)
        PROVE  Taken(o)' = Taken(o)
    <2>1. CASE Steady(t)
      BY <2>1 DEF Steady, Taken
    <2>2. ASSUME NEW x \in Codes, Takes(t, x) PROVE Taken(o)' = Taken(o)
      <3>1. th[t].pc = "take" /\ th[t].ord \in Orders /\ th[t].ord # o
        BY <1>2, <2>2 DEF Takes, TypeInv, FlowsOK, FlowOK
      <3> QED BY <1>2, <2>2, <3>1, TakenAt DEF Takes
    <2> QED BY <1>1, <2>1, <2>2
  <1>3. ASSUME cl[c].pc \in {"call", "wait", "done"}, th[t].pc = "take", th[t].ord = o
        PROVE  cl[c].req = t /\ cl[c].pc = "wait"
    <2>1. Working(t, o)
      BY <1>3 DEF Working, Locked
    <2> QED BY <1>0, <1>3, <2>1, UnderKey, DeliveryAssumption
  <1>4. CASE cl'[c] = cl[c]
    <2>1. ASSUME c \in Scheds, Fresh(c)'
          PROVE  Taken(o)' = {} \/ marker'[o]
      <3>1. Fresh(c) /\ ~(th[t].pc = "take" /\ th[t].ord = o)
        <4>1. CASE cl[c].pc = "call"
          BY <1>0, <1>3, <4>1 DEF Fresh
        <4>2. CASE cl[c].pc # "call"
          <5>1. cl[c].pc = "wait" /\ th'[cl[c].req].pc \in {"lock", "check"} /\ cl[c].req \in Calls
            BY <1>0, <1>4, <2>1, <4>2 DEF Fresh
          <5>2. CASE cl[c].req = t
            <6>1. ~Write(t)
              BY <5>1, <5>2, WriteAt
            <6>2. th[t].pc \in {"lock", "check"}
              BY <5>1, <5>2, <6>1, FlowPlaced DEF Placed
            <6> QED BY <5>1, <5>2, <6>2 DEF Fresh
          <5>3. CASE cl[c].req # t
            BY <1>1, <1>3, <5>1, <5>3 DEF Only, Fresh
          <5> QED BY <5>2, <5>3
        <4> QED BY <4>1, <4>2
      <3>2. o \in Orders /\ (Taken(o) = {} \/ marker[o])
        BY <1>0, <2>1, <3>1 DEF TraceInv, SchedTrace, Fresh
      <3> QED BY <1>2, <3>1, <3>2 DEF MarkerKept
    <2>2. ASSUME c \in Scheds, cl[c].pc = "done", cl[c].reply \in Written
          PROVE  Taken(o)' \subseteq cl[c].codes
      <3>1. o \in Orders /\ ~(th[t].pc = "take" /\ th[t].ord = o)
        BY <1>0, <1>3, <2>2
      <3> QED BY <1>2, <2>2, <3>1 DEF TraceInv, SchedTrace
    <2> QED BY <1>0, <1>4, <2>1, <2>2, SchedAt
  <1>5. CASE cl'[c] # cl[c]
    <2>1. Ends(t)
      BY <1>5, FlowStep DEF GoesOn, FlowAction
    <2>2. cl[c].req = t /\ cl'[c].pc = "done" /\ cl'[c].ord = o /\ t \in Calls
      <3>1. PICK kind, codes : Answer(t, kind, codes)
        BY <2>1 DEF Ends
      <3> QED BY <1>0, <1>5, <3>1, AnswerAt, DeliveryAssumption DEF TypeInv
    <2>3. cl[c].pc = "wait" /\ o \in Orders /\ th[t].ord = o
      BY <1>0, <2>2, DeliveryAssumption DEF Links
    <2>4. Taken(o)' = Taken(o)
      <3>1. th'[t].pc \in {"free", "idle"}
        BY <2>1, IdleStep DEF Ends
      <3>2. Steady(t)
        BY <1>1, <3>1 DEF Takes
      <3> QED BY <3>2 DEF Steady, Taken
    <2>5. ASSUME c \in Scheds, cl'[c].reply \in Written
          PROVE  Taken(o)' \subseteq cl'[c].codes
      <3>1. th[t].pc = "check" => Taken(o) = {} \/ marker[o]
        BY <2>2, <2>3, <2>5 DEF TraceInv, SchedTrace, Fresh
      <3>2. PICK kind, codes : /\ Answer(t, kind, codes)
                               /\ kind \in Written => Taken(o) \subseteq codes
        BY <1>5, <2>2, <2>3, <3>1, CallTells DEF Tells
      <3>3. cl'[c].reply = kind /\ cl'[c].codes = codes
        BY <2>2, <3>2, AnswerAt DEF TypeInv
      <3> QED BY <2>4, <2>5, <3>2, <3>3
    <2>6. ~Fresh(c)'
      BY <2>2 DEF Fresh
    <2> QED BY <2>2, <2>5, <2>6, SchedAt
  <1> QED BY <1>4, <1>5

\* A step of caller c.
CallerAction(c) ==
  \/ CallerStep(c)
  \/ c \in Scheds /\ ((\E o \in Orders : SchedSnapshot(c, o)) \/ SchedCanShip(c))
  \/ c \in Manuals /\ \E o \in Orders : ManualStart(c, o)

\* How a caller comes to wait for an answer, and the scheduler to ask for one.
LEMMA CallerPlaced ==
  ASSUME TypeInv, RedisReliable, NEW c \in Callers, cl[c].pc = "wait" => cl[c].req # Nobody,
         CallerAction(c)
  PROVE  /\ cl'[c].pc # "done"
         /\ cl'[c].pc = "wait" => CallerCall(c)
         /\ c \in Scheds /\ cl'[c].pc = "call" =>
              /\ cl[c].pc = "ship" /\ platform[cl[c].ord] = "pending"
              /\ cl'[c].ord = cl[c].ord
  <1>1. CASE CallerRedis(c)
    <2>1. PICK n : /\ n \in {"ship", "call"} /\ (c \in Scheds => n = "ship")
                   /\ \E b : CallerBecome(c, Waiting) \/ CallerBecome(c, [cl[c] EXCEPT !.pc = n, !.redis = b])
      <3> DEFINE n == IF c \in Scheds THEN "ship" ELSE "call"
      <3>1. /\ n \in {"ship", "call"} /\ (c \in Scheds => n = "ship")
            /\ \E b : CallerBecome(c, Waiting) \/ CallerBecome(c, [cl[c] EXCEPT !.pc = n, !.redis = b])
        BY <1>1 DEF CallerRedis
      <3> QED BY <3>1
    <2>2. PICK b : cl'[c] = Waiting \/ cl'[c] = [cl[c] EXCEPT !.pc = n, !.redis = b]
      BY <2>1, CallerBecomeAt DEF TypeInv
    <2>3. [cl[c] EXCEPT !.pc = n, !.redis = b].pc = n
      BY DEF TypeInv, CallersOK, Caller
    <2> QED BY <2>1, <2>2, <2>3, WaitingIdle
  <1>2. CASE CallerCall(c)
    BY <1>2, CallerCallAt
  <1>3. CASE CallerTimeout(c)
    BY <1>3 DEF CallerTimeout, CallerAt, RedisReliable
  <1>4. CASE CallerDone(c)
    BY <1>4, CallerGotoAt DEF CallerDone
  <1>5. CASE CallerFree(c)
    BY <1>5, CallerFreeAt, WaitingIdle
  <1>6. ASSUME NEW o \in Orders, SchedSnapshot(c, o) \/ ManualStart(c, o)
        PROVE  cl'[c].pc = "redis"
    BY <1>6, BeginAt DEF SchedSnapshot, ManualStart
  <1>7. CASE SchedCanShip(c)
    <2>1. cl[c].pc = "ship" /\ \/ platform[cl[c].ord] = "pending" /\ CallerGoto(c, "call")
                               \/ CallerGoto(c, "free")
      BY <1>7 DEF SchedCanShip, CallerAt
    <2> QED BY <2>1, CallerGotoAt
  <1> QED BY <1>1, <1>2, <1>3, <1>4, <1>5, <1>6, <1>7 DEF CallerAction, CallerStep

\* What a caller writes holds every code of the order.
LEMMA CallerContent ==
  ASSUME TypeInv, TraceInv, NEW c \in Callers, CallerAction(c), NEW o \in Orders
  PROVE  content'[o] = content[o] \/ Taken(o) \subseteq content'[o]
  <1>1. CASE CallerDone(c)
    <2>1. \/ UNCHANGED content
          \/ /\ c \in Scheds /\ cl[c].pc = "done" /\ cl[c].reply \in Written
             /\ content' = [content EXCEPT ![cl[c].ord] = cl[c].codes]
      BY <1>1 DEF CallerDone, CallerAt, Written
    <2>2. content \in [Orders -> SUBSET Codes]
      BY DEF TypeInv, StoreOK
    <2> QED BY <2>1, <2>2 DEF TraceInv, SchedTrace
  <1>2. CASE ~CallerDone(c)
    BY <1>2 DEF CallerAction, CallerStep, CallerRedis, CallerCall, CallerTimeout, CallerFree,
                SchedSnapshot, SchedCanShip, ManualStart, database
  <1> QED BY <1>1, <1>2

LEMMA TraceCaller ==
  ASSUME TypeInv, Links, GateInv, RedisInv, MarkerInv, OnceInv, TraceInv, RedisReliable,
         NEW c \in Callers, CallerAction(c)
  PROVE  TraceInv'
  <1>1. /\ UNCHANGED <<card, marker>> /\ \A d \in Callers : d # c => cl'[d] = cl[d]
    <2>1. UNCHANGED card
      BY DEF CallerAction, CallerStep, CallerRedis, CallerCall, CallerTimeout, CallerDone, CallerFree,
             SchedSnapshot, SchedCanShip, ManualStart
    <2> QED BY <2>1, MarkerCaller, CallerKept DEF CallerAction, CallerKeeps
  <1>2. \A u \in Threads : th'[u] = th[u] \/ (th[u].pc = "idle" /\ th'[u].pc = "lock")
    <2>1. CASE CallerCall(c)
      <3>1. PICK t \in Calls : /\ Only(t) /\ th[t].pc = "idle"
                               /\ th'[t] = [Idle EXCEPT !.pc = "lock", !.ord = cl[c].ord, !.inst = gen]
        BY <2>1, CallerCallAt
      <3>2. th'[t].pc = "lock"
        BY <3>1 DEF Idle
      <3> QED BY <3>1, <3>2 DEF Only
    <2>2. CASE ~CallerCall(c)
      BY <2>2, CallerStepGoesOn DEF CallerGoesOn, CallerAction
    <2> QED BY <2>1, <2>2
  <1>3. \A o : Taken(o)' = Taken(o)
    BY <1>1 DEF Taken
  <1>4. /\ \A d \in Callers : cl[d].pc = "wait" => cl[d].req # Nobody
        /\ \A d \in Callers : cl[d].req # Nobody => cl[d].pc = "wait" /\ cl[d].req \in Threads
        /\ \A d \in Callers : cl[d].pc # "idle" => cl[d].ord \in Orders
    BY DEF TraceInv, TypeInv, CallersOK, CallerOK, Caller
  <1>5. Traceable'
    <2>1. ASSUME NEW o \in Orders, NEW x \in Taken(o)' \ content'[o]
          PROVE  \E u \in Threads : Working(u, o)' /\ x \in th'[u].got
      <3>1. x \in Taken(o) \ content[o]
        BY <1>3, <2>1, CallerContent
      <3>2. PICK u \in Threads : Working(u, o) /\ x \in th[u].got
        BY <3>1 DEF TraceInv, Traceable
      <3>3. th'[u] = th[u]
        BY <1>2, <3>2 DEF Working, Locked
      <3> QED BY <3>2, <3>3 DEF Working
    <2> QED BY <2>1 DEF Traceable
  <1>6. ASSUME NEW u \in Threads PROVE FlowTrace(u)'
    <2>1. CASE th'[u] = th[u] /\ th[u].pc = "leave"
      <3>1. PICK o \in Orders : o = th[u].ord
        BY <2>1 DEF TypeInv, FlowsOK, FlowOK
      <3>2. th[u].got \subseteq Taken(o) /\ th[u].got \subseteq content[o]
        BY <2>1, <3>1 DEF TraceInv, FlowTrace, OnceInv, Once, FlowOnce, Beyond, Locked
      <3>3. th[u].got \subseteq content'[o]
        BY <3>2, CallerContent
      <3> QED BY <2>1, <3>1, <3>3 DEF TraceInv, FlowTrace
    <2>2. CASE ~(th'[u] = th[u] /\ th[u].pc = "leave")
      BY <1>2, <2>2 DEF FlowTrace
    <2> QED BY <2>1, <2>2
  <1>7. ASSUME NEW d \in Callers
        PROVE  cl'[d].pc = "wait" => cl'[d].req # Nobody
    <2>1. CASE d = c
      <3>1. cl'[c].pc = "wait" => CallerCall(c)
        BY <1>4, CallerPlaced
      <3>2. ASSUME CallerCall(c) PROVE cl'[c].req # Nobody
        <4>1. PICK t \in Calls : cl'[c].req = t
          BY <3>2, CallerCallAt
        <4> QED BY <4>1, DeliveryAssumption DEF Threads
      <3> QED BY <2>1, <3>1, <3>2
    <2>2. CASE d # c
      BY <1>1, <1>4, <2>2
    <2> QED BY <2>1, <2>2
  <1>8. ASSUME NEW s \in Scheds PROVE SchedTrace(s)'
    <2> PICK o : o = cl'[s].ord
      OBVIOUS
    <2>1. CASE s # c
      <3>1. cl'[s] = cl[s]
        BY <1>1, <2>1
      <3>2. Fresh(s)' => Fresh(s)
        BY <1>2, <1>4, <3>1 DEF Fresh, Links
      <3>3. Fresh(s)' => Taken(o)' = {} \/ marker'[o]
        BY <1>1, <1>3, <3>1, <3>2 DEF TraceInv, SchedTrace
      <3>4. cl'[s].pc = "done" /\ cl'[s].reply \in Written => Taken(o)' \subseteq cl'[s].codes
        BY <1>3, <3>1 DEF TraceInv, SchedTrace
      <3> QED BY <3>3, <3>4, SchedAt
    <2>2. CASE s = c
      <3>1. cl'[s].pc # "done" /\ (cl'[s].pc = "wait" => CallerCall(s))
        BY <1>4, <2>2, CallerPlaced
      <3>2. ASSUME cl'[s].pc = "call"
            PROVE  Taken(o)' = {} \/ marker'[o]
        <4>1. cl[s].pc = "ship" /\ platform[o] = "pending" /\ o = cl[s].ord /\ o \in Orders
          BY <1>4, <2>2, <3>2, CallerPlaced
        <4>2. \A u \in Threads : ~Working(u, o)
          BY <1>4, <4>1, UnderKey, DeliveryAssumption
        <4>3. Taken(o) # {} => Settled(o)
          BY <4>2 DEF Settled
        <4>4. Taken(o) # {} => marker[o]
          BY <4>1, <4>3 DEF OnceInv, OrderOnce, Compensated, Handled, GateInv, StoreGate
        <4> QED BY <1>1, <1>3, <4>4
      <3>3. ASSUME CallerCall(s)
            PROVE  Taken(o)' = {} \/ marker'[o]
        <4>1. cl[s].pc = "call" /\ o = cl[s].ord
          BY <3>3, CallerCallAt
        <4> QED BY <1>1, <1>3, <4>1 DEF TraceInv, SchedTrace, Fresh
      <3>4. Fresh(s)' => Taken(o)' = {} \/ marker'[o]
        BY <3>1, <3>2, <3>3 DEF Fresh
      <3> QED BY <3>1, <3>4, SchedAt
    <2> QED BY <2>1, <2>2
  <1> QED BY <1>5, <1>6, <1>7, <1>8 DEF TraceInv

LEMMA TraceStill ==
  ASSUME TraceInv, UNCHANGED <<th, cl, card, content, marker>>
  PROVE  TraceInv'
  BY DEF TraceInv, Traceable, Taken, Working, FlowTrace, SchedTrace, Fresh, Written

LEMMA TraceNext ==
  ASSUME TypeInv, Links, GateInv, RedisInv, MarkerInv, OneDeliverer, OnceInv, TraceInv,
         Safe, RedisReliable, [Next]_vars
  PROVE  TraceInv'
  <1>1. ASSUME NEW t \in Threads, FlowAction(t)
        PROVE  TraceInv'
    <2>1. PlatformFinal /\ MarkerKept
      BY NextFinal, MarkerFinal
    <2>2. \A c \in Callers : /\ cl'[c].pc = "wait" => cl'[c].req # Nobody
                             /\ c \in Scheds => SchedTrace(c)'
      BY <1>1, <2>1, CallersFlow
    <2>3. Traceable' /\ \A u \in Threads : FlowTrace(u)'
      BY <1>1, TraceFlow, LeaveFlow
    <2> QED BY <2>2, <2>3 DEF TraceInv
  <1>2. ASSUME NEW c \in Callers, CallerAction(c)
        PROVE  TraceInv'
    BY <1>2, TraceCaller
  <1>3. CASE Environment
    <2>1. UNCHANGED <<th, cl, card, content, marker>>
      BY <1>3 DEF Safe, Environment, Toggle, DayEnds, Restart, Crash, Elsewhere, SyncRead, SyncWrite,
          RedisExpire, CoolExpire, ConfirmedExpire, HoldExpire, database
    <2> QED BY <2>1, TraceStill
  <1>4. CASE UNCHANGED vars
    BY <1>4, TraceStill DEF vars, database
  <1> QED BY <1>1, <1>2, <1>3, <1>4 DEF Next, FlowAction, CallerAction

LEMMA TraceInit == Init => TraceInv
  <1> SUFFICES ASSUME Init PROVE TraceInv
    OBVIOUS
  <1>1. \A o \in Orders : Taken(o) = {}
    BY DeliveryAssumption DEF Init, Taken
  <1>2. \A t \in Threads : th[t].pc = "idle"
    BY IdleStep DEF Init
  <1>3. \A c \in Callers : cl[c].pc = "idle"
    BY WaitingIdle DEF Init
  <1> QED BY <1>1, <1>2, <1>3 DEF TraceInv, Traceable, FlowTrace, SchedTrace, Fresh

\* Codes that left the stock are with a flow at work or in the order's
\* delivery_content, from where the merchant can forward them by hand: no
\* redelivery, repeated answer, restart or switch overwrites the only record
\* of one; provided Redis is up and no caller gives up on a running request.
THEOREM CodesTraceable ==
  ASSUME Safe, RedisReliable
  PROVE  Spec => []Traceable
  <1>0. Isolated /\ ~DbFaults /\ ConfirmMode
    BY DEF Safe
  <1>1. Spec => [](TypeInv /\ Links /\ GateInv /\ MarkerInv /\ OneDeliverer /\ OnceInv)
    BY <1>0, LinksHold, GateHolds, MarkerHolds, OneAtATime, OnceHolds, PTL
  <1>2. TypeInv /\ Links /\ RedisInv /\ [Next]_vars => RedisInv'
    BY RedisNext
  <1>3. TypeInv /\ Links /\ GateInv /\ RedisInv /\ MarkerInv /\ OneDeliverer /\ OnceInv /\ TraceInv
        /\ [Next]_vars => TraceInv'
    BY TraceNext
  <1>4. TraceInv => Traceable
    BY DEF TraceInv
  <1> QED BY <1>1, <1>2, <1>3, <1>4, RedisInit, TraceInit, PTL DEF Spec

=============================================================================
