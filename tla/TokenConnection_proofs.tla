----------------------- MODULE TokenConnection_proofs -----------------------
(***************************************************************************)
(* Theorems about TokenConnection, for any loops and bounds.               *)
(***************************************************************************)
EXTENDS TokenConnection, TLAPS

RowType  == [token : Tokens, exp : {"past", "near", "far"}, renew : {"none", "far"}]
InstType == [current : Tokens, inUse : Tokens, startup : BOOLEAN, expired : BOOLEAN,
             unread : BOOLEAN, loops : BOOLEAN, polled : BOOLEAN, mid : BOOLEAN,
             fetch : 0..MaxFetch, auth : 0..MaxAuth, short : 0..MaxShort]
ConnType == [pc : {"top", "dial", "init", "reg", "up", "failed", "login", "over"},
             token : Tokens, ws : {"none", "open", "closed", "lost", "refused"}]
RefType  == [pc : {"idle", "ask", "again", "mark", "store", "close"}, token : Tokens,
             changed : BOOLEAN, counts : BOOLEAN, tries : 0..MaxFaults]
SchedType == [on : BOOLEAN, pc : {"idle", "ask", "write"}, token : Tokens]

(***************************************************************************)
(* The counters stay below their limits as long as main has not ended or   *)
(* gone to log in; a try to get past a slider is a fault each; main        *)
(* refreshes before it connects and in init, nowhere else.  A refused      *)
(* start-up token is history only when the chance to use one is spent.     *)
(***************************************************************************)
InLimits(i, c) ==
  /\ i \in InstType /\ c \in ConnType
  /\ c.pc \in {"top", "dial", "init", "reg", "up"} => i.auth < MaxAuth
  /\ c.pc # "over" => i.fetch < MaxFetch /\ i.short < MaxShort

Spent(i, R) == /\ i.startup => R = {} /\ ~i.expired
               /\ i.expired => R = {}

RefsOK == /\ ref \in [Refreshers -> RefType]
          /\ \A p \in Refreshers : ref[p].tries <= faults
          /\ ref["main"].pc # "idle" => conn.pc \in {"top", "init"}

RestOK == /\ row \in RowType /\ issued \in Tokens /\ sched \in SchedType
          /\ enabled \in BOOLEAN /\ faults \in 0..MaxFaults /\ refused \subseteq Tokens

IInv == RestOK /\ InLimits(inst, conn) /\ RefsOK /\ Spent(inst, refused)

LEMMA InvTypes == IInv => TypeOK
  BY DEF IInv, RestOK, InLimits, RefsOK, TypeOK, RowType, InstType, ConnType, RefType, SchedType

LEMMA Consts ==
  /\ MaxTokens \in Nat \ {0} /\ MaxFaults \in Nat /\ MaxFaultsOn \in 0..MaxFaults
  /\ MaxFetch \in Nat \ {0} /\ MaxAuth \in Nat \ {0} /\ MaxShort \in Nat \ {0}
  /\ 0 \in Tokens /\ 1 \in Tokens /\ NoToken = 0 /\ NoToken \in Tokens
  /\ "main" \in Refreshers /\ "main" \notin Loops
  BY TokenAssumption DEF Tokens, NoToken, Refreshers

LEMMA Starts ==
  /\ InLimits(Fresh, Start) /\ Spent(Fresh, {}) /\ Idle \in RefType /\ Idle.tries = 0
  /\ Idle.pc = "idle" /\ Start.pc = "top"
  BY Consts DEF InLimits, Spent, Fresh, Start, Idle, InstType, ConnType, RefType, NoToken

LEMMA InitInv == Init => IInv
  <1> SUFFICES ASSUME Init PROVE IInv
    OBVIOUS
  <1>1. /\ inst = Fresh /\ conn = Start /\ ref = [p \in Refreshers |-> Idle]
        /\ enabled = TRUE /\ faults = 0 /\ refused = {} /\ issued = row.token
    BY DEF Init
  <1>2. row \in RowType /\ sched \in SchedType
    BY Consts DEF Init, RowType, SchedType
  <1>3. RestOK
    BY <1>1, <1>2, Consts DEF RestOK, RowType
  <1>4. RefsOK
    BY <1>1, Starts, Consts DEF RefsOK
  <1> QED BY <1>1, <1>3, <1>4, Starts DEF IInv

-----------------------------------------------------------------------------
\* The end of a refresh.

LEMMA FailLimits ==
  ASSUME NEW i, NEW c, InLimits(i, c), c.pc \in {"top", "dial", "init", "reg", "up"}, Fail(i, c)
  PROVE  /\ InLimits(inst', conn') /\ enabled' = enabled /\ conn'.pc = "failed"
         /\ inst'.startup = i.startup /\ inst'.expired = i.expired
  <1> DEFINE j == [i EXCEPT !.auth = @ + 1]
             k == [c EXCEPT !.pc = "failed", !.ws = "none", !.token = NoToken]
  <1>1. inst' = j /\ conn' = k /\ enabled' = enabled
    BY DEF Fail
  <1>2. i.auth + 1 \in 0..MaxAuth /\ i \in InstType /\ c \in ConnType
    BY Consts DEF InLimits, InstType
  <1>3. /\ j \in InstType /\ j.fetch = i.fetch /\ j.short = i.short
        /\ j.startup = i.startup /\ j.expired = i.expired
    BY <1>2 DEF InstType
  <1>4. k \in ConnType /\ k.pc = "failed"
    BY <1>2, Consts DEF ConnType
  <1> HIDE DEF j, k
  <1> QED BY <1>1, <1>3, <1>4 DEF InLimits

LEMMA RegisterLimits ==
  ASSUME NEW i, NEW c, InLimits(i, c), c.pc = "init", Register(i, c)
  PROVE  /\ InLimits(inst', conn') /\ enabled' = enabled
         /\ inst'.startup = i.startup /\ inst'.expired = i.expired
  <1>1. CASE Fail(i, c)
    BY <1>1, FailLimits
  <1>2. CASE /\ conn' = [c EXCEPT !.pc = "reg", !.token = i.current]
             /\ inst' = i /\ UNCHANGED enabled
    BY <1>2 DEF InLimits, InstType, ConnType
  <1> QED BY <1>1, <1>2 DEF Register

LEMMA FetchedLimits ==
  ASSUME NEW i, NEW c, InLimits(i, c), c.pc = "top", NEW counts, Fetched(i, c, counts),
         enabled \in BOOLEAN
  PROVE  /\ InLimits(inst', conn') /\ enabled' \in BOOLEAN
         /\ inst'.startup = i.startup /\ inst'.expired = i.expired
  <1>1. CASE conn' = [c EXCEPT !.pc = "dial"] /\ inst' = i /\ UNCHANGED enabled
    BY <1>1 DEF InLimits, InstType, ConnType
  <1>2. CASE conn' = c /\ inst' = i /\ UNCHANGED enabled
    BY <1>2
  <1>3. CASE /\ inst' = [i EXCEPT !.fetch = i.fetch + 1]
             /\ IF i.fetch + 1 < MaxFetch THEN conn' = c /\ UNCHANGED enabled
                ELSE conn' = [c EXCEPT !.pc = "over"] /\ enabled' = FALSE
    <2> DEFINE j == [i EXCEPT !.fetch = i.fetch + 1]
    <2>1. i.fetch + 1 \in 0..MaxFetch /\ i \in InstType /\ c \in ConnType
      BY Consts DEF InLimits, InstType
    <2>2. /\ j \in InstType /\ j.fetch = i.fetch + 1 /\ j.short = i.short /\ j.auth = i.auth
          /\ j.startup = i.startup /\ j.expired = i.expired
      BY <2>1 DEF InstType
    <2>3. [c EXCEPT !.pc = "over"] \in ConnType /\ [c EXCEPT !.pc = "over"].pc = "over"
      BY <2>1 DEF ConnType
    <2> HIDE DEF j
    <2> QED BY <1>3, <2>1, <2>2, <2>3 DEF InLimits, j
  <1> QED BY <1>1, <1>2, <1>3 DEF Fetched

\* p's refresh ends, and with it main's step if p is main.
LEMMA DoneInv ==
  ASSUME IInv, NEW p \in Refreshers, NEW i, NEW c, NEW counts, Done(p, i, c, counts),
         InLimits(i, c), c.pc = conn.pc, p = "main" => conn.pc \in {"top", "init"},
         Spent(i, refused), UNCHANGED <<issued, sched, refused>>,
         row' \in RowType, faults' \in faults..MaxFaults
  PROVE  IInv'
  <1>1. ref' = [ref EXCEPT ![p] = Idle]
    BY DEF Done, Change
  <1>2. /\ InLimits(inst', conn') /\ enabled' \in BOOLEAN
        /\ inst'.startup = i.startup /\ inst'.expired = i.expired
        /\ p # "main" => conn'.pc = conn.pc
    <2>1. enabled \in BOOLEAN
      BY DEF IInv, RestOK
    <2>2. CASE p # "main"
      BY <2>1, <2>2 DEF Done
    <2>3. CASE p = "main" /\ conn.pc = "init"
      BY <2>1, <2>3, RegisterLimits DEF Done
    <2>4. CASE p = "main" /\ conn.pc = "top"
      BY <2>1, <2>4, FetchedLimits DEF Done
    <2> QED BY <2>2, <2>3, <2>4
  <1>3. RefsOK'
    <2>1. /\ ref' \in [Refreshers -> RefType]
          /\ \A q \in Refreshers : ref'[q] = IF q = p THEN Idle ELSE ref[q]
      BY <1>1, Starts DEF IInv, RefsOK
    <2>2. faults \in Nat /\ faults' \in Nat /\ faults <= faults'
      BY DEF IInv, RestOK
    <2>3. ASSUME NEW q \in Refreshers PROVE ref'[q].tries <= faults'
      <3>1. ref[q].tries <= faults /\ ref[q].tries \in Nat
        BY DEF IInv, RefsOK, RefType
      <3> QED BY <2>1, <2>2, <3>1, Starts
    <2> QED BY <1>2, <2>1, <2>3, Starts, Consts DEF IInv, RefsOK
  <1>4. RestOK'
    BY <1>2 DEF IInv, RestOK
  <1>5. Spent(inst', refused')
    BY <1>2 DEF Spent
  <1> QED BY <1>2, <1>3, <1>4, <1>5 DEF IInv

\* p's refresh goes on.
LEMMA StayInv ==
  ASSUME IInv, NEW p \in Refreshers, NEW r \in RefType, Change(p, r), r.tries <= faults',
         p = "main" => conn.pc \in {"top", "init"},
         InLimits(inst', conn), Spent(inst', refused'), UNCHANGED <<conn, enabled, sched>>,
         row' \in RowType, issued' \in Tokens, refused' \subseteq Tokens,
         faults' \in faults..MaxFaults
  PROVE  IInv'
  <1>1. /\ ref' \in [Refreshers -> RefType]
        /\ \A q \in Refreshers : ref'[q] = IF q = p THEN r ELSE ref[q]
    BY DEF Change, IInv, RefsOK
  <1>2. faults \in Nat /\ faults' \in 0..MaxFaults /\ faults <= faults'
    BY Consts DEF IInv, RestOK
  <1>3. ASSUME NEW q \in Refreshers PROVE ref'[q].tries <= faults'
    <2>1. ref[q].tries <= faults /\ ref[q].tries \in Nat
      BY DEF IInv, RefsOK, RefType
    <2> QED BY <1>1, <1>2, <2>1, Consts
  <1>4. RefsOK'
    BY <1>1, <1>3, Consts DEF IInv, RefsOK
  <1>5. RestOK'
    BY <1>2 DEF IInv, RestOK
  <1> QED BY <1>4, <1>5 DEF IInv

\* Somebody else takes a step.
LEMMA OtherInv ==
  ASSUME IInv, UNCHANGED ref, ref["main"].pc = "idle" \/ conn'.pc = conn.pc,
         InLimits(inst', conn'), Spent(inst', refused'),
         row' \in RowType, issued' \in Tokens, sched' \in SchedType, enabled' \in BOOLEAN,
         refused' \subseteq Tokens, faults' \in faults..MaxFaults
  PROVE  IInv'
  <1>1. faults \in Nat /\ faults' \in 0..MaxFaults /\ faults <= faults'
    BY Consts DEF IInv, RestOK
  <1>2. ASSUME NEW q \in Refreshers PROVE ref'[q].tries <= faults'
    <2>1. ref[q].tries <= faults /\ ref[q].tries \in Nat
      BY DEF IInv, RefsOK, RefType
    <2> QED BY <1>1, <2>1
  <1>3. RefsOK'
    BY <1>2 DEF IInv, RefsOK
  <1> QED BY <1>1, <1>3 DEF IInv, RestOK

LEMMA Facts ==
  ASSUME IInv
  PROVE  /\ row \in RowType /\ issued \in Tokens /\ sched \in SchedType /\ enabled \in BOOLEAN
         /\ faults \in 0..MaxFaults /\ refused \subseteq Tokens /\ inst \in InstType
         /\ conn \in ConnType /\ ref \in [Refreshers -> RefType]
         /\ InLimits(inst, conn) /\ Spent(inst, refused) /\ faults \in faults..MaxFaults
         /\ (Fault => faults' = faults + 1 /\ faults' \in faults..MaxFaults)
         /\ ref["main"].pc # "idle" => conn.pc \in {"top", "init"}
         /\ \A p \in Refreshers : /\ ref[p] \in RefType /\ ref[p].tries <= faults
                                  /\ ref[p].tries \in Nat
  <1>1. faults \in 0..MaxFaults
    BY DEF IInv, RestOK
  <1>2. Fault => faults' = faults + 1 /\ faults' \in faults..MaxFaults
    BY <1>1, Consts DEF Fault
  <1>3. faults \in faults..MaxFaults
    BY <1>1, Consts
  <1> QED BY <1>1, <1>2, <1>3 DEF IInv, RestOK, RefsOK, InLimits, RefType

\* Other fields than the counters do not matter for the limits.
LEMMA SameLimits ==
  ASSUME NEW i, NEW c, InLimits(i, c), NEW j \in InstType, NEW k \in ConnType,
         j.fetch = i.fetch, j.auth = i.auth, j.short = i.short, k.pc = c.pc
  PROVE  InLimits(j, k)
  BY DEF InLimits

LEMMA BegunKept ==
  ASSUME IInv, NEW p
  PROVE  LET j == Begun(p) IN
         /\ j \in InstType /\ j.fetch = inst.fetch /\ j.auth = inst.auth
         /\ j.short = inst.short /\ j.startup = inst.startup /\ j.expired = inst.expired
         /\ InLimits(j, conn) /\ Spent(j, refused)
  <1> DEFINE x == inst.polled \/ conn.pc = "up"
             y == inst.mid \/ (conn.pc # "up" /\ p # "main")
             j == [inst EXCEPT !.polled = x, !.mid = y]
  <1>1. x \in BOOLEAN /\ y \in BOOLEAN /\ inst \in InstType
    BY Facts DEF InstType
  <1>2. Begun(p) = j
    BY <1>1 DEF Begun, InstType
  <1> HIDE DEF x, y
  <1>3. /\ j \in InstType /\ j.fetch = inst.fetch /\ j.auth = inst.auth
        /\ j.short = inst.short /\ j.startup = inst.startup /\ j.expired = inst.expired
    BY <1>1 DEF InstType
  <1> HIDE DEF j
  <1>4. InLimits(j, conn) /\ Spent(j, refused)
    BY <1>3, Facts, SameLimits DEF Spent
  <1> QED BY <1>2, <1>3, <1>4

LEMMA UsingKept ==
  ASSUME IInv, NEW p, NEW fallback \in BOOLEAN, fallback => inst.startup
  PROVE  LET j == Using(Begun(p), fallback) IN
         InLimits(j, conn) /\ Spent(j, refused)
  <1> DEFINE b == Begun(p)
             j == [b EXCEPT !.current = row.token, !.inUse = row.token,
                            !.expired = fallback, !.unread = FALSE, !.startup = FALSE]
  <1>1. /\ b \in InstType /\ InLimits(b, conn) /\ Spent(b, refused) /\ b.startup = inst.startup
    BY BegunKept
  <1>2. row.token \in Tokens
    BY Facts DEF RowType
  <1>3. Using(Begun(p), fallback) = j
    BY DEF Using
  <1> HIDE DEF b
  <1>4. /\ j \in InstType /\ j.fetch = b.fetch /\ j.auth = b.auth /\ j.short = b.short
        /\ ~j.startup /\ j.expired = fallback
    BY <1>1, <1>2 DEF InstType
  <1> HIDE DEF j
  <1>5. InLimits(j, conn)
    BY <1>1, <1>4, Facts, SameLimits
  <1>6. Spent(j, refused)
    BY <1>1, <1>4 DEF Spent
  <1> QED BY <1>3, <1>5, <1>6

\* A token taken because the switch could not be read leaves the startup's chance alone.
LEMMA AsideKept ==
  ASSUME IInv, NEW i \in InstType, InLimits(i, conn), Spent(i, refused), NEW past \in BOOLEAN
  PROVE  LET j == [Using(i, FALSE) EXCEPT !.unread = past, !.startup = i.startup] IN
         InLimits(j, conn) /\ Spent(j, refused)
  <1> DEFINE u == [i EXCEPT !.current = row.token, !.inUse = row.token,
                            !.expired = FALSE, !.unread = FALSE, !.startup = FALSE]
             j == [u EXCEPT !.unread = past, !.startup = i.startup]
  <1>1. row.token \in Tokens
    BY Facts DEF RowType
  <1>2. Using(i, FALSE) = u
    BY DEF Using
  <1>3. /\ u \in InstType /\ u.fetch = i.fetch /\ u.auth = i.auth /\ u.short = i.short
        /\ ~u.expired
    BY <1>1 DEF InstType
  <1> HIDE DEF u
  <1>4. /\ j \in InstType /\ j.fetch = u.fetch /\ j.auth = u.auth /\ j.short = u.short
        /\ j.startup = i.startup /\ j.expired = u.expired
    BY <1>3 DEF InstType
  <1> HIDE DEF j
  <1>5. InLimits(j, conn)
    BY <1>3, <1>4, Facts, SameLimits
  <1>6. Spent(j, refused)
    BY <1>3, <1>4 DEF Spent
  <1> QED BY <1>2, <1>5, <1>6 DEF j

-----------------------------------------------------------------------------
\* refresh_token.

LEMMA CallsMain ==
  ASSUME NEW p, Calls(p)
  PROVE  p = "main" => conn.pc \in {"top", "init"}
  BY DEF Calls

LEMMA SkipInv ==
  ASSUME IInv, NEW p \in Refreshers, Skip(p)
  PROVE  IInv'
  <1>1. Done(p, Begun(p), conn, TRUE) /\ UNCHANGED <<row, issued, sched, faults, refused>>
    BY DEF Skip
  <1>2. p = "main" => conn.pc \in {"top", "init"}
    BY CallsMain DEF Skip
  <1> HIDE DEF Begun
  <1> QED BY <1>1, <1>2, BegunKept, Facts, DoneInv

LEMMA ReadHitInv ==
  ASSUME IInv, NEW p \in Refreshers, ReadHit(p)
  PROVE  IInv'
  <1>1. /\ UNCHANGED <<issued, sched, faults, refused>>
        /\ p = "main" => conn.pc \in {"top", "init"}
    BY CallsMain DEF ReadHit
  <1>2. CASE Done(p, Using(Begun(p), FALSE), conn, FALSE) /\ UNCHANGED row
    BY <1>1, <1>2, UsingKept, Facts, DoneInv
  <1>3. CASE inst.startup /\ Done(p, Using(Begun(p), TRUE), conn, FALSE) /\ UNCHANGED row
    BY <1>1, <1>3, UsingKept, Facts, DoneInv
  <1>4. CASE /\ row.exp = "past" /\ row.renew # "none"
             /\ row' = [row EXCEPT !.exp = row.renew, !.renew = "none"]
             /\ inst' = Using(Begun(p), FALSE)
             /\ Change(p, [Idle EXCEPT !.pc = "close"])
             /\ UNCHANGED <<conn, enabled>>
    <2>1. row' \in RowType
      BY <1>4, Facts DEF RowType
    <2> DEFINE r == [Idle EXCEPT !.pc = "close"]
    <2>2. r \in RefType /\ r.tries = 0
      BY Starts DEF Idle, RefType
    <2>3. 0 <= faults
      BY Facts
    <2>4. Change(p, r)
      BY <1>4
    <2>5. InLimits(inst', conn) /\ Spent(inst', refused')
      BY <1>1, <1>4, UsingKept
    <2> HIDE DEF r
    <2> QED BY <1>1, <1>4, <2>1, <2>2, <2>3, <2>4, <2>5, Facts, StayInv
  <1> QED BY <1>2, <1>3, <1>4 DEF ReadHit

LEMMA AskType ==
  ASSUME IInv, NEW p \in Refreshers,
         NEW pc \in {"idle", "ask", "again", "mark", "store", "close"}
  PROVE  [ref[p] EXCEPT !.pc = pc] \in RefType /\ [ref[p] EXCEPT !.pc = pc].tries = ref[p].tries
  BY Facts DEF RefType

LEMMA ReadMissInv ==
  ASSUME IInv, NEW p \in Refreshers, ReadMiss(p)
  PROVE  IInv'
  <1>1. /\ UNCHANGED <<row, issued, sched, refused>>
        /\ p = "main" => conn.pc \in {"top", "init"}
    BY CallsMain DEF ReadMiss
  <1> DEFINE b == Begun(p)
             s == [b EXCEPT !.startup = FALSE]
             r == [ref[p] EXCEPT !.pc = "ask"]
  <1>2. /\ b \in InstType /\ InLimits(b, conn) /\ Spent(b, refused)
    BY BegunKept
  <1>3. r \in RefType /\ r.tries = ref[p].tries
    BY AskType
  <1>4. CASE Fault /\ Done(p, b, conn, FALSE)
    BY <1>1, <1>2, <1>4, Facts, DoneInv
  <1>5. CASE Goto(p, "ask") /\ inst' \in {b, s} /\ UNCHANGED <<conn, enabled>>
             /\ (Fault \/ UNCHANGED faults)
    <2>1. Change(p, r)
      BY <1>5 DEF Goto
    <2> HIDE DEF b, r
    <2>2. /\ s \in InstType /\ s.fetch = b.fetch /\ s.auth = b.auth /\ s.short = b.short
          /\ ~s.startup /\ s.expired = b.expired
      BY <1>2 DEF InstType
    <2> HIDE DEF s
    <2>3. InLimits(s, conn) /\ Spent(s, refused)
      BY <1>2, <2>2, Facts, SameLimits DEF Spent
    <2>4. InLimits(inst', conn) /\ Spent(inst', refused')
      BY <1>1, <1>2, <1>5, <2>3
    <2>5. faults' \in faults..MaxFaults /\ r.tries <= faults'
      BY <1>3, <1>5, Facts
    <2> QED BY <1>1, <1>3, <1>5, <2>1, <2>4, <2>5, Facts, StayInv
  <1> QED BY <1>4, <1>5 DEF ReadMiss

\* A refresh that is on its way is main's where main may call it.
LEMMA OnItsWay ==
  ASSUME IInv, NEW p \in Refreshers, ref[p].pc # "idle"
  PROVE  p = "main" => conn.pc \in {"top", "init"}
  BY Facts

LEMMA IssueKept ==
  ASSUME IInv, NEW t \in Tokens, Issue(t)
  PROVE  /\ issued' = t /\ issued' \in Tokens /\ refused' \subseteq refused
         /\ refused' \subseteq Tokens /\ faults' \in faults..MaxFaults
  <1>1. faults' = faults \/ Fault
    BY DEF Issue
  <1> QED BY <1>1, Facts DEF Issue

LEMMA ExpiredType ==
  ASSUME NEW r \in RowType
  PROVE  Expired(r) \in RowType
  BY DEF Expired, RowType

LEMMA UnreadInv ==
  ASSUME IInv, NEW p \in Refreshers, Unread(p)
  PROVE  IInv'
  <1> DEFINE i == IF ref[p].pc = "idle" THEN Begun(p) ELSE inst
             r == IF ref[p].pc = "again" THEN Expired(row) ELSE row
             j(past) == [Using(i, FALSE) EXCEPT !.unread = past, !.startup = i.startup]
             n == [i EXCEPT !.current = NoToken]
             x == r.exp = "past"
             q == [Idle EXCEPT !.pc = "close"]
  <1>1. /\ Calls(p) \/ ref[p].pc # "idle"
        /\ Fault /\ UNCHANGED <<issued, sched, refused>>
        /\ \/ row' = r /\ Done(p, i, conn, FALSE)
           \/ row' = r /\ Done(p, n, conn, FALSE)
           \/ /\ r.renew # "none" /\ row' = [r EXCEPT !.exp = r.renew, !.renew = "none"]
              /\ inst' = j(FALSE) /\ Change(p, q) /\ UNCHANGED <<conn, enabled>>
           \/ row' = r /\ Done(p, j(x), conn, FALSE)
    BY DEF Unread
  <1>2. p = "main" => conn.pc \in {"top", "init"}
    BY <1>1, CallsMain, OnItsWay
  <1>3. r \in RowType /\ x \in BOOLEAN
    BY ExpiredType, Facts
  <1>4. i \in InstType /\ InLimits(i, conn) /\ Spent(i, refused)
    BY BegunKept, Facts
  <1> HIDE DEF i, r, x
  <1>5. /\ InLimits(j(FALSE), conn) /\ Spent(j(FALSE), refused)
        /\ InLimits(j(x), conn) /\ Spent(j(x), refused)
    BY <1>3, <1>4, AsideKept
  <1>6. InLimits(n, conn) /\ Spent(n, refused)
    <2>1. /\ n \in InstType /\ n.fetch = i.fetch /\ n.auth = i.auth /\ n.short = i.short
          /\ n.startup = i.startup /\ n.expired = i.expired
      BY <1>4, Consts DEF InstType
    <2> HIDE DEF n
    <2> QED BY <1>4, <2>1, Facts, SameLimits DEF Spent
  <1>7. q \in RefType /\ q.tries = 0
    BY Starts DEF Idle, RefType
  <1> HIDE DEF j, n, q
  <1>8. CASE row' = r /\ (\/ Done(p, i, conn, FALSE) \/ Done(p, n, conn, FALSE)
                         \/ Done(p, j(x), conn, FALSE))
    BY <1>1, <1>2, <1>3, <1>4, <1>5, <1>6, <1>8, Facts, DoneInv
  <1>9. CASE /\ r.renew # "none" /\ row' = [r EXCEPT !.exp = r.renew, !.renew = "none"]
             /\ inst' = j(FALSE) /\ Change(p, q) /\ UNCHANGED <<conn, enabled>>
    <2>1. row' \in RowType
      BY <1>3, <1>9 DEF RowType
    <2>2. q.tries <= faults'
      BY <1>1, <1>7, Facts
    <2>3. InLimits(inst', conn) /\ Spent(inst', refused')
      BY <1>1, <1>5, <1>9
    <2> QED BY <1>1, <1>2, <1>7, <1>9, <2>1, <2>2, <2>3, Facts, StayInv
  <1> QED BY <1>1, <1>8, <1>9

LEMMA GotInv ==
  ASSUME IInv, NEW p \in Refreshers, NEW t \in Tokens, Got(p, t)
  PROVE  IInv'
  <1> DEFINE j == [inst EXCEPT !.current = t, !.expired = FALSE, !.unread = FALSE]
             ch == t # inst.inUse
             r == [ref[p] EXCEPT !.pc = "store", !.token = t, !.changed = ch]
  <1>1. /\ ref[p].pc # "idle" /\ inst' = j /\ Change(p, r)
        /\ UNCHANGED <<row, conn, sched, enabled>>
    BY DEF Got
  <1>2. ch \in BOOLEAN
    OBVIOUS
  <1> HIDE DEF ch
  <1>3. r \in RefType /\ r.tries = ref[p].tries
    BY <1>2, Facts DEF RefType
  <1>4. /\ j \in InstType /\ j.fetch = inst.fetch /\ j.auth = inst.auth /\ j.short = inst.short
        /\ j.startup = inst.startup /\ ~j.expired
    BY Facts DEF InstType
  <1> HIDE DEF j, r
  <1>5. Issue(t)
    BY DEF Got
  <1>6. InLimits(j, conn)
    BY <1>4, Facts, SameLimits
  <1>7. Spent(j, refused')
    BY <1>4, <1>5, IssueKept, Facts DEF Spent
  <1>8. r.tries <= faults'
    BY <1>3, <1>5, IssueKept, Facts
  <1> QED BY <1>1, <1>3, <1>5, <1>6, <1>7, <1>8, IssueKept, OnItsWay, Facts, StayInv

LEMMA SolvedInv ==
  ASSUME IInv, NEW p \in Refreshers, Solved(p)
  PROVE  IInv'
  <1> DEFINE r == [ref[p] EXCEPT !.pc = "again", !.tries = @ + 1]
  <1>1. /\ ref[p].pc # "idle" /\ Change(p, r) /\ Fault
        /\ UNCHANGED <<row, issued, inst, conn, sched, enabled, refused>>
    BY DEF Solved
  <1>2. ref[p].tries + 1 \in 0..MaxFaults /\ ref[p].tries + 1 <= faults'
    BY <1>1, Facts, Consts
  <1>3. r \in RefType /\ r.tries = ref[p].tries + 1
    BY <1>2, Facts DEF RefType
  <1> HIDE DEF r
  <1> QED BY <1>1, <1>2, <1>3, OnItsWay, Facts, StayInv

LEMMA DeniedInv ==
  ASSUME IInv, NEW p \in Refreshers, Denied(p)
  PROVE  IInv'
  <1>1. /\ ref[p].pc # "idle" /\ Fault /\ UNCHANGED <<row, issued, sched, refused>>
    BY DEF Denied
  <1>2. PICK f \in Failures :
          LET i == IF f.clear THEN [inst EXCEPT !.current = NoToken] ELSE inst
          IN  IF f.mark
              THEN /\ inst' = i /\ Change(p, [Idle EXCEPT !.pc = "mark", !.counts = f.counts])
                   /\ UNCHANGED <<conn, enabled>>
              ELSE Done(p, i, conn, f.counts)
    BY DEF Denied
  <1>3. f.counts \in BOOLEAN
    <2>1. \A x, y, z : Failure(x, y, z).counts = z
      BY DEF Failure
    <2>2. \E x, y, z \in BOOLEAN : f = Failure(x, y, z)
      BY Zenon DEF Failures
    <2> QED BY <2>1, <2>2
  <1> DEFINE i == IF f.clear THEN [inst EXCEPT !.current = NoToken] ELSE inst
             r == [Idle EXCEPT !.pc = "mark", !.counts = f.counts]
  <1>4. /\ i \in InstType /\ i.fetch = inst.fetch /\ i.auth = inst.auth /\ i.short = inst.short
        /\ i.startup = inst.startup /\ i.expired = inst.expired
    BY Facts, Consts DEF InstType
  <1>5. r \in RefType /\ r.tries = 0
    BY <1>3, Starts DEF Idle, RefType
  <1>6. (inst' = i /\ Change(p, r) /\ UNCHANGED <<conn, enabled>>) \/ Done(p, i, conn, f.counts)
    BY <1>2
  <1> HIDE DEF i, r
  <1>7. InLimits(i, conn) /\ Spent(i, refused)
    BY <1>4, Facts, SameLimits DEF Spent
  <1>8. CASE Done(p, i, conn, f.counts)
    BY <1>1, <1>7, <1>8, OnItsWay, Facts, DoneInv
  <1>9. CASE inst' = i /\ Change(p, r) /\ UNCHANGED <<conn, enabled>>
    <2>1. r.tries <= faults'
      BY <1>1, <1>5, Facts
    <2> QED BY <1>1, <1>5, <1>7, <1>9, <2>1, OnItsWay, Facts, StayInv
  <1> QED BY <1>6, <1>8, <1>9

LEMMA MarkInv ==
  ASSUME IInv, NEW p \in Refreshers, Mark(p)
  PROVE  IInv'
  <1>1. /\ ref[p].pc # "idle" /\ row' = Expired(row) /\ Done(p, inst, conn, ref[p].counts)
        /\ UNCHANGED <<issued, sched, faults, refused>>
    BY DEF Mark
  <1> QED BY <1>1, ExpiredType, OnItsWay, Facts, DoneInv

LEMMA AgainInv ==
  ASSUME IInv, NEW p \in Refreshers, Again(p)
  PROVE  IInv'
  <1>1. /\ ref[p].pc # "idle" /\ row' = Expired(row)
        /\ UNCHANGED <<issued, sched, faults, refused>>
        /\ \/ Goto(p, "ask") /\ UNCHANGED <<inst, conn, enabled>>
           \/ Done(p, inst, conn, ~enabled)
    BY DEF Again
  <1>2. CASE Goto(p, "ask") /\ UNCHANGED <<inst, conn, enabled>>
    <2> DEFINE r == [ref[p] EXCEPT !.pc = "ask"]
    <2>1. r \in RefType /\ r.tries = ref[p].tries
      BY AskType
    <2>2. Change(p, r)
      BY <1>2 DEF Goto
    <2> HIDE DEF r
    <2> QED BY <1>1, <1>2, <2>1, <2>2, ExpiredType, OnItsWay, Facts, StayInv
  <1>3. CASE Done(p, inst, conn, ~enabled)
    BY <1>1, <1>3, ExpiredType, OnItsWay, Facts, DoneInv
  <1> QED BY <1>1, <1>2, <1>3

LEMMA StoreInv ==
  ASSUME IInv, NEW p \in Refreshers, Store(p)
  PROVE  IInv'
  <1> DEFINE t == ref[p].token
             j == [inst EXCEPT !.inUse = t]
             r == [Idle EXCEPT !.pc = "close"]
  <1>1. t \in Tokens
    BY Facts DEF RefType
  <1>2. /\ ref[p].pc # "idle" /\ UNCHANGED <<issued, sched, refused>>
        /\ \/ row' = [token |-> t, exp |-> "far", renew |-> "none"] /\ UNCHANGED faults
           \/ row' = row /\ Fault
    BY DEF Store
  <1>3. PICK i \in {inst, j} :
          \/ inst' = i /\ Change(p, r) /\ UNCHANGED <<conn, enabled>>
          \/ Done(p, i, conn, FALSE)
    BY DEF Store
  <1>4. row' \in RowType /\ faults' \in faults..MaxFaults
    BY <1>1, <1>2, Facts DEF RowType
  <1> HIDE DEF t
  <1>5. /\ i \in InstType /\ i.fetch = inst.fetch /\ i.auth = inst.auth /\ i.short = inst.short
        /\ i.startup = inst.startup /\ i.expired = inst.expired
    BY <1>1, Facts DEF InstType
  <1>6. r \in RefType /\ r.tries = 0
    BY Starts DEF Idle, RefType
  <1> HIDE DEF j, r
  <1>7. InLimits(i, conn) /\ Spent(i, refused)
    BY <1>5, Facts, SameLimits DEF Spent
  <1>8. CASE Done(p, i, conn, FALSE)
    BY <1>2, <1>4, <1>7, <1>8, OnItsWay, Facts, DoneInv
  <1>9. CASE inst' = i /\ Change(p, r) /\ UNCHANGED <<conn, enabled>>
    <2>1. r.tries <= faults'
      BY <1>4, <1>6, Facts
    <2> QED BY <1>2, <1>4, <1>6, <1>7, <1>9, <2>1, OnItsWay, Facts, StayInv
  <1> QED BY <1>3, <1>8, <1>9

LEMMA CloseInv ==
  ASSUME IInv, NEW p \in Refreshers, Close(p)
  PROVE  IInv'
  <1> DEFINE ws == IF conn.ws = "open" THEN "closed" ELSE conn.ws
             c == [conn EXCEPT !.ws = ws]
  <1>1. /\ ref[p].pc # "idle" /\ Done(p, inst, c, FALSE)
        /\ UNCHANGED <<row, issued, sched, faults, refused>>
    <2>1. conn \in ConnType
      BY Facts
    <2>2. c = [conn EXCEPT !.ws = IF @ = "open" THEN "closed" ELSE @]
      BY <2>1 DEF ConnType
    <2> QED BY <2>2 DEF Close
  <1>2. ws \in {"none", "open", "closed", "lost", "refused"}
    BY Facts DEF ConnType
  <1> HIDE DEF ws
  <1>3. c \in ConnType /\ c.pc = conn.pc
    BY <1>2, Facts DEF ConnType
  <1> HIDE DEF c
  <1>4. InLimits(inst, c)
    BY <1>3, Facts, SameLimits
  <1> QED BY <1>1, <1>3, <1>4, OnItsWay, Facts, DoneInv

-----------------------------------------------------------------------------
\* main.

LEMMA TopInv == ASSUME IInv, Top PROVE IInv'
  <1> DEFINE j == [inst EXCEPT !.fetch = 0]
  <1>1. /\ conn.pc = "top" /\ ref["main"].pc = "idle"
        /\ UNCHANGED <<row, issued, ref, sched, refused, enabled, faults>>
    BY DEF Top, Quiet, Others
  <1>2. /\ j \in InstType /\ j.fetch = 0 /\ j.auth = inst.auth /\ j.short = inst.short
        /\ j.startup = inst.startup /\ j.expired = inst.expired
    BY Facts, Consts DEF InstType
  <1>3. \A pc \in {"dial", "over"} :
           [conn EXCEPT !.pc = pc] \in ConnType /\ [conn EXCEPT !.pc = pc].pc = pc
    BY Facts DEF ConnType
  <1>4. InLimits(j, [conn EXCEPT !.pc = "dial"]) /\ InLimits(inst, [conn EXCEPT !.pc = "over"])
    <2> HIDE DEF j
    <2> QED BY <1>1, <1>2, <1>3, Facts, Consts DEF InLimits
  <1>5. Spent(j, refused)
    <2> HIDE DEF j
    <2> QED BY <1>2, Facts DEF Spent
  <1>6. InLimits(inst', conn') /\ Spent(inst', refused')
    BY <1>1, <1>4, <1>5, Facts DEF Top
  <1> QED BY <1>1, <1>6, Facts, OtherInv

\* main is between two refreshes wherever it is not at the top or in init.
LEMMA MainQuiet ==
  ASSUME IInv, conn.pc \notin {"top", "init"}
  PROVE  ref["main"].pc = "idle"
  BY Facts

LEMMA DialInv == ASSUME IInv, Dial PROVE IInv'
  <1>1. /\ conn.pc = "dial" /\ ref["main"].pc = "idle"
        /\ UNCHANGED <<row, issued, ref, sched, refused>>
    BY MainQuiet DEF Dial, Others
  <1>2. CASE conn' = [conn EXCEPT !.pc = "init", !.ws = "open"]
             /\ UNCHANGED <<inst, enabled, faults>>
    <2>1. conn' \in ConnType /\ conn'.pc = "init"
      BY <1>2, Facts DEF ConnType
    <2>2. InLimits(inst', conn')
      BY <1>1, <1>2, <2>1, Facts DEF InLimits
    <2> QED BY <1>1, <1>2, <2>2, Facts, OtherInv
  <1>3. CASE Fault /\ Fail(inst, conn)
    <2>1. /\ InLimits(inst', conn') /\ enabled' = enabled
          /\ inst'.startup = inst.startup /\ inst'.expired = inst.expired
      BY <1>1, <1>3, Facts, FailLimits
    <2>2. Spent(inst', refused')
      BY <1>1, <2>1, Facts DEF Spent
    <2> QED BY <1>1, <1>3, <2>1, <2>2, Facts, OtherInv
  <1> QED BY <1>2, <1>3 DEF Dial

LEMMA RegInv == ASSUME IInv, Reg PROVE IInv'
  <1>1. /\ conn.pc = "init" /\ ref["main"].pc = "idle" /\ Register(inst, conn)
        /\ UNCHANGED <<row, issued, ref, sched, refused, faults>>
    BY DEF Reg, Quiet, Others
  <1>2. /\ InLimits(inst', conn') /\ enabled' = enabled
        /\ inst'.startup = inst.startup /\ inst'.expired = inst.expired
    BY <1>1, Facts, RegisterLimits
  <1>3. Spent(inst', refused')
    BY <1>1, <1>2, Facts DEF Spent
  <1> QED BY <1>1, <1>2, <1>3, Facts, OtherInv

LEMMA UpLimits ==
  ASSUME IInv, conn.pc = "reg", NEW c \in ConnType, Up(c)
  PROVE  /\ InLimits(inst', conn') /\ enabled' = enabled
         /\ inst'.startup = inst.startup /\ inst'.expired = inst.expired
  <1> DEFINE j == [inst EXCEPT !.auth = 0, !.loops = TRUE, !.mid = FALSE]
             k == [c EXCEPT !.pc = "up"]
  <1>1. inst' = j /\ conn' = k /\ enabled' = enabled
    BY DEF Up
  <1>2. /\ j \in InstType /\ j.auth = 0 /\ j.fetch = inst.fetch /\ j.short = inst.short
        /\ j.startup = inst.startup /\ j.expired = inst.expired
    <2>1. inst \in InstType /\ 0 \in 0..MaxAuth
      BY Facts, Consts
    <2>2. /\ j.auth = 0 /\ j.fetch = inst.fetch /\ j.short = inst.short
          /\ j.startup = inst.startup /\ j.expired = inst.expired
      BY <2>1 DEF InstType
    <2>3. j \in InstType
      BY <2>1 DEF InstType
    <2> QED BY <2>2, <2>3
  <1>3. k \in ConnType /\ k.pc = "up"
    BY DEF ConnType
  <1> HIDE DEF j, k
  <1>4. InLimits(inst, conn) /\ 0 < MaxAuth
    BY Facts, Consts
  <1> QED BY <1>1, <1>2, <1>3, <1>4 DEF InLimits

LEMMA AnswerInv == ASSUME IInv, Answer PROVE IInv'
  <1>1. /\ conn.pc = "reg" /\ ref["main"].pc = "idle"
        /\ UNCHANGED <<row, issued, ref, sched, refused>>
    BY MainQuiet DEF Answer, Others
  <1>2. /\ Fail(inst, conn) \/ Up(conn) \/ Up([conn EXCEPT !.ws = "refused"])
        /\ UNCHANGED faults \/ Fault
    BY DEF Answer
  <1>3. conn \in ConnType /\ [conn EXCEPT !.ws = "refused"] \in ConnType
    BY Facts DEF ConnType
  <1>4. /\ InLimits(inst', conn') /\ enabled' = enabled
        /\ inst'.startup = inst.startup /\ inst'.expired = inst.expired
    BY <1>1, <1>2, <1>3, Facts, FailLimits, UpLimits
  <1>5. Spent(inst', refused')
    BY <1>1, <1>4, Facts DEF Spent
  <1> QED BY <1>1, <1>2, <1>4, <1>5, Facts, OtherInv

LEMMA EndedInv == ASSUME IInv, Ended PROVE IInv'
  <1>1. /\ conn.pc = "up" /\ ref["main"].pc = "idle"
        /\ UNCHANGED <<row, issued, ref, sched, faults>>
    BY MainQuiet DEF Ended
  <1>2. /\ inst.auth < MaxAuth /\ inst.fetch < MaxFetch /\ inst.short < MaxShort
        /\ conn.token \in Tokens /\ inst \in InstType
    BY <1>1, Facts DEF InLimits, ConnType
  <1>3. PICK short \in BOOLEAN :
          \/ /\ Rejected(short)
             /\ inst' = [inst EXCEPT !.current = NoToken, !.expired = FALSE]
             /\ conn' = Start /\ refused' = refused \cup {conn.token}
             /\ UNCHANGED enabled
          \/ /\ ~Rejected(short) /\ conn.ws = "closed"
             /\ conn' = Start /\ UNCHANGED <<inst, enabled, refused>>
          \/ /\ ~Rejected(short) /\ conn.ws # "closed"
             /\ inst' = [inst EXCEPT !.short = IF short THEN @ + 1 ELSE 0]
             /\ IF inst'.short < MaxShort THEN conn' = Start /\ UNCHANGED enabled
                ELSE conn' = [Start EXCEPT !.pc = "over"] /\ enabled' = FALSE
             /\ UNCHANGED refused
    BY DEF Ended
  <1>4. /\ Start \in ConnType /\ Start.pc = "top"
        /\ [Start EXCEPT !.pc = "over"] \in ConnType /\ [Start EXCEPT !.pc = "over"].pc = "over"
    BY Consts DEF Start, ConnType
  <1> HIDE DEF Start
  <1>5. CASE /\ Rejected(short)
             /\ inst' = [inst EXCEPT !.current = NoToken, !.expired = FALSE]
             /\ conn' = Start /\ refused' = refused \cup {conn.token}
             /\ UNCHANGED enabled
    <2>1. /\ inst' \in InstType /\ inst'.auth = inst.auth /\ inst'.fetch = inst.fetch
          /\ inst'.short = inst.short /\ inst'.startup = inst.startup /\ ~inst'.expired
      BY <1>2, <1>5, Consts DEF InstType
    <2>2. InLimits(inst', conn')
      BY <1>2, <1>4, <1>5, <2>1 DEF InLimits
    <2>3. ~inst.startup
      BY <1>5, Facts DEF Spent, Rejected
    <2>4. Spent(inst', refused')
      BY <2>1, <2>3 DEF Spent
    <2>5. refused' \subseteq Tokens
      BY <1>2, <1>5, Facts
    <2> QED BY <1>1, <1>5, <2>2, <2>4, <2>5, Facts, OtherInv
  <1>6. CASE conn' = Start /\ UNCHANGED <<inst, enabled, refused>>
    <2>1. InLimits(inst', conn')
      BY <1>2, <1>4, <1>6 DEF InLimits
    <2> QED BY <1>1, <1>6, <2>1, Facts, OtherInv
  <1>7. CASE /\ inst' = [inst EXCEPT !.short = IF short THEN @ + 1 ELSE 0]
             /\ IF inst'.short < MaxShort THEN conn' = Start /\ UNCHANGED enabled
                ELSE conn' = [Start EXCEPT !.pc = "over"] /\ enabled' = FALSE
             /\ UNCHANGED refused
    <2> DEFINE n == IF short THEN inst.short + 1 ELSE 0
    <2>1. n \in 0..MaxShort /\ inst' = [inst EXCEPT !.short = n]
      BY <1>2, <1>7, Consts DEF InstType
    <2> HIDE DEF n
    <2>2. /\ inst' \in InstType /\ inst'.auth = inst.auth /\ inst'.fetch = inst.fetch
          /\ inst'.startup = inst.startup /\ inst'.expired = inst.expired
      BY <1>2, <2>1 DEF InstType
    <2>3. InLimits(inst', conn')
      BY <1>2, <1>4, <1>7, <2>2 DEF InLimits
    <2>4. enabled' \in BOOLEAN
      BY <1>7, Facts
    <2>5. Spent(inst', refused')
      BY <1>7, <2>2, Facts DEF Spent
    <2> QED BY <1>1, <1>7, <2>3, <2>4, <2>5, Facts, OtherInv
  <1> QED BY <1>3, <1>5, <1>6, <1>7

LEMMA FailedInv == ASSUME IInv, Failed PROVE IInv'
  <1>1. /\ conn.pc = "failed" /\ ref["main"].pc = "idle"
        /\ UNCHANGED <<issued, ref, sched, enabled, faults, refused>>
        /\ row' \in {row, Expired(row)}
    BY MainQuiet DEF Failed
  <1>2. row' \in RowType
    BY <1>1, ExpiredType, Facts
  <1>3. CASE /\ inst.auth < MaxAuth /\ inst' = [inst EXCEPT !.current = NoToken]
             /\ conn' = [conn EXCEPT !.pc = "top"]
    <2>1. /\ inst' \in InstType /\ inst'.auth = inst.auth /\ inst'.fetch = inst.fetch
          /\ inst'.short = inst.short /\ inst'.startup = inst.startup
          /\ inst'.expired = inst.expired
      BY <1>3, Facts, Consts DEF InstType
    <2>2. conn' \in ConnType /\ conn'.pc = "top"
      BY <1>3, Facts DEF ConnType
    <2>3. InLimits(inst', conn')
      BY <1>1, <1>3, <2>1, <2>2, Facts DEF InLimits
    <2>4. Spent(inst', refused')
      BY <1>1, <2>1, Facts DEF Spent
    <2> QED BY <1>1, <1>2, <2>3, <2>4, Facts, OtherInv
  <1>4. CASE conn' = [conn EXCEPT !.pc = "login"] /\ UNCHANGED inst
    <2>1. conn' \in ConnType /\ conn'.pc = "login"
      BY <1>4, Facts DEF ConnType
    <2>2. InLimits(inst', conn')
      BY <1>1, <1>4, <2>1, Facts DEF InLimits
    <2> QED BY <1>1, <1>2, <1>4, <2>2, Facts, OtherInv
  <1> QED BY <1>3, <1>4 DEF Failed

LEMMA LoginInv == ASSUME IInv, Login PROVE IInv'
  <1>1. /\ conn.pc = "login" /\ ref["main"].pc = "idle"
        /\ UNCHANGED <<issued, ref, sched, enabled, faults, refused>>
    BY MainQuiet DEF Login
  <1>2. CASE /\ row' = Expired(row) /\ inst' = [inst EXCEPT !.auth = 0]
             /\ conn' = [conn EXCEPT !.pc = "top"]
    <2>1. /\ inst' \in InstType /\ inst'.auth = 0 /\ inst'.fetch = inst.fetch
          /\ inst'.short = inst.short /\ inst'.startup = inst.startup
          /\ inst'.expired = inst.expired
      BY <1>2, Facts, Consts DEF InstType
    <2>2. conn' \in ConnType /\ conn'.pc = "top"
      BY <1>2, Facts DEF ConnType
    <2>3. InLimits(inst', conn')
      BY <1>1, <2>1, <2>2, Facts, Consts DEF InLimits
    <2>4. Spent(inst', refused')
      BY <1>1, <2>1, Facts DEF Spent
    <2>5. row' \in RowType
      BY <1>2, ExpiredType, Facts
    <2> QED BY <1>1, <2>3, <2>4, <2>5, Facts, OtherInv
  <1>3. CASE conn' = [conn EXCEPT !.pc = "over"] /\ UNCHANGED <<row, inst>>
    <2>1. conn' \in ConnType /\ conn'.pc = "over"
      BY <1>3, Facts DEF ConnType
    <2>2. InLimits(inst', conn')
      BY <1>3, <2>1, Facts DEF InLimits
    <2> QED BY <1>1, <1>3, <2>2, Facts, OtherInv
  <1> QED BY <1>2, <1>3 DEF Login

-----------------------------------------------------------------------------
\* The others.

LEMMA DropInv == ASSUME IInv, Drop PROVE IInv'
  <1>1. /\ conn' = [conn EXCEPT !.ws = "lost"] /\ Fault
        /\ UNCHANGED <<row, issued, ref, sched, refused, inst, enabled>>
    BY DEF Drop, Others
  <1>2. conn' \in ConnType /\ conn'.pc = conn.pc
    BY <1>1, Facts DEF ConnType
  <1>3. InLimits(inst', conn')
    BY <1>1, <1>2, Facts DEF InLimits
  <1> QED BY <1>1, <1>2, <1>3, Facts, OtherInv

LEMMA LoadInv == ASSUME IInv, Load PROVE IInv'
  <1> DEFINE m == Begun("renewal").mid
  <1>1. /\ inst' = [inst EXCEPT !.mid = m] /\ sched' = [sched EXCEPT !.pc = "ask"]
        /\ UNCHANGED <<row, issued, conn, ref, enabled, faults, refused>>
    BY DEF Load
  <1>2. m \in BOOLEAN
    BY BegunKept DEF InstType
  <1> HIDE DEF m
  <1>3. /\ inst' \in InstType /\ inst'.auth = inst.auth /\ inst'.fetch = inst.fetch
        /\ inst'.short = inst.short /\ inst'.startup = inst.startup
        /\ inst'.expired = inst.expired
    BY <1>1, <1>2, Facts DEF InstType
  <1>4. sched' \in SchedType
    BY <1>1, Facts DEF SchedType
  <1>5. InLimits(inst', conn') /\ Spent(inst', refused')
    BY <1>1, <1>3, Facts DEF InLimits, Spent
  <1> QED BY <1>1, <1>4, <1>5, Facts, OtherInv

LEMMA RenewInv == ASSUME IInv, Renew PROVE IInv'
  <1>1. UNCHANGED <<row, inst, conn, ref, enabled>>
    BY DEF Renew
  <1>2. CASE sched' = [sched EXCEPT !.pc = "idle", !.token = NoToken]
             /\ UNCHANGED <<issued, faults, refused>>
    <2>1. sched' \in SchedType
      BY <1>2, Facts, Consts DEF SchedType
    <2> QED BY <1>1, <1>2, <2>1, Facts, OtherInv
  <1>3. CASE \E t \in Tokens : Issue(t) /\ sched' = [sched EXCEPT !.pc = "write", !.token = t]
    <2>1. PICK t \in Tokens : Issue(t) /\ sched' = [sched EXCEPT !.pc = "write", !.token = t]
      BY <1>3
    <2>2. sched' \in SchedType
      BY <2>1, Facts DEF SchedType
    <2>3. Spent(inst', refused')
      BY <1>1, <2>1, IssueKept, Facts DEF Spent
    <2> QED BY <1>1, <2>1, <2>2, <2>3, IssueKept, Facts, OtherInv
  <1> QED BY <1>2, <1>3 DEF Renew

LEMMA WriteInv == ASSUME IInv, Write PROVE IInv'
  <1>1. /\ sched' = [sched EXCEPT !.pc = "idle", !.token = NoToken]
        /\ row' \in {row, [row EXCEPT !.token = sched.token, !.renew = "far"]}
        /\ UNCHANGED <<issued, inst, conn, ref, enabled, faults, refused>>
    BY DEF Write
  <1>2. sched' \in SchedType /\ sched.token \in Tokens
    BY <1>1, Facts, Consts DEF SchedType
  <1>3. row' \in RowType
    BY <1>1, <1>2, Facts DEF RowType
  <1> QED BY <1>1, <1>2, <1>3, Facts, OtherInv

LEMMA DisableInv == ASSUME IInv, Disable PROVE IInv'
  <1>1. /\ enabled' \in BOOLEAN /\ Fault
        /\ UNCHANGED <<row, issued, inst, conn, ref, sched, refused>>
    BY DEF Disable
  <1> QED BY <1>1, Facts, OtherInv

LEMMA RestartInv == ASSUME IInv, Restart PROVE IInv'
  <1>1. /\ Fault /\ inst' = Fresh /\ conn' = Start /\ ref' = [p \in Refreshers |-> Idle]
        /\ enabled' = TRUE /\ refused' = {} /\ UNCHANGED <<row, issued, sched>>
    BY DEF Restart
  <1>2. faults' \in 0..MaxFaults
    BY <1>1, Facts, Consts
  <1>3. RefsOK'
    BY <1>1, <1>2, Starts, Consts DEF RefsOK
  <1>4. RestOK'
    BY <1>1, <1>2, Facts DEF RestOK
  <1> QED BY <1>1, <1>3, <1>4, Starts DEF IInv

LEMMA AgeInv == ASSUME IInv, Age PROVE IInv'
  <1>1. /\ inst' = [inst EXCEPT !.polled = FALSE]
        /\ UNCHANGED <<issued, conn, ref, sched, enabled, faults, refused>>
        /\ \/ row.exp # "past" /\ row' = [row EXCEPT !.exp = Sooner(row.exp)]
           \/ row' = [row EXCEPT !.renew = "none"]
    BY Facts DEF Age, RowType
  <1>2. /\ inst' \in InstType /\ inst'.auth = inst.auth /\ inst'.fetch = inst.fetch
        /\ inst'.short = inst.short /\ inst'.startup = inst.startup
        /\ inst'.expired = inst.expired
    BY <1>1, Facts DEF InstType
  <1>3. row' \in RowType
    BY <1>1, Facts DEF RowType, Sooner
  <1>4. InLimits(inst', conn') /\ Spent(inst', refused')
    BY <1>1, <1>2, Facts DEF InLimits, Spent
  <1> QED BY <1>1, <1>3, <1>4, Facts, OtherInv

-----------------------------------------------------------------------------
\* The theorems.

LEMMA NextInv == IInv /\ [Next]_vars => IInv'
  <1> SUFFICES ASSUME IInv, [Next]_vars PROVE IInv'
    OBVIOUS
  <1>1. ASSUME NEW p \in Refreshers, Refresh(p) PROVE IInv'
    BY <1>1, SkipInv, ReadHitInv, ReadMissInv, UnreadInv, GotInv, SolvedInv, DeniedInv, MarkInv, AgainInv,
       StoreInv, CloseInv DEF Refresh
  <1>2. CASE Main
    BY <1>2, TopInv, DialInv, RegInv, AnswerInv, EndedInv, FailedInv, LoginInv DEF Main
  <1>3. CASE Drop \/ Load \/ Renew \/ Write \/ Disable \/ Restart \/ Age
    BY <1>3, DropInv, LoadInv, RenewInv, WriteInv, DisableInv, RestartInv, AgeInv
  <1>4. CASE UNCHANGED vars
    BY <1>4 DEF vars, IInv, RestOK, InLimits, RefsOK, Spent
  <1> QED BY <1>1, <1>2, <1>3, <1>4 DEF Next

LEMMA Invariant == Spec => []IInv
  BY InitInv, NextInv, PTL DEF Spec

(***************************************************************************)
(* The fields of the instance, the cache and the refreshers keep their     *)
(* types, and every counter that disables an account, ends main or stops   *)
(* a refresh stays within its limit, however the refreshers, main and the  *)
(* scheduler interleave.                                                   *)
(***************************************************************************)
THEOREM LimitsKept == Spec => []TypeOK
  BY Invariant, InvTypes, PTL

(***************************************************************************)
(* An expired start-up token that the platform has turned down is in use   *)
(* again only if a refresher could not read the switch and took it from    *)
(* the cache for that: the chance to fall back on one is spent by then,    *)
(* for all refreshers of the instance, and only a restart gives it back.   *)
(***************************************************************************)
THEOREM RefusedStaysOut == Spec => []RefusedNotReused
  <1>1. IInv => RefusedNotReused
    BY DEF IInv, Spent, RefusedNotReused, PastItsTime
  <1> QED BY <1>1, Invariant, PTL

LEMMA SparedStep == IInv /\ [Next]_vars =>
  (row.renew = "far" /\ row.token # inst.inUse /\ <<ref, conn>>' # <<ref, conn>>
     => row'.renew = "far" \/ row'.exp = "far")
  <1> SUFFICES ASSUME IInv, [Next]_vars, row.renew = "far", row.token # inst.inUse,
                      <<ref, conn>>' # <<ref, conn>>
               PROVE  row'.renew = "far" \/ row'.exp = "far"
    OBVIOUS
  <1>1. row \in RowType /\ Expired(row) = row
    BY Facts DEF Expired
  <1>2. row' = row => row'.renew = "far"
    OBVIOUS
  <1>3. ASSUME NEW p \in Refreshers, Refresh(p)
        PROVE  row'.renew = "far" \/ row'.exp = "far"
    <2>1. CASE Skip(p) \/ ReadMiss(p) \/ (\E t \in Tokens : Got(p, t)) \/ Solved(p) \/ Denied(p)
               \/ Close(p)
      BY <1>2, <2>1 DEF Skip, ReadMiss, Got, Solved, Denied, Close
    <2>2. CASE Mark(p) \/ Again(p)
      BY <1>1, <1>2, <2>2 DEF Mark, Again
    <2>3. CASE ReadHit(p)
      <3>1. CASE row' = [row EXCEPT !.exp = row.renew, !.renew = "none"]
        BY <1>1, <3>1 DEF RowType
      <3> QED BY <1>2, <2>3, <3>1 DEF ReadHit
    <2>4. CASE Store(p)
      <3>1. row' = row \/ row' = [token |-> ref[p].token, exp |-> "far", renew |-> "none"]
        BY <2>4 DEF Store
      <3> QED BY <1>2, <3>1
    <2>5. CASE Unread(p)
      <3> DEFINE r == IF ref[p].pc = "again" THEN Expired(row) ELSE row
      <3>1. row' = r \/ row' = [r EXCEPT !.exp = r.renew, !.renew = "none"]
        BY <2>5 DEF Unread
      <3>2. r = row
        BY <1>1
      <3> HIDE DEF r
      <3> QED BY <1>1, <1>2, <3>1, <3>2 DEF RowType
    <2> QED BY <1>3, <2>1, <2>2, <2>3, <2>4, <2>5 DEF Refresh
  <1>4. CASE Main
    <2>1. row' = row \/ row' = Expired(row)
      BY <1>4 DEF Main, Top, Dial, Reg, Answer, Ended, Failed, Login, Others
    <2> QED BY <1>1, <1>2, <2>1
  <1>5. CASE Drop \/ Disable \/ Restart
    BY <1>2, <1>5 DEF Drop, Disable, Restart, Others
  <1>6. CASE Load \/ Renew \/ Write \/ Age
    BY <1>6 DEF Load, Renew, Write, Age
  <1>7. CASE UNCHANGED vars
    BY <1>7 DEF vars
  <1> QED BY <1>3, <1>4, <1>5, <1>6, <1>7 DEF Next

(***************************************************************************)
(* What the scheduler has renewed survives main and the refreshers: none   *)
(* of their steps drops a renewal that the instance has not taken, for     *)
(* _delete_cached_token expires the row of the token in use alone, and     *)
(* whoever reads the renewal promotes it.                                  *)
(***************************************************************************)
THEOREM RenewalsSpared == Spec => RenewalSpared
  BY Invariant, SparedStep, PTL DEF Spec, RenewalSpared
=============================================================================
