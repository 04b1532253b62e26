------------------------- MODULE MouseQueue_proofs -------------------------
(***************************************************************************)
(* Theorems about MouseQueue, for any tasks, classes and weights.          *)
(***************************************************************************)
EXTENDS MouseQueue, SequenceTheorems, WellFoundedInduction, TLAPS

-----------------------------------------------------------------------------
\* Induction on natural numbers, for a set in place of a predicate.

LEMMA LessWellFounded == IsWellFoundedOn({p \in Nat \X Nat : p[1] < p[2]}, Nat)
  BY NatLessThanWellFounded DEF OpToRel

LEMMA LeastElement ==
  ASSUME NEW S \in SUBSET Nat, S # {}
  PROVE  \E m \in S : \A n \in S : m <= n
  <1> DEFINE Less == {p \in Nat \X Nat : p[1] < p[2]}
  <1>1. PICK m \in S : \A n \in S : <<n, m>> \notin Less
    <2>1. IsWellFoundedOn(Less, Nat)
      BY LessWellFounded
    <2> HIDE DEF Less
    <2> QED
      BY <2>1, WFMin
  <1>2. ASSUME NEW n \in S PROVE m <= n
    <2>1. m \in Nat /\ n \in Nat /\ <<n, m>> \in Nat \X Nat
      OBVIOUS
    <2>2. n < m => <<n, m>> \in Less
      BY <2>1
    <2> QED
      BY <1>1, <2>1, <2>2
  <1> QED
    BY <1>2

LEMMA SetInduction ==
  ASSUME NEW N \in Nat, NEW S, 0 \in S, \A n \in 0 .. N - 1 : n \in S => n + 1 \in S
  PROVE  \A n \in 0 .. N : n \in S
  <1> SUFFICES ASSUME NEW k \in 0 .. N, k \notin S PROVE FALSE
    OBVIOUS
  <1> DEFINE Out == {n \in 0 .. N : n \notin S}
  <1>1. PICK m \in Out : \A n \in Out : m <= n
    <2>1. Out \in SUBSET Nat /\ Out # {}
      OBVIOUS
    <2> QED
      BY <2>1, LeastElement
  <1>2. m - 1 \in 0 .. N - 1 /\ m - 1 \in S
    BY <1>1
  <1> QED
    BY <1>1, <1>2

-----------------------------------------------------------------------------
\* Keep.

\* Keep(q, S) as far as the n-th entry of q: g does what the definition says.
KeepStep(q, S, g, n) ==
  IF n = 0 THEN <<>>
  ELSE IF q[n] \in S THEN Append(g[n - 1], q[n]) ELSE g[n - 1]

KeepFcn(q, S) == CHOOSE g : g = [n \in 0 .. Len(q) |-> KeepStep(q, S, g, n)]

LEMMA KeepIsFcn == ASSUME NEW q, NEW S PROVE Keep(q, S) = KeepFcn(q, S)[Len(q)]
  BY DEF Keep, KeepFcn, KeepStep

\* There is such a function: it is built entry by entry.
LEMMA KeepFcnExists ==
  ASSUME NEW q \in Seq(Tasks), NEW S
  PROVE  KeepFcn(q, S) = [n \in 0 .. Len(q) |-> KeepStep(q, S, KeepFcn(q, S), n)]
  <1> DEFINE Built(n, g) == DOMAIN g = 0 .. n /\ \A k \in 0 .. n : g[k] = KeepStep(q, S, g, k)
             Can == {n \in 0 .. Len(q) : \E g : Built(n, g)}
  <1>1. Len(q) \in Nat
    OBVIOUS
  <1>2. 0 \in Can
    <2>1. Built(0, [k \in 0 .. 0 |-> <<>>])
      BY DEF KeepStep
    <2> QED
      BY <1>1, <2>1
  <1>3. ASSUME NEW n \in 0 .. Len(q) - 1, n \in Can
        PROVE  n + 1 \in Can
    <2>1. PICK g : Built(n, g)
      BY <1>3
    <2> DEFINE h == [k \in 0 .. n + 1 |-> IF k = n + 1 THEN KeepStep(q, S, g, n + 1) ELSE g[k]]
    <2>2. \A k \in 0 .. n : h[k] = g[k]
      OBVIOUS
    <2>3. \A k \in 0 .. n + 1 : KeepStep(q, S, h, k) = KeepStep(q, S, g, k)
      <3> HIDE DEF h
      <3> QED
        BY <2>2 DEF KeepStep
    <2>4. Built(n + 1, h)
      <3>1. DOMAIN h = 0 .. n + 1
        OBVIOUS
      <3>2. h[n + 1] = KeepStep(q, S, g, n + 1)
        OBVIOUS
      <3>3. \A k \in 0 .. n + 1 : k = n + 1 \/ k \in 0 .. n
        OBVIOUS
      <3> HIDE DEF h
      <3>4. \A k \in 0 .. n : g[k] = KeepStep(q, S, g, k)
        BY <2>1
      <3>5. \A k \in 0 .. n + 1 : h[k] = KeepStep(q, S, g, k)
        BY <3>2, <3>3, <3>4, <2>2
      <3> QED
        BY <3>1, <3>5, <2>3
    <2>5. n + 1 \in 0 .. Len(q)
      BY <1>1
    <2> HIDE DEF h, Built
    <2> QED
      BY <2>4, <2>5
  <1>4. Len(q) \in Can
    <2>1. \A n \in 0 .. Len(q) : n \in Can
      <3> HIDE DEF Can
      <3> QED
        BY <1>1, <1>2, <1>3, SetInduction
    <2> QED
      BY <1>1, <2>1
  <1>5. PICK g : Built(Len(q), g)
    BY <1>4
  <1>6. \E f : f = [n \in 0 .. Len(q) |-> KeepStep(q, S, f, n)]
    <2> DEFINE f == [n \in 0 .. Len(q) |-> KeepStep(q, S, g, n)]
    <2>1. \A n \in 0 .. Len(q) : f[n] = g[n]
      BY <1>5
    <2>2. \A n \in 0 .. Len(q) : KeepStep(q, S, f, n) = KeepStep(q, S, g, n)
      <3> HIDE DEF f
      <3> QED
        BY <1>1, <2>1 DEF KeepStep
    <2>3. f = [n \in 0 .. Len(q) |-> KeepStep(q, S, f, n)]
      BY <2>2, Zenon
    <2> QED
      BY <2>3
  <1> QED
    BY <1>6, Zenon DEF KeepFcn

\* Keep(q, S) has the entries of q that are in S, none of them twice if q has not.
LEMMA KeepProperties ==
  ASSUME NEW q \in Seq(Tasks), NEW S
  PROVE  /\ Keep(q, S) \in Seq(Tasks)
         /\ ToSet(Keep(q, S)) = ToSet(q) \cap S
         /\ IsInjective(q) => IsInjective(Keep(q, S))
  <1> DEFINE f == KeepFcn(q, S)
             Firsts(n) == {q[i] : i \in 1 .. n}
             Elems(r) == {r[i] : i \in 1 .. Len(r)}
             Holds(n) == /\ f[n] \in Seq(Tasks)
                         /\ Elems(f[n]) = Firsts(n) \cap S
                         /\ IsInjective(q) => IsInjective(f[n])
             Good == {n \in 0 .. Len(q) : Holds(n)}
  <1>1. Len(q) \in Nat /\ DOMAIN q = 1 .. Len(q) /\ \A i \in 1 .. Len(q) : q[i] \in Tasks
    OBVIOUS
  <1>2. \A n \in 0 .. Len(q) : f[n] = KeepStep(q, S, f, n)
    <2>1. f = [n \in 0 .. Len(q) |-> KeepStep(q, S, f, n)]
      BY KeepFcnExists
    <2> HIDE DEF f
    <2> QED
      BY <2>1
  <1> HIDE DEF f
  <1>3. Holds(0)
    <2>1. f[0] = <<>>
      BY <1>1, <1>2 DEF KeepStep
    <2>2. Elems(<<>>) = {} /\ Firsts(0) = {} /\ IsInjective(<<>>) /\ <<>> \in Seq(Tasks)
      BY DEF IsInjective
    <2> HIDE DEF Elems, Firsts
    <2> QED
      BY <2>1, <2>2
  <1>4. ASSUME NEW n \in 0 .. Len(q) - 1, Holds(n)
        PROVE  Holds(n + 1)
    <2> DEFINE old == f[n]
               x == q[n + 1]
    <2>1. /\ n \in Nat /\ n + 1 \in 0 .. Len(q) /\ n + 1 \in 1 .. Len(q) /\ n + 1 # 0 /\ (n + 1) - 1 = n
          /\ x \in Tasks
      BY <1>1
    <2>2. /\ old \in Seq(Tasks) /\ Len(old) \in Nat
          /\ Elems(old) = Firsts(n) \cap S
          /\ IsInjective(q) => IsInjective(old)
      <3> HIDE DEF Firsts, Elems
      <3> QED
        BY <1>4
    <2>3. f[n + 1] = IF x \in S THEN Append(old, x) ELSE old
      BY <1>2, <2>1 DEF KeepStep
    <2>4. Firsts(n + 1) = Firsts(n) \cup {x}
      BY <2>1
    <2>5. CASE x \notin S
      <3>1. f[n + 1] = old /\ Firsts(n + 1) \cap S = Firsts(n) \cap S
        BY <2>3, <2>4, <2>5
      <3> HIDE DEF Firsts, Elems, old
      <3> QED
        BY <2>2, <3>1
    <2>6. CASE x \in S
      <3> DEFINE new == Append(old, x)
      <3>1. /\ new \in Seq(Tasks) /\ Len(new) = Len(old) + 1 /\ new[Len(old) + 1] = x
            /\ \A i \in 1 .. Len(old) : new[i] = old[i]
        BY <2>1, <2>2, AppendProperties
      <3>2. f[n + 1] = new
        BY <2>3, <2>6
      <3> HIDE DEF new
      <3>3. Elems(new) = Elems(old) \cup {x}
        <4>1. Elems(new) = {new[i] : i \in 1 .. Len(old) + 1}
          BY <3>1
        <4>2. \A i \in 1 .. Len(old) + 1 : i = Len(old) + 1 \/ i \in 1 .. Len(old)
          BY <2>2
        <4>3. Len(old) + 1 \in 1 .. Len(old) + 1 /\ 1 .. Len(old) \subseteq 1 .. Len(old) + 1
          BY <2>2
        <4> HIDE DEF old
        <4> QED
          BY <3>1, <4>1, <4>2, <4>3
      <3>4. Firsts(n + 1) \cap S = (Firsts(n) \cap S) \cup {x}
        BY <2>4, <2>6
      <3>5. ASSUME IsInjective(q) PROVE IsInjective(new)
        <4>1. x \notin Firsts(n)
          BY <1>1, <2>1, <3>5 DEF IsInjective
        <4>2. \A i \in 1 .. Len(old) : old[i] # x
          BY <2>2, <4>1
        <4>3. \A i, j \in 1 .. Len(old) : old[i] = old[j] => i = j
          BY <2>2, <3>5 DEF IsInjective
        <4>4. \A i \in 1 .. Len(old) + 1 : i = Len(old) + 1 \/ i \in 1 .. Len(old)
          BY <2>2
        <4>5. \A i, j \in 1 .. Len(old) + 1 : new[i] = new[j] => i = j
          BY <3>1, <4>2, <4>3, <4>4
        <4> QED
          BY <3>1, <4>5 DEF IsInjective
      <3> HIDE DEF Firsts, Elems, old
      <3> QED
        BY <2>2, <3>1, <3>2, <3>3, <3>4, <3>5
    <2> QED
      BY <2>5, <2>6
  <1> HIDE DEF Holds
  <1>5. Holds(Len(q))
    <2>1. 0 \in Good /\ \A n \in 0 .. Len(q) - 1 : n \in Good => n + 1 \in Good
      BY <1>1, <1>3, <1>4
    <2>2. \A n \in 0 .. Len(q) : n \in Good
      <3> HIDE DEF Good
      <3> QED
        BY <1>1, <2>1, SetInduction
    <2> QED
      BY <1>1, <2>2
  <1>6. Keep(q, S) = f[Len(q)]
    BY KeepIsFcn DEF f
  <1>7. ToSet(q) = Firsts(Len(q))
    BY <1>1 DEF ToSet
  <1>8. ToSet(f[Len(q)]) = Elems(f[Len(q)])
    BY <1>5 DEF ToSet, Holds
  <1> HIDE DEF Firsts, Elems
  <1> QED
    BY <1>5, <1>6, <1>7, <1>8 DEF Holds

-----------------------------------------------------------------------------
\* The choice of a task.

USE QueueAssumption

\* The first entry of q that is in S is there, if there is one.
LEMMA FirstProperties ==
  ASSUME NEW q \in Seq(Tasks), NEW S, ToSet(q) \cap S # {}
  PROVE  First(q, S) \in ToSet(q) \cap S
  <1> DEFINE At == {i \in DOMAIN q : q[i] \in S}
  <1>1. DOMAIN q = 1 .. Len(q) /\ Len(q) \in Nat
    OBVIOUS
  <1>2. At \in SUBSET Nat /\ At # {}
    BY <1>1 DEF ToSet
  <1>3. PICK m \in At : \A n \in At : m <= n
    <2> HIDE DEF At
    <2> QED
      BY <1>2, LeastElement
  <1>4. m \in DOMAIN q /\ q[m] \in S /\ \A j \in 1 .. m - 1 : q[j] \notin S
    BY <1>1, <1>3
  <1> DEFINE k == CHOOSE i \in DOMAIN q : q[i] \in S /\ \A j \in 1 .. i - 1 : q[j] \notin S
  <1>5. k \in DOMAIN q /\ q[k] \in S
    BY <1>4, Zenon
  <1>6. First(q, S) = q[k]
    BY DEF First
  <1> HIDE DEF k
  <1> QED
    BY <1>5, <1>6 DEF ToSet

LEMMA HeadProperties ==
  ASSUME NEW q \in Seq(Tasks), NEW b, In(b, q) # {}
  PROVE  HeadOf(b, q) \in ToSet(q)
  <1> DEFINE mine == In(b, q)
             S == IF First(q, mine) \in aged \/ Plain(mine) = {} THEN mine ELSE Plain(mine)
  <1>1. mine # {} /\ mine \subseteq ToSet(q)
    BY DEF In
  <1>2. Plain(mine) \subseteq mine
    BY DEF Plain
  <1>3. S # {} /\ S \subseteq ToSet(q)
    BY <1>1, <1>2
  <1>4. HeadOf(b, q) = First(q, S)
    BY DEF HeadOf
  <1> HIDE DEF S
  <1> QED
    BY <1>3, <1>4, FirstProperties

\* What _purge_cancelled_locked leaves.
LEMMA AliveProperties ==
  ASSUME TypeOK, NEW f \in [Tasks -> {"pending", "cancelled", "done"}]
  PROVE  /\ Alive(f) \in Seq(Tasks) /\ IsInjective(Alive(f))
         /\ \A t \in ToSet(Alive(f)) : t \in ToSet(queue) /\ t \in Tasks /\ f[t] # "cancelled"
  <1>1. queue \in Seq(Tasks) /\ IsInjective(queue)
    BY DEF TypeOK
  <1> QED
    BY <1>1, KeepProperties DEF Alive

LEMMA RunProperties ==
  ASSUME NEW q \in Seq(Tasks), IsInjective(q), NEW b, In(b, q) # {}, Run(b, q)
  PROVE  /\ queue' \in Seq(Tasks) /\ IsInjective(queue')
         /\ ToSet(queue') \subseteq ToSet(q) /\ aged' \subseteq ToSet(queue')
         /\ running' \in ToSet(q) /\ running' \in Tasks /\ running' \notin ToSet(queue')
         /\ dispatcher' = "run"
  <1>1. PICK t \in {HeadOf(b, q)} :
             /\ queue' = Keep(q, Tasks \ {t})
             /\ aged' = (aged \cap ToSet(q)) \ {t}
             /\ running' = t /\ dispatcher' = "run"
    BY DEF Run
  <1>2. t \in ToSet(q) /\ ToSet(q) \subseteq Tasks
    <2>1. ToSet(q) \subseteq Tasks
      BY DEF ToSet
    <2> QED
      BY <2>1, HeadProperties
  <1>3. /\ queue' \in Seq(Tasks) /\ IsInjective(queue')
        /\ ToSet(queue') = ToSet(q) \cap (Tasks \ {t})
    BY <1>1, KeepProperties
  <1> QED
    BY <1>1, <1>2, <1>3

-----------------------------------------------------------------------------
\* The queue and the futures.

\* What waits has been submitted, and has not run since.
Waits == \A t \in ToSet(queue) : future[t] # "done"

\* The smooth weighted round robin: in a round, what one bucket is behind the
\* other is ahead, by half a turn at most; and being passed over moves a bucket
\* forward by its weight.
Balanced ==
  LET w == signature
      T == w["local"] + w["remote"]
  IN  /\ current["local"] + current["remote"] = 0
      /\ 0 - T <= 2 * current["local"] /\ 2 * current["local"] < T
      /\ 2 * (passed["local"] * w["local"]) <= 2 * current["local"] + T
      /\ 2 * (passed["remote"] * w["remote"]) < 2 * current["remote"] + T

ShareInv ==
  IF signature = None THEN current = None /\ passed = None ELSE Balanced

IInv == TypeOK /\ Waits /\ ShareInv

LEMMA WeightTypes ==
  ASSUME TypeOK
  PROVE  /\ Effective \in Ratios \cup {Even} /\ Effective # None
         /\ Effective \in [Buckets -> Nat]
         /\ signature \in [Buckets -> Nat]
         /\ Even # None
  <1>1. Even \in [Buckets -> Nat] /\ None \in [Buckets -> Nat]
    BY DEF Even, None
  <1>2. Even["local"] = 1 /\ None["local"] = 0
    BY DEF Even, None, Buckets
  <1>3. Even # None
    BY <1>2
  <1> QED
    BY <1>1, <1>3 DEF TypeOK, Effective

LEMMA Positive ==
  ASSUME NEW w \in [Buckets -> Nat], w # None
  PROVE  w["local"] + w["remote"] > 0
  <1> SUFFICES ASSUME w["local"] = 0, w["remote"] = 0 PROVE w = None
    BY DEF Buckets
  <1> QED
    BY DEF None, Buckets

\* One choice keeps the round balanced, in plain numbers: c is what the local
\* bucket is ahead, p and r how often each has been passed over.
LEMMA Turn ==
  ASSUME NEW wl \in Nat, NEW wr \in Nat, NEW c \in Int, NEW p \in Nat, NEW r \in Nat,
         0 - (wl + wr) <= 2 * c, 2 * c < wl + wr,
         2 * (p * wl) <= 2 * c + (wl + wr), 2 * (r * wr) < 2 * (0 - c) + (wl + wr)
  PROVE  /\ (p + 1) * wl = p * wl + wl /\ (r + 1) * wr = r * wr + wr
         /\ 0 * wl = 0 /\ 0 * wr = 0
         /\ c + wl >= wr - c =>
              /\ 0 - (wl + wr) <= 2 * (c + wl - (wl + wr))
              /\ 2 * (c + wl - (wl + wr)) < wl + wr
              /\ 2 * ((r + 1) * wr) < 2 * (wr - c) + (wl + wr)
         /\ ~(c + wl >= wr - c) =>
              /\ 0 - (wl + wr) <= 2 * (c + wl) /\ 2 * (c + wl) < wl + wr
              /\ 2 * ((p + 1) * wl) <= 2 * (c + wl) + (wl + wr)
  OBVIOUS

LEMMA WeighShare ==
  ASSUME TypeOK, ShareInv, NEW q, Weigh(q)
  PROVE  /\ current' \in [Buckets -> Int] /\ signature' \in Ratios \cup {Even, None}
         /\ passed' \in [Buckets -> Nat]
         /\ ShareInv' /\ (\E b \in Buckets : Run(b, q))
  <1> DEFINE w == Effective
             old == IF signature = w THEN current ELSE None
             before == IF w = signature THEN passed ELSE None
             cur == [b \in Buckets |-> old[b] + w[b]]
             best == IF cur["local"] >= cur["remote"] THEN "local" ELSE "remote"
             wl == w["local"]
             wr == w["remote"]
             c == old["local"]
             p == before["local"]
             r == before["remote"]
  <1>1. /\ current' = [cur EXCEPT ![best] = @ - (w["local"] + w["remote"])]
        /\ signature' = w
        /\ passed' = [b \in Buckets |->
                        IF b = best \/ w[b] = 0 THEN 0
                        ELSE 1 + IF w = signature THEN passed[b] ELSE 0]
        /\ Run(best, q)
    BY DEF Weigh
  <1>2. w \in [Buckets -> Nat] /\ w # None /\ w \in Ratios \cup {Even}
    BY WeightTypes
  <1>3. current \in [Buckets -> Int] /\ passed \in [Buckets -> Nat] /\ None \in [Buckets -> Nat]
    BY DEF TypeOK, None
  <1>4. wl \in Nat /\ wr \in Nat /\ wl + wr > 0
    BY <1>2, Positive DEF Buckets
  <1>5. c \in Int /\ p \in Nat /\ r \in Nat /\ old["remote"] \in Int
    BY <1>3 DEF Buckets
  <1>6. /\ old["remote"] = 0 - c
        /\ 0 - (wl + wr) <= 2 * c /\ 2 * c < wl + wr
        /\ 2 * (p * wl) <= 2 * c + (wl + wr) /\ 2 * (r * wr) < 2 * (0 - c) + (wl + wr)
    <2>1. CASE signature = w
      <3>1. Balanced /\ old = current /\ before = passed
        BY <2>1, <1>2 DEF ShareInv
      <3> QED
        BY <3>1, <2>1, <1>4, <1>5 DEF Balanced
    <2>2. CASE signature # w
      <3>1. c = 0 /\ old["remote"] = 0 /\ p = 0 /\ r = 0
        BY <2>2 DEF None, Buckets
      <3>2. p * wl = 0 /\ r * wr = 0
        BY <3>1, <1>4
      <3> HIDE DEF w, old, before
      <3> QED
        BY <3>1, <3>2, <1>4
    <2> QED
      BY <2>1, <2>2
  <1>7. \A b \in Buckets : passed'[b] = IF b = best \/ w[b] = 0 THEN 0 ELSE 1 + before[b]
    BY <1>1 DEF None
  <1> HIDE DEF w, old, before
  <1>8. best \in Buckets /\ best = (IF c + wl >= wr - c THEN "local" ELSE "remote")
    BY <1>4, <1>5, <1>6 DEF Buckets
  <1>9. /\ current' \in [Buckets -> Int]
        /\ current'["local"] = IF best = "local" THEN c + wl - (wl + wr) ELSE c + wl
        /\ current'["remote"] = IF best = "local" THEN wr - c ELSE wr - c - (wl + wr)
    <2>1. cur \in [Buckets -> Int] /\ cur["local"] = c + wl /\ cur["remote"] = wr - c
      BY <1>2, <1>4, <1>5, <1>6 DEF Buckets
    <2> HIDE DEF cur
    <2>2. current' = [cur EXCEPT ![best] = cur[best] - (wl + wr)]
      BY <1>1
    <2> HIDE DEF best, wl, wr, c
    <2> QED
      BY <2>1, <2>2, <1>4, <1>5, <1>8 DEF Buckets
  <1>10. /\ passed' \in [Buckets -> Nat]
         /\ passed'["local"] = IF best = "local" \/ wl = 0 THEN 0 ELSE p + 1
         /\ passed'["remote"] = IF best = "remote" \/ wr = 0 THEN 0 ELSE r + 1
    <2>1. DOMAIN passed' = Buckets /\ passed' = [b \in Buckets |-> passed'[b]]
      BY <1>1
    <2>2. passed'["local"] \in Nat /\ passed'["remote"] \in Nat
      BY <1>5, <1>7 DEF Buckets
    <2> HIDE DEF best
    <2> QED
      BY <2>1, <2>2, <1>5, <1>7 DEF Buckets
  <1>11. Balanced'
    <2> DEFINE T == wl + wr
    <2>1. /\ (p + 1) * wl = p * wl + wl /\ (r + 1) * wr = r * wr + wr
          /\ 0 * wl = 0 /\ 0 * wr = 0
          /\ c + wl >= wr - c =>
               /\ 0 - T <= 2 * (c + wl - T) /\ 2 * (c + wl - T) < T
               /\ 2 * ((r + 1) * wr) < 2 * (wr - c) + T
          /\ ~(c + wl >= wr - c) =>
               /\ 0 - T <= 2 * (c + wl) /\ 2 * (c + wl) < T
               /\ 2 * ((p + 1) * wl) <= 2 * (c + wl) + T
      BY <1>4, <1>5, <1>6, Turn
    <2> HIDE DEF wl, wr, c, p, r, best
    <2>2. CASE c + wl >= wr - c
      <3>1. best = "local"
        BY <2>2, <1>8
      <3>2. passed'["local"] * wl = 0
        BY <3>1, <1>10, <2>1
      <3>3. 2 * (passed'["remote"] * wr) < 2 * (wr - c) + T
        <4>1. CASE wr = 0
          BY <4>1, <2>1, <2>2, <1>4, <1>5, <1>6, <1>10
        <4>2. CASE wr # 0
          BY <4>2, <3>1, <2>1, <2>2, <1>10
        <4> QED
          BY <4>1, <4>2
      <3>4. /\ current'["local"] = c + wl - T /\ current'["remote"] = wr - c
            /\ signature'["local"] = wl /\ signature'["remote"] = wr
        BY <3>1, <1>1, <1>9 DEF wl, wr
      <3> QED
        BY <3>2, <3>3, <3>4, <2>1, <2>2, <1>4, <1>5 DEF Balanced
    <2>3. CASE ~(c + wl >= wr - c)
      <3>1. best = "remote"
        BY <2>3, <1>8
      <3>2. passed'["remote"] * wr = 0
        BY <3>1, <1>10, <2>1
      <3>3. 2 * (passed'["local"] * wl) <= 2 * (c + wl) + T
        <4>1. CASE wl = 0
          BY <4>1, <2>1, <2>3, <1>4, <1>5, <1>6, <1>10
        <4>2. CASE wl # 0
          BY <4>2, <3>1, <2>1, <2>3, <1>10
        <4> QED
          BY <4>1, <4>2
      <3>4. /\ current'["local"] = c + wl /\ current'["remote"] = wr - c - T
            /\ signature'["local"] = wl /\ signature'["remote"] = wr
        BY <3>1, <1>1, <1>9 DEF wl, wr
      <3> QED
        BY <3>2, <3>3, <3>4, <2>1, <2>3, <1>4, <1>5 DEF Balanced
    <2> QED
      BY <2>2, <2>3
  <1>12. signature' # None
    BY <1>1, <1>2
  <1> QED
    BY <1>1, <1>2, <1>8, <1>9, <1>10, <1>11, <1>12 DEF ShareInv

-----------------------------------------------------------------------------
\* A step of the dispatcher takes at most one task out of q.

Served(q) ==
  /\ queue' \in Seq(Tasks) /\ IsInjective(queue') /\ ToSet(queue') \subseteq ToSet(q)
  /\ aged' \subseteq ToSet(queue')
  /\ running' \in ToSet(q) \cup {NoTask} /\ running' \notin ToSet(queue')
  /\ dispatcher' \in {"none", "load", "run"}
  /\ (running' # NoTask) <=> (dispatcher' = "run")
  /\ current' \in [Buckets -> Int] /\ signature' \in Ratios \cup {Even, None}
  /\ passed' \in [Buckets -> Nat]
  /\ ShareInv'

LEMMA ResetShare ==
  ASSUME Reset
  PROVE  /\ current' \in [Buckets -> Int] /\ signature' \in Ratios \cup {Even, None}
         /\ passed' \in [Buckets -> Nat] /\ ShareInv'
  BY DEF Reset, ShareInv, None

LEMMA SameShare ==
  ASSUME ShareInv, UNCHANGED <<smooth, passed>>
  PROVE  ShareInv'
  BY DEF ShareInv, Balanced, smooth

\* The entries of a sequence of tasks.
LEMMA EntriesAreTasks ==
  ASSUME NEW q \in Seq(Tasks)
  PROVE  ToSet(q) \subseteq Tasks /\ NoTask \notin ToSet(q)
  BY DEF ToSet

LEMMA RunServes ==
  ASSUME NEW q \in Seq(Tasks), IsInjective(q), NEW b \in Buckets, Run(b, q)
  PROVE  In(b, q) # {} =>
           /\ queue' \in Seq(Tasks) /\ IsInjective(queue')
           /\ ToSet(queue') \subseteq ToSet(q) /\ aged' \subseteq ToSet(queue')
           /\ running' \in ToSet(q) \cup {NoTask} /\ running' \notin ToSet(queue')
           /\ dispatcher' \in {"none", "load", "run"}
           /\ (running' # NoTask) <=> (dispatcher' = "run")
  BY RunProperties

LEMMA DispatchServes ==
  ASSUME TypeOK, ShareInv, NEW q \in Seq(Tasks), IsInjective(q), Dispatch(q)
  PROVE  Served(q)
  <1>1. CASE q = <<>> /\ queue' = q /\ aged' = {} /\ running' = NoTask
             /\ dispatcher' = "none" /\ Reset
    <2>1. ToSet(q) = {}
      BY <1>1 DEF ToSet
    <2> QED
      BY <1>1, <2>1, ResetShare DEF Served
  <1>2. CASE \E b \in Buckets : In(b, q) # {} /\ In(Other(b), q) = {} /\ Run(b, q) /\ Reset
    BY <1>2, RunServes, ResetShare DEF Served
  <1>3. CASE /\ Contended(q) /\ queue' = q /\ aged' = aged \cap ToSet(q)
             /\ running' = NoTask /\ dispatcher' = "load"
             /\ UNCHANGED <<smooth, passed>>
    <2>1. current' = current /\ signature' = signature /\ passed' = passed
      BY <1>3 DEF smooth
    <2>2. ShareInv'
      BY <1>3, SameShare
    <2>3. NoTask \notin ToSet(q)
      BY EntriesAreTasks
    <2> QED
      BY <1>3, <2>1, <2>2, <2>3 DEF Served, TypeOK
  <1> QED
    BY <1>1, <1>2, <1>3 DEF Dispatch

LEMMA WeighServes ==
  ASSUME TypeOK, ShareInv, NEW q \in Seq(Tasks), IsInjective(q), Contended(q), Weigh(q)
  PROVE  Served(q)
  <1>1. PICK b \in Buckets : Run(b, q)
    BY WeighShare
  <1>2. In(b, q) # {}
    BY DEF Contended
  <1> QED
    BY <1>1, <1>2, RunServes, WeighShare DEF Served

LEMMA ServedInv ==
  ASSUME IInv, NEW f \in [Tasks -> {"pending", "cancelled", "done"}],
         NEW q, q = Alive(f), Served(q), future' = f, UNCHANGED <<ratio, changes>>,
         \A t \in ToSet(queue) : f[t] = future[t]
  PROVE  IInv'
  <1>1. \A t \in ToSet(q) : t \in ToSet(queue) /\ t \in Tasks /\ f[t] # "cancelled"
    BY AliveProperties DEF IInv
  <1>2. TypeOK'
    BY <1>1 DEF IInv, TypeOK, Served
  <1>3. Waits'
    BY <1>1 DEF IInv, Waits, Served
  <1> QED
    BY <1>2, <1>3 DEF IInv, Served

LEMMA StartInv ==
  ASSUME IInv, Start
  PROVE  IInv'
  <1>1. PICK q \in {Alive(future)} : Dispatch(q)
    BY DEF Start
  <1>2. q \in Seq(Tasks) /\ IsInjective(q) /\ future \in [Tasks -> {"pending", "cancelled", "done"}]
    BY AliveProperties DEF IInv, TypeOK
  <1>3. Served(q)
    BY <1>1, <1>2, DispatchServes DEF IInv
  <1> QED
    BY <1>2, <1>3, ServedInv DEF Start

LEMMA LoadedServes ==
  ASSUME IInv, Loaded
  PROVE  \E q \in {Alive(future)} : Served(q)
  <1>1. PICK q \in {Alive(future)} : IF Contended(q) THEN Weigh(q) ELSE Dispatch(q)
    BY DEF Loaded
  <1>2. q \in Seq(Tasks) /\ IsInjective(q)
    BY AliveProperties DEF IInv, TypeOK
  <1>3. Served(q)
    BY <1>1, <1>2, DispatchServes, WeighServes DEF IInv
  <1> QED
    BY <1>3

LEMMA LoadedInv ==
  ASSUME IInv, Loaded
  PROVE  IInv'
  <1>1. future \in [Tasks -> {"pending", "cancelled", "done"}]
    BY DEF IInv, TypeOK
  <1> QED
    BY <1>1, LoadedServes, ServedInv DEF Loaded

LEMMA RunEndsServes ==
  ASSUME IInv, RunEnds
  PROVE  /\ future' = [future EXCEPT ![running] = "done"]
         /\ future' \in [Tasks -> {"pending", "cancelled", "done"}]
         /\ running \in Tasks /\ running \notin ToSet(queue)
         /\ \E q \in {Alive(future')} : Served(q)
  <1>1. future' = [future EXCEPT ![running] = "done"] /\ running \in Tasks
        /\ running \notin ToSet(queue)
    BY DEF RunEnds, IInv, TypeOK
  <1>2. future' \in [Tasks -> {"pending", "cancelled", "done"}]
    BY <1>1 DEF IInv, TypeOK
  <1>3. PICK q \in {Alive(future')} : Dispatch(q)
    BY DEF RunEnds
  <1>4. q \in Seq(Tasks) /\ IsInjective(q)
    <2> DEFINE f == [future EXCEPT ![running] = "done"]
    <2>1. f \in [Tasks -> {"pending", "cancelled", "done"}] /\ q = Alive(f)
      BY <1>1, <1>2, <1>3
    <2> HIDE DEF f
    <2> QED
      BY <2>1, AliveProperties DEF IInv
  <1>5. Served(q)
    BY <1>3, <1>4, DispatchServes DEF IInv
  <1> QED
    BY <1>1, <1>2, <1>5

LEMMA RunEndsInv ==
  ASSUME IInv, RunEnds
  PROVE  IInv'
  <1> DEFINE f == [future EXCEPT ![running] = "done"]
  <1>1. /\ future' = f /\ f \in [Tasks -> {"pending", "cancelled", "done"}]
        /\ running \in Tasks /\ running \notin ToSet(queue)
    BY RunEndsServes
  <1>2. \A t \in ToSet(queue) : f[t] = future[t]
    BY <1>1 DEF IInv, TypeOK
  <1>3. PICK q \in {Alive(f)} : Served(q)
    BY <1>1, RunEndsServes
  <1>4. UNCHANGED <<ratio, changes>>
    BY DEF RunEnds
  <1> HIDE DEF f
  <1> QED
    BY <1>1, <1>2, <1>3, <1>4, ServedInv

-----------------------------------------------------------------------------
\* The callers and the world.

LEMMA SubmitInv ==
  ASSUME IInv, NEW t \in Tasks, Submit(t)
  PROVE  IInv'
  <1>1. /\ queue' = Append(queue, t) /\ t \notin ToSet(queue) /\ t # running
        /\ future' = [future EXCEPT ![t] = "pending"]
        /\ dispatcher' = IF dispatcher = "none" THEN "start" ELSE dispatcher
        /\ aged' = aged /\ running' = running /\ current' = current
        /\ signature' = signature /\ ratio' = ratio /\ changes' = changes /\ passed' = passed
    BY DEF Submit, smooth
  <1>2. queue \in Seq(Tasks) /\ IsInjective(queue) /\ Len(queue) \in Nat
    BY DEF IInv, TypeOK
  <1>3. /\ queue' \in Seq(Tasks) /\ Len(queue') = Len(queue) + 1
        /\ queue'[Len(queue) + 1] = t /\ \A i \in 1 .. Len(queue) : queue'[i] = queue[i]
    BY <1>1, <1>2, AppendProperties
  <1>4. \A i \in 1 .. Len(queue) + 1 : i = Len(queue) + 1 \/ i \in 1 .. Len(queue)
    BY <1>2
  <1>5. ToSet(queue') = ToSet(queue) \cup {t}
    <2>1. ToSet(queue') = {queue'[i] : i \in 1 .. Len(queue) + 1}
      BY <1>3 DEF ToSet
    <2>2. ToSet(queue) = {queue[i] : i \in 1 .. Len(queue)}
      BY <1>2 DEF ToSet
    <2>3. Len(queue) + 1 \in 1 .. Len(queue) + 1 /\ 1 .. Len(queue) \subseteq 1 .. Len(queue) + 1
      BY <1>2
    <2> QED
      BY <1>3, <1>4, <2>1, <2>2, <2>3
  <1>6. IsInjective(queue')
    <2>1. \A i \in 1 .. Len(queue) : queue[i] # t
      BY <1>1, <1>2 DEF ToSet
    <2>2. \A i, j \in 1 .. Len(queue) : queue[i] = queue[j] => i = j
      BY <1>2 DEF IsInjective
    <2>3. \A i, j \in 1 .. Len(queue) + 1 : queue'[i] = queue'[j] => i = j
      BY <1>3, <1>4, <2>1, <2>2
    <2> QED
      BY <1>3, <2>3 DEF IsInjective
  <1>7. TypeOK'
    BY <1>1, <1>3, <1>5, <1>6 DEF IInv, TypeOK
  <1>8. Waits'
    BY <1>1, <1>5 DEF IInv, Waits, TypeOK
  <1>9. ShareInv'
    BY <1>1, SameShare DEF IInv, smooth
  <1> QED
    BY <1>7, <1>8, <1>9 DEF IInv

LEMMA CancelInv ==
  ASSUME IInv, NEW t \in Tasks, Cancel(t)
  PROVE  IInv'
  <1>1. /\ future' = [future EXCEPT ![t] = "cancelled"]
        /\ queue' = queue /\ aged' = aged /\ dispatcher' = dispatcher
        /\ running' = running /\ current' = current /\ signature' = signature
        /\ ratio' = ratio /\ changes' = changes /\ passed' = passed
    BY DEF Cancel, smooth
  <1>2. TypeOK'
    BY <1>1 DEF IInv, TypeOK
  <1>3. Waits'
    BY <1>1 DEF IInv, Waits, TypeOK
  <1>4. ShareInv'
    BY <1>1, SameShare DEF IInv, smooth
  <1> QED
    BY <1>2, <1>3, <1>4 DEF IInv

LEMMA AgeInv ==
  ASSUME IInv, Age
  PROVE  IInv'
  <1> DEFINE young == In("remote", queue) \ aged
  <1>1. /\ young # {} /\ aged' = aged \cup {First(queue, young)}
        /\ queue' = queue /\ future' = future /\ dispatcher' = dispatcher
        /\ running' = running /\ current' = current /\ signature' = signature
        /\ ratio' = ratio /\ changes' = changes /\ passed' = passed
    BY DEF Age, smooth
  <1>2. First(queue, young) \in ToSet(queue)
    <2>1. queue \in Seq(Tasks) /\ ToSet(queue) \cap young # {}
      BY <1>1 DEF IInv, TypeOK, In
    <2> HIDE DEF young
    <2> QED
      BY <2>1, FirstProperties
  <1> HIDE DEF young
  <1>3. TypeOK'
    BY <1>1, <1>2 DEF IInv, TypeOK
  <1>4. Waits'
    BY <1>1 DEF IInv, Waits
  <1>5. ShareInv'
    BY <1>1, SameShare DEF IInv, smooth
  <1> QED
    BY <1>3, <1>4, <1>5 DEF IInv

LEMMA ChangeInv ==
  ASSUME IInv, ChangeRatio
  PROVE  IInv'
  <1>1. /\ ratio' \in Ratios /\ changes' = changes + 1 /\ changes < MaxChanges
        /\ queue' = queue /\ aged' = aged /\ future' = future /\ dispatcher' = dispatcher
        /\ running' = running /\ current' = current /\ signature' = signature
        /\ passed' = passed
    BY DEF ChangeRatio, smooth
  <1>2. TypeOK'
    BY <1>1 DEF IInv, TypeOK
  <1>3. Waits'
    BY <1>1 DEF IInv, Waits
  <1>4. ShareInv'
    BY <1>1, SameShare DEF IInv, smooth
  <1> QED
    BY <1>2, <1>3, <1>4 DEF IInv

-----------------------------------------------------------------------------
\* The invariant holds.

LEMMA InitInv == Init => IInv
  <1> SUFFICES ASSUME Init PROVE IInv
    OBVIOUS
  <1>1. ToSet(<<>>) = {} /\ IsInjective(<<>>)
    BY DEF ToSet, IsInjective
  <1>2. TypeOK
    BY <1>1 DEF Init, TypeOK, None
  <1>3. Waits
    BY <1>1 DEF Init, Waits
  <1>4. ShareInv
    BY DEF Init, ShareInv
  <1> QED
    BY <1>2, <1>3, <1>4 DEF IInv

LEMMA NextInv == IInv /\ [Next]_vars => IInv'
  <1> SUFFICES ASSUME IInv, [Next]_vars PROVE IInv'
    OBVIOUS
  <1>1. CASE Dispatcher
    BY <1>1, StartInv, LoadedInv, RunEndsInv DEF Dispatcher
  <1>2. CASE Age
    BY <1>2, AgeInv
  <1>3. CASE ChangeRatio
    BY <1>3, ChangeInv
  <1>4. ASSUME NEW t \in Tasks, Submit(t) \/ Cancel(t) PROVE IInv'
    BY <1>4, SubmitInv, CancelInv
  <1>5. CASE UNCHANGED vars
    <2>1. /\ queue' = queue /\ aged' = aged /\ future' = future /\ dispatcher' = dispatcher
          /\ running' = running /\ current' = current /\ signature' = signature
          /\ ratio' = ratio /\ changes' = changes /\ passed' = passed
      BY <1>5 DEF vars, smooth
    <2> QED
      BY <2>1 DEF IInv, TypeOK, Waits, ShareInv, Balanced
  <1> QED
    BY <1>1, <1>2, <1>3, <1>4, <1>5 DEF Next

LEMMA Invariant == Spec => []IInv
  BY InitInv, NextInv, PTL DEF Spec

-----------------------------------------------------------------------------
\* The theorems.

\* The runner's fields keep their types, and no task waits twice, or waits while
\* it has the mouse.
THEOREM QueueTyped == Spec => []TypeOK
  <1>1. IInv => TypeOK
    BY DEF IInv
  <1> QED
    BY <1>1, Invariant, PTL

\* WeightedTaskRunner's shares, for all weights an administrator may set: while
\* both buckets wait and the weights last, a bucket is passed over at most as often
\* as the other outweighs it.
THEOREM SharesKept == Spec => []ShareKept
  <1>1. ASSUME IInv PROVE ShareKept
    <2>1. signature \in [Buckets -> Nat] /\ passed \in [Buckets -> Nat]
          /\ current \in [Buckets -> Int]
      BY <1>1, WeightTypes DEF IInv, TypeOK
    <2> DEFINE v == signature["local"]
               w == signature["remote"]
    <2>2. v \in Nat /\ w \in Nat /\ current["local"] \in Int /\ current["remote"] \in Int
      BY <2>1 DEF Buckets
    <2>3. CASE signature = None
      BY <2>3 DEF ShareKept, None, Buckets
    <2>4. CASE signature # None
      <3>1. Balanced
        BY <1>1, <2>4 DEF IInv, ShareInv
      <3> DEFINE x == passed["local"] * v
                 y == passed["remote"] * w
      <3>2. x \in Nat /\ y \in Nat
        BY <2>1, <2>2 DEF Buckets
      <3>3. /\ current["local"] + current["remote"] = 0
            /\ 0 - (v + w) <= 2 * current["local"] /\ 2 * current["local"] < v + w
            /\ 2 * x <= 2 * current["local"] + (v + w)
            /\ 2 * y < 2 * current["remote"] + (v + w)
        BY <3>1 DEF Balanced
      <3> HIDE DEF x, y
      <3>4. x < w + v /\ y < v + w
        BY <2>2, <3>2, <3>3
      <3>5. /\ passed["local"] * signature["local"] < signature["remote"] + signature["local"]
            /\ passed["remote"] * signature["remote"] < signature["local"] + signature["remote"]
        BY <3>4 DEF x, y
      <3> QED
        BY <3>5 DEF ShareKept, Buckets, Other
    <2> QED
      BY <2>3, <2>4
  <1> QED
    BY <1>1, Invariant, PTL

\* A check whose caller has gone before it was chosen is never given to the mouse,
\* even if that happens while the dispatcher waits for the weights.
THEOREM CancelledStaysOut == Spec => CancelledNeverStarts
  <1>1. ASSUME IInv, [Next]_vars
        PROVE  [running' \notin {running, NoTask} => future[running'] = "pending"]_vars
    <2> SUFFICES ASSUME Next, running' # running, running' # NoTask
                 PROVE  future[running'] = "pending"
      BY <1>1
    <2>1. future \in [Tasks -> {"pending", "cancelled", "done"}]
      BY <1>1 DEF IInv, TypeOK
    <2>2. Dispatcher
      BY DEF Next, Age, ChangeRatio, Submit, Cancel
    <2>3. ASSUME NEW q, q = Alive(future), Served(q)
          PROVE  future[running'] = "pending"
      <3>1. running' \in ToSet(q)
        BY <2>3 DEF Served
      <3>2. running' \in ToSet(queue) /\ running' \in Tasks /\ future[running'] # "cancelled"
        BY <1>1, <2>1, <2>3, <3>1, AliveProperties DEF IInv
      <3> QED
        BY <1>1, <2>1, <3>2 DEF IInv, Waits
    <2>4. CASE Start
      <3>1. PICK q \in {Alive(future)} : Dispatch(q)
        BY <2>4 DEF Start
      <3>2. q \in Seq(Tasks) /\ IsInjective(q)
        BY <1>1, <2>1, AliveProperties DEF IInv
      <3> QED
        BY <1>1, <2>3, <3>1, <3>2, DispatchServes DEF IInv
    <2>5. CASE Loaded
      BY <1>1, <2>3, <2>5, LoadedServes
    <2>6. CASE RunEnds
      <3>1. /\ future' = [future EXCEPT ![running] = "done"]
            /\ future' \in [Tasks -> {"pending", "cancelled", "done"}]
            /\ running \in Tasks /\ running \notin ToSet(queue)
        BY <1>1, <2>6, RunEndsServes
      <3> DEFINE f == [future EXCEPT ![running] = "done"]
      <3>2. f \in [Tasks -> {"pending", "cancelled", "done"}]
        BY <3>1
      <3>3. PICK q \in {Alive(f)} : Served(q)
        BY <1>1, <2>6, <3>1, RunEndsServes
      <3>4. \A t \in ToSet(queue) : f[t] = future[t]
        BY <2>1, <3>1
      <3> HIDE DEF f
      <3>5. running' \in ToSet(q)
        BY <3>3 DEF Served
      <3>6. running' \in ToSet(queue) /\ running' \in Tasks /\ f[running'] # "cancelled"
        BY <1>1, <3>2, <3>3, <3>5, AliveProperties DEF IInv
      <3> QED
        BY <1>1, <2>1, <3>4, <3>6 DEF IInv, Waits
    <2> QED
      BY <2>2, <2>4, <2>5, <2>6 DEF Dispatcher
  <1>2. IInv /\ [Next]_vars =>
          [running' \notin {running, NoTask} => future[running'] = "pending"]_vars
    BY <1>1
  <1> QED
    BY <1>2, Invariant, PTL DEF Spec, CancelledNeverStarts

=============================================================================
