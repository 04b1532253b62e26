------------------------------ MODULE FairShare ------------------------------
(***************************************************************************)
(* owner_fair_share: what the queues of the scheduler give each owner, of  *)
(* the rows a round may take.                                              *)
(***************************************************************************)
EXTENDS Integers, SequencesExt, FiniteSetsExt

\* order_owner_ids: the groups in ascending order, from the round's turn on.
order_owner_ids(groups, rotation) ==
    LET keys  == SetToSortSeq(groups, <)
        n     == Len(keys)
    IN  [i \in 1..n |-> keys[((i - 1 + rotation) % n) + 1]]

\* One pass over the groups that want more, in order.
Pass(counts, s) ==
    LET share == Max({1, s.remaining \div Len(s.active)})
        Grant(acc, k) ==
            LET take == Min({share, counts[k] - acc.quotas[k], acc.remaining})
                q    == acc.quotas[k] + take
            IN  IF acc.remaining = 0 THEN acc
                ELSE [quotas    |-> [acc.quotas EXCEPT ![k] = q],
                      remaining |-> acc.remaining - take,
                      active    |-> IF q >= counts[k] THEN Remove(acc.active, k) ELSE acc.active]
    IN  FoldLeft(Grant, s, s.active)

\* allocate_owner_quotas, for groups in the order of priority; 0 where the code has
\* no entry.  Every pass grants something, so total passes are enough.
allocate_owner_quotas(groups, counts, total) ==
    LET start == [quotas    |-> [k \in DOMAIN counts |-> 0],
                  remaining |-> total,
                  active    |-> SelectSeq(groups, LAMBDA k : counts[k] > 0)]
        pass[n \in 0..total] ==
            IF n = 0 THEN start
            ELSE IF pass[n - 1].remaining = 0 \/ pass[n - 1].active = <<>> THEN pass[n - 1]
            ELSE Pass(counts, pass[n - 1])
    IN  pass[total].quotas

\* interleave_by_owner: one of each group in turn.
interleave_by_owner(buckets) ==
    LET depth == Max({0} \cup {Len(buckets[i]) : i \in DOMAIN buckets})
        Layer(d) == LET deep == SelectSeq(buckets, LAMBDA b : Len(b) >= d)
                    IN  [i \in DOMAIN deep |-> deep[i][d]]
    IN  FlattenSeq([d \in 1..depth |-> Layer(d)])
=============================================================================
