--------------------------- MODULE ListingOrdersMC ---------------------------
(***************************************************************************)
(* A direct and a plain task of owner 1, whose account is often turned     *)
(* down, and a task of owner 2 find one item, the latter another one too;  *)
(* a round takes two rows, and one of a task.                              *)
(***************************************************************************)
EXTENDS ListingOrders

CONSTANTS direct, plain, other, item, another, well, sick

TwoOwners == 1..2
FourListings == {<<direct, item>>, <<plain, item>>, <<other, item>>, <<other, another>>}
OwnersOfTasks == direct :> 1 @@ plain :> 1 @@ other :> 2
AccountsOfTasks == direct :> {sick} @@ plain :> {sick} @@ other :> {well}

\* What allocate_owner_quotas is meant to give: all get up to the same level of water,
\* and the first of those who want more one of the rest.
Level(counts, total) ==
    Max({l \in 0..total : MapThenSumSet(LAMBDA k : Min({counts[k], l}), DOMAIN counts) <= total})
WaterFilling(groups, counts, total) ==
    LET l    == Level(counts, total)
        left == total - MapThenSumSet(LAMBDA k : Min({counts[k], l}), DOMAIN counts)
        more == SelectSeq(groups, LAMBDA k : counts[k] > l)
    IN  [k \in DOMAIN counts |->
            Min({counts[k], l}) + IF \E i \in 1..Min({left, Len(more)}) : more[i] = k THEN 1 ELSE 0]

ASSUME FairShareAssumption ==
    \A counts \in [1..3 -> 0..3], total \in 0..5, rotation \in 0..2 :
        LET groups == order_owner_ids(1..3, rotation)
        IN  allocate_owner_quotas(groups, counts, total) = WaterFilling(groups, counts, total)
=============================================================================
