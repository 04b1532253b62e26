--------------------------- MODULE SettlementMC ---------------------------
(* Settlement on small instances: an owner, two dealers, one card. *)
EXTENDS Settlement, TLC

CONSTANTS t1, t2, t3

\* The owner is user 2, the level 1 dealer user 3, the level 2 dealer user 1:
\* the order of a settlement's legs is not the ascending order of ids.
Sale(kind, level, payer, data) ==
    [kind |-> kind, level |-> level, owner |-> 2,
     dealer |-> IF level = 1 THEN 3 ELSE 1, level1 |-> 3,
     payer |-> payer, amount |-> 1, data |-> data]
Account(kind, user, amount) ==
    [kind |-> kind, level |-> 1, owner |-> user, dealer |-> user, level1 |-> user,
     payer |-> "none", amount |-> amount, data |-> FALSE]

SomeOrders  == {Sale("order", 1, "dealer", TRUE), Sale("order", 2, "distributor", FALSE)}
SomePickups == {Sale("pickup", 1, "dealer", FALSE), Sale("pickup", 2, "distributor", TRUE),
                Sale("pickup", 1, "none", FALSE)}
Accounts    == {Account("withdraw", 3, 2), Account("income", 2, 1)}

LedgerDeals ==
    (t1 :> SomeOrders) @@ (t2 :> SomePickups) @@ (t3 :> SomeOrders \cup SomePickups \cup Accounts)
LedgerOpening == (1 :> 5) @@ (2 :> 1) @@ (3 :> 4)

\* Two dock records of one card.
TwoPickups ==
    (t1 :> {Sale("pickup", 1, "dealer", TRUE)}) @@ (t2 :> {Sale("pickup", 2, "dealer", TRUE)})
    @@ (t3 :> Accounts)

FewCodes == <<"c1", "c2">>
CodeSet == {"c1", "c2"}
=============================================================================
