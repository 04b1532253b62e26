-------------------------- MODULE OrderDeliveryMC --------------------------
(* OrderDelivery on small instances: one account, a few flows. *)
EXTENDS OrderDelivery, TLC

\* Codes, handlers and requests are interchangeable.
Symmetry == Permutations(Codes) \cup Permutations(Autos) \cup Permutations(Calls)

Always == {TRUE}
Never  == {FALSE}
Both   == {TRUE, FALSE}

=============================================================================
