---------------------------- MODULE CardHandout ----------------------------
(***************************************************************************)
(* What card delivery promises, whoever performs it: the codes of an order *)
(* are given out once, in one go, at most Qty of them, and a code is given *)
(* to one order only.                                                      *)
(***************************************************************************)
EXTENDS Naturals, FiniteSets

CONSTANTS Orders, Codes, Qty

VARIABLES
    given,      \* the codes given out for an order
    settled     \* the order has its codes, nothing more will be given

vars == <<given, settled>>

Init ==
    /\ given = [o \in Orders |-> {}]
    /\ settled = [o \in Orders |-> FALSE]

Give(o, c) ==
    /\ ~settled[o] /\ Cardinality(given[o]) < Qty
    /\ \A p \in Orders : c \notin given[p]
    /\ given' = [given EXCEPT ![o] = @ \cup {c}]
    /\ UNCHANGED settled

Settle(o) ==
    /\ given[o] # {} /\ ~settled[o]
    /\ settled' = [settled EXCEPT ![o] = TRUE]
    /\ UNCHANGED given

Next == \E o \in Orders : Settle(o) \/ \E c \in Codes : Give(o, c)

Spec == Init /\ [][Next]_vars

=============================================================================
