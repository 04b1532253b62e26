---------------------------- MODULE MouseQueueMC ----------------------------
(* MouseQueue with two local checks, a remote one and one with a cookie. *)
EXTENDS MouseQueue

CONSTANTS l1, l2, r1, c1

SomeClasses ==
    [t \in Tasks |-> IF t \in {l1, l2} THEN "local"
                     ELSE IF t = c1 THEN "remote_cookie" ELSE "remote"]

\* The default 1:1, 2:1, and a side switched off.
SomeRatios ==
    {[local |-> l, remote |-> r] : <<l, r>> \in {<<1, 1>>, <<2, 1>>, <<0, 1>>}}
=============================================================================
