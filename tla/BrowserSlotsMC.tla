--------------------------- MODULE BrowserSlotsMC ---------------------------
(* BrowserSlots with two accounts. *)
EXTENDS BrowserSlots, TLC

CONSTANTS check, refresh, http1, http2, panel, shop, other

\* A slider check of another account; a token refresh, two requests and the web
\* panel log in to the shop's.
ShopAccountOf == [t \in Tasks |-> IF t = check THEN other ELSE shop]

Symmetry == Permutations({http1, http2})
=============================================================================
