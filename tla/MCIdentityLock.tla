--------------------------- MODULE MCIdentityLock ---------------------------
(* A reader, a writer and a thread that does both: two writers can keep     *)
(* each other and a reader waiting, and two readers can find one writer     *)
(* announced, only one of them inside.  Two groups, so that a writer has a  *)
(* place between two look-ups; the writers leave the user in one of them,   *)
(* so that none and both are answers of no single moment.                   *)
EXTENDS IdentityLock

CONSTANTS reader, both, scribe, g1, g2

MCUpdate == {{g1}, {g2}}
=============================================================================
