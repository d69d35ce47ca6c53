--------------------------- MODULE MCCacheStaleness ---------------------------
(***************************************************************************)
(* Two pods with one call each; the TTLs are scaled down to 3 and 2.       *)
(***************************************************************************)
EXTENDS CacheStaleness, TLC

CONSTANTS c1, c2, p1, p2

TwoPods == c1 :> p1 @@ c2 :> p2
=============================================================================
