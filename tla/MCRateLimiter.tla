---------------------------- MODULE MCRateLimiter ----------------------------
(* A steady client and one that meets outages and colliding members.  The   *)
(* clock runs for more than two windows.                                    *)
EXTENDS RateLimiter

CONSTANTS steady, unlucky

MCKeys == {steady, unlucky}
MCUnlucky == {unlucky}
=============================================================================
