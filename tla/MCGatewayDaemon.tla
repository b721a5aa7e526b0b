--------------------------- MODULE MCGatewayDaemon ---------------------------
(* The daemon and write-env on a small instance.  Both floors are above what *)
(* they are the floor of: the daemon takes a lifetime for longer than it is, *)
(* and sleeps longer than lifetime and margin say.  The lifetime is the      *)
(* least that still leaves time for three refreshes of one unit each.        *)
EXTENDS GatewayDaemon

LongerThanTtl == Ttl + 1
WideSkew == LongerThanTtl - Floor + 1
LeastTtl == Floor + 3 * MaxRefresh + 1
=============================================================================
