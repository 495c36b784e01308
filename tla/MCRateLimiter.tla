---------------------------- MODULE MCRateLimiter ---------------------------
(* Two sources compete for two buckets; a refill pass may last a tick.       *)
EXTENDS RateLimiter
=============================================================================
