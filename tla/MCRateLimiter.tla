--------------------------- MODULE MCRateLimiter ---------------------------
(* RateLimiter on small sets of clients and requests.                      *)
EXTENDS RateLimiter, TLC

=============================================================================
