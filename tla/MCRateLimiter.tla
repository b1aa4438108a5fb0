---------------------------- MODULE MCRateLimiter ----------------------------
(* A small instance of RateLimiter: one peer, one protocol whose quota     *)
(* divides evenly and one whose quota does not.                            *)
EXTENDS RateLimiter, TLC

CONSTANTS ping, range

Replenish == ping :> 4 @@ range :> 5
MaxTokens == ping :> 1 @@ range :> 2
=============================================================================
