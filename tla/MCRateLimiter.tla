--------------------------- MODULE MCRateLimiter ---------------------------
(* Model-checking instances of RateLimiter.                                *)
EXTENDS RateLimiter, TLC

\* Requests, buckets and chats are interchangeable; used by safety runs only.
Symm == Permutations(Requests) \cup Permutations(Buckets)
=============================================================================
