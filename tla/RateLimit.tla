------------------------------ MODULE RateLimit ------------------------------
(***************************************************************************)
(* The limiter of app/core/ratelimit.py: per bucket, the times of the      *)
(* requests admitted lately, in the memory of one process.                 *)
(***************************************************************************)
EXTENDS Naturals, Sequences

Limit == [max_requests : Nat \ {0}, window_seconds : Nat \ {0}]

\* The hits that still count.  A request is admitted while fewer than max_requests do.
InWindow(hits, limit, now) ==
    SelectSeq(hits, LAMBDA t : now - t < limit.window_seconds)

Admits(hits, limit, now) == Len(InWindow(hits, limit, now)) < limit.max_requests

Recorded(hits, limit, now) == Append(InWindow(hits, limit, now), now)
===============================================================================
