---------------------------- MODULE MCRateLimiter ----------------------------
EXTENDS RateLimiter

CONSTANTS p1, p2

TwoLimits == [t \in Tier |-> IF t = "free" THEN 1 ELSE 2]

\* The limiter is built when the application is imported, and gunicorn.conf.py preloads
\* the application: the forked processes share the object's address.
SharedId == [p \in Proc |-> p1]
=============================================================================
