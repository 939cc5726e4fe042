---------------------------- MODULE MCRateLimiter ----------------------------
(* A small limiter: two remote addresses, two events per window of three   *)
(* milliseconds, and a clock long enough for three windows.                *)
EXTENDS RateLimiter

MCKey == {"ip1", "ip2"}
MCLimit == 2
MCWindowMs == 3

=============================================================================
