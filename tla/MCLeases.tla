------------------------------ MODULE MCLeases ------------------------------
(* Small instances of the lease table for TLC. *)
EXTENDS Leases

CONSTANTS n1, n2, j1, j2, j3

MkAsk(who, long, ttl) == [who |-> who, long |-> long, ttl |-> ttl]

\* A malformed request, the default TTL and two of the caller's own.
TwoNames == {MkAsk(n1, FALSE, 0), MkAsk(n2, FALSE, 2), MkAsk(n1, TRUE, 1)}
OneName  == {MkAsk(n1, FALSE, 1), MkAsk(n1, FALSE, 3)}
\* Names that pass on while descriptors are inherited; holders that write and callers
\* whose ticks empty the table; a daemon short of threads that is restarted.
Troubles == {{"release", "inherit"}, {"write", "caller"}, {"starve", "restart"}}
=============================================================================
