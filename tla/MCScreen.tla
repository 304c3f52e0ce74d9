------------------------------ MODULE MCScreen ------------------------------
(* Small machines for TLC: which agents run in which session, and what fails. *)
EXTENDS Screen

CONSTANTS a1, a2, s1, s2, o1, o2

\* Agents of one session after each other, or one of each of two sessions.
InTurn   == [a \in Agents |-> s1]
Together == [a \in Agents |-> IF a = a1 THEN s1 ELSE s2]

MkSite(runs, sessions, x11, may) ==
    [runs |-> runs, session |-> sessions, x11 |-> x11, outputs |-> {o1}, may |-> may]

\* Two outputs, of which a blanker may know one.
Monitors == [MkSite({a1}, InTurn, {}, {}) EXCEPT !.outputs = {o1, o2}]

Machines ==
    [healthy  |-> MkSite({a1}, InTurn, {}, {}),
     monitors |-> Monitors,
     retried  |-> MkSite({a1}, InTurn, {}, {"fails"}),
     replaced |-> MkSite({a1, a2}, InTurn, {}, {"stop"}),
     partial  |-> MkSite({a1, a2}, Together, {a2}, {"fails"}),
     cables   |-> MkSite({a1}, InTurn, {}, {"hotplug"}),
     crashing |-> MkSite({a1, a2}, InTurn, {}, {"crash", "stop"}),
     midcall  |-> MkSite({a1}, InTurn, {}, {"midcall", "restart", "meddle"})]

\* One machine, for a run of its own.
Replaced == [replaced |-> Machines.replaced]
=============================================================================
