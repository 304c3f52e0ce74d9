---------------------------- MODULE LeasePromise ----------------------------
(* What a lease promises ([FACT-13], [FACT-15]): a name is held by one job at *)
(* a time; a lease ends because its time is up, because its descriptor was     *)
(* closed, because somebody released the name, or because the daemon died, and *)
(* never for any other reason; a job that has had its lease never gets it back.*)
EXTENDS FiniteSets

CONSTANTS Names, Jobs, Nobody

VARIABLES
    causes,   \* what may end a lease besides its holder: "release", "restart"
    held,     \* who holds each name
    served,   \* the jobs that have been granted a lease
    over      \* those among them whose time is up or whose descriptor is closed

promise == <<causes, held, served, over>>

PromiseOK ==
    /\ causes \subseteq {"release", "restart"}
    /\ held \in [Names -> Jobs \cup {Nobody}]
    /\ served \subseteq Jobs /\ over \subseteq served

Init ==
    /\ causes \in SUBSET {"release", "restart"}
    /\ held = [n \in Names |-> Nobody]
    /\ served = {} /\ over = {}

\* A job that is gone before it is answered is granted a lease that is over.
Grant(n, j) ==
    /\ held[n] = Nobody /\ j \notin served
    /\ held' = [held EXCEPT ![n] = j]
    /\ served' = served \cup {j}
    /\ over' \in {over, over \cup {j}}
    /\ UNCHANGED causes

\* Time passes, holders go away: what is over stays over.
Ends ==
    /\ over \subseteq over' /\ over' \subseteq served
    /\ UNCHANGED <<causes, held, served>>

Reap ==
    /\ \E S \in SUBSET Names :
          /\ \A n \in S : held[n] \in over
          /\ held' = [n \in Names |-> IF n \in S THEN Nobody ELSE held[n]]
    /\ UNCHANGED <<causes, served, over>>

Release(n) ==
    /\ "release" \in causes /\ held[n] # Nobody
    /\ held' = [held EXCEPT ![n] = Nobody]
    /\ UNCHANGED <<causes, served, over>>

Crash ==
    /\ "restart" \in causes
    /\ held' = [n \in Names |-> Nobody]
    /\ UNCHANGED <<causes, served, over>>

Next ==
    \/ \E n \in Names, j \in Jobs : Grant(n, j)
    \/ Ends \/ Reap \/ Crash
    \/ \E n \in Names : Release(n)

Spec == Init /\ [][Next]_promise
=============================================================================
