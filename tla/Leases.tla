------------------------------- MODULE Leases -------------------------------
(***************************************************************************)
(* "I am working, do not sleep": the lease table (leases.rs), the handlers  *)
(* that fill and empty it (manager.rs), the thread that watches each        *)
(* holder's pipe, and as much of the main loop as a lease needs to be       *)
(* noticed: the lock a tick holds, the poke and the timer.                  *)
(*                                                                          *)
(* Nothing else wakes the loop here: a lease on suspend = "never" leaves no *)
(* deadline, so whatever ends a lease must be noticed by its own means.     *)
(***************************************************************************)
EXTENDS Integers, FiniteSets

CONSTANTS
    Names,                 \* identifiers, trimmed
    Blank,                 \* an identifier that trims to nothing
    Jobs,                  \* the processes that ask for a lease, once each
    Nobody,
    Asks,                  \* what they ask: AskType
    DEFAULT_TTL, MAX_TTL, WAKE_CAPACITY,
    Sites,                 \* what may happen to a daemon, sets of AllDisturbances
    MaxWritten,            \* BOUND: the bytes a holder writes into its descriptor
    MaxTime                \* BOUND

AllDisturbances == {"release", "inherit", "write", "starve", "restart", "caller"}

\* long: who or why is longer than MAX_TEXT.
AskType == [who : Names \cup {Blank}, long : BOOLEAN, ttl : Nat]

ASSUME LeaseConstants ==
    /\ Nobody \notin Jobs /\ Blank \notin Names
    /\ IsFiniteSet(Names)
    /\ Asks \subseteq AskType
    /\ DEFAULT_TTL \in Nat \ {0} /\ MAX_TTL \in Nat /\ WAKE_CAPACITY \in Nat \ {0}
    /\ Sites \subseteq SUBSET AllDisturbances
    /\ MaxWritten \in Nat /\ MaxTime \in Nat

VARIABLES
    may,        \* what may happen to this daemon
    now,
    table,      \* name -> the lease held under it
    call,       \* job -> what it asked, how far the call has got, when its lease ends
    alive,      \* the jobs whose process runs
    ends,       \* job -> open write ends of its lease's pipe
    written,    \* job -> bytes written into it
    taken,      \* job -> bytes the table has read out of it
    parked,     \* the jobs whose pipe a watcher thread is blocked on
    locked,     \* the loop holds the engine: a tick is in progress
    loop,       \* "tick", "arm" or "wait"
    timer,      \* when the loop's timer fires, or NoTimer
    wake        \* pokes queued for the loop

pipes   == <<ends, written, taken>>
looping == <<locked, loop, timer, wake>>
vars    == <<may, now, table, call, alive, pipes, parked, looping>>

-----------------------------------------------------------------------------

NoTimer == -1
NoLease == [job |-> Nobody, expires |-> 0]
NoAsk   == [who |-> Blank, long |-> FALSE, ttl |-> 0]
NoCall  == [stage |-> "none", ask |-> NoAsk, at |-> 0]
Refusal == [stage |-> "refused", ask |-> NoAsk, at |-> 0]

LeaseType == [job : Jobs, expires : Nat]
CallType  ==
    [stage : {"none", "asking", "refused", "granted"}, ask : AskType, at : Nat]

\* Every variable keeps its type: among others the timer is armed or not, and the
\* table has taken no more bytes than were written.
TypeOK ==
    /\ may \in Sites /\ now \in Nat
    /\ table \in [Names -> LeaseType \cup {NoLease}]
    /\ call \in [Jobs -> CallType]
    /\ alive \subseteq Jobs
    /\ ends \in [Jobs -> 0 .. 2]
    /\ written \in [Jobs -> Nat] /\ taken \in [Jobs -> Nat]
    /\ \A j \in Jobs : taken[j] <= written[j]
    /\ parked \subseteq Jobs
    /\ locked \in BOOLEAN
    /\ loop \in {"tick", "arm", "wait"}
    /\ timer \in Nat \cup {NoTimer}
    /\ wake \in 0 .. WAKE_CAPACITY

May(d) == d \in may
Held(n) == table[n] # NoLease
Poked  == IF wake < WAKE_CAPACITY THEN wake + 1 ELSE wake
Unread(j) == written[j] > taken[j]
Served == {j \in Jobs : call[j].stage = "granted"}

\* A TTL of zero asks for the default.
TtlOf(ask) == IF ask.ttl = 0 THEN DEFAULT_TTL ELSE ask.ttl

\* The clock is read when the call arrives, before the wait for the lock.
ExpiresOf(j) == call[j].at + TtlOf(call[j].ask)

-----------------------------------------------------------------------------
(* Table::acquire and the handler around it. *)

Malformed(ask) == ask.who = Blank \/ ask.long \/ ask.ttl > MAX_TTL

\* The call has passed polkit and waits for the engine.
Ask(j, ask) ==
    /\ call[j].stage = "none" /\ j \in alive
    /\ call' = [call EXCEPT ![j] = [stage |-> "asking", ask |-> ask, at |-> now]]
    /\ UNCHANGED <<may, now, table, alive, pipes, parked, looping>>

\* A name that is in the table is taken, whatever has become of its lease.
Acceptable(j) ==
    /\ call[j].stage = "asking" /\ ~locked
    /\ ~Malformed(call[j].ask)
    /\ ~Held(call[j].ask.who)

Granted(j) == [table EXCEPT ![call[j].ask.who] = [job |-> j, expires |-> ExpiresOf(j)]]

\* Mutant: nobody tells the loop of a lease it has no timer for.
GrantUnannounced(j) ==
    /\ Acceptable(j)
    /\ table' = Granted(j)
    /\ call' = [call EXCEPT ![j].stage = "granted"]
    /\ ends' = [ends EXCEPT ![j] = IF j \in alive THEN 1 ELSE 0]
    /\ parked' = parked \cup {j}
    /\ UNCHANGED <<may, now, alive, written, taken, locked, loop, timer, wake>>

\* A caller that died waiting never receives the write end, which closes with the reply.
Grant(j) ==
    /\ Acceptable(j)
    /\ table' = Granted(j)
    /\ call' = [call EXCEPT ![j].stage = "granted"]
    /\ ends' = [ends EXCEPT ![j] = IF j \in alive THEN 1 ELSE 0]
    /\ parked' = parked \cup {j}
    /\ wake' = Poked
    /\ UNCHANGED <<may, now, alive, written, taken, locked, loop, timer>>

\* Mutant: a lease nothing watches is handed out of the table and stays in it.
GrantUnwatchedKept(j) ==
    /\ May("starve") /\ Acceptable(j)
    /\ table' = Granted(j)
    /\ call' = [call EXCEPT ![j] = Refusal]
    /\ UNCHANGED <<may, now, alive, pipes, parked, looping>>

\* No thread to watch it with: the lease is taken back and the call refused.
GrantUnwatched(j) ==
    /\ May("starve") /\ Acceptable(j)
    /\ table' = [Granted(j) EXCEPT ![call[j].ask.who] = NoLease]
    /\ call' = [call EXCEPT ![j] = Refusal]
    /\ UNCHANGED <<may, now, alive, pipes, parked, looping>>

\* Refused for what it asks, for the name, or for want of descriptors.
Refuse(j) ==
    /\ call[j].stage = "asking" /\ ~locked
    /\ Malformed(call[j].ask) \/ Held(call[j].ask.who) \/ May("starve")
    /\ call' = [call EXCEPT ![j] = Refusal]
    /\ UNCHANGED <<may, now, table, alive, pipes, parked, looping>>

\* By name, whoever asks and whoever holds it.
Release(n) ==
    /\ May("release") /\ ~locked /\ Held(n)
    /\ table' = [table EXCEPT ![n] = NoLease]
    /\ wake' = Poked
    /\ UNCHANGED <<may, now, call, alive, pipes, parked, locked, loop, timer>>

-----------------------------------------------------------------------------
(* Table::reap, in every evaluation. *)

\* Mutant: bytes the holder wrote count as its end.
ReleasedByData(j) == ends[j] = 0 \/ Unread(j)

\* The read returns end-of-file.
Released(j) == ends[j] = 0 /\ ~Unread(j)

Dropped(n) == Held(n) /\ (now >= table[n].expires \/ Released(table[n].job))

\* Mutant: a byte is taken for read where there was none.
TappedBlindly(j) == \E n \in Names : Held(n) /\ table[n].job = j /\ now < table[n].expires

\* A lease that is not expired has one byte read out of its pipe.
Tapped(j) == \E n \in Names : Held(n) /\ table[n].job = j /\ now < table[n].expires /\ Unread(j)

Reap ==
    /\ table' = [n \in Names |-> IF Dropped(n) THEN NoLease ELSE table[n]]
    /\ taken' = [j \in Jobs |-> IF Tapped(j) THEN taken[j] + 1 ELSE taken[j]]

-----------------------------------------------------------------------------
(* The loop, the callers' ticks and the watchers. *)

LoopTick ==
    /\ loop = "tick" /\ ~locked
    /\ locked' = TRUE
    /\ Reap
    /\ UNCHANGED <<may, now, call, alive, ends, written, parked, loop, timer, wake>>

\* The second evaluation of a tick that found something due.
Reevaluate ==
    /\ loop = "tick" /\ locked
    /\ Reap
    /\ UNCHANGED <<may, now, call, alive, ends, written, parked, looping>>

LoopUnlock ==
    /\ locked
    /\ locked' = FALSE /\ loop' = "arm"
    /\ UNCHANGED <<may, now, table, call, alive, pipes, parked, timer, wake>>

Expiries == {table[n].expires : n \in {m \in Names : Held(m)}}
WaitUntil(at) == IF at <= now THEN 1 ELSE at - now

\* Mutant: the loop waits for events only, as the policy's deadlines would have it.
LoopArmWithoutLeases ==
    /\ loop = "arm" /\ ~locked
    /\ timer' = NoTimer /\ loop' = "wait"
    /\ UNCHANGED <<may, now, table, call, alive, pipes, parked, locked, wake>>

\* next_wakeup: the earliest expiry, no sooner than the floor under a wait.
LoopArm ==
    /\ loop = "arm" /\ ~locked
    /\ \/ Expiries = {} /\ timer' = NoTimer
       \/ \E at \in Expiries :
             /\ \A other \in Expiries : at <= other
             /\ timer' = now + WaitUntil(at)
    /\ loop' = "wait"
    /\ UNCHANGED <<may, now, table, call, alive, pipes, parked, locked, wake>>

LoopTimer ==
    /\ loop = "wait" /\ timer # NoTimer /\ now >= timer
    /\ loop' = "tick" /\ timer' = NoTimer
    /\ UNCHANGED <<may, now, table, call, alive, pipes, parked, locked, wake>>

LoopWake ==
    /\ loop = "wait" /\ wake > 0
    /\ loop' = "tick" /\ timer' = NoTimer /\ wake' = wake - 1
    /\ UNCHANGED <<may, now, table, call, alive, pipes, parked, locked>>

\* Rest, RestPending and RestForced tick too, and arm nothing.
CallerTick ==
    /\ May("caller") /\ ~locked
    /\ Reap
    /\ UNCHANGED <<may, now, call, alive, ends, written, parked, looping>>

\* Mutant: a watcher that was woken does not say so.
WatchSilently(j) ==
    /\ j \in parked /\ (ends[j] = 0 \/ Unread(j))
    /\ parked' = parked \ {j}
    /\ UNCHANGED <<may, now, table, call, alive, pipes, looping>>

\* poll returns when the pipe is readable: at its end, and when there is a byte.
Watch(j) ==
    /\ j \in parked /\ (ends[j] = 0 \/ Unread(j))
    /\ parked' = parked \ {j}
    /\ wake' = Poked
    /\ UNCHANGED <<may, now, table, call, alive, pipes, locked, loop, timer>>

-----------------------------------------------------------------------------
(* The holders, time, and systemd. *)

\* The process exits or is killed, and its descriptor closes with it.
Exit(j) ==
    /\ j \in alive
    /\ alive' = alive \ {j}
    /\ ends' = [ends EXCEPT ![j] = IF @ = 0 THEN 0 ELSE @ - 1]
    /\ UNCHANGED <<may, now, table, call, written, taken, parked, looping>>

\* A child of the holder has inherited the descriptor, and closes it later.
Inherit(j) ==
    /\ May("inherit") /\ j \in alive /\ ends[j] = 1
    /\ ends' = [ends EXCEPT ![j] = 2]
    /\ UNCHANGED <<may, now, table, call, alive, written, taken, parked, looping>>

HeirCloses(j) ==
    /\ j \notin alive /\ ends[j] = 1
    /\ ends' = [ends EXCEPT ![j] = 0]
    /\ UNCHANGED <<may, now, table, call, alive, written, taken, parked, looping>>

Write(j) ==
    /\ May("write") /\ ends[j] > 0 /\ written[j] < MaxWritten
    /\ written' = [written EXCEPT ![j] = @ + 1]
    /\ UNCHANGED <<may, now, table, call, alive, ends, taken, parked, looping>>

LastTime == MaxTime + Cardinality(Jobs) * (MAX_TTL + 1)

\* Time stops at MaxTime unless the loop waits for its timer, and at LastTime.
TimePasses ==
    /\ now < MaxTime \/ (now < timer /\ now < LastTime)
    /\ now' = now + 1
    /\ UNCHANGED <<may, table, call, alive, pipes, parked, looping>>

\* The table dies with the daemon; the holders keep descriptors nobody reads.
Restart ==
    /\ May("restart")
    /\ table' = [n \in Names |-> NoLease]
    /\ call' = [j \in Jobs |-> IF call[j].stage = "asking"
                               THEN Refusal ELSE call[j]]
    /\ parked' = {}
    /\ locked' = FALSE /\ loop' = "tick" /\ timer' = NoTimer /\ wake' = 0
    /\ UNCHANGED <<may, now, alive, pipes>>

Init ==
    /\ may \in Sites /\ now = 0
    /\ table = [n \in Names |-> NoLease]
    /\ call = [j \in Jobs |-> NoCall]
    /\ alive = Jobs
    /\ ends = [j \in Jobs |-> 0]
    /\ written = [j \in Jobs |-> 0] /\ taken = [j \in Jobs |-> 0]
    /\ parked = {}
    /\ locked = FALSE /\ loop = "tick" /\ timer = NoTimer /\ wake = 0

Handler(j) ==
    \/ \E ask \in Asks : Ask(j, ask)
    \/ Grant(j) \/ GrantUnwatched(j) \/ Refuse(j)

LoopStep == LoopTick \/ LoopUnlock \/ LoopArm \/ LoopTimer \/ LoopWake

HolderStep(j) == Exit(j) \/ Inherit(j) \/ HeirCloses(j) \/ Write(j)

Next ==
    \/ \E j \in Jobs : Handler(j) \/ Watch(j) \/ HolderStep(j)
    \/ \E n \in Names : Release(n)
    \/ LoopStep \/ Reevaluate \/ CallerTick
    \/ TimePasses \/ Restart

Spec == Init /\ [][Next]_vars

\* The loop and the watchers are threads of a running process; time passes.
Fairness ==
    /\ WF_vars(LoopStep)
    /\ \A j \in Jobs : WF_vars(Watch(j))
    /\ WF_vars(TimePasses)

FairSpec == Spec /\ Fairness

-----------------------------------------------------------------------------
(* Properties. *)

Over == {j \in Served : ends[j] = 0 \/ now >= ExpiresOf(j)}

Promise == INSTANCE LeasePromise WITH
    causes <- may \cap {"release", "restart"},
    held <- [n \in Names |-> table[n].job], served <- Served, over <- Over

\* The table implements the promise: one job to a name, and no lease ends but by
\* its time, its descriptor, a release of its name or the end of the daemon.
\* Names pass from job to job while watchers, pipes and descriptors of earlier
\* leases linger, and holders may write into theirs (Table::acquire, reap, release).
KeepsThePromise == Promise!Spec

HoldsALease(j) == \E n \in Names : table[n].job = j

\* A job told that it has no lease has none in the table, where it would hold the
\* machine awake with nobody to close it (acquire_lease when no watcher can start).
RefusedHoldsNothing == \A j \in Jobs : HoldsALease(j) => call[j].stage = "granted"

\* A loop that waits with nothing queued has a timer that reaches no further than
\* the first expiry, or than the floor under a wait (Table::next_expiry and the
\* pokes of acquire_lease).
TimerCoversEveryLease ==
    loop = "wait" /\ wake = 0 =>
        \A at \in Expiries : timer # NoTimer /\ (timer <= at \/ timer <= now + 1)

\* A lease whose time is up leaves the table though nothing else wakes the loop.
ExpiryIsNoticed ==
    \A j \in Jobs : (HoldsALease(j) /\ now >= ExpiresOf(j)) ~> ~HoldsALease(j)

\* A loop that waits with nothing queued waits for the watcher of every lease whose
\* last descriptor is closed, unless its holder wrote into it: the watcher outlives
\* refused calls, other leases of the name and the exit of the process
\* (watch_until_released; acquire_lease, which watches after the lease is in the table).
ClosingIsNoticed ==
    loop = "wait" /\ wake = 0 =>
        \A j \in Jobs :
            HoldsALease(j) /\ ends[j] = 0 /\ written[j] = 0 => j \in parked
=============================================================================
