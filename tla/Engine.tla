------------------------------- MODULE Engine -------------------------------
(***************************************************************************)
(* idlepolicyd: the decision loop (engine.rs, main.rs), the requests a      *)
(* caller may make of it (manager.rs, pending.rs), resume detection         *)
(* (clock.rs), and the machine around it: logind, sleeping and waking, the  *)
(* facts the detectors read, the human and the session agent.               *)
(*                                                                          *)
(* One Mutex guards the engine.  A tick holds it from the first evaluation  *)
(* to logind's answer, so handlers never interleave with a tick, but the    *)
(* machine does: a tick is three steps (begin, confirm, issue) between      *)
(* which time passes, facts change, somebody touches a key or the machine   *)
(* goes to sleep.  Variable op is the tick in progress.                     *)
(*                                                                          *)
(* The sleep half of a tick is modelled here.  Its screen half              *)
(* (apply_screen, observe_screen) shares nothing with it but the decision,  *)
(* and the dry_run switch, with which nothing is ever issued, is off.       *)
(***************************************************************************)
EXTENDS Policy, Sequences

CONSTANTS
    Sites,               \* the machines to look at: a function from names to SiteType
    POLLED,              \* the facts only a poll notices changing
    TTLs,                \* the time to live of a held request
    LeaseTTLs,           \* the time to live of a lease
    HEARTBEAT_MAX_AGE, SWEEP_INTERVAL, TRANSITION_TIMEOUT, WAKE_CAPACITY,
    MaxSignals,          \* BOUND: sleep announcements not yet read
    Prompt               \* BOUND: a daemon that is awake takes no time over its steps

AllDisturbances ==
    {"facts", "human", "rest", "pending", "force", "lease", "release", "reload", "refuse",
     "abandon", "external", "direct", "restart"}

\* A machine: the configurations a start or a Reload may read, whether it has a
\* graphical session, what its environment may do, and which actions a caller names.
\* BOUNDS: facts stop changing after lastEvent, and time stops at maxTime.
SiteType ==
    [policies : SUBSET PolicyType, seat : BOOLEAN, may : SUBSET AllDisturbances,
     requests : SUBSET Actions, lastEvent : Instant, maxTime : Instant]

ASSUME EngineConstants ==
    /\ \A s \in DOMAIN Sites : Sites[s] \in SiteType
    /\ POLLED \subseteq FactId
    /\ TTLs \subseteq Nat \ {0} /\ LeaseTTLs \subseteq Nat \ {0}
    /\ {HEARTBEAT_MAX_AGE, SWEEP_INTERVAL, TRANSITION_TIMEOUT, WAKE_CAPACITY}
          \subseteq Nat \ {0}
    /\ MaxSignals \in Nat /\ Prompt \in BOOLEAN
    /\ "lease_held" \in FactId

VARIABLES
    (* the machine *)
    site,         \* which machine this is
    now,          \* CLOCK_BOOTTIME
    asleepFor,    \* how much of it was spent suspended: BOOTTIME - MONOTONIC
    woke,         \* when the machine last woke, or NotYet
    power,        \* "on", "preparing" (logind accepted), "asleep", "slept" (unannounced), "off"
    signals,      \* PrepareForSleep announcements the loop has not read; TRUE starts a sleep
    world,        \* what is really true of every fact a detector looks at
    touched,      \* when a human last used the seat, Unreadable before anybody did
    (* history: what became of the last transition logind accepted from the daemon *)
    standing,     \* a Standing
    accepted,     \* when the daemon issued it; None when nothing stands
    (* what the bus has told the daemon *)
    agent,        \* the session agent's last report
    lease,        \* the lease in the table
    (* the engine *)
    policy, readings, edges, resume, clocks, decision, pending, inFlight,
    op,           \* the tick in progress
    (* the main loop *)
    loop,         \* "tick", "arm" or "wait"
    event,        \* what next_event last returned
    timer,        \* when the armed timer fires, on CLOCK_MONOTONIC
    wake          \* pokes queued for the loop

machine == <<site, now, asleepFor, woke, power, signals, world, touched, standing,
             accepted>>
sampled == <<agent, lease, readings, edges, resume, clocks, decision>>
looping == <<loop, event, timer, wake>>
vars    == <<machine, sampled, policy, pending, inFlight, op, looping>>

-----------------------------------------------------------------------------
(* Values. *)

None == -1

DaemonFacts == {"human_active", "after_resume", "lease_held"}
WorldFacts  == FactId \ DaemonFacts

NoAgent == [there |-> FALSE, origin |-> Unreadable, last_report |-> 0]
NoLease == [expires |-> None, open |-> FALSE]
NoPending == [action |-> "none", expires_at |-> 0, human_origin |-> NotYet]
NoDecision == [now |-> 0, deadline |-> [a \in Actions |-> Never], requested |-> "none"]
Idle == [by |-> "none", stage |-> "idle", request |-> NoRequest, action |-> "none", ttl |-> 0]

AgentType   == [there : BOOLEAN, origin : Origin, last_report : Instant]
LeaseType   == [expires : None .. MaxInstant, open : BOOLEAN]
PendingType == [action : Requestable, expires_at : Instant, human_origin : Origin]
ResumeType  == [seen : Nat, last_resume : NotYet .. MaxInstant, resumed_this_boot : BOOLEAN]
Caller      == {"none", "loop", "rest", "rest_pending", "rest_forced"}
OpType      == [by : Caller, stage : {"idle", "confirm", "issue"}, request : Request,
                action : Requestable, ttl : Nat]

\* "guarded": logind carries it out, and the daemon knows; "overtaken": accepted
\* while the announcement of an older resume was unread; "forgotten": the daemon was
\* restarted while logind carried it out; "dropped": logind gave it up and said nothing.
Standing == {"none", "guarded", "overtaken", "forgotten", "dropped"}

Policies  == Sites[site].policies
HasSeat   == Sites[site].seat
Requests  == Sites[site].requests
LastEvent == Sites[site].lastEvent
MaxTime   == Sites[site].maxTime
May(d)    == d \in Sites[site].may

MachineOK ==
    /\ site \in DOMAIN Sites
    /\ now \in Instant /\ asleepFor \in Nat /\ asleepFor <= now
    /\ woke \in NotYet .. MaxInstant
    /\ power \in {"on", "preparing", "asleep", "slept", "off"}
    /\ signals \in Seq(BOOLEAN)
    /\ world \in [WorldFacts -> FactState]
    /\ touched \in Origin
    /\ standing \in Standing /\ accepted \in None .. MaxInstant

SampledOK ==
    /\ agent \in AgentType
    /\ lease \in LeaseType
    /\ readings \in [FactId -> FactState]
    /\ edges \in Edges
    /\ resume \in ResumeType
    /\ clocks \in ClockSnapshot
    /\ decision \in Decision

EngineOK ==
    /\ policy \in Policies
    /\ pending \in PendingType
    /\ inFlight \in None .. MaxInstant
    /\ op \in OpType

LoopOK ==
    /\ loop \in {"tick", "arm", "wait"}
    /\ event \in {"none", "timer", "wake", "sleep_start", "resume"}
    /\ timer \in Int
    /\ wake \in 0 .. WAKE_CAPACITY

\* Every variable keeps its type; a full wake channel takes no more pokes.
TypeOK == MachineOK /\ SampledOK /\ EngineOK /\ LoopOK

Awake == power \in {"on", "preparing"}

\* Mutant: the channel has no capacity.
PokedUnbounded == wake + 1

\* Every sender uses try_send: a full channel already holds a wake-up.
Poked == IF wake < WAKE_CAPACITY THEN wake + 1 ELSE wake

-----------------------------------------------------------------------------
(* Resume detection (clock.rs). *)

Adopted ==
    [seen |-> asleepFor,
     last_resume |-> IF asleepFor > 0 THEN now ELSE NotYet,
     resumed_this_boot |-> asleepFor > 0]

\* Mutant: only an announced resume counts.
SampledResumeNever == resume

\* One unit of time is at least RESUME_EPSILON.
SampledResume ==
    IF asleepFor > resume.seen
    THEN [seen |-> asleepFor, last_resume |-> now, resumed_this_boot |-> TRUE]
    ELSE resume

AnnouncedResume ==
    [seen |-> asleepFor, last_resume |-> now, resumed_this_boot |-> TRUE]

-----------------------------------------------------------------------------
(* One evaluation: reap, read every fact, move the edges, resolve. *)

StaleAgent == agent.there /\ now - agent.last_report > HEARTBEAT_MAX_AGE
ReapedAgent == IF StaleAgent THEN NoAgent ELSE agent

LeaseOver == lease.expires # None /\ (now >= lease.expires \/ ~lease.open)
ReapedLease == IF LeaseOver THEN NoLease ELSE lease

\* Registry::human, for one seat.  Idle time is now minus the reported origin.
HumanOrigin ==
    IF ReapedAgent.there THEN ReapedAgent.origin
    ELSE IF HasSeat THEN Unreadable ELSE NotYet

HumanActive ==
    CASE Known(HumanOrigin) ->
            IF now - HumanOrigin < policy.min_idle THEN "true" ELSE "false"
      [] HumanOrigin = NotYet     -> "false"
      [] HumanOrigin = Unreadable -> "indeterminate"

Read(f) ==
    CASE f \notin policy.facts -> "unavailable"
      [] f \in policy.facts /\ f = "human_active" -> HumanActive
      [] f \in policy.facts /\ f = "after_resume" ->
            IF SampledResume.resumed_this_boot THEN "true" ELSE "false"
      [] f \in policy.facts /\ f = "lease_held" ->
            IF ReapedLease.expires # None THEN "true" ELSE "false"
      [] f \in policy.facts /\ f \in WorldFacts -> world[f]

Facts == [f \in FactId |-> Read(f)]

Snapshot == [now |-> now, human_input |-> HumanOrigin, resume |-> SampledResume.last_resume]

Resolved(request) ==
    ResolveRequest([policy |-> policy, facts |-> Facts, clocks |-> Snapshot,
                    edges |-> Observe(edges, policy, Facts, now), request |-> request])

EvaluateStep(request) ==
    /\ agent'    = ReapedAgent
    /\ lease'    = ReapedLease
    /\ readings' = Facts
    /\ edges'    = Observe(edges, policy, Facts, now)
    /\ resume'   = SampledResume
    /\ clocks'   = Snapshot
    /\ decision' = Resolved(request)

-----------------------------------------------------------------------------
(* Held requests (pending.rs). *)

Expired(p, clock) == clock.now >= p.expires_at

HumanArrived(p, clock) ==
    Known(p.human_origin) /\ Known(clock.human_input) /\ clock.human_input > p.human_origin

\* resolve_pending runs before the evaluation: the clocks it compares with are
\* the ones the previous evaluation left.
Dropped == pending # NoPending /\ (Expired(pending, clocks) \/ HumanArrived(pending, clocks))
Held    == IF Dropped THEN NoPending ELSE pending

Effective(request) ==
    IF Held # NoPending /\ request.requested = "none" /\ request.force = "none"
    THEN [now |-> TRUE, force |-> "none", requested |-> Held.action]
    ELSE request

\* A time to live that overflows leaves the request expired at once.
HoldUntil(at, ttl) == IF at + ttl > MaxInstant THEN at ELSE at + ttl

\* What the caller does with the answer: RestPending records a request that was
\* not carried out, against the clocks of the last evaluation.
AfterAnswer(by, asked, ttl, performed, clock, held) ==
    IF by = "rest_pending" /\ performed # asked
    THEN [action |-> asked, expires_at |-> HoldUntil(clock.now, ttl),
          human_origin |-> clock.human_input]
    ELSE held

ReturnTo(by) == IF by = "loop" THEN "arm" ELSE loop

-----------------------------------------------------------------------------
(* Engine::tick in three steps. *)

Finish(by, asked, ttl, performed, clock, held) ==
    /\ op' = Idle
    /\ pending' = AfterAnswer(by, asked, ttl, performed, clock, held)
    /\ loop' = ReturnTo(by)

\* resolve_pending and the first evaluation.
Begin(by, explicit, ttl) ==
    LET request == Effective(explicit)
        action  == ActionToPerform(Resolved(request))
    IN  /\ op.stage = "idle" /\ Awake
        /\ EvaluateStep(request)
        /\ \/ /\ action = "none"
              /\ Finish(by, explicit.requested, ttl, "none", Snapshot, Held)
           \/ /\ action # "none"
              /\ op' = [by |-> by, stage |-> "confirm", request |-> request,
                        action |-> action, ttl |-> ttl]
              /\ pending' = Held
              /\ loop' = loop
        /\ UNCHANGED <<machine, policy, inFlight, event, timer, wake>>

\* Mutant: the guard waits for the timeout instead of up to it.
GuardIsSetLate == inFlight # None /\ now - inFlight > TRANSITION_TIMEOUT

GuardIsSet == inFlight # None /\ now - inFlight < TRANSITION_TIMEOUT

\* Mutant: what the first evaluation decided is issued.
ConfirmBlindly ==
    /\ op.stage = "confirm" /\ Awake
    /\ ~GuardIsSet
    /\ op' = [op EXCEPT !.stage = "issue"]
    /\ inFlight' = now
    /\ UNCHANGED <<machine, sampled, policy, pending, looping>>

\* The transition guard, then the second evaluation.
Confirm ==
    LET action == ActionToPerform(Resolved(op.request))
        asked  == op.request.requested
    IN  /\ op.stage = "confirm" /\ Awake
        /\ \/ /\ GuardIsSet
              /\ Finish(op.by, asked, op.ttl, "none", clocks, pending)
              /\ UNCHANGED <<sampled, inFlight>>
           \/ /\ ~GuardIsSet
              /\ EvaluateStep(op.request)
              /\ \/ /\ action = "none"
                    /\ Finish(op.by, asked, op.ttl, "none", Snapshot, pending)
                    /\ inFlight' = None
                 \/ /\ action # "none"
                    /\ op' = [op EXCEPT !.stage = "issue", !.action = action]
                    /\ inFlight' = now
                    /\ UNCHANGED <<pending, loop>>
        /\ UNCHANGED <<machine, policy, event, timer, wake>>

ResumeUnread == \E i \in 1 .. Len(signals) : signals[i] = FALSE

\* logind answers Ok: the guard stays set, a held request for it is honoured.
Accept ==
    /\ op.stage = "issue" /\ power = "on" /\ Len(signals) < MaxSignals
    /\ power' = IF op.action = "poweroff" THEN "off" ELSE "preparing"
    /\ signals' = Append(signals, TRUE)
    /\ accepted' = inFlight
    /\ standing' = IF ResumeUnread THEN "overtaken" ELSE "guarded"
    /\ Finish(op.by, op.request.requested, op.ttl, op.action, clocks,
              IF pending.action = op.action THEN NoPending ELSE pending)
    /\ UNCHANGED <<site, now, asleepFor, woke, world, touched, sampled, policy, inFlight,
                   event, timer, wake>>

\* logind answers Err: always when it is carrying out another transition.
Refuse ==
    /\ op.stage = "issue" /\ Awake
    /\ power = "preparing" \/ May("refuse")
    /\ inFlight' = None
    /\ Finish(op.by, op.request.requested, op.ttl, "none", clocks, pending)
    /\ UNCHANGED <<machine, sampled, policy, event, timer, wake>>

-----------------------------------------------------------------------------
(* The methods of the manager (manager.rs). *)

Rest(a) ==
    /\ May("rest")
    /\ Begin("rest", [now |-> TRUE, force |-> "none", requested |-> a], 0)

RestPending(a, ttl) ==
    /\ May("pending")
    /\ Begin("rest_pending", [now |-> TRUE, force |-> "none", requested |-> a], ttl)

RestForced(a) ==
    /\ May("force")
    /\ Begin("rest_forced", [now |-> FALSE, force |-> a, requested |-> a], 0)

CancelPending ==
    /\ op.stage = "idle" /\ Awake
    /\ pending # NoPending
    /\ pending' = NoPending
    /\ UNCHANGED <<machine, sampled, policy, inFlight, op, looping>>

\* Edges are kept across a reload.
Reload(p) ==
    /\ May("reload") /\ op.stage = "idle" /\ Awake
    /\ policy' = p
    /\ wake' = Poked
    /\ UNCHANGED <<machine, sampled, pending, inFlight, op, loop, event, timer>>

AcquireLease(ttl) ==
    /\ May("lease") /\ op.stage = "idle" /\ Awake /\ now <= LastEvent
    /\ lease = NoLease
    /\ now + ttl <= MaxInstant
    /\ lease' = [expires |-> now + ttl, open |-> TRUE]
    /\ wake' = Poked
    /\ UNCHANGED <<machine, agent, readings, edges, resume, clocks, decision, policy,
                   pending, inFlight, op, loop, event, timer>>

ReleaseLease ==
    /\ May("release") /\ op.stage = "idle" /\ Awake
    /\ lease # NoLease
    /\ lease' = NoLease
    /\ wake' = Poked
    /\ UNCHANGED <<machine, agent, readings, edges, resume, clocks, decision, policy,
                   pending, inFlight, op, loop, event, timer>>

\* The holder goes away: the next reap sees it, and its watcher pokes the loop.
HolderCloses ==
    /\ May("release") /\ Awake /\ lease.open
    /\ lease' = [lease EXCEPT !.open = FALSE]
    /\ wake' = Poked
    /\ UNCHANGED <<machine, agent, readings, edges, resume, clocks, decision, policy,
                   pending, inFlight, op, loop, event, timer>>

\* An agent that starts, or one whose capabilities changed and registers again: the
\* entry is replaced, and says nothing of the human until the next report.
RegisterAgent ==
    /\ HasSeat /\ op.stage = "idle" /\ Awake
    /\ agent' = [there |-> TRUE, origin |-> Unreadable, last_report |-> now]
    /\ agent' # agent
    /\ wake' = Poked
    /\ UNCHANGED <<machine, lease, readings, edges, resume, clocks, decision, policy,
                   pending, inFlight, op, loop, event, timer>>

UnregisterAgent ==
    /\ May("human") /\ op.stage = "idle" /\ Awake
    /\ agent.there
    /\ agent' = NoAgent
    /\ wake' = Poked
    /\ UNCHANGED <<machine, lease, readings, edges, resume, clocks, decision, policy,
                   pending, inFlight, op, loop, event, timer>>

\* The heartbeat, and the report on every idle or active edge.
ReportSession ==
    /\ op.stage = "idle" /\ Awake
    /\ agent.there
    /\ agent.origin # touched \/ agent.last_report < now
    /\ agent' = [agent EXCEPT !.origin = touched, !.last_report = now]
    /\ wake' = Poked
    /\ UNCHANGED <<machine, lease, readings, edges, resume, clocks, decision, policy,
                   pending, inFlight, op, loop, event, timer>>

-----------------------------------------------------------------------------
(* The main loop (main.rs) and its wake-up (Engine::next_wakeup). *)

LoopTick ==
    /\ loop = "tick"
    /\ Begin("loop", NoRequest, 0)

\* Mutant: a fact in doubt does not arm the sweep.
SweepNeededForTrue ==
    \/ \E f \in POLLED \cap policy.facts : readings[f] = "true"
    \/ \E b \in policy.blocks : b.kind = "when" /\ b.enabled /\ b.condition \in POLLED

SweepNeeded ==
    \/ \E f \in POLLED \cap policy.facts : readings[f] \in {"true", "indeterminate"}
    \/ \E b \in policy.blocks : b.kind = "when" /\ b.enabled /\ b.condition \in POLLED

\* Mutant: a lease's TTL arms nothing.
WakeupsWithoutLeases ==
    ({NextDeadline(decision)} \ {Never})
      \cup (IF pending # NoPending THEN {pending.expires_at} ELSE {})

\* The instants something is due at: a deadline not yet reached, a lease's TTL,
\* a held request's TTL.
Wakeups ==
    ({NextDeadline(decision)} \ {Never})
      \cup ({lease.expires} \ {None})
      \cup (IF pending # NoPending THEN {pending.expires_at} ELSE {})

\* The 250 ms floor under a wait is one unit of time.
WaitUntil(at) == IF at <= now THEN 1 ELSE at - now

Waits == {WaitUntil(at) : at \in Wakeups} \cup (IF SweepNeeded THEN {SWEEP_INTERVAL} ELSE {})

Monotonic == now - asleepFor

NoTimer == -1

LoopArm ==
    /\ loop = "arm" /\ op.stage = "idle" /\ Awake
    /\ timer' = IF Waits = {} THEN NoTimer ELSE Monotonic + Earliest(Waits)
    /\ loop' = "wait" /\ event' = "none"
    /\ UNCHANGED <<machine, sampled, policy, pending, inFlight, op, wake>>

TimerFires == timer # NoTimer /\ Monotonic >= timer

\* next_event polls the timer first, the wake channel second, logind last.
LoopTimer ==
    /\ loop = "wait" /\ Awake
    /\ TimerFires
    /\ loop' = "tick" /\ event' = "timer" /\ timer' = NoTimer
    /\ UNCHANGED <<machine, sampled, policy, pending, inFlight, op, wake>>

LoopWake ==
    /\ loop = "wait" /\ Awake
    /\ ~TimerFires /\ wake > 0
    /\ wake' = wake - 1
    /\ loop' = "tick" /\ event' = "wake" /\ timer' = NoTimer
    /\ UNCHANGED <<machine, sampled, policy, pending, inFlight, op>>

\* Mutant: a resume is noted, and the guard left for the timeout to release.
SignalKeepsGuard ==
    /\ loop = "wait" /\ Awake
    /\ ~TimerFires /\ wake = 0 /\ signals # <<>>
    /\ signals' = Tail(signals)
    /\ loop' = "tick" /\ timer' = NoTimer
    /\ \/ Head(signals) /\ event' = "sleep_start" /\ UNCHANGED resume
       \/ ~Head(signals) /\ op.stage = "idle" /\ event' = "resume" /\ resume' = AnnouncedResume
    /\ UNCHANGED <<site, now, asleepFor, woke, power, world, touched, standing,
                   accepted, agent, lease, readings, edges, clocks, decision,
                   policy, pending, inFlight, op, wake>>

\* SleepStart goes straight back to the top of the loop; Resume records the
\* resume and releases the transition guard first.
LoopSignal ==
    /\ loop = "wait" /\ Awake
    /\ ~TimerFires /\ wake = 0 /\ signals # <<>>
    /\ signals' = Tail(signals)
    /\ loop' = "tick" /\ timer' = NoTimer
    /\ \/ /\ Head(signals)
          /\ event' = "sleep_start"
          /\ UNCHANGED <<resume, inFlight>>
       \/ /\ ~Head(signals) /\ op.stage = "idle"
          /\ event' = "resume"
          /\ resume' = AnnouncedResume
          /\ inFlight' = None
    /\ UNCHANGED <<site, now, asleepFor, woke, power, world, touched, standing, accepted, agent,
                   lease, readings, edges, clocks, decision, policy, pending, op, wake>>

-----------------------------------------------------------------------------
(* The machine: time, facts, people, logind and the kernel. *)

daemon == <<sampled, policy, pending, inFlight, op, looping>>

\* The daemon has something to do before it waits again.
Busy == loop # "wait" \/ op.stage # "idle" \/ TimerFires \/ wake > 0 \/ signals # <<>>

\* While asleep, boot time passes and monotonic time does not.
TimePasses ==
    /\ now < MaxTime /\ power # "off"
    /\ Prompt /\ Awake => ~Busy
    /\ now' = now + 1
    /\ asleepFor' = IF Awake THEN asleepFor ELSE asleepFor + 1
    /\ UNCHANGED <<site, woke, power, signals, world, touched, standing, accepted, daemon>>

FactChanges(f, s) ==
    /\ May("facts") /\ Awake /\ now <= LastEvent
    /\ world[f] # s
    /\ world' = [world EXCEPT ![f] = s]
    /\ UNCHANGED <<site, now, asleepFor, woke, power, signals, touched, standing, accepted, daemon>>

Touch ==
    /\ May("human") /\ HasSeat /\ Awake /\ now <= LastEvent
    /\ touched # now
    /\ touched' = now
    /\ UNCHANGED <<site, now, asleepFor, woke, power, signals, world, standing, accepted, daemon>>

\* Somebody else asks logind for a sleep.
ExternalSleep ==
    /\ May("external") /\ power = "on" /\ Len(signals) < MaxSignals /\ now <= LastEvent
    /\ power' = "preparing"
    /\ signals' = Append(signals, TRUE)
    /\ UNCHANGED <<site, now, asleepFor, woke, world, touched, standing, accepted, daemon>>

\* The sleep an accepted transition leads to: at least one unit long.
Freeze ==
    /\ power = "preparing" /\ now < MaxTime
    /\ power' = "asleep"
    /\ now' = now + 1 /\ asleepFor' = asleepFor + 1
    /\ standing' = "none" /\ accepted' = None
    /\ UNCHANGED <<site, woke, signals, world, touched, daemon>>

\* An accepted transition that never becomes a sleep, announced or not.
Abandon ==
    /\ May("abandon") /\ power = "preparing"
    /\ power' = "on"
    /\ \/ /\ Len(signals) < MaxSignals /\ signals' = Append(signals, FALSE)
          /\ standing' = "none" /\ accepted' = None
       \/ /\ standing \in {"guarded", "overtaken", "dropped"}
          /\ standing' = "dropped"
          /\ UNCHANGED <<signals, accepted>>
       \/ /\ standing \in {"none", "forgotten"}
          /\ standing' = "none" /\ accepted' = None
          /\ UNCHANGED signals
    /\ UNCHANGED <<site, now, asleepFor, woke, world, touched, daemon>>

\* A write to /sys/power/state: logind never hears of it.
DirectSleep ==
    /\ May("direct") /\ power = "on" /\ now < MaxTime /\ now <= LastEvent
    /\ power' = "slept"
    /\ now' = now + 1 /\ asleepFor' = asleepFor + 1
    /\ UNCHANGED <<site, woke, signals, world, touched, standing, accepted, daemon>>

Wake ==
    /\ \/ power = "asleep" /\ Len(signals) < MaxSignals /\ signals' = Append(signals, FALSE)
       \/ power = "slept"  /\ signals' = signals
    /\ power' = "on"
    /\ woke' = now
    /\ UNCHANGED <<site, now, asleepFor, world, touched, standing, accepted, daemon>>

-----------------------------------------------------------------------------
(* Starting, and being restarted by systemd or an upgrade. *)

FreshDaemon(p) ==
    /\ agent = NoAgent /\ lease = NoLease
    /\ policy = p
    /\ readings = [f \in FactId |-> "unavailable"]
    /\ edges = [id \in BlockId |-> NoEdge]
    /\ resume = Adopted
    /\ clocks = [now |-> now, human_input |-> NotYet, resume |-> NotYet]
    /\ decision = NoDecision
    /\ pending = NoPending /\ inFlight = None
    /\ op = Idle
    /\ loop = "tick" /\ event = "none" /\ timer = NoTimer /\ wake = 0

Init ==
    /\ site \in DOMAIN Sites
    /\ now = 0 /\ asleepFor = 0 /\ woke = NotYet
    /\ power = "on" /\ signals = <<>>
    /\ world = [f \in WorldFacts |-> "false"]
    /\ touched = Unreadable
    /\ standing = "none" /\ accepted = None
    /\ \E p \in Policies : FreshDaemon(p)

\* The guard is lost with the daemon; the transition logind carries out is not.
Restart(p) ==
    /\ May("restart") /\ Awake
    /\ policy' = p
    /\ agent' = NoAgent /\ lease' = NoLease
    /\ readings' = [f \in FactId |-> "unavailable"]
    /\ edges' = [id \in BlockId |-> NoEdge]
    /\ resume' = Adopted
    /\ clocks' = [now |-> now, human_input |-> NotYet, resume |-> NotYet]
    /\ decision' = NoDecision
    /\ pending' = NoPending /\ inFlight' = None
    /\ op' = Idle
    /\ loop' = "tick" /\ event' = "none" /\ timer' = NoTimer /\ wake' = 0
    /\ signals' = <<>>
    /\ \/ /\ standing \in {"none", "dropped"}
          /\ standing' = "none" /\ accepted' = None
       \/ /\ standing \in {"guarded", "overtaken", "forgotten"}
          /\ standing' = "forgotten" /\ UNCHANGED accepted
    /\ UNCHANGED <<site, now, asleepFor, woke, power, world, touched>>

DaemonStep ==
    \/ LoopTick \/ Confirm \/ Accept \/ Refuse
    \/ LoopArm \/ LoopTimer \/ LoopWake \/ LoopSignal

CallerStep ==
    \/ \E a \in Requests : Rest(a) \/ RestForced(a) \/ \E ttl \in TTLs : RestPending(a, ttl)
    \/ CancelPending
    \/ \E p \in Policies : Reload(p)
    \/ \E ttl \in LeaseTTLs : AcquireLease(ttl)
    \/ ReleaseLease \/ HolderCloses
    \/ RegisterAgent \/ UnregisterAgent \/ ReportSession

MachineStep ==
    \/ TimePasses
    \/ \E f \in WorldFacts, s \in {"true", "false", "indeterminate"} : FactChanges(f, s)
    \/ Touch \/ ExternalSleep \/ Freeze \/ Abandon \/ DirectSleep \/ Wake
    \/ \E p \in Policies : Restart(p)

Next == DaemonStep \/ CallerStep \/ MachineStep

Spec == Init /\ [][Next]_vars

\* The daemon's own steps are taken whenever they can be, logind carries out what
\* it accepted, time passes, a machine that sleeps is woken again.
Fairness ==
    /\ WF_vars(DaemonStep)
    /\ WF_vars(TimePasses)
    /\ WF_vars(Freeze)
    /\ WF_vars(Wake)

FairSpec == Spec /\ Fairness

-----------------------------------------------------------------------------
(* Properties. *)

\* The step in which a tick, having evaluated twice, decides to call logind.
Confirmed == op.stage = "confirm" /\ op'.stage = "issue"

WhileBlocks(a) ==
    {b \in policy.blocks : b.kind = "while" /\ b.enabled /\ b.timeouts[a] # Silent}

\* A ceiling is the one thing that may defeat a floor: rest --force, or a [when]
\* block with a key for the action.
Overridden(a) ==
    \/ op.request.force = a
    \/ \E b \in policy.blocks : b.kind = "when" /\ b.enabled /\ b.timeouts[a] # Silent

\* No sleep is issued on the machine's own account before the settle window has
\* run from the instant the machine really woke, whether the resume was announced,
\* slept through unannounced, or happened before the daemon was restarted
\* (ResumeTracker, [while.after_resume] on the resume clock).
SettleWindow ==
    [][Confirmed /\ ~op.request.now /\ ~Overridden(op'.action) =>
          \A b \in WhileBlocks(op'.action) :
              b.condition = "after_resume" /\ b.clock = "resume"
                /\ "after_resume" \in policy.facts /\ woke # NotYet
              => now >= woke + b.timeouts[op'.action]]_vars

HeldByFact(a) ==
    \/ \E f \in policy.facts \cap WorldFacts : world[f] = "indeterminate"
    \/ \E b \in WhileBlocks(a) :
          /\ b.timeouts[a] = Never
          /\ b.condition \in policy.facts \cap WorldFacts
          /\ world[b.condition] = "true"

HeldByLease(a) ==
    /\ "lease_held" \in policy.facts
    /\ lease.open /\ now < lease.expires
    /\ \E b \in WhileBlocks(a) : b.condition = "lease_held" /\ b.timeouts[a] = Never

HeldByHuman(a) ==
    /\ "human_active" \in policy.facts
    /\ agent.there /\ now - agent.last_report <= HEARTBEAT_MAX_AGE
    /\ Known(agent.origin) /\ now - agent.origin < policy.min_idle
    /\ \E b \in WhileBlocks(a) : b.condition = "human_active" /\ b.timeouts[a] = Never

HeldByBlindness ==
    /\ HasSeat /\ "human_active" \in policy.facts
    /\ \/ ~agent.there
       \/ agent.origin = Unreadable
       \/ now - agent.last_report > HEARTBEAT_MAX_AGE

\* The machine has slept since it booted, whether or not the daemon was there.
HeldByResume(a) ==
    /\ "after_resume" \in policy.facts /\ woke # NotYet
    /\ \E b \in WhileBlocks(a) : b.condition = "after_resume" /\ b.timeouts[a] = Never

\* Whatever the tick saw when it began, at the instant it commits to a sleep nothing
\* holds that sleep: no fact of the world that is in doubt, or true under a block
\* that says never; no live lease, no human the session agent has reported active, no
\* silent session agent, no resume under a block that says never.  Facts change and
\* leases are released between the two evaluations, and rest --now waives none of it
\* but the resume's block (Engine::tick, satisfied_by_request).  The human counts as
\* reported: report_session waits for the lock that the tick holds, so that a key
\* touched between the two evaluations is seen by neither of them.
NothingHolds ==
    [][Confirmed /\ ~Overridden(op'.action) =>
          /\ ~HeldByFact(op'.action)
          /\ ~HeldByLease(op'.action)
          /\ ~HeldByHuman(op'.action)
          /\ ~HeldByBlindness
          /\ op.request.now \/ ~HeldByResume(op'.action)]_vars

\* A request names one action, and is answered with that action or with none,
\* also when it is held and a different sleep is due by the time it is retried
\* (Decision::action_to_perform, Engine::resolve_pending).
NamedOrNothing ==
    [][Confirmed =>
          /\ op.request.requested \in {"none", op'.action}
          /\ op.by = "loop" /\ pending # NoPending => op'.action = pending.action]_vars

\* While logind carries out a transition of the daemon's, no other one is issued
\* before the timeout, though ticks keep finding the deadline passed
\* (transition_in_flight).  Two transitions are not guarded: one accepted while the
\* announcement of an earlier resume was still unread, which releases the guard when
\* it is read, and one that outlives the daemon, whose successor starts without a
\* guard, issues the sleep again and is left to logind's refusal.
OneTransitionAtATime ==
    [][Confirmed /\ standing = "guarded" => now - accepted >= TRANSITION_TIMEOUT]_vars

\* The guard does not outlive its transition: between two ticks it stands only while
\* logind carries one out, until its resume has been read from the bus, or after
\* logind dropped it in silence, which only the timeout can end.  No refusal,
\* abandoned sleep or resume leaves it behind to turn away the next sleep that is due
\* (note_transition_finished, Engine::tick).
GuardIsReleased ==
    GuardIsSet /\ op.stage # "issue" =>
        \/ standing \in {"guarded", "overtaken", "dropped"}
        \/ power = "asleep" \/ ResumeUnread

\* The instants at which something falls due without anybody saying so.  A decision
\* made for a caller is the caller's: the loop acts on none of its deadlines.
Outstanding ==
    ({decision.deadline[a] : a \in {x \in Actions : /\ decision.deadline[x] > decision.now
                                                   /\ decision.requested = "none"}}
       \ {Never})
      \cup {l \in {lease.expires} : l # None}
      \cup {p.expires_at : p \in {pending} \ {NoPending}}

\* While the loop waits and nothing is queued for it, its timer covers every
\* instant something falls due at: no method that moves a deadline, a lease or a
\* held request may leave the loop asleep past it (Engine::next_wakeup and the
\* pokes of manager.rs).  Not said of machines that hold requests, whose expiry
\* rest_pending leaves unarmed, nor of those that sleep unannounced, whose timer is
\* late by the time slept.
TimerCoversEveryDeadline ==
    ~May("pending") /\ ~May("direct") /\
    loop = "wait" /\ wake = 0 /\ signals = <<>> /\ Awake =>
        \A at \in Outstanding :
            /\ timer # NoTimer
            /\ timer + asleepFor <= at \/ timer <= Monotonic + 1

Clear == \A f \in policy.facts \cap WorldFacts : world[f] = "false"

\* A machine whose vetoes have all gone for good goes to sleep: the loop always
\* has a timer, a sweep or a poke left to notice it by.
EventuallyRests == <>[]Clear => <>(power # "on")

-----------------------------------------------------------------------------
(* What a comment of the repository says, and the code does not do: the run of *)
(* it finds it violated.                                                       *)

\* pending.rs on expires_at: "When this request stops being retried."  The loop
\* never carries a held request out after its time to live.
HeldWithinItsTTL ==
    [][Confirmed /\ op.by = "loop" /\ op.request.requested # "none"
          => now < pending.expires_at]_vars
=============================================================================
