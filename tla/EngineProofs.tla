---------------------------- MODULE EngineProofs ----------------------------
(* Proofs about the daemon, for every configuration, every bound and every    *)
(* mixture of disturbances.  First the types; then the three inductive         *)
(* invariants (what the transition guard remembers, whose request a tick       *)
(* carries, what the resume tracker has seen); then the action properties.     *)
EXTENDS Engine, PolicyLemmas, SequenceTheorems

(* Types: one lemma per group of variables, one step per action. *)

LEMMA ConstantTypes ==
    /\ MaxInstant \in Nat /\ Instant = 0 .. MaxInstant
    /\ MaxSignals \in Nat /\ WAKE_CAPACITY \in Nat \ {0} /\ SWEEP_INTERVAL \in Nat \ {0}
    /\ TRANSITION_TIMEOUT \in Nat \ {0} /\ HEARTBEAT_MAX_AGE \in Nat \ {0}
    BY PolicyConstants, EngineConstants DEF Instant

\* What a machine of the configuration is made of.
LEMMA SiteTypes ==
    ASSUME site \in DOMAIN Sites
    PROVE  /\ LastEvent \in Instant /\ MaxTime \in Instant
           /\ Policies \subseteq PolicyType /\ Requests \subseteq Actions
<1>1. Sites[site] \in SiteType
    BY EngineConstants
<1> QED
    BY <1>1 DEF SiteType, LastEvent, MaxTime, Policies, Requests

\* Reaping leaves an agent and a lease, sampling leaves a resume record.
LEMMA ReapTypes ==
    ASSUME TypeOK
    PROVE  /\ ReapedAgent \in AgentType /\ ReapedLease \in LeaseType
           /\ SampledResume \in ResumeType /\ Adopted \in ResumeType
           /\ AnnouncedResume \in ResumeType
<1> USE ConstantTypes, SiteTypes DEF TypeOK, MachineOK, SampledOK
<1>1. NoAgent \in AgentType /\ NoLease \in LeaseType
    BY DEF NoAgent, NoLease, AgentType, LeaseType, Origin, Unreadable, None
<1>2. ReapedAgent \in AgentType /\ ReapedLease \in LeaseType
    BY <1>1 DEF ReapedAgent, ReapedLease
<1>3. now \in NotYet .. MaxInstant /\ NotYet \in NotYet .. MaxInstant
    BY DEF NotYet
<1> QED
    BY <1>2, <1>3 DEF SampledResume, Adopted, AnnouncedResume, ResumeType

\* The human clock of one seat is an origin, and settles whether a human is active.
LEMMA HumanTypes ==
    ASSUME TypeOK
    PROVE  HumanOrigin \in Origin /\ HumanActive \in FactState
<1>1. HumanOrigin \in Origin
    BY ReapTypes, ConstantTypes DEF HumanOrigin, AgentType, Origin, NotYet, Unreadable
<1>2. Known(HumanOrigin) \/ HumanOrigin = NotYet \/ HumanOrigin = Unreadable
    BY <1>1, ConstantTypes DEF Known, Origin, NotYet, Unreadable
<1>3. ~Known(NotYet) /\ ~Known(Unreadable) /\ NotYet # Unreadable
    BY DEF Known, NotYet, Unreadable
<1>4. CASE Known(HumanOrigin)
    <2>1. HumanActive = IF now - HumanOrigin < policy.min_idle THEN "true" ELSE "false"
        BY <1>3, <1>4 DEF HumanActive
    <2> QED
        BY <1>1, <2>1 DEF FactState
<1>5. CASE HumanOrigin = NotYet
    <2>1. HumanActive = "false"
        BY <1>3, <1>5 DEF HumanActive
    <2> QED
        BY <1>1, <2>1 DEF FactState
<1>6. CASE HumanOrigin = Unreadable
    <2>1. HumanActive = "indeterminate"
        BY <1>3, <1>6 DEF HumanActive
    <2> QED
        BY <1>1, <2>1 DEF FactState
<1> QED
    BY <1>2, <1>4, <1>5, <1>6

\* A fact reads as one of the four states, as its detector says.
LEMMA ReadCases ==
    ASSUME NEW f \in FactId
    PROVE  /\ f \notin policy.facts => Read(f) = "unavailable"
           /\ f \in policy.facts /\ f = "human_active" => Read(f) = HumanActive
           /\ f \in policy.facts /\ f = "after_resume" =>
                 Read(f) = IF SampledResume.resumed_this_boot THEN "true" ELSE "false"
           /\ f \in policy.facts /\ f = "lease_held" =>
                 Read(f) = IF ReapedLease.expires # None THEN "true" ELSE "false"
           /\ f \in policy.facts /\ f \in WorldFacts => Read(f) = world[f]
<1>1. CASE f \notin policy.facts
    BY <1>1 DEF Read
<1>2. CASE f \in policy.facts /\ f = "human_active"
    BY <1>2 DEF Read, WorldFacts, DaemonFacts
<1>3. CASE f \in policy.facts /\ f = "after_resume"
    BY <1>3 DEF Read, WorldFacts, DaemonFacts
<1>4. CASE f \in policy.facts /\ f = "lease_held"
    BY <1>4 DEF Read, WorldFacts, DaemonFacts
<1>5. CASE f \in policy.facts /\ f \in WorldFacts
    <2>1. f \notin DaemonFacts
        BY <1>5 DEF WorldFacts
    <2> QED
        BY <1>5, <2>1 DEF Read, DaemonFacts
<1>6. f \in DaemonFacts \/ f \in WorldFacts
    BY DEF WorldFacts
<1> QED
    BY <1>1, <1>2, <1>3, <1>4, <1>5, <1>6 DEF DaemonFacts, WorldFacts

LEMMA FactsType ==
    ASSUME TypeOK
    PROVE  Facts \in [FactId -> FactState]
<1> SUFFICES ASSUME NEW f \in FactId PROVE Read(f) \in FactState
    BY DEF Facts
<1>1. f \in {"human_active", "after_resume", "lease_held"} \/ f \in WorldFacts
    BY DEF WorldFacts, DaemonFacts
<1>2. f \in WorldFacts => world[f] \in FactState
    BY DEF TypeOK, MachineOK
<1> QED
    BY <1>1, <1>2, ReadCases, HumanTypes DEF FactState

\* Observing keeps one edge per block.
LEMMA ObserveType ==
    ASSUME NEW es \in Edges, NEW p, NEW fs, NEW t \in Instant
    PROVE  Observe(es, p, fs, t) \in Edges
BY PolicyConstants DEF Observe, Edges, Instant, NoEdge

\* What an evaluation hands to the policy engine is an input of its type, and
\* what it gets back is a decision for that input.
LEMMA EvaluationTypes ==
    ASSUME TypeOK, NEW request \in Request
    PROVE  /\ Snapshot \in ClockSnapshot
           /\ [policy |-> policy, facts |-> Facts, clocks |-> Snapshot,
               edges |-> Observe(edges, policy, Facts, now), request |-> request] \in Input
           /\ Resolved(request) \in Decision
<1>1. Snapshot \in ClockSnapshot
    <2>1. SampledResume.last_resume \in Origin
        BY ReapTypes, ConstantTypes DEF ResumeType, Origin, NotYet, Unreadable
    <2> QED
        BY <2>1, HumanTypes DEF Snapshot, ClockSnapshot, TypeOK, MachineOK
<1>2. Observe(edges, policy, Facts, now) \in Edges
    BY ObserveType DEF TypeOK, MachineOK, SampledOK
<1>3. policy \in PolicyType
    BY SiteTypes DEF TypeOK, MachineOK, EngineOK
<1>4. [policy |-> policy, facts |-> Facts, clocks |-> Snapshot,
       edges |-> Observe(edges, policy, Facts, now), request |-> request] \in Input
    BY <1>1, <1>2, <1>3, FactsType DEF Input
<1> QED
    BY <1>1, <1>4, ResolveType DEF Resolved

-----------------------------------------------------------------------------
(* One step of each kind. *)

\* A held request acts as a request; none is a request too.
LEMMA EffectiveType ==
    ASSUME TypeOK, NEW explicit \in Request
    PROVE  Effective(explicit) \in Request /\ Held \in PendingType
<1>1. pending \in PendingType /\ NoPending \in PendingType
    BY ConstantTypes DEF TypeOK, EngineOK, Policies, NoPending, PendingType, Requestable, Instant,
                         Origin, NotYet, Unreadable
<1> QED
    BY <1>1 DEF Effective, Held, PendingType, Request, Requestable

LEMMA NoRequestType == NoRequest \in Request
BY DEF NoRequest, Request, Requestable

\* A decision names a sleep action or none.
LEMMA ActionType ==
    ASSUME NEW d \in Decision
    PROVE  ActionToPerform(d) \in Requestable
BY Performed DEF SleepDue, Requestable

\* An evaluation leaves the sampled state typed.
LEMMA EvaluateTypes ==
    ASSUME TypeOK, NEW request \in Request, EvaluateStep(request)
    PROVE  SampledOK'
<1>1. Observe(edges, policy, Facts, now) \in Edges
    BY ObserveType DEF TypeOK, MachineOK, SampledOK
<1> QED
    BY <1>1, ReapTypes, FactsType, EvaluationTypes DEF EvaluateStep, SampledOK

\* The end of a tick leaves no tick, and a held request of its type.
LEMMA FinishTypes ==
    ASSUME TypeOK, NEW by \in Caller, NEW asked \in Requestable, NEW ttl \in Nat,
           NEW performed, NEW clock \in ClockSnapshot, NEW held \in PendingType,
           Finish(by, asked, ttl, performed, clock, held)
    PROVE  /\ op' \in OpType /\ pending' \in PendingType
           /\ loop' \in {"tick", "arm", "wait"}
<1>1. Idle \in OpType
    BY NoRequestType DEF Idle, OpType, Caller, Requestable
<1>2. HoldUntil(clock.now, ttl) \in Instant
    BY ConstantTypes DEF HoldUntil, ClockSnapshot
<1>3. AfterAnswer(by, asked, ttl, performed, clock, held) \in PendingType
    BY <1>2 DEF AfterAnswer, PendingType, ClockSnapshot
<1> QED
    BY <1>1, <1>3 DEF Finish, ReturnTo, TypeOK, LoopOK

\* A tick that begins is typed, whoever asked for it.
LEMMA BeginTypes ==
    ASSUME TypeOK, NEW by \in Caller, NEW explicit \in Request, NEW ttl \in Nat,
           Begin(by, explicit, ttl)
    PROVE  TypeOK'
<1> DEFINE request == Effective(explicit)
           action  == ActionToPerform(Resolved(request))
<1>1. request \in Request /\ Held \in PendingType
    BY EffectiveType
<1>2. action \in Requestable
    BY <1>1, EvaluationTypes, ActionType
<1>3. Snapshot \in ClockSnapshot
    BY <1>1, EvaluationTypes
<1>4. EvaluateStep(request)
    BY DEF Begin
<1>5. SampledOK'
    BY <1>1, <1>4, EvaluateTypes
<1>6. explicit.requested \in Requestable
    BY DEF Request
<1>7. op' \in OpType /\ pending' \in PendingType /\ loop' \in {"tick", "arm", "wait"}
    <2>1. CASE Finish(by, explicit.requested, ttl, "none", Snapshot, Held)
        BY <1>1, <1>3, <1>6, <2>1, FinishTypes
    <2>2. CASE /\ op' = [by |-> by, stage |-> "confirm", request |-> request,
                         action |-> action, ttl |-> ttl]
               /\ pending' = Held
               /\ loop' = loop
        BY <1>1, <1>2, <2>2 DEF OpType, TypeOK, LoopOK
    <2> QED
        BY <2>1, <2>2 DEF Begin
<1>8. UNCHANGED <<machine, policy, inFlight, event, timer, wake>>
    BY DEF Begin
<1> QED
    BY <1>5, <1>7, <1>8 DEF TypeOK, MachineOK, EngineOK, Policies, LoopOK, machine
LEMMA ConfirmTypes ==
    ASSUME TypeOK, Confirm
    PROVE  TypeOK'
<1> DEFINE action == ActionToPerform(Resolved(op.request))
           asked  == op.request.requested
<1>1. /\ op.by \in Caller /\ op.request \in Request /\ op.ttl \in Nat
      /\ op.action \in Requestable /\ asked \in Requestable
      /\ pending \in PendingType /\ clocks \in ClockSnapshot
    BY DEF TypeOK, EngineOK, Policies, SampledOK, OpType, Request
<1>2. action \in Requestable /\ Snapshot \in ClockSnapshot
    BY <1>1, EvaluationTypes, ActionType
<1>3. UNCHANGED <<machine, policy, event, timer, wake>>
    BY DEF Confirm
<1>4. now \in None .. MaxInstant /\ None \in None .. MaxInstant
    BY ConstantTypes DEF TypeOK, MachineOK, None
<1>5. CASE GuardIsSet
    <2>1. /\ Finish(op.by, asked, op.ttl, "none", clocks, pending)
          /\ UNCHANGED <<sampled, inFlight>>
        BY <1>5 DEF Confirm
    <2>2. op' \in OpType /\ pending' \in PendingType /\ loop' \in {"tick", "arm", "wait"}
        BY <1>1, <2>1, FinishTypes
    <2> QED
        BY <1>3, <2>1, <2>2
        DEF TypeOK, MachineOK, SampledOK, EngineOK, Policies, LoopOK, machine, sampled
<1>6. CASE ~GuardIsSet
    <2>1. SampledOK'
        BY <1>1, <1>6, EvaluateTypes DEF Confirm
    <2>2. /\ op' \in OpType /\ pending' \in PendingType
          /\ loop' \in {"tick", "arm", "wait"} /\ inFlight' \in None .. MaxInstant
        <3>1. CASE /\ Finish(op.by, asked, op.ttl, "none", Snapshot, pending)
                   /\ inFlight' = None
            BY <1>1, <1>2, <1>4, <3>1, FinishTypes
        <3>2. CASE /\ op' = [op EXCEPT !.stage = "issue", !.action = action]
                   /\ inFlight' = now
                   /\ UNCHANGED <<pending, loop>>
            <4>1. op' \in OpType
                <5> HIDE DEF action
                <5> QED
                    BY <1>2, <3>2 DEF TypeOK, EngineOK, Policies, OpType
            <4> QED
                BY <1>4, <3>2, <4>1 DEF TypeOK, EngineOK, Policies, LoopOK
        <3> QED
            BY <1>6, <3>1, <3>2 DEF Confirm
    <2> QED
        BY <1>3, <2>1, <2>2 DEF TypeOK, MachineOK, EngineOK, Policies, LoopOK, machine
<1> QED
    BY <1>5, <1>6

LEMMA AnswerTypes ==
    ASSUME TypeOK, Accept \/ Refuse
    PROVE  TypeOK'
<1>1. /\ op.by \in Caller /\ op.request.requested \in Requestable /\ op.ttl \in Nat
      /\ pending \in PendingType /\ clocks \in ClockSnapshot
      /\ inFlight \in None .. MaxInstant /\ None \in None .. MaxInstant
    BY ConstantTypes DEF TypeOK, EngineOK, Policies, SampledOK, OpType, Request, None
<1>2. NoPending \in PendingType
    BY ConstantTypes DEF NoPending, PendingType, Requestable, Instant, Origin, NotYet, Unreadable
<1>3. CASE Accept
    <2>1. op' \in OpType /\ pending' \in PendingType /\ loop' \in {"tick", "arm", "wait"}
        BY <1>1, <1>2, <1>3, FinishTypes DEF Accept
    <2>2. signals' \in Seq(BOOLEAN)
        BY <1>3 DEF Accept, TypeOK, MachineOK
    <2>3. standing' \in Standing
        BY <1>3 DEF Accept, Standing
    <2> QED
        BY <1>1, <1>3, <2>1, <2>2, <2>3
        DEF Accept, TypeOK, MachineOK, SampledOK, EngineOK, Policies, LoopOK, sampled
<1>4. CASE Refuse
    <2>1. op' \in OpType /\ pending' \in PendingType /\ loop' \in {"tick", "arm", "wait"}
        BY <1>1, <1>4, FinishTypes DEF Refuse
    <2> QED
        BY <1>1, <1>4, <2>1
        DEF Refuse, TypeOK, MachineOK, SampledOK, EngineOK, Policies, LoopOK, machine, sampled
<1> QED
    BY <1>3, <1>4
\* What the loop arms its timer with is an instant of the monotonic clock.
LEMMA ArmTypes ==
    ASSUME TypeOK, LoopArm
    PROVE  TypeOK'
<1> USE ConstantTypes, SiteTypes
<1>1. NextDeadline(decision) \in Nat
    <2> DEFINE D == {decision.deadline[a] : a \in {x \in Actions : ~Due(decision, x)}}
                      \cup {Never}
    <2>1. D \in SUBSET Nat /\ D # {}
        BY NeverFacts DEF TypeOK, SampledOK, Decision
    <2>2. Earliest(D) \in D
        <3> HIDE DEF D
        <3> QED
            BY <2>1, LeastNatural
    <2> QED
        BY <2>1, <2>2 DEF NextDeadline
<1>2. \A at \in Wakeups : at \in Int
    BY <1>1 DEF Wakeups, TypeOK, SampledOK, EngineOK, Policies, LeaseType, PendingType
<1>3. Waits \in SUBSET Nat
    <2>1. \A at \in Int : WaitUntil(at) \in Nat
        BY DEF WaitUntil, TypeOK, MachineOK
    <2> QED
        BY <1>2, <2>1 DEF Waits
<1>4. Monotonic \in Int
    BY DEF Monotonic, TypeOK, MachineOK
<1>5. Waits # {} => Earliest(Waits) \in Nat
    BY <1>3, LeastNatural
<1>6. timer' \in Int
    BY <1>4, <1>5 DEF LoopArm, NoTimer
<1> QED
    BY <1>6 DEF LoopArm, TypeOK, MachineOK, SampledOK, EngineOK, Policies, LoopOK, machine, sampled

LEMMA LoopTypes ==
    ASSUME TypeOK, LoopTick \/ LoopArm \/ LoopTimer \/ LoopWake \/ LoopSignal
    PROVE  TypeOK'
<1> USE ConstantTypes, SiteTypes
<1>1. CASE LoopTick
    BY <1>1, BeginTypes, NoRequestType DEF LoopTick, Caller
<1>2. CASE LoopArm
    BY <1>2, ArmTypes
<1>3. CASE LoopTimer
    BY <1>3 DEF LoopTimer, NoTimer, TypeOK, MachineOK, SampledOK, EngineOK, Policies, LoopOK,
                machine, sampled
<1>4. CASE LoopWake
    BY <1>4 DEF LoopWake, NoTimer, TypeOK, MachineOK, SampledOK, EngineOK, Policies, LoopOK,
                machine, sampled
<1>5. CASE LoopSignal
    <2>1. signals' \in Seq(BOOLEAN)
        <3>1. signals \in Seq(BOOLEAN) /\ signals # <<>> /\ signals' = Tail(signals)
            BY <1>5 DEF LoopSignal, TypeOK, MachineOK
        <3> QED
            BY <3>1, HeadTailProperties
    <2> DEFINE Ignored == event' = "sleep_start" /\ UNCHANGED <<resume, inFlight>>
               Noted   == event' = "resume" /\ resume' = AnnouncedResume /\ inFlight' = None
    <2>2. Ignored \/ Noted
        BY <1>5 DEF LoopSignal
    <2>3. /\ resume' \in ResumeType /\ inFlight' \in None .. MaxInstant
          /\ event' \in {"none", "timer", "wake", "sleep_start", "resume"}
        BY <2>2, ReapTypes DEF None, TypeOK, SampledOK, EngineOK, Policies
    <2>4. /\ UNCHANGED <<site, now, asleepFor, woke, power, world, touched, standing, accepted>>
          /\ UNCHANGED <<agent, lease, readings, edges, clocks, decision>>
          /\ UNCHANGED <<policy, pending, op, wake>>
          /\ loop' = "tick" /\ timer' = NoTimer
        BY <1>5 DEF LoopSignal
    <2> QED
        BY <2>1, <2>3, <2>4
        DEF NoTimer, TypeOK, MachineOK, SampledOK, EngineOK, Policies, LoopOK
<1> QED
    BY <1>1, <1>2, <1>3, <1>4, <1>5

\* A request of one of the manager's methods is a request.
LEMMA AskedType ==
    ASSUME TypeOK, NEW a \in Requests
    PROVE  /\ [now |-> TRUE, force |-> "none", requested |-> a] \in Request
           /\ [now |-> FALSE, force |-> a, requested |-> a] \in Request
BY SiteTypes DEF Request, Requestable, TypeOK, MachineOK

LEMMA CallerTypes ==
    ASSUME TypeOK, CallerStep
    PROVE  TypeOK'
<1> USE ConstantTypes, SiteTypes
<1>1. Poked \in 0 .. WAKE_CAPACITY
    BY DEF Poked, TypeOK, LoopOK
<1>2. ASSUME NEW a \in Requests, Rest(a) PROVE TypeOK'
    BY <1>2, BeginTypes, AskedType DEF Rest, Caller
<1>3. ASSUME NEW a \in Requests, RestForced(a) PROVE TypeOK'
    BY <1>3, BeginTypes, AskedType DEF RestForced, Caller
<1>4. ASSUME NEW a \in Requests, NEW ttl \in TTLs, RestPending(a, ttl) PROVE TypeOK'
    <2>1. ttl \in Nat
        BY EngineConstants
    <2> QED
        BY <1>4, <2>1, BeginTypes, AskedType DEF RestPending, Caller
<1>5. CASE CancelPending
    <2>1. NoPending \in PendingType
        BY DEF NoPending, PendingType, Requestable, Origin, NotYet, Unreadable
    <2> QED
        BY <1>5, <2>1 DEF CancelPending, TypeOK, MachineOK, SampledOK, EngineOK, Policies, LoopOK,
                          machine, sampled, looping
<1>6. ASSUME NEW p \in Policies, Reload(p) PROVE TypeOK'
    BY <1>1, <1>6 DEF Reload, TypeOK, MachineOK, SampledOK, EngineOK, Policies, LoopOK, machine, sampled
<1>7. ASSUME NEW ttl \in LeaseTTLs, AcquireLease(ttl) PROVE TypeOK'
    <2>1. now + ttl \in None .. MaxInstant
        BY <1>7, EngineConstants DEF AcquireLease, None, TypeOK, MachineOK
    <2> QED
        BY <1>1, <1>7, <2>1 DEF AcquireLease, LeaseType, TypeOK, MachineOK, SampledOK,
                                EngineOK, Policies, LoopOK, machine
<1>8. CASE ReleaseLease
    <2>1. NoLease \in LeaseType
        BY DEF NoLease, LeaseType, None
    <2> QED
        BY <1>1, <1>8, <2>1 DEF ReleaseLease, TypeOK, MachineOK, SampledOK, EngineOK, Policies,
                                LoopOK, machine
<1>9. CASE HolderCloses
    BY <1>1, <1>9 DEF HolderCloses, LeaseType, TypeOK, MachineOK, SampledOK, EngineOK, Policies,
                      LoopOK, machine
<1>10. CASE RegisterAgent
    <2>1. agent' \in AgentType
        BY <1>10 DEF RegisterAgent, AgentType, Origin, Unreadable, TypeOK, MachineOK
    <2> QED
        BY <1>1, <1>10, <2>1 DEF RegisterAgent, TypeOK, MachineOK, SampledOK, EngineOK, Policies,
                                 LoopOK, machine
<1>11. CASE UnregisterAgent
    <2>1. NoAgent \in AgentType
        BY DEF NoAgent, AgentType, Origin, Unreadable
    <2> QED
        BY <1>1, <1>11, <2>1 DEF UnregisterAgent, TypeOK, MachineOK, SampledOK, EngineOK, Policies,
                                 LoopOK, machine
<1>12. CASE ReportSession
    <2>1. agent' \in AgentType
        BY <1>12 DEF ReportSession, AgentType, TypeOK, MachineOK, SampledOK
    <2> QED
        BY <1>1, <1>12, <2>1 DEF ReportSession, TypeOK, MachineOK, SampledOK, EngineOK, Policies,
                                 LoopOK, machine
<1> QED
    BY <1>2, <1>3, <1>4, <1>5, <1>6, <1>7, <1>8, <1>9, <1>10, <1>11, <1>12 DEF CallerStep

\* What a daemon starts with is of its type.
LEMMA FreshTypes ==
    ASSUME MachineOK
    PROVE  /\ NoAgent \in AgentType /\ NoLease \in LeaseType /\ Adopted \in ResumeType
           /\ [f \in FactId |-> "unavailable"] \in [FactId -> FactState]
           /\ [id \in BlockId |-> NoEdge] \in Edges
           /\ [now |-> now, human_input |-> NotYet, resume |-> NotYet] \in ClockSnapshot
           /\ NoDecision \in Decision /\ NoPending \in PendingType
           /\ None \in None .. MaxInstant /\ Idle \in OpType /\ NoTimer \in Int
<1> USE ConstantTypes, SiteTypes
<1>1. NoAgent \in AgentType /\ NoLease \in LeaseType
    BY DEF NoAgent, NoLease, AgentType, LeaseType, Origin, Unreadable, None
<1>2. Adopted \in ResumeType
    BY DEF Adopted, ResumeType, NotYet, MachineOK
<1>3. [f \in FactId |-> "unavailable"] \in [FactId -> FactState]
    BY DEF FactState
<1>4. [id \in BlockId |-> NoEdge] \in Edges
    BY DEF Edges, NoEdge
<1>5. [now |-> now, human_input |-> NotYet, resume |-> NotYet] \in ClockSnapshot
    BY DEF ClockSnapshot, Origin, NotYet, Unreadable, MachineOK
<1>6. NoDecision \in Decision
    BY NeverFacts DEF NoDecision, Decision, Requestable
<1>7. NoPending \in PendingType
    BY DEF NoPending, PendingType, Requestable, Origin, NotYet, Unreadable
<1>8. None \in None .. MaxInstant /\ NoTimer \in Int
    BY DEF None, NoTimer
<1>9. Idle \in OpType
    BY NoRequestType DEF Idle, OpType, Caller, Requestable
<1> QED
    BY <1>1, <1>2, <1>3, <1>4, <1>5, <1>6, <1>7, <1>8, <1>9

LEMMA RestartTypes ==
    ASSUME TypeOK, NEW p \in Policies, Restart(p)
    PROVE  TypeOK'
<1>1. MachineOK'
    <2>1. /\ signals' = <<>> /\ (accepted' = None \/ UNCHANGED accepted)
          /\ standing' \in Standing
          /\ UNCHANGED <<site, now, asleepFor, woke, power, world, touched>>
        BY DEF Restart, Standing
    <2>2. <<>> \in Seq(BOOLEAN)
        BY EmptySeq
    <2>3. None \in None .. MaxInstant
        BY FreshTypes DEF TypeOK
    <2> QED
        BY <2>1, <2>2, <2>3 DEF TypeOK, MachineOK
<1>2. SampledOK'
    BY FreshTypes DEF Restart, TypeOK, SampledOK
<1>3. EngineOK' /\ LoopOK'
    BY FreshTypes, ConstantTypes, SiteTypes DEF Restart, TypeOK, EngineOK, Policies, LoopOK
<1> QED
    BY <1>1, <1>2, <1>3 DEF TypeOK

LEMMA MachineTypes ==
    ASSUME TypeOK, MachineStep
    PROVE  TypeOK'
<1> USE ConstantTypes, SiteTypes DEF TypeOK, daemon, MachineOK
<1>1. UNCHANGED <<site, daemon>> => SampledOK' /\ EngineOK' /\ LoopOK'
    BY DEF sampled, looping, SampledOK, EngineOK, Policies, LoopOK
<1>2. CASE TimePasses
    BY <1>1, <1>2 DEF TimePasses
<1>3. ASSUME NEW f \in WorldFacts, NEW s \in {"true", "false", "indeterminate"},
             FactChanges(f, s)
      PROVE  TypeOK'
    BY <1>1, <1>3 DEF FactChanges, FactState
<1>4. CASE Touch
    BY <1>1, <1>4 DEF Touch, Origin, Unreadable
<1> \A e \in BOOLEAN : Append(signals, e) \in Seq(BOOLEAN)
    BY AppendProperties
<1>5. CASE ExternalSleep
    BY <1>1, <1>5 DEF ExternalSleep
<1>6. CASE Freeze
    BY <1>1, <1>6 DEF Freeze, None, Standing
<1>7. CASE Abandon
    <2>1. signals' = signals \/ signals' = Append(signals, FALSE)
        BY <1>7 DEF Abandon
    <2>2. signals' \in Seq(BOOLEAN)
        BY <2>1
    <2>3. /\ power' = "on" /\ (accepted' = None \/ UNCHANGED accepted)
          /\ standing' \in Standing /\ UNCHANGED daemon
          /\ UNCHANGED <<site, now, asleepFor, woke, world, touched>>
        BY <1>7 DEF Abandon, Standing
    <2> QED
        BY <1>1, <2>2, <2>3 DEF None
<1>8. CASE DirectSleep
    BY <1>1, <1>8 DEF DirectSleep
<1>9. CASE Wake
    <2>1. signals' = signals \/ signals' = Append(signals, FALSE)
        BY <1>9 DEF Wake
    <2>2. signals' \in Seq(BOOLEAN)
        BY <2>1
    <2>3. /\ power' = "on" /\ woke' = now /\ UNCHANGED daemon
          /\ UNCHANGED <<site, now, asleepFor, world, touched, standing, accepted>>
        BY <1>9 DEF Wake
    <2> QED
        BY <1>1, <2>2, <2>3 DEF NotYet
<1>10. ASSUME NEW p \in Policies, Restart(p) PROVE TypeOK'
    BY <1>10, RestartTypes
<1> QED
    BY <1>2, <1>3, <1>4, <1>5, <1>6, <1>7, <1>8, <1>9, <1>10 DEF MachineStep

\* Every variable keeps its type, for every configuration, every bound and every
\* mixture of disturbances: among others the loop's timer is a number of the
\* monotonic clock whatever next_wakeup found, the decision is always made of
\* deadlines, and a full wake channel takes no more pokes.
THEOREM TypeCorrect == Spec => []TypeOK
<1>1. Init => TypeOK
    <2> SUFFICES ASSUME Init PROVE TypeOK
        OBVIOUS
    <2>1. MachineOK
        <3>1. <<>> \in Seq(BOOLEAN)
            BY EmptySeq
        <3>2. /\ site \in DOMAIN Sites /\ now = 0 /\ asleepFor = 0 /\ woke = NotYet /\ power = "on"
              /\ signals = <<>> /\ world = [f \in WorldFacts |-> "false"]
              /\ touched = Unreadable /\ accepted = None /\ standing = "none"
            BY DEF Init
        <3>3. 0 \in Instant /\ NotYet \in NotYet .. MaxInstant /\ Unreadable \in Origin
              /\ None \in None .. MaxInstant
            BY ConstantTypes DEF Origin, Unreadable, NotYet, None
        <3>4. [f \in WorldFacts |-> "false"] \in [WorldFacts -> FactState]
            BY DEF FactState
        <3>5. signals \in Seq(BOOLEAN) /\ world \in [WorldFacts -> FactState]
            BY <3>1, <3>2, <3>4
        <3>6. /\ site \in DOMAIN Sites
              /\ now \in Instant /\ asleepFor \in Nat /\ asleepFor <= now
              /\ woke \in NotYet .. MaxInstant /\ touched \in Origin
              /\ accepted \in None .. MaxInstant
            BY <3>2, <3>3
        <3>7. /\ power \in {"on", "preparing", "asleep", "slept", "off"}
              /\ standing \in Standing
            BY <3>2 DEF Standing
        <3> QED
            BY <3>5, <3>6, <3>7 DEF MachineOK
    <2>2. PICK p \in Policies : FreshDaemon(p)
        BY DEF Init
    <2>3. SampledOK
        BY <2>1, <2>2, FreshTypes DEF FreshDaemon, SampledOK
    <2>4. EngineOK /\ LoopOK
        BY <2>1, <2>2, FreshTypes, ConstantTypes, SiteTypes DEF FreshDaemon, EngineOK, Policies, LoopOK
    <2> QED
        BY <2>1, <2>3, <2>4 DEF TypeOK
<1>2. TypeOK /\ [Next]_vars => TypeOK'
    <2> SUFFICES ASSUME TypeOK, [Next]_vars PROVE TypeOK'
        OBVIOUS
    <2>1. CASE DaemonStep
        BY <2>1, ConfirmTypes, AnswerTypes, LoopTypes DEF DaemonStep
    <2>2. CASE CallerStep
        BY <2>2, CallerTypes
    <2>3. CASE MachineStep
        BY <2>3, MachineTypes
    <2>4. CASE UNCHANGED vars
        BY <2>4 DEF vars, machine, sampled, looping, TypeOK, MachineOK, SampledOK,
                    EngineOK, Policies, LoopOK
    <2> QED
        BY <2>1, <2>2, <2>3, <2>4 DEF Next
<1> QED
    BY <1>1, <1>2, PTL DEF Spec

-----------------------------------------------------------------------------
(* What a step may do to the tick in progress. *)

\* A tick begins only when none is in progress, and begins by being confirmed.
LEMMA BeginStage ==
    ASSUME NEW by, NEW explicit, NEW ttl, Begin(by, explicit, ttl)
    PROVE  /\ op.stage = "idle" /\ op'.stage \in {"idle", "confirm"}
           /\ UNCHANGED <<machine, policy, inFlight, event, timer, wake>>
BY DEF Begin, Finish, Idle

\* A caller's step begins a tick or leaves the tick, the machine and the guard alone.
LEMMA CallerStage ==
    ASSUME CallerStep
    PROVE  /\ UNCHANGED <<machine, inFlight>>
           /\ \/ op' = op
              \/ op.stage = "idle" /\ op'.stage \in {"idle", "confirm"}
<1>1. ASSUME NEW a \in Requests, Rest(a) \/ RestForced(a) \/ \E ttl \in TTLs : RestPending(a, ttl)
      PROVE  /\ UNCHANGED <<machine, inFlight>>
             /\ op.stage = "idle" /\ op'.stage \in {"idle", "confirm"}
    BY <1>1, BeginStage DEF Rest, RestForced, RestPending
<1>2. CASE \/ CancelPending \/ ReleaseLease \/ HolderCloses
           \/ RegisterAgent \/ UnregisterAgent \/ ReportSession
    BY <1>2 DEF CancelPending, ReleaseLease, HolderCloses, RegisterAgent, UnregisterAgent,
                ReportSession
<1>3. ASSUME NEW p \in Policies, Reload(p) PROVE UNCHANGED <<machine, inFlight, op>>
    BY <1>3 DEF Reload
<1>4. ASSUME NEW ttl \in LeaseTTLs, AcquireLease(ttl) PROVE UNCHANGED <<machine, inFlight, op>>
    BY <1>4 DEF AcquireLease
<1> QED
    BY <1>1, <1>2, <1>3, <1>4 DEF CallerStep

\* Confirming is one of three things: turned away by the guard, answered with
\* nothing, or committed to the action the second evaluation names.
LEMMA ConfirmCases ==
    ASSUME Confirm
    PROVE  /\ op.stage = "confirm" /\ UNCHANGED <<machine, policy>>
           /\ \/ GuardIsSet /\ op' = Idle /\ UNCHANGED inFlight
              \/ ~GuardIsSet /\ op' = Idle /\ inFlight' = None
              \/ /\ ~GuardIsSet /\ EvaluateStep(op.request)
                 /\ ActionToPerform(Resolved(op.request)) # "none"
                 /\ op' = [op EXCEPT !.stage = "issue",
                                     !.action = ActionToPerform(Resolved(op.request))]
                 /\ inFlight' = now
                 /\ UNCHANGED pending
BY DEF Confirm, Finish

\* Only Confirm commits to a sleep.
LEMMA OnlyConfirmCommits ==
    ASSUME TypeOK, [Next]_vars, Confirmed
    PROVE  /\ Confirm
           /\ ~GuardIsSet /\ EvaluateStep(op.request)
           /\ ActionToPerform(Resolved(op.request)) # "none"
           /\ op' = [op EXCEPT !.stage = "issue",
                               !.action = ActionToPerform(Resolved(op.request))]
           /\ op'.action = ActionToPerform(Resolved(op.request))
           /\ UNCHANGED <<pending, machine, policy>>
<1>1. op.stage = "confirm" /\ op'.stage = "issue" /\ op' # op
    BY DEF Confirmed
<1>2. Idle.stage = "idle"
    BY DEF Idle
<1>3. ~CallerStep
    BY <1>1, CallerStage
<1>4. ~MachineStep
    BY <1>1, <1>2 DEF MachineStep, TimePasses, FactChanges, Touch, ExternalSleep, Freeze,
                      Abandon, DirectSleep, Wake, Restart, daemon
<1>5. ~(LoopTick \/ Accept \/ Refuse \/ LoopArm \/ LoopTimer \/ LoopWake \/ LoopSignal)
    BY <1>1, BeginStage
    DEF LoopTick, Accept, Refuse, LoopArm, LoopTimer, LoopWake, LoopSignal
<1>6. ~UNCHANGED vars
    BY <1>1 DEF vars
<1>7. Confirm
    BY <1>3, <1>4, <1>5, <1>6 DEF Next, DaemonStep
<1>8. /\ ~GuardIsSet /\ EvaluateStep(op.request)
      /\ ActionToPerform(Resolved(op.request)) # "none"
      /\ op' = [op EXCEPT !.stage = "issue",
                          !.action = ActionToPerform(Resolved(op.request))]
      /\ UNCHANGED <<pending, machine, policy>>
    BY <1>1, <1>2, <1>7, ConfirmCases
<1>9. op'.action = ActionToPerform(Resolved(op.request))
    BY <1>8 DEF TypeOK, EngineOK, OpType
<1> QED
    BY <1>7, <1>8, <1>9

-----------------------------------------------------------------------------
(* One transition at a time. *)

TimedOut == now - accepted >= TRANSITION_TIMEOUT

\* Why no second transition is issued.  While logind carries one out the guard
\* still holds its instant, and no resume that would release the guard is queued.
\* A tick about to issue one knows that none is being carried out, which is what
\* makes it sound that a refusal clears the guard.
GuardInv ==
    /\ standing = "guarded" =>
          /\ accepted # None /\ power \in {"preparing", "off"}
          /\ TimedOut \/ (inFlight = accepted /\ ~ResumeUnread)
    /\ op.stage = "issue" => inFlight # None /\ (standing = "guarded" => TimedOut)

\* A step that leaves the guard, the machine's transition and its announcements
\* alone and does not commit keeps the invariant, also as time passes.
LEMMA GuardFrame ==
    ASSUME TypeOK, TypeOK', GuardInv, now <= now',
           UNCHANGED <<power, signals, standing, accepted, inFlight>>,
           op'.stage = "issue" => op.stage = "issue"
    PROVE  GuardInv'
<1>1. now \in Int /\ now' \in Int /\ accepted \in Int /\ TRANSITION_TIMEOUT \in Int
    BY ConstantTypes DEF TypeOK, MachineOK, None
<1>2. accepted' = accepted
    OBVIOUS
<1>3. TimedOut => TimedOut'
    <2>1. ASSUME NEW n \in Int, NEW m \in Int, NEW k \in Int, NEW t \in Int,
                 n <= m, n - k >= t
          PROVE  m - k >= t
        BY <2>1
    <2> QED
        BY <1>1, <1>2, <2>1 DEF TimedOut
<1>4. ResumeUnread' <=> ResumeUnread
    BY DEF ResumeUnread
<1> QED
    BY <1>2, <1>3, <1>4 DEF GuardInv

LEMMA GuardStep ==
    ASSUME TypeOK, TypeOK', GuardInv, [Next]_vars
    PROVE  GuardInv'
<1> USE DEF machine
<1>1. now \in Int /\ now <= now /\ accepted \in Int /\ inFlight \in Int
    BY ConstantTypes DEF TypeOK, MachineOK, EngineOK, None
<1>2. CASE CallerStep
    <2>1. UNCHANGED <<now, power, signals, standing, accepted, inFlight>>
        BY <1>2, CallerStage
    <2>2. op'.stage = "issue" => op.stage = "issue"
        BY <1>2, CallerStage
    <2> QED
        BY <1>1, <2>1, <2>2, GuardFrame
<1>3. CASE LoopTick \/ LoopArm \/ LoopTimer \/ LoopWake
    <2>1. UNCHANGED <<now, power, signals, standing, accepted, inFlight>>
        BY <1>3, BeginStage DEF LoopTick, LoopArm, LoopTimer, LoopWake
    <2>2. op'.stage = "issue" => op.stage = "issue"
        BY <1>3, BeginStage DEF LoopTick, LoopArm, LoopTimer, LoopWake
    <2> QED
        BY <1>1, <2>1, <2>2, GuardFrame
<1>4. CASE Confirm
    <2>1. /\ UNCHANGED <<now, power, signals, standing, accepted>> /\ op.stage = "confirm"
          /\ ResumeUnread' <=> ResumeUnread
        BY <1>4, ConfirmCases DEF ResumeUnread
    <2>2. CASE GuardIsSet
        <3>1. UNCHANGED inFlight /\ op'.stage = "idle"
            BY <1>4, <2>2, ConfirmCases DEF Idle
        <3> QED
            BY <1>1, <2>1, <3>1, GuardFrame
    <2>3. CASE ~GuardIsSet
        <3>1. standing = "guarded" => TimedOut
            BY <1>1, <2>3, ConstantTypes DEF GuardInv, GuardIsSet, TimedOut
        <3>2. TimedOut => TimedOut'
            BY <2>1 DEF TimedOut
        <3>3. op'.stage = "issue" => inFlight' # None
            BY <1>1, <1>4, <2>3, ConfirmCases, ConstantTypes
            DEF Idle, None, TypeOK, MachineOK, Instant
        <3> QED
            BY <2>1, <3>1, <3>2, <3>3 DEF GuardInv
    <2> QED
        BY <2>2, <2>3
<1>5. CASE Accept
    <2>1. /\ op.stage = "issue" /\ op'.stage = "idle" /\ power' \in {"preparing", "off"}
          /\ UNCHANGED inFlight /\ accepted' = inFlight
          /\ signals' = Append(signals, TRUE)
          /\ standing' = "guarded" => ~ResumeUnread
        BY <1>5 DEF Accept, Finish, Idle
    <2>2. ~ResumeUnread => ~ResumeUnread'
        <3>1. signals \in Seq(BOOLEAN)
            BY DEF TypeOK, MachineOK
        <3>2. /\ Len(signals') = Len(signals) + 1
              /\ \A i \in 1 .. Len(signals) : signals'[i] = signals[i]
              /\ signals'[Len(signals) + 1] = TRUE
            BY <2>1, <3>1, AppendProperties
        <3>3. Len(signals) \in Nat
            BY <3>1
        <3> QED
            BY <3>2, <3>3 DEF ResumeUnread
    <2> QED
        BY <2>1, <2>2 DEF GuardInv
<1>6. CASE Refuse
    <2>1. op.stage = "issue" /\ op'.stage = "idle"
          /\ UNCHANGED <<now, power, signals, standing, accepted>>
        BY <1>6 DEF Refuse, Finish, Idle
    <2>2. TimedOut <=> TimedOut'
        BY <2>1 DEF TimedOut
    <2> QED
        BY <2>1, <2>2 DEF GuardInv
<1>7. CASE LoopSignal
    <2>1. /\ UNCHANGED <<now, power, standing, accepted, op>>
          /\ signals' = Tail(signals) /\ signals # <<>> /\ signals \in Seq(BOOLEAN)
        BY <1>7 DEF LoopSignal, TypeOK, MachineOK
    <2>2. Len(signals) \in Nat /\ Len(signals) >= 1 /\ Head(signals) = signals[1]
        BY <2>1
    <2>3. \/ Head(signals) /\ UNCHANGED inFlight
          \/ ~Head(signals) /\ op.stage = "idle"
        BY <1>7 DEF LoopSignal
    <2>4. ~ResumeUnread => UNCHANGED inFlight /\ ~ResumeUnread'
        <3>1. /\ Len(signals') = Len(signals) - 1
              /\ \A i \in 1 .. Len(signals') : signals'[i] = signals[i + 1]
            BY <2>1, HeadTailProperties
        <3>2. ~ResumeUnread => UNCHANGED inFlight
            <4>1. signals[1] \in BOOLEAN
                BY <2>1, <2>2
            <4>2. signals[1] = FALSE => ResumeUnread
                BY <2>2 DEF ResumeUnread
            <4> QED
                BY <2>2, <2>3, <4>1, <4>2
        <3>3. ASSUME NEW i \in 1 .. Len(signals'), signals'[i] = FALSE
              PROVE  ResumeUnread
            <4>1. i + 1 \in 1 .. Len(signals) /\ signals[i + 1] = FALSE
                BY <2>2, <3>1, <3>3
            <4> QED
                BY <4>1 DEF ResumeUnread
        <3> QED
            BY <3>2, <3>3 DEF ResumeUnread
    <2>5. TimedOut <=> TimedOut'
        BY <2>1 DEF TimedOut
    <2>6. op.stage = "issue" => UNCHANGED inFlight
        BY <2>3
    <2> QED
        BY <2>1, <2>4, <2>5, <2>6 DEF GuardInv
<1>8. CASE TimePasses \/ (\E f \in WorldFacts, s \in {"true", "false", "indeterminate"} :
                             FactChanges(f, s)) \/ Touch
    <2>1. now <= now'
        BY <1>1, <1>8 DEF TimePasses, FactChanges, Touch
    <2>2. UNCHANGED <<power, signals, standing, accepted, daemon>>
        BY <1>8 DEF TimePasses, FactChanges, Touch
    <2>3. UNCHANGED <<inFlight, op>>
        BY <2>2 DEF daemon
    <2> QED
        BY <2>1, <2>2, <2>3, GuardFrame
<1>9. CASE ExternalSleep \/ DirectSleep \/ Wake
    <2>1. standing # "guarded" /\ UNCHANGED <<standing, op, inFlight>>
        BY <1>9 DEF ExternalSleep, DirectSleep, Wake, GuardInv, daemon
    <2> QED
        BY <2>1 DEF GuardInv
<1>10. CASE Freeze \/ Abandon \/ \E p \in Policies : Restart(p)
    <2>1. standing' # "guarded" /\ (op'.stage = "issue" => UNCHANGED <<op, inFlight>>)
        <3>1. CASE Freeze \/ Abandon
            BY <3>1 DEF Freeze, Abandon, daemon
        <3>2. CASE \E p \in Policies : Restart(p)
            BY <3>2 DEF Restart, Idle
        <3> QED
            BY <1>10, <3>1, <3>2
    <2> QED
        BY <2>1 DEF GuardInv
<1>11. CASE UNCHANGED vars
    BY <1>1, <1>11, GuardFrame DEF vars
<1> QED
    BY <1>2, <1>3, <1>4, <1>5, <1>6, <1>7, <1>8, <1>9, <1>10, <1>11
    DEF Next, DaemonStep, MachineStep

\* While logind carries out a transition of the daemon's, no other one is issued
\* before the timeout: with any number of ticks, requests, refusals and abandoned
\* sleeps in between, as long as the daemon lives and no older resume was unread when
\* logind accepted it (Engine::tick, transition_in_flight).
THEOREM OneTransition == Spec => OneTransitionAtATime
<1>1. Init => GuardInv
    BY DEF Init, GuardInv, FreshDaemon, Idle
<1>2. TypeOK /\ TypeOK' /\ GuardInv /\ [Next]_vars => GuardInv'
    BY GuardStep
<1>3. TypeOK /\ GuardInv /\ [Next]_vars =>
        (Confirmed /\ standing = "guarded" => now - accepted >= TRANSITION_TIMEOUT)
    <2> SUFFICES ASSUME TypeOK, GuardInv, [Next]_vars, Confirmed, standing = "guarded"
                 PROVE  TimedOut
        BY DEF TimedOut
    <2>1. ~GuardIsSet
        BY OnlyConfirmCommits
    <2>2. now \in Int /\ accepted \in Int
        BY ConstantTypes DEF TypeOK, MachineOK, None
    <2> QED
        BY <2>1, <2>2, ConstantTypes DEF GuardInv, GuardIsSet, TimedOut
<1> QED
    BY <1>1, <1>2, <1>3, TypeCorrect, PTL DEF Spec, OneTransitionAtATime

-----------------------------------------------------------------------------
(* The guard ends with its transition. *)

\* Who will release a guard that stands: logind, which is not done, the resume that
\* a sleeping machine announces, the announcement still to be read, or the timeout.
ReleaseInv ==
    inFlight # None /\ op.stage # "issue" =>
        \/ standing \in {"guarded", "overtaken", "dropped"}
        \/ power = "asleep" \/ ResumeUnread

\* An announcement added is one more to read, and none of the others is lost.
LEMMA UnreadStays ==
    ASSUME TypeOK, NEW e \in BOOLEAN, signals' = Append(signals, e), ResumeUnread \/ ~e
    PROVE  ResumeUnread'
<1>1. signals \in Seq(BOOLEAN) /\ Len(signals) \in Nat
    BY DEF TypeOK, MachineOK
<1>2. /\ Len(signals') = Len(signals) + 1
      /\ \A i \in 1 .. Len(signals) : signals'[i] = signals[i]
      /\ signals'[Len(signals) + 1] = e
    BY <1>1, AppendProperties
<1> QED
    BY <1>1, <1>2 DEF ResumeUnread

LEMMA ReleaseStep ==
    ASSUME TypeOK, ReleaseInv, [Next]_vars
    PROVE  ReleaseInv'
<1> USE DEF machine
<1>1. ASSUME UNCHANGED <<standing, power, signals>>,
             inFlight' = None \/ (inFlight' = inFlight /\ op.stage # "issue")
                 \/ op'.stage = "issue"
      PROVE  ReleaseInv'
    BY <1>1 DEF ReleaseInv, ResumeUnread
<1>2. CASE CallerStep
    <2>1. UNCHANGED <<standing, power, signals, inFlight>>
        BY <1>2, CallerStage
    <2>2. op.stage # "issue" \/ op'.stage = "issue"
        BY <1>2, CallerStage
    <2> QED
        BY <1>1, <2>1, <2>2
<1>3. CASE LoopTick \/ LoopArm \/ LoopTimer \/ LoopWake
    <2>1. UNCHANGED <<standing, power, signals, inFlight>>
        BY <1>3, BeginStage DEF LoopTick, LoopArm, LoopTimer, LoopWake
    <2>2. op.stage # "issue" \/ op'.stage = "issue"
        BY <1>3, BeginStage DEF LoopTick, LoopArm, LoopTimer, LoopWake
    <2> QED
        BY <1>1, <2>1, <2>2
<1>4. CASE Confirm
    <2>1. UNCHANGED <<standing, power, signals>> /\ op.stage = "confirm"
        BY <1>4, ConfirmCases
    <2>2. inFlight' = None \/ inFlight' = inFlight \/ op'.stage = "issue"
        BY <1>4, ConfirmCases DEF TypeOK, EngineOK, OpType
    <2> QED
        BY <1>1, <2>1, <2>2
<1>5. CASE Accept
    BY <1>5 DEF Accept, ReleaseInv
<1>6. CASE Refuse
    BY <1>1, <1>6 DEF Refuse
<1>7. CASE LoopSignal
    <2>1. /\ UNCHANGED <<power, standing, op>>
          /\ signals' = Tail(signals) /\ signals # <<>> /\ signals \in Seq(BOOLEAN)
        BY <1>7 DEF LoopSignal, TypeOK, MachineOK
    <2>2. CASE Head(signals) /\ UNCHANGED inFlight
        <3>1. ASSUME NEW i \in 1 .. Len(signals), signals[i] = FALSE PROVE ResumeUnread'
            <4>1. /\ Len(signals) \in Nat /\ Head(signals) = signals[1]
                  /\ Len(signals') = Len(signals) - 1
                  /\ \A j \in 1 .. Len(signals') : signals'[j] = signals[j + 1]
                BY <2>1, HeadTailProperties
            <4>2. i # 1
                BY <2>2, <3>1, <4>1
            <4>3. i - 1 \in 1 .. Len(signals') /\ signals'[i - 1] = signals[i]
                BY <4>1, <4>2
            <4> QED
                BY <3>1, <4>3 DEF ResumeUnread
        <3> QED
            BY <2>1, <2>2, <3>1 DEF ReleaseInv, ResumeUnread
    <2>3. CASE inFlight' = None
        BY <2>3 DEF ReleaseInv
    <2> QED
        BY <1>7, <2>2, <2>3 DEF LoopSignal
<1>8. CASE TimePasses \/ Touch \/ (\E f \in WorldFacts, s \in {"true", "false", "indeterminate"} :
                                      FactChanges(f, s))
    <2>1. UNCHANGED <<standing, power, signals, inFlight, op>>
        BY <1>8 DEF TimePasses, FactChanges, Touch, daemon
    <2> QED
        BY <2>1 DEF ReleaseInv, ResumeUnread
<1>9. CASE ExternalSleep \/ DirectSleep
    <2>1. UNCHANGED <<standing, inFlight, op>> /\ power # "asleep"
          /\ (signals' = signals \/ signals' = Append(signals, TRUE))
        BY <1>9 DEF ExternalSleep, DirectSleep, daemon
    <2>2. ResumeUnread => ResumeUnread'
        BY <2>1, UnreadStays DEF ResumeUnread
    <2> QED
        BY <2>1, <2>2 DEF ReleaseInv
<1>10. CASE Freeze
    BY <1>10 DEF Freeze, ReleaseInv
<1>11. CASE Wake
    <2>1. UNCHANGED <<standing, inFlight, op>>
        BY <1>11 DEF Wake, daemon
    <2>2. \/ signals' = Append(signals, FALSE)
          \/ signals' = signals /\ power = "slept"
        BY <1>11 DEF Wake
    <2>3. CASE signals' = Append(signals, FALSE)
        BY <2>3, UnreadStays DEF ReleaseInv
    <2>4. CASE signals' = signals /\ power = "slept"
        BY <2>1, <2>4 DEF ReleaseInv, ResumeUnread
    <2> QED
        BY <2>2, <2>3, <2>4
<1>12. CASE Abandon
    <2>1. UNCHANGED <<inFlight, op>> /\ power = "preparing"
        BY <1>12 DEF Abandon, daemon
    <2>2. \/ signals' = Append(signals, FALSE)
          \/ standing' = "dropped"
          \/ standing \in {"none", "forgotten"} /\ UNCHANGED signals
        BY <1>12 DEF Abandon
    <2>3. CASE signals' = Append(signals, FALSE)
        BY <2>3, UnreadStays DEF ReleaseInv
    <2>4. CASE standing' = "dropped"
        BY <2>4 DEF ReleaseInv
    <2>5. CASE standing \in {"none", "forgotten"} /\ UNCHANGED signals
        BY <2>1, <2>5 DEF ReleaseInv, ResumeUnread
    <2> QED
        BY <2>2, <2>3, <2>4, <2>5
<1>13. CASE \E p \in Policies : Restart(p)
    BY <1>13 DEF Restart, ReleaseInv
<1>14. CASE UNCHANGED vars
    BY <1>14 DEF vars, ReleaseInv, ResumeUnread
<1> QED
    BY <1>2, <1>3, <1>4, <1>5, <1>6, <1>7, <1>8, <1>9, <1>10, <1>11, <1>12, <1>13, <1>14
    DEF Next, DaemonStep, MachineStep

\* The guard does not outlive its transition: whatever was refused, abandoned, slept
\* through or lost with a restarted daemon, it stands between two ticks only while
\* logind carries one out, until its resume has been read, or after logind dropped it
\* in silence, which only the timeout can end (note_transition_finished, Engine::tick).
THEOREM GuardReleased == Spec => []GuardIsReleased
<1>1. Init => ReleaseInv
    BY DEF Init, FreshDaemon, ReleaseInv
<1>2. TypeOK /\ ReleaseInv /\ [Next]_vars => ReleaseInv'
    BY ReleaseStep
<1>3. ReleaseInv => GuardIsReleased
    BY DEF ReleaseInv, GuardIsReleased, GuardIsSet
<1> QED
    BY <1>1, <1>2, <1>3, TypeCorrect, PTL DEF Spec

-----------------------------------------------------------------------------
(* A request is answered with the action it named, or with none. *)

\* Whose request a tick carries: a held request names an action, and a tick of
\* the loop that found one held carries that one to its end.
HeldInv ==
    /\ pending # NoPending => pending.action \in Actions
    /\ op.stage # "idle" /\ op.by = "rest_pending" => op.request.requested \in Actions
    /\ op.stage # "idle" /\ op.by = "loop" /\ pending # NoPending
          => op.request.requested = pending.action

\* What the end of a tick holds names an action.
LEMMA AnswerHeld ==
    ASSUME NEW by, NEW asked, NEW ttl, NEW performed, NEW clock, NEW held,
           Finish(by, asked, ttl, performed, clock, held),
           by = "rest_pending" => asked \in Actions,
           held # NoPending => held.action \in Actions
    PROVE  HeldInv'
<1>1. op'.stage = "idle"
    BY DEF Finish, Idle
<1>2. pending' = AfterAnswer(by, asked, ttl, performed, clock, held)
    BY DEF Finish
<1>3. pending' # NoPending => pending'.action \in Actions
    BY <1>2 DEF AfterAnswer
<1> QED
    BY <1>1, <1>3 DEF HeldInv

\* A tick that begins carries the held request, if there is one and it is the
\* loop's, or the caller's own.
LEMMA BeginHeld ==
    ASSUME HeldInv, NEW by, NEW explicit, NEW ttl, Begin(by, explicit, ttl),
           \/ by = "loop" /\ explicit = NoRequest
           \/ by # "loop" /\ explicit.requested \in Actions
    PROVE  HeldInv'
<1>1. Held # NoPending => Held = pending /\ Held.action \in Actions
    BY DEF Held, HeldInv
<1>2. CASE Finish(by, explicit.requested, ttl, "none", Snapshot, Held)
    BY <1>1, <1>2, AnswerHeld
<1>3. CASE /\ op' = [by |-> by, stage |-> "confirm", request |-> Effective(explicit),
                     action |-> ActionToPerform(Resolved(Effective(explicit))), ttl |-> ttl]
           /\ pending' = Held
    <2>1. /\ op'.by = by /\ op'.request = Effective(explicit)
        BY <1>3
    <2>2. by = "loop" /\ Held # NoPending => op'.request.requested = Held.action
        BY <2>1 DEF Effective, NoRequest
    <2>3. by = "rest_pending" => op'.request.requested \in Actions
        <3>1. "none" \notin Actions
            BY DEF Actions
        <3> QED
            BY <2>1, <3>1 DEF Effective
    <2> QED
        BY <1>1, <1>3, <2>1, <2>2, <2>3 DEF HeldInv
<1> QED
    BY <1>2, <1>3 DEF Begin

LEMMA HeldStep ==
    ASSUME TypeOK, HeldInv, [Next]_vars
    PROVE  HeldInv'
<1>1. CASE LoopTick
    BY <1>1, BeginHeld DEF LoopTick
<1>2. ASSUME NEW a \in Requests,
             Rest(a) \/ RestForced(a) \/ \E ttl \in TTLs : RestPending(a, ttl)
      PROVE  HeldInv'
    <2>1. a \in Actions
        BY SiteTypes DEF TypeOK, MachineOK
    <2> QED
        BY <1>2, <2>1, BeginHeld DEF Rest, RestForced, RestPending
<1>3. CASE CancelPending
    BY <1>3 DEF CancelPending, HeldInv
<1>4. CASE \/ ReleaseLease \/ HolderCloses \/ RegisterAgent \/ UnregisterAgent
           \/ ReportSession \/ (\E ttl \in LeaseTTLs : AcquireLease(ttl))
           \/ (\E p \in Policies : Reload(p))
    BY <1>4 DEF ReleaseLease, HolderCloses, RegisterAgent, UnregisterAgent, ReportSession,
                AcquireLease, Reload, HeldInv
<1>5. CASE Confirm
    <2>1. \/ \E clock : Finish(op.by, op.request.requested, op.ttl, "none", clock, pending)
          \/ UNCHANGED pending /\ op' = [op EXCEPT !.stage = "issue",
                                  !.action = ActionToPerform(Resolved(op.request))]
        BY <1>5 DEF Confirm
    <2>2. op.stage = "confirm"
        BY <1>5 DEF Confirm
    <2>3. CASE \E clock : Finish(op.by, op.request.requested, op.ttl, "none", clock, pending)
        BY <2>2, <2>3, AnswerHeld DEF HeldInv
    <2>4. CASE UNCHANGED pending /\ op' = [op EXCEPT !.stage = "issue",
                                   !.action = ActionToPerform(Resolved(op.request))]
        <3>1. op'.by = op.by /\ op'.request = op.request
            BY <2>4
        <3> QED
            BY <2>2, <2>4, <3>1 DEF HeldInv
    <2> QED
        BY <2>1, <2>3, <2>4
<1>6. CASE Accept
    <2> DEFINE held == IF pending.action = op.action THEN NoPending ELSE pending
    <2>1. op.stage = "issue"
          /\ Finish(op.by, op.request.requested, op.ttl, op.action, clocks, held)
        BY <1>6 DEF Accept
    <2>2. held # NoPending => held.action \in Actions
        BY DEF HeldInv
    <2> HIDE DEF held
    <2> QED
        BY <2>1, <2>2, AnswerHeld DEF HeldInv
<1>7. CASE Refuse
    BY <1>7, AnswerHeld DEF Refuse, HeldInv
<1>8. CASE LoopArm \/ LoopTimer \/ LoopWake \/ LoopSignal
    BY <1>8 DEF LoopArm, LoopTimer, LoopWake, LoopSignal, HeldInv
<1>9. CASE MachineStep
    <2>1. ASSUME UNCHANGED daemon PROVE HeldInv'
        BY <2>1 DEF daemon, HeldInv
    <2>2. ASSUME NEW p \in Policies, Restart(p) PROVE HeldInv'
        BY <2>2 DEF Restart, Idle, HeldInv
    <2>3. UNCHANGED daemon \/ \E p \in Policies : Restart(p)
        BY <1>9 DEF MachineStep, TimePasses, FactChanges, Touch, ExternalSleep, Freeze,
                    Abandon, DirectSleep, Wake
    <2> QED
        BY <2>1, <2>2, <2>3
<1>10. CASE UNCHANGED vars
    BY <1>10 DEF vars, HeldInv
<1> QED
    BY <1>1, <1>2, <1>3, <1>4, <1>5, <1>6, <1>7, <1>8, <1>9, <1>10
    DEF Next, DaemonStep, CallerStep

\* A request that names an action is answered with that action or with none, also
\* when the loop retries it while a different sleep is due
\* (Decision::action_to_perform, Engine::resolve_pending).
THEOREM NamedAction == Spec => NamedOrNothing
<1>1. Init => HeldInv
    BY DEF Init, FreshDaemon, Idle, HeldInv
<1>2. TypeOK /\ HeldInv /\ [Next]_vars => HeldInv'
    BY HeldStep
<1>3. TypeOK /\ HeldInv /\ [Next]_vars =>
        (Confirmed =>
            /\ op.request.requested \in {"none", op'.action}
            /\ op.by = "loop" /\ pending # NoPending => op'.action = pending.action)
    <2> SUFFICES ASSUME TypeOK, HeldInv, [Next]_vars, Confirmed
                 PROVE  /\ op.request.requested \in {"none", op'.action}
                        /\ op.by = "loop" /\ pending # NoPending
                              => op'.action = pending.action
        OBVIOUS
    <2>1. /\ ActionToPerform(Resolved(op.request)) # "none"
          /\ op'.action = ActionToPerform(Resolved(op.request))
        BY OnlyConfirmCommits
    <2>2. Resolved(op.request) \in Decision
        BY EvaluationTypes DEF TypeOK, EngineOK, OpType
    <2>3. Resolved(op.request).requested = op.request.requested
        BY DEF Resolved, ResolveRequest
    <2>4. op.request.requested # "none" => op'.action = op.request.requested
        BY <2>1, <2>2, <2>3, Performed
    <2>5. op.by = "loop" /\ pending # NoPending
            => op.request.requested = pending.action /\ pending.action # "none"
        BY DEF HeldInv, Confirmed, Actions
    <2> QED
        BY <2>4, <2>5
<1> QED
    BY <1>1, <1>2, <1>3, TypeCorrect, PTL DEF Spec, NamedOrNothing

-----------------------------------------------------------------------------
(* The commitment to a sleep, seen from the policy engine. *)

\* The input of the second evaluation.
Confirming ==
    [policy |-> policy, facts |-> Facts, clocks |-> Snapshot,
     edges |-> Observe(edges, policy, Facts, now), request |-> op.request]

\* A sleep that is committed to, and that no ceiling forces, has every floor of
\* that very instant behind it.
LEMMA CommittedFloors ==
    ASSUME TypeOK, [Next]_vars, Confirmed, ~Overridden(op'.action)
    PROVE  /\ Confirming \in Input
           /\ op'.action \in Actions /\ IsSleep(op'.action)
           /\ \A d \in Floors(Confirming, op'.action) : d <= now
<1>1. op.request \in Request
    BY DEF TypeOK, EngineOK, OpType
<1>2. Confirming \in Input /\ Resolved(op.request) \in Decision
    BY <1>1, EvaluationTypes DEF Confirming
<1>3. Resolved(op.request) = ResolveRequest(Confirming)
    BY DEF Resolved, Confirming
<1>4. op'.action \in SleepDue(ResolveRequest(Confirming))
    BY <1>2, <1>3, Performed, OnlyConfirmCommits
<1>5. op'.action \in Actions /\ IsSleep(op'.action)
      /\ Due(ResolveRequest(Confirming), op'.action)
    BY <1>4 DEF SleepDue
<1>6. /\ Confirming.request.force # op'.action
      /\ \A b \in Confirming.policy.blocks :
            ~(b.kind = "when" /\ b.enabled /\ b.timeouts[op'.action] # Silent)
    BY DEF Overridden, Confirming
<1>7. Confirming.clocks.now = now
    BY DEF Confirming, Snapshot
<1> QED
    BY <1>2, <1>5, <1>6, <1>7, NothingForces

-----------------------------------------------------------------------------
(* The settle window runs from the instant the machine really woke. *)

\* What the tracker has not seen it will see: until a sleep has been noticed the
\* suspended time counts more than the tracker has, and once noticed its resume is
\* no earlier than the wake.
ResumeInv ==
    /\ resume.seen <= asleepFor
    /\ power \in {"asleep", "slept"} => resume.seen < asleepFor
    /\ woke # NotYet =>
          /\ woke <= now /\ asleepFor > 0
          /\ \/ asleepFor > resume.seen
             \/ resume.resumed_this_boot /\ resume.last_resume >= woke

LEMMA InitResume ==
    ASSUME Init
    PROVE  ResumeInv
<1>1. resume = Adopted /\ asleepFor = 0 /\ woke = NotYet /\ power = "on"
    BY DEF Init, FreshDaemon
<1> QED
    BY <1>1 DEF ResumeInv, Adopted

\* The tracker after the next evaluation has seen the latest wake.
LEMMA SampleSees ==
    ASSUME TypeOK, ResumeInv
    PROVE  /\ SampledResume.seen = asleepFor
           /\ woke # NotYet => /\ SampledResume.resumed_this_boot
                               /\ SampledResume.last_resume >= woke
BY DEF TypeOK, MachineOK, SampledOK, ResumeType, ResumeInv, SampledResume

\* Callers evaluate while the machine is awake, or leave the tracker alone.
LEMMA CallerResume ==
    ASSUME CallerStep
    PROVE  resume' = resume \/ (resume' = SampledResume /\ Awake)
<1>1. ASSUME NEW by, NEW explicit, NEW ttl, Begin(by, explicit, ttl)
      PROVE  resume' = SampledResume /\ Awake
    BY <1>1 DEF Begin, EvaluateStep
<1>2. ASSUME NEW a \in Requests,
             Rest(a) \/ RestForced(a) \/ \E ttl \in TTLs : RestPending(a, ttl)
      PROVE  resume' = SampledResume /\ Awake
    BY <1>1, <1>2 DEF Rest, RestForced, RestPending
<1>3. CASE \/ CancelPending \/ ReleaseLease \/ HolderCloses \/ RegisterAgent
           \/ UnregisterAgent \/ ReportSession
           \/ (\E ttl \in LeaseTTLs : AcquireLease(ttl))
           \/ (\E p \in Policies : Reload(p))
    BY <1>3 DEF CancelPending, ReleaseLease, HolderCloses, RegisterAgent, UnregisterAgent,
                ReportSession, AcquireLease, Reload, sampled
<1> QED
    BY <1>2, <1>3 DEF CallerStep

LEMMA ResumeStep ==
    ASSUME TypeOK, TypeOK', ResumeInv, [Next]_vars
    PROVE  ResumeInv'
<1>1. /\ now \in Nat /\ asleepFor \in Nat /\ resume.seen \in Nat
      /\ resume.last_resume \in Int /\ woke \in Int
    BY ConstantTypes DEF TypeOK, MachineOK, SampledOK, ResumeType, NotYet
<1> DEFINE Clock == <<now, asleepFor, woke, power>>
<1>2. ASSUME UNCHANGED Clock, resume' = resume \/ (resume' = SampledResume /\ Awake)
      PROVE  ResumeInv'
    <2>1. CASE resume' = resume
        BY <1>2, <2>1 DEF ResumeInv
    <2>2. CASE resume' = SampledResume /\ Awake
        <3>1. power' \notin {"asleep", "slept"}
            BY <1>2, <2>2 DEF Awake
        <3>2. asleepFor' = asleepFor /\ now' = now /\ woke' = woke
            BY <1>2
        <3> QED
            BY <1>1, <2>2, <3>1, <3>2, SampleSees DEF ResumeInv
    <2> QED
        BY <1>2, <2>1, <2>2
<1>3. CASE CallerStep
    BY <1>2, <1>3, CallerStage, CallerResume DEF machine
<1>4. CASE LoopTick \/ Confirm
    BY <1>2, <1>4 DEF LoopTick, Begin, Confirm, EvaluateStep, machine, sampled
<1>5. CASE LoopArm \/ LoopTimer \/ LoopWake \/ Refuse
    BY <1>2, <1>5 DEF LoopArm, LoopTimer, LoopWake, Refuse, machine, sampled
<1>6. CASE Accept
    <2>1. /\ UNCHANGED <<now, asleepFor, woke, resume>>
          /\ power' \notin {"asleep", "slept"}
        BY <1>6 DEF Accept, sampled
    <2> QED
        BY <2>1 DEF ResumeInv
<1>7. CASE LoopSignal
    <2>1. UNCHANGED Clock /\ Awake /\ (resume' = resume \/ resume' = AnnouncedResume)
        BY <1>7 DEF LoopSignal
    <2>2. CASE resume' = AnnouncedResume
        <3>1. power' \notin {"asleep", "slept"}
            BY <2>1 DEF Awake
        <3>2. asleepFor' = asleepFor /\ now' = now /\ woke' = woke
            BY <2>1
        <3> QED
            BY <1>1, <2>2, <3>1, <3>2 DEF ResumeInv, AnnouncedResume
    <2> QED
        BY <1>2, <2>1, <2>2
<1>8. CASE TimePasses
    <2>1. /\ UNCHANGED <<woke, power, resume>> /\ now' = now + 1
          /\ asleepFor' = asleepFor \/ asleepFor' = asleepFor + 1
        BY <1>8 DEF TimePasses, daemon, sampled
    <2> QED
        BY <1>1, <2>1 DEF ResumeInv
<1>9. CASE Freeze \/ DirectSleep
    <2>1. UNCHANGED <<woke, resume>> /\ now' = now + 1 /\ asleepFor' = asleepFor + 1
        BY <1>9 DEF Freeze, DirectSleep, daemon, sampled
    <2> QED
        BY <1>1, <2>1 DEF ResumeInv
<1>10. CASE Wake
    <2>1. /\ UNCHANGED <<now, asleepFor, resume>> /\ woke' = now
          /\ power \in {"asleep", "slept"} /\ power' = "on"
        BY <1>10 DEF Wake, daemon, sampled
    <2> QED
        BY <1>1, <2>1 DEF ResumeInv
<1>11. CASE ExternalSleep \/ Abandon
    <2>1. UNCHANGED <<now, asleepFor, woke, resume>> /\ power' \in {"on", "preparing"}
        BY <1>11 DEF ExternalSleep, Abandon, daemon, sampled
    <2> QED
        BY <2>1 DEF ResumeInv
<1>12. CASE Touch \/ \E f \in WorldFacts, s \in {"true", "false", "indeterminate"} :
                        FactChanges(f, s)
    BY <1>2, <1>12 DEF Touch, FactChanges, daemon, sampled
<1>13. ASSUME NEW p \in Policies, Restart(p) PROVE ResumeInv'
    <2>1. UNCHANGED <<now, asleepFor, woke, power>> /\ resume' = Adopted /\ Awake
        BY <1>13 DEF Restart
    <2>2. power' \notin {"asleep", "slept"}
        BY <2>1 DEF Awake
    <2>3. /\ resume'.seen = asleepFor
          /\ asleepFor > 0 => resume'.resumed_this_boot /\ resume'.last_resume = now
        BY <2>1 DEF Adopted
    <2>4. asleepFor' = asleepFor /\ now' = now /\ woke' = woke
        BY <2>1
    <2> QED
        BY <1>1, <2>2, <2>3, <2>4 DEF ResumeInv
<1>14. CASE UNCHANGED vars
    BY <1>2, <1>14 DEF vars, machine, sampled
<1> QED
    BY <1>3, <1>4, <1>5, <1>6, <1>7, <1>8, <1>9, <1>10, <1>11, <1>12, <1>13, <1>14
    DEF Next, DaemonStep, MachineStep

\* No sleep is issued on the machine's own account before the settle window has
\* run from the instant the machine really woke, whether that resume was
\* announced, slept through unannounced, or happened before the daemon started
\* (ResumeTracker, [while.after_resume] on the resume clock).
THEOREM SettleWindowHolds == Spec => SettleWindow
<1>1. TypeOK /\ Init => ResumeInv
    BY InitResume
<1>2. TypeOK /\ TypeOK' /\ ResumeInv /\ [Next]_vars => ResumeInv'
    BY ResumeStep
<1>3. TypeOK /\ ResumeInv /\ [Next]_vars =>
        (Confirmed /\ ~op.request.now /\ ~Overridden(op'.action) =>
            \A b \in WhileBlocks(op'.action) :
                b.condition = "after_resume" /\ b.clock = "resume"
                  /\ "after_resume" \in policy.facts /\ woke # NotYet
                => now >= woke + b.timeouts[op'.action])
    <2> SUFFICES ASSUME TypeOK, ResumeInv, [Next]_vars,
                        Confirmed, ~op.request.now, ~Overridden(op'.action),
                        NEW b \in WhileBlocks(op'.action),
                        b.condition = "after_resume", b.clock = "resume",
                        "after_resume" \in policy.facts, woke # NotYet
                 PROVE  now >= woke + b.timeouts[op'.action]
        OBVIOUS
    <2> DEFINE a == op'.action
               last == SampledResume.last_resume
    <2>1. /\ Confirming \in Input /\ a \in Actions
          /\ \A d \in Floors(Confirming, a) : d <= now
        BY CommittedFloors
    <2>2. /\ Confirming.facts = Facts /\ Confirming.clocks = Snapshot
          /\ Confirming.clocks.now = now /\ Confirming.clocks.resume = last
          /\ Confirming.request = op.request /\ Confirming.policy = policy
        BY DEF Confirming, Snapshot
    <2>3. /\ b \in policy.blocks /\ b.kind = "while" /\ b.enabled
          /\ b.timeouts[a] # Silent
        BY DEF WhileBlocks
    <2>4. b \in Block /\ b.timeouts[a] \in Int
        <3>1. b \in Block
            BY <2>3, SiteTypes DEF TypeOK, MachineOK, EngineOK, PolicyType
        <3> QED
            BY <2>1, <3>1, PolicyConstants DEF Block, Silent, Never
    <2>5. SampledResume.resumed_this_boot /\ last >= woke
        BY SampleSees
    <2>6. Evaluate(b.condition, Confirming.facts) = "true"
        <3>1. Facts["after_resume"] = "true"
            BY <2>5, ReadCases, PolicyConstants DEF Facts
        <3> QED
            BY <2>2, <3>1 DEF Evaluate
    <2>7. OriginOf(Confirming, b) = last
        BY <2>1, <2>2, <2>4, OriginCases
    <2>8. last \in Int /\ woke \in Nat /\ now \in Int
        <3>1. SampledResume \in ResumeType
            BY ReapTypes
        <3> QED
            BY <3>1, ConstantTypes DEF ResumeType, NotYet, TypeOK, MachineOK
    <2>9. Known(OriginOf(Confirming, b))
        BY <2>5, <2>7, <2>8 DEF Known
    <2>10. now >= last + b.timeouts[a]
        <3> HIDE DEF a, last
        <3> QED
            BY <2>1, <2>2, <2>3, <2>6, <2>7, <2>9, FloorRuns
    <2> QED
        BY <2>4, <2>5, <2>8, <2>10
<1> QED
    BY <1>1, <1>2, <1>3, TypeCorrect, PTL DEF Spec, SettleWindow
-----------------------------------------------------------------------------
(* Nothing that is true, doubtful or unseen holds a sleep that is committed to. *)

\* A silent or blind session agent reads as doubt about the human.
LEMMA BlindnessReads ==
    ASSUME TypeOK, HeldByBlindness
    PROVE  "human_active" \in policy.facts /\ Facts["human_active"] = "indeterminate"
<1>1. "human_active" \in policy.facts /\ "human_active" \in FactId
    BY PolicyConstants DEF HeldByBlindness
<1>2. HumanOrigin = Unreadable
    BY DEF HeldByBlindness, HumanOrigin, ReapedAgent, StaleAgent, NoAgent
<1>3. ~Known(Unreadable) /\ Unreadable # NotYet
    BY DEF Known, Unreadable, NotYet
<1>4. HumanActive = "indeterminate"
    BY <1>2, <1>3 DEF HumanActive
<1> QED
    BY <1>1, <1>4, ReadCases DEF Facts

\* A human reported active, by an agent that is alive, reads as one.
LEMMA HumanReads ==
    ASSUME TypeOK, NEW a, HeldByHuman(a)
    PROVE  Facts["human_active"] = "true"
<1>1. "human_active" \in policy.facts /\ "human_active" \in FactId
    BY PolicyConstants DEF HeldByHuman
<1>2. HumanOrigin = agent.origin /\ Known(agent.origin)
    <2>1. agent.last_report \in Int /\ now \in Int /\ HEARTBEAT_MAX_AGE \in Int
        BY ConstantTypes DEF TypeOK, MachineOK, SampledOK, AgentType
    <2>2. ReapedAgent = agent
        BY <2>1 DEF HeldByHuman, ReapedAgent, StaleAgent
    <2> QED
        BY <2>2 DEF HeldByHuman, HumanOrigin
<1>3. Known(agent.origin) => agent.origin # NotYet /\ agent.origin # Unreadable
    BY DEF Known, NotYet, Unreadable
<1>4. HumanActive = "true"
    BY <1>2, <1>3 DEF HumanActive, HeldByHuman
<1> QED
    BY <1>1, <1>4, ReadCases DEF Facts

\* At the instant a tick commits to a sleep that no ceiling forces, nothing holds that
\* sleep: no fact of the world true under a block that says never or in doubt, no live
\* lease, no human reported active, no silent session agent, and, unless rest --now
\* waives it, no resume under a block that says never, also after a restart
\* (Engine::tick, resolve_action).  A human is seen as reported: no report is taken
\* in between the two evaluations.
THEOREM NothingIsWaived == Spec => NothingHolds
<1>1. TypeOK /\ Init => ResumeInv
    BY InitResume
<1>2. TypeOK /\ TypeOK' /\ ResumeInv /\ [Next]_vars => ResumeInv'
    BY ResumeStep
<1>3. TypeOK /\ ResumeInv /\ [Next]_vars =>
        (Confirmed /\ ~Overridden(op'.action) =>
            /\ ~HeldByFact(op'.action) /\ ~HeldByLease(op'.action)
            /\ ~HeldByHuman(op'.action) /\ ~HeldByBlindness
            /\ op.request.now \/ ~HeldByResume(op'.action))
    <2> SUFFICES ASSUME TypeOK, ResumeInv, [Next]_vars, Confirmed, ~Overridden(op'.action)
                 PROVE  /\ ~HeldByFact(op'.action) /\ ~HeldByLease(op'.action)
                        /\ ~HeldByHuman(op'.action) /\ ~HeldByBlindness
                        /\ op.request.now \/ ~HeldByResume(op'.action)
        OBVIOUS
    <2> DEFINE a == op'.action
    <2>1. /\ Confirming \in Input /\ a \in Actions /\ IsSleep(a)
          /\ \A d \in Floors(Confirming, a) : d <= now
        BY CommittedFloors
    <2>2. /\ Confirming.policy = policy /\ Confirming.facts = Facts
          /\ Confirming.clocks.now = now /\ Confirming.request = op.request
        BY DEF Confirming, Snapshot
    <2>3. now \in Instant /\ policy \in PolicyType
        BY SiteTypes DEF TypeOK, MachineOK, EngineOK
    <2>4. Never \notin Floors(Confirming, a)
        BY <2>1, <2>3, NeverFacts
    <2>5. Doubtful(Confirming) = {}
        BY <2>1, <2>4 DEF Floors, ImplicitFloors, IsSleep, VetoedByDoubt
    <2>6. ASSUME NEW f \in policy.facts PROVE Facts[f] # "indeterminate"
        BY <2>2, <2>5 DEF Doubtful
    <2>7. ASSUME NEW b \in WhileBlocks(a), b.timeouts[a] = Never,
                 b.condition \in FactId, op.request.now => b.condition # "after_resume"
          PROVE  Facts[b.condition] # "true"
        <3>1. b.condition # "always" /\ ~SatisfiedByRequest(Confirming, b)
            BY <2>2, <2>7, PolicyConstants DEF SatisfiedByRequest
        <3>2. Evaluate(b.condition, Facts) = Facts[b.condition]
            BY <3>1 DEF Evaluate
        <3>3. b \in policy.blocks /\ b.kind = "while" /\ b.enabled
            BY DEF WhileBlocks
        <3> HIDE DEF a
        <3> QED
            BY <2>1, <2>2, <2>4, <2>7, <3>1, <3>2, <3>3, NeverFloor
    <2>8. ASSUME NEW f \in policy.facts \cap WorldFacts
          PROVE  f \in FactId \ {"after_resume"} /\ Facts[f] = world[f]
        <3>1. f \in FactId /\ f \notin DaemonFacts
            BY DEF WorldFacts
        <3> QED
            BY <3>1, ReadCases DEF Facts, DaemonFacts
    <2>9. ~HeldByFact(a)
        <3>1. \A f \in policy.facts \cap WorldFacts : world[f] # "indeterminate"
            BY <2>6, <2>8
        <3>2. ASSUME NEW b \in WhileBlocks(a), b.timeouts[a] = Never,
                     b.condition \in policy.facts \cap WorldFacts
              PROVE  world[b.condition] # "true"
            BY <2>7, <2>8, <3>2
        <3> QED
            BY <3>1, <3>2 DEF HeldByFact
    <2>10. ~HeldByLease(a)
        <3>1. SUFFICES ASSUME HeldByLease(a) PROVE FALSE
            OBVIOUS
        <3>2. PICK b \in WhileBlocks(a) : b.condition = "lease_held" /\ b.timeouts[a] = Never
            BY <3>1 DEF HeldByLease
        <3>3. "lease_held" \in policy.facts /\ lease.open /\ now < lease.expires
            BY <3>1 DEF HeldByLease
        <3>4. lease.expires # None /\ ~LeaseOver
            BY <2>3, <3>3, ConstantTypes
            DEF LeaseOver, None, TypeOK, SampledOK, LeaseType
        <3>5. ReapedLease = lease
            BY <3>4 DEF ReapedLease
        <3>6. Facts["lease_held"] = "true"
            BY <3>3, <3>4, <3>5, ReadCases, EngineConstants DEF Facts
        <3> QED
            BY <2>7, <3>2, <3>6, EngineConstants
    <2>11. ~HeldByBlindness
        BY <2>6, BlindnessReads
    <2>12. ~HeldByHuman(a)
        <3>1. SUFFICES ASSUME HeldByHuman(a) PROVE FALSE
            OBVIOUS
        <3>2. PICK b \in WhileBlocks(a) : b.condition = "human_active" /\ b.timeouts[a] = Never
            BY <3>1 DEF HeldByHuman
        <3> QED
            BY <2>7, <3>1, <3>2, HumanReads, PolicyConstants
    <2>13. op.request.now \/ ~HeldByResume(a)
        <3>1. SUFFICES ASSUME ~op.request.now, HeldByResume(a) PROVE FALSE
            OBVIOUS
        <3>2. PICK b \in WhileBlocks(a) : b.condition = "after_resume" /\ b.timeouts[a] = Never
            BY <3>1 DEF HeldByResume
        <3>3. Facts["after_resume"] = "true"
            BY <3>1, SampleSees, ReadCases, PolicyConstants DEF Facts, HeldByResume
        <3> QED
            BY <2>7, <3>1, <3>2, <3>3, PolicyConstants
    <2> QED
        BY <2>9, <2>10, <2>11, <2>12, <2>13
<1> QED
    BY <1>1, <1>2, <1>3, TypeCorrect, PTL DEF Spec, NothingHolds

-----------------------------------------------------------------------------
(* A loop that waits has a timer for whatever falls due. *)

\* Whose tick it is: one of the loop is under way only while the loop is at the
\* top of its turn, one of a caller names an action, and where nobody holds
\* requests none is held.
TickInv ==
    /\ op.stage # "idle" /\ op.by = "loop" => loop = "tick"
    /\ op.stage # "idle" /\ op.by # "loop" => op.request.requested \in Actions
    /\ ~May("pending") =>
          pending = NoPending /\ (op.stage # "idle" => op.by # "rest_pending")
    /\ ~May("direct") => power # "slept"

\* Which machine this is never changes.
LEMMA SameSite ==
    ASSUME [Next]_vars
    PROVE  site' = site
<1>1. CASE CallerStep
    BY <1>1, CallerStage DEF machine
<1>2. CASE DaemonStep
    BY <1>2, BeginStage
    DEF DaemonStep, LoopTick, Confirm, Accept, Refuse, LoopArm, LoopTimer, LoopWake, LoopSignal,
        machine
<1>3. CASE MachineStep
    BY <1>3 DEF MachineStep, TimePasses, FactChanges, Touch, ExternalSleep, Freeze, Abandon,
                DirectSleep, Wake, Restart
<1>4. CASE UNCHANGED vars
    BY <1>4 DEF vars, machine
<1> QED
    BY <1>1, <1>2, <1>3, <1>4 DEF Next

\* The end of a tick that nobody wants held.
LEMMA FinishTick ==
    ASSUME NEW by, NEW asked, NEW ttl, NEW performed, NEW clock, NEW held,
           Finish(by, asked, ttl, performed, clock, held)
    PROVE  /\ op'.stage = "idle"
           /\ loop' = IF by = "loop" THEN "arm" ELSE loop
           /\ by # "rest_pending" => pending' = held
BY DEF Finish, Idle, AfterAnswer, ReturnTo

\* A tick that begins is the loop's or a caller's, who asks for an action; it
\* leaves a decision made for whoever began it.
LEMMA BeginTick ==
    ASSUME TickInv, NEW by, NEW explicit, NEW ttl, Begin(by, explicit, ttl),
           \/ by = "loop" /\ explicit = NoRequest /\ loop = "tick"
           \/ by # "loop" /\ explicit.requested \in Actions,
           ~May("pending") => by # "rest_pending",
           May("pending")' = May("pending"), May("direct")' = May("direct")
    PROVE  /\ TickInv'
           /\ by = "loop" => loop' # "wait"
           /\ by # "loop" => loop' = loop /\ decision'.requested \in Actions
<1>1. /\ EvaluateStep(Effective(explicit)) /\ power' = power
      /\ \/ Finish(by, explicit.requested, ttl, "none", Snapshot, Held)
         \/ /\ op' = [by |-> by, stage |-> "confirm", request |-> Effective(explicit),
                      action |-> ActionToPerform(Resolved(Effective(explicit))), ttl |-> ttl]
            /\ pending' = Held
            /\ loop' = loop
    BY DEF Begin, machine
<1>2. "none" \notin Actions
    BY DEF Actions
<1>3. by # "loop" => Effective(explicit) = explicit
    BY <1>2 DEF Effective
<1>4. ~May("pending") => Held = NoPending
    BY DEF Held, TickInv
<1>5. decision'.requested = Effective(explicit).requested
    BY <1>1 DEF EvaluateStep, Resolved, ResolveRequest
<1>6. CASE Finish(by, explicit.requested, ttl, "none", Snapshot, Held)
    <2>1. /\ op'.stage = "idle"
          /\ loop' = IF by = "loop" THEN "arm" ELSE loop
          /\ by # "rest_pending" => pending' = Held
        BY <1>6, FinishTick
    <2> QED
        BY <1>1, <1>3, <1>4, <1>5, <2>1 DEF TickInv
<1>7. CASE /\ op' = [by |-> by, stage |-> "confirm", request |-> Effective(explicit),
                     action |-> ActionToPerform(Resolved(Effective(explicit))), ttl |-> ttl]
           /\ pending' = Held
           /\ loop' = loop
    <2>1. op'.by = by /\ op'.request = Effective(explicit)
        BY <1>7
    <2> QED
        BY <1>1, <1>3, <1>4, <1>5, <1>7, <2>1 DEF TickInv
<1> QED
    BY <1>1, <1>6, <1>7

\* Confirming a tick ends it, or hands it on as it is.
LEMMA ConfirmTick ==
    ASSUME TypeOK, TickInv, Confirm,
           May("pending")' = May("pending"), May("direct")' = May("direct")
    PROVE  /\ TickInv'
           /\ op.by = "loop" => loop' # "wait"
           /\ op.by # "loop" => /\ loop' = loop
                                /\ decision' = decision \/ decision'.requested \in Actions
<1>1. /\ op.stage = "confirm" /\ power' = power
      /\ \/ UNCHANGED sampled
         \/ EvaluateStep(op.request)
      /\ \/ \E clock : Finish(op.by, op.request.requested, op.ttl, "none", clock, pending)
         \/ /\ op' = [op EXCEPT !.stage = "issue",
                                !.action = ActionToPerform(Resolved(op.request))]
            /\ UNCHANGED <<pending, loop>>
    BY DEF Confirm, machine
<1>2. decision' = decision \/ decision'.requested = op.request.requested
    BY <1>1 DEF sampled, EvaluateStep, Resolved, ResolveRequest
<1>3. CASE \E clock : Finish(op.by, op.request.requested, op.ttl, "none", clock, pending)
    <2>1. /\ op'.stage = "idle"
          /\ loop' = IF op.by = "loop" THEN "arm" ELSE loop
          /\ op.by # "rest_pending" => pending' = pending
        BY <1>3, FinishTick
    <2> QED
        BY <1>1, <1>2, <2>1 DEF TickInv
<1>4. CASE /\ op' = [op EXCEPT !.stage = "issue",
                               !.action = ActionToPerform(Resolved(op.request))]
           /\ UNCHANGED <<pending, loop>>
    <2>1. op'.by = op.by /\ op'.request = op.request
        BY <1>4
    <2> QED
        BY <1>1, <1>2, <1>4, <2>1 DEF TickInv
<1> QED
    BY <1>1, <1>3, <1>4
\* A request of a caller's method begins a tick of that caller's.
LEMMA AskTick ==
    ASSUME TypeOK, TickInv, [Next]_vars, NEW a \in Requests,
           Rest(a) \/ RestForced(a) \/ \E ttl \in TTLs : RestPending(a, ttl)
    PROVE  TickInv' /\ loop' = loop /\ decision'.requested \in Actions
<1>1. a \in Actions
    BY SiteTypes DEF TypeOK, MachineOK
<1>2. May("pending")' = May("pending") /\ May("direct")' = May("direct")
    BY SameSite DEF May
<1>3. CASE Rest(a)
    <2>1. Begin("rest", [now |-> TRUE, force |-> "none", requested |-> a], 0)
        BY <1>3 DEF Rest
    <2> QED
        BY <1>1, <1>2, <2>1, BeginTick
<1>4. CASE RestForced(a)
    <2>1. Begin("rest_forced", [now |-> FALSE, force |-> a, requested |-> a], 0)
        BY <1>4 DEF RestForced
    <2> QED
        BY <1>1, <1>2, <2>1, BeginTick
<1>5. ASSUME NEW ttl \in TTLs, RestPending(a, ttl)
      PROVE  TickInv' /\ loop' = loop /\ decision'.requested \in Actions
    <2>1. /\ Begin("rest_pending", [now |-> TRUE, force |-> "none", requested |-> a], ttl)
          /\ May("pending")
        BY <1>5 DEF RestPending
    <2> QED
        BY <1>1, <1>2, <2>1, BeginTick
<1> QED
    BY <1>3, <1>4, <1>5

\* Answering a tick ends it.
LEMMA AnswerTick ==
    ASSUME TypeOK, TickInv, Accept \/ Refuse,
           May("pending")' = May("pending"), May("direct")' = May("direct")
    PROVE  /\ TickInv'
           /\ op.by = "loop" => loop' # "wait"
           /\ op.by # "loop" => loop' = loop
           /\ UNCHANGED <<decision, lease, wake, timer>>
           /\ ~May("pending") => pending' = NoPending
<1>1. CASE Accept
    <2> DEFINE held == IF pending.action = op.action THEN NoPending ELSE pending
    <2>1. /\ op.stage = "issue" /\ power' # "slept"
          /\ Finish(op.by, op.request.requested, op.ttl, op.action, clocks, held)
          /\ UNCHANGED <<decision, lease, wake, timer>>
        BY <1>1 DEF Accept, sampled
    <2>2. ~May("pending") => held = NoPending
        BY DEF TickInv
    <2> HIDE DEF held
    <2>3. /\ op'.stage = "idle"
          /\ loop' = IF op.by = "loop" THEN "arm" ELSE loop
          /\ op.by # "rest_pending" => pending' = held
        BY <2>1, FinishTick
    <2> QED
        BY <2>1, <2>2, <2>3 DEF TickInv
<1>2. CASE Refuse
    <2>1. /\ op.stage = "issue" /\ power' = power
          /\ Finish(op.by, op.request.requested, op.ttl, "none", clocks, pending)
          /\ UNCHANGED <<decision, lease, wake, timer>>
        BY <1>2 DEF Refuse, machine, sampled
    <2>2. /\ op'.stage = "idle"
          /\ loop' = IF op.by = "loop" THEN "arm" ELSE loop
          /\ op.by # "rest_pending" => pending' = pending
        BY <2>1, FinishTick
    <2> QED
        BY <2>1, <2>2 DEF TickInv
<1> QED
    BY <1>1, <1>2

LEMMA TickStep ==
    ASSUME TypeOK, TickInv, [Next]_vars
    PROVE  TickInv'
<1>1. May("pending")' = May("pending") /\ May("direct")' = May("direct")
    BY SameSite DEF May
<1>2. CASE LoopTick
    BY <1>1, <1>2, BeginTick DEF LoopTick
<1>3. ASSUME NEW a \in Requests,
             Rest(a) \/ RestForced(a) \/ \E ttl \in TTLs : RestPending(a, ttl)
      PROVE  TickInv'
    BY <1>3, AskTick
<1>4. CASE Confirm
    BY <1>1, <1>4, ConfirmTick
<1>5. CASE Accept \/ Refuse
    BY <1>1, <1>5, AnswerTick
<1>6. CASE \/ CancelPending \/ ReleaseLease \/ HolderCloses \/ RegisterAgent
           \/ UnregisterAgent \/ ReportSession \/ (\E ttl \in LeaseTTLs : AcquireLease(ttl))
           \/ (\E p \in Policies : Reload(p))
    <2>1. UNCHANGED <<op, loop, power>> /\ (pending' = pending \/ pending' = NoPending)
        BY <1>6 DEF CancelPending, ReleaseLease, HolderCloses, RegisterAgent, UnregisterAgent,
                    ReportSession, AcquireLease, Reload, machine, looping
    <2> QED
        BY <1>1, <2>1 DEF TickInv
<1>7. CASE LoopArm \/ LoopTimer \/ LoopWake \/ LoopSignal
    <2>1. UNCHANGED <<op, pending, power>>
        BY <1>7 DEF LoopArm, LoopTimer, LoopWake, LoopSignal, machine
    <2>2. loop' = "tick" \/ op.stage = "idle"
        BY <1>7 DEF LoopArm, LoopTimer, LoopWake, LoopSignal
    <2> QED
        BY <1>1, <2>1, <2>2 DEF TickInv
<1>8. CASE MachineStep
    <2>1. UNCHANGED <<op, pending, loop>> \/ (op' = Idle /\ pending' = NoPending)
        BY <1>8 DEF MachineStep, TimePasses, FactChanges, Touch, ExternalSleep, Freeze,
                    Abandon, DirectSleep, Wake, Restart, daemon, looping
    <2>2. power' = power \/ power' # "slept" \/ May("direct")
        BY <1>8 DEF MachineStep, TimePasses, FactChanges, Touch, ExternalSleep, Freeze,
                    Abandon, DirectSleep, Wake, Restart
    <2> QED
        BY <1>1, <2>1, <2>2 DEF TickInv, Idle
<1>9. CASE UNCHANGED vars
    BY <1>1, <1>9 DEF vars, looping, machine, TickInv
<1> QED
    BY <1>2, <1>3, <1>4, <1>5, <1>6, <1>7, <1>8, <1>9 DEF Next, DaemonStep, CallerStep

\* What the timer of a waiting loop is there for.
Covered ==
    \A at \in Outstanding :
        /\ timer # NoTimer
        /\ timer + asleepFor <= at \/ timer <= Monotonic + 1

\* A step that leaves the timer alone, and adds nothing that falls due, leaves
\* everything covered, also as time passes.
LEMMA CoveredFrame ==
    ASSUME TypeOK, TypeOK', Covered, UNCHANGED <<timer, asleepFor>>, now <= now',
           Outstanding' \subseteq Outstanding
    PROVE  Covered'
<1>1. now \in Int /\ now' \in Int /\ asleepFor \in Int /\ timer \in Int
    BY ConstantTypes DEF TypeOK, MachineOK, LoopOK
<1>2. SUFFICES ASSUME NEW at \in Outstanding'
               PROVE  /\ timer' # NoTimer
                      /\ timer' + asleepFor' <= at \/ timer' <= Monotonic' + 1
    BY DEF Covered, NoTimer
<1>3. /\ timer # NoTimer
      /\ timer + asleepFor <= at \/ timer <= Monotonic + 1
    BY <1>2 DEF Covered
<1>4. timer' = timer /\ asleepFor' = asleepFor
    OBVIOUS
<1>5. timer <= Monotonic + 1 => timer' <= Monotonic' + 1
    <2>1. ASSUME NEW t \in Int, NEW n \in Int, NEW m \in Int, NEW k \in Int, n <= m,
                 t <= (n - k) + 1
          PROVE  t <= (m - k) + 1
        BY <2>1
    <2>2. Monotonic = now - asleepFor /\ Monotonic' = now' - asleepFor
        BY <1>4 DEF Monotonic
    <2> QED
        BY <1>1, <1>4, <2>1, <2>2
<1> QED
    BY <1>3, <1>4, <1>5

\* Nothing new falls due when the decision stays or is a caller's, the lease stays
\* or goes, and what was held is held no longer.
LEMMA OutstandingShrinks ==
    ASSUME decision' = decision \/ decision'.requested # "none",
           lease'.expires = lease.expires \/ lease'.expires = None,
           pending' = pending \/ pending' = NoPending
    PROVE  Outstanding' \subseteq Outstanding
<1>1. ASSUME NEW a \in Actions, decision'.deadline[a] > decision'.now, decision'.requested = "none"
      PROVE  decision' = decision
    BY <1>1
<1>2. lease'.expires # None => lease'.expires = lease.expires
    OBVIOUS
<1>3. pending' # NoPending => pending' = pending
    OBVIOUS
<1> QED
    BY <1>1, <1>2, <1>3 DEF Outstanding, NoPending
\* The deadlines ahead, of which the loop arms the earliest, are natural numbers.
LEMMA NextDeadlineLeast ==
    ASSUME NEW d \in Decision
    PROVE  /\ NextDeadline(d) \in Nat
           /\ \A a \in Actions : d.deadline[a] > d.now =>
                 d.deadline[a] \in 0 .. Never /\ NextDeadline(d) <= d.deadline[a]
<1> DEFINE D == {d.deadline[a] : a \in {x \in Actions : ~Due(d, x)}} \cup {Never}
<1>1. /\ Never \in Nat /\ d.now \in Nat /\ \A a \in Actions : d.deadline[a] \in 0 .. Never
    BY NeverFacts, ConstantTypes DEF Decision, Deadline
<1>2. D \in SUBSET Nat /\ D # {}
    BY <1>1
<1>3. NextDeadline(d) = Earliest(D)
    BY DEF NextDeadline
<1>4. \A a \in Actions : d.deadline[a] > d.now => d.deadline[a] \in D
    BY <1>1 DEF Due, IsDueAt
<1> HIDE DEF D
<1>5. Earliest(D) \in D /\ \A e \in D : Earliest(D) <= e
    BY <1>2, LeastNatural
<1> QED
    BY <1>1, <1>2, <1>3, <1>4, <1>5

\* Whatever falls due has a wake-up no later.
LEMMA WakeupBefore ==
    ASSUME TypeOK, NEW at \in Outstanding
    PROVE  at \in Int /\ \E w \in Wakeups : w \in Int /\ w <= at
<1>1. CASE at \in {decision.deadline[a] : a \in {x \in Actions :
                       decision.deadline[x] > decision.now /\ decision.requested = "none"}}
                     \ {Never}
    <2>1. PICK a \in Actions : at = decision.deadline[a] /\ decision.deadline[a] > decision.now
        BY <1>1
    <2>2. at # Never
        BY <1>1
    <2>3. /\ NextDeadline(decision) \in Nat
          /\ at \in 0 .. Never /\ NextDeadline(decision) <= at
        BY <2>1, NextDeadlineLeast DEF TypeOK, SampledOK
    <2>4. NextDeadline(decision) # Never
        BY <2>2, <2>3, NeverFacts
    <2>5. NextDeadline(decision) \in Wakeups
        BY <2>4 DEF Wakeups
    <2> QED
        BY <2>3, <2>5, NeverFacts
<1>2. CASE at \in {l \in {lease.expires} : l # None}
    BY <1>2 DEF Wakeups, TypeOK, SampledOK, LeaseType, None
<1>3. CASE at \in {p.expires_at : p \in {pending} \ {NoPending}}
    <2>1. pending # NoPending /\ at = pending.expires_at
        BY <1>3
    <2> QED
        BY <2>1, ConstantTypes DEF Wakeups, TypeOK, EngineOK, PendingType
<1> QED
    BY <1>1, <1>2, <1>3 DEF Outstanding

\* A loop that arms its timer covers everything that falls due.
LEMMA ArmCovers ==
    ASSUME TypeOK, LoopArm
    PROVE  Covered'
<1>1. /\ now \in Nat /\ asleepFor \in Nat /\ asleepFor <= now
      /\ SWEEP_INTERVAL \in Nat
    BY ConstantTypes DEF TypeOK, MachineOK
<1>2. UNCHANGED <<now, asleepFor, decision, lease, pending>>
    BY DEF LoopArm, machine, sampled
<1>3. Outstanding' = Outstanding /\ Monotonic' = Monotonic
    BY <1>2 DEF Outstanding, Monotonic
<1>4. SUFFICES ASSUME NEW at \in Outstanding
               PROVE  /\ timer' # NoTimer
                      /\ timer' + asleepFor <= at \/ timer' <= Monotonic + 1
    BY <1>2, <1>3 DEF Covered, NoTimer
<1>5. at \in Int /\ \E w \in Wakeups : w \in Int /\ w <= at
    BY WakeupBefore
<1>6. PICK w \in Wakeups : w \in Int /\ w <= at
    BY <1>5
<1>7. WaitUntil(w) \in Waits
    BY DEF Waits
<1>8. \A x \in Wakeups : x \in Int
    <2>1. NextDeadline(decision) \in Nat
        BY NextDeadlineLeast DEF TypeOK, SampledOK
    <2> QED
        BY <2>1, ConstantTypes
        DEF Wakeups, TypeOK, SampledOK, EngineOK, LeaseType, PendingType
<1>9. \A x \in Int : WaitUntil(x) \in Nat
    BY <1>1 DEF WaitUntil
<1>10. Waits \in SUBSET Nat
    BY <1>1, <1>8, <1>9 DEF Waits
<1>11. Earliest(Waits) \in Nat /\ Earliest(Waits) <= WaitUntil(w) /\ WaitUntil(w) \in Nat
    BY <1>6, <1>7, <1>9, <1>10, LeastNatural
<1>12. timer' = Monotonic + Earliest(Waits)
    BY <1>7 DEF LoopArm
<1>13. Monotonic \in Nat /\ Monotonic = now - asleepFor
    BY <1>1 DEF Monotonic
<1>14. timer' # NoTimer
    BY <1>11, <1>12, <1>13 DEF NoTimer
<1>15. CASE w <= now
    <2>1. WaitUntil(w) = 1
        BY <1>15 DEF WaitUntil
    <2> QED
        BY <1>11, <1>12, <1>13, <1>14, <2>1
<1>16. CASE ~(w <= now)
    <2>1. WaitUntil(w) = w - now
        BY <1>16 DEF WaitUntil
    <2> QED
        BY <1>1, <1>5, <1>6, <1>11, <1>12, <1>13, <1>14, <2>1
<1> QED
    BY <1>15, <1>16

\* A poke is never lost: the queue it is dropped from was full.
LEMMA PokedIsQueued ==
    ASSUME TypeOK
    PROVE  Poked # 0
BY ConstantTypes DEF Poked, TypeOK, LoopOK

\* An announcement queued is one the loop has still to read.
LEMMA AnnouncedIsQueued ==
    ASSUME TypeOK, NEW e \in BOOLEAN
    PROVE  Append(signals, e) # <<>>
BY AppendProperties DEF TypeOK, MachineOK

\* Evaluating moves the decision to the one who asked, and reaps at most the lease.
LEMMA EvaluateLease ==
    ASSUME NEW request, EvaluateStep(request)
    PROVE  lease'.expires = lease.expires \/ lease'.expires = None
BY DEF EvaluateStep, ReapedLease, NoLease

LEMMA TimerStep ==
    ASSUME TypeOK, TypeOK', TickInv, TickInv', TimerCoversEveryDeadline, [Next]_vars
    PROVE  TimerCoversEveryDeadline'
<1>1. May("pending")' = May("pending") /\ May("direct")' = May("direct")
    BY SameSite DEF May
<1>2. SUFFICES ASSUME ~May("pending"), ~May("direct"),
                      loop' = "wait", wake' = 0, signals' = <<>>, Awake'
               PROVE  Covered'
    BY <1>1 DEF TimerCoversEveryDeadline, Covered
<1>3. pending = NoPending /\ pending' = NoPending /\ power # "slept"
    BY <1>1, <1>2 DEF TickInv
<1>4. loop = "wait" /\ wake = 0 /\ signals = <<>> /\ Awake => Covered
    BY <1>2 DEF TimerCoversEveryDeadline, Covered
<1>5. now \in Int /\ now <= now
    BY ConstantTypes DEF TypeOK, MachineOK
<1>6. ASSUME UNCHANGED <<loop, wake, signals, timer, asleepFor>>, Awake, now <= now',
             decision' = decision \/ decision'.requested # "none",
             lease'.expires = lease.expires \/ lease'.expires = None
      PROVE  Covered'
    BY <1>2, <1>3, <1>4, <1>6, CoveredFrame, OutstandingShrinks
<1>7. "none" \notin Actions
    BY DEF Actions
<1>8. CASE LoopTick
    <2>1. loop' # "wait"
        BY <1>1, <1>8, BeginTick DEF LoopTick
    <2> QED
        BY <1>2, <2>1
<1>9. ASSUME NEW a \in Requests,
             Rest(a) \/ RestForced(a) \/ \E ttl \in TTLs : RestPending(a, ttl)
      PROVE  Covered'
    <2>1. loop' = loop /\ decision'.requested # "none"
        BY <1>7, <1>9, AskTick
    <2>2. PICK by, explicit, ttl : Begin(by, explicit, ttl)
        BY <1>9 DEF Rest, RestForced, RestPending
    <2>3. /\ UNCHANGED <<wake, signals, timer, asleepFor, now>> /\ Awake
          /\ EvaluateStep(Effective(explicit))
        BY <2>2 DEF Begin, machine
    <2>4. lease'.expires = lease.expires \/ lease'.expires = None
        BY <2>3, EvaluateLease
    <2> QED
        BY <1>5, <1>6, <2>1, <2>3, <2>4
<1>10. CASE Confirm
    <2>1. op.by # "loop"
        BY <1>1, <1>2, <1>10, ConfirmTick
    <2>2. loop' = loop /\ (decision' = decision \/ decision'.requested # "none")
        BY <1>1, <1>7, <1>10, <2>1, ConfirmTick
    <2>3. UNCHANGED <<wake, signals, timer, asleepFor, now>> /\ Awake
        BY <1>10 DEF Confirm, machine
    <2>4. lease' = lease \/ EvaluateStep(op.request)
        BY <1>10 DEF Confirm, sampled
    <2>5. lease'.expires = lease.expires \/ lease'.expires = None
        BY <2>4, EvaluateLease
    <2> QED
        BY <1>5, <1>6, <2>2, <2>3, <2>5
<1>11. CASE Accept
    <2>1. signals' # <<>>
        BY <1>11, AnnouncedIsQueued DEF Accept
    <2> QED
        BY <1>2, <2>1
<1>12. CASE Refuse
    <2>1. op.by # "loop"
        BY <1>1, <1>2, <1>12, AnswerTick
    <2>2. loop' = loop /\ UNCHANGED <<decision, lease, wake, timer>>
        BY <1>1, <1>12, <2>1, AnswerTick
    <2>3. UNCHANGED <<signals, asleepFor, now>> /\ Awake
        BY <1>12 DEF Refuse, machine
    <2> QED
        BY <1>5, <1>6, <2>2, <2>3
<1>13. CASE LoopArm
    BY <1>13, ArmCovers
<1>14. CASE LoopTimer \/ LoopWake \/ LoopSignal \/ \E p \in Policies : Restart(p)
    <2>1. loop' = "tick"
        BY <1>14 DEF LoopTimer, LoopWake, LoopSignal, Restart
    <2> QED
        BY <1>2, <2>1
<1>15. CASE CancelPending
    <2>1. UNCHANGED <<loop, wake, signals, timer, asleepFor, now, decision, lease>> /\ Awake
        BY <1>15 DEF CancelPending, machine, sampled, looping
    <2> QED
        BY <1>5, <1>6, <2>1
<1>16. CASE \/ ReleaseLease \/ HolderCloses \/ RegisterAgent \/ UnregisterAgent
            \/ ReportSession \/ (\E ttl \in LeaseTTLs : AcquireLease(ttl))
            \/ (\E p \in Policies : Reload(p))
    <2>1. wake' = Poked
        BY <1>16 DEF ReleaseLease, HolderCloses, RegisterAgent, UnregisterAgent, ReportSession,
                     AcquireLease, Reload
    <2> QED
        BY <1>2, <2>1, PokedIsQueued
<1>17. CASE TimePasses
    <2>1. /\ UNCHANGED <<loop, wake, signals, timer, decision, lease, power>>
          /\ now' = now + 1 /\ (Awake => asleepFor' = asleepFor)
        BY <1>17 DEF TimePasses, daemon, sampled, looping
    <2>2. Awake
        BY <1>2, <2>1 DEF Awake
    <2> QED
        BY <1>5, <1>6, <2>1, <2>2
<1>18. CASE Touch \/ \E f \in WorldFacts, s \in {"true", "false", "indeterminate"} :
                        FactChanges(f, s)
    <2>1. UNCHANGED <<loop, wake, signals, timer, decision, lease, asleepFor, now>> /\ Awake
        BY <1>18 DEF Touch, FactChanges, daemon, sampled, looping
    <2> QED
        BY <1>5, <1>6, <2>1
<1>19. CASE Abandon
    <2>1. /\ UNCHANGED <<loop, wake, timer, decision, lease, asleepFor, now>> /\ Awake
          /\ signals' = signals \/ signals' = Append(signals, FALSE)
        BY <1>19 DEF Abandon, Awake, daemon, sampled, looping
    <2>2. signals' = signals
        BY <1>2, <2>1, AnnouncedIsQueued
    <2> QED
        BY <1>5, <1>6, <2>1, <2>2
<1>20. CASE ExternalSleep \/ Wake
    <2>1. \E e \in BOOLEAN : signals' = Append(signals, e)
        BY <1>3, <1>20 DEF ExternalSleep, Wake
    <2> QED
        BY <1>2, <2>1, AnnouncedIsQueued
<1>21. CASE Freeze \/ DirectSleep
    BY <1>2, <1>21 DEF Freeze, DirectSleep, Awake
<1>22. CASE UNCHANGED vars
    <2>1. UNCHANGED <<loop, wake, signals, timer, asleepFor, now, decision, lease, power>>
        BY <1>22 DEF vars, machine, sampled, looping
    <2>2. Awake
        BY <1>2, <2>1 DEF Awake
    <2> QED
        BY <1>5, <1>6, <2>1, <2>2
<1> QED
    BY <1>8, <1>9, <1>10, <1>11, <1>12, <1>13, <1>14, <1>15, <1>16, <1>17, <1>18, <1>19, <1>20,
       <1>21, <1>22
    DEF Next, DaemonStep, CallerStep, MachineStep

\* While the loop waits and nothing is queued for it, its timer covers every
\* instant something falls due at: whoever else evaluates, takes, releases or lets
\* go of a lease, reports, reloads, is refused or sleeps in between, and however
\* long a poke queue is (Engine::next_wakeup, the pokes of manager.rs).
THEOREM TimerCovers == Spec => []TimerCoversEveryDeadline
<1>1. Init => TickInv /\ TimerCoversEveryDeadline
    BY DEF Init, FreshDaemon, Idle, TickInv, TimerCoversEveryDeadline
<1>2. TypeOK /\ TickInv /\ [Next]_vars => TickInv'
    BY TickStep
<1>3. TypeOK /\ TypeOK' /\ TickInv /\ TickInv' /\ TimerCoversEveryDeadline /\ [Next]_vars
        => TimerCoversEveryDeadline'
    BY TimerStep
<1> QED
    BY <1>1, <1>2, <1>3, TypeCorrect, PTL DEF Spec
=============================================================================
