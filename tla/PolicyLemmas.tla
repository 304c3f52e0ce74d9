---------------------------- MODULE PolicyLemmas ----------------------------
(* Facts about the operators of Policy, for every value of its constants,    *)
(* that the proofs about the policy engine and about the daemon rest on.     *)
EXTENDS Policy, TLAPS, WellFoundedInduction

\* A non-empty set of naturals has a least element, and Earliest is one.
LEMMA LeastNatural ==
    ASSUME NEW S \in SUBSET Nat, S # {}
    PROVE  /\ Earliest(S) \in S
           /\ \A e \in S : Earliest(S) <= e
<1>1. PICK x \in S : \A y \in S : ~(<<y, x>> \in OpToRel(<, Nat))
    BY NatLessThanWellFounded, WFMin
<1>2. \A y \in S : x <= y
    <2>1. SUFFICES ASSUME NEW y \in S PROVE x <= y
        OBVIOUS
    <2>2. ~(y < x)
        BY <1>1 DEF OpToRel
    <2> QED
        BY <2>2
<1> QED
    BY <1>2 DEF Earliest

\* A non-empty set of naturals under a bound has a greatest element, and Latest
\* is one.
LEMMA GreatestBounded ==
    ASSUME NEW n \in Nat, NEW S \in SUBSET (0 .. n), S # {}
    PROVE  /\ Latest(S) \in S
           /\ \A e \in S : e <= Latest(S)
<1> DEFINE T == {n - e : e \in S}
<1>1. T \in SUBSET Nat /\ T # {}
    <2>1. \A e \in S : e \in 0 .. n
        OBVIOUS
    <2>2. \A e \in 0 .. n : n - e \in Nat
        OBVIOUS
    <2>3. PICK e \in S : TRUE
        OBVIOUS
    <2>4. n - e \in T
        BY <2>3
    <2> QED
        BY <2>1, <2>2, <2>4
<1>2. PICK x \in T : \A y \in T : ~(<<y, x>> \in OpToRel(<, Nat))
    <2> HIDE DEF T
    <2> QED
        BY <1>1, NatLessThanWellFounded, WFMin
<1>3. PICK d \in S : x = n - d
    BY <1>2
<1>4. \A e \in S : e <= d
    <2>1. SUFFICES ASSUME NEW e \in S PROVE e <= d
        OBVIOUS
    <2>2. n - e \in T /\ n - e \in Nat /\ x \in Nat
        BY <1>1, <1>2
    <2>3. ~(n - e < x)
        BY <1>2, <2>2 DEF OpToRel
    <2> QED
        BY <1>3, <2>3
<1> QED
    BY <1>4 DEF Latest

\* The composed deadline of any set of deadlines is a deadline.
LEMMA ComposeType ==
    ASSUME NEW S \in SUBSET Deadline
    PROVE  ComposeFloor(S) \in Deadline /\ ComposeCeiling(S) \in Deadline
<1>1. Never \in Nat /\ Deadline = 0 .. Never
    BY PolicyConstants DEF Never, Deadline
<1>2. CASE S = {}
    BY <1>1, <1>2 DEF ComposeFloor, ComposeCeiling
<1>3. CASE S # {}
    <2>1. Latest(S) \in S
        BY <1>1, <1>3, GreatestBounded
    <2>2. Earliest(S) \in S
        BY <1>1, <1>3, LeastNatural
    <2> QED
        BY <1>3, <2>1, <2>2 DEF ComposeFloor, ComposeCeiling
<1> QED
    BY <1>2, <1>3

\* A floor has passed exactly when there is one and every part of it has.
LEMMA FloorPassed ==
    ASSUME NEW S \in SUBSET Deadline, NEW now \in Instant
    PROVE  ComposeFloor(S) <= now <=> S # {} /\ \A d \in S : d <= now
<1>1. Never \in Nat /\ Deadline = 0 .. Never /\ ~(Never <= now) /\ now \in Nat
    BY PolicyConstants DEF Never, Deadline, Instant
<1>2. CASE S = {}
    BY <1>1, <1>2 DEF ComposeFloor
<1>3. CASE S # {}
    <2>1. Latest(S) \in S /\ \A e \in S : e <= Latest(S)
        BY <1>1, <1>3, GreatestBounded
    <2>2. \A d \in S : d \in Nat
        BY <1>1
    <2>3. ComposeFloor(S) = Latest(S)
        BY <1>3 DEF ComposeFloor
    <2>4. Latest(S) \in Nat
        BY <2>1, <2>2
    <2>5. ASSUME Latest(S) <= now, NEW d \in S PROVE d <= now
        <3>1. d \in Nat /\ d <= Latest(S)
            BY <2>1, <2>2
        <3> QED
            BY <1>1, <2>4, <2>5, <3>1
    <2>6. ASSUME \A d \in S : d <= now PROVE Latest(S) <= now
        BY <2>1, <2>6
    <2> QED
        BY <1>3, <2>3, <2>5, <2>6
<1> QED
    BY <1>2, <1>3

\* A ceiling has passed exactly when some part of it has.
LEMMA CeilingPassed ==
    ASSUME NEW S \in SUBSET Deadline, NEW now \in Instant
    PROVE  ComposeCeiling(S) <= now <=> \E d \in S : d <= now
<1>1. Never \in Nat /\ Deadline = 0 .. Never /\ ~(Never <= now) /\ now \in Nat
    BY PolicyConstants DEF Never, Deadline, Instant
<1>2. CASE S = {}
    BY <1>1, <1>2 DEF ComposeCeiling
<1>3. CASE S # {}
    <2>1. Earliest(S) \in S /\ \A e \in S : Earliest(S) <= e
        BY <1>1, <1>3, LeastNatural
    <2>2. \A d \in S : d \in Nat
        BY <1>1
    <2>3. ComposeCeiling(S) = Earliest(S)
        BY <1>3 DEF ComposeCeiling
    <2>4. Earliest(S) \in Nat
        BY <2>1, <2>2
    <2>5. ASSUME NEW d \in S, d <= now PROVE Earliest(S) <= now
        <3>1. d \in Nat /\ Earliest(S) <= d
            BY <2>1, <2>2
        <3> QED
            BY <1>1, <2>4, <2>5, <3>1
    <2>6. ASSUME Earliest(S) <= now PROVE \E d \in S : d <= now
        BY <2>1, <2>6
    <2> QED
        BY <2>3, <2>5, <2>6
<1> QED
    BY <1>2, <1>3

-----------------------------------------------------------------------------
(* What a block contributes, and when an action is due. *)

\* Never is above every instant.
LEMMA NeverFacts ==
    /\ Never \in Nat /\ Deadline = 0 .. Never /\ Never \in Deadline
    /\ \A t \in Instant : t \in Deadline /\ t \in Nat /\ ~(Never <= t) /\ t <= MaxInstant
    BY PolicyConstants DEF Never, Deadline, Instant

\* An origin plus a timeout is a deadline, also where the sum overflows.
LEMMA FromOriginType ==
    ASSUME NEW o \in Instant, NEW t \in Timeout
    PROVE  FromOrigin(o, t) \in Deadline
BY PolicyConstants DEF FromOrigin, Instant, Timeout, Deadline, Never

\* Each clock names its origin.
LEMMA OriginCases ==
    ASSUME NEW in \in Input, NEW b \in Block
    PROVE  /\ b.clock = "human_input" =>
                 OriginOf(in, b) = IF in.clocks.human_input = NotYet THEN 0
                                   ELSE in.clocks.human_input
           /\ b.clock = "resume" => OriginOf(in, b) = in.clocks.resume
           /\ b.clock = "condition" =>
                 OriginOf(in, b) = IF in.edges[IdOf(b)] = NoEdge THEN in.clocks.now
                                   ELSE in.edges[IdOf(b)]
           /\ b.clock = "boot" => OriginOf(in, b) = 0
<1>1. CASE b.clock = "human_input"
    BY <1>1 DEF OriginOf
<1>2. CASE b.clock = "resume"
    BY <1>2 DEF OriginOf
<1>3. CASE b.clock = "condition"
    BY <1>3 DEF OriginOf
<1>4. CASE b.clock = "boot"
    BY <1>4 DEF OriginOf
<1> QED
    BY <1>1, <1>2, <1>3, <1>4

\* The clock of a block is read as an instant or as one of the two unknowns.
LEMMA OriginType ==
    ASSUME NEW in \in Input, NEW b \in in.policy.blocks
    PROVE  OriginOf(in, b) \in Origin /\ (Known(OriginOf(in, b)) => OriginOf(in, b) \in Instant)
<1>1. b \in Block
    BY DEF Input, PolicyType
<1>2. IdOf(b) \in BlockId
    BY <1>1 DEF IdOf, BlockId, Block
<1>3. in.edges[IdOf(b)] \in NoEdge .. MaxInstant
    BY <1>2 DEF Input, Edges
<1>4. /\ in.clocks.now \in 0 .. MaxInstant
      /\ in.clocks.human_input \in Origin
      /\ in.clocks.resume \in Origin
    BY DEF Input, ClockSnapshot, Instant
<1>5. b.clock \in ClockName
    BY <1>1 DEF Block
<1>6. CASE b.clock = "human_input"
    BY <1>4, <1>6, PolicyConstants DEF OriginOf, Origin, NotYet, Unreadable, Known, Instant
<1>7. CASE b.clock = "resume"
    BY <1>4, <1>7, PolicyConstants DEF OriginOf, Origin, NotYet, Unreadable, Known, Instant
<1>8. CASE b.clock = "condition"
    BY <1>3, <1>4, <1>8, PolicyConstants
       DEF OriginOf, Origin, NotYet, Unreadable, NoEdge, Known, Instant
<1>9. CASE b.clock = "boot"
    BY <1>9, PolicyConstants DEF OriginOf, Origin, NotYet, Unreadable, Known, Instant
<1> QED
    BY <1>5, <1>6, <1>7, <1>8, <1>9 DEF ClockName

\* A block contributes now, its own deadline, or the deadline of an unknown origin.
LEMMA ContributionCases ==
    ASSUME NEW in \in Input, NEW b \in Block, NEW a \in Actions
    PROVE  /\ SatisfiedByRequest(in, b) => Contribution(in, b, a) = in.clocks.now
           /\ ~SatisfiedByRequest(in, b) /\ Known(OriginOf(in, b)) =>
                 Contribution(in, b, a) = FromOrigin(OriginOf(in, b), b.timeouts[a])
           /\ ~SatisfiedByRequest(in, b) /\ ~Known(OriginOf(in, b)) =>
                 Contribution(in, b, a) = IF IsSleep(a) THEN Never
                                          ELSE FromOrigin(0, b.timeouts[a])
<1>1. CASE SatisfiedByRequest(in, b)
    BY <1>1 DEF Contribution
<1>2. CASE ~SatisfiedByRequest(in, b) /\ Known(OriginOf(in, b))
    BY <1>2 DEF Contribution
<1>3. CASE ~SatisfiedByRequest(in, b) /\ ~Known(OriginOf(in, b))
    BY <1>3 DEF Contribution
<1> QED
    BY <1>1, <1>2, <1>3

\* Two inputs with the same clocks and edges give a block the same origin.
LEMMA SameOrigin ==
    ASSUME NEW in \in Input, NEW out \in Input, NEW b \in Block,
           out.clocks = in.clocks, out.edges = in.edges
    PROVE  OriginOf(out, b) = OriginOf(in, b)
<1>1. CASE b.clock = "human_input"
    BY <1>1, OriginCases
<1>2. CASE b.clock = "resume"
    BY <1>2, OriginCases
<1>3. CASE b.clock = "condition"
    BY <1>3, OriginCases
<1>4. CASE b.clock = "boot"
    BY <1>4, OriginCases
<1> QED
    BY <1>1, <1>2, <1>3, <1>4 DEF Block, ClockName

\* What a block that takes part contributes is a deadline.
LEMMA ContributionType ==
    ASSUME NEW in \in Input, NEW a \in Actions, NEW b \in in.policy.blocks,
           Contributes(in, b, a)
    PROVE  Contribution(in, b, a) \in Deadline
<1>1. b \in Block
    BY DEF Input, PolicyType
<1>2. b.timeouts[a] \in Timeout
    <2>1. b.timeouts[a] \in Silent .. Never
        BY <1>1 DEF Block
    <2>2. b.timeouts[a] # Silent
        BY DEF Contributes
    <2> QED
        BY <2>1, <2>2, PolicyConstants DEF Timeout, Silent, Never
<1>3. in.clocks.now \in Deadline
    BY NeverFacts DEF Input, ClockSnapshot
<1>4. CASE SatisfiedByRequest(in, b)
    BY <1>3, <1>4 DEF Contribution
<1>5. CASE ~SatisfiedByRequest(in, b) /\ Known(OriginOf(in, b))
    BY <1>2, <1>5, OriginType, FromOriginType DEF Contribution
<1>6. CASE ~SatisfiedByRequest(in, b) /\ ~Known(OriginOf(in, b))
    <2>1. 0 \in Instant
        BY PolicyConstants DEF Instant
    <2>2. Contribution(in, b, a) = IF IsSleep(a) THEN Never ELSE FromOrigin(0, b.timeouts[a])
        BY <1>6 DEF Contribution
    <2> QED
        BY <1>2, <2>1, <2>2, FromOriginType, NeverFacts
<1> QED
    BY <1>4, <1>5, <1>6

\* Every floor and every ceiling is a deadline.
LEMMA PartsType ==
    ASSUME NEW in \in Input, NEW a \in Actions
    PROVE  Floors(in, a) \in SUBSET Deadline /\ Ceilings(in, a) \in SUBSET Deadline
<1>1. \A kind : Contributions(in, kind, a) \subseteq Deadline
    BY ContributionType DEF Contributions
<1>2. ImplicitFloors(in, a) \subseteq Deadline
    BY NeverFacts DEF ImplicitFloors
<1>3. in.clocks.now \in Deadline
    BY NeverFacts DEF Input, ClockSnapshot
<1> QED
    BY <1>1, <1>2, <1>3 DEF Floors, Ceilings

\* The policy engine answers every input with four deadlines.
LEMMA ResolveType ==
    ASSUME NEW in \in Input
    PROVE  ResolveRequest(in) \in Decision
<1>1. ASSUME NEW a \in Actions PROVE ResolveAction(in, a) \in Deadline
    <2>1. FloorOf(in, a) \in Deadline /\ CeilingOf(in, a) \in Deadline
        BY PartsType, ComposeType DEF FloorOf, CeilingOf
    <2> QED
        BY <2>1 DEF ResolveAction
<1>2. in.clocks.now \in Instant /\ in.request.requested \in Requestable
    BY DEF Input, ClockSnapshot, Request
<1> QED
    BY <1>1, <1>2 DEF ResolveRequest, Decision

\* An action is due exactly when every floor has passed and there is one, or some
\* ceiling has passed: Deadline::is_due_at of the smaller of the two composed
\* deadlines.
LEMMA DueWhen ==
    ASSUME NEW in \in Input, NEW a \in Actions
    PROVE  Due(ResolveRequest(in), a) <=>
               \/ Floors(in, a) # {} /\ \A d \in Floors(in, a) : d <= in.clocks.now
               \/ \E d \in Ceilings(in, a) : d <= in.clocks.now
<1>1. in.clocks.now \in Instant
    BY DEF Input, ClockSnapshot
<1>2. FloorOf(in, a) \in Deadline /\ CeilingOf(in, a) \in Deadline
    BY PartsType, ComposeType DEF FloorOf, CeilingOf
<1>3. Due(ResolveRequest(in), a) <=>
          ResolveAction(in, a) # Never /\ in.clocks.now >= ResolveAction(in, a)
    BY DEF Due, ResolveRequest, IsDueAt
<1>4. Due(ResolveRequest(in), a) <=>
          FloorOf(in, a) <= in.clocks.now \/ CeilingOf(in, a) <= in.clocks.now
    <2> DEFINE t == in.clocks.now
               x == FloorOf(in, a)
               y == CeilingOf(in, a)
    <2>1. t \in Nat /\ x \in Nat /\ y \in Nat /\ Never \in Nat /\ ~(Never <= t)
        BY <1>1, <1>2, NeverFacts
    <2>2. ResolveAction(in, a) = IF x <= y THEN x ELSE y
        BY DEF ResolveAction
    <2> HIDE DEF t, x, y
    <2>3. (IF x <= y THEN x ELSE y) # Never /\ t >= (IF x <= y THEN x ELSE y)
              <=> x <= t \/ y <= t
        BY <2>1
    <2> QED
        BY <1>3, <2>2, <2>3 DEF t, x, y
<1> QED
    BY <1>1, <1>4, PartsType, FloorPassed, CeilingPassed DEF FloorOf, CeilingOf
\* Without a ceiling an action is due only when every floor has passed.
LEMMA NothingForces ==
    ASSUME NEW in \in Input, NEW a \in Actions, Due(ResolveRequest(in), a),
           in.request.force # a,
           \A b \in in.policy.blocks : ~(b.kind = "when" /\ b.enabled /\ b.timeouts[a] # Silent)
    PROVE  \A d \in Floors(in, a) : d <= in.clocks.now
<1>1. Contributions(in, "when", a) = {}
    BY DEF Contributions, Contributes
<1>2. Ceilings(in, a) = {}
    BY <1>1 DEF Ceilings
<1> QED
    BY <1>2, DueWhen

\* A [while] block that says never, and is true, is a floor that never passes,
\* unless a request of rest --now satisfies it.
LEMMA NeverFloor ==
    ASSUME NEW in \in Input, NEW a \in Actions, IsSleep(a), NEW b \in in.policy.blocks,
           b.kind = "while", b.enabled, b.timeouts[a] = Never,
           ~SatisfiedByRequest(in, b),
           Evaluate(b.condition, in.facts) = "true"
    PROVE  Never \in Floors(in, a)
<1>1. b \in Block /\ ~SatisfiedByRequest(in, b)
    BY DEF Input, PolicyType
<1>2. Never # Silent
    BY NeverFacts DEF Silent
<1>3. Contributes(in, b, a)
    BY <1>2 DEF Contributes
<1>4. Contribution(in, b, a) = Never
    <2>1. CASE Known(OriginOf(in, b))
        <3>1. OriginOf(in, b) \in Instant
            BY <2>1, OriginType
        <3>2. FromOrigin(OriginOf(in, b), Never) = Never
            BY <3>1, PolicyConstants DEF FromOrigin, Never, Instant
        <3>3. Contribution(in, b, a) = FromOrigin(OriginOf(in, b), b.timeouts[a])
            BY <1>1, <2>1, ContributionCases
        <3> QED
            BY <3>2, <3>3
    <2>2. CASE ~Known(OriginOf(in, b))
        BY <1>1, <2>2, ContributionCases
    <2> QED
        BY <2>1, <2>2
<1> QED
    BY <1>3, <1>4 DEF Floors, Contributions

\* A block of known origin is a floor at its origin plus its timeout, and it has
\* passed only when that much time has run.
LEMMA FloorRuns ==
    ASSUME NEW in \in Input, NEW a \in Actions, NEW b \in in.policy.blocks,
           b.kind = "while", b.enabled, b.timeouts[a] # Silent, ~in.request.now,
           Evaluate(b.condition, in.facts) = "true", Known(OriginOf(in, b)),
           \A d \in Floors(in, a) : d <= in.clocks.now
    PROVE  in.clocks.now >= OriginOf(in, b) + b.timeouts[a]
<1>1. b \in Block /\ ~SatisfiedByRequest(in, b)
    BY DEF Input, PolicyType, SatisfiedByRequest
<1>2. Contributes(in, b, a)
    BY DEF Contributes
<1>3. Contribution(in, b, a) = FromOrigin(OriginOf(in, b), b.timeouts[a])
    BY <1>1, ContributionCases
<1>4. FromOrigin(OriginOf(in, b), b.timeouts[a]) <= in.clocks.now
    BY <1>2, <1>3 DEF Floors, Contributions
<1>5. in.clocks.now \in Instant /\ OriginOf(in, b) \in Instant /\ b.timeouts[a] \in Int
    BY <1>1, OriginType, PolicyConstants DEF Input, ClockSnapshot, Block, Silent, Never
<1> QED
    BY <1>4, <1>5, NeverFacts, PolicyConstants DEF FromOrigin, Instant

\* A decision is answered with a sleep action that is due, and with the one that
\* was asked for when one was.
LEMMA Performed ==
    ASSUME NEW d \in Decision, ActionToPerform(d) # "none"
    PROVE  /\ ActionToPerform(d) \in SleepDue(d)
           /\ d.requested # "none" => ActionToPerform(d) = d.requested
<1>1. \A a \in Actions : Depth[a] \in 0 .. 3
    BY DEF Actions, Depth
<1>2. ASSUME SleepDue(d) # {} PROVE ShallowestSleepDue(d) \in SleepDue(d)
    <2> DEFINE D == {Depth[a] : a \in SleepDue(d)}
    <2>1. D \in SUBSET Nat /\ D # {}
        BY <1>1, <1>2 DEF SleepDue
    <2>2. PICK a \in SleepDue(d) : \A b \in SleepDue(d) : Depth[a] <= Depth[b]
        <3>1. Earliest(D) \in D /\ \A e \in D : Earliest(D) <= e
            <4> HIDE DEF D
            <4> QED
                BY <2>1, LeastNatural
        <3>2. PICK a \in SleepDue(d) : Depth[a] = Earliest(D)
            BY <3>1
        <3> QED
            BY <3>1, <3>2
    <2> QED
        BY <1>2, <2>2 DEF ShallowestSleepDue
<1>3. CASE d.requested = "none"
    <2>1. ActionToPerform(d) = ShallowestSleepDue(d)
        BY <1>3 DEF ActionToPerform
    <2>2. SleepDue(d) # {}
        BY <2>1 DEF ShallowestSleepDue
    <2> QED
        BY <1>2, <1>3, <2>1, <2>2
<1>4. CASE d.requested # "none"
    <2>1. ActionToPerform(d) = d.requested /\ IsSleep(d.requested) /\ Due(d, d.requested)
        BY <1>4 DEF ActionToPerform
    <2>2. d.requested \in Actions
        BY <1>4 DEF Decision, Requestable
    <2> QED
        BY <2>1, <2>2 DEF SleepDue
<1> QED
    BY <1>3, <1>4
=============================================================================
