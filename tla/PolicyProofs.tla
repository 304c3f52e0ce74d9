---------------------------- MODULE PolicyProofs ----------------------------
(* Proofs about the policy engine, for every value of the constants.  An     *)
(* input of the right type is answered with deadlines (ResolveType), and an  *)
(* action is due exactly when every floor has passed or some ceiling has     *)
(* (DueWhen).  What a step does to the floors and the ceilings then says     *)
(* what it does to the answer.                                               *)
EXTENDS PolicyLaws, PolicyLemmas

-----------------------------------------------------------------------------
(* Types. *)

\* Every step between two evaluations leaves an input the engine can be given.
LEMMA InputStep ==
    ASSUME input \in Input, [Next]_input
    PROVE  input' \in Input
<1> USE DEF Input, PolicyType
<1>1. ASSUME NEW f \in FactId, DetectorBreaks(f) PROVE input' \in Input
    BY <1>1 DEF DetectorBreaks, FactState
<1>2. ASSUME NEW f \in FactId, NEW s \in {"true", "false"}, DetectorReads(f, s)
      PROVE  input' \in Input
    BY <1>2 DEF DetectorReads, FactState
<1>3. CASE HumanClockLost
    <2>1. Unreadable \in Origin
        BY PolicyConstants DEF Unreadable, Origin
    <2> QED
        BY <1>3, <2>1 DEF HumanClockLost, ClockSnapshot
<1>4. ASSUME NEW b \in Pool, AddBlock(b) PROVE input' \in Input
    BY <1>4, LawsConstants DEF AddBlock
<1>5. CASE FileRejected
    BY <1>5 DEF FileRejected
<1>6. CASE Ask
    BY <1>6 DEF Ask, Request, Requestable, Actions
<1>7. CASE TimePasses
    <2>1. input.clocks.now + 1 \in Instant
        BY <1>7, LawsConstants, PolicyConstants DEF TimePasses, Instant, ClockSnapshot
    <2> QED
        BY <1>7, <2>1 DEF TimePasses, ClockSnapshot
<1>8. CASE UNCHANGED input
    BY <1>8
<1> QED
    BY <1>1, <1>2, <1>3, <1>4, <1>5, <1>6, <1>7, <1>8 DEF Next

\* The engine is total: whatever is read, lost, added or asked, it answers with
\* four deadlines (resolve_request has no error path).
THEOREM TypeCorrect == Spec => []TypeOK
<1>1. Init => TypeOK
    BY LawsConstants, ResolveType DEF Init, TypeOK
<1>2. TypeOK /\ [Next]_input => TypeOK'
    <2> SUFFICES ASSUME TypeOK, [Next]_input PROVE TypeOK'
        OBVIOUS
    <2>1. input' \in Input
        BY InputStep DEF TypeOK
    <2>2. ResolveRequest(input') \in Decision
        BY <2>1, ResolveType
    <2> QED
        BY <2>1, <2>2 DEF TypeOK
<1> QED
    BY <1>1, <1>2, PTL DEF Spec

-----------------------------------------------------------------------------
(* Losing sight of something never causes a sleep. *)

\* Without Never among its parts no floor permits: an input with a doubtful fact or
\* a rejected file has none that passes, for a sleep.
LEMMA DoubtHolds ==
    ASSUME NEW in \in Input, NEW a \in SleepActions, Doubtful(in) # {} \/ in.policy.faults > 0
    PROVE  ~\A d \in Floors(in, a) : d <= in.clocks.now
<1>1. Never \in Floors(in, a)
    BY DEF Floors, ImplicitFloors, SleepActions, IsSleep, VetoedByDoubt
<1>2. ~(Never <= in.clocks.now)
    BY NeverFacts DEF Input, ClockSnapshot
<1> QED
    BY <1>1, <1>2

\* A detector that breaks selects no block it did not select: no new ceiling.
LEMMA BreakingAddsNoCeiling ==
    ASSUME NEW in \in Input, NEW out \in Input, NEW a \in Actions, NEW f \in FactId,
           out = [in EXCEPT !.facts[f] = "indeterminate"]
    PROVE  Ceilings(out, a) \subseteq Ceilings(in, a)
<1>1. /\ out.policy = in.policy /\ out.clocks = in.clocks
      /\ out.edges = in.edges /\ out.request = in.request
      /\ \A g \in FactId : out.facts[g] = IF g = f THEN "indeterminate" ELSE in.facts[g]
    BY DEF Input
<1>2. ASSUME NEW b \in in.policy.blocks, b.kind = "when", Contributes(out, b, a)
      PROVE  Contributes(in, b, a) /\ Contribution(out, b, a) = Contribution(in, b, a)
    <2>1. b.condition \in {"always"} \cup FactId
        BY DEF Input, PolicyType, Block, Condition
    <2>2. OriginOf(out, b) = OriginOf(in, b)
        BY <1>1, SameOrigin DEF Input, PolicyType
    <2>3. ~SatisfiedByRequest(out, b) /\ ~SatisfiedByRequest(in, b)
        BY <1>2 DEF SatisfiedByRequest
    <2>4. Evaluate(b.condition, out.facts) = "true"
        BY <1>2, <2>3 DEF Contributes
    <2>5. Evaluate(b.condition, in.facts) = "true"
        BY <1>1, <2>1, <2>4 DEF Evaluate
    <2>6. Contributes(in, b, a)
        BY <1>2, <2>2, <2>3, <2>5 DEF Contributes
    <2>7. Contribution(out, b, a) = Contribution(in, b, a)
        BY <1>1, <2>2, <2>3 DEF Contribution
    <2> QED
        BY <2>6, <2>7
<1>3. Contributions(out, "when", a) \subseteq Contributions(in, "when", a)
    BY <1>1, <1>2 DEF Contributions
<1> QED
    BY <1>1, <1>3 DEF Ceilings

\* With the human-input clock lost, a ceiling on that clock contributes nothing
\* and a floor on it holds for good; every other part is as it was.
LEMMA LosingTheClockHolds ==
    ASSUME NEW in \in Input, NEW out \in Input, NEW a \in SleepActions,
           out = [in EXCEPT !.clocks.human_input = Unreadable]
    PROVE  /\ Ceilings(out, a) \subseteq Ceilings(in, a)
           /\ \A d \in Floors(in, a) : d \in Floors(out, a) \/ Never \in Floors(out, a)
           /\ Floors(out, a) # {} => Floors(in, a) # {}
<1>1. /\ out.policy = in.policy /\ out.facts = in.facts
      /\ out.edges = in.edges /\ out.request = in.request
      /\ out.clocks.now = in.clocks.now /\ out.clocks.resume = in.clocks.resume
      /\ out.clocks.human_input = Unreadable
    BY DEF Input, ClockSnapshot
<1>2. ASSUME NEW b \in in.policy.blocks
      PROVE  SatisfiedByRequest(out, b) <=> SatisfiedByRequest(in, b)
    BY <1>1 DEF SatisfiedByRequest
<1>3. ASSUME NEW b \in in.policy.blocks
      PROVE  OriginOf(out, b) = OriginOf(in, b) \/ ~Known(OriginOf(out, b))
    <2> b \in Block
        BY DEF Input, PolicyType
    <2>1. CASE b.clock = "human_input"
        <3>1. OriginOf(out, b) = Unreadable
            <4>1. OriginOf(out, b) = IF out.clocks.human_input = NotYet THEN 0
                                     ELSE out.clocks.human_input
                BY <2>1, OriginCases
            <4>2. Unreadable # NotYet
                BY DEF Unreadable, NotYet
            <4> QED
                BY <1>1, <4>1, <4>2
        <3>2. ~Known(Unreadable)
            BY DEF Known, Unreadable
        <3> QED
            BY <3>1, <3>2
    <2>2. CASE b.clock = "resume"
        BY <1>1, <2>2, OriginCases
    <2>3. CASE b.clock = "condition"
        <3>1. OriginOf(out, b) = IF out.edges[IdOf(b)] = NoEdge THEN out.clocks.now
                                 ELSE out.edges[IdOf(b)]
            BY <2>3, OriginCases
        <3>2. OriginOf(in, b) = IF in.edges[IdOf(b)] = NoEdge THEN in.clocks.now
                                ELSE in.edges[IdOf(b)]
            BY <2>3, OriginCases
        <3> QED
            BY <1>1, <3>1, <3>2
    <2>4. CASE b.clock = "boot"
        BY <1>1, <2>4, OriginCases
    <2> QED
        BY <2>1, <2>2, <2>3, <2>4 DEF Block, ClockName
<1>4. ASSUME NEW b \in in.policy.blocks, b.kind = "when", Contributes(out, b, a)
      PROVE  Contributes(in, b, a) /\ Contribution(out, b, a) = Contribution(in, b, a)
    <2>1. ~SatisfiedByRequest(out, b) /\ ~SatisfiedByRequest(in, b)
        BY <1>4 DEF SatisfiedByRequest
    <2>2. OriginOf(out, b) = OriginOf(in, b)
        BY <1>3, <1>4, <2>1 DEF Contributes
    <2> QED
        BY <1>1, <1>4, <2>1, <2>2 DEF Contributes, Contribution
<1>5. ASSUME NEW b \in in.policy.blocks, b.kind = "while"
      PROVE  /\ Contributes(out, b, a) <=> Contributes(in, b, a)
             /\ \/ Contribution(out, b, a) = Contribution(in, b, a)
                \/ Contribution(out, b, a) = Never
    <2>1. Contributes(out, b, a) <=> Contributes(in, b, a)
        BY <1>1, <1>2, <1>5 DEF Contributes
    <2> b \in Block /\ a \in Actions /\ IsSleep(a)
        BY DEF Input, PolicyType, SleepActions
    <2>2. CASE SatisfiedByRequest(in, b)
        <3>1. Contribution(out, b, a) = out.clocks.now
            BY <1>2, <2>2, ContributionCases
        <3>2. Contribution(in, b, a) = in.clocks.now
            BY <2>2, ContributionCases
        <3> QED
            BY <1>1, <2>1, <3>1, <3>2
    <2>3. CASE ~SatisfiedByRequest(in, b) /\ OriginOf(out, b) = OriginOf(in, b)
        <3>1. CASE ~Known(OriginOf(in, b))
            <4>1. Contribution(out, b, a) = Never
                BY <1>2, <2>3, <3>1, ContributionCases
            <4> QED
                BY <2>1, <4>1
        <3>2. CASE Known(OriginOf(in, b))
            <4>1. Contribution(out, b, a) = FromOrigin(OriginOf(in, b), b.timeouts[a])
                BY <1>2, <2>3, <3>2, ContributionCases
            <4>2. Contribution(in, b, a) = FromOrigin(OriginOf(in, b), b.timeouts[a])
                BY <2>3, <3>2, ContributionCases
            <4> QED
                BY <2>1, <4>1, <4>2
        <3> QED
            BY <3>1, <3>2
    <2>4. CASE ~SatisfiedByRequest(in, b) /\ ~Known(OriginOf(out, b))
        <3>1. Contribution(out, b, a) = Never
            BY <1>2, <2>4, ContributionCases
        <3> QED
            BY <2>1, <3>1
    <2> QED
        BY <1>3, <2>1, <2>2, <2>3, <2>4
<1>6. Contributions(out, "when", a) \subseteq Contributions(in, "when", a)
    BY <1>1, <1>4 DEF Contributions
<1>7. ImplicitFloors(out, a) = ImplicitFloors(in, a)
    BY <1>1 DEF ImplicitFloors, Doubtful
<1>8. ASSUME NEW d \in Contributions(in, "while", a)
      PROVE  d \in Contributions(out, "while", a) \/ Never \in Contributions(out, "while", a)
    BY <1>1, <1>5, <1>8 DEF Contributions
<1>9. Contributions(out, "while", a) # {} => Contributions(in, "while", a) # {}
    BY <1>1, <1>5 DEF Contributions
<1>10. Ceilings(out, a) \subseteq Ceilings(in, a)
    BY <1>1, <1>6 DEF Ceilings
<1>11. ASSUME NEW d \in Floors(in, a)
       PROVE  d \in Floors(out, a) \/ Never \in Floors(out, a)
    BY <1>7, <1>8, <1>11 DEF Floors
<1>12. Floors(out, a) # {} => Floors(in, a) # {}
    BY <1>7, <1>9 DEF Floors
<1> QED
    BY <1>10, <1>11, <1>12

\* Two inputs that differ only in facts no block is selected by, or in the number
\* of faults, are given the same parts by the blocks.
LEMMA SameParts ==
    ASSUME NEW in \in Input, NEW out \in Input, NEW a \in Actions,
           out.clocks = in.clocks, out.edges = in.edges, out.request = in.request,
           out.policy.blocks = in.policy.blocks,
           \A b \in in.policy.blocks :
                Evaluate(b.condition, out.facts) = "true"
                    <=> Evaluate(b.condition, in.facts) = "true"
    PROVE  /\ \A kind : Contributions(out, kind, a) = Contributions(in, kind, a)
           /\ Ceilings(out, a) = Ceilings(in, a)
<1>1. ASSUME NEW b \in in.policy.blocks
      PROVE  /\ OriginOf(out, b) = OriginOf(in, b)
             /\ SatisfiedByRequest(out, b) <=> SatisfiedByRequest(in, b)
    BY SameOrigin DEF SatisfiedByRequest, Input, PolicyType
<1>2. ASSUME NEW b \in in.policy.blocks
      PROVE  /\ Contributes(out, b, a) <=> Contributes(in, b, a)
             /\ Contribution(out, b, a) = Contribution(in, b, a)
    <2>1. Contributes(out, b, a) <=> Contributes(in, b, a)
        BY <1>1 DEF Contributes
    <2>2. b \in Block
        BY DEF Input, PolicyType
    <2>3. CASE SatisfiedByRequest(in, b)
        BY <1>1, <2>1, <2>2, <2>3, ContributionCases
    <2>4. CASE ~SatisfiedByRequest(in, b) /\ Known(OriginOf(in, b))
        BY <1>1, <2>1, <2>2, <2>4, ContributionCases
    <2>5. CASE ~SatisfiedByRequest(in, b) /\ ~Known(OriginOf(in, b))
        BY <1>1, <2>1, <2>2, <2>5, ContributionCases
    <2> QED
        BY <2>1, <2>3, <2>4, <2>5
<1>3. ASSUME NEW kind PROVE Contributions(out, kind, a) = Contributions(in, kind, a)
    BY <1>2 DEF Contributions
<1> QED
    BY <1>3 DEF Ceilings

\* One step that blinds the engine makes no sleep due.
LEMMA BlindedStep ==
    ASSUME input \in Input, input' \in Input, Blinded, NEW a \in SleepActions,
           Due(ResolveRequest(input'), a)
    PROVE  Due(ResolveRequest(input), a)
<1> a \in Actions
    BY DEF SleepActions
<1>1. ASSUME NEW f \in FactId, DetectorBreaks(f) PROVE Due(ResolveRequest(input), a)
    <2>1. input' = [input EXCEPT !.facts[f] = "indeterminate"]
        BY <1>1 DEF DetectorBreaks
    <2>2. f \in Doubtful(input') /\ input'.clocks = input.clocks
        BY <1>1, <2>1 DEF Doubtful, DetectorBreaks, Input
    <2>3. \E d \in Ceilings(input', a) : d <= input'.clocks.now
        BY <2>2, DueWhen, DoubtHolds
    <2>4. Ceilings(input', a) \subseteq Ceilings(input, a)
        BY <2>1, BreakingAddsNoCeiling
    <2> QED
        BY <2>2, <2>3, <2>4, DueWhen
<1>2. CASE HumanClockLost
    <2>1. input' = [input EXCEPT !.clocks.human_input = Unreadable]
        BY <1>2 DEF HumanClockLost
    <2>2. input'.clocks.now = input.clocks.now /\ ~(Never <= input.clocks.now)
        BY <2>1, NeverFacts DEF Input, ClockSnapshot
    <2>3. /\ Ceilings(input', a) \subseteq Ceilings(input, a)
          /\ \A d \in Floors(input, a) : d \in Floors(input', a) \/ Never \in Floors(input', a)
          /\ Floors(input', a) # {} => Floors(input, a) # {}
        BY <2>1, LosingTheClockHolds
    <2> QED
        BY <2>2, <2>3, DueWhen
<1>3. CASE FileRejected
    <2>1. input' = [input EXCEPT !.policy.faults = 1]
        BY <1>3 DEF FileRejected
    <2>2. /\ input'.policy.blocks = input.policy.blocks /\ input'.policy.faults > 0
          /\ input'.clocks = input.clocks /\ input'.facts = input.facts
          /\ input'.edges = input.edges /\ input'.request = input.request
        BY <2>1 DEF Input, PolicyType
    <2>3. \E d \in Ceilings(input', a) : d <= input'.clocks.now
        BY <2>2, DueWhen, DoubtHolds
    <2>4. Ceilings(input', a) = Ceilings(input, a)
        BY <2>2, SameParts
    <2> QED
        BY <2>2, <2>3, <2>4, DueWhen
<1> QED
    BY <1>1, <1>2, <1>3 DEF Blinded

\* A detector that breaks, a human-input clock that is lost and a configuration
\* file that is rejected never make a sleep due that was not due before.
THEOREM BlindnessIsSafe == Spec => BlindnessNeverCauses
<1>1. TypeOK /\ TypeOK' =>
        (Blinded => \A a \in SleepActions : IsDue(input, a)' => IsDue(input, a))
    BY BlindedStep DEF IsDue, TypeOK
<1> QED
    BY <1>1, TypeCorrect, PTL DEF BlindnessNeverCauses
-----------------------------------------------------------------------------
(* What doubt leaves alone. *)

\* The screen has no implicit floor.
LEMMA ScreenFloors ==
    ASSUME NEW in
    PROVE  Floors(in, "screen_off") = Contributions(in, "while", "screen_off")
BY DEF Floors, ImplicitFloors, VetoedByDoubt

\* One step of doubt leaves the deadline of the screen as it was.
LEMMA DoubtStep ==
    ASSUME input \in Input, input' \in Input,
           \/ \E f \in FactId : DetectorBreaks(f) /\ input.facts[f] # "true"
           \/ FileRejected
    PROVE  ResolveAction(input', "screen_off") = ResolveAction(input, "screen_off")
<1> DEFINE s == "screen_off"
<1>1. s \in Actions
    BY DEF Actions
<1>2. SUFFICES /\ \A kind : Contributions(input', kind, s) = Contributions(input, kind, s)
               /\ Ceilings(input', s) = Ceilings(input, s)
    BY <1>2, ScreenFloors DEF ResolveAction, FloorOf, CeilingOf
<1>3. ASSUME NEW f \in FactId, DetectorBreaks(f), input.facts[f] # "true"
      PROVE  /\ \A kind : Contributions(input', kind, s) = Contributions(input, kind, s)
             /\ Ceilings(input', s) = Ceilings(input, s)
    <2>1. /\ input'.policy = input.policy /\ input'.clocks = input.clocks
          /\ input'.edges = input.edges /\ input'.request = input.request
          /\ \A g \in FactId : input'.facts[g] =
                IF g = f THEN "indeterminate" ELSE input.facts[g]
        BY <1>3 DEF DetectorBreaks, Input
    <2>2. ASSUME NEW b \in input.policy.blocks
          PROVE  Evaluate(b.condition, input'.facts) = "true"
                    <=> Evaluate(b.condition, input.facts) = "true"
        <3>1. b.condition \in {"always"} \cup FactId
            BY DEF Input, PolicyType, Block, Condition
        <3> QED
            BY <1>3, <2>1, <3>1 DEF Evaluate
    <2> HIDE DEF s
    <2> QED
        BY <1>1, <2>1, <2>2, SameParts
<1>4. CASE FileRejected
    <2>1. /\ input'.policy.blocks = input.policy.blocks
          /\ input'.clocks = input.clocks /\ input'.facts = input.facts
          /\ input'.edges = input.edges /\ input'.request = input.request
        BY <1>4 DEF FileRejected, Input, PolicyType
    <2> HIDE DEF s
    <2> QED
        BY <1>1, <2>1, SameParts
<1> QED
    BY <1>3, <1>4

\* Losing sight of a fact that was not true, or a rejected file, never moves the
\* deadline of the screen.
THEOREM DoubtLeavesTheScreen == Spec => DoubtSparesTheScreen
<1>1. TypeOK /\ TypeOK' =>
        ((\/ \E f \in FactId : DetectorBreaks(f) /\ input.facts[f] # "true"
          \/ FileRejected)
         => ResolveAction(input, "screen_off")' = ResolveAction(input, "screen_off"))
    BY DoubtStep DEF TypeOK
<1> QED
    BY <1>1, TypeCorrect, PTL DEF DoubtSparesTheScreen

-----------------------------------------------------------------------------
(* What a new block may do. *)

\* More ceilings compose to an earlier one.
LEMMA MoreCeilings ==
    ASSUME NEW S \in SUBSET Deadline, NEW T \in SUBSET Deadline, S \subseteq T
    PROVE  ComposeCeiling(T) <= ComposeCeiling(S)
<1>1. Never \in Nat /\ \A d \in Deadline : d \in Nat /\ d <= Never
    BY NeverFacts
<1>2. ComposeCeiling(T) \in Deadline
    BY ComposeType
<1>3. CASE S = {}
    BY <1>1, <1>2, <1>3 DEF ComposeCeiling
<1>4. CASE S # {}
    <2>1. S \in SUBSET Nat /\ T \in SUBSET Nat /\ T # {}
        BY <1>1, <1>4
    <2>2. Earliest(S) \in T
        BY <1>4, <2>1, LeastNatural
    <2>3. Earliest(T) <= Earliest(S)
        BY <2>1, <2>2, LeastNatural
    <2> QED
        BY <1>4, <2>1, <2>3 DEF ComposeCeiling
<1> QED
    BY <1>3, <1>4

\* More floors compose to a later one, once there is one.
LEMMA MoreFloors ==
    ASSUME NEW S \in SUBSET Deadline, NEW T \in SUBSET Deadline, S \subseteq T, S # {}
    PROVE  ComposeFloor(S) <= ComposeFloor(T)
<1>1. Never \in Nat /\ S \in SUBSET (0 .. Never) /\ T \in SUBSET (0 .. Never) /\ T # {}
    BY NeverFacts
<1>2. Latest(S) \in T
    BY <1>1, GreatestBounded
<1>3. Latest(S) <= Latest(T)
    BY <1>1, <1>2, GreatestBounded
<1> QED
    BY <1>1, <1>3 DEF ComposeFloor

\* A block that is added adds its part to its own kind and changes no other part.
LEMMA AddedParts ==
    ASSUME NEW in \in Input, NEW out \in Input, NEW a \in Actions, NEW b \in Block,
           out = [in EXCEPT !.policy.blocks = @ \cup {b}]
    PROVE  /\ Floors(in, a) \subseteq Floors(out, a)
           /\ Ceilings(in, a) \subseteq Ceilings(out, a)
           /\ b.kind = "when" => Floors(in, a) = Floors(out, a)
           /\ b.kind = "while" => Ceilings(in, a) = Ceilings(out, a)
<1>1. /\ out.policy.blocks = in.policy.blocks \cup {b}
      /\ out.policy.facts = in.policy.facts /\ out.policy.faults = in.policy.faults
      /\ out.facts = in.facts /\ out.clocks = in.clocks
      /\ out.edges = in.edges /\ out.request = in.request
    BY DEF Input, PolicyType
<1>2. ASSUME NEW c \in in.policy.blocks
      PROVE  /\ Contributes(out, c, a) <=> Contributes(in, c, a)
             /\ Contribution(out, c, a) = Contribution(in, c, a)
    <2>1. c \in Block
        BY DEF Input, PolicyType
    <2>2. OriginOf(out, c) = OriginOf(in, c)
        BY <1>1, <2>1, SameOrigin
    <2>3. SatisfiedByRequest(out, c) <=> SatisfiedByRequest(in, c)
        BY <1>1 DEF SatisfiedByRequest
    <2>4. Contributes(out, c, a) <=> Contributes(in, c, a)
        BY <1>1, <2>2, <2>3 DEF Contributes
    <2>5. CASE SatisfiedByRequest(in, c)
        <3>1. Contribution(in, c, a) = in.clocks.now
            BY <2>1, <2>5, ContributionCases
        <3>2. Contribution(out, c, a) = out.clocks.now
            BY <2>1, <2>3, <2>5, ContributionCases
        <3> QED
            BY <1>1, <2>4, <3>1, <3>2
    <2>6. CASE ~SatisfiedByRequest(in, c) /\ Known(OriginOf(in, c))
        BY <2>1, <2>2, <2>3, <2>4, <2>6, ContributionCases
    <2>7. CASE ~SatisfiedByRequest(in, c) /\ ~Known(OriginOf(in, c))
        BY <2>1, <2>2, <2>3, <2>4, <2>7, ContributionCases
    <2> QED
        BY <2>4, <2>5, <2>6, <2>7
<1>3. ASSUME NEW kind
      PROVE  /\ Contributions(in, kind, a) \subseteq Contributions(out, kind, a)
             /\ b.kind # kind => Contributions(in, kind, a) = Contributions(out, kind, a)
    BY <1>1, <1>2 DEF Contributions
<1>4. ImplicitFloors(out, a) = ImplicitFloors(in, a)
    BY <1>1 DEF ImplicitFloors, Doubtful
<1>5. /\ Floors(in, a) \subseteq Floors(out, a)
      /\ b.kind = "when" => Floors(in, a) = Floors(out, a)
    <2>1. Contributions(in, "while", a) \subseteq Contributions(out, "while", a)
        BY <1>3
    <2>2. b.kind = "when" =>
              Contributions(in, "while", a) = Contributions(out, "while", a)
        BY <1>3
    <2> QED
        BY <1>4, <2>1, <2>2 DEF Floors
<1>6. /\ Ceilings(in, a) \subseteq Ceilings(out, a)
      /\ b.kind = "while" => Ceilings(in, a) = Ceilings(out, a)
    <2>1. Contributions(in, "when", a) \subseteq Contributions(out, "when", a)
        BY <1>3
    <2>2. b.kind = "while" =>
              Contributions(in, "when", a) = Contributions(out, "when", a)
        BY <1>3
    <2> QED
        BY <1>1, <2>1, <2>2 DEF Ceilings
<1> QED
    BY <1>5, <1>6

\* The answer moves with either of its halves.
LEMMA Pulled ==
    ASSUME NEW in \in Input, NEW out \in Input, NEW a \in Actions
    PROVE  /\ FloorOf(out, a) = FloorOf(in, a) /\ CeilingOf(out, a) <= CeilingOf(in, a)
                => ResolveAction(out, a) <= ResolveAction(in, a)
           /\ FloorOf(out, a) >= FloorOf(in, a) /\ CeilingOf(out, a) = CeilingOf(in, a)
                => ResolveAction(out, a) >= ResolveAction(in, a)
<1>1. \A i \in Input : FloorOf(i, a) \in Deadline /\ CeilingOf(i, a) \in Deadline
    BY PartsType, ComposeType DEF FloorOf, CeilingOf
<1>2. /\ FloorOf(in, a) \in Nat /\ CeilingOf(in, a) \in Nat
      /\ FloorOf(out, a) \in Nat /\ CeilingOf(out, a) \in Nat
    BY <1>1, NeverFacts
<1> QED
    BY <1>2 DEF ResolveAction

\* One block more pulls its own way.
LEMMA AddStep ==
    ASSUME input \in Input, input' \in Input, NEW b \in Pool, AddBlock(b), NEW a \in Actions
    PROVE  \/ b.kind = "when"  /\ ResolveAction(input', a) <= ResolveAction(input, a)
           \/ b.kind = "while" /\ \/ Floors(input, a) = {}
                                  \/ ResolveAction(input', a) >= ResolveAction(input, a)
<1>1. b \in Block
    BY LawsConstants
<1>2. input' = [input EXCEPT !.policy.blocks = @ \cup {b}]
    BY DEF AddBlock
<1>3. /\ Floors(input, a) \subseteq Floors(input', a)
      /\ Ceilings(input, a) \subseteq Ceilings(input', a)
      /\ b.kind = "when" => Floors(input, a) = Floors(input', a)
      /\ b.kind = "while" => Ceilings(input, a) = Ceilings(input', a)
    BY <1>1, <1>2, AddedParts
<1>4. /\ Floors(input, a) \in SUBSET Deadline /\ Ceilings(input, a) \in SUBSET Deadline
      /\ Floors(input', a) \in SUBSET Deadline /\ Ceilings(input', a) \in SUBSET Deadline
    BY PartsType
<1>5. CASE b.kind = "when"
    <2>1. CeilingOf(input', a) <= CeilingOf(input, a)
        BY <1>3, <1>4, MoreCeilings DEF CeilingOf
    <2>2. FloorOf(input', a) = FloorOf(input, a)
        BY <1>3, <1>5 DEF FloorOf
    <2> QED
        BY <1>5, <2>1, <2>2, Pulled
<1>6. CASE b.kind = "while" /\ Floors(input, a) # {}
    <2>1. FloorOf(input, a) <= FloorOf(input', a)
        BY <1>3, <1>4, <1>6, MoreFloors DEF FloorOf
    <2>2. CeilingOf(input', a) = CeilingOf(input, a)
        BY <1>3, <1>6 DEF CeilingOf
    <2>3. FloorOf(input, a) \in Nat /\ FloorOf(input', a) \in Nat
        BY <1>4, ComposeType, NeverFacts DEF FloorOf
    <2>4. FloorOf(input', a) >= FloorOf(input, a)
        BY <2>1, <2>3
    <2> QED
        BY <1>6, <2>2, <2>4, Pulled
<1> QED
    BY <1>1, <1>5, <1>6 DEF Block, BlockKind

\* A new [when] block only pulls an action earlier, and a new [while] block only
\* later, except where no floor had permitted it at all.
THEOREM BlocksPull == Spec => BlocksPullOneWay
<1>1. TypeOK /\ TypeOK' =>
        \A b \in Pool : AddBlock(b) => \A a \in Actions :
          \/ b.kind = "when"  /\ ResolveAction(input, a)' <= ResolveAction(input, a)
          \/ b.kind = "while" /\ \/ Floors(input, a) = {}
                                 \/ ResolveAction(input, a)' >= ResolveAction(input, a)
    BY AddStep DEF TypeOK
<1> QED
    BY <1>1, TypeCorrect, PTL DEF BlocksPullOneWay

-----------------------------------------------------------------------------
(* What rest --now waives. *)

\* A block whose time has elapsed is a block.
LEMMA ElapsedType ==
    ASSUME NEW b \in Block
    PROVE  /\ Elapsed(b) \in Block
           /\ Elapsed(b).kind = b.kind /\ Elapsed(b).enabled = b.enabled
<1>1. CASE b.kind = "while" /\ b.condition \in {"always", "after_resume"}
    <2> DEFINE ts == [a \in Actions |-> IF b.timeouts[a] = Silent THEN Silent ELSE 0]
    <2>1. Elapsed(b) = [kind |-> b.kind, condition |-> "always", clock |-> "boot",
                        enabled |-> b.enabled, timeouts |-> ts]
        BY <1>1 DEF Elapsed, Block
    <2>2. ts \in [Actions -> Silent .. Never]
        BY PolicyConstants DEF Silent, Never
    <2> HIDE DEF ts
    <2> QED
        BY <2>1, <2>2 DEF Block, Condition, ClockName
<1>2. CASE ~(b.kind = "while" /\ b.condition \in {"always", "after_resume"})
    <2>1. Elapsed(b) = b
        BY <1>2 DEF Elapsed
    <2> QED
        BY <2>1
<1> QED
    BY <1>1, <1>2

\* What the input with the time elapsed shares with the input it is made of.
LEMMA WithElapsedType ==
    ASSUME NEW in \in Input
    PROVE  LET out == WithElapsed(in)
           IN  /\ out \in Input
               /\ out.policy.blocks = {Elapsed(b) : b \in in.policy.blocks}
               /\ out.policy.facts = in.policy.facts /\ out.policy.faults = in.policy.faults
               /\ out.facts = in.facts /\ out.clocks = in.clocks /\ out.edges = in.edges
               /\ ~out.request.now /\ out.request.force = in.request.force
<1> DEFINE bs == {Elapsed(b) : b \in in.policy.blocks}
<1>1. bs \in SUBSET Block
    BY ElapsedType DEF Input, PolicyType
<1>2. WithElapsed(in) = [in EXCEPT !.policy.blocks = bs, !.request.now = FALSE]
    BY DEF WithElapsed
<1> HIDE DEF bs
<1> DEFINE q == [in.request EXCEPT !.now = FALSE]
           p == [in.policy EXCEPT !.blocks = bs]
<1>3. q \in Request /\ ~q.now /\ q.force = in.request.force
    BY DEF Input, Request
<1>4. /\ p \in PolicyType /\ p.blocks = bs
      /\ p.facts = in.policy.facts /\ p.faults = in.policy.faults
    BY <1>1 DEF Input, PolicyType
<1>5. WithElapsed(in) = [in EXCEPT !.policy = p, !.request = q]
    BY <1>2
<1> HIDE DEF p, q
<1>6. /\ WithElapsed(in) \in Input
      /\ WithElapsed(in).policy = p /\ WithElapsed(in).request = q
      /\ WithElapsed(in).facts = in.facts /\ WithElapsed(in).clocks = in.clocks
      /\ WithElapsed(in).edges = in.edges
    BY <1>3, <1>4, <1>5 DEF Input
<1> QED
    BY <1>3, <1>4, <1>6 DEF bs

\* A block and its elapsed form take part together; what they contribute is the
\* same, or has passed in both.
LEMMA ElapsedBlock ==
    ASSUME NEW in \in Input, in.request.now, NEW a \in Actions, NEW b \in in.policy.blocks,
           NEW out \in Input, out = WithElapsed(in)
    PROVE  /\ Contributes(out, Elapsed(b), a) <=> Contributes(in, b, a)
           /\ \/ Contribution(out, Elapsed(b), a) = Contribution(in, b, a)
              \/ /\ Contribution(out, Elapsed(b), a) <= in.clocks.now
                 /\ Contribution(in, b, a) <= in.clocks.now
<1>1. b \in Block /\ Elapsed(b) \in Block
    BY ElapsedType DEF Input, PolicyType
<1>2. /\ out.facts = in.facts /\ out.clocks = in.clocks /\ out.edges = in.edges
      /\ ~out.request.now
    BY WithElapsedType
<1>3. \A c : ~SatisfiedByRequest(out, c)
    BY <1>2 DEF SatisfiedByRequest
<1>4. in.clocks.now \in Instant /\ in.clocks.now \in Nat
    BY NeverFacts DEF Input, ClockSnapshot
<1>5. CASE SatisfiedByRequest(in, b)
    <2>1. b.kind = "while" /\ b.condition \in {"always", "after_resume"}
        BY <1>5 DEF SatisfiedByRequest
    <2>2. /\ Elapsed(b).kind = "while" /\ Elapsed(b).condition = "always"
          /\ Elapsed(b).clock = "boot" /\ Elapsed(b).enabled = b.enabled
          /\ Elapsed(b).timeouts[a] = IF b.timeouts[a] = Silent THEN Silent ELSE 0
        BY <1>1, <2>1 DEF Elapsed, Block
    <2>3. OriginOf(out, Elapsed(b)) = 0
        BY <1>1, <2>2, OriginCases
    <2>4. Evaluate("always", out.facts) = "true"
        BY DEF Evaluate
    <2>5. Contributes(out, Elapsed(b), a) <=> Contributes(in, b, a)
        BY <1>3, <1>5, <2>2, <2>4 DEF Contributes, Silent
    <2>6. Contribution(in, b, a) = in.clocks.now
        BY <1>1, <1>5, ContributionCases
    <2>7. Contribution(out, Elapsed(b), a) = FromOrigin(0, Elapsed(b).timeouts[a])
        BY <1>1, <1>3, <2>3, ContributionCases DEF Known
    <2>8. FromOrigin(0, Elapsed(b).timeouts[a]) <= in.clocks.now
        BY <1>4, <2>2, PolicyConstants DEF FromOrigin, Silent, Instant
    <2> QED
        BY <1>4, <2>5, <2>6, <2>7, <2>8
<1>6. CASE ~SatisfiedByRequest(in, b)
    <2>1. Elapsed(b) = b
        BY <1>6 DEF Elapsed, SatisfiedByRequest
    <2>2. OriginOf(out, b) = OriginOf(in, b)
        BY <1>1, <1>2, SameOrigin
    <2>3. Contributes(out, b, a) <=> Contributes(in, b, a)
        BY <1>2, <1>3, <1>6, <2>2 DEF Contributes
    <2>4. CASE Known(OriginOf(in, b))
        <3>1. Contribution(out, b, a) = FromOrigin(OriginOf(in, b), b.timeouts[a])
            BY <1>1, <1>3, <2>2, <2>4, ContributionCases
        <3>2. Contribution(in, b, a) = FromOrigin(OriginOf(in, b), b.timeouts[a])
            BY <1>1, <1>6, <2>4, ContributionCases
        <3> QED
            BY <2>1, <2>3, <3>1, <3>2
    <2>5. CASE ~Known(OriginOf(in, b))
        <3>1. Contribution(out, b, a) =
                  IF IsSleep(a) THEN Never ELSE FromOrigin(0, b.timeouts[a])
            BY <1>1, <1>3, <2>2, <2>5, ContributionCases
        <3>2. Contribution(in, b, a) =
                  IF IsSleep(a) THEN Never ELSE FromOrigin(0, b.timeouts[a])
            BY <1>1, <1>6, <2>5, ContributionCases
        <3> QED
            BY <2>1, <2>3, <3>1, <3>2
    <2> QED
        BY <2>4, <2>5
<1> QED
    BY <1>5, <1>6

\* A request of rest --now is answered as the elapsed schedule would be.
LEMMA NowIsElapsed ==
    ASSUME NEW in \in Input, in.request.now, NEW a \in Actions
    PROVE  Due(ResolveRequest(in), a) <=> Due(ResolveRequest(WithElapsed(in)), a)
<1> DEFINE out == WithElapsed(in)
           now == in.clocks.now
<1>1. /\ out \in Input /\ out.clocks = in.clocks
      /\ out.policy.blocks = {Elapsed(b) : b \in in.policy.blocks}
      /\ out.policy.facts = in.policy.facts /\ out.policy.faults = in.policy.faults
      /\ out.facts = in.facts /\ out.request.force = in.request.force
    BY WithElapsedType
<1>2. \A b \in in.policy.blocks :
          /\ Elapsed(b).kind = b.kind
          /\ Contributes(out, Elapsed(b), a) <=> Contributes(in, b, a)
          /\ \/ Contribution(out, Elapsed(b), a) = Contribution(in, b, a)
             \/ /\ Contribution(out, Elapsed(b), a) <= now
                /\ Contribution(in, b, a) <= now
    <2>1. SUFFICES ASSUME NEW b \in in.policy.blocks
                   PROVE  /\ Elapsed(b).kind = b.kind
                          /\ Contributes(out, Elapsed(b), a) <=> Contributes(in, b, a)
                          /\ \/ Contribution(out, Elapsed(b), a) = Contribution(in, b, a)
                             \/ /\ Contribution(out, Elapsed(b), a) <= now
                                /\ Contribution(in, b, a) <= now
        OBVIOUS
    <2>2. b \in Block
        BY DEF Input, PolicyType
    <2> QED
        BY <1>1, <2>2, ElapsedBlock, ElapsedType
<1> HIDE DEF out, now
<1>3. ASSUME NEW kind
      PROVE  /\ \A d \in Contributions(in, kind, a) :
                    d \in Contributions(out, kind, a)
                    \/ (d <= now /\ \E e \in Contributions(out, kind, a) : e <= now)
             /\ \A d \in Contributions(out, kind, a) :
                    d \in Contributions(in, kind, a)
                    \/ (d <= now /\ \E e \in Contributions(in, kind, a) : e <= now)
    <2>1. ASSUME NEW d \in Contributions(in, kind, a)
          PROVE  d \in Contributions(out, kind, a)
                 \/ (d <= now /\ \E e \in Contributions(out, kind, a) : e <= now)
        <3>1. PICK b \in in.policy.blocks :
                  b.kind = kind /\ Contributes(in, b, a) /\ d = Contribution(in, b, a)
            BY <2>1 DEF Contributions
        <3>2. Contribution(out, Elapsed(b), a) \in Contributions(out, kind, a)
            BY <1>1, <1>2, <3>1 DEF Contributions
        <3> QED
            BY <1>2, <3>1, <3>2
    <2>2. ASSUME NEW d \in Contributions(out, kind, a)
          PROVE  d \in Contributions(in, kind, a)
                 \/ (d <= now /\ \E e \in Contributions(in, kind, a) : e <= now)
        <3>1. PICK c \in out.policy.blocks :
                  c.kind = kind /\ Contributes(out, c, a) /\ d = Contribution(out, c, a)
            BY <2>2 DEF Contributions
        <3>2. PICK b \in in.policy.blocks : c = Elapsed(b)
            BY <1>1
        <3>3. Contribution(in, b, a) \in Contributions(in, kind, a)
            BY <1>2, <3>1, <3>2 DEF Contributions
        <3> QED
            BY <1>2, <3>1, <3>2, <3>3
    <2> QED
        BY <2>1, <2>2
<1>4. ImplicitFloors(out, a) = ImplicitFloors(in, a)
    BY <1>1 DEF ImplicitFloors, Doubtful
<1>5. Floors(in, a) # {} /\ (\A d \in Floors(in, a) : d <= now)
          <=> Floors(out, a) # {} /\ (\A d \in Floors(out, a) : d <= now)
    BY <1>3, <1>4 DEF Floors
<1>6. (\E d \in Ceilings(in, a) : d <= now) <=> (\E d \in Ceilings(out, a) : d <= now)
    BY <1>1, <1>3 DEF Ceilings
<1>7. Due(ResolveRequest(in), a) <=>
          \/ Floors(in, a) # {} /\ \A d \in Floors(in, a) : d <= now
          \/ \E d \in Ceilings(in, a) : d <= now
    BY DueWhen DEF now
<1>8. Due(ResolveRequest(out), a) <=>
          \/ Floors(out, a) # {} /\ \A d \in Floors(out, a) : d <= now
          \/ \E d \in Ceilings(out, a) : d <= now
    BY <1>1, DueWhen DEF now
<1> QED
    BY <1>5, <1>6, <1>7, <1>8 DEF out

\* A --now request permits exactly what the schedule would have permitted had the
\* base schedule and the settle window elapsed.
THEOREM NowWaivesNoMore == Spec => []NowWaivesTwoBlocks
<1>1. TypeOK => NowWaivesTwoBlocks
    BY NowIsElapsed DEF TypeOK, NowWaivesTwoBlocks, IsDue
<1> QED
    BY <1>1, TypeCorrect, PTL
=============================================================================
