------------------------------- MODULE Policy -------------------------------
(***************************************************************************)
(* The policy engine of idlectl (crates/idlectl-policy/src/lib.rs): a pure  *)
(* function from a policy, the facts, the clocks, the recorded edges and an *)
(* explicit request to one deadline per action.                             *)
(*                                                                          *)
(* Blocks of kind "while" contribute floors that compose by MAX, blocks of  *)
(* kind "when" contribute ceilings that compose by MIN, and an action is    *)
(* due once now has reached MIN(floor, ceiling).  Doubt about any enabled   *)
(* fact and any fault of the configuration are two further floors at        *)
(* +infinity that no block wrote.                                           *)
(*                                                                          *)
(* Everything here is a constant operator of one record "in", the argument  *)
(* list of resolve_request:                                                 *)
(*   in.policy   the effective configuration                                *)
(*   in.facts    what every detector last read                              *)
(*   in.clocks   now, and the origins of the human-input and resume clocks  *)
(*   in.edges    when each block's condition last became true               *)
(*   in.request  what a caller asked for, or NoRequest                      *)
(***************************************************************************)
EXTENDS Integers

CONSTANTS
    FactId,       \* the facts a detector reports on
    MaxInstant    \* the largest representable instant; the code has 2^64 - 1 ns

ASSUME PolicyConstants ==
    /\ MaxInstant \in Nat
    /\ {"human_active", "after_resume"} \subseteq FactId
    /\ {"always", "none"} \cap FactId = {}

-----------------------------------------------------------------------------
(* Instants, deadlines and timeouts. *)

Instant == 0 .. MaxInstant

\* +infinity: the top of the order, and never reached.
Never == MaxInstant + 1

Deadline == 0 .. Never

\* Timeout::Never and a timeout that overflows give the same deadline, so
\* Never stands for both.
Timeout == 0 .. Never

\* The block sets no key for the action.
Silent == -1

\* Mutant: the sum is taken without the overflow check.
FromOriginUnchecked(origin, timeout) == origin + timeout

FromOrigin(origin, timeout) ==
    IF origin + timeout > MaxInstant THEN Never ELSE origin + timeout

IsDueAt(deadline, now) == deadline # Never /\ now >= deadline

Latest(S)   == CHOOSE d \in S : \A e \in S : e <= d
Earliest(S) == CHOOSE d \in S : \A e \in S : d <= e

\* Mutant: ceilings compose like floors.
ComposeCeilingLatest(S) == IF S = {} THEN Never ELSE Latest(S)

\* An empty floor is Never because nothing permitted the action; an empty
\* ceiling is Never because nothing demands it.
ComposeFloor(S)   == IF S = {} THEN Never ELSE Latest(S)
ComposeCeiling(S) == IF S = {} THEN Never ELSE Earliest(S)

-----------------------------------------------------------------------------
(* Actions, facts, clocks, blocks. *)

Actions == {"screen_off", "suspend", "hibernate", "poweroff"}
Depth   == [screen_off |-> 0, suspend |-> 1, hibernate |-> 2, poweroff |-> 3]

IsSleep(a)       == a # "screen_off"

\* Mutant: doubt holds the screen as well.
VetoedByDoubtAlways(a) == a \in Actions

VetoedByDoubt(a) == a # "screen_off"

FactState == {"true", "false", "indeterminate", "unavailable"}
DefinitelyFalse(s) == s \in {"false", "unavailable"}

BlockKind == {"while", "when"}
Condition == {"always"} \cup FactId
BlockId   == BlockKind \X Condition
ClockName == {"human_input", "resume", "condition", "boot"}

Block == [kind : BlockKind, condition : Condition, clock : ClockName,
          enabled : BOOLEAN, timeouts : [Actions -> Silent .. Never]]

IdOf(b) == <<b.kind, b.condition>>

\* A policy: at most one block per id, the facts that are switched on, how
\* long without input makes human_active false, and how many faults its
\* files carry.
PolicyType == [blocks : SUBSET Block, facts : SUBSET FactId,
               min_idle : Nat, faults : Nat]

\* ClockOrigin: At(t) is the instant t itself.
NotYet     == -1
Unreadable == -2
Origin     == Unreadable .. MaxInstant
Known(o)   == o >= 0

ClockSnapshot == [now : Instant, human_input : Origin, resume : Origin]

NoEdge == -1
Edges  == [BlockId -> NoEdge .. MaxInstant]

Requestable == Actions \cup {"none"}
Request     == [now : BOOLEAN, force : Requestable, requested : Requestable]
NoRequest   == [now |-> FALSE, force |-> "none", requested |-> "none"]

Input == [policy : PolicyType, facts : [FactId -> FactState],
          clocks : ClockSnapshot, edges : Edges, request : Request]

-----------------------------------------------------------------------------
(* Condition edges: the one thing the pure engine needs remembered. *)

Evaluate(condition, facts) ==
    IF condition = "always" THEN "true" ELSE facts[condition]

\* BlockEdges::observe.  A true block keeps its edge or gets now, a definitely
\* false one loses it, doubt leaves it alone, and so does a block the policy
\* no longer has.
Observe(edges, policy, facts, now) ==
    LET StateOf(id) == Evaluate(id[2], facts)
        Ours == {IdOf(b) : b \in policy.blocks}
    IN  [id \in BlockId |->
            IF id \in Ours /\ StateOf(id) = "true" /\ edges[id] = NoEdge THEN now
            ELSE IF id \in Ours /\ DefinitelyFalse(StateOf(id)) THEN NoEdge
            ELSE edges[id]]

-----------------------------------------------------------------------------
(* Resolution. *)

\* An enabled fact that cannot be read, whether or not a block mentions it.
Doubtful(in) == {f \in in.policy.facts : in.facts[f] = "indeterminate"}

\* ClockSnapshot::origin; a result that is not Known is an unknown origin.
OriginOf(in, b) ==
    LET c == in.clocks
        since == in.edges[IdOf(b)]
    IN  CASE b.clock = "human_input" ->
               IF c.human_input = NotYet THEN 0 ELSE c.human_input
          [] b.clock = "resume"    -> c.resume
          [] b.clock = "condition" -> IF since = NoEdge THEN c.now ELSE since
          [] b.clock = "boot"      -> 0

\* Mutant: rest --now collapses every [while] block.
SatisfiedByRequestAll(in, b) == in.request.now /\ b.kind = "while"

\* The two blocks rest --now satisfies, chosen by the name of the condition.
SatisfiedByRequest(in, b) ==
    /\ in.request.now
    /\ b.kind = "while"
    /\ b.condition \in {"always", "after_resume"}

\* Mutant: an indeterminate condition selects like a true one.
ContributesInDoubt(in, b, a) ==
    /\ b.enabled
    /\ b.timeouts[a] # Silent
    /\ \/ SatisfiedByRequest(in, b)
       \/ /\ ~DefinitelyFalse(Evaluate(b.condition, in.facts))
          /\ b.kind = "while" \/ Known(OriginOf(in, b))

\* Only an enabled block with a key for the action takes part in it, only TRUE
\* selects, and a ceiling whose origin is unknown contributes nothing.
Contributes(in, b, a) ==
    /\ b.enabled
    /\ b.timeouts[a] # Silent
    /\ \/ SatisfiedByRequest(in, b)
       \/ /\ Evaluate(b.condition, in.facts) = "true"
          /\ b.kind = "while" \/ Known(OriginOf(in, b))

\* A floor whose origin is unknown holds the sleep actions forever and counts
\* from boot for the screen.
Contribution(in, b, a) ==
    CASE SatisfiedByRequest(in, b) -> in.clocks.now
      [] ~SatisfiedByRequest(in, b) /\ Known(OriginOf(in, b)) ->
            FromOrigin(OriginOf(in, b), b.timeouts[a])
      [] OTHER -> IF IsSleep(a) THEN Never ELSE FromOrigin(0, b.timeouts[a])

Contributions(in, kind, a) ==
    {Contribution(in, b, a) :
        b \in {x \in in.policy.blocks : x.kind = kind /\ Contributes(in, x, a)}}

ImplicitFloors(in, a) ==
    IF VetoedByDoubt(a) /\ (Doubtful(in) # {} \/ in.policy.faults > 0)
    THEN {Never} ELSE {}

Floors(in, a)   == Contributions(in, "while", a) \cup ImplicitFloors(in, a)
Ceilings(in, a) == Contributions(in, "when", a)
                     \cup (IF in.request.force = a THEN {in.clocks.now} ELSE {})

FloorOf(in, a)   == ComposeFloor(Floors(in, a))
CeilingOf(in, a) == ComposeCeiling(Ceilings(in, a))

ResolveAction(in, a) ==
    IF FloorOf(in, a) <= CeilingOf(in, a) THEN FloorOf(in, a) ELSE CeilingOf(in, a)

\* The part of a Decision that later code reads: the four deadlines, the
\* instant they were computed for, and the action asked for by name.
Decision == [now : Instant, deadline : [Actions -> Deadline], requested : Requestable]

ResolveRequest(in) ==
    [now       |-> in.clocks.now,
     deadline  |-> [a \in Actions |-> ResolveAction(in, a)],
     requested |-> in.request.requested]

Due(d, a) == IsDueAt(d.deadline[a], d.now)

SleepDue(d) == {a \in Actions : IsSleep(a) /\ Due(d, a)}

ShallowestSleepDue(d) ==
    IF SleepDue(d) = {} THEN "none"
    ELSE CHOOSE a \in SleepDue(d) : \A b \in SleepDue(d) : Depth[a] <= Depth[b]

\* Mutant: a request may be answered with a shallower sleep that is due.
ActionToPerformAnyDue(d) == ShallowestSleepDue(d)

\* Asked for by name: that sleep action and no other.  Nobody asked: the
\* shallowest one that is due.
ActionToPerform(d) ==
    IF d.requested = "none" THEN ShallowestSleepDue(d)
    ELSE IF IsSleep(d.requested) /\ Due(d, d.requested) THEN d.requested
    ELSE "none"

\* The earliest deadline still ahead; one already due arms nothing.
NextDeadline(d) ==
    Earliest({d.deadline[a] : a \in {x \in Actions : ~Due(d, x)}} \cup {Never})
=============================================================================
