----------------------------- MODULE PolicyLaws -----------------------------
(***************************************************************************)
(* What the policy engine promises about two inputs that differ by one      *)
(* edit.  The state is one input of resolve_request; a step is something    *)
(* that happens between two evaluations: a detector breaks or reads         *)
(* something else, the human-input clock is lost, a block is added by a     *)
(* drop-in, a file is rejected, a caller asks, time passes.  The promises   *)
(* are about what such a step may do to the deadlines.                      *)
(***************************************************************************)
EXTENDS Policy

CONSTANTS
    Pool,       \* the blocks a drop-in may add, at most one per id
    Start,      \* the inputs the harness starts from
    Horizon     \* BOUND: the instant at which time stops

ASSUME LawsConstants ==
    /\ Pool \subseteq Block
    /\ \A b, c \in Pool : IdOf(b) = IdOf(c) => b = c
    /\ \A i \in Start : i \in Input
    /\ Horizon \in Instant

VARIABLE input

Init == input \in Start

DetectorBreaks(f) ==
    /\ f \in input.policy.facts
    /\ input.facts[f] # "indeterminate"
    /\ input' = [input EXCEPT !.facts[f] = "indeterminate"]

DetectorReads(f, s) ==
    /\ input' = [input EXCEPT !.facts[f] = s]

HumanClockLost ==
    /\ input.clocks.human_input # Unreadable
    /\ input' = [input EXCEPT !.clocks.human_input = Unreadable]

AddBlock(b) ==
    /\ \A c \in input.policy.blocks : IdOf(c) # IdOf(b)
    /\ input' = [input EXCEPT !.policy.blocks = @ \cup {b}]

FileRejected ==
    /\ input.policy.faults = 0
    /\ input' = [input EXCEPT !.policy.faults = 1]

Ask ==
    /\ input.request = NoRequest
    /\ input' = [input EXCEPT !.request =
                    [now |-> TRUE, force |-> "none", requested |-> "suspend"]]

TimePasses ==
    /\ input.clocks.now < Horizon
    /\ input' = [input EXCEPT !.clocks.now = @ + 1]

Next ==
    \/ \E f \in FactId : DetectorBreaks(f)
    \/ \E f \in FactId, s \in {"true", "false"} : DetectorReads(f, s)
    \/ HumanClockLost
    \/ \E b \in Pool : AddBlock(b)
    \/ FileRejected
    \/ Ask
    \/ TimePasses

Spec == Init /\ [][Next]_input

-----------------------------------------------------------------------------
SleepActions == {a \in Actions : IsSleep(a)}

IsDue(in, a) == Due(ResolveRequest(in), a)

\* The engine answers every input with four deadlines of its own order, also
\* where a timeout overflows the clock (Deadline::from_origin).
TypeOK ==
    /\ input \in Input
    /\ ResolveRequest(input) \in Decision

Blinded == (\E f \in FactId : DetectorBreaks(f)) \/ HumanClockLost \/ FileRejected

\* Losing sight of something never causes a sleep: after a detector breaks, the
\* human-input clock is lost or a configuration file is rejected, no sleep
\* action is due that was not due before (resolve_action: doubt is a floor and
\* never a selector, and a ceiling with an unknown origin contributes nothing).
BlindnessNeverCauses ==
    [][Blinded => \A a \in SleepActions : IsDue(input, a)' => IsDue(input, a)]_input

\* The panel of a machine that lost sight of a fact that was not true, or whose
\* configuration was rejected, keeps exactly the deadline it had: no implicit
\* floor reaches screen_off.
DoubtSparesTheScreen ==
    [][(\/ \E f \in FactId : DetectorBreaks(f) /\ input.facts[f] # "true"
        \/ FileRejected)
       => ResolveAction(input, "screen_off")' = ResolveAction(input, "screen_off")]_input

\* A new [when] block can only pull an action earlier, and a new [while] block
\* can only push it later, except where no floor had permitted it at all.
BlocksPullOneWay ==
    [][\A b \in Pool : AddBlock(b) => \A a \in Actions :
          \/ b.kind = "when"  /\ ResolveAction(input, a)' <= ResolveAction(input, a)
          \/ b.kind = "while" /\ \/ Floors(input, a) = {}
                                 \/ ResolveAction(input, a)' >= ResolveAction(input, a)]_input

\* The policy in which the base schedule and the settle window have long
\* elapsed and everything else is as it was.
Elapsed(b) ==
    IF b.kind = "while" /\ b.condition \in {"always", "after_resume"}
    THEN [b EXCEPT !.condition = "always", !.clock = "boot",
                   !.timeouts = [a \in Actions |-> IF @[a] = Silent THEN Silent ELSE 0]]
    ELSE b

WithElapsed(in) ==
    [in EXCEPT !.policy.blocks = {Elapsed(b) : b \in @}, !.request.now = FALSE]

\* A --now request permits exactly what the schedule would have permitted had
\* the base schedule and the post-resume settle window elapsed: every other
\* block, every ceiling and both implicit floors still decide.
NowWaivesTwoBlocks ==
    input.request.now =>
        \A a \in Actions : IsDue(input, a) <=> IsDue(WithElapsed(input), a)
=============================================================================
