------------------------------- MODULE Screen -------------------------------
(***************************************************************************)
(* The screen half of a tick (engine.rs: apply_screen, observe_screen), the *)
(* registry it asks (agents.rs), the calls it makes (actions.rs), the       *)
(* session agents that obey them (idlectl-agent: main.rs, wayland.rs,       *)
(* x11.rs) and the displays behind those.                                   *)
(*                                                                          *)
(* Agents are processes: one that is restarted comes back as another, under *)
(* another bus name, in the same session.  The daemon asks and observes     *)
(* them one call at a time while they live, die and hear from their         *)
(* display.  Whether screen_off is due is the environment's choice here.    *)
(***************************************************************************)
EXTENDS Integers, Sequences, FiniteSets

CONSTANTS
    Agents, Sessions, Outputs,
    Sites,               \* machines: a function from names to SiteType
    HEARTBEAT_INTERVAL, HEARTBEAT_MAX_AGE, SCREEN_DIVERGENCE_GRACE,
    MaxEvents            \* BOUND: power modes a display has reported and nobody has read

AllDisturbances ==
    {"stop", "fails", "midcall", "crash", "hotplug", "meddle", "restart"}

\* The agents that may run and the session of each, which of them talk to an X server,
\* the outputs of a session when it starts, and what may go wrong.
SiteType ==
    [runs : SUBSET Agents, session : [Agents -> Sessions], x11 : SUBSET Agents,
     outputs : SUBSET Outputs, may : SUBSET AllDisturbances]

ASSUME ScreenConstants ==
    /\ \A s \in DOMAIN Sites : Sites[s] \in SiteType
    /\ {HEARTBEAT_INTERVAL, HEARTBEAT_MAX_AGE, SCREEN_DIVERGENCE_GRACE} \subseteq Nat \ {0}
    /\ MaxEvents \in Nat \ {0}
    /\ IsFiniteSet(Outputs)

VARIABLES
    site,
    due,          \* screen_off would be due in an evaluation made now
    moved,        \* history: it has moved since a disagreement that lasts began
    (* the daemon *)
    registry,     \* agent -> not registered, registered without a mechanism, or with one
    silent,       \* agent -> time since its last report
    blanked,      \* the registry's record of the screen
    divergence,   \* since when the screen has not been what was asked
    tick,         \* the tick in progress
    poked,        \* a wake-up is queued for the loop
    (* the agents *)
    started,      \* processes that have been started
    running,      \* those that still run
    lost,         \* those whose display connection has died
    armed,        \* those that have a blanker
    installed,    \* agent -> the outputs its blanker was built for, as long as they last
    asked,        \* agent -> what it was last told, and did
    observed,     \* agent -> what its display last reported, "none" before it did
    events,       \* agent -> power modes its event thread has not read
    (* the displays *)
    plugged,      \* session -> its outputs
    dark          \* session -> those that are off

daemon   == <<registry, silent, blanked, divergence, tick, poked>>
agents   == <<started, running, lost, armed, installed, asked, observed, events>>
displays == <<plugged, dark>>
vars     == <<site, due, moved, daemon, agents, displays>>

-----------------------------------------------------------------------------

May(d)       == d \in Sites[site].may
SessionOf(a) == Sites[site].session[a]
IsX11(a)     == a \in Sites[site].x11
Seats        == {SessionOf(a) : a \in Sites[site].runs}

Agreed == [age |-> -1, warned |-> FALSE]
Idle   == [stage |-> "idle", want |-> FALSE, todo |-> {}, done |-> {}, wrong |-> {}]

DivergenceType == [age : -1 .. SCREEN_DIVERGENCE_GRACE, warned : BOOLEAN]
TickType == [stage : {"idle", "apply", "observe"}, want : BOOLEAN,
             todo : SUBSET Agents, done : SUBSET Agents, wrong : SUBSET Agents]

\* Every variable keeps its type, no display has more unread events than MaxEvents, and
\* no output is dark or switched that is not plugged in.
TypeOK ==
    /\ site \in DOMAIN Sites /\ due \in BOOLEAN /\ moved \in BOOLEAN
    /\ registry \in [Agents -> {"none", "unable", "able"}]
    /\ silent \in [Agents -> 0 .. HEARTBEAT_MAX_AGE + 1]
    /\ blanked \in BOOLEAN
    /\ divergence \in DivergenceType
    /\ tick \in TickType
    /\ poked \in BOOLEAN
    /\ running \subseteq started /\ started \subseteq Agents
    /\ lost \subseteq Agents /\ armed \subseteq Agents
    /\ installed \in [Agents -> SUBSET Outputs]
    /\ asked \in [Agents -> BOOLEAN]
    /\ observed \in [Agents -> {"none", "dark", "lit"}]
    /\ events \in [Agents -> Seq({"dark", "lit"})]
    /\ \A a \in Agents : Len(events[a]) <= MaxEvents
    /\ plugged \in [Sessions -> SUBSET Outputs]
    /\ dark \in [Sessions -> SUBSET Outputs]
    /\ \A s \in Sessions : dark[s] \subseteq plugged[s]
    /\ \A a \in Agents : installed[a] \subseteq plugged[SessionOf(a)]

Able == {a \in Agents : registry[a] = "able"}

\* Whether the agent has a mechanism to announce.
CanBlank(a) == IsX11(a) \/ a \in armed

\* The outputs it commands: those the blanker was built for; under X11 the whole server.
Commands(a) == IF IsX11(a) THEN plugged[SessionOf(a)] ELSE installed[a]

\* The Blanked property: the display's word, or the agent's own where there is none.
Blanked(a) ==
    IF a \in lost \/ observed[a] = "none" THEN asked[a] ELSE observed[a] = "dark"

\* The agents an event of the session's display reaches: X11 reports none.
Listeners(s) == {a \in running \ lost : SessionOf(a) = s /\ ~IsX11(a)}

\* The display of s reports a sequence of modes.
Report(s, modes) ==
    /\ \A a \in Listeners(s) : Len(events[a]) + Len(modes) <= MaxEvents
    /\ events' = [a \in Agents |-> IF a \in Listeners(s) THEN events[a] \o modes ELSE events[a]]

Repeat(mode, n) == [i \in 1 .. n |-> mode]

-----------------------------------------------------------------------------
(* The session agents. *)

\* One agent to a session.  Its blanker is built for the outputs known when it can be
\* built: for all, or for those advertised before the manager of their power was.  The
\* displays it binds report their mode.
Start(a) ==
    /\ a \in Sites[site].runs \ started
    /\ \A b \in running : SessionOf(b) # SessionOf(a)
    /\ started' = started \cup {a} /\ running' = running \cup {a}
    /\ \E known \in SUBSET plugged[SessionOf(a)] :
          /\ known = {} => plugged[SessionOf(a)] = {}
          /\ installed' = [installed EXCEPT ![a] = known]
          /\ armed' = IF known = {} THEN armed ELSE armed \cup {a}
    /\ LET s == SessionOf(a)
           first == Repeat("dark", Cardinality(dark[s]))
                      \o Repeat("lit", Cardinality(plugged[s] \ dark[s]))
       IN  /\ Len(first) <= MaxEvents
           /\ events' = [events EXCEPT ![a] = IF IsX11(a) THEN <<>> ELSE first]
    /\ UNCHANGED <<site, due, moved, daemon, lost, asked, observed, displays>>

\* Registration, again when the capability has changed, and the report that doubles as
\* the heartbeat.
Heartbeat(a) ==
    /\ a \in running /\ tick.stage = "idle"
    /\ registry[a] = "none" \/ silent[a] > 0
    /\ registry' = [registry EXCEPT ![a] = IF CanBlank(a) THEN "able" ELSE "unable"]
    /\ silent' = [silent EXCEPT ![a] = 0]
    /\ poked' = TRUE
    /\ UNCHANGED <<site, due, moved, blanked, divergence, tick, agents, displays>>

\* Stopped, killed or replaced: nothing is said to the daemon or to the display.
Stop(a) ==
    /\ May("stop") /\ a \in running
    /\ tick.stage = "idle" \/ May("midcall")
    /\ running' = running \ {a} /\ lost' = lost \ {a}
    /\ armed' = armed \ {a} /\ installed' = [installed EXCEPT ![a] = {}]
    /\ asked' = [asked EXCEPT ![a] = FALSE]
    /\ observed' = [observed EXCEPT ![a] = "none"]
    /\ events' = [events EXCEPT ![a] = <<>>]
    /\ UNCHANGED <<site, due, moved, daemon, started, displays>>

ReadEvent(a) ==
    /\ events[a] # <<>>
    /\ observed' = [observed EXCEPT ![a] = Head(events[a])]
    /\ events' = [events EXCEPT ![a] = Tail(events[a])]
    /\ UNCHANGED <<site, due, moved, daemon, started, running, lost, armed, installed, asked,
                   displays>>

\* set_blank reaches the outputs the blanker was built for, if it reaches anything.
Obey(a, want) ==
    LET s == SessionOf(a)
        turned == IF want THEN Commands(a) \ dark[s] ELSE Commands(a) \cap dark[s]
    IN  /\ a \in running \ lost /\ CanBlank(a)
        /\ asked' = [asked EXCEPT ![a] = want]
        /\ dark' = [dark EXCEPT ![s] = IF want THEN @ \cup turned ELSE @ \ turned]
        /\ Report(s, Repeat(IF want THEN "dark" ELSE "lit", Cardinality(turned)))

-----------------------------------------------------------------------------
(* The screen half of Engine::tick. *)

Stale(a) == registry[a] # "none" /\ silent[a] > HEARTBEAT_MAX_AGE

Reaped == [a \in Agents |-> IF Stale(a) THEN "none" ELSE registry[a]]

ToApply == due # blanked

\* The evaluation, and whether there is anything to apply.
BeginTick ==
    LET able == {a \in Agents : Reaped[a] = "able"}
    IN  /\ poked /\ tick.stage = "idle"
        /\ poked' = FALSE
        /\ registry' = Reaped
        /\ silent' = [a \in Agents |-> IF Stale(a) THEN 0 ELSE silent[a]]
        /\ \/ /\ able = {}
              /\ divergence' = Agreed /\ moved' = FALSE
              /\ tick' = Idle
           \/ /\ able # {}
              /\ UNCHANGED <<divergence, moved>>
              /\ tick' = [Idle EXCEPT !.stage = IF ToApply THEN "apply" ELSE "observe",
                                      !.want = due, !.todo = able]
        /\ UNCHANGED <<site, due, blanked, agents, displays>>

\* Blank or Unblank on one agent, answered Ok.
AskDone(a) ==
    /\ tick.stage = "apply" /\ a \in tick.todo
    /\ Obey(a, tick.want)
    /\ tick' = [tick EXCEPT !.todo = @ \ {a}, !.done = @ \cup {a}]
    /\ UNCHANGED <<site, due, moved, registry, silent, blanked, divergence, poked, started,
                   running, lost, armed, installed, observed, plugged>>

\* Answered with an error: nobody there, no mechanism, a dead display, or an answer
\* that never came back.
AskFailed(a) ==
    /\ tick.stage = "apply" /\ a \in tick.todo
    /\ \/ /\ a \notin running \/ a \in lost \/ ~CanBlank(a) \/ May("fails")
          /\ UNCHANGED <<asked, dark, events>>
       \/ May("midcall") /\ Obey(a, tick.want)
    /\ tick' = [tick EXCEPT !.todo = @ \ {a}]
    /\ UNCHANGED <<site, due, moved, registry, silent, blanked, divergence, poked, started,
                   running, lost, armed, installed, observed, plugged>>

\* Mutant: a change is recorded whoever made it.
RecordedUnmade == tick.want

\* One session that obeyed is enough for the record to follow.
Recorded == IF tick.done # {} THEN tick.want ELSE blanked

Applied ==
    /\ tick.stage = "apply" /\ tick.todo = {}
    /\ blanked' = Recorded
    /\ tick' = [Idle EXCEPT !.stage = "observe", !.todo = Able]
    /\ UNCHANGED <<site, due, moved, registry, silent, divergence, poked, agents, displays>>

\* Silence is neither dark nor lit.
Observe(a) ==
    /\ tick.stage = "observe" /\ a \in tick.todo
    /\ tick' = [tick EXCEPT !.todo = @ \ {a},
                            !.wrong = @ \cup {b \in {a} \cap running : Blanked(b) # blanked}]
    /\ UNCHANGED <<site, due, moved, registry, silent, blanked, divergence, poked, agents,
                   displays>>

\* Mutant: the first disagreement is believed.
SettledAtOnce(d) == d.age >= 0

Settled(d) == d.age >= SCREEN_DIVERGENCE_GRACE

\* Mutant: every disagreeing observation starts the clock again.
DivergingAfresh == [age |-> 0, warned |-> divergence.warned]

Diverging == IF divergence = Agreed THEN [age |-> 0, warned |-> FALSE] ELSE divergence

Observed ==
    /\ tick.stage = "observe" /\ tick.todo = {}
    /\ divergence' = IF tick.wrong = {} THEN Agreed
                     ELSE [Diverging EXCEPT !.warned = @ \/ Settled(Diverging)]
    /\ moved' = (moved /\ tick.wrong # {})
    /\ tick' = Idle
    /\ UNCHANGED <<site, due, registry, silent, blanked, poked, agents, displays>>

-----------------------------------------------------------------------------
(* The rest of the machine. *)

DeadlineMoves ==
    /\ due' = ~due
    /\ poked' = TRUE
    /\ moved' = (moved \/ divergence.age >= 1)
    /\ UNCHANGED <<site, registry, silent, blanked, divergence, tick, agents, displays>>

\* A daemon and agents in good health take no time over what they have to do.
Busy ==
    \/ poked \/ tick.stage # "idle"
    \/ \E a \in running : \/ registry[a] = "none" \/ silent[a] >= HEARTBEAT_INTERVAL
                          \/ events[a] # <<>>

TimePasses ==
    /\ ~Busy
    /\ silent' = [a \in Agents |->
                     IF registry[a] = "none" \/ silent[a] > HEARTBEAT_MAX_AGE
                     THEN silent[a] ELSE silent[a] + 1]
    /\ divergence' = [divergence EXCEPT !.age =
                         IF @ \in 0 .. SCREEN_DIVERGENCE_GRACE - 1 THEN @ + 1 ELSE @]
    /\ UNCHANGED <<site, due, moved, registry, blanked, tick, poked, agents, displays>>

\* The display server dies and comes back with every output lit; nobody reconnects.
CompositorDies(s) ==
    /\ May("crash")
    /\ \E a \in running \ lost : SessionOf(a) = s
    /\ lost' = lost \cup {a \in running : SessionOf(a) = s}
    /\ events' = [a \in Agents |-> IF a \in Listeners(s) THEN <<>> ELSE events[a]]
    /\ dark' = [dark EXCEPT ![s] = {}]
    /\ UNCHANGED <<site, due, moved, daemon, started, running, armed, installed, asked,
                   observed, plugged>>

\* A blanker is built once, when the first output is there.
Plug(s, o) ==
    LET arming == {a \in Listeners(s) : a \notin armed}
    IN  /\ May("hotplug") /\ o \notin plugged[s]
        /\ plugged' = [plugged EXCEPT ![s] = @ \cup {o}]
        /\ armed' = armed \cup arming
        /\ installed' = [a \in Agents |-> IF a \in arming THEN plugged'[s] ELSE installed[a]]
        /\ Report(s, <<"lit">>)
        /\ UNCHANGED <<site, due, moved, daemon, started, running, lost, asked, observed, dark>>

\* Mutant: a blanker goes on switching an output that is gone.
UnplugKeepsObjects(s, o) ==
    /\ May("hotplug") /\ o \in plugged[s]
    /\ plugged' = [plugged EXCEPT ![s] = @ \ {o}]
    /\ dark' = [dark EXCEPT ![s] = @ \ {o}]
    /\ UNCHANGED <<site, due, moved, daemon, agents>>

\* What the blanker holds of an output that is gone stays dead when one comes back.
Unplug(s, o) ==
    /\ May("hotplug") /\ o \in plugged[s]
    /\ plugged' = [plugged EXCEPT ![s] = @ \ {o}]
    /\ dark' = [dark EXCEPT ![s] = @ \ {o}]
    /\ installed' = [a \in Agents |->
                        IF SessionOf(a) = s THEN installed[a] \ {o} ELSE installed[a]]
    /\ UNCHANGED <<site, due, moved, daemon, started, running, lost, armed, asked, observed,
                   events>>

\* Another program, or the display server on an input.
Meddle(s, o) ==
    /\ May("meddle") /\ o \in plugged[s]
    /\ dark' = [dark EXCEPT ![s] = IF o \in @ THEN @ \ {o} ELSE @ \cup {o}]
    /\ Report(s, <<IF o \in dark[s] THEN "lit" ELSE "dark">>)
    /\ UNCHANGED <<site, due, moved, daemon, started, running, lost, armed, installed, asked,
                   observed, plugged>>

Restart ==
    /\ May("restart")
    /\ registry' = [a \in Agents |-> "none"] /\ silent' = [a \in Agents |-> 0]
    /\ blanked' = FALSE /\ divergence' = Agreed
    /\ tick' = Idle /\ poked' = TRUE /\ moved' = FALSE
    /\ UNCHANGED <<site, due, agents, displays>>

Init ==
    /\ site \in DOMAIN Sites
    /\ due = FALSE /\ moved = FALSE
    /\ registry = [a \in Agents |-> "none"] /\ silent = [a \in Agents |-> 0]
    /\ blanked = FALSE /\ divergence = Agreed
    /\ tick = Idle /\ poked = TRUE
    /\ started = {} /\ running = {} /\ lost = {} /\ armed = {}
    /\ installed = [a \in Agents |-> {}]
    /\ asked = [a \in Agents |-> FALSE]
    /\ observed = [a \in Agents |-> "none"]
    /\ events = [a \in Agents |-> <<>>]
    /\ plugged = [s \in Sessions |-> Sites[site].outputs]
    /\ dark = [s \in Sessions |-> {}]

TickStep ==
    \/ BeginTick \/ Applied \/ Observed
    \/ \E a \in Agents : AskDone(a) \/ AskFailed(a) \/ Observe(a)

AgentStep(a) == Heartbeat(a) \/ ReadEvent(a)

Next ==
    \/ TickStep
    \/ \E a \in Agents : AgentStep(a) \/ Start(a) \/ Stop(a)
    \/ DeadlineMoves \/ TimePasses \/ Restart
    \/ \E s \in Seats : \/ CompositorDies(s)
                        \/ \E o \in Outputs : Plug(s, o) \/ Unplug(s, o) \/ Meddle(s, o)

Spec == Init /\ [][Next]_vars

\* The daemon and the agents run, time does not stand still, and no call fails every time.
Fairness ==
    /\ WF_vars(TickStep)
    /\ \A a \in Agents : WF_vars(Heartbeat(a)) /\ WF_vars(ReadEvent(a)) /\ SF_vars(AskDone(a))
    /\ []<><<TimePasses>>_vars

FairSpec == Spec /\ Fairness

-----------------------------------------------------------------------------
(* Properties. *)

OneSession == \A a, b \in Sites[site].runs : SessionOf(a) = SessionOf(b)

\* On a machine with one session where nothing goes wrong the daemon never says that
\* its screen is not what it asked for, though panels take their time to report and
\* the deadline moves in the middle of a tick (observe_screen runs after apply_screen;
\* SCREEN_DIVERGENCE_GRACE).  The exception is a deadline that moves while a
\* disagreement that has lasted is not yet seen to be over: what the next observation
\* finds is a new disagreement, and it is warned of as the old one.
NoFalseAlarm == OneSession /\ Sites[site].may = {} /\ ~moved => ~divergence.warned

\* The session of a has an agent the daemon can address.
Addressable(a) == a \in running /\ registry[a] = "able"

Dependable == OneSession /\ Sites[site].may \subseteq {"stop", "fails"}

\* Its blanker reaches every output there is.
Covers(a) == IsX11(a) \/ installed[a] = plugged[SessionOf(a)]

Settles(a, want) ==
    <>[](Dependable /\ Addressable(a) /\ Covers(a) /\ due = want)
        => <>[](/\ dark[SessionOf(a)] = (IF want THEN plugged[SessionOf(a)] ELSE {})
                /\ divergence = Agreed)

\* The panel of a machine with one session ends as the deadline has it, and the daemon
\* knows: a call that failed is made again though a call that succeeded never is, a
\* replaced agent takes over what it was not told of, and an alarm is taken back
\* (apply_screen, Registry::set_blanked, observe_screen).
PanelFollows == \A a \in Agents, want \in BOOLEAN : Settles(a, want)

\* A session that goes on reporting a screen other than the recorded one is reported,
\* whatever left it so: a call that failed while another session's succeeded, an agent
\* registered after the blank, an output replaced, a daemon restarted; and the report
\* stands as long as the disagreement does ([OBS-8]).
DisagreementIsReported ==
    \A a \in Agents :
        <>[](Addressable(a) /\ Blanked(a) # blanked) => <>[](divergence.warned)

-----------------------------------------------------------------------------
(* What the documentation says, and the code does not do. *)

\* main.rs of the agent on Unblank: "Called when a new origin re-arms the schedule,
\* and on the agent's own shutdown, so that stopping the agent can never leave a
\* session dark".
StoppingLeavesNoDark ==
    [][\A a \in Agents : a \in running /\ a \notin running' => dark'[SessionOf(a)] = {}]_vars
=============================================================================
