---------------------------- MODULE ScreenProofs ----------------------------
(***************************************************************************)
(* The screen half of a tick for every number of agents, sessions and       *)
(* outputs: its types, and that a daemon of a machine with one session      *)
(* where nothing goes wrong raises no false alarm.                          *)
(***************************************************************************)
EXTENDS Screen, SequenceTheorems, FiniteSetTheorems, TLAPS

Modes == {"dark", "lit"}

-----------------------------------------------------------------------------
(* The modes a display reports. *)

LEMMA Repeats ==
    ASSUME NEW mode \in Modes, NEW n \in Nat
    PROVE  /\ Repeat(mode, n) \in Seq(Modes)
           /\ Len(Repeat(mode, n)) = n
           /\ \A i \in 1 .. n : Repeat(mode, n)[i] = mode
<1>1. Repeat(mode, n) \in [1 .. n -> Modes]
    BY DEF Repeat
<1>2. Repeat(mode, n) \in Seq(Modes)
    BY <1>1, SeqDef
<1>3. Len(Repeat(mode, n)) = n
    BY <1>1, <1>2, LenProperties
<1>4. \A i \in 1 .. n : Repeat(mode, n)[i] = mode
    BY DEF Repeat
<1> QED
    BY <1>2, <1>3, <1>4

\* Sets of outputs are finite, and their sizes naturals.
LEMMA Sizes ==
    ASSUME NEW S \in SUBSET Outputs
    PROVE  Cardinality(S) \in Nat /\ (Cardinality(S) = 0 <=> S = {})
BY ScreenConstants, FS_Subset, FS_CardinalityType, FS_EmptySet

EventsOK ==
    /\ events \in [Agents -> Seq(Modes)]
    /\ \A a \in Agents : Len(events[a]) <= MaxEvents

LEMMA ReportKeepsEvents ==
    ASSUME TypeOK, NEW s \in Sessions, NEW modes \in Seq(Modes), Report(s, modes)
    PROVE  EventsOK'
<1>1. \A a \in Agents : events[a] \in Seq(Modes) /\ Len(events[a]) <= MaxEvents
    BY DEF TypeOK, Modes
<1>2. ASSUME NEW a \in Agents PROVE events'[a] \in Seq(Modes) /\ Len(events'[a]) <= MaxEvents
    <2>1. CASE a \in Listeners(s)
        <3>1. events'[a] = events[a] \o modes
            BY <2>1 DEF Report
        <3>2. Len(events[a]) + Len(modes) <= MaxEvents
            BY <2>1 DEF Report
        <3> QED
            BY <1>1, <3>1, <3>2, ConcatProperties
    <2>2. CASE a \notin Listeners(s)
        BY <1>1, <2>2 DEF Report
    <2> QED
        BY <2>1, <2>2
<1>3. events' \in [Agents -> Seq(Modes)]
    <2>1. events' = [a \in Agents |-> events'[a]]
        BY DEF Report
    <2> QED
        BY <1>2, <2>1
<1> QED
    BY <1>2, <1>3 DEF EventsOK

-----------------------------------------------------------------------------
(* Types. *)

LEMMA SiteTypes ==
    ASSUME TypeOK
    PROVE  /\ Sites[site] \in SiteType
           /\ Sites[site].runs \subseteq Agents
           /\ Sites[site].outputs \subseteq Outputs
           /\ \A a \in Agents : SessionOf(a) \in Sessions
           /\ Seats \subseteq Sessions
BY ScreenConstants DEF TypeOK, SiteType, SessionOf, Seats

\* What a command turns is among what is plugged in.
LEMMA ObeyTypes ==
    ASSUME TypeOK, NEW a \in Agents, NEW want \in BOOLEAN, Obey(a, want)
    PROVE  /\ asked' \in [Agents -> BOOLEAN]
           /\ dark' \in [Sessions -> SUBSET Outputs]
           /\ \A s \in Sessions : dark'[s] \subseteq plugged[s]
           /\ EventsOK'
<1> DEFINE s == SessionOf(a)
           turned == IF want THEN Commands(a) \ dark[s] ELSE Commands(a) \cap dark[s]
<1>1. s \in Sessions
    BY SiteTypes
<1>2. Commands(a) \subseteq plugged[s]
    BY DEF Commands, TypeOK
<1>3. turned \in SUBSET Outputs /\ turned \subseteq plugged[s]
    BY <1>1, <1>2 DEF TypeOK
<1>4. /\ asked' = [asked EXCEPT ![a] = want]
      /\ dark' = [dark EXCEPT ![s] = IF want THEN @ \cup turned ELSE @ \ turned]
      /\ Report(s, Repeat(IF want THEN "dark" ELSE "lit", Cardinality(turned)))
    BY DEF Obey
<1> HIDE DEF turned, s
<1>5. Repeat(IF want THEN "dark" ELSE "lit", Cardinality(turned)) \in Seq(Modes)
    BY <1>3, Sizes, Repeats DEF Modes
<1>6. EventsOK'
    BY <1>1, <1>4, <1>5, ReportKeepsEvents
<1>7. asked' \in [Agents -> BOOLEAN]
    BY <1>4 DEF TypeOK
<1>8. /\ dark' \in [Sessions -> SUBSET Outputs]
      /\ \A t \in Sessions : dark'[t] \subseteq plugged[t]
    BY <1>1, <1>3, <1>4 DEF TypeOK
<1> QED
    BY <1>6, <1>7, <1>8

\* The records of a tick and of a disagreement.
LEMMA Records ==
    /\ Agreed \in DivergenceType /\ Idle \in TickType
    /\ [age |-> 0, warned |-> FALSE] \in DivergenceType
    /\ \A d \in DivergenceType, w \in BOOLEAN : [d EXCEPT !.warned = w] \in DivergenceType
    /\ \A stage \in {"apply", "observe"}, want \in BOOLEAN, todo \in SUBSET Agents :
            [Idle EXCEPT !.stage = stage, !.want = want, !.todo = todo] \in TickType
<1>1. /\ Agreed \in DivergenceType
      /\ [age |-> 0, warned |-> FALSE] \in DivergenceType
    BY ScreenConstants DEF Agreed, DivergenceType
<1>2. \A d \in DivergenceType, w \in BOOLEAN : [d EXCEPT !.warned = w] \in DivergenceType
    BY DEF DivergenceType
<1>3. Idle \in TickType
    BY DEF Idle, TickType
<1>4. \A t \in TickType, stage \in {"apply", "observe"}, want \in BOOLEAN, todo \in SUBSET Agents :
            [t EXCEPT !.stage = stage, !.want = want, !.todo = todo] \in TickType
    BY DEF TickType
<1> QED
    BY <1>1, <1>2, <1>3, <1>4

LEMMA StepTypes ==
    ASSUME TypeOK, [Next]_vars
    PROVE  TypeOK'
<1>1. CASE BeginTick
    <2>1. tick' \in TickType
        <3>1. CASE tick' = Idle
            BY <3>1, Records
        <3>2. CASE tick' = [Idle EXCEPT !.stage = IF ToApply THEN "apply" ELSE "observe",
                                        !.want = due,
                                        !.todo = {a \in Agents : Reaped[a] = "able"}]
            BY <3>2, Records DEF TypeOK
        <3> QED
            BY <1>1, <3>1, <3>2 DEF BeginTick
    <2>2. divergence' \in DivergenceType
        BY <1>1, Records DEF BeginTick, TypeOK
    <2>3. /\ registry' \in [Agents -> {"none", "unable", "able"}]
          /\ silent' \in [Agents -> 0 .. HEARTBEAT_MAX_AGE + 1]
        BY <1>1, ScreenConstants DEF BeginTick, TypeOK, Reaped
    <2> QED
        BY <1>1, <2>1, <2>2, <2>3 DEF BeginTick, TypeOK, agents, displays, SessionOf
<1>2. CASE Applied
    BY <1>2 DEF TickType, Applied, TypeOK, Recorded, Idle, Able, agents, displays, SessionOf
<1>3. CASE Observed
    <2>1. divergence' \in DivergenceType
        <3>1. Diverging \in DivergenceType
            BY Records DEF Diverging, TypeOK
        <3>2. Diverging.warned \/ Settled(Diverging) \in BOOLEAN
            BY <3>1 DEF DivergenceType, Settled
        <3>3. [Diverging EXCEPT !.warned = @ \/ Settled(Diverging)] \in DivergenceType
            BY <3>1 DEF DivergenceType
        <3> QED
            BY <1>3, <3>3, Records DEF Observed
    <2> QED
        BY <1>3, <2>1, Records DEF Observed, TypeOK, agents, displays, SessionOf
<1>4. ASSUME NEW a \in Agents, AskDone(a) PROVE TypeOK'
    <2>1. Obey(a, tick.want) /\ tick.want \in BOOLEAN
        BY <1>4 DEF AskDone, TypeOK, TickType
    <2>2. /\ asked' \in [Agents -> BOOLEAN]
          /\ dark' \in [Sessions -> SUBSET Outputs]
          /\ \A s \in Sessions : dark'[s] \subseteq plugged[s]
          /\ EventsOK'
        BY <2>1, ObeyTypes
    <2> QED
        BY <1>4, <2>2 DEF AskDone, TypeOK, TickType, EventsOK, Modes, SessionOf
<1>5. ASSUME NEW a \in Agents, AskFailed(a) PROVE TypeOK'
    <2>1. CASE UNCHANGED <<asked, dark, events>>
        BY <1>5, <2>1 DEF AskFailed, TypeOK, TickType, SessionOf
    <2>2. CASE Obey(a, tick.want)
        <3>1. /\ asked' \in [Agents -> BOOLEAN]
              /\ dark' \in [Sessions -> SUBSET Outputs]
              /\ \A s \in Sessions : dark'[s] \subseteq plugged[s]
              /\ EventsOK'
            BY <2>2, ObeyTypes DEF TypeOK, TickType
        <3> QED
            BY <1>5, <3>1 DEF AskFailed, TypeOK, TickType, EventsOK, Modes, SessionOf
    <2> QED
        BY <1>5, <2>1, <2>2 DEF AskFailed
<1>6. ASSUME NEW a \in Agents, Observe(a) PROVE TypeOK'
    BY <1>6 DEF TickType, Observe, TypeOK, agents, displays, SessionOf
<1>7. ASSUME NEW a \in Agents, Heartbeat(a) PROVE TypeOK'
    BY <1>7, ScreenConstants DEF Heartbeat, TypeOK, agents, displays, SessionOf
<1>8. ASSUME NEW a \in Agents, ReadEvent(a) PROVE TypeOK'
    <2>1. events[a] \in Seq(Modes) /\ events[a] # <<>> /\ Len(events[a]) <= MaxEvents
        BY <1>8 DEF ReadEvent, TypeOK, Modes
    <2>2. /\ Head(events[a]) \in Modes /\ Tail(events[a]) \in Seq(Modes)
          /\ Len(Tail(events[a])) <= MaxEvents
        BY <2>1, HeadTailProperties, LenProperties, ScreenConstants
    <2>3. observed' \in [Agents -> {"none", "dark", "lit"}]
        BY <1>8, <2>2 DEF ReadEvent, TypeOK, Modes
    <2>4. EventsOK'
        BY <1>8, <2>2 DEF ReadEvent, TypeOK, Modes, EventsOK
    <2> QED
        BY <1>8, <2>3, <2>4 DEF ReadEvent, TypeOK, EventsOK, Modes, daemon, displays, SessionOf
<1>9. ASSUME NEW a \in Agents, Start(a) PROVE TypeOK'
    <2> DEFINE s == SessionOf(a)
               first == Repeat("dark", Cardinality(dark[s]))
                          \o Repeat("lit", Cardinality(plugged[s] \ dark[s]))
    <2>1. s \in Sessions
        BY SiteTypes
    <2>2. first \in Seq(Modes)
        <3>1. Cardinality(dark[s]) \in Nat /\ Cardinality(plugged[s] \ dark[s]) \in Nat
            BY <2>1, Sizes DEF TypeOK
        <3>2. /\ Repeat("dark", Cardinality(dark[s])) \in Seq(Modes)
              /\ Repeat("lit", Cardinality(plugged[s] \ dark[s])) \in Seq(Modes)
            BY <3>1, Repeats DEF Modes
        <3> QED
            BY <3>2, ConcatProperties
    <2>3. /\ Len(first) <= MaxEvents
          /\ events' = [events EXCEPT ![a] = IF IsX11(a) THEN <<>> ELSE first]
        BY <1>9 DEF Start
    <2> HIDE DEF first
    <2>4. EventsOK'
        BY <2>2, <2>3, EmptySeq, ScreenConstants DEF TypeOK, Modes, EventsOK
    <2>5. installed' \in [Agents -> SUBSET Outputs] /\ armed' \subseteq Agents
        BY <1>9, <2>1 DEF Start, TypeOK
    <2>6. \A b \in Agents : installed'[b] \subseteq plugged'[SessionOf(b)]
        BY <1>9, <2>1 DEF Start, TypeOK, displays
    <2> QED
        BY <1>9, <2>4, <2>5, <2>6 DEF Start, TypeOK, EventsOK, Modes, daemon, displays, SessionOf
<1>10. ASSUME NEW a \in Agents, Stop(a) PROVE TypeOK'
    <2>1. EventsOK'
        BY <1>10, EmptySeq, ScreenConstants DEF Stop, TypeOK, Modes, EventsOK
    <2> QED
        BY <1>10, <2>1 DEF Stop, TypeOK, EventsOK, Modes, daemon, displays, SessionOf
<1>11. CASE DeadlineMoves
    BY <1>11 DEF DeadlineMoves, TypeOK, agents, displays, SessionOf
<1>12. CASE TimePasses
    <2>1. silent' \in [Agents -> 0 .. HEARTBEAT_MAX_AGE + 1]
        BY <1>12, ScreenConstants DEF TimePasses, TypeOK
    <2>2. divergence' \in DivergenceType
        <3>1. /\ divergence' = [divergence EXCEPT !.age =
                    IF @ \in 0 .. SCREEN_DIVERGENCE_GRACE - 1 THEN @ + 1 ELSE @]
              /\ divergence \in DivergenceType /\ SCREEN_DIVERGENCE_GRACE \in Nat
            BY <1>12, ScreenConstants DEF TimePasses, TypeOK
        <3> QED
            BY <3>1 DEF DivergenceType
    <2> QED
        BY <1>12, <2>1, <2>2 DEF TimePasses, TypeOK, agents, displays, SessionOf
<1>13. CASE Restart
    <2>1. silent' \in [Agents -> 0 .. HEARTBEAT_MAX_AGE + 1]
        BY <1>13, ScreenConstants DEF Restart
    <2> QED
        BY <1>13, <2>1, Records DEF Restart, TypeOK, agents, displays, SessionOf
<1>14. ASSUME NEW s \in Sessions, CompositorDies(s) PROVE TypeOK'
    <2>1. EventsOK'
        BY <1>14, EmptySeq, ScreenConstants DEF CompositorDies, TypeOK, Modes, EventsOK
    <2> QED
        BY <1>14, <2>1 DEF CompositorDies, TypeOK, EventsOK, Modes, daemon, SessionOf
<1>15. ASSUME NEW s \in Sessions, NEW o \in Outputs, Plug(s, o) PROVE TypeOK'
    <2>1. EventsOK'
        <3>1. <<"lit">> \in Seq(Modes)
            BY DEF Modes
        <3> QED
            BY <1>15, <3>1, ReportKeepsEvents DEF Plug
    <2>2. plugged' \in [Sessions -> SUBSET Outputs]
        BY <1>15 DEF Plug, TypeOK
    <2>3. installed' \in [Agents -> SUBSET Outputs] /\ armed' \subseteq Agents
        BY <1>15, <2>2 DEF Plug, Listeners, TypeOK
    <2>4. \A a \in Agents : installed'[a] \subseteq plugged'[SessionOf(a)]
        BY <1>15, SiteTypes DEF Plug, Listeners, TypeOK
    <2> QED
        BY <1>15, <2>1, <2>2, <2>3, <2>4 DEF Plug, TypeOK, EventsOK, Modes, daemon, SessionOf
<1>16. ASSUME NEW s \in Sessions, NEW o \in Outputs, Unplug(s, o) PROVE TypeOK'
    <2>1. installed' \in [Agents -> SUBSET Outputs]
        BY <1>16 DEF Unplug, TypeOK
    <2> QED
        BY <1>16, <2>1 DEF Unplug, TypeOK, daemon, SessionOf
<1>17. ASSUME NEW s \in Sessions, NEW o \in Outputs, Meddle(s, o) PROVE TypeOK'
    <2>1. EventsOK'
        <3>1. <<IF o \in dark[s] THEN "lit" ELSE "dark">> \in Seq(Modes)
            BY DEF Modes
        <3> QED
            BY <1>17, <3>1, ReportKeepsEvents DEF Meddle
    <2> QED
        BY <1>17, <2>1 DEF Meddle, TypeOK, EventsOK, Modes, daemon, SessionOf
<1>18. CASE UNCHANGED vars
    BY <1>18 DEF TypeOK, vars, daemon, agents, displays, SessionOf
<1> QED
    BY <1>1, <1>2, <1>3, <1>4, <1>5, <1>6, <1>7, <1>8, <1>9, <1>10, <1>11, <1>12, <1>13,
       <1>14, <1>15, <1>16, <1>17, <1>18, SiteTypes DEF Next, TickStep, AgentStep

\* Every variable keeps its type, whatever dies, fails or is unplugged.
THEOREM TypeCorrect == Spec => []TypeOK
<1>1. Init => TypeOK
    <2> SUFFICES ASSUME Init PROVE TypeOK
        OBVIOUS
    <2>1. Sites[site].outputs \subseteq Outputs
        BY ScreenConstants DEF Init, SiteType
    <2>2. silent \in [Agents -> 0 .. HEARTBEAT_MAX_AGE + 1]
        BY ScreenConstants DEF Init
    <2>3. EventsOK
        BY EmptySeq, ScreenConstants DEF Init, EventsOK
    <2> QED
        BY <2>1, <2>2, <2>3, Records DEF Init, TypeOK, EventsOK, Modes
<1>2. TypeOK /\ [Next]_vars => TypeOK'
    BY StepTypes
<1> QED
    BY <1>1, <1>2, PTL DEF Spec
-----------------------------------------------------------------------------
(* A machine with one session where nothing goes wrong. *)

Healthy == OneSession /\ Sites[site].may = {}

Wired == Sites[site].outputs
Mode(want) == IF want THEN "dark" ELSE "lit"

\* One agent runs at a time.
OneAgent == running \subseteq Sites[site].runs /\ \A a, b \in running : a = b

\* The panel is as its agent was told, as far as its blanker reaches.
PanelObeys ==
    /\ lost = {}
    /\ plugged = [s \in Sessions |-> Wired]
    /\ \A a \in running :
          /\ installed[a] \subseteq Wired /\ (a \in armed => installed[a] # {})
          /\ dark[SessionOf(a)] = IF asked[a] THEN Commands(a) ELSE {}
    /\ running = {} => \A s \in Sessions : dark[s] = {}

\* Who does not run has left no trace; who is registered as able is.
Registered ==
    /\ \A a \in Agents \ running :
          /\ ~asked[a] /\ observed[a] = "none" /\ registry[a] = "none" /\ events[a] = <<>>
          /\ a \notin armed
    /\ \A a \in running : registry[a] = "able" => CanBlank(a)

\* The last thing a display said, read or not, is what its agent was told.
LastWord ==
    \A a \in running :
        /\ events[a] = <<>> => observed[a] \in {"none", Mode(asked[a])}
        /\ events[a] # <<>> => events[a][Len(events[a])] = Mode(asked[a])
        /\ IsX11(a) => events[a] = <<>> /\ observed[a] = "none"

\* The record and the agent differ only while a tick is asking, and the record and the
\* deadline only while a tick is asking or on its way.
RecordFollows ==
    /\ tick.stage = "apply" =>
          /\ tick.want # blanked /\ (tick.want = due \/ poked)
          /\ running # {}
          /\ tick.todo \subseteq running /\ tick.done \subseteq running
          /\ \A a \in running :
                \/ a \in tick.todo /\ asked[a] = blanked /\ CanBlank(a)
                \/ a \in tick.done \ tick.todo /\ asked[a] = tick.want
    /\ tick.stage # "apply" => \A a \in running : asked[a] = blanked
    /\ tick.stage = "observe" => due = blanked \/ poked
    /\ running = {} => ~blanked

\* A disagreement is news of this instant, for before time has passed the panel is heard;
\* and it is over in an instant more, unless the deadline moves first.
NewsOnly ==
    /\ tick.stage # "observe" => tick.wrong = {}
    /\ tick.wrong \subseteq running
    /\ divergence # Agreed =>
          running # {} /\ (due = blanked \/ poked \/ tick.stage = "apply")
    /\ divergence = Agreed => ~moved
    /\ ~moved =>
          /\ ~divergence.warned
          /\ divergence.age >= 1 =>
                /\ due = blanked /\ tick.stage # "apply" /\ tick.wrong = {}
                /\ \A a \in running : events[a] = <<>>

Health == OneAgent /\ PanelObeys /\ Registered /\ LastWord /\ RecordFollows /\ NewsOnly

HealthInv == Healthy => Health

-----------------------------------------------------------------------------
(* One lemma for every step that such a machine can take. *)

LEMMA InitHealth == ASSUME Init PROVE HealthInv
<1> USE DEF Init
<1>1. OneAgent /\ PanelObeys /\ Registered
    BY DEF OneAgent, PanelObeys, Registered, Wired
<1>2. LastWord /\ RecordFollows
    BY DEF LastWord, RecordFollows, Idle
<1>3. NewsOnly
    BY DEF NewsOnly, Idle, Agreed
<1> QED
    BY <1>1, <1>2, <1>3 DEF HealthInv, Health

\* A disagreement nobody was warned of has an age, and an agreement has none.
LEMMA Ages ==
    ASSUME TypeOK, ~divergence.warned
    PROVE  /\ divergence.age \in -1 .. SCREEN_DIVERGENCE_GRACE
           /\ divergence = Agreed <=> divergence.age = -1
           /\ SCREEN_DIVERGENCE_GRACE \in Nat \ {0}
<1>1. divergence \in DivergenceType
    BY DEF TypeOK
<1>2. divergence = [age |-> divergence.age, warned |-> divergence.warned]
    BY <1>1 DEF DivergenceType
<1>3. divergence.warned \in BOOLEAN /\ divergence.age \in -1 .. SCREEN_DIVERGENCE_GRACE
    BY <1>1 DEF DivergenceType
<1>4. divergence.age = -1 => divergence = Agreed
    <2> HAVE divergence.age = -1
    <2>1. divergence.warned = FALSE
        BY <1>3
    <2> QED
        BY <1>2, <2>1 DEF Agreed
<1>5. divergence = Agreed => divergence.age = -1
    BY DEF Agreed
<1> QED
    BY <1>3, <1>4, <1>5, ScreenConstants

LEMMA HealthBeginTick ==
    ASSUME TypeOK, Health, BeginTick
    PROVE  Health'
<1> DEFINE able == {a \in Agents : Reaped[a] = "able"}
<1>1. able \subseteq running /\ \A a \in able : CanBlank(a) /\ registry[a] = "able"
    BY DEF Health, Registered, Reaped
<1>2. running \subseteq Agents
    BY DEF TypeOK
<1>3. /\ tick.stage = "idle" /\ registry' = Reaped
      /\ UNCHANGED <<site, due, blanked, started, running, lost, armed, installed, asked,
                     observed, events, plugged, dark>>
    BY DEF BeginTick, agents, displays
<1>4. OneAgent' /\ PanelObeys'
    BY <1>3 DEF Health, OneAgent, PanelObeys, Wired, SessionOf, Commands, IsX11
<1>5. LastWord'
    BY <1>3 DEF Health, LastWord, IsX11
<1>6. Registered'
    BY <1>2, <1>3 DEF Health, Registered, Reaped, CanBlank, IsX11
<1>7. CASE able = {} /\ divergence' = Agreed /\ ~moved' /\ tick' = Idle
    <2>1. /\ tick'.stage = "idle" /\ tick'.wrong = {}
          /\ ~divergence'.warned /\ divergence'.age = -1
        BY <1>7 DEF Idle, Agreed
    <2>2. RecordFollows'
        BY <1>3, <2>1 DEF Health, RecordFollows
    <2>3. NewsOnly'
        BY <1>3, <1>7, <2>1 DEF NewsOnly
    <2> QED
        BY <1>4, <1>5, <1>6, <2>2, <2>3 DEF Health
<1>8. CASE /\ able # {} /\ UNCHANGED <<divergence, moved>>
           /\ tick' = [Idle EXCEPT !.stage = IF ToApply THEN "apply" ELSE "observe",
                                   !.want = due, !.todo = able]
    <2>1. /\ tick'.stage = IF ToApply THEN "apply" ELSE "observe"
          /\ tick'.want = due /\ tick'.todo = able
          /\ tick'.done = {} /\ tick'.wrong = {}
        <3> HIDE DEF able
        <3> QED
            BY <1>8 DEF Idle
    <2>2. running # {} /\ able = running
        BY <1>1, <1>8 DEF Health, OneAgent
    <2> HIDE DEF able
    <2>3. CASE ToApply
        <3>1. due # blanked /\ tick'.stage = "apply"
            BY <2>1, <2>3 DEF ToApply
        <3>2. RecordFollows'
            BY <1>1, <1>3, <2>1, <2>2, <3>1
               DEF Health, RecordFollows, CanBlank, IsX11
        <3>3. NewsOnly'
            BY <1>3, <1>8, <2>1, <2>2, <3>1 DEF Health, NewsOnly
        <3> QED
            BY <1>4, <1>5, <1>6, <3>2, <3>3 DEF Health
    <2>4. CASE ~ToApply
        <3>1. due = blanked /\ tick'.stage = "observe"
            BY <2>1, <2>4 DEF ToApply
        <3>2. RecordFollows'
            BY <1>3, <2>1, <2>2, <3>1 DEF Health, RecordFollows
        <3>3. NewsOnly'
            BY <1>3, <1>8, <2>1, <2>2, <3>1 DEF Health, NewsOnly
        <3> QED
            BY <1>4, <1>5, <1>6, <3>2, <3>3 DEF Health
    <2> QED
        BY <2>3, <2>4
<1> QED
    BY <1>7, <1>8 DEF BeginTick

\* The one agent does what it is told, and its display says so last.
LEMMA HealthAskDone ==
    ASSUME TypeOK, Health, NEW a \in Agents, AskDone(a)
    PROVE  Health'
<1> DEFINE s == SessionOf(a)
           want == tick.want
           turned == IF want THEN Commands(a) \ dark[s] ELSE Commands(a) \cap dark[s]
           modes == Repeat(Mode(want), Cardinality(turned))
<1>1. /\ a \in running /\ s \in Sessions /\ want \in BOOLEAN
      /\ tick.stage = "apply" /\ a \in tick.todo
    BY SiteTypes DEF AskDone, Obey, TypeOK, TickType
<1>2. \A b \in running : b = a
    BY <1>1 DEF Health, OneAgent
<1>3. /\ asked' = [asked EXCEPT ![a] = want]
      /\ dark' = [dark EXCEPT ![s] = IF want THEN @ \cup turned ELSE @ \ turned]
      /\ Report(s, modes) /\ CanBlank(a)
    BY DEF AskDone, Obey, Mode
<1>4. /\ tick'.stage = "apply" /\ tick'.want = want /\ tick'.wrong = tick.wrong
      /\ tick'.todo = tick.todo \ {a} /\ tick'.done = tick.done \cup {a}
    BY <1>1 DEF AskDone, TypeOK, TickType
<1>5. UNCHANGED <<site, due, moved, registry, blanked, divergence, poked, started, running,
                  lost, armed, installed, observed, plugged>>
    BY DEF AskDone
<1>6. asked[a] = blanked /\ want # blanked
    BY <1>1 DEF Health, RecordFollows
<1>7. /\ Commands(a) \subseteq Wired /\ Wired \subseteq Outputs
      /\ dark[s] = IF asked[a] THEN Commands(a) ELSE {}
      /\ ~IsX11(a) => Commands(a) # {}
    <2>1. Wired \subseteq Outputs
        BY SiteTypes DEF Wired
    <2> QED
        BY <1>1, <1>3, <2>1 DEF Health, PanelObeys, Commands, CanBlank
<1>8. asked[a] \in BOOLEAN /\ blanked \in BOOLEAN
    BY DEF TypeOK
<1>9. turned = Commands(a)
    BY <1>1, <1>6, <1>7, <1>8
<1>10. dark'[s] = IF want THEN Commands(a) ELSE {}
    <2> HIDE DEF turned
    <2> QED
        BY <1>1, <1>3, <1>6, <1>7, <1>8, <1>9 DEF TypeOK
<1>11. asked'[a] = want
    BY <1>3 DEF TypeOK
<1> HIDE DEF turned, want, s
<1>12. OneAgent'
    BY <1>5 DEF Health, OneAgent
<1>13. PanelObeys'
    <2>1. Commands(a)' = Commands(a)
        BY <1>5 DEF Commands, IsX11, SessionOf
    <2> QED
        BY <1>1, <1>2, <1>5, <1>7, <1>10, <1>11, <2>1
           DEF Health, PanelObeys, Wired, SessionOf, s
<1>14. \A b \in Agents \ running : events'[b] = events[b] /\ asked'[b] = asked[b]
    <2>1. \A b \in Agents \ running : b # a /\ b \notin Listeners(s)
        BY <1>1 DEF Listeners
    <2> QED
        BY <1>3, <2>1 DEF Report, TypeOK
<1>15. Registered'
    BY <1>5, <1>14 DEF Health, Registered, CanBlank, IsX11
<1>16. LastWord'
    <2> SUFFICES /\ events'[a] = <<>> => observed[a] \in {"none", Mode(want)}
                 /\ events'[a] # <<>> => events'[a][Len(events'[a])] = Mode(want)
                 /\ IsX11(a) => events'[a] = <<>> /\ observed[a] = "none"
        BY <1>2, <1>5, <1>11 DEF LastWord, IsX11, Mode
    <2>1. CASE IsX11(a)
        <3>1. events'[a] = events[a]
            BY <1>3, <2>1 DEF Report, Listeners
        <3>2. events[a] = <<>> /\ observed[a] = "none"
            BY <1>1, <2>1 DEF Health, LastWord
        <3> QED
            BY <3>1, <3>2
    <2>2. CASE ~IsX11(a)
        <3>1. a \in Listeners(s)
            BY <1>1, <2>2 DEF Listeners, Health, PanelObeys, s
        <3>2. events'[a] = events[a] \o modes
            BY <1>3, <3>1 DEF Report
        <3>3. Cardinality(turned) \in Nat /\ Cardinality(turned) # 0
            BY <1>7, <1>9, <2>2, Sizes
        <3>4. /\ modes \in Seq(Modes) /\ Len(modes) = Cardinality(turned)
              /\ modes[Cardinality(turned)] = Mode(want)
            <4>1. Mode(want) \in Modes
                BY DEF Mode, Modes
            <4>2. Cardinality(turned) \in 1 .. Cardinality(turned)
                BY <3>3
            <4> QED
                BY <3>3, <4>1, <4>2, Repeats
        <3>5. events[a] \in Seq(Modes)
            BY DEF TypeOK, Modes
        <3> HIDE DEF modes
        <3>6. /\ Len(events[a]) \in Nat
              /\ Len(events'[a]) = Len(events[a]) + Cardinality(turned)
              /\ events'[a][Len(events'[a])] = modes[Cardinality(turned)]
            <4>1. Len(events[a]) \in Nat
                BY <3>5, LenProperties
            <4>2. Len(events'[a]) = Len(events[a]) + Cardinality(turned)
                <5>1. Len(events[a] \o modes) = Len(events[a]) + Len(modes)
                    BY <3>4, <3>5, ConcatProperties
                <5> QED
                    BY <3>2, <3>4, <5>1, Zenon
            <4>3. \A i \in 1 .. Len(events[a]) + Cardinality(turned) :
                     events'[a][i] = IF i <= Len(events[a]) THEN events[a][i]
                                     ELSE modes[i - Len(events[a])]
                BY <3>2, <3>4, <3>5, ConcatProperties
            <4>4. events'[a][Len(events[a]) + Cardinality(turned)] = modes[Cardinality(turned)]
                BY <3>3, <4>1, <4>3
            <4> QED
                BY <4>1, <4>2, <4>4
        <3>7. events'[a] # <<>>
            BY <3>3, <3>6, EmptySeq
        <3> QED
            BY <2>2, <3>4, <3>6, <3>7
    <2> QED
        BY <2>1, <2>2
<1>17. RecordFollows'
    <2>1. want # blanked /\ (want = due \/ poked)
        BY <1>1 DEF Health, RecordFollows, want
    <2>2. tick.todo \subseteq running /\ tick.done \subseteq running
        BY <1>1 DEF Health, RecordFollows
    <2> QED
        BY <1>1, <1>2, <1>4, <1>5, <1>11, <2>1, <2>2 DEF RecordFollows
<1>18. NewsOnly'
    BY <1>1, <1>4, <1>5 DEF Health, NewsOnly
<1> QED
    BY <1>12, <1>13, <1>15, <1>16, <1>17, <1>18 DEF Health

\* No call fails.
LEMMA HealthAskFailed ==
    ASSUME TypeOK, Health, Healthy, NEW a \in Agents, AskFailed(a)
    PROVE  FALSE
<1>1. ~May("fails") /\ ~May("midcall")
    BY DEF Healthy, May
<1>2. a \notin running \/ a \in lost \/ ~CanBlank(a)
    BY <1>1 DEF AskFailed
<1>3. tick.stage = "apply" /\ a \in tick.todo
    BY DEF AskFailed
<1>4. a \in running /\ CanBlank(a) /\ lost = {}
    BY <1>3 DEF Health, RecordFollows, PanelObeys
<1> QED
    BY <1>2, <1>4

LEMMA HealthApplied ==
    ASSUME TypeOK, Health, Applied
    PROVE  Health'
<1>1. /\ tick.stage = "apply" /\ tick.todo = {} /\ blanked' = Recorded
      /\ tick'.stage = "observe" /\ tick'.wrong = {}
      /\ UNCHANGED <<site, due, moved, registry, divergence, poked, started, running, lost, armed,
                     installed, asked, observed, events, plugged, dark>>
    BY DEF Applied, Idle, agents, displays
<1>2. running # {} /\ \A a \in running : a \in tick.done /\ asked[a] = tick.want
    BY <1>1 DEF Health, RecordFollows
<1>3. blanked' = tick.want /\ (tick.want = due \/ poked)
    BY <1>1, <1>2 DEF Recorded, Health, RecordFollows
<1>4. OneAgent' /\ PanelObeys'
    BY <1>1 DEF Health, OneAgent, PanelObeys, Wired, SessionOf, Commands, IsX11
<1>5. LastWord' /\ Registered'
    BY <1>1 DEF Health, LastWord, Registered, IsX11, CanBlank, Mode
<1>6. RecordFollows'
    BY <1>1, <1>2, <1>3 DEF RecordFollows
<1>7. NewsOnly'
    BY <1>1, <1>2, <1>3 DEF Health, NewsOnly
<1> QED
    BY <1>4, <1>5, <1>6, <1>7 DEF Health

LEMMA HealthObserve ==
    ASSUME TypeOK, Health, NEW a \in Agents, Observe(a)
    PROVE  Health'
<1>1. /\ tick.stage = "observe" /\ tick'.stage = "observe"
      /\ tick'.wrong = tick.wrong \cup {b \in {a} \cap running : Blanked(b) # blanked}
      /\ UNCHANGED <<site, due, moved, registry, blanked, divergence, poked, started, running, lost, armed,
                     installed, asked, observed, events, plugged, dark>>
    BY DEF Observe, TypeOK, TickType, agents, displays
<1>2. OneAgent' /\ PanelObeys'
    BY <1>1 DEF Health, OneAgent, PanelObeys, Wired, SessionOf, Commands, IsX11
<1>3. LastWord' /\ Registered'
    BY <1>1 DEF Health, LastWord, Registered, IsX11, CanBlank, Mode
<1>4. RecordFollows'
    BY <1>1 DEF Health, RecordFollows
<1>5. ASSUME a \in running, events[a] = <<>> PROVE Blanked(a) = blanked
    <2>1. asked[a] = blanked /\ asked[a] \in BOOLEAN /\ a \notin lost
        BY <1>1, <1>5 DEF Health, RecordFollows, PanelObeys, TypeOK
    <2>2. observed[a] \in {"none", Mode(asked[a])}
        BY <1>5 DEF Health, LastWord
    <2>3. CASE observed[a] = "none"
        BY <2>1, <2>3 DEF Blanked
    <2>4. CASE asked[a] /\ observed[a] = "dark"
        <3>1. Blanked(a) = TRUE
            BY <2>1, <2>4 DEF Blanked
        <3> QED
            BY <2>1, <2>4, <3>1
    <2>5. CASE ~asked[a] /\ observed[a] = "lit"
        <3>1. Blanked(a) = FALSE
            BY <2>1, <2>5 DEF Blanked
        <3> QED
            BY <2>1, <2>5, <3>1
    <2> QED
        BY <2>2, <2>3, <2>4, <2>5 DEF Mode
<1>6. ~moved /\ divergence.age >= 1 => tick'.wrong = {}
    BY <1>1, <1>5 DEF Health, NewsOnly
<1>7. NewsOnly'
    BY <1>1, <1>6 DEF Health, NewsOnly
<1> QED
    BY <1>2, <1>3, <1>4, <1>7 DEF Health

\* A disagreement that is observed is a new one, unless the deadline has moved since the
\* last: it is not old enough to be warned of.
LEMMA HealthObserved ==
    ASSUME TypeOK, Health, Observed
    PROVE  Health'
<1>1. /\ tick.stage = "observe" /\ tick'.stage = "idle" /\ tick'.wrong = {}
      /\ UNCHANGED <<site, due, registry, blanked, poked, started, running, lost, armed,
                     installed, asked, observed, events, plugged, dark>>
    BY DEF Observed, Idle, agents, displays
<1>2. OneAgent' /\ PanelObeys'
    BY <1>1 DEF Health, OneAgent, PanelObeys, Wired, SessionOf, Commands, IsX11
<1>3. LastWord' /\ Registered'
    BY <1>1 DEF Health, LastWord, Registered, IsX11, CanBlank, Mode
<1>4. RecordFollows'
    BY <1>1 DEF Health, RecordFollows
<1>5. CASE tick.wrong = {}
    <2>1. ~divergence'.warned /\ divergence' = Agreed /\ divergence'.age = -1 /\ ~moved'
        BY <1>5 DEF Observed, Agreed
    <2> QED
        BY <1>1, <1>2, <1>3, <1>4, <2>1 DEF Health, NewsOnly
<1>6. CASE tick.wrong # {}
    <2>1. running # {} /\ (due = blanked \/ poked)
        BY <1>1, <1>6 DEF Health, NewsOnly, RecordFollows
    <2>2. /\ divergence' = [Diverging EXCEPT !.warned = @ \/ Settled(Diverging)]
          /\ moved' = moved
        BY <1>6 DEF Observed, TypeOK
    <2>3. CASE moved
        <3>1. divergence # Agreed /\ divergence \in DivergenceType
            BY <2>3 DEF Health, NewsOnly, TypeOK
        <3>2. Diverging = divergence
            BY <3>1 DEF Diverging
        <3>3. divergence'.warned = (divergence.warned \/ Settled(divergence))
            BY <2>2, <3>1, <3>2 DEF DivergenceType
        <3>4. divergence'.age = divergence.age
            BY <2>2, <3>1, <3>2 DEF DivergenceType
        <3>5. divergence' # Agreed
            <4>1. Agreed.age = -1 /\ ~Agreed.warned
                BY DEF Agreed
            <4>2. CASE divergence.warned
                BY <3>3, <4>1, <4>2
            <4>3. CASE ~divergence.warned
                BY <3>1, <3>4, <4>1, <4>3, Ages
            <4> QED
                BY <4>2, <4>3
        <3> QED
            BY <1>1, <1>2, <1>3, <1>4, <2>1, <2>2, <2>3, <3>5 DEF Health, NewsOnly
    <2>4. CASE ~moved
        <3>1. ~divergence.warned /\ ~(divergence.age >= 1)
            BY <1>6, <2>4 DEF Health, NewsOnly
        <3>2. /\ divergence.age \in -1 .. SCREEN_DIVERGENCE_GRACE
              /\ divergence = Agreed <=> divergence.age = -1
              /\ SCREEN_DIVERGENCE_GRACE \in Nat \ {0}
            BY <3>1, Ages
        <3>3. Diverging.age = 0 /\ ~Diverging.warned /\ Diverging \in DivergenceType
            <4>1. CASE divergence = Agreed
                BY <3>2, <4>1 DEF Diverging, DivergenceType
            <4>2. CASE divergence # Agreed
                <5>1. Diverging = divergence /\ divergence \in DivergenceType
                    BY <4>2 DEF Diverging, TypeOK
                <5>2. divergence.age = 0
                    BY <3>1, <3>2, <4>2
                <5> QED
                    BY <3>1, <5>1, <5>2
            <4> QED
                BY <4>1, <4>2
        <3>4. ~Settled(Diverging)
            BY <3>2, <3>3 DEF Settled
        <3>5. divergence'.age = 0 /\ ~divergence'.warned
            BY <2>2, <3>3, <3>4 DEF DivergenceType
        <3>6. NewsOnly'
            BY <1>1, <2>1, <2>2, <2>4, <3>5 DEF NewsOnly
        <3> QED
            BY <1>2, <1>3, <1>4, <3>6 DEF Health
    <2> QED
        BY <2>3, <2>4
<1> QED
    BY <1>5, <1>6

LEMMA HealthHeartbeat ==
    ASSUME TypeOK, Health, NEW a \in Agents, Heartbeat(a)
    PROVE  Health'
<1>1. /\ a \in running /\ poked'
      /\ registry' = [registry EXCEPT ![a] = IF CanBlank(a) THEN "able" ELSE "unable"]
      /\ UNCHANGED <<site, due, moved, blanked, divergence, tick, started, running, lost, armed,
                     installed, asked, observed, events, plugged, dark>>
    BY DEF Heartbeat, agents, displays
<1>2. OneAgent' /\ PanelObeys'
    BY <1>1 DEF Health, OneAgent, PanelObeys, Wired, SessionOf, Commands, IsX11
<1>3. LastWord'
    BY <1>1 DEF Health, LastWord, IsX11, Mode
<1>4. Registered'
    BY <1>1 DEF Health, Registered, IsX11, CanBlank, TypeOK
<1>5. RecordFollows'
    BY <1>1 DEF Health, RecordFollows, IsX11, CanBlank
<1>6. NewsOnly'
    BY <1>1 DEF Health, NewsOnly
<1> QED
    BY <1>2, <1>3, <1>4, <1>5, <1>6 DEF Health

\* What is read last is what was said last.
LEMMA HealthReadEvent ==
    ASSUME TypeOK, Health, NEW a \in Agents, ReadEvent(a)
    PROVE  Health'
<1>1. /\ events[a] # <<>>
      /\ observed' = [observed EXCEPT ![a] = Head(events[a])]
      /\ events' = [events EXCEPT ![a] = Tail(events[a])]
      /\ UNCHANGED <<site, due, moved, registry, blanked, divergence, tick, poked, started, running,
                     lost, armed, installed, asked, plugged, dark>>
    BY DEF ReadEvent, daemon, displays
<1>2. a \in running
    BY <1>1 DEF Health, Registered
<1>3. events[a] \in Seq(Modes)
    BY DEF TypeOK, Modes
<1>4. OneAgent' /\ PanelObeys'
    BY <1>1 DEF Health, OneAgent, PanelObeys, Wired, SessionOf, Commands, IsX11
<1>5. Registered'
    BY <1>1, <1>2 DEF Health, Registered, IsX11, CanBlank, TypeOK
<1>6. LastWord'
    <2>1. ~IsX11(a) /\ events[a][Len(events[a])] = Mode(asked[a])
        BY <1>1, <1>2 DEF Health, LastWord
    <2>2. /\ Tail(events[a]) \in Seq(Modes) /\ Len(Tail(events[a])) = Len(events[a]) - 1
          /\ \A i \in 1 .. Len(Tail(events[a])) : Tail(events[a])[i] = events[a][i + 1]
          /\ Len(events[a]) \in Nat \ {0}
        BY <1>1, <1>3, HeadTailProperties, EmptySeq
    <2>3. Tail(events[a]) = <<>> => Head(events[a]) = Mode(asked[a])
        <3> HAVE Tail(events[a]) = <<>>
        <3>1. Len(events[a]) = 1
            <4>1. Len(Tail(events[a])) = 0
                BY <2>2, EmptySeq
            <4> QED
                BY <2>2, <4>1
        <3>2. Head(events[a]) = events[a][1]
            BY <1>3
        <3> QED
            BY <2>1, <3>1, <3>2
    <2>4. Tail(events[a]) # <<>> =>
              Tail(events[a])[Len(Tail(events[a]))] = Mode(asked[a])
        <3> HAVE Tail(events[a]) # <<>>
        <3>1. Len(Tail(events[a])) \in Nat \ {0}
            BY <2>2, EmptySeq
        <3> QED
            BY <2>1, <2>2, <3>1
    <2>5. observed'[a] = Head(events[a]) /\ events'[a] = Tail(events[a])
        BY <1>1 DEF TypeOK
    <2>6. ASSUME NEW b \in running, b # a
          PROVE  observed'[b] = observed[b] /\ events'[b] = events[b]
        BY <1>1, <2>6 DEF TypeOK
    <2>7. running \subseteq Agents
        BY DEF TypeOK
    <2>8. ASSUME NEW b \in running
          PROVE  /\ events'[b] = <<>> => observed'[b] \in {"none", Mode(asked[b])}
                 /\ events'[b] # <<>> => events'[b][Len(events'[b])] = Mode(asked[b])
                 /\ IsX11(b) => events'[b] = <<>> /\ observed'[b] = "none"
        <3>1. CASE b = a
            BY <2>1, <2>3, <2>4, <2>5, <3>1
        <3>2. CASE b # a
            BY <2>6, <3>2 DEF Health, LastWord
        <3> QED
            BY <3>1, <3>2
    <2> QED
        BY <1>1, <2>8 DEF LastWord, IsX11, Mode
<1>7. RecordFollows'
    BY <1>1 DEF Health, RecordFollows, IsX11, CanBlank
<1>8. NewsOnly'
    BY <1>1, <1>2 DEF Health, NewsOnly
<1> QED
    BY <1>4, <1>5, <1>6, <1>7, <1>8 DEF Health

\* The first agent of the session finds every output lit.
LEMMA HealthStart ==
    ASSUME TypeOK, Health, Healthy, NEW a \in Agents, Start(a)
    PROVE  Health'
<1> DEFINE s == SessionOf(a)
           lits == Repeat("lit", Cardinality(Wired))
           first == Repeat("dark", Cardinality(dark[s]))
                      \o Repeat("lit", Cardinality(plugged[s] \ dark[s]))
<1>1. /\ a \in Sites[site].runs /\ a \notin running /\ s \in Sessions
      /\ running' = running \cup {a}
      /\ events' = [events EXCEPT ![a] = IF IsX11(a) THEN <<>> ELSE first]
      /\ installed'[a] \subseteq plugged[s] /\ (a \in armed' => a \in armed \/ installed'[a] # {})
      /\ armed' \subseteq armed \cup {a}
      /\ UNCHANGED <<site, due, moved, registry, blanked, divergence, tick, poked, lost, asked,
                     observed, plugged, dark>>
    BY SiteTypes DEF Start, TypeOK, daemon, displays
<1>2. running = {}
    <2> SUFFICES ASSUME NEW b \in running PROVE FALSE
        OBVIOUS
    <2>1. b \in Sites[site].runs
        BY DEF Health, OneAgent
    <2> QED
        BY <1>1, <2>1 DEF Start, Healthy, OneSession
<1>3. running' = {a} /\ dark[s] = {} /\ plugged[s] = Wired /\ ~asked[a] /\ observed[a] = "none"
    BY <1>1, <1>2 DEF Health, PanelObeys, Registered
<1>4. ~blanked /\ divergence = Agreed /\ tick.stage # "apply" /\ ~moved
    BY <1>2 DEF Health, RecordFollows, NewsOnly
<1>5. first = lits /\ lits \in Seq(Modes) /\ Len(lits) = Cardinality(Wired)
      /\ Cardinality(Wired) \in Nat
      /\ \A i \in 1 .. Cardinality(Wired) : lits[i] = "lit"
    <2>1. Wired \subseteq Outputs
        BY SiteTypes DEF Wired
    <2>2. Cardinality(Wired) \in Nat /\ Cardinality(dark[s]) = 0
        BY <1>3, <2>1, Sizes
    <2>3. Repeat("dark", 0) \in Seq(Modes) /\ Len(Repeat("dark", 0)) = 0
        BY Repeats DEF Modes
    <2>4. Repeat("dark", 0) = <<>>
        BY <2>3, EmptySeq
    <2>5. /\ lits \in Seq(Modes) /\ Len(lits) = Cardinality(Wired)
          /\ \A i \in 1 .. Cardinality(Wired) : lits[i] = "lit"
        BY <2>2, Repeats DEF Modes
    <2>6. plugged[s] \ dark[s] = Wired
        BY <1>3
    <2>7. first = <<>> \o lits
        BY <2>2, <2>4, <2>6
    <2>8. <<>> \o lits = lits
        <3> HIDE DEF lits
        <3> QED
            BY <2>5, ConcatEmptySeq
    <2> QED
        BY <2>2, <2>5, <2>7, <2>8
<1> HIDE DEF first, lits, s
<1>6. events'[a] = IF IsX11(a) THEN <<>> ELSE lits
    BY <1>1, <1>5 DEF TypeOK
<1>7. OneAgent'
    BY <1>1, <1>3 DEF OneAgent
<1>8. PanelObeys'
    <2>1. installed'[a] \subseteq Wired /\ (a \in armed' => installed'[a] # {})
        BY <1>1, <1>3 DEF Health, Registered
    <2>2. lost' = {} /\ plugged' = [x \in Sessions |-> Wired]
        BY <1>1 DEF Health, PanelObeys
    <2>3. /\ Wired' = Wired /\ SessionOf(a)' = s /\ asked'[a] = asked[a]
          /\ dark' = dark
        BY <1>1 DEF Wired, SessionOf, s
    <2> QED
        BY <1>3, <2>1, <2>2, <2>3 DEF PanelObeys
<1>9. Registered'
    <2>1. \A b \in Agents \ running' : events'[b] = events[b]
        BY <1>1 DEF TypeOK
    <2>2. registry[a] = "none"
        BY <1>1 DEF Health, Registered
    <2> QED
        BY <1>1, <1>3, <2>1, <2>2 DEF Health, Registered
<1>10. LastWord'
    <2>1. lits # <<>> => lits[Len(lits)] = "lit"
        BY <1>5, EmptySeq
    <2> QED
        BY <1>1, <1>3, <1>6, <2>1 DEF LastWord, IsX11, Mode
<1>11. RecordFollows'
    <2>1. asked[a] = blanked
        BY <1>3, <1>4 DEF TypeOK
    <2> QED
        BY <1>1, <1>3, <1>4, <2>1 DEF Health, RecordFollows
<1>12. NewsOnly'
    <2>1. divergence'.age = -1 /\ divergence' = Agreed
        BY <1>1, <1>4 DEF Agreed
    <2> QED
        BY <1>1, <1>2, <1>4, <2>1 DEF Health, NewsOnly
<1> QED
    BY <1>7, <1>8, <1>9, <1>10, <1>11, <1>12 DEF Health

LEMMA HealthDeadlineMoves ==
    ASSUME TypeOK, Health, DeadlineMoves
    PROVE  Health'
<1>1. /\ poked' /\ moved' = (moved \/ divergence.age >= 1)
      /\ UNCHANGED <<site, registry, blanked, divergence, tick, started, running, lost, armed,
                     installed, asked, observed, events, plugged, dark>>
    BY DEF DeadlineMoves, agents, displays
<1>2. OneAgent' /\ PanelObeys'
    BY <1>1 DEF Health, OneAgent, PanelObeys, Wired, SessionOf, Commands, IsX11
<1>3. LastWord' /\ Registered'
    BY <1>1 DEF Health, LastWord, Registered, IsX11, CanBlank, Mode
<1>4. RecordFollows'
    BY <1>1 DEF Health, RecordFollows, IsX11, CanBlank
<1>5. NewsOnly'
    <2>1. divergence = Agreed => ~(divergence.age >= 1)
        BY DEF Agreed
    <2> QED
        BY <1>1, <2>1 DEF Health, NewsOnly
<1> QED
    BY <1>2, <1>3, <1>4, <1>5 DEF Health

\* Before time passes every agent has been asked what is due and has heard its display.
LEMMA HealthTimePasses ==
    ASSUME TypeOK, Health, TimePasses
    PROVE  Health'
<1>1. /\ ~poked /\ tick.stage = "idle" /\ \A a \in running : events[a] = <<>>
      /\ divergence' = [divergence EXCEPT !.age =
                           IF @ \in 0 .. SCREEN_DIVERGENCE_GRACE - 1 THEN @ + 1 ELSE @]
      /\ UNCHANGED <<site, due, moved, registry, blanked, tick, poked, started, running, lost, armed,
                     installed, asked, observed, events, plugged, dark>>
    BY DEF TimePasses, Busy, agents, displays
<1>2. OneAgent' /\ PanelObeys'
    BY <1>1 DEF Health, OneAgent, PanelObeys, Wired, SessionOf, Commands, IsX11
<1>3. LastWord' /\ Registered'
    BY <1>1 DEF Health, LastWord, Registered, IsX11, CanBlank, Mode
<1>4. RecordFollows'
    BY <1>1 DEF Health, RecordFollows, IsX11, CanBlank
<1>5. NewsOnly'
    <2>1. tick.wrong = {} /\ (divergence # Agreed => running # {} /\ due = blanked)
        BY <1>1 DEF Health, NewsOnly
    <2>2. divergence \in DivergenceType
        BY DEF TypeOK
    <2>3. divergence'.warned = divergence.warned
        BY <1>1, <2>2 DEF DivergenceType
    <2>4. CASE divergence = Agreed
        <3>1. divergence' = divergence
            BY <1>1, <2>2, <2>4 DEF DivergenceType, Agreed
        <3> QED
            BY <1>1, <2>1, <2>4, <3>1 DEF Health, NewsOnly
    <2>5. CASE divergence # Agreed
        <3>1. divergence' # Agreed
            <4>1. CASE divergence.warned
                <5>1. ~Agreed.warned
                    BY DEF Agreed
                <5> QED
                    BY <2>3, <4>1, <5>1
            <4>2. CASE ~divergence.warned
                <5>1. divergence.age \in 0 .. SCREEN_DIVERGENCE_GRACE
                    BY <2>5, <4>2, Ages
                <5>2. divergence'.age >= 0
                    BY <1>1, <2>2, <5>1, ScreenConstants DEF DivergenceType
                <5> QED
                    BY <5>2 DEF Agreed
            <4> QED
                BY <4>1, <4>2
        <3> QED
            BY <1>1, <2>1, <2>3, <2>5, <3>1 DEF Health, NewsOnly
    <2> QED
        BY <2>4, <2>5
<1> QED
    BY <1>2, <1>3, <1>4, <1>5 DEF Health

\* Health lasts.
LEMMA StepHealth ==
    ASSUME TypeOK, HealthInv, [Next]_vars
    PROVE  HealthInv'
<1>1. SUFFICES ASSUME Healthy' PROVE Health'
    BY DEF HealthInv, Health
<1>2. UNCHANGED site
    BY DEF Next, vars, TickStep, AgentStep, BeginTick, AskDone, AskFailed, Applied, Observe,
           Observed, Heartbeat, ReadEvent, Start, Stop, DeadlineMoves, TimePasses, Restart,
           CompositorDies, Plug, Unplug, Meddle
<1>3. Healthy /\ Health
    BY <1>1, <1>2 DEF Healthy, OneSession, SessionOf, HealthInv, Health
<1>4. \A d : ~May(d)
    BY <1>3 DEF Healthy, May
<1>5. CASE UNCHANGED vars
    BY <1>3, <1>5
       DEF vars, daemon, agents, displays, Health, OneAgent, PanelObeys, Wired, Registered,
           LastWord, RecordFollows, NewsOnly, SessionOf, IsX11, CanBlank, Commands, Mode
<1>6. ASSUME NEW a \in Agents, AskDone(a) \/ AskFailed(a) \/ Observe(a) PROVE Health'
    BY <1>3, <1>6, HealthAskDone, HealthAskFailed, HealthObserve
<1>7. ASSUME NEW a \in Agents, AgentStep(a) \/ Start(a) \/ Stop(a) PROVE Health'
    BY <1>3, <1>4, <1>7, HealthHeartbeat, HealthReadEvent, HealthStart DEF AgentStep, Stop
<1>8. CASE BeginTick \/ Applied \/ Observed
    BY <1>3, <1>8, HealthBeginTick, HealthApplied, HealthObserved
<1>9. CASE DeadlineMoves \/ TimePasses \/ Restart
    BY <1>3, <1>4, <1>9, HealthDeadlineMoves, HealthTimePasses DEF Restart
<1>10. ASSUME NEW s \in Seats,
              CompositorDies(s) \/ \E o \in Outputs : Plug(s, o) \/ Unplug(s, o) \/ Meddle(s, o)
       PROVE  FALSE
    BY <1>4, <1>10 DEF CompositorDies, Plug, Unplug, Meddle
<1> QED
    BY <1>5, <1>6, <1>7, <1>8, <1>9, <1>10 DEF Next, TickStep

\* On a machine with one session where nothing goes wrong no alarm is raised, whatever
\* its outputs, how many of them the blanker reaches, whichever display server it runs and
\* however short the grace, unless the deadline moves again while a disagreement that has
\* lasted is not yet seen to be over (observe_screen, SCREEN_DIVERGENCE_GRACE).
THEOREM HealthIsQuiet == Spec => []NoFalseAlarm
<1>1. Init => HealthInv
    BY InitHealth
<1>2. TypeOK /\ HealthInv /\ [Next]_vars => HealthInv'
    BY StepHealth
<1>3. HealthInv => NoFalseAlarm
    BY DEF HealthInv, Health, NewsOnly, NoFalseAlarm, Healthy
<1> QED
    BY <1>1, <1>2, <1>3, TypeCorrect, PTL DEF Spec
=============================================================================
