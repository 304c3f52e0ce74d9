------------------------------- MODULE Inputs -------------------------------
(***************************************************************************)
(* What the engine decides from: the policy its files give and the facts    *)
(* its detectors read, put together by the policy engine.  Files are        *)
(* edited, garbled and reloaded; what the machine answers changes; sources  *)
(* are lost and regained; the local service works, stops and starts; time   *)
(* passes.                                                                  *)
(*                                                                          *)
(* A site is one machine and what may happen on it: site.files[i] is what   *)
(* may stand in layer i, site.answers[s] what source s may answer,          *)
(* site.losses which sources may be lost, site.may the rest.                *)
(***************************************************************************)
EXTENDS Config, Detectors

CONSTANTS
    Sites,       \* [name -> site]
    Steps,       \* the seconds that may pass at once
    MaxTime,     \* BOUND: when time stops
    MaxServed    \* BOUND: the requests the service counts

\* What may stand on the disk of a site.
Shelf(s) == {s.disk[i] : i \in DOMAIN s.disk} \cup UNION {s.files[i] : i \in DOMAIN s.files}

Source == {"proc", "homes", "staging", "service", "nvidia", "agents", "logind"}

\* What a source may answer, as far as the types of the facts depend on it.
IsAnswer(source, answer) ==
    /\ source = "agents" =>
            \A s \in answer : /\ s.age \in Nat /\ s.idle \in Nat \cup {Unreadable}
                              /\ DOMAIN s.bus = {"answers", "players"}
                              /\ s.bus.answers \in {"absent", "mute", "lists"}
    /\ source = "service" =>
            /\ DOMAIN answer = {"answers", "kinds", "rows"}
            /\ IsFiniteSet(DOMAIN answer.rows)
            /\ \A n \in DOMAIN answer.rows : answer.rows[n] \in Nat \cup {NoValue}
    /\ source = "nvidia" => DOMAIN answer = {"ran", "rows"}
    /\ source = "logind" =>
            /\ DOMAIN answer = {"answers", "sessions", "blocked"}
            /\ answer.answers \in {"absent", "mute", "yes"}
            /\ \A s \in answer.sessions : DOMAIN s = {"id", "class", "remote", "graphical"}

IsWorld(w) == DOMAIN w = Source /\ \A source \in Source : IsAnswer(source, w[source])

IsSite(s) ==
    /\ \A file \in Shelf(s) : IsFile(file)
    /\ s.disk \in Seq(Shelf(s)) \ {<<>>}
    /\ DOMAIN s.files \subseteq DOMAIN s.disk
    /\ IsWorld(s.world)
    /\ \A source \in DOMAIN s.answers :
            \A answer \in s.answers[source] : IsAnswer(source, answer)
    /\ s.now \in Instant

ASSUME InputsConstants ==
    /\ \A name \in DOMAIN Sites : IsSite(Sites[name])
    /\ MaxTime \in Instant
    /\ Steps \subseteq Nat

VARIABLES
    site,
    disk,        \* the layers as they are on the disk
    layers,      \* the layers of the last reload
    loaded,      \* the policy and the settings in force
    world,       \* what the machine would answer if nothing were lost
    lost,        \* the sources that cannot be read now
    sampler,     \* what Detectors remembers of the service
    now,
    serving,     \* a request is in progress at the service
    used         \* when the service last did something

vars == <<site, disk, layers, loaded, world, lost, sampler, now, serving, used>>

-----------------------------------------------------------------------------
(* The machine as it is seen. *)

\* The newest file cannot be read.
Smudged(files) ==
    LET newest(f) == \A g \in files : f.age <= g.age
    IN  {[f EXCEPT !.readable = @ /\ ~newest(f)] : f \in files}

\* What an agent makes of its session: nothing is reported yet, the seat or a
\* player of the session cannot be read.
Blinded(s, gone) ==
    [age    |-> s.age,
     spoken |-> s.spoken /\ "report" \notin gone,
     idle   |-> IF "idle" \in gone THEN Unreadable ELSE s.idle,
     bus    |-> IF "mpris" \in gone /\ s.bus.answers = "lists"
                THEN [s.bus EXCEPT !.players = @ \cup {"error"}] ELSE s.bus,
     fds    |-> s.fds]

\* What each loss does to the answers.  Three of them lose only a part: the newest
\* staging file, the properties of the sessions, the home directories.
Seen(w, gone) ==
    [proc    |-> IF "proc" \in gone THEN {} ELSE w.proc,
     nvidia  |-> IF "nvidia" \in gone /\ w.nvidia.ran = "printed"
                 THEN [w.nvidia EXCEPT !.rows = @ \cup {Garbled}] ELSE w.nvidia,
     service |-> IF "endpoint" \in gone /\ w.service.answers = "page"
                 THEN [w.service EXCEPT !.answers = "mute"] ELSE w.service,
     agents  |-> IF "agents" \in gone THEN {} ELSE {Blinded(s, gone) : s \in w.agents},
     logind  |-> IF "logind" \in gone /\ w.logind.answers # "absent"
                 THEN [w.logind EXCEPT !.answers = "mute"]
                 ELSE [w.logind EXCEPT !.sessions =
                        {[s EXCEPT !.remote = @ /\ "session" \notin gone,
                                   !.graphical = @ /\ "session" \notin gone] : s \in @}],
     staging |-> IF "staging" \in gone
                 THEN [w.staging EXCEPT !.files = Smudged(@)] ELSE w.staging,
     homes   |-> w.homes /\ "homes" \notin gone]

\* Every condition has held since boot: the edges that let most be due.
LongTrue == [id \in BlockId |-> 0]

SamplerAfter(load, w) ==
    IF "local_service_busy" \in load.policy.facts
    THEN Sampled(sampler, Fetched(w.service), now) ELSE sampler

\* What the policy engine makes of these facts on this machine.
DecidedFrom(facts, load, w) ==
    ResolveRequest(
        [policy |-> load.policy, facts |-> facts,
         clocks |-> [now |-> now, resume |-> NotYet,
                     human_input |-> Human(w, now, load.policy.min_idle).origin],
         edges |-> Observe(LongTrue, load.policy, facts, now), request |-> NoRequest])

\* What an evaluation under this load and this sight would decide.
DecidedOn(load, w) ==
    DecidedFrom(Sample(w, load, SamplerAfter(load, w), now, FALSE, FALSE, {}), load, w)

Decided(load, gone) == DecidedOn(load, Seen(world, gone))

-----------------------------------------------------------------------------
Init ==
    \E name \in DOMAIN Sites :
        /\ site = Sites[name]
        /\ disk = site.disk
        /\ layers = disk
        /\ loaded = Load(layers)
        /\ world = site.world
        /\ lost = {}
        /\ sampler = Sampler0
        /\ now = site.now
        /\ serving = FALSE
        /\ used = now

Edit(i, file) ==
    /\ disk' = [disk EXCEPT ![i] = file]
    /\ UNCHANGED <<site, layers, loaded, world, lost, sampler, now, serving, used>>

\* Engine::reload: what cannot be read leaves everything as it was.
Reload ==
    /\ CanRead(disk)
    /\ layers' = disk
    /\ loaded' = Load(layers')
    /\ UNCHANGED <<site, disk, world, lost, sampler, now, serving, used>>

\* The state an evaluation leaves behind in the detectors.
Sampling ==
    /\ sampler' = SamplerAfter(loaded, Seen(world, lost))
    /\ UNCHANGED <<site, disk, layers, loaded, world, lost, now, serving, used>>

Answers(source, answer) ==
    /\ world' = [world EXCEPT ![source] = answer]
    /\ UNCHANGED <<site, disk, layers, loaded, lost, sampler, now, serving, used>>

Lose(source) ==
    /\ lost' = lost \cup {source}
    /\ UNCHANGED <<site, disk, layers, loaded, world, sampler, now, serving, used>>

Regain(source) ==
    /\ lost' = lost \ {source}
    /\ UNCHANGED <<site, disk, layers, loaded, world, sampler, now, serving, used>>

\* The service of a site that serves has a counter "served", and where it has a
\* gauge for work in flight the gauge is "processing".
InFlight(rows, n) ==
    [name \in DOMAIN rows |-> IF name = "processing" THEN n ELSE rows[name]]

RequestBegins ==
    /\ "serve" \in site.may /\ ~serving
    /\ world.service.answers = "page"
    /\ serving' = TRUE
    /\ used' = now
    /\ world' = [world EXCEPT !.service.rows = InFlight(@, 1)]
    /\ UNCHANGED <<site, disk, layers, loaded, lost, sampler, now>>

\* Only where site.may has "alias" does the sum of a restarted service come back
\* to the one last sampled.
ComesBack(page) == Fetched(page).count = sampler.previous /\ "alias" \notin site.may

\* A counter counts a request once it is done.
RequestEnds ==
    LET rows == [InFlight(world.service.rows, 0) EXCEPT !["served"] = @ + 1]
        page == [world.service EXCEPT !.rows = rows]
    IN  /\ serving /\ rows["served"] <= MaxServed
        /\ ~ComesBack(page)
        /\ serving' = FALSE
        /\ used' = now
        /\ world' = [world EXCEPT !.service = page]
        /\ UNCHANGED <<site, disk, layers, loaded, lost, sampler, now>>

ServiceStops ==
    /\ "serve" \in site.may
    /\ world.service.answers = "page"
    /\ serving' = FALSE
    /\ world' = [world EXCEPT !.service.answers = "refused"]
    /\ UNCHANGED <<site, disk, layers, loaded, lost, sampler, now, used>>

\* A service that starts has counted nothing.
ServiceStarts ==
    LET page == [site.world.service EXCEPT !.answers = "page"]
    IN  /\ "serve" \in site.may
        /\ world.service.answers = "refused"
        /\ ~ComesBack(page) \/ used <= sampler.last_movement
        /\ world' = [world EXCEPT !.service = page]
        /\ UNCHANGED <<site, disk, layers, loaded, lost, sampler, now, serving, used>>

TimePasses(secs) ==
    /\ "time" \in site.may /\ now + secs <= MaxTime
    /\ now' = now + secs
    /\ used' = IF serving THEN now' ELSE used
    /\ UNCHANGED <<site, disk, layers, loaded, world, lost, sampler, serving>>

Next ==
    \/ \E i \in DOMAIN site.files : \E file \in site.files[i] : Edit(i, file)
    \/ Reload
    \/ Sampling
    \/ \E source \in DOMAIN site.answers :
            \E answer \in site.answers[source] : Answers(source, answer)
    \/ \E source \in site.losses : Lose(source) \/ Regain(source)
    \/ RequestBegins
    \/ RequestEnds
    \/ ServiceStops
    \/ ServiceStarts
    \/ \E secs \in Steps : TimePasses(secs)

Spec == Init /\ [][Next]_vars

-----------------------------------------------------------------------------
(* What is checked. *)

\* The loaded policy and the sampler are values the engine can work with.
TypeOK ==
    /\ loaded.policy \in PolicyType
    /\ {loaded.window, loaded.idle_window, loaded.policy.min_idle} \subseteq 0 .. MaxSecs
    /\ sampler \in [previous : Nat \cup {NoSample}, last_movement : NoSample .. now]
    /\ Decided(loaded, lost) \in Decision

\* format_timeout writes what parse_timeout reads: a deadline that explain or
\* doctor prints can be pasted into a file and means the same there.
ReadsBack ==
    \A b \in loaded.policy.blocks, a \in Actions :
        b.timeouts[a] # Silent => ParseTimeout(FormatTimeout(b.timeouts[a])) = b.timeouts[a]

\* Every key of every block in force is the one of the last file that sets it and
\* is sound as a whole: the merge, stated without merging.
LastSoundFileWins ==
    \A sound \in {{i \in DOMAIN layers : ~Dropped(layers[i])}} :
    \A b \in loaded.policy.blocks \ {Fallback} :
        LET setting(k) == {i \in sound : k \in DOMAIN SectionOf(layers[i].tables, IdOf(b))}
            last(k) == layers[Latest(setting(k))].tables[IdOf(b)][k]
        IN  /\ \A a \in Actions :
                b.timeouts[a] = IF setting(a) = {} THEN Silent ELSE ParseValue(last(a))
            /\ b.enabled = (setting("enabled") # {} => last("enabled"))
            /\ setting("clock") # {} => b.clock = last("clock")

\* A file that breaks takes its floors with it, and still no sleep becomes due by
\* it: the fault holds all three.  A ceiling is above that floor, so the promise
\* is for policies without one.
RejectionNeverCauses ==
    \A broken \in {Load([layers EXCEPT ![i] = NoText("garbled")]) : i \in DOMAIN layers} :
        (\A b \in broken.policy.blocks : b.kind = "when" => ~b.enabled)
            => SleepDue(Decided(broken, lost)) \subseteq SleepDue(Decided(loaded, lost))

\* Losing an agent is seen: human_active is asked for, and so is logind by one fact
\* at least; and who has an agent has a session with a compositor.
Overlooked(load, w) ==
    \/ "human_active" \notin load.policy.facts
    \/ {"remote_session", "inhibitor_block"} \cap load.policy.facts = {}
    \/ Live(w) # {} /\ w.logind.answers # "mute" /\ ~Graphical(w)

\* No sleep action is due because a source went away: what is due half blind is
\* due to who sees everything.  A source that is lost in part reads as if what is
\* left were all of it, a ceiling is above every doubt, and a loss nobody asks
\* about is overlooked; the promise covers none of the three.
LosingSightNeverCauses ==
    /\ lost \cap {"staging", "session", "homes"} = {}
    /\ \A b \in loaded.policy.blocks : b.kind = "when" => ~b.enabled
    /\ ~Overlooked(loaded, world)
    => SleepDue(Decided(loaded, lost)) \subseteq SleepDue(Decided(loaded, {}))

\* Half blind and in no doubt is seeing enough: every deadline, ceilings and the
\* screen included, is the one of who sees everything.
SureIsRight ==
    LET seen == Seen(world, lost)
        facts == Sample(seen, loaded, SamplerAfter(loaded, seen), now, FALSE, FALSE, {})
    IN  /\ lost # {} /\ lost \cap {"staging", "session", "homes"} = {}
        /\ ~Overlooked(loaded, world)
        /\ \A f \in loaded.policy.facts : facts[f] # "indeterminate"
        => DecidedFrom(facts, loaded, seen) = Decided(loaded, {})

\* A service that works shows it: it has a gauge for work in flight that the
\* detector knows for one, and its sum does not come back.
ShowsItsWork ==
    LET page == site.world.service
    IN  "serve" \in site.may =>
            /\ "alias" \notin site.may /\ "service" \notin DOMAIN site.answers
            /\ "processing" \in DOMAIN page.rows \cap DOMAIN page.kinds \cap IN_FLIGHT_HINTS
            /\ page.kinds["processing"] = "gauge"

\* "Not in use" is said of a service that answers only when nothing was done there
\* for a whole idle window, through every restart of it and every time it was not
\* reached.
IdleMeansUnused ==
    LET w == Seen(world, lost)
        seen == Fetched(w.service)
    IN  /\ ShowsItsWork
        /\ "local_service_busy" \in loaded.policy.facts
        /\ seen.answers = "counters"
        /\ ServiceBusy(SamplerAfter(loaded, w), seen, now, loaded.idle_window) = "false"
        => ~serving /\ now - used >= loaded.idle_window

\* A vendor file that cannot be used leaves no panel lit for good: unless a sound
\* file asks for just that, the screen has a deadline.
NeverLeftLit ==
    (/\ Dropped(layers[1])
     /\ \A b \in loaded.policy.blocks : b.timeouts["screen_off"] # Never)
        => Decided(loaded, lost).deadline["screen_off"] # Never
=============================================================================
