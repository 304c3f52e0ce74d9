# A TLA+ verification of idlectl

`idlepolicyd` decides when an idle machine blanks its screen, suspends, hibernates or
powers off. It is a small daemon whose mistakes are expensive in both directions: a
machine that suspends in the middle of a download, or one that is still awake in the
morning because nobody looked again. This directory holds its model in TLA+, the TLC
configurations that check it on small machines, and TLAPS proofs for machines of any
size.

Commands, from this directory:

    tlc -config EngineSleep.cfg MCEngine.tla      # one run; see "Runs" for the rest
    tlapm EngineProofs.tla                        # the proofs about the daemon
    tlapm PolicyProofs.tla                        # the proofs about the policy engine
    tlapm SessionAgentProofs.tla                  # the proofs about the session agent
    tlapm LeasesProofs.tla                        # the proofs about leases
    tlapm ScreenProofs.tla                        # the proofs about the screen
    tlapm InputsProofs.tla                        # the proofs about files and readings

Paths below are relative to `src/`; `idlepolicyd` stands for `crates/idlepolicyd/src`.

## The system

| Component | State it keeps | Operations | Talks to |
|---|---|---|---|
| Policy engine, `crates/idlectl-policy/src/lib.rs` | none; the edges of each block are handed in and out | `resolve_request`, `BlockEdges::observe`, `action_to_perform`, `next_deadline` | called by the decision engine, twice per sleep |
| Decision engine, `idlepolicyd/engine.rs` | policy, last readings, edges, clocks, decision, held request, transition in flight, screen divergence, forced list | `evaluate`, `tick`, `reload`, `next_wakeup` | detectors, logind, agents; everything under one `Mutex` |
| Main loop, `idlepolicyd/main.rs` | the armed timer, the queue of pokes | tick, emit signals, arm, wait for timer, poke or logind | the engine, logind's `PrepareForSleep` |
| Manager object, `idlepolicyd/manager.rs` | none of its own | `Rest`, `RestPending`, `RestForced`, `CancelPending`, `AcquireLease`, `ReleaseLease`, `Reload`, `RegisterAgent`, `UnregisterAgent`, `ReportSession`, and readers | the engine's lock; pokes the loop |
| Held request, `idlepolicyd/pending.rs` | one slot: action, expiry, human origin when asked | `dropped_at` | `resolve_pending` in the engine |
| Resume tracker, `idlepolicyd/clock.rs` | suspended time last seen, last resume | `adopt`, `sample`, `note_announced_resume` | BOOTTIME and MONOTONIC |
| Leases, `idlepolicyd/leases.rs` | table by name: expiry, read end of a pipe; a watcher thread each | `acquire`, `release`, `reap`, `watch_until_released` | manager, engine; pokes the loop |
| Agent registry, `idlepolicyd/agents.rs` | table by bus name: idle time, media, GPU holders, last report; one `blanked` flag | `register`, `report`, `remove`, `reap`, `human`, `media` | manager, engine, screen |
| Detectors, `idlepolicyd/facts/*.rs` | the counters sampler's previous reading | `sample`, `changed` | logind, `/proc`, Steam's files, a loopback HTTP endpoint |
| Screen, `engine.rs` and `actions.rs` | `blanked`, the divergence | `apply_screen`, `observe_screen`, `set_blank`, `observe_blank` | the agents, over D-Bus |
| logind and polkit, `logind.rs`, `polkit.rs`, `actions.rs` | logind's own: is a transition running | `Suspend`, `Hibernate`, `PowerOff`, `PrepareForSleep` | engine, loop |
| Session agent loop, `crates/idlectl-agent/src/main.rs` | what it announced, the timer it waits on | register, read, persist, announce, report, wait; `Blank`, `Unblank` | manager; the backends; MPRIS and `/proc` |
| Wayland backend, `wayland.rs`, `lastinput.rs` | `Tracked`, `lost`, the blanker, the last-input file of the session | `idled`, `resumed`, the connection lost, `arm_blanking`, `persist`, `load` | a thread of its own; the compositor; the next agent, through the file |
| Gamepads, `gamepad.rs` | when a pad was last touched, who is watched, the wake channel | `rescan`, `watch`, `forget`, `merge` | a thread per pad; the loop |
| X11 backend, `x11.rs` | none | the server's idle counter, DPMS for the whole server | the session agent |
| Readers of a session, `mpris.rs`, `gpu.rs` of the agent | none | one reading per heartbeat | the session bus, `/proc/<pid>/fdinfo` |
| Configuration loader, `crates/idlectl-config` | none | `parse_timeout`, `validate`, `overlay`, `load`, `format_timeout` | start, `Reload` |
| `idlectl`, `crates/idlectl/src/main.rs` | the descriptor of a lease while `idlectl lease` holds one | one D-Bus call per invocation | manager |
| `report.rs`, `proc.rs` | none | format, parse | - |

What makes each one correct, and what is hard about it:

- **Policy engine.** Doubt and faults hold every sleep and cause none; the screen is not
  held by doubt; `--now` waives two blocks and no other; a block of one kind pulls a
  deadline one way. Hard because it is compositional: the interesting cases are pairs of
  inputs that differ by one edit, which no example test enumerates.
- **Decision engine.** A tick is long. It evaluates, asks whether a transition is in
  flight, evaluates again, and calls logind; the world moves between any two of these.
  What is committed to must be held by nothing; one transition at a time; a caller gets the
  action it named or none.
- **Main loop.** It may only wait when something will wake it: a timer for every deadline,
  lease and held request, a sweep while a polled fact holds, a poke for the rest. Hard
  because the thing forgotten is invisible: the machine is merely awake.
- **Resume.** The settle window runs from the real wake-up, announced or not, before or
  after a restart of the daemon.
- **Held requests.** Each has a TTL no policy deadline covers and can be dropped by an input
  while nobody looks.
- **Leases.** A lease ends by its time, by the closing of its last descriptor, by a release of
  its name or with the daemon, and by nothing else; whoever is refused holds nothing. Hard
  because the name outlives the lease: pipes, watchers and inherited descriptors of an earlier
  one linger while the next holder has the name.
- **Registry.** A silent agent is doubt; the freshest input of any seat wins.
- **Session agent.** The instant it reports is inferred from transitions it may not have
  been alive to see. A restart may not give the machine a fresh countdown, nor may a carried
  instant hide somebody who is there; a touch of a pad must reach the daemon in seconds.
  Hard because the agent, the compositor and the daemon die independently, and what survives
  is one small file.
- **Screen.** The panel of a seat follows the deadline though calls fail, agents come late and
  outputs change; a disagreement that stays is reported and one that does not last is not.
  Hard because success is recorded for the machine and failure happens to a session.
- **Detectors.** Losing sight of something never makes a sleep due. Hard because a source can
  be lost whole, in part, or while another one still speaks for the same fact.
- **Configuration.** Every key in force is the one of the last sound file that sets it; a file
  that is rejected never makes a sleep due by what it no longer says.

`PROJECT.json` lists the hazards at their lines, with the property that covers each or the
reason none does yet.

## Modules

| Module | What it is |
|---|---|
| `Policy` | the policy engine as constant operators of one record `in`, the argument list of `resolve_request` |
| `PolicyLaws` | extends `Policy` with a state (one input) and steps (one edit), and states the laws as action properties |
| `Engine` | extends `Policy`: decision engine, loop, manager methods, held request, resume tracker, one lease, one agent, and the machine around them |
| `SessionAgent` | one session's agent: its loop, the Wayland thread, the joystick watchers, the last-input file, with the seat, the compositor and the daemon's record of it around them |
| `Screen` | the screen half of a tick, the registry it asks, the agents that obey, the displays behind them |
| `Leases` | the lease table, its handlers, the watcher threads, the holders, and as much of the loop as a lease needs |
| `LeasePromise` | the abstract specification: who holds a name and what may end it; `Leases` refines it |
| `Config` | extends `Policy`: the files as tables, durations as text, validation, layering, the fallback; gives the policy |
| `Readers` | what is taken in before it is a fact: staging tree, `nvidia-smi`, counters page, media players, DRM fdinfo |
| `Detectors` | extends `Readers`: one operator per fact, and `Sample`, one reading of all of them |
| `Inputs` | extends `Config` and `Detectors`: files are edited and reloaded, sources answer and vanish, a service works; puts both ends into `resolve_request` |
| `MC...` | small blocks, policies, inputs, machines and schedules of disturbances for TLC |
| `PolicyLemmas` | lemmas about the operators of `Policy`: they stay in range, `ComposeFloor` and `ComposeCeiling` bound what they compose, what "due" means |
| `ConfigProofs` | what the loader computes for every text and every set of files: reading and writing of durations, the merge, the types of what is loaded |
| `PolicyProofs`, `EngineProofs`, `SessionAgentProofs`, `LeasesProofs`, `ScreenProofs`, `InputsProofs` | the theorems about a specification |

How they fit: `Policy` is extended by `Engine` and by `Config`/`Readers`, so one and the same
`ResolveRequest` decides in the laws, in the daemon and over real files and readings. `Engine`
takes the facts as a world that changes freely; `Inputs` is where that world comes from, with
time standing in for the loop. `Leases` and `Screen` are the two parts of the daemon that
`Engine` leaves open: its one lease and its screen half. `Engine` sees of the agent the instant
it reports; `SessionAgent` sees of the daemon whether it knows the agent and its capability.

### Policy and the code

An instant is a number up to `MaxInstant`; `Never` is one above it, so that the derived
order of `Deadline` is the order of the numbers and a composition is a maximum or a
minimum. `Timeout::Never` and a timeout that overflows (`Deadline::from_origin`) both give
`Never`. A block sets a timeout per action or is `Silent`. An origin is an instant,
`NotYet` or `Unreadable`. `Contributes` is the conditions under which the loop of
`resolve_action` pushes a deadline, `Contribution` is that deadline, and the rest follows
the function line by line: implicit floors for doubt and for faults, floors by maximum,
ceilings by minimum, the smaller of the two. The reasons a decision carries for
`explain` are left out. `Observe` keeps the edges: a true block keeps its edge or gets one, a
definitely false one loses it, doubt leaves it as it was.

### Engine and the code

Everything the daemon does is under one `Mutex`, which a tick holds throughout. So
handlers are atomic and a tick is three steps, kept in `op`:

| Step | Code |
|---|---|
| `Begin` (called by `LoopTick`, `Rest`, `RestPending`, `RestForced`) | `resolve_pending`, the first `evaluate`, `action_to_perform` |
| `Confirm` | the transition guard, the second `evaluate`, setting `transition_in_flight` |
| `Accept`, `Refuse` | logind's answer, and what `rest_pending` stores when the request was not carried out |

Between the steps the machine moves: `TimePasses`, `FactChanges`, `Touch`, `ExternalSleep`,
`Freeze`, `Wake`, `Abandon`, `DirectSleep`. Handlers wait (`op.stage = "idle"` is the
lock). One `evaluate` is one step: it reaps the agent and the lease, reads every fact, moves
the edges, builds the snapshot and resolves, all at one instant; the detectors'
own delays are the time that passes before the next step.

The loop is `loop` (tick, arm, wait), `timer` (on CLOCK_MONOTONIC, as
`async_io::Timer` counts), `wake` (pokes queued, at most `WAKE_CAPACITY`) and `event` (what
`next_event` last returned). `LoopTimer`, `LoopWake` and `LoopSignal` are polled in the
order of the code's `or(timer, or(woken, slept))`.

The machine is `now` (BOOTTIME), `asleepFor` (BOOTTIME minus MONOTONIC), `power`, and the
queue `signals` of `PrepareForSleep` announcements not yet read. logind refuses a
transition while it carries out another; it may abandon one it accepted, with or without
announcing so; a write to `/sys/power/state` sleeps without any announcement. `woke` and
`touched` are the truth the daemon tries to track. `accepted` and `standing` are history that only
properties read: when the transition logind still carries out was issued, and what the daemon can know
of it: it is `guarded`; `overtaken`, accepted while the announcement of an older resume was unread;
`forgotten`, the daemon was restarted meanwhile; `dropped`, logind gave it up and said nothing.

`Restart` is systemd restarting the daemon: everything in memory is lost, `adopt` runs,
queued announcements are lost with the connection. What logind does goes on: a transition it is carrying
out is remembered by `standing`, not by the daemon.

Abstractions, each in the direction that keeps behaviour: one unit of time is at least
`RESUME_EPSILON` (1 s) and stands for the 250 ms floor under a wait; there is one seat and one
lease; polkit says yes; `dry_run` is off; powering off is final. The screen half of a
tick reads the decision and touches nothing the sleep half reads, so it is left to its own
module.

### Leases and the code

`acquire_lease` is two steps: `Ask` is the call up to the wait for the engine's lock, with the
clock it has already read (`call[j].at`), and `Grant`, `GrantUnwatched` or `Refuse` is what it
does with the lock: `Table::acquire`, the watcher, the poke. `Held` looks at the table as it is,
so a lease whose time is up still occupies its name until somebody reaps it. `Watch` is
`watch_until_released`, a thread parked on `POLLIN`: it ends on the first byte as well as on the
hang-up. `Tapped` is what `Lease::released` reads out of the pipe each time the table is reaped.
`LoopTick`, `Reevaluate`, `LoopUnlock`, `LoopArm`, `LoopTimer` and `LoopWake` are the loop;
`CallerTick` is the tick of somebody's `Rest`. `Exit`, `Inherit`, `HeirCloses` and `Write` are the
holder of `idlectl lease` and its children. A job asks once; polkit says yes.

### Screen and the code

A tick asks (`AskDone`, `AskFailed`) and then observes (`Observe`) one agent after the other, and
the world moves in between; `Applied` and `Observed` are what `apply_screen` and
`observe_screen` conclude. `Recorded` is the engine's `set_blanked` after any success. An agent is
a process (`Start`, `Stop`, `Heartbeat`, which registers again when the capability has changed). Its blanker
(`armed`) is built once, for the outputs known at that moment, which are all of them or the first ones
(`installed`); one plugged in later is not reached, and one that is removed stays a dead object when the
same output comes back. Under X11 it reaches the whole server. What the agent says of the panel (`Blanked`) is the
last event it read (`events`, `ReadEvent`) or else what it was told. What may go wrong is
a set per site: `stop`, `fails`, `midcall`, `crash`, `hotplug`, `meddle`, `restart`. The deadline itself is the
environment's: `DeadlineMoves` may happen at any instant, also in the middle of a tick, on every site. `moved`
remembers that it did so during a disagreement that had lasted.

### Config, Readers, Detectors, Inputs and the code

A file is `NoText` (missing, unreadable or not TOML) or its tables, a table the keys it sets; what no
decision reads of it (labels, warnings) is left out. `IsFile` is what serde lets through, a place for
every table and a type for every key, and nothing `validate` would refuse. `ParseTimeout` and `FormatTimeout` work on
characters, because a property is about them. `Load` is `load`: drop the files with a fault,
overlay the others key by key, build the blocks, add the fallback. `Validate` has one entry per fault, so that a
`[facts]` key that is both misplaced and unparsable counts twice, as in the code. `Sample` is
`Detectors::sample` over one record of everything the machine answers: the machine holds still while it is
read, where the code lists the processes twice (for the game, `steam.rs:73`, and for the GPU, `gpu.rs:137`) and
reads the sampler's clock before it fetches the page (`counters.rs:68`). `Readers` turns raw answers
(a tree with unreadable entries, a table with a garbled row, a page without kinds, a player that
will not say, a descriptor without a client) into what the detectors use. `Decided` is
`Engine::evaluate` over both, with conditions that have held since boot so that as much as possible
is due. `Reload`, `Sampling`, `TimePasses` and the actions of the service and of the environment
change one part each. `IsSite` is what the machine of a site may be asked to answer, so far as the
theorems depend on it: ages and counters are naturals, a page is of finitely many rows, and the
answers of agents, tools and logind have the fields the readers look at.

### SessionAgent and the code

A lock taken, an event dispatched, or an await of the loop is one step. The loop is `pc`:

| Step | Code |
|---|---|
| `Start` | `WaylandBackend::connect`: the carried instant, the idle notification, a blanker if one can be built, then the capability the first registration will carry (`offered`) |
| `FirstRegister` | `RegisterAgent` answered; `announced_can_blank` read afterwards |
| `Look` | `gamepads.merge(backend.idle())`, with its rescan when one is due |
| `Persist` | `backend.persist()` |
| `Announce` | registering again when the capability changed |
| `ReportAccepted`, `ReportRefused`, `Reregister` | `ReportSession` and the recovery from its refusal |
| `TimerFires`, `WokenByPad` | the race of the heartbeat and the wake channel, the timer asked first |

The Wayland thread is `HandleIdled`, `HandleResumed`, `ConnectionLost` and `InstallBlanker`;
`wire` holds what the compositor sent and nobody dispatched. A joystick's watcher is an entry
of `watching`. The last-input file outlives the process; `AgentDies` loses all else. The
compositor (`CompositorIdles`, and the `resumed` of `TouchSeat`) is modelled from how
`wayland.rs` uses `ext-idle-notify-v1`: an event for a change and nothing for its absence.

`Lag` bounds how long a runnable thread or a delivered event waits, and `stepBy` is the
deadline that gives the loop; without it no statement about time could be made of threads.
`hist` remembers what the properties compare with: on what ground the instant
stands, whether it began with no knowledge at all (`late`: the first `idled` of such an
instance dates the input one timeout back, which may be later than the truth and is the safe
error), and until when a living connection watched.

Left out: the X11 backend's idle counter (stateless), decoding of joystick events and the failure of
a write to the runtime directory. The media and GPU readings are in `Readers`, the outputs a
blanker reaches in `Screen`.

## Runs

Every run with `CHECK_DEADLOCK FALSE` is one whose clock stops at `MaxTime` (or whose machine
powers off), after which nothing is enabled: the end of the bound, not of the program.

| Run | Question | Instance | Size |
|---|---|---|---|
| `PolicyLaws` | the laws of the policy engine over every pair of inputs one edit apart | 6 blocks a drop-in may add, 3 facts, 4 starting inputs, instants 0..3 past the start, overflow within reach | 55 thousand states |
| `EngineSleep` | settle window; one transition at a time; no guard outlives its transition | base and settle window; sleeps of all three kinds, refusals, abandoned transitions, restarts; a daemon that may take time over any step: its loop alone for 5 units of time, and with `Rest` besides for 3 | 334 thousand states |
| `EngineVetoes` | what is committed to is held by nothing; a request gets the action it named or none; the armed timer covers every deadline and TTL; types | seven machines: a seat with an agent and `Rest`; one with an agent and a polled download; one that must not sleep again once it has slept, whose daemon is restarted; three with suspend, hibernate and the screen on one schedule, whose callers hold two requests, force one beside a held one, and force one against a veto; leases and reloads that add a ceiling | 206 thousand states |
| `EngineLive` | the machine goes to sleep once every veto has gone for good | leases and a polled download, under fairness | 1.3 thousand states |
| `SessionAgent` | no fresh countdown, no quiet seat stretched, adoption only from a watched seat, a pad's touch read in time; types | one seat and one joystick, two agents, a compositor and a daemon that may die, 9 units of time | 1.35 million states |
| `Screen` | the panel follows; disagreement reported, agreement not; types | eight machines of one or two agents in one or two sessions: healthy, two monitors of which the blanker may know one, calls that fail, agents replaced, two sessions of which one fails, cables, crashes, a restarted daemon; under fairness | 153 thousand states |
| `Leases` | the table keeps the promise; every expiry has a timer and every closing a watcher; types | two names, two jobs, three kinds of trouble, under fairness | 375 thousand states |
| `Inputs` | the last sound file wins; neither a rejected file nor a lost source causes a sleep; no doubt, no difference; idle means unused; types | the shipped file with 6 drop-ins, every kind of typo, a desktop and a headless box that lose 11 sources, a watched service, and the pages it may serve | 15 thousand states |

### Bounds

`MaxTime` stops the clock and `LastEvent` the environment, so that the last event still has
its consequences within the run. Timeouts are 1 to 4 units: long enough to pass a
deadline, a TTL, a transition timeout of 2 and a settle window of 2 one after the other.
`MaxSignals` is 2: a sleep and its wake-up both unread, which is what a late announcement takes.
`WAKE_CAPACITY` is 1, so that a full channel is the common case and not a rare one.
`Prompt` makes a daemon that is awake finish its steps before time passes; runs about
what happens when steps take time set it to FALSE. `Disturbances` names what the
environment of the run may do, one group of actions each.

`Sites` are the machines of a run, chosen once in `Init`: what may happen on one does not multiply
with what may happen on another.

`Leases` has two jobs and two names, which is a holder, its successor and the name that passes
between them; a TTL of 1 and one of 2 make the order of expiries differ from that of grants;
`MaxWritten` is 1, the byte that ends a watcher. The proofs have no bound on any of these.

`Screen` has ages up to the grace and the heartbeat limit (2), after which older is the same; one
output per session at the start (two on `monitors`) and one more to plug in; `MaxEvents` is 2, a panel that went off
and came back unread.

`Inputs` has three layers, the number that tells "the last one" from "the last sound one", and real
values: the shipped timeouts, to the second. The sites with a clock run 6 seconds with an idle
window of 2, so that a whole window fits before, between and after two requests. The others stand
still four hours after boot with every condition true since boot, where the most is due that ever
can be.

`SessionAgent` has one `Until` per kind of disturbance: the seat and the pad stop early, deaths
go on longest, so that a last death still meets a full `NOTIFY_TIMEOUT` (2) and a full
`ADOPT_MAX_GAP` (4). Two starts are a predecessor and its successor, which is all the
file relates. `Interval` is 3 and `SoonWait` 1, so that missing a wake-up shows. `Lag` is 0:
every interleaving within an instant is explored and none is stretched over several; the
theorems hold for any `Lag`.

### Fairness

`FairSpec` asks for weak fairness of the daemon's own steps taken together (the executor runs
a ready future), of `TimePasses`, of `Freeze` (logind carries out what it accepted: a
run about abandoned transitions takes no liveness), and of `Wake` (somebody wakes the
machine). Nothing is asked of callers, holders, agents or facts.

`Leases` asks for weak fairness of the loop, of each watcher and of time: nothing of callers and
holders, so an expiry is noticed though its holder hangs. `Screen` asks for it of the tick, of the
heartbeats and of the event threads, for time that passes again and again, and for strong fairness
of `AskDone`: a call that is made for ever is answered once. A panel that refuses every call cannot
follow.

## What the runs refute

Four runs state what a comment or the specification says and TLC finds the code not doing it.

| Run | Says | Does |
|---|---|---|
| `HeldTooLong` | `pending.rs:43`, `expires_at` is "When this request stops being retried." | `resolve_pending` compares it with the clocks of the previous evaluation, so the very tick its expiry wakes carries it out |
| `ContinuousUse` | `wayland.rs:20`, while somebody continuously uses the machine, not having been idled "*is* the evidence that input is recent", and the idle time is "exact rather than sampled" | `idle()` counts from the last `resumed`: a seat in use without a pause is reported idle for as long as the use has lasted |
| `LeftDark` | agent `main.rs:146`, `Unblank` is called "on the agent's own shutdown, so that stopping the agent can never leave a session dark" | nothing calls it on the way out: no signal handler, no destructor |
| `LitForever` | `idlectl-config` `lib.rs:80`, with the first layer dropped the fallback is installed "so a broken package cannot leave a panel lit indefinitely" | any block that sets `screen_off`, even one for a film, keeps the fallback out, and after the film there is no deadline |

`OneTransitionAtATime` is [ACT-2] for a transition that is `guarded`, until its timeout. TLC refutes it for
the two others that logind may be carrying out: one that was `overtaken`, whose guard goes when the older resume is read,
and one that was `forgotten`, which a restarted daemon knows nothing of: it issues the sleep again and only
logind's refusal keeps the two apart. `GuardIsReleased` is the other half: between two ticks the guard stands
only while somebody is still going to release it. `TimerCoversEveryDeadline` holds where nothing sleeps unannounced and no request is held: with
the first the loop's timer, which counts CLOCK_MONOTONIC, is late by the time slept, and with
the second the expiry of a request held while the loop waits is armed by nobody (`rest_pending`
does not poke it). It speaks of the deadlines of a decision of the loop's own: one that a `Rest`
left behind has the deadlines of that caller, on none of which the loop acts, and there the code
arms less (see the first entry below).

`NothingHolds` takes the human as reported: an agent's report that says somebody was there less than `min_idle` ago
holds every sleep that a block forbids to an active human, under `rest --now` too. A key touched after
that report, and so any key touched between the two evaluations of a tick, is seen by neither of them. The block
of the resume is the one that `--now` waives. A `[when]` block or a `rest --force` may override all of these.

`NoFalseAlarm` has an exception of its own (`moved`): when the deadline moves while a disagreement that has lasted
is not yet seen to be over, the next observation finds another disagreement and counts the grace
from the first. `PanelFollows` has the premise that the blanker reaches every output (`Covers`). TLC refutes each
of the two properties without it. `DisagreementIsReported` asks that the warning stands for as long as the disagreement does, so
that an earlier warning does not answer for it.

`LosingSightNeverCauses` has three premises, and TLC refutes it without any one of them (`Unpromised` in
`MCInputs` has the machines, one for each way a loss can be missed; for a partial loss it is the site `seat`). It leaves out
the three sources that are lost in part: with the newest staging file unreadable the next newest decides (`steam.rs`: doubt only when none
could be read), a session's unreadable properties read as local and not graphical (`sessions.rs`,
`unwrap_or(false)`, `unwrap_or_default`), and an unreadable `/home` reads as a machine without Steam. It leaves out policies
with a ceiling, which is above every doubt. And it leaves out losses that are `Overlooked`: doubt
needs an enabled fact that asks, so `human_active` must be on, and one of `remote_session` and
`inhibitor_block`, for without both of them a logind that is lost together with the agents leaves a
headless machine in no doubt; and who has an agent has a session with a compositor, or the agent that goes
was never missed. `SureIsRight` needs no premise about ceilings: it says that a detector that was deprived of
something and claims to know is right, so that a loss neither brings a deadline forward nor puts one off, the
screen's included, without an enabled fact in doubt.

`IdleMeansUnused` is for services that show their work (`ShowsItsWork`): with a gauge for work in flight,
and with counters that do not happen to come back after a restart to the sum last seen. `Uncovered` in
`MCInputs` has the two others: without the premise TLC refutes the property for both (a request longer
than the idle window moves no counter until it ends).

`RejectionNeverCauses` is for policies without a ceiling: a ceiling is above the floor a fault
puts in, so dropping a drop-in that disabled a `[when]` block brings its deadline back.

### Noticed while modelling

Differences between what is said and what is done, without a run of their own:

- `engine.rs:642` [COMP-6] "the timer is armed at the earliest pending deadline": the loop takes the lock
  twice, for `tick` and for `next_wakeup`. When a `rest --now` that logind refuses falls between the
  two, the loop arms from the caller's decision; its base deadlines have all passed, so nothing is armed, and
  the loop's own deadlines stand in no timer until something else wakes it. TLC refutes
  `EventuallyRests` for such a schedule, and an earlier form of `TimerCoversEveryDeadline`, over
  every decision, was not inductive for this reason.
- With `human_active` off in `[facts]` losing every agent is noticed by nobody: the media fact turns
  from true to unavailable, `media_playing` no longer holds, and a sleep of a block on the boot clock may be due
  by it. The implicit floor for doubt is one of enabled facts that are `unknown`.
- `docs/spec.md:1013` [ACT-2] "At most one power transition may be in flight": a resume
  announcement read late clears the guard of a transition accepted since, and a daemon that is restarted
  while logind carries a transition out has lost the guard (`transition_in_flight` is memory only) and issues
  again.
- `engine.rs:412` says of the second evaluation that it insures against "the window in which somebody touched a
  key": `ReportSession` (`manager.rs:598`) waits for the lock that the tick holds from before the first evaluation until after the
  call, so both evaluations have the same last report. What the second one sees anew is the facts, the
  clocks, and the leases whose descriptor was closed.
- `facts/mod.rs:128`, facts outside `POLLED` "arrive as events": the daemon subscribes to
  `PrepareForSleep` only, so the end of a remote session or of an inhibitor wakes nothing.
- Agent `main.rs:288`, a capability that turned up after the registration "has to be announced": one
  that turns up during the first registration is taken for announced and never is.
- [FACT-15], an expired lease "MUST be treated as absent": `acquire` refuses a name whose lease has
  expired and was not reaped yet.
- `watch_until_released` returns on data as on a hang-up, and is not started again.
- `README.md:257` and `idlectl` `main.rs:273` promise a lease for the life of the command; its TTL
  ends it earlier.
- `counters.rs:148` says of the gauges that mean work in flight that a wrong guess costs "never a wrong verdict,
  because the counter path decides on its own": a request longer than the idle window moves no counter
  until it ends, and without such a gauge the service reads as not in use while it works (`Uncovered.gaugeless`).
- `counters.rs:186` says the value is taken and not the timestamp; `rsplit_once(' ')` takes the
  timestamp of a row that has one.
- `Reload` to another `counters_url` compares the new service's sum with the old one's.
- A failing session listing reads as no graphical session (`unwrap_or_default`), and a dead agent is
  then knowledge where it should be doubt. `remote_session` and `inhibitor_block`, in doubt for the same
  reason, still hold the sleeps; with both switched off in `[facts]` nothing does, and a ceiling on the
  human clock then counts from boot.
- `idlectl-policy` `lib.rs:1145` says a `counters_url` enables `local_service_busy`; the vendor's
  `enabled = false` stands.
- A fallback block may be a second `[while.always]` beside one that sets no `screen_off`.
- `wayland.rs:196`, installing the blanker late "also covers a compositor restart": the thread that
  would hear of the new globals ends with the connection. An output that appears after the blanker
  was installed is armed and never reaches it (`install` returns early); so is every output but the first when the
  compositor advertises the power manager before its outputs, each of which calls `arm_blanking` (`wayland.rs:558`).
- After its connection is lost an agent answers `Blanked` with what it was told.
- A daemon that is restarted, or killed between asking and recording, leaves a panel dark that
  nobody asks to be lit until the deadline moves.
- `engine.rs:98` asks for two independent observations before a disagreement is reported: with a
  deadline that moves during an old disagreement, or an agent replaced after one, one is enough.
- An agent never calls `UnregisterAgent`.

## Proofs

`tlapm` checks the proofs to the last leaf, for every value of the constants that satisfies
`PolicyConstants`, `LawsConstants`, `EngineConstants`, `AgentConstants`, `LeaseConstants`,
`ScreenConstants`, `ConfigConstants`, `DetectorConstants` and `InputsConstants`: any
set of facts, any policies, any clock size, any capacity and timeout, any joysticks and periods,
any jobs and names, any machines of finitely many outputs, any files and any answers, whichever
disturbances. Three of the assumptions are about numbers the code fixes: `NEWS_AFTER <= ActiveBelow` (5 s
and 60 s in the agent: a touch that wakes nobody finds a loop that hurries), `MaxSecs >= 1800` (the
default of `idle_window` is a duration), and the eleven names of `DetectorConstants`.

| Theorem | States | Argument |
|---|---|---|
| `PolicyProofs!TypeCorrect` | every input is answered with four deadlines | the compositions return a member of what they compose, or `Never` (`LeastNatural` gives the minimum by well-founded induction on Nat, `GreatestBounded` the maximum) |
| `PolicyProofs!BlindnessIsSafe` | losing sight never makes a sleep due | by cases on the step. A detector that breaks becomes doubt about an enabled fact, so the floor is `Never` (`DoubtHolds`) and only a ceiling can be due; `BreakingAddsNoCeiling`: every ceiling contributing after the step contributed the same deadline before |
| `PolicyProofs!DoubtLeavesTheScreen` | `DoubtSparesTheScreen` | the screen has no implicit floor, and neither kind of step selects or deselects a block (`SameParts`) |
| `PolicyProofs!BlocksPull` | `BlocksPullOneWay` | a block that is added leaves every other part as it was (`AddedParts`); a larger set of ceilings has an earlier minimum, a larger set of floors that was not empty a later maximum |
| `PolicyProofs!NowWaivesNoMore` | `NowWaivesTwoBlocks` | block by block: the block and its elapsed form take part together, and what they contribute is the same or has passed in both (`ElapsedBlock`) |
| `EngineProofs!TypeCorrect` | types | one lemma per group of steps |
| `EngineProofs!OneTransition` | `OneTransitionAtATime` | `GuardInv`: while logind carries out a guarded transition it has timed out, or `inFlight` is the instant it was accepted and no resume announcement is queued; and a tick about to call logind has passed the guard |
| `EngineProofs!GuardReleased` | `GuardIsReleased` | `ReleaseInv`: whoever will release the guard is still there: logind, the resume of a machine asleep, its announcement in the queue, or the timeout |
| `EngineProofs!NamedAction` | `NamedOrNothing` | `HeldInv`: the held request names an action, and while one is held a tick of the loop under way carries exactly that action |
| `EngineProofs!NothingIsWaived` | `NothingHolds` | what the second evaluation reads is the present, and doubt, a silent agent, and a true fact, a live lease or a reported human with `never`, each put `Never` among the floors (`Performed`, `NeverFloor`); no block that `--now` satisfies has such a condition. That a resume is known after a restart is `ResumeInv` |
| `EngineProofs!SettleWindowHolds` | `SettleWindow` | `ResumeInv`: whatever the tracker has not seen yet makes `asleepFor` exceed `seen`, and what it has seen it dated at or after the real wake-up |
| `EngineProofs!TimerCovers` | `TimerCoversEveryDeadline` | `TickInv` and `Covered`, below |
| `SessionAgentProofs!TypeCorrect` | types | one step per action; a touch of a pad is never in the future, without which its age is no duration |
| `SessionAgentProofs!NoFreshCountdown` | `CountdownNotRestarted` | `SeatInv` and `TruthInv`, below |
| `SessionAgentProofs!QuietIsTrue` | `QuietIsNotStretched` | `QuietInv`: what is on the wire of a quiet seat ends in an `idled` sent a timeout after the last input, and once the wire is empty that was dispatched |
| `SessionAgentProofs!FreshAdoption` | `AdoptionIsFresh` | `FreshInv`: the file was written no later than the last moment of a living connection |
| `SessionAgentProofs!TouchIsRead` | `PadReachesTheDaemon` | `PadInv`, below |
| `LeasesProofs!TypeCorrect` | types | one step per action |
| `LeasesProofs!RefusedHoldNothing` | `RefusedHoldsNothing` | only a granted call is in the table; `GrantUnwatched` takes its entry out in the same step |
| `LeasesProofs!TimersCover` | `TimerCoversEveryLease` | while the loop waits the timer covers each expiry, or the grant that brought it has left a poke |
| `LeasesProofs!ClosingsNoticed` | `ClosingIsNoticed` | a lease in the table has its watcher parked, or the watcher's poke is still queued, or a byte was written |
| `LeasesProofs!PromiseKept` | `KeepsThePromise`, the refinement of `LeasePromise` | below |
| `ScreenProofs!TypeCorrect` | types | one step per action |
| `ScreenProofs!HealthIsQuiet` | `NoFalseAlarm` | `HealthInv`, below |
| `ConfigProofs!RoundTrip` | `parse_timeout` undoes `format_timeout` | a digit at a time, then a unit at a time, below |
| `InputsProofs!TypeCorrect` | types: of what is loaded, of the sampler, of the decision | `IInv`, below, with `LoadTypes` and the types of every fact (`SampleTypes`) |
| `InputsProofs!WhatIsLoadedReadsBack` | `ReadsBack` | a timeout in force has been parsed, so it is a duration or `never` (`LoadTypes`), and `RoundTrip` |
| `InputsProofs!TheLastSoundFileWins` | `LastSoundFileWins` | `MergedKeys` and `MergedFrom`: a key is in the merge when a sound layer sets it, with the value of the last such layer |
| `InputsProofs!RejectionIsSafe` | `RejectionNeverCauses` | the broken file leaves a fault (`FaultCount`), the fault is a floor of `Never` for each sleep, and with no ceiling nothing is due |
| `InputsProofs!NoDoubtNoDifference` | `SureIsRight` | sameness, below |
| `InputsProofs!SightLossIsSafe` | `LosingSightNeverCauses` | doubt or sameness, below |
| `InputsProofs!NotInUseIsTrue` | `IdleMeansUnused` | `UseInv`, below |

The refinement maps the table to its holders, `served` to the granted calls, and `over` to those
whose time is up or whose pipe has no writer left. Every step maps to a step of the promise or to
a stutter. The case that needs an invariant is the reaping: `reap` looks at bytes and hang-ups
(`Lease::released`), the promise at `over`, and they agree because data alone is not taken for a
release and because a job without a granted call has no entry.

The invariant behind the three of `SessionAgent` after its types is `IndInv`. Its heart is `TruthInv`: not only the
instant held, but the one in the file and each one still on the wire dates the last input
no later than the truth. An `idled` sent to a new agent for an old silence would break it,
which is why `idled` takes the older of two instants: such an event can only be the first
message of an instance that has observed nothing.

`NoFalseAlarm` of `Screen` speaks of machines with one session where nothing goes wrong, and
`HealthInv` says what such a machine is like at every instant: one agent at a time, its panel as it was told, as far as its blanker reaches
(`PanelObeys`); the last word of its display, read or not, is what it was told (`LastWord`);
the record follows the agent except while a tick is asking, and the deadline except while a
wake-up is on its way (`RecordFollows`). So, unless the deadline has moved during a lasting disagreement, a disagreement can only be news (`NewsOnly`): an
event not yet read, and it is read before time passes, while a warning needs a grace of time.
Two sessions would not do: an agent that registers after the other has blanked is never asked,
and the daemon is right to warn of it (`DisagreementIsReported`).

`TickInv` says whose tick is under way: a tick of the loop's keeps the loop in its tick, a tick of
somebody else carries a request. `Covered` is what the timer owes: while the loop waits with
nothing queued, each deadline still ahead of its own decision, and the lease, is at or after the instant
the timer fires on BOOTTIME. Every step that would break it leaves a poke, or a decision
of a caller, or is one of the two excluded kinds of machine.

`PadInv` gives each await of the agent's loop an allowance (`Allowance`): after a touch that no look has
followed the loop is woken, about to look, or hurries (its last reading was below `ActiveBelow`), and in any
case its next step is due before the touch plus the allowance of where it stands. `SoonWait + 6 * Lag`
is the largest of them.

`IInv` of `Inputs` is small: the layers in force are files of the site, what is loaded is what
they load to, the machine answers what it may answer, the sampler lies in the past. The work is in what
the recursive functions compute, and the library's induction rules cannot be used here. Each
definition is therefore handled alike: an equation of which the function is the one solution, a solution
on the first n arguments extended to n + 1 (`ReadingExists`, `DecimalExists`, `MergingExists`,
`SummingExists`), then the claim over the same naturals, by the least counterexample (`UpTo`,
`Below`). So `RoundTrip` reads a decimal digit by digit and a duration unit by unit (`FormatReads`);
the merge goes layer by layer; the sum of a page's counters row by row.

`SightLossIsSafe` splits on whether an enabled fact is in doubt half blind. If one is, its floor holds
every sleep (`HeldByDoubt`). If none is, nothing that was asked for has been lost: one lemma per detector
says so (`SameLogind`, `SameSeats`, `SameReports`, `SameMedia`, `SameService`, `SameGpu`, ...), each by
the same turn, that a loss which changes what the detector is given makes it say that it cannot tell. So
the evaluation has the very argument list it would have had (`SameAsked`), which is `SureIsRight`, and
holds for any policy. The order of these lemmas is
that in which the detectors depend on each other: logind tells whether a missing agent matters, the
agents tell who holds the GPU, a service tells which of the holders are a game's.

`UseInv` ties the sampler, which remembers one sum and one instant, to what the service did: if the page has
the sum last sampled, and no request is in progress, then the last thing the service did is no later than
the last movement the sampler noted. A restart keeps it because the sum of the new life differs from the one
remembered; a request keeps it because while it runs the gauge is above zero (`WorkingShows`, which needs
that a sum of naturals is no less than any of them) and when it ends the sum has moved; a refused
connection keeps it because the sampler forgets. For a site where nothing is served the window is
measured from the start.

The five invariants of `Engine` (`HeldInv`, `GuardInv`, `ReleaseInv`, `ResumeInv`, and `TickInv` with `Covered`) are inductive only together with `TypeOK`, and all invariants were
checked by TLC as invariants of the runs before they were proved. Those of history are needed because
the properties speak of what (`accepted`, `standing`, `woke`) the daemon does not have: each ties what
it remembers to what happened.

Only model-checked: `EventuallyRests`, `ExpiryIsNoticed`, `PanelFollows` and
`DisagreementIsReported`, the liveness properties, out of the prover's reach as is ENABLED. Every
invariant and every action property of the passing runs is a theorem.

## Not modelled

`report.rs` and `doctor`: they read the engine and format text. The commands of `idlectl` other than
`lease`: one call each. Packaging: no program state, though `MCInputs` loads the shipped
`idlectl.toml`. The D-Bus signals to clients: nobody in the system reads them. The list of forced
actions: reporting only. `dry_run`. The parsing of text under `/proc`, of D-Bus messages and of
joystick events; a configured `steam_root`; the X11 idle counter.

## What could come next

1. `Screen` over `SessionAgent`: the agent of one module as the agent of the other.
2. `Leases` in the place of `Engine`'s single lease, by refinement.
