----------------------------- MODULE Detectors -----------------------------
(***************************************************************************)
(* The detectors (crates/idlepolicyd/src/facts/, proc.rs, agents.rs): how   *)
(* the machine is read into one state per fact.  Each is a function of a    *)
(* record w, what the machine answers when it is asked:                     *)
(*   w.proc      the processes /proc lists; empty when it cannot be read    *)
(*   w.homes     whether the home directories can be listed                 *)
(*   w.staging   Steam's staging tree                                       *)
(*   w.service   the counters endpoint and the page it serves               *)
(*   w.nvidia    nvidia-smi                                                 *)
(*   w.agents    the sessions with an agent, as it last read them           *)
(*   w.logind    logind: its sessions and its block inhibitors              *)
(* What a process is does not change while it lives, so that part is given  *)
(* by constants.                                                            *)
(***************************************************************************)
EXTENDS Readers

CONSTANTS
    Pid,
    Parent,           \* [Pid -> Pid]; a root is its own parent
    Signature,        \* the pids whose command line carries a launch signature
    Desktop,          \* the pids whose name is in DESKTOP_PROCESSES
    SystemSlice,      \* the pids that live in a system service
    SteamInstalled,   \* whether some home holds a Steam root
    THRESHOLD_BYTES,
    HEARTBEAT_MAX_AGE

ASSUME DetectorConstants ==
    /\ Parent \in [Pid -> Pid]
    /\ Signature \cup Desktop \cup SystemSlice \subseteq Pid
    /\ SteamInstalled \in BOOLEAN
    /\ THRESHOLD_BYTES \in Nat \ {0}
    /\ HEARTBEAT_MAX_AGE \in Nat
    /\ FactId = {"human_active", "after_resume", "remote_session", "lease_held",
                 "inhibitor_block", "media_playing", "steam_game_running",
                 "steam_downloading", "gpu_busy_game", "gpu_busy_other",
                 "local_service_busy"}

-----------------------------------------------------------------------------
(* Steam. *)

\* A home that cannot be listed has no Steam in it.
HasSteamRoot(w) == SteamInstalled /\ w.homes

\* The processes that are a game: the launch wrapper, gamescope, the shader
\* precompiler.
GamePids(proc) == proc \cap Signature

\* /proc is asked first: losing it is doubt even where Steam is not installed.
GameRunning(w) ==
    IF w.proc = {} THEN "indeterminate"
    ELSE IF ~HasSteamRoot(w) THEN "unavailable"
    ELSE YesOrNo(GamePids(w.proc) # {})

\* An entry that could not be read matters only when there is no other.
Downloading(w, window) ==
    IF ~HasSteamRoot(w) \/ ~w.staging.exists THEN "unavailable"
    ELSE IF Dated(w.staging) = {} THEN
        IF Undated(w.staging) # {} THEN "indeterminate" ELSE "false"
    ELSE YesOrNo(Latest({0, Earliest(Dated(w.staging))}) < window)

-----------------------------------------------------------------------------
(* The local service: a sampler remembers the last sum and its movement. *)

NoSample == -1
Sampler0 == [previous |-> NoSample, last_movement |-> NoSample]

\* Mutant: a sum that fell is taken for one that did not move.
MovedUpwards(s, count) == s.previous = NoSample \/ count > s.previous

Moved(s, count) == s.previous = NoSample \/ count # s.previous

\* Refused: nothing is served, and the past is forgotten.  Unreadable: nothing
\* is learnt.  The first sum ever seen counts as movement.
Sampled(s, service, now) ==
    CASE service.answers = "refused" -> Sampler0
      [] service.answers = "counters" ->
            [previous |-> service.count,
             last_movement |-> IF Moved(s, service.count) \/ service.in_flight > 0
                               THEN now ELSE s.last_movement]
      [] OTHER -> s

\* The reading goes with the sampler as it is after the sample.
ServiceBusy(s, service, now, idle_window) ==
    CASE service.answers = "refused"  -> "false"
      [] service.answers = "counters" ->
            YesOrNo(service.in_flight > 0 \/ now - s.last_movement < idle_window)
      [] OTHER -> "indeterminate"

-----------------------------------------------------------------------------
(* The session agents' reports. *)

Live(w) == {ReportOf(s) : s \in {a \in w.agents : a.age <= HEARTBEAT_MAX_AGE}}

\* Any seat with a compositor, of whatever class; logind not answering reads as
\* a machine without one.
Graphical(w) ==
    w.logind.answers = "yes" /\ \E s \in w.logind.sessions : s.graphical

\* Mutant: a seat that cannot be read is taken for one just used.
HumanPresent(w, now, min_idle) ==
    LET idle == Earliest({(IF r.idle = Unreadable THEN 0 ELSE r.idle) + r.age : r \in Live(w)})
    IN  [state |-> YesOrNo(idle < min_idle), origin |-> Latest({0, now - idle})]

\* One blind agent is doubt about every seat; else the latest input counts.
HumanSeen(w, now, min_idle) ==
    LET idle == Earliest({r.idle + r.age : r \in Live(w)})
    IN  IF \E r \in Live(w) : r.idle = Unreadable
        THEN [state |-> "indeterminate", origin |-> Unreadable]
        ELSE [state |-> YesOrNo(idle < min_idle), origin |-> Latest({0, now - idle})]

\* Mutant: a machine whose agents are gone is taken for a headless one.
HumanHeadless(w, now, min_idle) ==
    IF Live(w) = {} THEN [state |-> "false", origin |-> NotYet]
    ELSE HumanSeen(w, now, min_idle)

\* human_active and the origin of its clock: without an agent the machine has a
\* dead one, or no seat at all.
Human(w, now, min_idle) ==
    CASE Live(w) = {} /\ Graphical(w)  -> [state |-> "indeterminate", origin |-> Unreadable]
      [] Live(w) = {} /\ ~Graphical(w) -> [state |-> "false", origin |-> NotYet]
      [] OTHER -> HumanSeen(w, now, min_idle)

\* Playing anywhere wins, then doubt, then knowledge.
Media(w) ==
    LET said == {r.media : r \in Live(w)}
    IN  CASE "true" \in said -> "true"
          [] "true" \notin said /\ "indeterminate" \in said -> "indeterminate"
          [] said \subseteq {"unavailable", "unsaid"} -> "unavailable"
          [] OTHER -> "false"

\* One amount per process: the largest view of it.
Merge(views) ==
    [p \in UNION {DOMAIN v : v \in views} |->
        Latest({v[p] : v \in {u \in views : p \in DOMAIN u}})]

Reported(w) == Merge({r.holders : r \in Live(w)})

-----------------------------------------------------------------------------
(* The GPU: two sources, merged, and one verdict per attribution. *)

Descends(proc, pid, roots) ==
    LET chain[n \in Nat] ==
            IF n = 0 THEN {pid}
            ELSE chain[n - 1] \cup {Parent[p] : p \in chain[n - 1] \cap proc}
    IN  chain[Cardinality(Pid)] \cap roots # {}

\* gpu::read of the process table, of what nvidia-smi answered and of what the
\* agents report.  Without any source the facts are unavailable, with a source that
\* fails they are in doubt.  A process of a tracked service is never a game's.
GpuVerdict(proc, asked, reported, game, service) ==
    LET both(state) == [game |-> state, other |-> state]
        held == Merge({reported, asked.holders})
        busy == {p \in DOMAIN held : held[p] >= THRESHOLD_BYTES /\ p \notin Desktop}
        tracked == IF service \in {"true", "indeterminate"} THEN SystemSlice ELSE {}
        played == {p \in busy \ tracked : game = "true" /\ Descends(proc, p, GamePids(proc))}
    IN  IF proc = {} \/ asked.answers = "failed" THEN both("indeterminate")
        ELSE IF reported = Nothing /\ asked.answers = "absent" THEN both("unavailable")
        ELSE [game |-> YesOrNo(played # {}), other |-> YesOrNo(busy \ played # {})]

GpuSplit(w, game, service) ==
    GpuVerdict(w.proc, ReadNvidiaSmi(w.nvidia), Reported(w), game, service)

-----------------------------------------------------------------------------
(* logind. *)

\* A session that is gone is skipped, one whose class cannot be read is doubt; a
\* remote flag or a service that cannot be read counts as not remote.
Remote(w, excluded) ==
    LET asked == {s \in w.logind.sessions : s.id \notin excluded}
    IN  CASE w.logind.answers = "absent" -> "unavailable"
          [] w.logind.answers = "mute" -> "indeterminate"
          [] OTHER ->
                IF \E s \in asked : s.class = "unreadable" THEN "indeterminate"
                ELSE YesOrNo(\E s \in asked : s.class = "user" /\ s.remote)

\* Only block locks on sleep or shutdown count.
Inhibited(w) ==
    CASE w.logind.answers = "absent" -> "unavailable"
      [] w.logind.answers = "mute" -> "indeterminate"
      [] OTHER -> YesOrNo(w.logind.blocked \cap {"sleep", "shutdown"} # {})

-----------------------------------------------------------------------------
(* One sample of every fact. *)

\* Detectors::sample, with the sampler as it is after this sample.  Game and
\* service are read before the GPU, which needs them; a disabled one reads as
\* absent there already, and every disabled fact reads unavailable at the end.
\* The machine holds still while it is read: the code lists the processes twice, for the
\* game and for the GPU, and takes the sampler's time before it fetches the page.
SampleGiven(game, service, w, load, now, resumed, leased, excluded) ==
    LET gpu == GpuSplit(w, game, service)
        read == [human_active       |-> Human(w, now, load.policy.min_idle).state,
                 after_resume       |-> YesOrNo(resumed),
                 remote_session     |-> Remote(w, excluded),
                 lease_held         |-> YesOrNo(leased),
                 inhibitor_block    |-> Inhibited(w),
                 media_playing      |-> Media(w),
                 steam_game_running |-> game,
                 steam_downloading  |-> Downloading(w, load.window),
                 gpu_busy_game      |-> gpu.game,
                 gpu_busy_other     |-> gpu.other,
                 local_service_busy |-> service]
    IN  [f \in FactId |-> IF f \in load.policy.facts THEN read[f] ELSE "unavailable"]

Sample(w, load, sampler, now, resumed, leased, excluded) ==
    LET ifOn(f, state) == IF f \in load.policy.facts THEN state ELSE "unavailable"
    IN  SampleGiven(
            ifOn("steam_game_running", GameRunning(w)),
            ifOn("local_service_busy",
                 ServiceBusy(sampler, Fetched(w.service), now, load.idle_window)),
            w, load, now, resumed, leased, excluded)
=============================================================================
