------------------------------ MODULE Readers ------------------------------
(***************************************************************************)
(* What the daemon and the session agents take in before anything of it is  *)
(* a fact: the staging tree (idlepolicyd facts/steam.rs), nvidia-smi        *)
(* (facts/gpu.rs), the counters page (facts/counters.rs), the media players *)
(* (idlectl-agent mpris.rs) and DRM fdinfo (idlectl-agent gpu.rs).  Each    *)
(* takes what the other side answers, garbled or incomplete as it may be.   *)
(***************************************************************************)
EXTENDS Policy, FiniteSets, Functions

CONSTANT IN_FLIGHT_HINTS    \* the metrics whose name holds one of the hints

YesOrNo(p) == IF p THEN "true" ELSE "false"

Nothing == [p \in {} |-> 0]

-----------------------------------------------------------------------------
(* The staging tree: [exists, files], a file having an age and being readable *)
(* or not.  An age is negative for a time in the future.                      *)

Dated(staging) == {f.age : f \in {g \in staging.files : g.readable}}

Undated(staging) == {g \in staging.files : ~g.readable}

-----------------------------------------------------------------------------
(* nvidia-smi: how it ran, and the rows <<pid, memory>> it printed. *)

Garbled == <<>>

Memory(rows, pid) == Latest({r[2] : r \in {q \in rows : q[1] = pid}})

\* The driver without a card is knowledge.  One row that does not parse spoils
\* them all: it may be the one that matters.
ReadNvidiaSmi(tool) ==
    CASE tool.ran \in {"missing", "no devices"} -> [answers |-> "absent", holders |-> Nothing]
      [] tool.ran = "printed" /\ Garbled \notin tool.rows ->
            [answers |-> "holders",
             holders |-> [p \in {r[1] : r \in tool.rows} |-> Memory(tool.rows, p)]]
      [] OTHER -> [answers |-> "failed", holders |-> Nothing]

-----------------------------------------------------------------------------
(* The counters page: the kinds it declares and the value of each metric.     *)

\* A value that is not a finite number of at least 0; such a row is skipped.
NoValue == -1

\* Declared counters are summed and hinted gauges are work in flight; a page
\* that declares neither is summed whole.
Parsed(page) ==
    LET declared(kind) == {n \in DOMAIN page.kinds : page.kinds[n] = kind}
        typed == declared("counter") \cup declared("gauge") # {}
        rows == {n \in DOMAIN page.rows : page.rows[n] # NoValue}
        sum(names) == SumFunctionOnSet(page.rows, rows \cap names)
    IN  [answers   |-> IF rows = {} THEN "unreadable" ELSE "counters",
         count     |-> sum(IF typed THEN declared("counter") ELSE rows),
         in_flight |-> sum(declared("gauge") \cap IN_FLIGHT_HINTS)]

NoSum(answers) == [answers |-> answers, count |-> 0, in_flight |-> 0]

\* Only a refused connection says something of the service.
Fetched(service) ==
    CASE service.answers = "refused" -> NoSum("refused")
      [] service.answers = "page"    -> Parsed(service)
      [] OTHER -> NoSum("unreadable")

-----------------------------------------------------------------------------
(* The session's own readers. *)

\* mpris::read.  A player that will not say ends the reading, even where
\* another one plays.
MediaState(bus) ==
    CASE bus.answers = "absent" -> "unavailable"
      [] bus.answers = "mute"   -> "indeterminate"
      [] bus.answers = "lists" /\ "error" \in bus.players -> "indeterminate"
      [] OTHER -> YesOrNo("Playing" \in bus.players)

\* An integrated GPU has no memory of its own; the shared aperture stands for it.
HeldBy(fd) == IF fd.vram > 0 THEN fd.vram ELSE fd.gtt

NoClient == 0

\* gpu::walk: every descriptor of a client repeats the client's memory, and one
\* without a client id is nobody's.
GpuHolders(fds) ==
    LET of(pid) == {f \in fds : f.pid = pid /\ f.client # NoClient}
        clients(pid) == [c \in {f.client : f \in of(pid)} |->
                            Latest({HeldBy(f) : f \in {g \in of(pid) : g.client = c}})]
        holding == {p \in {f.pid : f \in fds} : SumFunction(clients(p)) > 0}
    IN  [p \in holding |-> SumFunction(clients(p))]

\* What the daemon knows of a session: what its agent last reported, or for an
\* agent that has only registered nothing yet.
ReportOf(session) ==
    [age     |-> session.age,
     idle    |-> IF session.spoken THEN session.idle ELSE Unreadable,
     media   |-> IF session.spoken THEN MediaState(session.bus) ELSE "unsaid",
     holders |-> IF session.spoken THEN GpuHolders(session.fds) ELSE Nothing]
=============================================================================
