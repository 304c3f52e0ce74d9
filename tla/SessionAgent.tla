---------------------------- MODULE SessionAgent ----------------------------
(***************************************************************************)
(* idlectl-agent: what one session tells the daemon about its seat.         *)
(*                                                                          *)
(* Three kinds of thread share two Mutexes.  The Wayland thread turns the   *)
(* compositor's idled / resumed into the instant of the last input          *)
(* (wayland.rs); one watcher per joystick records touches the compositor    *)
(* never sees (gamepad.rs); the main loop reads both, writes the instant to *)
(* a file for its successor (lastinput.rs) and reports (main.rs).  The      *)
(* process dies and is started again, the compositor dies, the daemon       *)
(* forgets, and time passes between any two steps.                          *)
(*                                                                          *)
(* One unit of time is about five seconds; time is CLOCK_BOOTTIME.  The     *)
(* media and GPU lists of a report are left out: nothing is decided on      *)
(* them here.                                                               *)
(***************************************************************************)
EXTENDS Integers, Sequences, FiniteSets

CONSTANTS
    Pads,               \* the joysticks of this seat
    NOTIFY_TIMEOUT,     \* how long a seat is quiet before the compositor says so
    ADOPT_MAX_GAP,      \* how old a predecessor's last write may be
    RESCAN, NEWS_AFTER, \* the joystick module's two periods
    Interval,           \* the heartbeat the daemon asks for
    SoonWait, ActiveBelow, \* while idle for less than the latter, report after the former
    MAX_WATCHED,
    Lag,                \* BOUND: how long a runnable thread or a delivered event may wait
    Until,              \* BOUND: the last instant at which each disturbance happens
    MaxTime,            \* BOUND: the instant at which time stops
    MaxStarts           \* BOUND: how often the agent is started

Disturbances == {"seat", "pad", "unplug", "death", "compositor", "capability", "daemon"}

ASSUME AgentConstants ==
    /\ {NOTIFY_TIMEOUT, ADOPT_MAX_GAP, RESCAN, NEWS_AFTER, Interval, SoonWait,
        ActiveBelow, MAX_WATCHED} \subseteq Nat \ {0}
    /\ {Lag, MaxTime, MaxStarts} \subseteq Nat
    /\ Until \in [Disturbances -> Int]
    /\ NEWS_AFTER <= ActiveBelow  \* 5 s and 60 s: a touch that is no news finds a loop that hurries

VARIABLES
    (* the seat and its compositor *)
    now,
    lastInput,     \* when a human last used a device the compositor reads
    notification,  \* "none", "active" or "idled": the compositor's side of the object
    created,       \* when that object was created
    wire,          \* the events sent and not yet dispatched, with the instant of each
    (* the Wayland thread *)
    tracked, lost,
    can_blank,     \* whether a blanker has been installed
    (* the joysticks *)
    watching,      \* what each watcher is doing: "none", "opening", "open" or "gone"
    padInput,      \* when a pad was last touched, as the watchers recorded it
    woken,         \* the wake channel, bounded at one
    next_scan,
    (* the main loop *)
    pc, stepBy,    \* where it is, and the latest instant of its next step
    wakeAt,        \* when the timer it waits on fires
    idle,          \* what this round read
    offered, announced_can_blank,
    (* outside the process *)
    file,          \* the last-input file
    daemon,        \* what the daemon has on record of this agent's capability
    starts,
    hist           \* history variables: what the checked properties compare against

seat     == <<lastInput, notification, created, wire>>
wayland  == <<tracked, lost>>
pads     == <<watching, padInput, woken, next_scan>>
looping  == <<pc, stepBy, wakeAt, idle, offered, announced_can_blank>>
outside  == <<file, daemon, starts>>
vars     == <<now, seat, wayland, can_blank, pads, looping, outside, hist>>

-----------------------------------------------------------------------------
(* Values. *)

None      == -1
Unknown   == [is |-> "unknown", at |-> 0]
Carried(at)  == [is |-> "carried", at |-> at]
Observed(at) == [is |-> "observed", at |-> at]
NoFile    == [last |-> None, written |-> None]

IdleUnknown == None
Past(duration, instant) == IF instant >= duration THEN instant - duration ELSE 0

EarlierOf(a, b) == IF a <= b THEN a ELSE b
LaterOf(a, b) == IF a >= b THEN a ELSE b

May(disturbance) == now <= Until[disturbance]

Alive    == pc # "dead"
Watching == Alive /\ ~lost

TrackedType == [is : {"unknown", "carried", "observed"}, at : Nat]
FileType    == {NoFile} \cup [last : Nat, written : Nat]
HistType    == [ground : {"nothing", "carried", "input"}, late : BOOLEAN,
                fileLate : BOOLEAN, watchedUntil : Nat, startedAt : Nat,
                unread : Nat \cup {None}]
Message     == [event : {"idled", "resumed"}, at : Nat]

TypeOK ==
    /\ now \in Nat /\ lastInput \in Nat /\ created \in Nat
    /\ notification \in {"none", "active", "idled"}
    /\ wire \in Seq(Message)
    /\ tracked \in TrackedType /\ lost \in BOOLEAN /\ can_blank \in BOOLEAN
    /\ watching \in [Pads -> {"none", "opening", "open", "gone"}]
    /\ padInput \in Nat \cup {None} /\ woken \in BOOLEAN /\ next_scan \in Nat
    /\ pc \in {"dead", "register", "look", "persist", "announce", "report",
               "reregister", "wait"}
    /\ stepBy \in Nat /\ wakeAt \in Nat
    /\ idle \in Nat \cup {IdleUnknown}
    /\ offered \in BOOLEAN /\ announced_can_blank \in BOOLEAN
    /\ file \in FileType
    /\ daemon \in {"nobody", "cannot", "can"}
    /\ starts \in Nat
    /\ hist \in HistType

Init ==
    /\ now = 0 /\ lastInput = 0 /\ notification = "none" /\ created = 0 /\ wire = <<>>
    /\ tracked = Unknown /\ lost = FALSE /\ can_blank = FALSE
    /\ watching = [p \in Pads |-> "none"] /\ padInput = None /\ woken = FALSE
    /\ next_scan = 0
    /\ pc = "dead" /\ stepBy = 0 /\ wakeAt = 0 /\ idle = IdleUnknown
    /\ offered = FALSE /\ announced_can_blank = FALSE
    /\ file = NoFile /\ daemon = "nobody" /\ starts = 0
    /\ hist = [ground |-> "nothing", late |-> FALSE, fileLate |-> FALSE,
               watchedUntil |-> 0, startedAt |-> 0, unread |-> None]

-----------------------------------------------------------------------------
(* The seat and the compositor: external.  The compositor announces a change *)
(* of its idle object and nothing else, punctually; a seat already idle when *)
(* the object is created is announced one timeout later.                     *)

IdleDue == LaterOf(lastInput, created) + NOTIFY_TIMEOUT

TouchSeat ==
    /\ May("seat")
    /\ lastInput' = now
    /\ IF notification = "idled"
       THEN /\ notification' = "active"
            /\ wire' = Append(wire, [event |-> "resumed", at |-> now])
       ELSE UNCHANGED <<notification, wire>>
    /\ UNCHANGED <<now, created, wayland, can_blank, pads, looping, outside, hist>>

CompositorIdles ==
    /\ notification = "active" /\ now >= IdleDue
    /\ notification' = "idled"
    /\ wire' = Append(wire, [event |-> "idled", at |-> now])
    /\ UNCHANGED <<now, lastInput, created, wayland, can_blank, pads, looping, outside, hist>>

(* The compositor goes away and blocking_dispatch fails: the thread ends, and *)
(* what was tracked stays where it was.                                       *)
ConnectionLost ==
    /\ May("compositor")
    /\ Watching
    /\ lost' = TRUE
    /\ notification' = "none" /\ wire' = <<>>
    /\ hist' = [hist EXCEPT !.watchedUntil = now]
    /\ UNCHANGED <<now, lastInput, created, tracked, can_blank, pads, looping, outside>>

-----------------------------------------------------------------------------
(* The Wayland thread. *)

\* Mutant: the first `idled` of an instance is news.
idledAfresh(was, at) == Observed(Past(NOTIFY_TIMEOUT, at))

\* Mutant: every `idled` is a confirmation.
idledConfirms(was, at) ==
    LET observed == Past(NOTIFY_TIMEOUT, at)
    IN Observed(IF was.is # "unknown" THEN EarlierOf(was.at, observed) ELSE observed)

(* Where the last input was, given that `idled` has just arrived. *)
idled(was, at) ==
    LET observed == Past(NOTIFY_TIMEOUT, at)
    IN Observed(IF was.is = "carried" THEN EarlierOf(was.at, observed) ELSE observed)

HandleIdled ==
    /\ Watching /\ wire # <<>> /\ Head(wire).event = "idled"
    /\ wire' = Tail(wire)
    /\ tracked' = idled(tracked, now)
    /\ UNCHANGED <<now, lastInput, notification, created, lost, can_blank, pads, looping,
                   outside, hist>>

HandleResumed ==
    /\ Watching /\ wire # <<>> /\ Head(wire).event = "resumed"
    /\ wire' = Tail(wire)
    /\ tracked' = Observed(now)
    /\ hist' = [hist EXCEPT !.ground = "input", !.late = FALSE]
    /\ UNCHANGED <<now, lastInput, notification, created, lost, can_blank, pads, looping,
                   outside>>

(* The last of a manager, an output and an answer to `supported` turns up,    *)
(* and a blanker is installed.                                                *)
InstallBlanker ==
    /\ May("capability")
    /\ Watching /\ ~can_blank
    /\ can_blank' = TRUE
    /\ UNCHANGED <<now, seat, wayland, pads, looping, outside, hist>>

BackendIdle == IF lost \/ tracked.is = "unknown" THEN IdleUnknown
               ELSE Past(tracked.at, now)

-----------------------------------------------------------------------------
(* The joysticks. *)

OpenPad(p) ==
    /\ watching[p] = "opening"
    /\ watching' = [watching EXCEPT ![p] = "open"]
    /\ UNCHANGED <<now, seat, wayland, can_blank, padInput, woken, next_scan, looping,
                   outside, hist>>

(* The device goes away: its watcher's read fails. *)
Unplug(p) ==
    /\ May("unplug")
    /\ watching[p] \in {"opening", "open"}
    /\ watching' = [watching EXCEPT ![p] = "gone"]
    /\ UNCHANGED <<now, seat, wayland, can_blank, padInput, woken, next_scan, looping,
                   outside, hist>>

Forget(p) ==
    /\ watching[p] = "gone"
    /\ watching' = [watching EXCEPT ![p] = "none"]
    /\ UNCHANGED <<now, seat, wayland, can_blank, padInput, woken, next_scan, looping,
                   outside, hist>>

\* Mutant: only the first touch of a session wakes the loop.
IsNewsOnce == padInput = None

(* A movement that counts as a person.  Only the first after a quiet spell    *)
(* wakes the loop.                                                            *)
IsNews == padInput = None \/ now - padInput >= NEWS_AFTER

TouchPad(p) ==
    /\ May("pad")
    /\ watching[p] = "open"
    /\ padInput' = now
    /\ woken' = (woken \/ IsNews)
    /\ stepBy' = IF pc = "wait" /\ IsNews THEN EarlierOf(stepBy, now + Lag) ELSE stepBy
    /\ hist' = [hist EXCEPT !.unread = IF hist.unread = None THEN now ELSE hist.unread]
    /\ UNCHANGED <<now, seat, wayland, can_blank, watching, next_scan, pc, wakeAt, idle,
                   offered, announced_can_blank, outside>>

Held == {p \in Pads : watching[p] # "none"}

(* A watcher for every joystick without one, up to the bound. *)
Rescanned ==
    {w \in [Pads -> {"none", "opening", "open", "gone"}] :
        /\ \A p \in Pads : w[p] # watching[p] => watching[p] = "none" /\ w[p] = "opening"
        /\ Cardinality({p \in Pads : w[p] # "none"}) <= LaterOf(MAX_WATCHED, Cardinality(Held))}

PadIdle == IF padInput = None THEN IdleUnknown ELSE now - padInput

(* Shorter wins, and doubt stays doubt. *)
Merged(compositor, pad) ==
    IF compositor # IdleUnknown /\ pad # IdleUnknown
    THEN EarlierOf(compositor, pad) ELSE compositor

-----------------------------------------------------------------------------
(* The main loop.  Each await of it, and each lock it takes, is a step. *)

Goto(label, within) == pc' = label /\ stepBy' = now + within

WaitFor(reading) ==
    IF reading # IdleUnknown /\ reading < ActiveBelow THEN EarlierOf(Interval, SoonWait)
    ELSE Interval

Capability(can) == IF can THEN "can" ELSE "cannot"

(* RegisterAgent answered, or failed with or without having been carried out. *)
Registered(can, ok) ==
    /\ ok \/ May("daemon")
    /\ daemon' \in IF ok THEN {Capability(can)} ELSE {daemon, Capability(can)}

\* Mutant: an absent file is read as one.
AdoptableAlways == now - file.written <= ADOPT_MAX_GAP

(* load: the predecessor's instant, if it wrote it recently. *)
Adoptable ==
    /\ file # NoFile
    /\ file.written <= now /\ file.last <= file.written
    /\ now - file.written <= ADOPT_MAX_GAP

Start ==
    /\ pc = "dead" /\ starts < MaxStarts
    /\ starts' = starts + 1
    /\ tracked' = IF Adoptable THEN Carried(file.last) ELSE Unknown
    /\ can_blank' \in IF May("capability") THEN BOOLEAN ELSE {FALSE}
    /\ notification' = "active" /\ created' = now
    /\ Goto("register", Lag)
    /\ offered' = can_blank'
    /\ hist' = [hist EXCEPT !.ground = IF Adoptable THEN "carried" ELSE "nothing",
                            !.late = IF Adoptable THEN hist.fileLate ELSE TRUE,
                            !.startedAt = now]
    /\ UNCHANGED <<now, lastInput, wire, lost, pads, wakeAt, idle, announced_can_blank,
                   file, daemon>>

(* What the daemon was told is read from the backend once the first           *)
(* registration has been answered.                                            *)
FirstRegister ==
    /\ pc = "register"
    /\ daemon' = Capability(offered)
    /\ announced_can_blank' = can_blank
    /\ Goto("look", Lag)
    /\ UNCHANGED <<now, seat, wayland, can_blank, pads, wakeAt, idle, offered, file, starts,
                   hist>>

(* merge, with the rescan poll makes when one is due. *)
Look ==
    /\ pc = "look"
    /\ IF now >= next_scan
       THEN watching' \in Rescanned /\ next_scan' = now + RESCAN
       ELSE UNCHANGED <<watching, next_scan>>
    /\ idle' = Merged(BackendIdle, PadIdle)
    /\ Goto("persist", Lag)
    /\ hist' = [hist EXCEPT !.unread = None]
    /\ UNCHANGED <<now, seat, wayland, can_blank, padInput, woken, wakeAt, offered,
                   announced_can_blank, outside>>

\* Mutant: the heartbeat of an instance whose compositor died refreshes the file.
PersistWhenLost ==
    /\ pc = "persist"
    /\ IF tracked.is # "unknown"
       THEN /\ file' = [last |-> tracked.at, written |-> now]
            /\ hist' = [hist EXCEPT !.fileLate = hist.late]
       ELSE UNCHANGED <<file, hist>>
    /\ Goto("announce", Lag)
    /\ UNCHANGED <<now, seat, wayland, can_blank, pads, wakeAt, idle, offered,
                   announced_can_blank, daemon, starts>>

Persist ==
    /\ pc = "persist"
    /\ IF ~lost /\ tracked.is # "unknown"
       THEN /\ file' = [last |-> tracked.at, written |-> now]
            /\ hist' = [hist EXCEPT !.fileLate = hist.late]
       ELSE UNCHANGED <<file, hist>>
    /\ Goto("announce", Lag)
    /\ UNCHANGED <<now, seat, wayland, can_blank, pads, wakeAt, idle, offered,
                   announced_can_blank, daemon, starts>>

(* A capability that turned up is announced; a failure is only logged.        *)
Announce ==
    /\ pc = "announce"
    /\ IF can_blank # announced_can_blank
       THEN \E ok \in BOOLEAN :
               /\ Registered(can_blank, ok)
               /\ announced_can_blank' = IF ok THEN can_blank ELSE announced_can_blank
       ELSE UNCHANGED <<daemon, announced_can_blank>>
    /\ Goto("report", Lag)
    /\ UNCHANGED <<now, seat, wayland, can_blank, pads, wakeAt, idle, offered, file, starts,
                   hist>>

(* The wait: a message already in the channel ends it at once. *)
Settle ==
    /\ wakeAt' = now + WaitFor(idle)
    /\ Goto("wait", IF woken THEN Lag ELSE WaitFor(idle) + Lag)

ReportAccepted ==
    /\ pc = "report" /\ daemon # "nobody"
    /\ Settle
    /\ UNCHANGED <<now, seat, wayland, can_blank, pads, idle, offered, announced_can_blank,
                   outside, hist>>

(* The daemon does not know this connection, or could not be asked. *)
ReportRefused ==
    /\ pc = "report" /\ (daemon = "nobody" \/ May("daemon"))
    /\ Goto("reregister", Lag)
    /\ UNCHANGED <<now, seat, wayland, can_blank, pads, wakeAt, idle, offered,
                   announced_can_blank, outside, hist>>

Reregister ==
    /\ pc = "reregister"
    /\ \E ok \in BOOLEAN : Registered(can_blank, ok)
    /\ Settle
    /\ UNCHANGED <<now, seat, wayland, can_blank, pads, idle, offered, announced_can_blank,
                   file, starts, hist>>

(* The timer is asked first; a message it beats stays in the channel. *)
TimerFires ==
    /\ pc = "wait" /\ now >= wakeAt
    /\ Goto("look", Lag)
    /\ UNCHANGED <<now, seat, wayland, can_blank, pads, wakeAt, idle, offered,
                   announced_can_blank, outside, hist>>

WokenByPad ==
    /\ pc = "wait" /\ now < wakeAt /\ woken
    /\ woken' = FALSE
    /\ Goto("look", Lag)
    /\ UNCHANGED <<now, seat, wayland, can_blank, watching, padInput, next_scan, wakeAt,
                   idle, offered, announced_can_blank, outside, hist>>

-----------------------------------------------------------------------------
(* Around the process: external. *)

(* It crashes, is upgraded, or gives up because its first registration was    *)
(* refused.                                                                   *)
AgentDies ==
    /\ May("death")
    /\ Alive
    /\ pc' = "dead"
    /\ tracked' = Unknown /\ lost' = FALSE /\ can_blank' = FALSE
    /\ notification' = "none" /\ wire' = <<>>
    /\ watching' = [p \in Pads |-> "none"] /\ padInput' = None /\ woken' = FALSE
    /\ next_scan' = 0
    /\ stepBy' = now /\ wakeAt' = 0 /\ idle' = IdleUnknown
    /\ offered' = FALSE /\ announced_can_blank' = FALSE
    /\ daemon' = "nobody"
    /\ hist' = [hist EXCEPT !.watchedUntil = IF lost THEN hist.watchedUntil ELSE now,
                            !.unread = None]
    /\ UNCHANGED <<now, lastInput, created, file, starts>>

DaemonRestarts ==
    /\ May("daemon")
    /\ daemon # "nobody"
    /\ daemon' = "nobody"
    /\ UNCHANGED <<now, seat, wayland, can_blank, pads, looping, file, starts, hist>>

(* No runnable thread is kept waiting longer than Lag. *)
Tick ==
    /\ now < MaxTime
    /\ Alive => now < stepBy
    /\ \A i \in 1 .. Len(wire) : now < wire[i].at + Lag
    /\ notification = "active" => now < IdleDue
    /\ now' = now + 1
    /\ UNCHANGED <<seat, wayland, can_blank, pads, looping, outside, hist>>

Next ==
    \/ TouchSeat \/ CompositorIdles \/ ConnectionLost
    \/ HandleIdled \/ HandleResumed \/ InstallBlanker
    \/ \E p \in Pads : OpenPad(p) \/ Unplug(p) \/ Forget(p) \/ TouchPad(p)
    \/ Start \/ FirstRegister \/ Look \/ Persist \/ Announce
    \/ ReportAccepted \/ ReportRefused \/ Reregister \/ TimerFires \/ WokenByPad
    \/ AgentDies \/ DaemonRestarts \/ Tick

Spec == Init /\ [][Next]_vars

-----------------------------------------------------------------------------
(* Properties. *)

(* CountdownNotRestarted: an instance whose knowledge goes back to an input   *)
(* some instance saw never reports an input later than the last real one,     *)
(* however often the agent was restarted since: a package upgrade grants no   *)
(* fresh countdown (lastinput.rs, wayland.rs idled).                          *)
CountdownNotRestarted ==
    (Watching /\ tracked.is # "unknown" /\ ~hist.late) => tracked.at <= lastInput + Lag

(* QuietIsNotStretched: once the compositor has said the seat is quiet and    *)
(* that was dispatched, an instance that did not adopt its instant never      *)
(* reports more idle time than there was.                                     *)
QuietIsNotStretched ==
    (Watching /\ notification = "idled" /\ wire = <<>> /\ hist.ground # "carried")
        => (tracked.is = "observed" /\ tracked.at >= lastInput)

(* AdoptionIsFresh: an instant is adopted only from a time when an instance   *)
(* with a living connection was watching the seat at most ADOPT_MAX_GAP ago,  *)
(* though a process whose compositor died keeps running its heartbeat.        *)
AdoptionIsFresh ==
    (Watching /\ tracked.is = "carried")
        => hist.startedAt - hist.watchedUntil <= ADOPT_MAX_GAP

(* PadReachesTheDaemon: while the seat can be read, a touch of a joystick is  *)
(* read for a report within the short wait, though only the first touch after a     *)
(* quiet spell wakes the loop and the channel holds one message.              *)
PadReachesTheDaemon ==
    (Alive /\ idle # IdleUnknown /\ hist.unread # None)
        => now <= hist.unread + SoonWait + 6 * Lag

(* InputIsRecent: wayland.rs:20-23 says that not having been idled is the     *)
(* evidence that input is recent, so a seat the compositor has not called     *)
(* idle is never reported as idle for longer than NOTIFY_TIMEOUT.             *)
InputIsRecent ==
    (Watching /\ notification = "active" /\ wire = <<>> /\ hist.ground = "input")
        => BackendIdle <= NOTIFY_TIMEOUT + Lag
=============================================================================
