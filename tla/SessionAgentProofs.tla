------------------------- MODULE SessionAgentProofs -------------------------
(* Proofs about the session agent, for any set of joysticks, any timeouts,    *)
(* any lag and any number of restarts.                                        *)
EXTENDS SessionAgent, TLAPS, SequenceTheorems

\* The periods are positive naturals.
LEMMA Timeouts ==
    /\ {NOTIFY_TIMEOUT, ADOPT_MAX_GAP, RESCAN, NEWS_AFTER, Interval, SoonWait} \subseteq Nat
    /\ Lag \in Nat
BY AgentConstants

\* What a duration leaves of an instant is an instant.
LEMMA PastType ==
    ASSUME NEW d \in Nat, NEW t \in Nat
    PROVE  Past(d, t) \in Nat /\ Past(d, t) <= t /\ (d <= t => Past(d, t) = t - d)
BY DEF Past

\* The Wayland thread turns an `idled` into an observation.
LEMMA IdledType ==
    ASSUME NEW was \in TrackedType, NEW t \in Nat
    PROVE  /\ idled(was, t) \in TrackedType
           /\ idled(was, t).is = "observed"
           /\ was.is = "carried" => idled(was, t).at <= was.at
           /\ was.is # "carried" => idled(was, t).at = Past(NOTIFY_TIMEOUT, t)
<1> DEFINE observed == Past(NOTIFY_TIMEOUT, t)
<1>1. observed \in Nat
    BY Timeouts, PastType
<1>2. CASE was.is = "carried"
    <2>1. idled(was, t) = [is |-> "observed", at |-> EarlierOf(was.at, observed)]
        BY <1>2 DEF idled, Observed
    <2>2. EarlierOf(was.at, observed) \in Nat /\ EarlierOf(was.at, observed) <= was.at
        BY <1>1 DEF EarlierOf, TrackedType
    <2> QED
        BY <1>2, <2>1, <2>2 DEF TrackedType
<1>3. CASE was.is # "carried"
    <2>1. idled(was, t) = [is |-> "observed", at |-> observed]
        BY <1>3 DEF idled, Observed
    <2> QED
        BY <1>1, <1>3, <2>1 DEF TrackedType
<1> QED
    BY <1>2, <1>3

\* Sending and dispatching keep the wire a sequence of messages.
LEMMA WireType ==
    ASSUME NEW w \in Seq(Message), NEW m \in Message
    PROVE  /\ Append(w, m) \in Seq(Message) /\ Len(Append(w, m)) = Len(w) + 1
           /\ \A i \in 1 .. Len(w) : Append(w, m)[i] = w[i]
           /\ Append(w, m)[Len(w) + 1] = m
           /\ w # <<>> => /\ Head(w) = w[1] /\ Head(w) \in Message
                          /\ Tail(w) \in Seq(Message) /\ Len(Tail(w)) = Len(w) - 1
                          /\ \A i \in 1 .. Len(w) - 1 : Tail(w)[i] = w[i + 1]
                          /\ Len(w) \in Nat \ {0}
OBVIOUS

\* Whatever the loop read, it waits a natural number of units.
LEMMA WaitType ==
    ASSUME NEW r \in Nat \cup {IdleUnknown}
    PROVE  WaitFor(r) \in Nat
BY Timeouts DEF WaitFor, EarlierOf

\* A reading is a duration or unknown.
LEMMA ReadingType ==
    ASSUME TypeOK, padInput <= now
    PROVE  Merged(BackendIdle, PadIdle) \in Nat \cup {IdleUnknown}
<1>1. BackendIdle \in Nat \cup {IdleUnknown}
    BY PastType DEF TypeOK, BackendIdle, TrackedType
<1>2. PadIdle \in Nat \cup {IdleUnknown}
    BY DEF TypeOK, PadIdle, IdleUnknown, None
<1> QED
    BY <1>1, <1>2 DEF Merged, EarlierOf

-----------------------------------------------------------------------------
(* Types.  Only the joysticks' clock needs more than its type: a reading of   *)
(* it is a duration because a touch is never in the future.                   *)

Typed == TypeOK /\ padInput <= now

\* The types hold of the seat before its first agent.
LEMMA TypedInit == Init => Typed
<1>1. <<>> \in Seq(Message)
    OBVIOUS
<1>2. [p \in Pads |-> "none"] \in [Pads -> {"none", "opening", "open", "gone"}]
    OBVIOUS
<1>3. -1 <= 0
    OBVIOUS
<1> QED
    <2> USE DEF None, IdleUnknown
    <2>1. Init => tracked \in TrackedType /\ file \in FileType
        BY DEF Init, Unknown, TrackedType, FileType
    <2>2. Init => hist \in HistType
        BY DEF Init, HistType
    <2>3. Init => watching \in [Pads -> {"none", "opening", "open", "gone"}]
        BY <1>2 DEF Init
    <2> QED
        <3>1. Init => wire \in Seq(Message)
            BY <1>1 DEF Init
        <3>2. Init => padInput <= now /\ padInput \in Nat \cup {None}
            BY DEF Init
        <3>3. Init => pc \in {"dead", "register", "look", "persist", "announce", "report",
                              "reregister", "wait"}
                      /\ notification \in {"none", "active", "idled"}
                      /\ daemon \in {"nobody", "cannot", "can"}
            BY DEF Init
        <3>4. Init => /\ lost \in BOOLEAN /\ can_blank \in BOOLEAN /\ woken \in BOOLEAN
                      /\ offered \in BOOLEAN /\ announced_can_blank \in BOOLEAN
            BY DEF Init
        <3>5. Init => /\ now \in Nat /\ lastInput \in Nat /\ created \in Nat
                      /\ next_scan \in Nat /\ stepBy \in Nat /\ wakeAt \in Nat
                      /\ idle \in Nat \cup {IdleUnknown} /\ starts \in Nat
            BY DEF Init
        <3> QED
            BY <2>1, <2>2, <2>3, <3>1, <3>2, <3>3, <3>4, <3>5 DEF Typed, TypeOK

\* Every step of the agent, its threads and its seat keeps the types.
LEMMA TypedStep ==
    ASSUME Typed, [Next]_vars
    PROVE  Typed'
<1> USE Timeouts DEF Typed, None, IdleUnknown
<1>0. CASE UNCHANGED vars
    BY <1>0 DEF vars, seat, wayland, pads, looping, outside, TypeOK
<1>1. CASE TouchSeat
    <2>1. wire' \in Seq(Message)
        <3>1. [event |-> "resumed", at |-> now] \in Message /\ wire \in Seq(Message)
            BY DEF Message, TypeOK
        <3> QED
            BY <1>1, <3>1, WireType DEF TouchSeat
    <2> QED
        BY <1>1, <2>1 DEF TouchSeat, TypeOK, wayland, pads, looping, outside
<1>2. CASE CompositorIdles
    <2>1. wire' \in Seq(Message)
        <3>1. [event |-> "idled", at |-> now] \in Message /\ wire \in Seq(Message)
            BY DEF Message, TypeOK
        <3> QED
            BY <1>2, <3>1, WireType DEF CompositorIdles
    <2> QED
        BY <1>2, <2>1 DEF CompositorIdles, TypeOK, wayland, pads, looping, outside
<1>3. CASE ConnectionLost
    <2>1. hist' \in HistType
        BY <1>3 DEF ConnectionLost, TypeOK, HistType
    <2> QED
        BY <1>3, <2>1 DEF ConnectionLost, TypeOK, pads, looping, outside
<1>4. CASE HandleIdled
    <2>1. wire' \in Seq(Message)
        BY <1>4, WireType DEF HandleIdled, TypeOK
    <2>2. tracked' \in TrackedType
        BY <1>4, IdledType DEF HandleIdled, TypeOK
    <2> QED
        BY <1>4, <2>1, <2>2 DEF HandleIdled, TypeOK, pads, looping, outside
<1>5. CASE HandleResumed
    <2>1. wire' \in Seq(Message)
        BY <1>5, WireType DEF HandleResumed, TypeOK
    <2>2. tracked' \in TrackedType
        BY <1>5 DEF HandleResumed, Observed, TypeOK, TrackedType
    <2>3. hist' \in HistType
        BY <1>5 DEF HandleResumed, TypeOK, HistType
    <2> QED
        BY <1>5, <2>1, <2>2, <2>3 DEF HandleResumed, TypeOK, pads, looping, outside
<1>6. CASE InstallBlanker
    BY <1>6 DEF InstallBlanker, TypeOK, seat, wayland, pads, looping, outside
<1>7. ASSUME NEW p \in Pads, OpenPad(p) \/ Unplug(p) \/ Forget(p)
      PROVE  Typed'
    <2>1. watching' \in [Pads -> {"none", "opening", "open", "gone"}]
        BY <1>7 DEF OpenPad, Unplug, Forget, TypeOK
    <2>2. UNCHANGED <<now, seat, wayland, can_blank, padInput, woken, next_scan, looping,
                      outside, hist>>
        BY <1>7 DEF OpenPad, Unplug, Forget
    <2> QED
        BY <2>1, <2>2 DEF TypeOK, seat, wayland, looping, outside
<1>8. ASSUME NEW p \in Pads, TouchPad(p)
      PROVE  Typed'
    <2>1. hist' \in HistType
        BY <1>8 DEF TouchPad, TypeOK, HistType
    <2>2. stepBy' \in Nat /\ woken' \in BOOLEAN /\ padInput' \in Nat /\ padInput' <= now'
        <3>1. padInput' = now /\ now' = now
            BY <1>8 DEF TouchPad
        <3>2. woken' = TRUE \/ woken' = woken
            BY <1>8, Zenon DEF TouchPad, TypeOK, IsNews
        <3>3. stepBy' = EarlierOf(stepBy, now + Lag) \/ stepBy' = stepBy
            BY <1>8 DEF TouchPad
        <3>4. stepBy' \in Nat
            BY <3>3 DEF TypeOK, EarlierOf
        <3>5. woken' \in BOOLEAN
            BY <3>2 DEF TypeOK
        <3> QED
            BY <3>1, <3>4, <3>5 DEF TypeOK
    <2>3. UNCHANGED <<now, seat, wayland, can_blank, watching, next_scan, pc, wakeAt, idle,
                      offered, announced_can_blank, outside>>
        BY <1>8 DEF TouchPad
    <2> QED
        BY <2>1, <2>2, <2>3 DEF TypeOK, seat, wayland, outside
<1>9. CASE Start
    <2>1. tracked' \in TrackedType
        <3>1. Unknown \in TrackedType /\ (file.last \in Nat => Carried(file.last) \in TrackedType)
            BY DEF Unknown, Carried, TrackedType
        <3>2. Adoptable => file.last \in Nat
            BY DEF Adoptable, TypeOK, FileType
        <3> QED
            BY <1>9, <3>1, <3>2 DEF Start
    <2>2. hist' \in HistType
        BY <1>9 DEF Start, TypeOK, HistType
    <2>3. can_blank' \in BOOLEAN /\ offered' \in BOOLEAN
        BY <1>9 DEF Start
    <2> QED
        <3>1. wire' = wire /\ lastInput' = lastInput /\ notification' = "active"
              /\ created' = now /\ now' = now /\ starts' = starts + 1 /\ pc' = "register"
              /\ stepBy' = now + Lag
            BY <1>9 DEF Start, Goto
        <3>2. UNCHANGED <<lost, watching, padInput, woken, next_scan, wakeAt, idle,
                          announced_can_blank, file, daemon>>
            BY <1>9 DEF Start, pads
        <3>3. wire' \in Seq(Message) /\ file' \in FileType
              /\ watching' \in [Pads -> {"none", "opening", "open", "gone"}]
            BY <3>1, <3>2 DEF TypeOK
        <3>4. padInput' <= now' /\ padInput' \in Nat \cup {None}
            BY <3>1, <3>2 DEF TypeOK
        <3>5. /\ now' \in Nat /\ lastInput' \in Nat /\ created' \in Nat /\ stepBy' \in Nat
              /\ wakeAt' \in Nat /\ next_scan' \in Nat /\ starts' \in Nat
              /\ idle' \in Nat \cup {IdleUnknown}
            BY <3>1, <3>2 DEF TypeOK
        <3>6. lost' \in BOOLEAN /\ woken' \in BOOLEAN /\ announced_can_blank' \in BOOLEAN
              /\ daemon' \in {"nobody", "cannot", "can"}
            BY <3>2 DEF TypeOK
        <3> QED
            BY <2>1, <2>2, <2>3, <3>1, <3>3, <3>4, <3>5, <3>6 DEF TypeOK
<1>10. CASE FirstRegister
    BY <1>10 DEF FirstRegister, Goto, Capability, TypeOK, seat, wayland, pads
<1>11. CASE Look
    <2>1. idle' \in Nat \cup {None}
        BY <1>11, ReadingType DEF Look
    <2>2. hist' \in HistType
        BY <1>11 DEF Look, TypeOK, HistType
    <2>3. watching' \in [Pads -> {"none", "opening", "open", "gone"}] /\ next_scan' \in Nat
        <3>1. \/ watching' \in Rescanned /\ next_scan' = now + RESCAN
              \/ watching' = watching /\ next_scan' = next_scan
            BY <1>11 DEF Look
        <3> QED
            BY <3>1 DEF Rescanned, TypeOK
    <2>4. now' = now /\ pc' = "persist" /\ stepBy' = now + Lag
        BY <1>11 DEF Look, Goto
    <2>5. UNCHANGED <<seat, wayland, can_blank, padInput, woken, wakeAt, offered,
                      announced_can_blank, outside>>
        BY <1>11 DEF Look
    <2> QED
        BY <2>1, <2>2, <2>3, <2>4, <2>5 DEF TypeOK, seat, wayland, outside
<1>12. CASE Persist
    <2>1. hist' \in HistType
        BY <1>12 DEF Persist, TypeOK, HistType
    <2>2. file' \in FileType
        <3>1. file' = file \/ file' = [last |-> tracked.at, written |-> now]
            BY <1>12 DEF Persist
        <3> QED
            BY <3>1 DEF TypeOK, FileType, TrackedType
    <2> QED
        BY <1>12, <2>1, <2>2 DEF Persist, Goto, TypeOK, seat, wayland, pads
<1>13. CASE Announce
    <2>1. daemon' \in {"nobody", "cannot", "can"} /\ announced_can_blank' \in BOOLEAN
        BY <1>13 DEF Announce, Registered, Capability, TypeOK
    <2> QED
        BY <1>13, <2>1 DEF Announce, Goto, TypeOK, seat, wayland, pads
<1>14. Settle => stepBy' \in Nat /\ wakeAt' \in Nat /\ pc' = "wait"
    <2>1. WaitFor(idle) \in Nat
        BY WaitType DEF TypeOK
    <2>2. CASE woken
        BY <2>1, <2>2 DEF Settle, Goto, TypeOK
    <2>3. CASE ~woken
        BY <2>1, <2>3 DEF Settle, Goto, TypeOK
    <2> QED
        BY <2>2, <2>3
<1>15. CASE ReportAccepted
    BY <1>15, <1>14 DEF ReportAccepted, TypeOK, seat, wayland, pads, outside
<1>16. CASE ReportRefused
    BY <1>16 DEF ReportRefused, Goto, TypeOK, seat, wayland, pads, outside
<1>17. CASE Reregister
    <2>1. daemon' \in {"nobody", "cannot", "can"}
        BY <1>17 DEF Reregister, Registered, Capability, TypeOK
    <2> QED
        BY <1>17, <1>14, <2>1 DEF Reregister, TypeOK, seat, wayland, pads
<1>18. CASE TimerFires
    BY <1>18 DEF TimerFires, Goto, TypeOK, seat, wayland, pads, outside
<1>19. CASE WokenByPad
    <2>1. now' = now /\ woken' = FALSE /\ pc' = "look" /\ stepBy' = now + Lag
        BY <1>19 DEF WokenByPad, Goto
    <2>2. UNCHANGED <<seat, wayland, can_blank, watching, padInput, next_scan, wakeAt,
                      idle, offered, announced_can_blank, outside, hist>>
        BY <1>19 DEF WokenByPad
    <2> QED
        <3>1. wire' \in Seq(Message) /\ tracked' \in TrackedType /\ hist' \in HistType
              /\ file' \in FileType
              /\ watching' \in [Pads -> {"none", "opening", "open", "gone"}]
            BY <2>2 DEF TypeOK, seat, wayland, outside
        <3>2. padInput' <= now' /\ padInput' \in Nat \cup {None} /\ woken' \in BOOLEAN
            BY <2>1, <2>2 DEF TypeOK
        <3> QED
            BY <2>1, <2>2, <3>1, <3>2 DEF TypeOK, seat, wayland, outside
<1>20. CASE AgentDies
    <2>1. hist' \in HistType
        BY <1>20 DEF AgentDies, TypeOK, HistType
    <2> QED
        <3>1. tracked' \in TrackedType
            BY <1>20 DEF AgentDies, Unknown, TrackedType
        <3>2. watching' \in [Pads -> {"none", "opening", "open", "gone"}]
            BY <1>20 DEF AgentDies
        <3>3. /\ lost' = FALSE /\ can_blank' = FALSE /\ woken' = FALSE /\ offered' = FALSE
              /\ announced_can_blank' = FALSE /\ notification' = "none" /\ wire' = <<>>
              /\ padInput' = None /\ next_scan' = 0 /\ stepBy' = now /\ wakeAt' = 0
              /\ idle' = IdleUnknown /\ daemon' = "nobody" /\ pc' = "dead"
            BY <1>20 DEF AgentDies
        <3>4. UNCHANGED <<now, lastInput, created, file, starts>>
            BY <1>20 DEF AgentDies
        <3>5. <<>> \in Seq(Message) /\ -1 <= now
            BY DEF TypeOK
        <3> QED
            BY <2>1, <3>1, <3>2, <3>3, <3>4, <3>5 DEF TypeOK
<1>21. CASE DaemonRestarts
    BY <1>21 DEF DaemonRestarts, TypeOK, seat, wayland, pads, looping
<1>22. CASE Tick
    BY <1>22 DEF Tick, TypeOK, seat, wayland, pads, looping, outside
<1> QED
    BY <1>0, <1>1, <1>2, <1>3, <1>4, <1>5, <1>6, <1>7, <1>8, <1>9, <1>10, <1>11, <1>12,
       <1>13, <1>15, <1>16, <1>17, <1>18, <1>19, <1>20, <1>21, <1>22 DEF Next

\* Every variable keeps its type, and no touch of a joystick is in the future.
THEOREM TypeCorrect == Spec => []TypeOK
<1>1. Typed /\ [Next]_vars => Typed'
    BY TypedStep
<1> QED
    BY TypedInit, <1>1, PTL DEF Spec, Typed

-----------------------------------------------------------------------------
(* What the wire carries.  SeatInv is about when its messages were sent,      *)
(* TruthInv about what the last input was when they were, QuietInv about the  *)
(* last of them, FreshInv about the file.                                     *)

SeatInv ==
    /\ created <= now /\ lastInput <= now
    /\ notification = "active" => now <= IdleDue
    /\ ~Watching => notification = "none" /\ wire = <<>>
    /\ pc = "dead" => ~lost
    /\ \A i \in 1 .. Len(wire) : wire[i].at <= now /\ now <= wire[i].at + Lag

\* An `idled` still on the wire was sent one timeout after the last input, unless
\* it is the first message to an instance that has observed nothing.
TruthInv ==
    /\ \A i \in 1 .. Len(wire) :
          IF wire[i].event = "resumed" THEN wire[i].at <= lastInput
          ELSE \/ wire[i].at <= lastInput + NOTIFY_TIMEOUT
               \/ i = 1 /\ tracked.is # "observed"
    /\ (notification = "active" /\ lastInput < created)
          => wire = <<>> /\ tracked.is # "observed"
    /\ (Alive /\ ~hist.late) => tracked.is # "unknown" /\ tracked.at <= lastInput + Lag
    /\ ~hist.fileLate => file.last <= lastInput + Lag

QuietInv ==
    /\ (Watching /\ tracked.is = "carried") => hist.ground = "carried"
    /\ (notification = "idled" /\ wire # <<>>)
          => /\ wire[Len(wire)].event = "idled"
             /\ lastInput + NOTIFY_TIMEOUT <= wire[Len(wire)].at
    /\ (notification = "idled" /\ wire = <<>> /\ hist.ground # "carried")
          => tracked.is = "observed" /\ lastInput <= tracked.at

FreshInv ==
    /\ hist.watchedUntil <= now
    /\ file.written <= IF Watching THEN now ELSE hist.watchedUntil
    /\ (Watching /\ tracked.is = "carried")
          => hist.startedAt - hist.watchedUntil <= ADOPT_MAX_GAP

IndInv == Typed /\ SeatInv /\ TruthInv /\ QuietInv /\ FreshInv

\* The invariant holds of the seat before its first agent.
LEMMA IndInit == Init => IndInv
<1> SUFFICES ASSUME Init PROVE SeatInv /\ TruthInv /\ QuietInv /\ FreshInv
    BY TypedInit DEF IndInv
<1>1. Len(wire) = 0
    BY DEF Init
<1>2. SeatInv
    BY <1>1 DEF Init, SeatInv, Watching, Alive
<1>3. TruthInv /\ QuietInv /\ FreshInv
    BY <1>1, Timeouts DEF Init, TruthInv, QuietInv, FreshInv, Watching, Alive, NoFile, None
<1> QED
    BY <1>2, <1>3

\* Most steps touch nothing the invariants speak of.
Bystander ==
    /\ UNCHANGED <<now, seat, wayland, file>>
    /\ pc' = "dead" <=> pc = "dead"
    /\ hist'.ground = hist.ground /\ hist'.late = hist.late
    /\ hist'.fileLate = hist.fileLate /\ hist'.watchedUntil = hist.watchedUntil
    /\ hist'.startedAt = hist.startedAt

LEMMA Bystanders ==
    ASSUME Typed,
           \/ UNCHANGED vars \/ InstallBlanker
           \/ \E p \in Pads : OpenPad(p) \/ Unplug(p) \/ Forget(p) \/ TouchPad(p)
           \/ FirstRegister \/ Look \/ Announce \/ ReportAccepted \/ ReportRefused
           \/ Reregister \/ TimerFires \/ WokenByPad \/ DaemonRestarts
    PROVE  Bystander
<1> USE DEF Bystander
<1>0. CASE UNCHANGED vars
    BY <1>0 DEF vars, looping, outside
<1>1. CASE InstallBlanker
    BY <1>1 DEF InstallBlanker, looping, outside
<1>2. ASSUME NEW p \in Pads, OpenPad(p) \/ Unplug(p) \/ Forget(p)
      PROVE  Bystander
    BY <1>2 DEF OpenPad, Unplug, Forget, looping, outside
<1>3. ASSUME NEW p \in Pads, TouchPad(p)
      PROVE  Bystander
    BY <1>3 DEF TouchPad, outside, Typed, TypeOK, HistType
<1>4. CASE FirstRegister
    BY <1>4 DEF FirstRegister, Goto
<1>5. CASE Look
    BY <1>5 DEF Look, Goto, outside, Typed, TypeOK, HistType
<1>6. CASE Announce
    BY <1>6 DEF Announce, Goto
<1>7. CASE ReportAccepted
    BY <1>7 DEF ReportAccepted, Settle, Goto, outside
<1>8. CASE ReportRefused
    BY <1>8 DEF ReportRefused, Goto, outside
<1>9. CASE Reregister
    BY <1>9 DEF Reregister, Settle, Goto
<1>10. CASE TimerFires
    BY <1>10 DEF TimerFires, Goto, outside
<1>11. CASE WokenByPad
    BY <1>11 DEF WokenByPad, Goto, outside
<1>12. CASE DaemonRestarts
    BY <1>12 DEF DaemonRestarts, looping
<1> QED
    BY <1>0, <1>1, <1>2, <1>3, <1>4, <1>5, <1>6, <1>7, <1>8, <1>9, <1>10, <1>11, <1>12

\* The rest, one case each.
LEMMA StepCases ==
    ASSUME Typed, [Next]_vars
    PROVE  \/ Bystander \/ TouchSeat \/ CompositorIdles \/ ConnectionLost \/ HandleIdled
           \/ HandleResumed \/ Start \/ Persist \/ AgentDies \/ Tick
BY Bystanders DEF Next

\* A message on the wire is one.
LEMMA MessageTypes ==
    ASSUME TypeOK
    PROVE  /\ Len(wire) \in Nat
           /\ \A i \in 1 .. Len(wire) : wire[i].at \in Nat /\ wire[i].event \in {"idled", "resumed"}
           /\ tracked \in TrackedType /\ tracked.at \in Nat
           /\ tracked.is \in {"unknown", "carried", "observed"}
<1>1. \A i \in 1 .. Len(wire) : wire[i] \in Message
    BY DEF TypeOK
<1> QED
    BY <1>1 DEF TypeOK, Message, TrackedType

\* Sending and dispatching, in terms of the messages on the wire.
LEMMA Sending ==
    ASSUME TypeOK, NEW m \in Message, wire' = Append(wire, m)
    PROVE  /\ Len(wire') = Len(wire) + 1 /\ wire' # <<>>
           /\ \A i \in 1 .. Len(wire') : IF i = Len(wire') THEN wire'[i] = m
                                         ELSE i \in 1 .. Len(wire) /\ wire'[i] = wire[i]
BY WireType DEF TypeOK

\* Dispatching shifts the messages that are left.
LEMMA Dispatching ==
    ASSUME TypeOK, wire # <<>>, wire' = Tail(wire)
    PROVE  /\ Len(wire') = Len(wire) - 1 /\ Len(wire) \in Nat \ {0}
           /\ Head(wire) = wire[1]
           /\ \A i \in 1 .. Len(wire') : i + 1 \in 1 .. Len(wire) /\ i + 1 # 1
                                         /\ wire'[i] = wire[i + 1]
           /\ wire' # <<>> <=> Len(wire') # 0
<1>1. wire \in Seq(Message)
    BY DEF TypeOK
<1>2. Tail(wire) \in Seq(Message) /\ Len(Tail(wire)) = Len(wire) - 1 /\ Len(wire) \in Nat \ {0}
      /\ Head(wire) = wire[1] /\ \A i \in 1 .. Len(wire) - 1 : Tail(wire)[i] = wire[i + 1]
    BY <1>1, WireType
<1>3. wire' # <<>> <=> Len(wire') # 0
    BY <1>2, EmptySeq
<1> QED
    BY <1>2, <1>3

\* What the compositor has announced stays in step with the seat.
LEMMA SeatStep ==
    ASSUME IndInv, [Next]_vars
    PROVE  SeatInv'
<1> USE Timeouts DEF IndInv, Typed, SeatInv
<1>1. CASE Bystander
    BY <1>1 DEF Bystander, seat, wayland, IdleDue, Watching, Alive
<1>2. CASE TouchSeat
    <2>1. wire' = wire \/ wire' = Append(wire, [event |-> "resumed", at |-> now])
        BY <1>2 DEF TouchSeat
    <2>2. [event |-> "resumed", at |-> now] \in Message
        BY DEF Message, TypeOK
    <2>3. \A i \in 1 .. Len(wire') : wire'[i].at <= now /\ now <= wire'[i].at + Lag
        <3>1. CASE wire' = wire
            BY <3>1
        <3>2. CASE wire' = Append(wire, [event |-> "resumed", at |-> now])
            <4>1. \A i \in 1 .. Len(wire') :
                     \/ wire'[i] = [event |-> "resumed", at |-> now]
                     \/ i \in 1 .. Len(wire) /\ wire'[i] = wire[i]
                BY <2>2, <3>2, Sending
            <4> QED
                BY <4>1 DEF TypeOK
        <3> QED
            BY <2>1, <3>1, <3>2
    <2>4. now <= LaterOf(now, created) + NOTIFY_TIMEOUT
        BY DEF LaterOf, TypeOK
    <2>5. ~Watching => notification' = "none" /\ wire' = <<>>
        BY <1>2 DEF TouchSeat
    <2> QED
        BY <1>2, <2>3, <2>4, <2>5 DEF TouchSeat, wayland, looping, IdleDue, Watching, Alive,
                                      TypeOK
<1>3. CASE CompositorIdles
    <2>1. [event |-> "idled", at |-> now] \in Message
        BY DEF Message, TypeOK
    <2>2. \A i \in 1 .. Len(wire') : wire'[i].at <= now /\ now <= wire'[i].at + Lag
        BY <1>3, <2>1, Sending DEF TypeOK, CompositorIdles
    <2> QED
        BY <1>3, <2>2 DEF CompositorIdles, wayland, looping, Watching, Alive
<1>4. CASE ConnectionLost
    BY <1>4 DEF ConnectionLost, looping, Watching, Alive, TypeOK
<1>5. CASE HandleIdled \/ HandleResumed
    <2>1. wire # <<>> /\ wire' = Tail(wire) /\ Watching /\ lost' = lost
          /\ UNCHANGED <<now, lastInput, notification, created, pc>>
        BY <1>5 DEF HandleIdled, HandleResumed, looping
    <2>2. \A i \in 1 .. Len(wire') : wire'[i].at <= now /\ now <= wire'[i].at + Lag
        BY <2>1, Dispatching
    <2> QED
        BY <2>1, <2>2 DEF Watching, Alive, IdleDue
<1>6. CASE Start
    <2>1. ~Watching
        BY <1>6 DEF Start, Watching, Alive
    <2>2. now <= LaterOf(lastInput, now) + NOTIFY_TIMEOUT
        BY DEF LaterOf, TypeOK
    <2>3. Len(<<>>) = 0
        OBVIOUS
    <2> QED
        BY <1>6, <2>1, <2>2, <2>3 DEF Start, Goto, IdleDue, Watching, Alive, TypeOK
<1>7. CASE Persist
    BY <1>7 DEF Persist, Goto, seat, wayland, Watching, Alive, IdleDue
<1>8. CASE AgentDies
    <2>1. Len(<<>>) = 0
        OBVIOUS
    <2> QED
        BY <1>8, <2>1 DEF AgentDies, Watching, Alive, TypeOK
<1>9. CASE Tick
    <2>1. notification = "active" => now + 1 <= IdleDue
        BY <1>9 DEF Tick, IdleDue, LaterOf, TypeOK
    <2>2. \A i \in 1 .. Len(wire) : wire[i] \in Message
        BY DEF TypeOK
    <2>3. \A i \in 1 .. Len(wire) : wire[i].at <= now + 1 /\ now + 1 <= wire[i].at + Lag
        BY <1>9, <2>2 DEF Tick, TypeOK, Message
    <2> QED
        BY <1>9, <2>1, <2>3 DEF Tick, seat, wayland, looping, Watching, Alive, IdleDue, TypeOK
<1> QED
    BY <1>1, <1>2, <1>3, <1>4, <1>5, <1>6, <1>7, <1>8, <1>9, StepCases

\* No instant held, filed or on its way is later than the last real input.
LEMMA TruthStep ==
    ASSUME IndInv, [Next]_vars
    PROVE  TruthInv'
<1> USE Timeouts DEF IndInv, Typed
<1>0. /\ now \in Nat /\ lastInput \in Nat /\ created \in Nat /\ tracked \in TrackedType
      /\ \A i \in 1 .. Len(wire) : wire[i].at \in Nat /\ wire[i].event \in {"idled", "resumed"}
      /\ tracked.at \in Nat /\ Len(wire) \in Nat
    BY MessageTypes DEF TypeOK
<1>1. CASE Bystander
    BY <1>1 DEF Bystander, seat, wayland, TruthInv, Alive
<1>2. CASE TouchSeat
    <2>1. /\ lastInput' = now /\ lastInput <= now /\ created <= now
          /\ UNCHANGED <<created, tracked, file, hist, pc>>
        BY <1>2 DEF TouchSeat, SeatInv, wayland, outside, looping
    <2>2. wire' = wire \/ wire' = Append(wire, [event |-> "resumed", at |-> now])
        BY <1>2 DEF TouchSeat
    <2>3. \A i \in 1 .. Len(wire') :
             \/ wire'[i] = [event |-> "resumed", at |-> now]
             \/ i \in 1 .. Len(wire) /\ wire'[i] = wire[i]
        <3>1. [event |-> "resumed", at |-> now] \in Message
            BY <1>0 DEF Message
        <3> QED
            BY <2>2, <3>1, Sending
    <2>4. \A i \in 1 .. Len(wire') :
             IF wire'[i].event = "resumed" THEN wire'[i].at <= now
             ELSE \/ wire'[i].at <= now + NOTIFY_TIMEOUT
                  \/ i = 1 /\ tracked.is # "observed"
        <3> SUFFICES ASSUME NEW i \in 1 .. Len(wire')
                     PROVE  IF wire'[i].event = "resumed" THEN wire'[i].at <= now
                            ELSE \/ wire'[i].at <= now + NOTIFY_TIMEOUT
                                 \/ i = 1 /\ tracked.is # "observed"
            OBVIOUS
        <3>1. CASE wire'[i] = [event |-> "resumed", at |-> now]
            BY <1>0, <3>1
        <3>2. CASE i \in 1 .. Len(wire) /\ wire'[i] = wire[i]
            BY <1>0, <2>1, <3>2 DEF TruthInv
        <3> QED
            BY <2>3, <3>1, <3>2
    <2>5. (Alive /\ ~hist.late) => tracked.is # "unknown" /\ tracked.at <= now + Lag
        BY <1>0, <2>1 DEF TruthInv
    <2>6. ~hist.fileLate => file.last <= now + Lag
        <3>1. file.last \in Nat \cup {-1}
            BY DEF TypeOK, FileType, NoFile, None
        <3> QED
            BY <1>0, <2>1, <3>1 DEF TruthInv
    <2> QED
        BY <1>0, <2>1, <2>4, <2>5, <2>6 DEF TruthInv, Alive
<1>3. CASE CompositorIdles
    <2>1. /\ UNCHANGED <<now, lastInput, created, tracked, file, hist, pc>>
          /\ notification = "active" /\ notification' = "idled" /\ now >= IdleDue
          /\ wire' = Append(wire, [event |-> "idled", at |-> now])
        BY <1>3 DEF CompositorIdles, wayland, looping, outside
    <2>2. \/ now = lastInput + NOTIFY_TIMEOUT
          \/ Len(wire) = 0 /\ tracked.is # "observed"
        <3>1. now = IdleDue
            <4>1. IdleDue \in Nat
                BY <1>0 DEF IdleDue, LaterOf
            <4> QED
                BY <1>0, <2>1, <4>1 DEF SeatInv
        <3> QED
            BY <1>0, <2>1, <3>1 DEF TruthInv, IdleDue, LaterOf
    <2>3. \A i \in 1 .. Len(wire') :
             \/ wire'[i] = [event |-> "idled", at |-> now] /\ i = Len(wire) + 1
             \/ i \in 1 .. Len(wire) /\ wire'[i] = wire[i]
        <3>1. [event |-> "idled", at |-> now] \in Message
            BY <1>0 DEF Message
        <3> QED
            BY <2>1, <3>1, Sending
    <2>4. \A i \in 1 .. Len(wire') :
             IF wire'[i].event = "resumed" THEN wire'[i].at <= lastInput
             ELSE \/ wire'[i].at <= lastInput + NOTIFY_TIMEOUT
                  \/ i = 1 /\ tracked.is # "observed"
        BY <1>0, <2>2, <2>3 DEF TruthInv
    <2> QED
        BY <2>1, <2>4 DEF TruthInv, Alive
<1>4. CASE ConnectionLost
    <2>1. /\ UNCHANGED <<lastInput, tracked, file, pc>> /\ wire' = <<>> /\ notification' = "none"
          /\ hist'.late = hist.late /\ hist'.fileLate = hist.fileLate
        BY <1>4 DEF ConnectionLost, looping, outside, TypeOK, HistType
    <2>2. Len(<<>>) = 0
        OBVIOUS
    <2> QED
        BY <2>1, <2>2 DEF TruthInv, Alive
<1>5. CASE HandleIdled
    <2>1. /\ UNCHANGED <<now, lastInput, notification, created, file, hist, pc>>
          /\ wire # <<>> /\ wire' = Tail(wire) /\ wire[1].event = "idled" /\ Alive
          /\ tracked' = idled(tracked, now)
        BY <1>5, Dispatching DEF HandleIdled, looping, outside, Watching
    <2>2. \A i \in 1 .. Len(wire') : i + 1 \in 1 .. Len(wire) /\ i + 1 # 1
                                     /\ wire'[i] = wire[i + 1]
        BY <2>1, Dispatching
    <2>3. \A i \in 1 .. Len(wire') :
             IF wire'[i].event = "resumed" THEN wire'[i].at <= lastInput
             ELSE wire'[i].at <= lastInput + NOTIFY_TIMEOUT
        BY <2>2 DEF TruthInv
    <2>4. ~(notification = "active" /\ lastInput < created)
        BY <2>1 DEF TruthInv
    <2>5. tracked'.is = "observed"
        BY <2>1, <1>0, IdledType
    <2>6. ~hist.late => tracked'.at <= lastInput + Lag
        <3> SUFFICES ASSUME ~hist.late PROVE tracked'.at <= lastInput + Lag
            OBVIOUS
        <3>1. tracked.at <= lastInput + Lag /\ tracked.is \in {"carried", "observed"}
            BY <2>1, <1>0 DEF TruthInv, TrackedType
        <3>2. CASE tracked.is = "carried"
            <4>1. tracked'.at <= tracked.at /\ tracked' \in TrackedType
                BY <3>2, <2>1, <1>0, IdledType
            <4>2. tracked'.at \in Nat
                BY <4>1 DEF TrackedType
            <4> QED
                BY <3>1, <4>1, <4>2, <1>0
        <3>3. CASE tracked.is = "observed"
            <4>1. 1 \in 1 .. Len(wire)
                BY <2>1, Dispatching
            <4>2. wire[1].at <= lastInput + NOTIFY_TIMEOUT
                BY <2>1, <3>3, <4>1 DEF TruthInv
            <4>3. now <= lastInput + NOTIFY_TIMEOUT + Lag
                BY <4>1, <4>2, <1>0 DEF SeatInv
            <4>4. tracked'.at = Past(NOTIFY_TIMEOUT, now)
                BY <2>1, <3>3, <1>0, IdledType
            <4> QED
                BY <4>3, <4>4, <1>0 DEF Past
        <3> QED
            BY <3>1, <3>2, <3>3
    <2> QED
        BY <2>1, <2>3, <2>4, <2>5, <2>6 DEF TruthInv, Alive
<1>6. CASE HandleResumed
    <2>1. /\ UNCHANGED <<now, lastInput, notification, created, file, pc>>
          /\ wire # <<>> /\ wire' = Tail(wire) /\ wire[1].event = "resumed"
          /\ tracked' = [is |-> "observed", at |-> now]
        BY <1>6, Dispatching DEF HandleResumed, looping, outside, Observed
    <2>2. hist'.fileLate = hist.fileLate
        BY <1>6 DEF HandleResumed, TypeOK, HistType
    <2>3. \A i \in 1 .. Len(wire') : i + 1 \in 1 .. Len(wire) /\ i + 1 # 1
                                     /\ wire'[i] = wire[i + 1]
        BY <2>1, Dispatching
    <2>4. \A i \in 1 .. Len(wire') :
             IF wire'[i].event = "resumed" THEN wire'[i].at <= lastInput
             ELSE wire'[i].at <= lastInput + NOTIFY_TIMEOUT
        BY <2>3 DEF TruthInv
    <2>5. ~(notification = "active" /\ lastInput < created)
        BY <2>1 DEF TruthInv
    <2>6. now <= lastInput + Lag
        <3>1. 1 \in 1 .. Len(wire)
            BY <2>1, Dispatching
        <3>2. wire[1].at <= lastInput /\ now <= wire[1].at + Lag
            BY <3>1, <2>1 DEF TruthInv, SeatInv
        <3> QED
            BY <3>1, <3>2, <1>0
    <2> QED
        BY <2>1, <2>2, <2>4, <2>5, <2>6 DEF TruthInv, Alive
<1>7. CASE Start
    <2>1. /\ UNCHANGED <<lastInput, file>> /\ wire' = <<>> /\ pc = "dead"
          /\ tracked' = IF Adoptable THEN Carried(file.last) ELSE Unknown
        <3>1. wire = <<>>
            BY <1>7 DEF Start, SeatInv, Watching, Alive
        <3> QED
            BY <1>7, <3>1 DEF Start
    <2>2. /\ hist'.late = IF Adoptable THEN hist.fileLate ELSE TRUE
          /\ hist'.fileLate = hist.fileLate
        BY <1>7 DEF Start, TypeOK, HistType
    <2>3. Len(<<>>) = 0 /\ Carried(file.last).is = "carried" /\ Unknown.is = "unknown"
          /\ Carried(file.last).at = file.last
        BY DEF Carried, Unknown
    <2>4. tracked'.is # "observed"
        BY <2>1, <2>3
    <2>5. ~hist'.late => tracked'.is # "unknown" /\ tracked'.at <= lastInput + Lag
        BY <2>1, <2>2, <2>3 DEF TruthInv
    <2> QED
        BY <2>1, <2>2, <2>3, <2>4, <2>5 DEF TruthInv, Alive
<1>8. CASE Persist
    <2>1. UNCHANGED <<seat, wayland>> /\ Alive /\ Alive'
        BY <1>8 DEF Persist, Goto, Alive
    <2>2. hist'.late = hist.late
        BY <1>8 DEF Persist, TypeOK, HistType
    <2>3. ~hist'.fileLate => file'.last <= lastInput + Lag
        <3>1. CASE ~lost /\ tracked.is # "unknown"
            <4>1. file'.last = tracked.at /\ hist'.fileLate = hist.late
                BY <1>8, <3>1 DEF Persist, TypeOK, HistType
            <4> QED
                BY <2>1, <4>1 DEF TruthInv
        <3>2. CASE ~(~lost /\ tracked.is # "unknown")
            BY <1>8, <3>2 DEF Persist, TruthInv
        <3> QED
            BY <3>1, <3>2
    <2> QED
        BY <2>1, <2>2, <2>3 DEF TruthInv, seat, wayland
<1>9. CASE AgentDies
    <2>1. /\ UNCHANGED <<lastInput, file>> /\ wire' = <<>> /\ notification' = "none" /\ ~Alive'
          /\ hist'.fileLate = hist.fileLate
        BY <1>9 DEF AgentDies, Alive, TypeOK, HistType
    <2>2. Len(<<>>) = 0
        OBVIOUS
    <2> QED
        BY <2>1, <2>2 DEF TruthInv
<1>10. CASE Tick
    BY <1>10 DEF Tick, seat, wayland, looping, outside, TruthInv, Alive
<1> QED
    BY <1>1, <1>2, <1>3, <1>4, <1>5, <1>6, <1>7, <1>8, <1>9, <1>10, StepCases

\* A seat called idle keeps an instant at or after its last input.
LEMMA QuietStep ==
    ASSUME IndInv, [Next]_vars
    PROVE  QuietInv'
<1> USE Timeouts DEF IndInv, Typed
<1>0. /\ now \in Nat /\ lastInput \in Nat /\ created \in Nat /\ tracked \in TrackedType
      /\ \A i \in 1 .. Len(wire) : wire[i].at \in Nat
      /\ tracked.at \in Nat /\ Len(wire) \in Nat
    BY MessageTypes DEF TypeOK
<1>1. CASE Bystander
    BY <1>1 DEF Bystander, seat, wayland, QuietInv, Watching, Alive
<1>2. CASE TouchSeat
    <2>1. notification' # "idled" /\ UNCHANGED <<tracked, lost, pc, hist>>
        BY <1>2 DEF TouchSeat, wayland, looping
    <2> QED
        BY <2>1 DEF QuietInv, Watching, Alive
<1>3. CASE CompositorIdles
    <2>1. /\ UNCHANGED <<lastInput, tracked, lost, pc, hist>> /\ now >= IdleDue
          /\ wire' = Append(wire, [event |-> "idled", at |-> now])
        BY <1>3 DEF CompositorIdles, wayland, looping
    <2>2. wire' # <<>> /\ wire'[Len(wire')] = [event |-> "idled", at |-> now]
        <3>1. [event |-> "idled", at |-> now] \in Message
            BY <1>0 DEF Message
        <3>2. Len(wire') = Len(wire) + 1 /\ wire' # <<>>
            BY <2>1, <3>1, Sending
        <3>3. Len(wire') \in 1 .. Len(wire')
            BY <1>0, <3>2
        <3> QED
            BY <2>1, <3>1, <3>2, <3>3, Sending
    <2>3. lastInput + NOTIFY_TIMEOUT <= now
        BY <1>0, <2>1 DEF IdleDue, LaterOf
    <2> QED
        BY <2>1, <2>2, <2>3 DEF QuietInv, Watching, Alive
<1>4. CASE ConnectionLost
    BY <1>4 DEF ConnectionLost, QuietInv, Watching
<1>5. CASE HandleIdled \/ HandleResumed
    <2>1. /\ UNCHANGED <<lastInput, notification>> /\ Watching
          /\ wire # <<>> /\ wire' = Tail(wire) /\ Head(wire) = wire[1]
          /\ Len(wire') = Len(wire) - 1 /\ Len(wire) \in Nat \ {0}
          /\ wire' # <<>> <=> Len(wire') # 0
        BY <1>5, Dispatching DEF HandleIdled, HandleResumed
    <2>2. tracked'.is = "observed"
        <3>1. idled(tracked, now).is = "observed" /\ Observed(now).is = "observed"
            BY <1>0, IdledType DEF Observed
        <3> QED
            BY <1>5, <3>1 DEF HandleIdled, HandleResumed
    <2>3. wire' # <<>> => wire'[Len(wire')] = wire[Len(wire)]
        <3> SUFFICES ASSUME wire' # <<>> PROVE wire'[Len(wire')] = wire[Len(wire)]
            OBVIOUS
        <3>1. Len(wire') \in 1 .. Len(wire') /\ Len(wire') + 1 = Len(wire)
            BY <2>1
        <3> QED
            BY <3>1, <2>1, Dispatching
    <2>4. ASSUME notification = "idled", wire' = <<>>, hist'.ground # "carried"
          PROVE  lastInput <= tracked'.at
        <3>1. Len(wire) = 1 /\ Len(wire) \in 1 .. Len(wire)
            BY <2>1, <2>4
        <3>2. wire[1].event = "idled" /\ lastInput + NOTIFY_TIMEOUT <= wire[1].at
            BY <2>1, <2>4, <3>1 DEF QuietInv
        <3>3. HandleIdled
            BY <1>5, <2>1, <3>2 DEF HandleResumed
        <3>4. hist' = hist /\ tracked' = idled(tracked, now)
            BY <3>3 DEF HandleIdled
        <3>5. tracked.is # "carried"
            BY <2>1, <2>4, <3>4 DEF QuietInv
        <3>6. tracked'.at = Past(NOTIFY_TIMEOUT, now)
            BY <1>0, <3>4, <3>5, IdledType
        <3>7. lastInput + NOTIFY_TIMEOUT <= now
            BY <1>0, <3>1, <3>2 DEF SeatInv
        <3> QED
            BY <1>0, <3>6, <3>7 DEF Past
    <2> QED
        BY <2>1, <2>2, <2>3, <2>4 DEF QuietInv
<1>6. CASE Start
    <2>1. notification' = "active" /\ tracked' = IF Adoptable THEN Carried(file.last) ELSE Unknown
        BY <1>6 DEF Start
    <2>2. hist'.ground = IF Adoptable THEN "carried" ELSE "nothing"
        BY <1>6 DEF Start, TypeOK, HistType
    <2> QED
        BY <2>1, <2>2 DEF QuietInv, Unknown
<1>7. CASE Persist
    <2>1. UNCHANGED <<seat, wayland>> /\ Alive /\ Alive'
        BY <1>7 DEF Persist, Goto, Alive
    <2>2. hist'.ground = hist.ground
        BY <1>7 DEF Persist, TypeOK, HistType
    <2> QED
        BY <2>1, <2>2 DEF QuietInv, seat, wayland, Watching
<1>8. CASE AgentDies
    BY <1>8 DEF AgentDies, QuietInv, Unknown, Watching, Alive
<1>9. CASE Tick
    BY <1>9 DEF Tick, seat, wayland, looping, QuietInv, Watching, Alive
<1> QED
    BY <1>1, <1>2, <1>3, <1>4, <1>5, <1>6, <1>7, <1>8, <1>9, StepCases

\* What the file holds was written while somebody watched.
LEMMA FreshStep ==
    ASSUME IndInv, [Next]_vars
    PROVE  FreshInv'
<1> USE Timeouts DEF IndInv, Typed
<1>0. /\ now \in Nat /\ hist.watchedUntil \in Nat /\ hist.startedAt \in Nat
      /\ file.written \in Nat \cup {-1}
    BY DEF TypeOK, HistType, FileType, NoFile, None
<1>1. CASE Bystander
    BY <1>1 DEF Bystander, wayland, FreshInv, Watching, Alive
<1>2. CASE TouchSeat \/ CompositorIdles
    BY <1>2 DEF TouchSeat, CompositorIdles, wayland, looping, outside, FreshInv, Watching, Alive
<1>3. CASE ConnectionLost
    <2>1. hist'.watchedUntil = now /\ now' = now /\ file' = file /\ Watching /\ ~Watching'
        BY <1>3 DEF ConnectionLost, outside, Watching, TypeOK, HistType
    <2> QED
        BY <1>0, <2>1 DEF FreshInv
<1>4. CASE HandleIdled \/ HandleResumed
    <2>1. UNCHANGED <<now, file, pc, lost>> /\ hist'.watchedUntil = hist.watchedUntil
        BY <1>4 DEF HandleIdled, HandleResumed, looping, outside, TypeOK, HistType
    <2>2. tracked'.is = "observed"
        <3>1. idled(tracked, now).is = "observed" /\ Observed(now).is = "observed"
            BY IdledType DEF Observed, TypeOK
        <3> QED
            BY <1>4, <3>1 DEF HandleIdled, HandleResumed
    <2> QED
        BY <2>1, <2>2 DEF FreshInv, Watching, Alive
<1>5. CASE Start
    <2>1. now' = now /\ file' = file /\ ~Watching
          /\ tracked' = IF Adoptable THEN Carried(file.last) ELSE Unknown
        BY <1>5 DEF Start, Watching, Alive
    <2>2. hist'.watchedUntil = hist.watchedUntil /\ hist'.startedAt = now
        BY <1>5 DEF Start, TypeOK, HistType
    <2>3. file.written <= now /\ file.written <= hist.watchedUntil
        BY <1>0, <2>1 DEF FreshInv
    <2>4. tracked'.is = "carried" => now - hist.watchedUntil <= ADOPT_MAX_GAP
        BY <1>0, <2>1, <2>3 DEF Adoptable, Unknown
    <2> QED
        BY <1>0, <2>1, <2>2, <2>3, <2>4 DEF FreshInv
<1>6. CASE Persist
    <2>1. UNCHANGED <<now, lost, tracked>> /\ Alive /\ Alive'
        BY <1>6 DEF Persist, Goto, Alive, wayland
    <2>2. hist'.watchedUntil = hist.watchedUntil /\ hist'.startedAt = hist.startedAt
        BY <1>6 DEF Persist, TypeOK, HistType
    <2>3. file' = file \/ (file'.written = now /\ ~lost)
        BY <1>6 DEF Persist
    <2> QED
        BY <1>0, <2>1, <2>2, <2>3 DEF FreshInv, Watching
<1>7. CASE AgentDies
    <2>1. now' = now /\ file' = file /\ ~Watching' /\ Alive
        BY <1>7 DEF AgentDies, Watching, Alive
    <2>2. hist'.watchedUntil = IF lost THEN hist.watchedUntil ELSE now
        BY <1>7 DEF AgentDies, TypeOK, HistType
    <2> QED
        BY <1>0, <2>1, <2>2 DEF FreshInv, Watching
<1>8. CASE Tick
    <2>1. now' = now + 1 /\ UNCHANGED <<file, hist, pc, lost, tracked>>
        BY <1>8 DEF Tick, wayland, looping, outside
    <2> QED
        BY <1>0, <2>1 DEF FreshInv, Watching, Alive
<1> QED
    BY <1>1, <1>2, <1>3, <1>4, <1>5, <1>6, <1>7, <1>8, StepCases

\* The conjunction is an invariant of the agent.
LEMMA Inductive == Spec => []IndInv
<1>1. IndInv /\ [Next]_vars => IndInv'
    BY TypedStep, SeatStep, TruthStep, QuietStep, FreshStep DEF IndInv
<1> QED
    BY IndInit, <1>1, PTL DEF Spec

\* However often the agent is restarted, nothing it reports is later than the
\* last real input, unless its knowledge began with nothing.
THEOREM NoFreshCountdown == Spec => []CountdownNotRestarted
<1>1. IndInv => CountdownNotRestarted
    BY DEF IndInv, TruthInv, CountdownNotRestarted, Watching
<1> QED
    BY Inductive, <1>1, PTL

\* A seat the compositor calls idle is never reported idle for longer than it
\* has been, by an instance that adopted nothing.
THEOREM QuietIsTrue == Spec => []QuietIsNotStretched
<1>1. IndInv => QuietIsNotStretched
    BY DEF IndInv, QuietInv, QuietIsNotStretched, Typed, TypeOK, TrackedType
<1> QED
    BY Inductive, <1>1, PTL

\* Nothing is adopted across a longer silence than ADOPT_MAX_GAP, though a process
\* whose compositor died keeps its heartbeat.
THEOREM FreshAdoption == Spec => []AdoptionIsFresh
<1>1. IndInv => AdoptionIsFresh
    BY DEF IndInv, FreshInv, AdoptionIsFresh
<1> QED
    BY Inductive, <1>1, PTL

-----------------------------------------------------------------------------
(* A touch of a joystick is read for a report soon after it.                 *)

\* How long after an unread touch the loop takes its next step, at the latest:
\* a touch wakes the loop, finds it hurrying, or finds it on its way to look.
Allowance(stage) ==
    CASE stage = "persist"    -> Lag
      [] stage = "announce"   -> 2 * Lag
      [] stage = "report"     -> 3 * Lag
      [] stage = "reregister" -> 4 * Lag
      [] stage = "wait"       -> SoonWait + 5 * Lag
      [] stage = "look"       -> SoonWait + 6 * Lag

\* The loop's next step is near; nothing has been read before the first look; what
\* was read is no longer ago than the touch it was read from; and after a touch
\* that no look has followed the loop is woken, or hurries.
PadInv ==
    /\ Alive => now <= stepBy
    /\ pc \in {"dead", "register"} => idle = IdleUnknown
    /\ Alive => stepBy <= now + (IF pc = "wait" /\ ~woken THEN WaitFor(idle) ELSE 0) + Lag
    /\ (idle # IdleUnknown /\ hist.unread = None /\ padInput # None) => idle <= now - padInput
    /\ (idle # IdleUnknown /\ hist.unread # None) =>
          /\ woken \/ pc = "look" \/ idle < ActiveBelow
          /\ stepBy <= hist.unread + Allowance(pc)

\* Arithmetic of the loop: naturals all.
LEMMA LoopNumbers ==
    ASSUME Typed
    PROVE  /\ now \in Nat /\ stepBy \in Nat /\ Lag \in Nat /\ SoonWait \in Nat
           /\ ActiveBelow \in Nat /\ NEWS_AFTER \in Nat /\ NEWS_AFTER <= ActiveBelow
           /\ idle \in Nat \cup {IdleUnknown} /\ WaitFor(idle) \in Nat
           /\ idle # IdleUnknown /\ idle < ActiveBelow => WaitFor(idle) <= SoonWait
           /\ padInput \in Nat \cup {None} /\ padInput <= now
           /\ hist.unread \in Nat \cup {None} /\ IdleUnknown = None /\ None = -1
           /\ pc \in {"dead", "register", "look", "persist", "announce", "report",
                      "reregister", "wait"}
<1>1. WaitFor(idle) \in Nat
    BY WaitType DEF Typed, TypeOK
<1>2. idle # IdleUnknown /\ idle < ActiveBelow => WaitFor(idle) <= SoonWait
    BY AgentConstants DEF WaitFor, EarlierOf, Typed, TypeOK
<1> QED
    BY <1>1, <1>2, AgentConstants DEF Typed, TypeOK, HistType, IdleUnknown, None

\* What the loop reads is no longer ago than the last touch.
LEMMA ReadingOfATouch ==
    ASSUME Typed, padInput # None, Merged(BackendIdle, PadIdle) # IdleUnknown
    PROVE  Merged(BackendIdle, PadIdle) <= now - padInput
<1>1. /\ now \in Nat /\ padInput \in Nat /\ padInput <= now
      /\ BackendIdle \in Nat \cup {IdleUnknown}
    BY PastType DEF Typed, TypeOK, BackendIdle, TrackedType
<1>2. PadIdle = now - padInput /\ PadIdle # IdleUnknown /\ PadIdle \in Nat
    BY <1>1 DEF PadIdle, IdleUnknown, None
<1> QED
    BY <1>1, <1>2 DEF Merged, EarlierOf

\* A step that leaves the clock, the loop and the joysticks' clock alone.
LEMMA PadFrame ==
    ASSUME PadInv, UNCHANGED <<now, pc, stepBy, idle, woken, padInput>>,
           hist'.unread = hist.unread
    PROVE  PadInv'
<1>1. Alive' = Alive /\ WaitFor(idle)' = WaitFor(idle) /\ Allowance(pc)' = Allowance(pc)
    BY DEF Alive, WaitFor, Allowance
<1> QED
    BY <1>1 DEF PadInv

\* From one await of the loop to the next, short of the wait.
LEMMA PadAdvance ==
    ASSUME Typed, PadInv, NEW next \in {"announce", "report", "reregister"},
           \/ pc = "persist" /\ next = "announce"
           \/ pc = "announce" /\ next = "report"
           \/ pc = "report" /\ next = "reregister",
           Goto(next, Lag), UNCHANGED <<now, idle, woken, padInput>>,
           hist'.unread = hist.unread
    PROVE  PadInv'
<1>1. pc' = next /\ stepBy' = now + Lag
    BY DEF Goto
<1>2. now <= stepBy
    BY DEF PadInv, Alive
<1>3. Allowance(next) = Allowance(pc) + Lag
    BY LoopNumbers DEF Allowance
<1>4. Allowance(pc) \in Nat
    BY LoopNumbers DEF Allowance
<1>5. hist.unread # None => hist.unread \in Nat
    BY LoopNumbers
<1>6. /\ pc' \notin {"dead", "register", "wait", "look"} /\ pc \notin {"look", "wait"}
      /\ Allowance(pc)' = Allowance(next)
    BY <1>1 DEF Allowance
<1>7. (idle # IdleUnknown /\ hist.unread # None) => stepBy' <= hist.unread + Allowance(next)
    <2>1. SUFFICES ASSUME idle # IdleUnknown, hist.unread # None
                   PROVE  now + Lag <= hist.unread + Allowance(next)
        BY <1>1
    <2>2. stepBy <= hist.unread + Allowance(pc)
        BY <2>1 DEF PadInv
    <2> QED
        BY <1>2, <1>3, <1>4, <1>5, <2>1, <2>2, LoopNumbers
<1> QED
    BY <1>1, <1>6, <1>7, LoopNumbers DEF PadInv, Alive

\* Into the wait.
LEMMA PadSettle ==
    ASSUME Typed, PadInv, pc \in {"report", "reregister"}, Settle,
           UNCHANGED <<now, idle, woken, padInput>>, hist'.unread = hist.unread
    PROVE  PadInv'
<1>1. pc' = "wait" /\ stepBy' = now + IF woken THEN Lag ELSE WaitFor(idle) + Lag
    BY DEF Settle, Goto
<1>2. now <= stepBy
    BY DEF PadInv, Alive
<1>3. /\ Allowance(pc) <= 4 * Lag /\ Allowance(pc) \in Nat
      /\ Allowance(pc)' = SoonWait + 5 * Lag
    BY <1>1, LoopNumbers DEF Allowance
<1>4. WaitFor(idle)' = WaitFor(idle)
    BY DEF WaitFor
<1>5. ASSUME idle # IdleUnknown, hist.unread # None
      PROVE  /\ woken \/ idle < ActiveBelow
             /\ stepBy' <= hist.unread + Allowance(pc)'
    <2>1. /\ woken \/ idle < ActiveBelow
          /\ stepBy <= hist.unread + Allowance(pc)
        BY <1>5 DEF PadInv
    <2>2. stepBy' <= now + SoonWait + Lag
        BY <1>1, <1>5, <2>1, LoopNumbers
    <2>3. hist.unread \in Nat
        BY <1>5, LoopNumbers
    <2>4. stepBy' \in Int
        BY <1>1, LoopNumbers
    <2> QED
        BY <1>2, <1>3, <2>1, <2>2, <2>3, <2>4, LoopNumbers
<1> QED
    BY <1>1, <1>4, <1>5, LoopNumbers DEF PadInv, Alive

\* Out of the wait.
LEMMA PadResume ==
    ASSUME Typed, PadInv, pc = "wait", Goto("look", Lag), UNCHANGED <<now, idle, padInput>>,
           hist'.unread = hist.unread
    PROVE  PadInv'
<1>1. pc' = "look" /\ stepBy' = now + Lag
    BY DEF Goto
<1>2. now <= stepBy
    BY DEF PadInv, Alive
<1>3. Allowance(pc) = SoonWait + 5 * Lag /\ Allowance(pc)' = SoonWait + 6 * Lag
    BY <1>1 DEF Allowance
<1>4. ASSUME idle # IdleUnknown, hist.unread # None
      PROVE  stepBy' <= hist.unread + Allowance(pc)'
    <2>1. stepBy <= hist.unread + Allowance(pc) /\ hist.unread \in Nat
        BY <1>4, LoopNumbers DEF PadInv
    <2> QED
        BY <1>1, <1>2, <1>3, <2>1, LoopNumbers
<1> QED
    BY <1>1, <1>4, LoopNumbers DEF PadInv, Alive

\* A touch wakes the loop, or is one that finds it hurrying.
LEMMA PadTouched ==
    ASSUME Typed, PadInv, NEW p \in Pads, TouchPad(p), Alive
    PROVE  PadInv'
<1>1. /\ padInput' = now /\ woken' = (woken \/ IsNews) /\ UNCHANGED <<now, pc, idle>>
      /\ stepBy' = IF pc = "wait" /\ IsNews THEN EarlierOf(stepBy, now + Lag) ELSE stepBy
    BY DEF TouchPad
<1>2. hist'.unread = IF hist.unread = None THEN now ELSE hist.unread
    BY DEF TouchPad, Typed, TypeOK, HistType
<1>3. now <= stepBy' /\ stepBy' <= stepBy /\ stepBy' \in Nat
    BY <1>1, LoopNumbers DEF PadInv, EarlierOf
<1>4. WaitFor(idle)' = WaitFor(idle) /\ Allowance(pc)' = Allowance(pc)
    BY <1>1 DEF WaitFor, Allowance
<1>5. stepBy' <= now + (IF pc = "wait" /\ ~woken' THEN WaitFor(idle) ELSE 0) + Lag
    <2>1. stepBy <= now + (IF pc = "wait" /\ ~woken THEN WaitFor(idle) ELSE 0) + Lag
        BY DEF PadInv
    <2>2. CASE pc = "wait" /\ IsNews
        <3>1. stepBy' <= now + Lag
            BY <1>1, <2>2, LoopNumbers DEF EarlierOf
        <3> QED
            BY <1>3, <3>1, LoopNumbers
    <2>3. CASE ~(pc = "wait" /\ IsNews)
        <3>1. stepBy' = stepBy /\ (pc = "wait" /\ ~woken' <=> pc = "wait" /\ ~woken)
            BY <1>1, <2>3
        <3> QED
            BY <2>1, <3>1
    <2> QED
        BY <2>2, <2>3
<1>6. ASSUME idle # IdleUnknown
      PROVE  /\ woken' \/ pc = "look" \/ idle < ActiveBelow
             /\ stepBy' <= hist'.unread + Allowance(pc)
    <2>1. CASE hist.unread # None
        <3>1. /\ woken \/ pc = "look" \/ idle < ActiveBelow
              /\ stepBy <= hist.unread + Allowance(pc)
            BY <1>6, <2>1 DEF PadInv
        <3>2. pc \notin {"dead", "register"}
            BY <1>6 DEF PadInv
        <3>3. Allowance(pc) \in Nat /\ hist.unread \in Nat
            BY <2>1, <3>2, LoopNumbers DEF Allowance
        <3>4. hist'.unread = hist.unread /\ (woken => woken')
            BY <1>1, <1>2, <2>1
        <3>5. stepBy' <= hist.unread + Allowance(pc)
            BY <1>3, <3>1, <3>3, LoopNumbers
        <3> QED
            BY <3>1, <3>4, <3>5
    <2>2. CASE hist.unread = None
        <3>1. IsNews \/ idle < ActiveBelow
            <4>1. SUFFICES ASSUME ~IsNews PROVE idle < ActiveBelow
                OBVIOUS
            <4>2. padInput # None /\ ~(now - padInput >= NEWS_AFTER)
                BY <4>1 DEF IsNews
            <4>3. idle <= now - padInput
                BY <1>6, <2>2, <4>2 DEF PadInv
            <4> QED
                BY <1>6, <4>2, <4>3, LoopNumbers
        <3>2. pc \notin {"dead", "register"}
            BY <1>6 DEF PadInv
        <3>3. pc # "wait" => Lag <= Allowance(pc) /\ Allowance(pc) \in Nat
            BY <3>2, LoopNumbers DEF Allowance
        <3>4. pc = "wait" => Allowance(pc) = SoonWait + 5 * Lag
            BY DEF Allowance
        <3>5. ~IsNews => WaitFor(idle) <= SoonWait
            BY <1>6, <3>1, LoopNumbers
        <3>6. hist'.unread = now
            BY <1>2, <2>2
        <3>7. stepBy' <= now + Allowance(pc)
            <4>1. CASE pc # "wait"
                BY <1>3, <1>5, <3>3, <4>1, LoopNumbers
            <4>2. CASE pc = "wait"
                <5>1. IsNews => woken'
                    BY <1>1
                <5>2. stepBy' <= now + SoonWait + Lag
                    BY <1>3, <1>5, <3>5, <5>1, LoopNumbers
                <5> QED
                    BY <1>3, <3>4, <4>2, <5>2, LoopNumbers
            <4> QED
                BY <4>1, <4>2
        <3> QED
            BY <1>1, <3>1, <3>6, <3>7
    <2> QED
        BY <2>1, <2>2
<1>7. hist'.unread # None
    BY <1>2, LoopNumbers
<1>8. Alive' = Alive
    BY <1>1 DEF Alive
<1>9. pc \in {"dead", "register"} => idle = IdleUnknown
    BY DEF PadInv
<1> QED
    BY <1>1, <1>3, <1>4, <1>5, <1>6, <1>7, <1>8, <1>9 DEF PadInv

LEMMA PadStep ==
    ASSUME Typed, PadInv, [Next]_vars
    PROVE  PadInv'
<1>1. ASSUME pc' \in {"dead", "register", "look"}, now' = now, idle' = IdleUnknown,
             pc' # "dead" => stepBy' = now + Lag
      PROVE  PadInv'
    BY <1>1, LoopNumbers DEF PadInv, Alive
<1>2. CASE UNCHANGED vars
    BY <1>2, PadFrame DEF vars, pads, looping
<1>3. CASE \/ TouchSeat \/ CompositorIdles \/ HandleIdled \/ InstallBlanker \/ DaemonRestarts
           \/ \E p \in Pads : OpenPad(p) \/ Unplug(p) \/ Forget(p)
    <2>1. UNCHANGED <<now, pc, stepBy, idle, woken, padInput, hist>>
        BY <1>3 DEF TouchSeat, CompositorIdles, HandleIdled, InstallBlanker, DaemonRestarts,
                    OpenPad, Unplug, Forget, pads, looping
    <2> QED
        BY <2>1, PadFrame
<1>4. CASE ConnectionLost \/ HandleResumed
    <2>1. UNCHANGED <<now, pc, stepBy, idle, woken, padInput>>
        BY <1>4 DEF ConnectionLost, HandleResumed, pads, looping
    <2>2. hist'.unread = hist.unread
        BY <1>4 DEF ConnectionLost, HandleResumed, Typed, TypeOK, HistType
    <2> QED
        BY <2>1, <2>2, PadFrame
<1>5. ASSUME NEW p \in Pads, TouchPad(p)
      PROVE  PadInv'
    <2>1. CASE Alive
        BY <1>5, <2>1, PadTouched
    <2>2. CASE ~Alive
        <3>1. pc' = pc /\ idle' = idle
            BY <1>5 DEF TouchPad
        <3> QED
            BY <2>2, <3>1 DEF PadInv, Alive
    <2> QED
        BY <2>1, <2>2
<1>6. CASE Start
    <2>1. pc = "dead" /\ pc' = "register" /\ UNCHANGED <<now, idle>> /\ stepBy' = now + Lag
        BY <1>6 DEF Start, Goto
    <2> QED
        BY <1>1, <2>1 DEF PadInv
<1>7. CASE FirstRegister
    <2>1. pc = "register" /\ pc' = "look" /\ UNCHANGED <<now, idle>> /\ stepBy' = now + Lag
        BY <1>7 DEF FirstRegister, Goto
    <2> QED
        BY <1>1, <2>1 DEF PadInv
<1>8. CASE Look
    <2>1. /\ pc' = "persist" /\ stepBy' = now + Lag /\ UNCHANGED <<now, padInput>>
          /\ idle' = Merged(BackendIdle, PadIdle)
        BY <1>8 DEF Look, Goto
    <2>2. hist'.unread = None
        BY <1>8 DEF Look, Typed, TypeOK, HistType
    <2>3. padInput # None /\ idle' # IdleUnknown => idle' <= now - padInput
        BY <2>1, ReadingOfATouch
    <2> QED
        BY <2>1, <2>2, <2>3, LoopNumbers DEF PadInv, Alive
<1>9. CASE Persist
    <2>1. pc = "persist" /\ Goto("announce", Lag) /\ UNCHANGED <<now, idle, woken, padInput>>
        BY <1>9 DEF Persist, pads
    <2>2. hist'.unread = hist.unread
        BY <1>9 DEF Persist, Typed, TypeOK, HistType
    <2> QED
        BY <2>1, <2>2, PadAdvance
<1>10. CASE Announce
    <2>1. /\ pc = "announce" /\ Goto("report", Lag) /\ UNCHANGED <<now, idle, woken, padInput>>
          /\ hist'.unread = hist.unread
        BY <1>10 DEF Announce, pads
    <2> QED
        BY <2>1, PadAdvance
<1>11. CASE ReportRefused
    <2>1. /\ pc = "report" /\ Goto("reregister", Lag)
          /\ UNCHANGED <<now, idle, woken, padInput>> /\ hist'.unread = hist.unread
        BY <1>11 DEF ReportRefused, pads
    <2> QED
        BY <2>1, PadAdvance
<1>12. CASE ReportAccepted \/ Reregister
    <2>1. /\ pc \in {"report", "reregister"} /\ Settle
          /\ UNCHANGED <<now, idle, woken, padInput>> /\ hist'.unread = hist.unread
        BY <1>12 DEF ReportAccepted, Reregister, pads
    <2> QED
        BY <2>1, PadSettle
<1>13. CASE TimerFires \/ WokenByPad
    <2>1. /\ pc = "wait" /\ Goto("look", Lag) /\ UNCHANGED <<now, idle, padInput>>
          /\ hist'.unread = hist.unread
        BY <1>13 DEF TimerFires, WokenByPad, pads
    <2> QED
        BY <2>1, PadResume
<1>14. CASE AgentDies
    BY <1>1, <1>14 DEF AgentDies
<1>15. CASE Tick
    <2>1. /\ now' = now + 1 /\ (Alive => now < stepBy)
          /\ UNCHANGED <<pc, stepBy, idle, woken, padInput, hist>>
        BY <1>15 DEF Tick, pads, looping
    <2>2. WaitFor(idle)' = WaitFor(idle) /\ Allowance(pc)' = Allowance(pc) /\ Alive' = Alive
        BY <2>1 DEF WaitFor, Allowance, Alive
    <2>3. Alive => now' <= stepBy'
        BY <2>1, LoopNumbers
    <2>4. Alive => stepBy' <= now' + (IF pc = "wait" /\ ~woken THEN WaitFor(idle) ELSE 0) + Lag
        BY <2>1, LoopNumbers DEF PadInv
    <2>5. (idle # IdleUnknown /\ hist.unread = None /\ padInput # None)
             => idle <= now' - padInput
        BY <2>1, LoopNumbers DEF PadInv
    <2> QED
        BY <2>1, <2>2, <2>3, <2>4, <2>5 DEF PadInv
<1> QED
    BY <1>2, <1>3, <1>4, <1>5, <1>6, <1>7, <1>8, <1>9, <1>10, <1>11, <1>12, <1>13, <1>14, <1>15
    DEF Next

\* A touch of a joystick is read for a report within the short wait and six steps
\* of the loop, whatever the loop was doing and however often it was touched: a
\* touch that is no news, and so wakes nobody, comes so soon after one that was
\* read that the loop is still hurrying (gamepad.rs, the wait of main.rs).
THEOREM TouchIsRead == Spec => []PadReachesTheDaemon
<1>1. Init => PadInv
    BY DEF Init, PadInv, Alive
<1>2. Typed /\ PadInv /\ [Next]_vars => PadInv'
    BY PadStep
<1>3. Typed /\ PadInv => PadReachesTheDaemon
    <2> SUFFICES ASSUME Typed, PadInv, Alive, idle # IdleUnknown, hist.unread # None
                 PROVE  now <= hist.unread + SoonWait + 6 * Lag
        BY DEF PadReachesTheDaemon
    <2>1. now <= stepBy /\ stepBy <= hist.unread + Allowance(pc)
        BY DEF PadInv
    <2>2. pc \notin {"dead", "register"}
        BY DEF PadInv
    <2>3. Allowance(pc) <= SoonWait + 6 * Lag /\ Allowance(pc) \in Nat
        BY <2>2, LoopNumbers DEF Allowance
    <2>4. hist.unread \in Nat
        BY LoopNumbers
    <2> QED
        BY <2>1, <2>3, <2>4, LoopNumbers
<1>4. Spec => []Typed
    BY TypedInit, TypedStep, PTL DEF Spec
<1> QED
    BY <1>1, <1>2, <1>3, <1>4, PTL DEF Spec
=============================================================================
