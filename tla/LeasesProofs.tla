---------------------------- MODULE LeasesProofs ----------------------------
(***************************************************************************)
(* The lease table for every number of names, jobs and seconds: its types,  *)
(* that a refused job holds nothing, that a waiting loop is woken for every *)
(* expiry and every closed descriptor, and that the table implements        *)
(* LeasePromise.                                                            *)
(***************************************************************************)
EXTENDS Leases, TLAPS

-----------------------------------------------------------------------------
(* Types. *)

LEMMA Refusals == Refusal \in CallType /\ NoCall \in CallType
  BY DEF Refusal, NoCall, NoAsk, CallType, AskType

LEMMA ExpiryTypes ==
    ASSUME TypeOK, NEW j \in Jobs
    PROVE  ExpiresOf(j) \in Nat /\ TtlOf(call[j].ask) \in Nat /\ call[j].at \in Nat
  <1>1. call[j].ask \in AskType /\ call[j].at \in Nat
    BY DEF TypeOK, CallType
  <1>2. TtlOf(call[j].ask) \in Nat
    BY <1>1, LeaseConstants DEF AskType, TtlOf
  <1> QED
    BY <1>1, <1>2 DEF ExpiresOf

LEMMA LeaseTypes ==
    ASSUME TypeOK, NEW n \in Names
    PROVE  /\ NoLease \notin LeaseType
           /\ Held(n) => table[n] \in LeaseType
           /\ Held(n) => table[n].job \in Jobs /\ table[n].expires \in Nat
           /\ Held(n) => table[n].job # Nobody
           /\ ~Held(n) => table[n].job = Nobody
  BY LeaseConstants DEF TypeOK, LeaseType, NoLease, Held

LEMMA PokeTypes ==
    ASSUME TypeOK
    PROVE  Poked \in 1 .. WAKE_CAPACITY
  BY LeaseConstants DEF TypeOK, Poked

LEMMA ReapTypes ==
    ASSUME TypeOK, Reap
    PROVE  /\ table' \in [Names -> LeaseType \cup {NoLease}]
           /\ taken' \in [Jobs -> Nat]
           /\ \A j \in Jobs : taken'[j] <= written[j]
  <1>1. table' \in [Names -> LeaseType \cup {NoLease}]
    BY DEF Reap, TypeOK
  <1>2. ASSUME NEW j \in Jobs PROVE taken'[j] \in Nat /\ taken'[j] <= written[j]
    BY <1>2 DEF Reap, TypeOK, Tapped, Unread
  <1>3. taken' \in [Jobs -> Nat]
    BY <1>2 DEF Reap
  <1> QED
    BY <1>1, <1>2, <1>3

LEMMA GrantTypes ==
    ASSUME TypeOK, NEW j \in Jobs, Acceptable(j)
    PROVE  /\ call[j].ask.who \in Names
           /\ Granted(j) \in [Names -> LeaseType \cup {NoLease}]
           /\ [call EXCEPT ![j].stage = "granted"] \in [Jobs -> CallType]
  <1>1. call[j].ask.who \in Names
    BY DEF TypeOK, CallType, AskType, Acceptable, Malformed
  <1>2. [job |-> j, expires |-> ExpiresOf(j)] \in LeaseType
    BY ExpiryTypes DEF LeaseType
  <1>3. Granted(j) \in [Names -> LeaseType \cup {NoLease}]
    BY <1>1, <1>2 DEF Granted, TypeOK
  <1>4. [call EXCEPT ![j].stage = "granted"] \in [Jobs -> CallType]
    BY DEF TypeOK, CallType
  <1> QED
    BY <1>1, <1>3, <1>4

LEMMA ArmTypes ==
    ASSUME TypeOK, LoopArm
    PROVE  timer' \in Nat \cup {NoTimer}
  <1>1. ASSUME NEW at \in Expiries PROVE at \in Nat
    BY <1>1, LeaseTypes DEF Expiries
  <1>2. ASSUME NEW at \in Nat PROVE now + WaitUntil(at) \in Nat
    BY <1>2 DEF WaitUntil, TypeOK
  <1> QED
    BY <1>1, <1>2 DEF LoopArm

\* One step keeps every type.
LEMMA StepTypes ==
    ASSUME TypeOK, [Next]_vars
    PROVE  TypeOK'
  <1> USE LeaseConstants DEF pipes, looping
  <1>1. ASSUME NEW j \in Jobs, NEW ask \in Asks, Ask(j, ask) PROVE TypeOK'
    <2>1. [stage |-> "asking", ask |-> ask, at |-> now] \in CallType
      BY <1>1 DEF TypeOK, CallType
    <2> QED
      BY <1>1, <2>1 DEF Ask, TypeOK
  <1>2. ASSUME NEW j \in Jobs, Grant(j) PROVE TypeOK'
    BY <1>2, GrantTypes, PokeTypes DEF Grant, TypeOK
  <1>3. ASSUME NEW j \in Jobs, GrantUnwatched(j) PROVE TypeOK'
    BY <1>3, GrantTypes, Refusals DEF GrantUnwatched, TypeOK
  <1>4. ASSUME NEW j \in Jobs, Refuse(j) PROVE TypeOK'
    BY <1>4, Refusals DEF Refuse, TypeOK
  <1>5. ASSUME NEW n \in Names, Release(n) PROVE TypeOK'
    BY <1>5, PokeTypes DEF Release, TypeOK
  <1>6. CASE LoopTick
    BY <1>6, ReapTypes DEF LoopTick, TypeOK
  <1>7. CASE Reevaluate
    BY <1>7, ReapTypes DEF Reevaluate, TypeOK
  <1>8. CASE CallerTick
    BY <1>8, ReapTypes DEF CallerTick, TypeOK
  <1>9. CASE LoopUnlock
    BY <1>9 DEF LoopUnlock, TypeOK
  <1>10. CASE LoopArm
    BY <1>10, ArmTypes DEF LoopArm, TypeOK
  <1>11. CASE LoopTimer
    BY <1>11 DEF LoopTimer, TypeOK
  <1>12. CASE LoopWake
    BY <1>12 DEF LoopWake, TypeOK
  <1>13. ASSUME NEW j \in Jobs, Watch(j) PROVE TypeOK'
    BY <1>13, PokeTypes DEF Watch, TypeOK
  <1>14. ASSUME NEW j \in Jobs, HolderStep(j) PROVE TypeOK'
    BY <1>14 DEF HolderStep, Exit, Inherit, HeirCloses, Write, TypeOK
  <1>15. CASE TimePasses
    BY <1>15 DEF TimePasses, TypeOK
  <1>16. CASE Restart
    <2>1. table' \in [Names -> LeaseType \cup {NoLease}]
      BY <1>16 DEF Restart
    <2>2. call' \in [Jobs -> CallType]
      BY <1>16, Refusals DEF Restart, TypeOK
    <2>3. timer' \in Nat \cup {NoTimer} /\ wake' \in 0 .. WAKE_CAPACITY
      BY <1>16 DEF Restart
    <2> QED
      BY <1>16, <2>1, <2>2, <2>3 DEF Restart, TypeOK
  <1>17. CASE UNCHANGED vars
    BY <1>17 DEF vars, TypeOK
  <1> QED
    BY <1>1, <1>2, <1>3, <1>4, <1>5, <1>6, <1>7, <1>8, <1>9, <1>10, <1>11, <1>12,
       <1>13, <1>14, <1>15, <1>16, <1>17 DEF Next, Handler, LoopStep

\* Every reachable state is well typed: the queue of pokes never overflows, the timer
\* is armed or not, and no more bytes are read than were written.
THEOREM TypeCorrect == Spec => []TypeOK
  <1>1. Init => TypeOK
    <2> SUFFICES ASSUME Init PROVE TypeOK
      OBVIOUS
    <2>1. table \in [Names -> LeaseType \cup {NoLease}] /\ call \in [Jobs -> CallType]
      BY Refusals DEF Init
    <2>2. timer \in Nat \cup {NoTimer} /\ wake \in 0 .. WAKE_CAPACITY
      BY LeaseConstants DEF Init
    <2>3. /\ ends \in [Jobs -> 0 .. 2]
          /\ written \in [Jobs -> Nat] /\ taken \in [Jobs -> Nat]
          /\ \A j \in Jobs : taken[j] <= written[j]
      BY DEF Init
    <2> QED
      BY <2>1, <2>2, <2>3 DEF Init, TypeOK
  <1>2. TypeOK /\ [Next]_vars => TypeOK'
    BY StepTypes
  <1> QED
    BY <1>1, <1>2, PTL DEF Spec

-----------------------------------------------------------------------------
(* What the table says of a lease is what its job asked for and was granted.  A *)
(* job asks once, so it stands under one name at most.                          *)

RecordedAt(n, j) ==
    /\ call[j].stage = "granted" /\ call[j].ask.who = n
    /\ table[n].expires = ExpiresOf(j)

Recorded == \A n \in Names : Held(n) => RecordedAt(n, table[n].job)

\* A step that only takes leases away and leaves the calls that were granted alone.
LEMMA RecordedShrinks ==
    ASSUME TypeOK, Recorded,
           \A n \in Names : table'[n] \in {table[n], NoLease},
           \A j \in Jobs : call[j].stage = "granted" => call'[j] = call[j]
    PROVE  Recorded'
  <1> SUFFICES ASSUME NEW n \in Names, Held(n)'
               PROVE  RecordedAt(n, table[n].job)'
    BY DEF Recorded
  <1>1. table'[n] = table[n] /\ Held(n)
    BY DEF Held
  <1>2. table[n].job \in Jobs
    BY <1>1, LeaseTypes
  <1>3. call'[table[n].job] = call[table[n].job]
    BY <1>1, <1>2 DEF Recorded, RecordedAt
  <1> QED
    BY <1>1, <1>3 DEF Recorded, RecordedAt, ExpiresOf

LEMMA ReapShrinks ==
    ASSUME TypeOK, Reap
    PROVE  \A n \in Names : table'[n] \in {table[n], NoLease}
  BY DEF Reap, TypeOK

LEMMA StepRecords ==
    ASSUME TypeOK, Recorded, [Next]_vars
    PROVE  Recorded'
  <1> USE DEF pipes, looping
  <1>1. ASSUME NEW j \in Jobs, NEW ask \in Asks, Ask(j, ask) PROVE Recorded'
    BY <1>1, RecordedShrinks DEF Ask, TypeOK
  <1>2. ASSUME NEW j \in Jobs, Grant(j) PROVE Recorded'
    <2> SUFFICES ASSUME NEW n \in Names, Held(n)'
                 PROVE  RecordedAt(n, table[n].job)'
      BY DEF Recorded
    <2>1. call' = [call EXCEPT ![j].stage = "granted"] /\ call \in [Jobs -> CallType]
      BY <1>2 DEF Grant, TypeOK
    <2>2. /\ call'[j].stage = "granted" /\ call'[j].ask = call[j].ask
          /\ ExpiresOf(j)' = ExpiresOf(j)
      BY <2>1 DEF CallType, ExpiresOf
    <2>3. CASE n = call[j].ask.who
      <3>1. table'[n] = [job |-> j, expires |-> ExpiresOf(j)]
        BY <1>2, <2>3 DEF Grant, Granted, TypeOK
      <3> QED
        BY <2>2, <2>3, <3>1 DEF RecordedAt, ExpiresOf
    <2>4. CASE n # call[j].ask.who
      <3>1. table'[n] = table[n] /\ Held(n)
        BY <1>2, <2>4 DEF Grant, Granted, TypeOK, Held
      <3>2. table[n].job \in Jobs /\ table[n].job # j
        BY <1>2, <2>4, <3>1, LeaseTypes DEF Recorded, RecordedAt, Grant, Acceptable
      <3>3. call'[table[n].job] = call[table[n].job]
        BY <2>1, <3>2
      <3> QED
        BY <3>1, <3>3 DEF Recorded, RecordedAt, ExpiresOf
    <2> QED
      BY <2>3, <2>4
  <1>3. ASSUME NEW j \in Jobs, GrantUnwatched(j) PROVE Recorded'
    <2>1. \A n \in Names : table'[n] \in {table[n], NoLease}
      BY <1>3 DEF GrantUnwatched, Granted, TypeOK
    <2> QED
      BY <1>3, <2>1, RecordedShrinks DEF GrantUnwatched, Acceptable, TypeOK
  <1>4. ASSUME NEW j \in Jobs, Refuse(j) PROVE Recorded'
    BY <1>4, RecordedShrinks DEF Refuse, TypeOK
  <1>5. ASSUME NEW n \in Names, Release(n) PROVE Recorded'
    BY <1>5, RecordedShrinks DEF Release, TypeOK
  <1>6. CASE LoopTick \/ Reevaluate \/ CallerTick
    BY <1>6, ReapShrinks, RecordedShrinks DEF LoopTick, Reevaluate, CallerTick
  <1>7. CASE Restart
    <2>1. \A n \in Names : table'[n] \in {table[n], NoLease}
      BY <1>7 DEF Restart
    <2>2. \A j \in Jobs : call[j].stage = "granted" => call'[j] = call[j]
      BY <1>7 DEF Restart
    <2> QED
      BY <2>1, <2>2, RecordedShrinks
  <1>8. CASE UNCHANGED <<table, call>>
    BY <1>8, RecordedShrinks
  <1>9. ASSUME NEW j \in Jobs, Watch(j) \/ HolderStep(j) PROVE UNCHANGED <<table, call>>
    BY <1>9 DEF Watch, HolderStep, Exit, Inherit, HeirCloses, Write
  <1>10. LoopUnlock \/ LoopArm \/ LoopTimer \/ LoopWake \/ TimePasses \/ UNCHANGED vars
            => UNCHANGED <<table, call>>
    BY DEF LoopUnlock, LoopArm, LoopTimer, LoopWake, TimePasses, vars
  <1> QED
    BY <1>1, <1>2, <1>3, <1>4, <1>5, <1>6, <1>7, <1>8, <1>9, <1>10
    DEF Next, Handler, LoopStep

LEMMA AlwaysRecorded == Spec => [](TypeOK /\ Recorded)
  <1>1. Init => Recorded
    BY DEF Init, Recorded, Held
  <1>2. TypeOK /\ Recorded /\ [Next]_vars => Recorded'
    BY StepRecords
  <1> QED
    BY <1>1, <1>2, TypeCorrect, PTL DEF Spec

LEMMA HoldersHold ==
    ASSUME TypeOK, NEW j \in Jobs, HoldsALease(j)
    PROVE  \E n \in Names : Held(n) /\ table[n].job = j
  BY LeaseTypes, LeaseConstants DEF HoldsALease

\* A job whose call was refused, or still waits, has no lease in the table that would
\* hold the machine awake (acquire_lease when no watcher can be started).
THEOREM RefusedHoldNothing == Spec => []RefusedHoldsNothing
  <1>1. TypeOK /\ Recorded => RefusedHoldsNothing
    BY HoldersHold DEF Recorded, RecordedAt, RefusedHoldsNothing
  <1> QED
    BY <1>1, AlwaysRecorded, PTL

-----------------------------------------------------------------------------
(* A loop that waits is woken. *)

LEMMA ExpiriesShrink ==
    ASSUME TypeOK, \A n \in Names : table'[n] \in {table[n], NoLease}
    PROVE  Expiries' \subseteq Expiries
  BY DEF Expiries, Held

LEMMA StepCovers ==
    ASSUME TypeOK, TimerCoversEveryLease, [Next]_vars
    PROVE  TimerCoversEveryLease'
  <1> USE DEF pipes, looping
  <1> SUFFICES ASSUME loop' = "wait", wake' = 0, NEW at \in Expiries'
               PROVE  timer' # NoTimer /\ (timer' <= at \/ timer' <= now' + 1)
    BY DEF TimerCoversEveryLease
  <1> DEFINE Goal == timer' # NoTimer /\ (timer' <= at \/ timer' <= now' + 1)
  <1>1. CASE /\ \A n \in Names : table'[n] \in {table[n], NoLease}
             /\ UNCHANGED <<loop, wake, timer>> /\ now' \in {now, now + 1}
    <2>1. at \in Expiries /\ loop = "wait" /\ wake = 0
      BY <1>1, ExpiriesShrink
    <2>2. timer # NoTimer /\ (timer <= at \/ timer <= now + 1)
      BY <2>1 DEF TimerCoversEveryLease
    <2>3. timer' = timer /\ timer \in Int /\ now \in Nat /\ (now' = now \/ now' = now + 1)
      BY <1>1 DEF TypeOK, NoTimer
    <2>4. at \in Nat
      BY <2>1, LeaseTypes DEF Expiries
    <2>5. CASE timer <= at
      BY <2>2, <2>3, <2>5
    <2>6. CASE timer <= now + 1
      <3>1. timer <= now' + 1
        BY <2>3, <2>6
      <3> QED
        BY <2>2, <2>3, <3>1
    <2> QED
      BY <2>2, <2>5, <2>6
  <1>2. CASE LoopArm
    <2>1. Expiries' = Expiries /\ now' = now
      BY <1>2 DEF LoopArm, Expiries, Held
    <2>2. PICK first \in Expiries : (\A other \in Expiries : first <= other)
                                        /\ timer' = now + WaitUntil(first)
      BY <1>2, <2>1 DEF LoopArm
    <2>3. first \in Nat /\ at \in Nat /\ first <= at /\ now \in Nat
      BY <2>1, <2>2, LeaseTypes DEF Expiries, TypeOK
    <2> QED
      BY <2>1, <2>2, <2>3 DEF WaitUntil, NoTimer
  <1>3. ASSUME NEW j \in Jobs, Grant(j) PROVE FALSE
    BY <1>3, PokeTypes DEF Grant
  <1>4. ASSUME NEW n \in Names, Release(n) PROVE FALSE
    BY <1>4, PokeTypes DEF Release
  <1>5. ASSUME NEW j \in Jobs, Watch(j) PROVE FALSE
    BY <1>5, PokeTypes DEF Watch
  <1>6. ~LoopTick /\ ~Reevaluate /\ ~LoopUnlock /\ ~LoopTimer /\ ~LoopWake /\ ~Restart
    BY DEF LoopTick, Reevaluate, LoopUnlock, LoopTimer, LoopWake, Restart
  <1>7. CASE CallerTick
    BY <1>1, <1>7, ReapShrinks DEF CallerTick
  <1>8. ASSUME NEW j \in Jobs, GrantUnwatched(j) PROVE Goal
    <2>1. \A n \in Names : table'[n] \in {table[n], NoLease}
      BY <1>8 DEF GrantUnwatched, Granted, TypeOK
    <2> QED
      BY <1>1, <1>8, <2>1 DEF GrantUnwatched
  <1>9. ASSUME NEW j \in Jobs, \/ \E ask \in Asks : Ask(j, ask)
                               \/ Refuse(j) \/ HolderStep(j)
        PROVE Goal
    BY <1>1, <1>9 DEF Ask, Refuse, HolderStep, Exit, Inherit, HeirCloses, Write
  <1>10. CASE TimePasses \/ UNCHANGED vars
    BY <1>1, <1>10 DEF TimePasses, vars
  <1> QED
    BY <1>2, <1>3, <1>4, <1>5, <1>6, <1>7, <1>8, <1>9, <1>10 DEF Next, Handler, LoopStep

\* Nothing but the timer wakes a loop that waits for a lease to expire, and the timer
\* reaches no further than the first expiry or the floor under a wait.
THEOREM TimersCover == Spec => []TimerCoversEveryLease
  <1>1. Init => TimerCoversEveryLease
    BY DEF Init, TimerCoversEveryLease
  <1>2. TypeOK /\ TimerCoversEveryLease /\ [Next]_vars => TimerCoversEveryLease'
    BY StepCovers
  <1> QED
    BY <1>1, <1>2, TypeCorrect, PTL DEF Spec

\* A holder that wrote nothing is left by its watcher only at the end of its
\* descriptor, and then a poke is on its way to the loop until a tick reaps it.
Announced ==
    /\ locked => loop = "tick"
    /\ \A j \in Jobs : HoldsALease(j) /\ written[j] = 0 /\ j \notin parked =>
            ends[j] = 0 /\ (wake > 0 \/ (loop = "tick" /\ ~locked))

LEMMA StillHolds ==
    ASSUME TypeOK, NEW j \in Jobs, HoldsALease(j)',
           \A n \in Names : table'[n] \in {table[n], NoLease}
    PROVE  HoldsALease(j)
  BY LeaseConstants DEF HoldsALease, NoLease

LEMMA ReapedWhenClosed ==
    ASSUME TypeOK, Reap, NEW j \in Jobs, HoldsALease(j)', ends[j] = 0
    PROVE  written[j] # 0
  <1>1. PICK n \in Names : table'[n].job = j
    BY DEF HoldsALease
  <1>2. table'[n] = table[n] /\ ~Dropped(n) /\ Held(n)
    BY <1>1, LeaseConstants DEF Reap, NoLease, Held
  <1>3. Unread(j)
    BY <1>1, <1>2 DEF Dropped, Released
  <1> QED
    BY <1>3 DEF Unread, TypeOK

LEMMA StepAnnounces ==
    ASSUME TypeOK, Announced, [Next]_vars
    PROVE  Announced'
  <1> USE DEF pipes, looping
  <1>1. (locked => loop = "tick")'
    BY DEF Announced, Next, Handler, LoopStep, HolderStep, Ask, Grant, GrantUnwatched, Refuse,
           Release, LoopTick, Reevaluate, LoopUnlock, LoopArm, LoopTimer, LoopWake, CallerTick,
           Watch, Exit, Inherit, HeirCloses, Write, TimePasses, Restart, vars, TypeOK
  <1> SUFFICES ASSUME NEW j \in Jobs, HoldsALease(j)', written'[j] = 0, j \notin parked'
               PROVE  ends'[j] = 0 /\ (wake' > 0 \/ (loop' = "tick" /\ ~locked'))
    BY <1>1 DEF Announced
  <1> DEFINE Goal == ends'[j] = 0 /\ (wake' > 0 \/ (loop' = "tick" /\ ~locked'))
  <1>2. CASE /\ \A n \in Names : table'[n] \in {table[n], NoLease}
             /\ UNCHANGED <<ends, written, parked>>
             /\ \/ UNCHANGED <<locked, loop>> /\ (wake' = wake \/ wake' > 0)
                \/ loop' = "tick" /\ ~locked'
    BY <1>2, StillHolds DEF Announced
  <1>3. CASE Reap /\ UNCHANGED <<ends, written, parked>>
    BY <1>3, ReapShrinks, StillHolds, ReapedWhenClosed DEF Announced
  <1>4. CASE LoopTick \/ Reevaluate \/ CallerTick
    BY <1>3, <1>4 DEF LoopTick, Reevaluate, CallerTick
  <1>5. CASE LoopUnlock
    BY <1>5, StillHolds DEF LoopUnlock, Announced
  <1>6. CASE LoopArm
    BY <1>6, StillHolds DEF LoopArm, Announced
  <1>7. CASE LoopTimer \/ LoopWake
    <2>1. ~locked
      BY <1>7 DEF LoopTimer, LoopWake, Announced
    <2> QED
      BY <1>2, <1>7, <2>1 DEF LoopTimer, LoopWake
  <1>8. ASSUME NEW i \in Jobs, Grant(i) PROVE Goal
    <2>1. j # i
      BY <1>8 DEF Grant
    <2>2. HoldsALease(j)
      <3>1. PICK n \in Names : table'[n].job = j
        BY DEF HoldsALease
      <3>2. table'[n] = table[n]
        BY <1>8, <2>1, <3>1 DEF Grant, Granted, TypeOK
      <3> QED
        BY <3>1, <3>2 DEF HoldsALease
    <2> QED
      BY <1>8, <2>1, <2>2, PokeTypes DEF Grant, Announced, TypeOK
  <1>9. ASSUME NEW i \in Jobs, GrantUnwatched(i) PROVE Goal
    <2>1. \A n \in Names : table'[n] \in {table[n], NoLease}
      BY <1>9 DEF GrantUnwatched, Granted, TypeOK
    <2> QED
      BY <1>2, <1>9, <2>1 DEF GrantUnwatched
  <1>10. ASSUME NEW i \in Jobs, (\E ask \in Asks : Ask(i, ask)) \/ Refuse(i) PROVE Goal
    BY <1>2, <1>10 DEF Ask, Refuse
  <1>11. ASSUME NEW n \in Names, Release(n) PROVE Goal
    BY <1>2, <1>11, PokeTypes DEF Release, TypeOK
  <1>12. ASSUME NEW i \in Jobs, Watch(i) PROVE Goal
    <2>1. HoldsALease(j)
      BY <1>12, StillHolds DEF Watch
    <2>2. j = i => ~Unread(j)
      BY <1>12 DEF Watch, Unread, TypeOK
    <2> QED
      BY <1>12, <2>1, <2>2, PokeTypes DEF Watch, Announced
  <1>13. ASSUME NEW i \in Jobs, HolderStep(i) PROVE Goal
    <2>1. HoldsALease(j) /\ written[j] = 0 /\ j \notin parked
      BY <1>13, StillHolds DEF HolderStep, Exit, Inherit, HeirCloses, Write, TypeOK
    <2>2. ends[j] = 0 /\ (wake > 0 \/ (loop = "tick" /\ ~locked))
      BY <2>1 DEF Announced
    <2>3. ends'[j] = 0 /\ UNCHANGED <<wake, loop, locked>>
      BY <1>13, <2>2 DEF HolderStep, Exit, Inherit, HeirCloses, Write, TypeOK
    <2> QED
      BY <2>2, <2>3
  <1>14. CASE Restart
    BY <1>14, LeaseConstants DEF Restart, HoldsALease, NoLease
  <1>15. CASE TimePasses \/ UNCHANGED vars
    BY <1>2, <1>15 DEF TimePasses, vars
  <1> QED
    BY <1>4, <1>5, <1>6, <1>7, <1>8, <1>9, <1>10, <1>11, <1>12, <1>13, <1>14, <1>15
    DEF Next, Handler, LoopStep

\* The end of a holder is noticed however the exits, the inherited descriptors, the
\* other leases of its name and the ticks of callers fall: while the loop waits with
\* nothing queued, a thread waits for it (watch_until_released).
THEOREM ClosingsNoticed == Spec => []ClosingIsNoticed
  <1>1. Init => Announced
    BY LeaseConstants DEF Init, Announced, HoldsALease, NoLease
  <1>2. TypeOK /\ Announced /\ [Next]_vars => Announced'
    BY StepAnnounces
  <1>3. TypeOK /\ Announced => ClosingIsNoticed
    BY DEF TypeOK, Announced, ClosingIsNoticed
  <1> QED
    BY <1>1, <1>2, <1>3, TypeCorrect, PTL DEF Spec

-----------------------------------------------------------------------------
(* The table implements the promise. *)

Causes    == may \cap {"release", "restart"}
HoldersOf == [n \in Names |-> table[n].job]

\* Steps the promise does not see.
LEMMA UnseenStep ==
    ASSUME TypeOK, UNCHANGED <<may, table, now, ends>>,
           \A j \in Jobs : call'[j] = call[j] \/ (j \notin Served /\ call'[j].stage # "granted")
    PROVE  UNCHANGED Promise!promise
  <1>1. Served' = Served
    BY DEF Served
  <1>2. \A j \in Served : ExpiresOf(j)' = ExpiresOf(j)
    BY DEF Served, ExpiresOf
  <1>3. Over' = Over
    BY <1>1, <1>2 DEF Over
  <1> QED
    BY <1>1, <1>3 DEF Promise!promise

\* Holders go away and time passes: a descriptor that is closed stays closed.
LEMMA EndsStep ==
    ASSUME TypeOK, UNCHANGED <<may, table, call>>, now' \in {now, now + 1},
           \A j \in Jobs : ends[j] = 0 => ends'[j] = 0
    PROVE  Promise!Ends
  <1>1. Served' = Served /\ \A j \in Jobs : ExpiresOf(j)' = ExpiresOf(j)
    BY DEF Served, ExpiresOf
  <1>2. ASSUME NEW j \in Over PROVE j \in Over'
    <2>1. j \in Jobs /\ j \in Served
      BY DEF Over, Served
    <2>2. CASE ends[j] = 0
      BY <1>1, <2>1, <2>2 DEF Over
    <2>3. CASE now >= ExpiresOf(j)
      <3>1. ExpiresOf(j) \in Nat /\ now \in Nat
        BY <2>1, ExpiryTypes DEF TypeOK
      <3>2. now' >= ExpiresOf(j)
        BY <2>3, <3>1
      <3> QED
        BY <1>1, <2>1, <3>2 DEF Over
    <2> QED
      BY <2>2, <2>3 DEF Over
  <1>3. Over' \subseteq Served
    BY <1>1 DEF Over
  <1> QED
    BY <1>1, <1>2, <1>3 DEF Promise!Ends

\* A tick drops leases that are over, and no other.
LEMMA ReapStep ==
    ASSUME TypeOK, Recorded, Reap, UNCHANGED <<may, call, now, ends>>
    PROVE  Promise!Reap
  <1> DEFINE S == {n \in Names : Dropped(n)}
  <1>1. ASSUME NEW n \in S PROVE table[n].job \in Over
    <2>1. Held(n) /\ table[n].job \in Jobs
      BY LeaseTypes DEF Dropped
    <2>2. /\ call[table[n].job].stage = "granted"
          /\ table[n].expires = ExpiresOf(table[n].job)
      BY <2>1 DEF Recorded, RecordedAt
    <2> QED
      BY <2>1, <2>2 DEF Dropped, Released, Over, Served
  <1>2. HoldersOf' = [n \in Names |-> IF n \in S THEN Nobody ELSE HoldersOf[n]]
    BY DEF Reap, HoldersOf, NoLease
  <1>3. Served' = Served /\ \A j \in Jobs : ExpiresOf(j)' = ExpiresOf(j)
    BY DEF Served, ExpiresOf
  <1>4. Over' = Over
    BY <1>3 DEF Over, Served
  <1> QED
    BY <1>1, <1>2, <1>3, <1>4 DEF Promise!Reap, HoldersOf

\* A lease is granted under a name nobody holds, to a job that never had one; the
\* others' stand as they stood.
LEMMA GrantStep ==
    ASSUME TypeOK, NEW j \in Jobs, Grant(j)
    PROVE  Promise!Grant(call[j].ask.who, j)
  <1> DEFINE who == call[j].ask.who
  <1>1. who \in Names /\ HoldersOf[who] = Nobody /\ j \notin Served
    BY GrantTypes, LeaseTypes DEF Grant, Acceptable, HoldersOf, Served
  <1>2. HoldersOf' = [HoldersOf EXCEPT ![who] = j]
    BY <1>1 DEF Grant, Granted, HoldersOf, TypeOK
  <1>3. call' = [call EXCEPT ![j].stage = "granted"] /\ call \in [Jobs -> CallType]
    BY DEF Grant, TypeOK
  <1>4. Served' = Served \cup {j}
    BY <1>3 DEF Served, CallType
  <1>5. ASSUME NEW i \in Jobs, i # j PROVE i \in Over' <=> i \in Over
    <2>1. ends'[i] = ends[i] /\ now' = now
      BY <1>5 DEF Grant, TypeOK
    <2>2. ExpiresOf(i)' = ExpiresOf(i)
      BY <1>3, <1>5 DEF ExpiresOf
    <2> QED
      BY <1>4, <1>5, <2>1, <2>2 DEF Over
  <1>6. Over' \in {Over, Over \cup {j}}
    <2>1. j \notin Over /\ Over \subseteq Jobs /\ Over' \subseteq Jobs
      BY <1>1, <1>4 DEF Over, Served
    <2>2. Over' = Over \/ Over' = Over \cup {j}
      BY <1>5, <2>1
    <2> QED
      BY <2>2
  <1>7. UNCHANGED may
    BY DEF Grant
  <1> QED
    BY <1>1, <1>2, <1>4, <1>6, <1>7 DEF Promise!Grant, HoldersOf

\* A lease nothing can watch is taken out of the table as it was put in.
LEMMA UnwatchedLeavesNoTrace ==
    ASSUME TypeOK, NEW j \in Jobs, GrantUnwatched(j)
    PROVE  UNCHANGED table
  BY GrantTypes DEF GrantUnwatched, Granted, Acceptable, Held, TypeOK

\* Every step of the daemon is a step of the promise, or one it does not see.
LEMMA StepKeeps ==
    ASSUME TypeOK, Recorded, [Next]_vars
    PROVE  [Promise!Next]_(Promise!promise)
  <1> USE DEF pipes, looping
  <1> DEFINE Kept == [Promise!Next]_(Promise!promise)
  <1>1. ASSUME NEW j \in Jobs, (\E ask \in Asks : Ask(j, ask)) \/ Refuse(j) PROVE Kept
    <2>1. \A i \in Jobs :
            call'[i] = call[i] \/ (i \notin Served /\ call'[i].stage # "granted")
      BY <1>1 DEF Ask, Refuse, Refusal, Served, TypeOK
    <2> QED
      BY <1>1, <2>1, UnseenStep DEF Ask, Refuse
  <1>2. ASSUME NEW j \in Jobs, Grant(j) PROVE Kept
    BY <1>2, GrantStep, GrantTypes DEF Promise!Next, Grant
  <1>3. ASSUME NEW j \in Jobs, GrantUnwatched(j) PROVE Kept
    <2>1. \A i \in Jobs :
            call'[i] = call[i] \/ (i \notin Served /\ call'[i].stage # "granted")
      BY <1>3 DEF GrantUnwatched, Acceptable, Refusal, Served, TypeOK
    <2> QED
      BY <1>3, <2>1, UnseenStep, UnwatchedLeavesNoTrace DEF GrantUnwatched
  <1>4. ASSUME NEW n \in Names, Release(n) PROVE Kept
    <2>1. HoldersOf[n] # Nobody /\ "release" \in Causes
      BY <1>4, LeaseTypes DEF Release, HoldersOf, Causes, May
    <2>2. HoldersOf' = [HoldersOf EXCEPT ![n] = Nobody]
      BY <1>4 DEF Release, HoldersOf, NoLease, TypeOK
    <2>3. UNCHANGED <<may, Served, Over>>
      BY <1>4 DEF Release, Served, Over, ExpiresOf
    <2> QED
      BY <2>1, <2>2, <2>3 DEF Promise!Next, Promise!Release, HoldersOf, Causes
  <1>5. CASE LoopTick \/ Reevaluate \/ CallerTick
    BY <1>5, ReapStep DEF LoopTick, Reevaluate, CallerTick, Promise!Next
  <1>6. CASE LoopUnlock \/ LoopArm \/ LoopTimer \/ LoopWake \/ UNCHANGED vars
    BY <1>6, UnseenStep DEF LoopUnlock, LoopArm, LoopTimer, LoopWake, vars
  <1>7. ASSUME NEW j \in Jobs, Watch(j) PROVE Kept
    BY <1>7, UnseenStep DEF Watch
  <1>8. ASSUME NEW j \in Jobs, HolderStep(j) PROVE Kept
    <2>1. \A i \in Jobs : ends[i] = 0 => ends'[i] = 0
      BY <1>8 DEF HolderStep, Exit, Inherit, HeirCloses, Write, TypeOK
    <2>2. UNCHANGED <<may, table, call, now>>
      BY <1>8 DEF HolderStep, Exit, Inherit, HeirCloses, Write
    <2> QED
      BY <2>1, <2>2, EndsStep DEF Promise!Next
  <1>9. CASE TimePasses
    BY <1>9, EndsStep DEF TimePasses, Promise!Next
  <1>10. CASE Restart
    <2>1. \A j \in Jobs : ExpiresOf(j)' = ExpiresOf(j) \/ j \notin Served
      BY <1>10 DEF Restart, ExpiresOf, Served
    <2>2. Served' = Served
      <3>1. \A j \in Jobs : call'[j].stage = "granted" <=> call[j].stage = "granted"
        BY <1>10 DEF Restart, Refusal
      <3> QED
        BY <3>1 DEF Served
    <2>3. Over' = Over
      <3>1. \A j \in Served : ExpiresOf(j)' = ExpiresOf(j)
        BY <2>1 DEF Served
      <3>2. UNCHANGED <<ends, now>>
        BY <1>10 DEF Restart
      <3> QED
        BY <2>2, <3>1, <3>2 DEF Over
    <2>4. HoldersOf' = [n \in Names |-> Nobody] /\ "restart" \in Causes
      BY <1>10 DEF Restart, HoldersOf, NoLease, Causes, May
    <2> QED
      BY <1>10, <2>2, <2>3, <2>4 DEF Restart, Promise!Next, Promise!Crash, HoldersOf, Causes
  <1> QED
    BY <1>1, <1>2, <1>3, <1>4, <1>5, <1>6, <1>7, <1>8, <1>9, <1>10
    DEF Next, Handler, LoopStep

\* The lease table implements LeasePromise, whatever the names, the jobs and the times:
\* one job to a name, no lease ended but by its time, its descriptor, a release or the
\* end of the daemon, and none given twice (Table::acquire, reap and release).
THEOREM PromiseKept == Spec => KeepsThePromise
  <1>1. Init => Promise!Init
    <2> SUFFICES ASSUME Init PROVE Promise!Init
      OBVIOUS
    <2>1. HoldersOf = [n \in Names |-> Nobody]
      BY DEF Init, HoldersOf, NoLease
    <2>2. Served = {} /\ Over = {}
      BY DEF Init, Served, Over, NoCall
    <2> QED
      BY <2>1, <2>2 DEF Promise!Init, HoldersOf
  <1>2. TypeOK /\ Recorded /\ [Next]_vars => [Promise!Next]_(Promise!promise)
    BY StepKeeps
  <1> QED
    BY <1>1, <1>2, AlwaysRecorded, PTL DEF Spec, KeepsThePromise, Promise!Spec
=============================================================================
