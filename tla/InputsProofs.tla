---------------------------- MODULE InputsProofs ----------------------------
(***************************************************************************)
(* Files and readings together: for every machine a site may describe,      *)
(* however its files are edited, garbled and reloaded and whatever of its   *)
(* sources answers, what is loaded and what is decided is of the right      *)
(* kind, the last sound file wins, every deadline reads back, no file that  *)
(* is rejected and no source that is lost makes a sleep due, and a service  *)
(* read as not in use is not in use.                                        *)
(*                                                                          *)
(* IInv is small: the layers in force are files the site may have, and what *)
(* is loaded is what they load to.  The rest is ConfigProofs on what Load   *)
(* gives, and PolicyLemmas on what is decided from it.  UseInv ties what is *)
(* remembered of the service to what the service did.                       *)
(***************************************************************************)
EXTENDS Inputs, ConfigProofs

-----------------------------------------------------------------------------
(* Sums.  SumFunctionOnSet takes the elements of a finite set one by one. *)

AnyOf(s) == CHOOSE x \in s : TRUE

Summand(fun, rest, s) == IF s = {} THEN 0 ELSE fun[AnyOf(s)] + rest[s \ {AnyOf(s)}]

IsSumming(fun, S, sum) == sum = [s \in SUBSET S |-> Summand(fun, sum, s)]

\* Without one of its elements a finite set has one element less.
LEMMA OneLess ==
    ASSUME NEW S, IsFiniteSet(S), NEW s \in SUBSET S, s # {}, NEW n \in Nat,
           Cardinality(s) <= n + 1
    PROVE  /\ AnyOf(s) \in s /\ s \ {AnyOf(s)} \in SUBSET S
           /\ Cardinality(s \ {AnyOf(s)}) <= n
<1>1. IsFiniteSet(s)
    BY FS_Subset
<1>2. AnyOf(s) \in s
    BY DEF AnyOf
<1>3. Cardinality(s) \in Nat
    BY <1>1, FS_CardinalityType
<1>4. Cardinality(s \ {AnyOf(s)}) = Cardinality(s) - 1
    BY <1>1, <1>2, FS_RemoveElement
<1> QED
    BY <1>2, <1>3, <1>4

\* The recursive sum has a value on every subset of a finite set.
LEMMA SummingExists ==
    ASSUME NEW fun, NEW S, IsFiniteSet(S)
    PROVE  \E sum : IsSumming(fun, S, sum)
<1> DEFINE Small(n) == {s \in SUBSET S : Cardinality(s) <= n}
           Part(n, r) == r = [s \in Small(n) |-> Summand(fun, r, s)]
           P == {n \in Nat : \E r : Part(n, r)}
<1>1. 0 \in P
    <2> DEFINE r == [s \in Small(0) |-> 0]
    <2>1. \A s \in Small(0) : s = {}
        <3> SUFFICES ASSUME NEW s \in SUBSET S, Cardinality(s) <= 0 PROVE s = {}
            OBVIOUS
        <3>1. IsFiniteSet(s)
            BY FS_Subset
        <3>2. Cardinality(s) \in Nat
            BY <3>1, FS_CardinalityType
        <3>3. Cardinality(s) = 0
            BY <3>2
        <3> QED
            BY <3>1, <3>3, FS_EmptySet
    <2>2. \A s \in Small(0) : Summand(fun, r, s) = 0
        BY <2>1 DEF Summand
    <2>3. Part(0, r)
        <3> HIDE DEF Small
        <3> QED
            BY <2>2
    <2>4. \E q : Part(0, q)
        <3> HIDE DEF Part, r
        <3> QED
            BY <2>3
    <2> QED
        BY <2>4
<1>2. ASSUME NEW n \in Nat, n \in P PROVE n + 1 \in P
    <2>1. PICK r : Part(n, r)
        BY <1>2
    <2> DEFINE q == [s \in Small(n + 1) |-> Summand(fun, r, s)]
    <2>2. ASSUME NEW s \in Small(n + 1) PROVE Summand(fun, q, s) = Summand(fun, r, s)
        <3>1. CASE s = {}
            BY <3>1 DEF Summand
        <3>2. CASE s # {}
            <4> DEFINE t == s \ {AnyOf(s)}
            <4>1. t \in SUBSET S /\ Cardinality(t) <= n
                BY <1>2, <2>2, <3>2, OneLess
            <4>2. Cardinality(t) \in Nat
                <5>1. IsFiniteSet(t)
                    BY <4>1, FS_Subset
                <5> QED
                    BY <5>1, FS_CardinalityType
            <4>3. t \in Small(n) /\ t \in Small(n + 1)
                <5> HIDE DEF t
                <5> QED
                    BY <4>1, <4>2
            <4> HIDE DEF Small, t
            <4>4. q[t] = Summand(fun, r, t) /\ r[t] = Summand(fun, r, t)
                BY <2>1, <4>3
            <4>5. Summand(fun, q, s) = fun[AnyOf(s)] + q[t]
                <5> HIDE DEF q
                <5> QED
                    BY <3>2 DEF Summand, t
            <4>6. Summand(fun, r, s) = fun[AnyOf(s)] + r[t]
                BY <3>2 DEF Summand, t
            <4> QED
                BY <4>4, <4>5, <4>6
        <3> QED
            BY <3>1, <3>2
    <2>3. Part(n + 1, q)
        <3>1. q = [s \in Small(n + 1) |-> Summand(fun, r, s)]
            OBVIOUS
        <3> HIDE DEF Small, q
        <3> QED
            BY <2>2, <3>1
    <2>4. \E p : Part(n + 1, p)
        <3> HIDE DEF Part, q
        <3> QED
            BY <2>3
    <2> HIDE DEF Part
    <2> QED
        BY <1>2, <2>4
<1> DEFINE N == Cardinality(S)
<1>3. N \in Nat
    BY FS_CardinalityType
<1>4. N \in P
    <2>1. P \in SUBSET Nat
        OBVIOUS
    <2> HIDE DEF P, N
    <2>2. \A i \in 0 .. N : i \in P /\ i # N => i + 1 \in P
        BY <1>2, <1>3
    <2>3. \A i \in 0 .. N : i \in P
        BY <1>1, <1>3, <2>1, <2>2, UpTo
    <2> QED
        BY <1>3, <2>3
<1>5. Small(N) = SUBSET S
    BY FS_Subset
<1>6. PICK r : Part(N, r)
    <2> HIDE DEF Part
    <2> QED
        BY <1>4
<1>7. IsSumming(fun, S, r)
    <2> HIDE DEF Small
    <2> QED
        BY <1>5, <1>6 DEF IsSumming
<1> QED
    BY <1>7

\* A sum of naturals is a natural, and no less than any of them.
LEMMA SumType ==
    ASSUME NEW fun, NEW S, IsFiniteSet(S), \A x \in S : fun[x] \in Nat
    PROVE  /\ SumFunctionOnSet(fun, S) \in Nat
           /\ \A x \in S : fun[x] <= SumFunctionOnSet(fun, S)
<1> DEFINE sum == CHOOSE r : IsSumming(fun, S, r)
           N == Cardinality(S)
           Tops(s) == sum[s] \in Nat /\ \A x \in s : fun[x] <= sum[s]
           P == {n \in Nat : \A s \in SUBSET S : Cardinality(s) <= n => Tops(s)}
<1>1. IsSumming(fun, S, sum)
    BY SummingExists
<1>2. SumFunctionOnSet(fun, S) = sum[S]
    BY Zenon DEF SumFunctionOnSet, FoldFunctionOnSet, MapThenFoldSet, IsSumming, Summand, AnyOf
<1> HIDE DEF sum
<1>3. \A s \in SUBSET S : sum[s] = Summand(fun, sum, s)
    BY <1>1 DEF IsSumming
<1>4. sum[{}] = 0
    <2>1. sum[{}] = Summand(fun, sum, {})
        BY <1>3
    <2>2. Summand(fun, sum, {}) = 0
        BY DEF Summand
    <2> QED
        BY <2>1, <2>2
<1>5. ASSUME NEW s \in SUBSET S, Cardinality(s) <= 0 PROVE Tops(s)
    <2>1. IsFiniteSet(s)
        BY FS_Subset
    <2>2. Cardinality(s) \in Nat
        BY <2>1, FS_CardinalityType
    <2>3. s = {}
        BY <1>5, <2>1, <2>2, FS_EmptySet
    <2>4. sum[s] = 0
        BY <1>4, <2>3, Zenon
    <2> QED
        BY <2>3, <2>4
<1>6. 0 \in P
    BY <1>5
<1>7. ASSUME NEW n \in Nat, n \in P PROVE n + 1 \in P
    <2> SUFFICES ASSUME NEW s \in SUBSET S, Cardinality(s) <= n + 1 PROVE Tops(s)
        OBVIOUS
    <2>1. CASE s = {}
        <3>1. sum[s] = 0
            BY <1>4, <2>1, Zenon
        <3> QED
            BY <2>1, <3>1
    <2>2. CASE s # {}
        <3>1. AnyOf(s) \in s /\ s \ {AnyOf(s)} \in SUBSET S /\ Cardinality(s \ {AnyOf(s)}) <= n
            BY <2>2, OneLess
        <3>2. Tops(s \ {AnyOf(s)}) /\ fun[AnyOf(s)] \in Nat
            BY <1>7, <3>1
        <3>3. sum[s] = fun[AnyOf(s)] + sum[s \ {AnyOf(s)}]
            BY <1>3, <2>2 DEF Summand
        <3>4. \A x \in s : x = AnyOf(s) \/ x \in s \ {AnyOf(s)}
            OBVIOUS
        <3>5. \A x \in s \ {AnyOf(s)} : fun[x] \in Nat
            OBVIOUS
        <3> QED
            BY <3>2, <3>3, <3>4, <3>5
    <2> QED
        BY <2>1, <2>2
<1>8. N \in Nat
    BY FS_CardinalityType
<1>9. N \in P
    <2>1. P \in SUBSET Nat
        OBVIOUS
    <2> HIDE DEF P, N
    <2>2. \A i \in 0 .. N : i \in P /\ i # N => i + 1 \in P
        BY <1>7, <1>8
    <2>3. \A i \in 0 .. N : i \in P
        BY <1>6, <1>8, <2>1, <2>2, UpTo
    <2> QED
        BY <1>8, <2>3
<1> QED
    BY <1>2, <1>8, <1>9

-----------------------------------------------------------------------------
(* What is read. *)

\* What the page of a service is counted to.
LEMMA FetchedTypes ==
    ASSUME NEW page, IsAnswer("service", page)
    PROVE  Fetched(page).count \in Nat /\ Fetched(page).in_flight \in Nat
<1>1. /\ IsFiniteSet(DOMAIN page.rows)
      /\ \A n \in DOMAIN page.rows : page.rows[n] \in Nat \cup {NoValue}
    BY DEF IsAnswer
<1>2. \A names : SumFunctionOnSet(page.rows, {n \in DOMAIN page.rows : page.rows[n] # NoValue}
                                                \cap names) \in Nat
    <2> TAKE names
    <2> DEFINE counted == {n \in DOMAIN page.rows : page.rows[n] # NoValue} \cap names
    <2>1. counted \in SUBSET DOMAIN page.rows /\ \A n \in counted : page.rows[n] \in Nat
        BY <1>1
    <2>2. IsFiniteSet(counted)
        BY <1>1, <2>1, FS_Subset
    <2> HIDE DEF counted
    <2>3. SumFunctionOnSet(page.rows, counted) \in Nat
        BY <2>1, <2>2, SumType
    <2> QED
        BY <2>3 DEF counted
<1>3. Parsed(page).count \in Nat /\ Parsed(page).in_flight \in Nat
    BY <1>2 DEF Parsed
<1>4. \A answers : NoSum(answers).count \in Nat /\ NoSum(answers).in_flight \in Nat
    BY DEF NoSum
<1> QED
    BY <1>3, <1>4 DEF Fetched

SamplerType(t) == [previous : Nat \cup {NoSample}, last_movement : NoSample .. t]

\* What the sampler remembers of a service never dates a movement in the future.
LEMMA SampledTypes ==
    ASSUME NEW t \in Instant, NEW s \in SamplerType(t), NEW service, service.count \in Nat
    PROVE  Sampled(s, service, t) \in SamplerType(t)
<1>1. t \in Nat /\ Sampler0 \in SamplerType(t)
    BY PolicyConstants DEF Instant, SamplerType, Sampler0, NoSample
<1>2. ASSUME NEW p PROVE (IF p THEN t ELSE s.last_movement) \in NoSample .. t
    BY <1>1 DEF SamplerType, NoSample
<1>3. [previous |-> service.count,
       last_movement |-> IF Moved(s, service.count) \/ service.in_flight > 0
                         THEN t ELSE s.last_movement] \in SamplerType(t)
    BY <1>2 DEF SamplerType
<1> QED
    BY <1>1, <1>3 DEF Sampled

\* A source that is lost in part still answers what its source may answer.
LEMMA SeenTypes ==
    ASSUME NEW w, IsWorld(w), NEW gone
    PROVE  /\ \A s \in Seen(w, gone).agents : s.age \in Nat /\ s.idle \in Nat \cup {Unreadable}
           /\ IsAnswer("service", Seen(w, gone).service)
<1>1. IsAnswer("agents", w.agents) /\ IsAnswer("service", w.service)
    BY DEF IsWorld, Source
<1>2. \A s \in w.agents : s.age \in Nat /\ s.idle \in Nat \cup {Unreadable}
    BY <1>1 DEF IsAnswer
<1>3. \A s \in Seen(w, gone).agents : s.age \in Nat /\ s.idle \in Nat \cup {Unreadable}
    <2>1. ASSUME NEW s \in Seen(w, gone).agents
          PROVE  \E a \in w.agents :
                    s.age = a.age /\ s.idle = IF "idle" \in gone THEN Unreadable ELSE a.idle
        <3>1. Seen(w, gone).agents =
                IF "agents" \in gone THEN {} ELSE {Blinded(a, gone) : a \in w.agents}
            BY DEF Seen
        <3>2. PICK a \in w.agents : s = Blinded(a, gone)
            BY <2>1, <3>1
        <3> QED
            BY <3>2 DEF Blinded
    <2> QED
        BY <1>2, <2>1
<1>4. IsAnswer("service", Seen(w, gone).service)
    <2>1. \/ Seen(w, gone).service = w.service
          \/ Seen(w, gone).service = [w.service EXCEPT !.answers = "mute"]
        BY DEF Seen
    <2>2. IsAnswer("service", [w.service EXCEPT !.answers = "mute"])
        BY <1>1 DEF IsAnswer
    <2> QED
        BY <1>1, <2>1, <2>2
<1> QED
    BY <1>3, <1>4

\* What saturating_sub leaves: an instant before boot is boot.
LEMMA LatestOfTwo ==
    ASSUME NEW x \in Int
    PROVE  Latest({0, x}) \in {0, x} /\ Latest({0, x}) >= 0
<1>1. \E d \in {0, x} : \A e \in {0, x} : e <= d
    <2>1. CASE x >= 0
        BY <2>1
    <2>2. CASE x < 0
        BY <2>2
    <2> QED
        BY <2>1, <2>2
<1>2. Latest({0, x}) \in {0, x} /\ \A e \in {0, x} : e <= Latest({0, x})
    BY <1>1 DEF Latest
<1> QED
    BY <1>2

\* The origin of the human clock is an instant that has been, or is not known.
LEMMA HumanTypes ==
    ASSUME NEW w, NEW t \in Instant, NEW min_idle,
           \A s \in w.agents : s.age \in Nat /\ s.idle \in Nat \cup {Unreadable}
    PROVE  Human(w, t, min_idle).origin \in Origin
<1>1. t \in Nat /\ t <= MaxInstant /\ NotYet \in Origin /\ Unreadable \in Origin
    BY PolicyConstants DEF Instant, Origin, NotYet, Unreadable
<1>2. \A r \in Live(w) : r.age \in Nat /\ r.idle \in Nat \cup {Unreadable}
    BY DEF Live, ReportOf
<1>3. ASSUME Live(w) # {} PROVE HumanSeen(w, t, min_idle).origin \in Origin
    <2>1. CASE \E r \in Live(w) : r.idle = Unreadable
        BY <1>1, <2>1 DEF HumanSeen
    <2>2. CASE ~\E r \in Live(w) : r.idle = Unreadable
        <3> DEFINE ages == {r.idle + r.age : r \in Live(w)}
                   idle == Earliest(ages)
        <3>1. ages \in SUBSET Nat /\ ages # {}
            BY <1>2, <1>3, <2>2
        <3>2. idle \in Nat
            <4> HIDE DEF ages
            <4> QED
                BY <3>1, LeastNatural
        <3>3. HumanSeen(w, t, min_idle).origin = Latest({0, t - idle})
            BY <2>2 DEF HumanSeen
        <3> HIDE DEF idle
        <3>4. t - idle \in Int /\ t - idle <= t
            BY <1>1, <3>2
        <3>5. Latest({0, t - idle}) \in {0, t - idle} /\ Latest({0, t - idle}) >= 0
            BY <3>4, LatestOfTwo
        <3> QED
            BY <1>1, <3>3, <3>4, <3>5, PolicyConstants DEF Origin, Unreadable
    <2> QED
        BY <2>1, <2>2
<1>4. CASE Live(w) = {}
    BY <1>1, <1>4 DEF Human, Graphical
<1>5. CASE Live(w) # {}
    BY <1>3, <1>5 DEF Human
<1> QED
    BY <1>4, <1>5

\* A sample has one state for every fact.
LEMMA SampleTypes ==
    ASSUME NEW w, NEW load, NEW s, NEW t, NEW resumed, NEW leased, NEW excluded
    PROVE  Sample(w, load, s, t, resumed, leased, excluded) \in [FactId -> FactState]
<1>1. \A p : YesOrNo(p) \in FactState
    BY DEF YesOrNo, FactState
<1>2. /\ "indeterminate" \in FactState /\ "unavailable" \in FactState
      /\ "false" \in FactState /\ "true" \in FactState
    BY DEF FactState
<1> HIDE DEF FactState
<1>3. \A min_idle : Human(w, t, min_idle).state \in FactState
    BY <1>1, <1>2 DEF Human, HumanSeen, Graphical
<1>4. Remote(w, excluded) \in FactState
    BY <1>1, <1>2, Zenon DEF Remote
<1>5. Inhibited(w) \in FactState
    BY <1>1, <1>2, Zenon DEF Inhibited
<1>6. Media(w) \in FactState
    BY <1>1, <1>2, Zenon DEF Media
<1>7. GameRunning(w) \in FactState
    BY <1>1, <1>2, Zenon DEF GameRunning
<1>8. \A window : Downloading(w, window) \in FactState
    BY <1>1, <1>2, Zenon DEF Downloading
<1>9. \A service, window : ServiceBusy(s, service, t, window) \in FactState
    BY <1>1, <1>2, Zenon DEF ServiceBusy
<1>10. \A game, service : /\ GpuSplit(w, game, service).game \in FactState
                          /\ GpuSplit(w, game, service).other \in FactState
    BY <1>1, <1>2 DEF GpuSplit, GpuVerdict
<1>11. ASSUME NEW game \in FactState, NEW service \in FactState
       PROVE  SampleGiven(game, service, w, load, t, resumed, leased, excluded)
                    \in [FactId -> FactState]
    BY <1>1, <1>2, <1>3, <1>4, <1>5, <1>6, <1>8, <1>10, <1>11, DetectorConstants DEF SampleGiven
<1> QED
    BY <1>2, <1>7, <1>9, <1>11 DEF Sample

-----------------------------------------------------------------------------
(* The inductive invariant. *)

IInv ==
    /\ site \in {Sites[name] : name \in DOMAIN Sites}
    /\ disk \in Seq(Shelf(site)) \ {<<>>}
    /\ layers \in Seq(Shelf(site)) \ {<<>>}
    /\ loaded = Load(layers)
    /\ IsWorld(world)
    /\ now \in Instant
    /\ sampler \in SamplerType(now)

\* What may be assumed of the site of a run.
LEMMA SiteFacts ==
    ASSUME site \in {Sites[name] : name \in DOMAIN Sites}
    PROVE  /\ \A file \in Shelf(site) : IsFile(file)
           /\ site.disk \in Seq(Shelf(site)) \ {<<>>}
           /\ DOMAIN site.files \subseteq DOMAIN site.disk
           /\ \A i \in DOMAIN site.files : site.files[i] \subseteq Shelf(site)
           /\ IsWorld(site.world)
           /\ \A source \in DOMAIN site.answers :
                    \A answer \in site.answers[source] : IsAnswer(source, answer)
           /\ site.now \in Instant
<1>1. IsSite(site)
    BY InputsConstants
<1>2. \A i \in DOMAIN site.files : site.files[i] \subseteq Shelf(site)
    BY DEF Shelf
<1> QED
    BY <1>1, <1>2 DEF IsSite

\* A new answer of one source leaves the others.
LEMMA AnswerTypes ==
    ASSUME NEW w, IsWorld(w), NEW source, NEW answer, IsAnswer(source, answer)
    PROVE  IsWorld([w EXCEPT ![source] = answer])
<1> DEFINE after == [w EXCEPT ![source] = answer]
<1>1. DOMAIN after = DOMAIN w
      /\ \A s \in DOMAIN w : after[s] = IF s = source THEN answer ELSE w[s]
    OBVIOUS
<1> HIDE DEF after
<1>2. DOMAIN w = Source /\ \A s \in Source : IsAnswer(s, w[s])
    BY DEF IsWorld
<1>3. ASSUME NEW s \in Source PROVE IsAnswer(s, after[s])
    <2>1. CASE s = source
        BY <1>1, <1>2, <2>1
    <2>2. CASE s # source
        BY <1>1, <1>2, <2>2
    <2> QED
        BY <2>1, <2>2
<1> QED
    BY <1>1, <1>2, <1>3 DEF IsWorld, after

\* Nor does a service that counts.
LEMMA PageTypes ==
    ASSUME NEW page, IsAnswer("service", page)
    PROVE  /\ \A answers : IsAnswer("service", [page EXCEPT !.answers = answers])
           /\ \A rows : /\ DOMAIN rows = DOMAIN page.rows
                        /\ \A n \in DOMAIN rows : rows[n] \in Nat \cup {NoValue}
                        => IsAnswer("service", [page EXCEPT !.rows = rows])
BY DEF IsAnswer

\* A gauge that moves leaves a page a page.
LEMMA InFlightTypes ==
    ASSUME NEW rows, \A m \in DOMAIN rows : rows[m] \in Nat \cup {NoValue}, NEW n \in Nat
    PROVE  /\ DOMAIN InFlight(rows, n) = DOMAIN rows
           /\ \A m \in DOMAIN rows : InFlight(rows, n)[m] \in Nat \cup {NoValue}
BY DEF InFlight

\* A list of layers with one replaced is a list of layers.
LEMMA ReplacedType ==
    ASSUME NEW S, NEW s \in Seq(S), s # <<>>, NEW i, NEW e \in S
    PROVE  [s EXCEPT ![i] = e] \in Seq(S) /\ [s EXCEPT ![i] = e] # <<>>
<1> DEFINE r == [s EXCEPT ![i] = e]
<1>1. Len(s) \in Nat /\ DOMAIN s = 1 .. Len(s) /\ \A j \in 1 .. Len(s) : s[j] \in S
    BY ElementOfSeq, LenProperties
<1>2. Len(s) # 0
    BY EmptySeq
<1>3. CASE i \in 1 .. Len(s)
    <2>1. r \in Seq(S) /\ Len(r) = Len(s)
        BY <1>3, ExceptSeq
    <2> HIDE DEF r
    <2>2. r # <<>>
        BY <1>2, <2>1, EmptySeq
    <2> QED
        BY <2>1, <2>2 DEF r
<1>4. CASE i \notin 1 .. Len(s)
    <2>1. r = s
        BY <1>1, <1>4
    <2> QED
        BY <2>1
<1> QED
    BY <1>3, <1>4

\* An evaluation leaves the sampler a sampler.
LEMMA SamplerAfterType ==
    ASSUME IsWorld(world), now \in Instant, sampler \in SamplerType(now), NEW load, NEW gone
    PROVE  SamplerAfter(load, Seen(world, gone)) \in SamplerType(now)
<1>1. Fetched(Seen(world, gone).service).count \in Nat
    BY SeenTypes, FetchedTypes
<1> QED
    BY <1>1, SampledTypes DEF SamplerAfter

\* The invariant holds at start.
LEMMA Start == Init => IInv
<1> SUFFICES ASSUME Init PROVE IInv
    OBVIOUS
<1>1. PICK name \in DOMAIN Sites :
        /\ site = Sites[name] /\ disk = site.disk /\ layers = disk /\ loaded = Load(layers)
        /\ world = site.world /\ sampler = Sampler0 /\ now = site.now
    BY DEF Init
<1>2. site \in {Sites[s] : s \in DOMAIN Sites}
    BY <1>1
<1>3. now \in Instant
    BY <1>1, <1>2, SiteFacts
<1>4. sampler \in SamplerType(now)
    BY <1>1, <1>3, PolicyConstants DEF Instant, SamplerType, Sampler0, NoSample
<1> QED
    BY <1>1, <1>2, <1>3, <1>4, SiteFacts DEF IInv

\* Every action keeps the invariant.
LEMMA Step == IInv /\ [Next]_vars => IInv'
<1> SUFFICES ASSUME IInv, [Next]_vars PROVE IInv'
    OBVIOUS
<1>1. /\ site \in {Sites[name] : name \in DOMAIN Sites}
      /\ disk \in Seq(Shelf(site)) \ {<<>>} /\ layers \in Seq(Shelf(site)) \ {<<>>}
      /\ loaded = Load(layers) /\ IsWorld(world) /\ now \in Instant
      /\ sampler \in SamplerType(now)
    BY DEF IInv
<1>2. IsAnswer("service", world.service)
    BY <1>1 DEF IsWorld, Source
<1> DEFINE Same == /\ site' = site /\ disk' = disk /\ layers' = layers /\ loaded' = loaded
                   /\ now' = now /\ sampler' = sampler
<1>3. ASSUME Same, IsWorld(world') PROVE IInv'
    BY <1>1, <1>3 DEF IInv
<1>4. ASSUME NEW page, IsAnswer("service", page), world' = [world EXCEPT !["service"] = page]
      PROVE  IsWorld(world')
    BY <1>1, <1>4, AnswerTypes
<1>5. ASSUME NEW i \in DOMAIN site.files, NEW file \in site.files[i], Edit(i, file) PROVE IInv'
    <2>1. /\ i \in DOMAIN site.disk /\ file \in Shelf(site)
        BY <1>1, <1>5, SiteFacts
    <2>2. disk' = [disk EXCEPT ![i] = file] /\ site' = site /\ layers' = layers
          /\ loaded' = loaded /\ world' = world /\ now' = now /\ sampler' = sampler
        BY <1>5 DEF Edit
    <2>3. disk' \in Seq(Shelf(site)) /\ disk' # <<>>
        BY <1>1, <2>1, <2>2, ReplacedType
    <2> QED
        BY <1>1, <2>2, <2>3 DEF IInv
<1>6. CASE Reload
    <2>1. /\ layers' = disk /\ loaded' = Load(layers') /\ site' = site /\ disk' = disk
          /\ world' = world /\ now' = now /\ sampler' = sampler
        BY <1>6 DEF Reload
    <2> QED
        BY <1>1, <2>1 DEF IInv
<1>7. CASE Sampling
    <2>1. /\ layers' = layers /\ loaded' = loaded /\ site' = site /\ disk' = disk
          /\ world' = world /\ now' = now /\ sampler' = SamplerAfter(loaded, Seen(world, lost))
        BY <1>7 DEF Sampling
    <2>2. SamplerAfter(loaded, Seen(world, lost)) \in SamplerType(now)
        BY <1>1, SamplerAfterType
    <2> QED
        BY <1>1, <2>1, <2>2 DEF IInv
<1>8. ASSUME NEW source \in DOMAIN site.answers, NEW answer \in site.answers[source],
             Answers(source, answer)
      PROVE  IInv'
    <2>1. Same /\ world' = [world EXCEPT ![source] = answer]
        BY <1>8 DEF Answers
    <2>2. IsAnswer(source, answer)
        BY <1>1, <1>8, SiteFacts
    <2>3. IsWorld(world')
        BY <1>1, <2>1, <2>2, AnswerTypes
    <2> QED
        BY <1>3, <2>1, <2>3
<1>9. ASSUME NEW source, Lose(source) \/ Regain(source) PROVE IInv'
    BY <1>1, <1>3, <1>9 DEF Lose, Regain
<1>10. CASE RequestBegins
    <2> DEFINE rows == InFlight(world.service.rows, 1)
               page == [world.service EXCEPT !.rows = rows]
    <2>1. Same /\ world' = [world EXCEPT !["service"] = page]
        BY <1>10 DEF RequestBegins
    <2>2. /\ DOMAIN rows = DOMAIN world.service.rows
          /\ \A n \in DOMAIN rows : rows[n] \in Nat \cup {NoValue}
        BY <1>2, InFlightTypes DEF IsAnswer
    <2>3. IsAnswer("service", page)
        <3> HIDE DEF rows
        <3> QED
            BY <1>2, <2>2, PageTypes
    <2> HIDE DEF page
    <2> QED
        BY <1>3, <1>4, <2>1, <2>3
<1>11. CASE RequestEnds
    <2> DEFINE idle == InFlight(world.service.rows, 0)
               rows == [idle EXCEPT !["served"] = @ + 1]
               page == [world.service EXCEPT !.rows = rows]
    <2>1. Same /\ world' = [world EXCEPT !["service"] = page]
        BY <1>11 DEF RequestEnds
    <2>2. /\ DOMAIN idle = DOMAIN world.service.rows
          /\ \A n \in DOMAIN idle : idle[n] \in Nat \cup {NoValue}
        BY <1>2, InFlightTypes DEF IsAnswer
    <2>3. /\ DOMAIN rows = DOMAIN world.service.rows
          /\ \A n \in DOMAIN rows : rows[n] \in Nat \cup {NoValue}
        <3> HIDE DEF idle
        <3> QED
            BY <2>2 DEF NoValue
    <2>4. IsAnswer("service", page)
        <3> HIDE DEF rows
        <3> QED
            BY <1>2, <2>3, PageTypes
    <2> HIDE DEF page
    <2> QED
        BY <1>3, <1>4, <2>1, <2>4
<1>12. CASE ServiceStops
    <2> DEFINE page == [world.service EXCEPT !.answers = "refused"]
    <2>1. Same /\ world' = [world EXCEPT !["service"] = page]
        BY <1>12 DEF ServiceStops
    <2>2. IsAnswer("service", page)
        BY <1>2, PageTypes
    <2> HIDE DEF page
    <2> QED
        BY <1>3, <1>4, <2>1, <2>2
<1>13. CASE ServiceStarts
    <2> DEFINE page == [site.world.service EXCEPT !.answers = "page"]
    <2>1. Same /\ world' = [world EXCEPT !["service"] = page]
        BY <1>13 DEF ServiceStarts
    <2>2. IsAnswer("service", site.world.service)
        BY <1>1, SiteFacts DEF IsWorld, Source
    <2>3. IsAnswer("service", page)
        BY <2>2, PageTypes
    <2> HIDE DEF page
    <2> QED
        BY <1>3, <1>4, <2>1, <2>3
<1>14. ASSUME NEW secs \in Steps, TimePasses(secs) PROVE IInv'
    <2>1. /\ layers' = layers /\ loaded' = loaded /\ site' = site /\ disk' = disk
          /\ world' = world /\ sampler' = sampler /\ now' = now + secs /\ now + secs <= MaxTime
        BY <1>14 DEF TimePasses
    <2>2. secs \in Nat /\ MaxTime \in Nat /\ MaxTime <= MaxInstant /\ now \in Nat
        BY <1>1, <1>14, InputsConstants, PolicyConstants DEF Instant
    <2>3. now' \in Instant /\ NoSample .. now \subseteq NoSample .. now'
        BY <2>1, <2>2, PolicyConstants DEF Instant, NoSample
    <2>4. sampler' \in SamplerType(now')
        BY <1>1, <2>1, <2>3 DEF SamplerType
    <2> QED
        BY <1>1, <2>1, <2>3, <2>4 DEF IInv
<1>15. CASE UNCHANGED vars
    BY <1>1, <1>3, <1>15 DEF vars
<1> QED
    BY <1>5, <1>6, <1>7, <1>8, <1>9, <1>10, <1>11, <1>12, <1>13, <1>14, <1>15 DEF Next

\* The layers in force are files of the site, what is loaded is what they load to,
\* the machine answers what it may answer, and the sampler lies in the past.
LEMMA Invariance == Spec => []IInv
BY Start, Step, PTL DEF Spec

-----------------------------------------------------------------------------
(* The service that is watched. *)

\* Where a service shows its work: its page keeps its form, a request in progress
\* stands in it, and a sum equal to the one last sampled is a sum that was sampled
\* after the last thing the service did.
Serves ==
    LET page == world.service
    IN  /\ page.kinds = site.world.service.kinds
        /\ DOMAIN page.rows = DOMAIN site.world.service.rows
        /\ serving => used = now /\ page.answers = "page" /\ page.rows["processing"] = 1
        /\ ~serving /\ page.answers = "page" /\ sampler.previous = Fetched(page).count
            => used <= sampler.last_movement

\* What is inductive about IdleMeansUnused: a movement is never dated before the
\* start, and a service nobody uses was last used then.
UseInv ==
    ShowsItsWork =>
        /\ used \in site.now .. now
        /\ sampler.previous # NoSample => site.now <= sampler.last_movement
        /\ "serve" \notin site.may => ~serving /\ used = site.now
        /\ "serve" \in site.may => Serves

\* A gauge at work that the detector knows for one is work in flight.
LEMMA WorkingShows ==
    ASSUME NEW page, IsAnswer("service", page), page.answers = "page",
           "processing" \in DOMAIN page.rows \cap DOMAIN page.kinds \cap IN_FLIGHT_HINTS,
           page.kinds["processing"] = "gauge", page.rows["processing"] = 1
    PROVE  Fetched(page).in_flight >= 1
<1> DEFINE gauges == {n \in DOMAIN page.kinds : page.kinds[n] = "gauge"}
           names == {n \in DOMAIN page.rows : page.rows[n] # NoValue}
                        \cap (gauges \cap IN_FLIGHT_HINTS)
<1>1. /\ IsFiniteSet(DOMAIN page.rows)
      /\ \A n \in DOMAIN page.rows : page.rows[n] \in Nat \cup {NoValue}
    BY DEF IsAnswer
<1>2. names \in SUBSET DOMAIN page.rows /\ \A n \in names : page.rows[n] \in Nat
    BY <1>1
<1>3. IsFiniteSet(names)
    BY <1>1, <1>2, FS_Subset
<1>4. "processing" \in names
    BY DEF NoValue
<1>5. Fetched(page).in_flight = SumFunctionOnSet(page.rows, names)
    <2>1. Fetched(page) = Parsed(page)
        BY Zenon DEF Fetched
    <2>2. Parsed(page).in_flight = SumFunctionOnSet(page.rows, names)
        BY DEF Parsed
    <2> HIDE DEF names
    <2> QED
        BY <2>1, <2>2
<1> HIDE DEF names
<1>6. SumFunctionOnSet(page.rows, names) \in Nat /\ 1 <= SumFunctionOnSet(page.rows, names)
    BY <1>2, <1>3, <1>4, SumType
<1> QED
    BY <1>5, <1>6

\* What a sample does to the sampler, told apart.
LEMMA SampledIs ==
    ASSUME NEW s, NEW service, NEW t
    PROVE  /\ service.answers = "refused" => Sampled(s, service, t) = Sampler0
           /\ service.answers = "counters"
                => /\ Sampled(s, service, t).previous = service.count
                   /\ Sampled(s, service, t).last_movement
                        = IF Moved(s, service.count) \/ service.in_flight > 0
                          THEN t ELSE s.last_movement
           /\ service.answers \notin {"refused", "counters"} => Sampled(s, service, t) = s
<1>1. service.answers = "refused" => Sampled(s, service, t) = Sampler0
    BY Zenon DEF Sampled
<1>2. service.answers = "counters"
        => Sampled(s, service, t) =
            [previous |-> service.count,
             last_movement |-> IF Moved(s, service.count) \/ service.in_flight > 0
                               THEN t ELSE s.last_movement]
    BY Zenon DEF Sampled
<1>3. service.answers \notin {"refused", "counters"} => Sampled(s, service, t) = s
    BY Zenon DEF Sampled
<1> QED
    BY <1>1, <1>2, <1>3

\* Counters are only ever read off a page that is there to be read, and then they
\* are the page's.
LEMMA SeenService ==
    ASSUME NEW w, IsWorld(w), NEW gone, Fetched(Seen(w, gone).service).answers = "counters"
    PROVE  /\ w.service.answers = "page"
           /\ Fetched(Seen(w, gone).service) = Fetched(w.service)
<1> DEFINE mute == [w.service EXCEPT !.answers = "mute"]
<1>1. Seen(w, gone).service = IF "endpoint" \in gone /\ w.service.answers = "page"
                              THEN mute ELSE w.service
    BY DEF Seen
<1>2. ASSUME NEW page, Fetched(page).answers = "counters" PROVE page.answers = "page"
    <2>1. page.answers = "refused" => Fetched(page) = NoSum("refused")
        BY Zenon DEF Fetched
    <2>2. page.answers \notin {"page", "refused"} => Fetched(page) = NoSum("unreadable")
        BY Zenon DEF Fetched
    <2> QED
        BY <1>2, <2>1, <2>2 DEF NoSum
<1>3. mute.answers = "mute"
    <2>1. IsAnswer("service", w.service)
        BY DEF IsWorld, Source
    <2> QED
        BY <2>1 DEF IsAnswer
<1> HIDE DEF mute
<1> QED
    BY <1>1, <1>2, <1>3

\* Where every request shows, a page has the form the site gives it.
LEMMA Shape ==
    ASSUME IInv, UseInv, ShowsItsWork, "serve" \in site.may
    PROVE  /\ IsAnswer("service", world.service) /\ Fetched(world.service).count \in Nat
           /\ world.service.kinds = site.world.service.kinds
           /\ DOMAIN world.service.rows = DOMAIN site.world.service.rows
           /\ "alias" \notin site.may /\ "service" \notin DOMAIN site.answers
           /\ "processing" \in DOMAIN world.service.rows \cap DOMAIN world.service.kinds
                                    \cap IN_FLIGHT_HINTS
           /\ world.service.kinds["processing"] = "gauge"
<1>1. IsAnswer("service", world.service)
    BY DEF IInv, IsWorld, Source
<1>2. Fetched(world.service).count \in Nat
    BY <1>1, FetchedTypes
<1>3. Serves
    BY DEF UseInv
<1> QED
    BY <1>1, <1>2, <1>3 DEF Serves, ShowsItsWork

\* Nothing has been sampled and nothing is used at start.
LEMMA UseStart == Init => UseInv
<1> SUFFICES ASSUME Init, ShowsItsWork PROVE UseInv
    BY DEF UseInv
<1>1. /\ site \in {Sites[name] : name \in DOMAIN Sites} /\ world = site.world
      /\ sampler = Sampler0 /\ now = site.now /\ serving = FALSE /\ used = now
    BY DEF Init
<1>2. now \in Nat /\ IsAnswer("service", world.service)
    BY <1>1, SiteFacts, PolicyConstants DEF Instant, IsWorld, Source
<1>3. Fetched(world.service).count \in Nat
    BY <1>2, FetchedTypes
<1>4. sampler.previous = NoSample /\ NoSample \notin Nat
    BY <1>1 DEF Sampler0, NoSample
<1>5. Serves
    BY <1>1, <1>3, <1>4 DEF Serves
<1> QED
    BY <1>1, <1>2, <1>4, <1>5 DEF UseInv

\* Every action keeps what is known of the service.
LEMMA UseStep == IInv /\ UseInv /\ [Next]_vars => UseInv'
<1> SUFFICES ASSUME IInv, UseInv, [Next]_vars PROVE UseInv'
    OBVIOUS
<1> DEFINE page == world.service
           inUse == "serve" \in site.may
           Settled(m) == m.previous # NoSample => site.now <= m.last_movement
<1>1. /\ IsWorld(world) /\ now \in Instant /\ now \in Nat /\ sampler \in SamplerType(now)
      /\ sampler.last_movement \in Int /\ sampler.last_movement <= now
      /\ site \in {Sites[name] : name \in DOMAIN Sites}
    BY PolicyConstants DEF IInv, Instant, SamplerType, NoSample
<1>2. site.now \in Nat /\ DOMAIN world = Source /\ "service" \in Source
    BY <1>1, SiteFacts, PolicyConstants DEF Instant, IsWorld, Source
<1>3. ASSUME ShowsItsWork
      PROVE  /\ used \in site.now .. now /\ Settled(sampler)
             /\ ~inUse => ~serving /\ used = site.now
             /\ inUse => Serves
    BY <1>3 DEF UseInv
<1>4. ASSUME site' = site, sampler' = sampler, now' = now, serving' = serving, used' = used,
             ShowsItsWork /\ inUse => world'.service = page
      PROVE  UseInv'
    <2>1. CASE ShowsItsWork
        BY <1>3, <1>4, <2>1 DEF UseInv, Serves
    <2>2. CASE ~ShowsItsWork
        BY <1>4, <2>2 DEF UseInv, ShowsItsWork
    <2> QED
        BY <2>1, <2>2
<1>5. ASSUME site' = site, inUse, sampler' = sampler, now' = now, used' \in site.now .. now,
             ShowsItsWork => Serves'
      PROVE  UseInv'
    <2>1. CASE ShowsItsWork
        BY <1>3, <1>5, <2>1 DEF UseInv
    <2>2. CASE ~ShowsItsWork
        BY <1>5, <2>2 DEF UseInv, ShowsItsWork
    <2> QED
        BY <2>1, <2>2
<1>6. ASSUME ShowsItsWork, inUse
      PROVE  /\ IsAnswer("service", page) /\ Fetched(page).count \in Nat
             /\ page.kinds = site.world.service.kinds
             /\ DOMAIN page.rows = DOMAIN site.world.service.rows
             /\ "alias" \notin site.may /\ "service" \notin DOMAIN site.answers
             /\ "processing" \in DOMAIN page.rows
    BY <1>6, Shape
<1>7. ASSUME NEW p, world' = [world EXCEPT !.service = p] PROVE world'.service = p
    BY <1>2, <1>7
<1> HIDE DEF Settled
<1>8. ASSUME \/ \E i \in DOMAIN site.files : \E file \in site.files[i] : Edit(i, file)
             \/ Reload
             \/ \E source \in site.losses : Lose(source) \/ Regain(source)
             \/ UNCHANGED vars
      PROVE  UseInv'
    BY <1>4, <1>8 DEF Edit, Reload, Lose, Regain, vars
<1>9. CASE Sampling
    <2> DEFINE seen == Fetched(Seen(world, lost).service)
    <2>1. site' = site /\ world' = world /\ now' = now /\ serving' = serving /\ used' = used
          /\ sampler' \in {sampler, Sampled(sampler, seen, now)}
        BY <1>9 DEF Sampling, SamplerAfter
    <2>2. CASE sampler' = sampler
        BY <1>4, <2>1, <2>2
    <2>3. CASE sampler' = Sampled(sampler, seen, now) /\ ShowsItsWork
        <3>1. CASE seen.answers = "refused"
            <4>1. sampler' = Sampler0
                BY <2>3, <3>1, SampledIs
            <4>2. sampler'.previous = NoSample /\ NoSample \notin Nat
                BY <4>1 DEF Sampler0, NoSample
            <4>3. inUse => Serves'
                BY <1>3, <1>6, <2>1, <2>3, <4>2 DEF Serves
            <4> QED
                BY <1>3, <2>1, <2>3, <4>2, <4>3 DEF UseInv
        <3>2. CASE seen.answers = "counters"
            <4>1. page.answers = "page" /\ seen = Fetched(page)
                BY <1>1, <3>2, SeenService
            <4>2. /\ sampler'.previous = seen.count
                  /\ \/ sampler'.last_movement = now
                     \/ ~Moved(sampler, seen.count) /\ sampler'.last_movement = sampler.last_movement
                BY <2>3, <3>2, SampledIs
            <4> HIDE DEF seen
            <4>3. site.now <= sampler'.last_movement
                BY <1>1, <1>2, <1>3, <2>3, <4>2 DEF Moved, Settled
            <4>4. ASSUME inUse, ~serving PROVE used <= sampler'.last_movement
                BY <1>1, <1>2, <1>3, <2>3, <4>1, <4>2, <4>4 DEF Moved, Serves
            <4>5. inUse => Serves'
                BY <1>3, <2>1, <2>3, <4>4 DEF Serves
            <4> QED
                BY <1>3, <2>1, <2>3, <4>3, <4>5 DEF UseInv
        <3>3. CASE seen.answers \notin {"refused", "counters"}
            <4>1. sampler' = sampler
                BY <2>3, <3>3, SampledIs
            <4> QED
                BY <1>4, <2>1, <4>1
        <3> QED
            BY <3>1, <3>2, <3>3
    <2>4. CASE ~ShowsItsWork
        BY <2>1, <2>4 DEF UseInv, ShowsItsWork
    <2> QED
        BY <2>1, <2>2, <2>3, <2>4
<1>10. ASSUME NEW source \in DOMAIN site.answers, NEW answer \in site.answers[source],
              Answers(source, answer)
       PROVE  UseInv'
    <2>1. site' = site /\ sampler' = sampler /\ now' = now /\ serving' = serving /\ used' = used
          /\ world' = [world EXCEPT ![source] = answer]
        BY <1>10 DEF Answers
    <2>2. ASSUME ShowsItsWork, inUse PROVE world'.service = page
        <3>1. source # "service"
            BY <1>6, <1>10, <2>2
        <3> QED
            BY <2>1, <3>1
    <2> QED
        BY <1>4, <2>1, <2>2
<1>11. CASE RequestBegins
    <2> DEFINE q == [page EXCEPT !.rows = InFlight(page.rows, 1)]
    <2>1. /\ site' = site /\ sampler' = sampler /\ now' = now /\ used' = now /\ serving' = TRUE
          /\ inUse /\ page.answers = "page" /\ world' = [world EXCEPT !.service = q]
        BY <1>11 DEF RequestBegins
    <2>2. ASSUME ShowsItsWork PROVE Serves'
        <3>1. q.kinds = page.kinds /\ q.answers = page.answers /\ q.rows = InFlight(page.rows, 1)
            BY <1>6, <2>1, <2>2 DEF IsAnswer
        <3>2. DOMAIN q.rows = DOMAIN page.rows /\ q.rows["processing"] = 1
            BY <1>6, <2>1, <2>2, <3>1 DEF InFlight
        <3> HIDE DEF q
        <3>3. world'.service = q
            BY <1>7, <2>1
        <3> QED
            BY <1>6, <2>1, <2>2, <3>1, <3>2, <3>3 DEF Serves
    <2>3. used' \in site.now .. now \/ ~ShowsItsWork
        BY <1>1, <1>2, <1>3, <2>1
    <2> HIDE DEF q
    <2>4. CASE ShowsItsWork
        BY <1>5, <2>1, <2>2, <2>3, <2>4
    <2>5. CASE ~ShowsItsWork
        BY <2>1, <2>5 DEF UseInv, ShowsItsWork
    <2> QED
        BY <2>4, <2>5
<1>12. CASE RequestEnds
    <2> DEFINE idle == InFlight(page.rows, 0)
               rows == [idle EXCEPT !["served"] = @ + 1]
               q == [page EXCEPT !.rows = rows]
    <2>1. /\ site' = site /\ sampler' = sampler /\ now' = now /\ used' = now /\ serving' = FALSE
          /\ serving /\ world' = [world EXCEPT !.service = q] /\ ~ComesBack(q)
        BY <1>12 DEF RequestEnds
    <2>2. ASSUME ShowsItsWork PROVE inUse /\ Serves'
        <3>1. inUse
            BY <1>3, <2>1, <2>2
        <3>2. q.kinds = page.kinds /\ q.answers = page.answers /\ DOMAIN q.rows = DOMAIN page.rows
            BY <1>6, <2>2, <3>1 DEF IsAnswer, InFlight
        <3> HIDE DEF q
        <3>3. world'.service = q
            BY <1>7, <2>1
        <3>4. Fetched(q).count # sampler.previous
            BY <1>6, <2>1, <2>2, <3>1 DEF ComesBack
        <3> QED
            BY <1>6, <2>1, <2>2, <3>1, <3>2, <3>3, <3>4 DEF Serves
    <2> HIDE DEF q
    <2>3. CASE ShowsItsWork
        <3>1. used' \in site.now .. now
            BY <1>1, <1>2, <1>3, <2>1, <2>3
        <3> QED
            BY <1>5, <2>1, <2>2, <2>3, <3>1
    <2>4. CASE ~ShowsItsWork
        BY <2>1, <2>4 DEF UseInv, ShowsItsWork
    <2> QED
        BY <2>3, <2>4
<1>13. CASE ServiceStops
    <2> DEFINE q == [page EXCEPT !.answers = "refused"]
    <2>1. /\ site' = site /\ sampler' = sampler /\ now' = now /\ used' = used /\ serving' = FALSE
          /\ inUse /\ world' = [world EXCEPT !.service = q]
        BY <1>13 DEF ServiceStops
    <2>2. ASSUME ShowsItsWork PROVE Serves'
        <3>1. q.kinds = page.kinds /\ q.answers = "refused" /\ q.rows = page.rows
            BY <1>6, <2>1, <2>2 DEF IsAnswer
        <3> HIDE DEF q
        <3>2. world'.service = q
            BY <1>7, <2>1
        <3> QED
            BY <1>6, <2>1, <2>2, <3>1, <3>2 DEF Serves
    <2> HIDE DEF q
    <2>3. CASE ShowsItsWork
        BY <1>3, <1>5, <2>1, <2>2, <2>3
    <2>4. CASE ~ShowsItsWork
        BY <2>1, <2>4 DEF UseInv, ShowsItsWork
    <2> QED
        BY <2>3, <2>4
<1>14. CASE ServiceStarts
    <2> DEFINE q == [site.world.service EXCEPT !.answers = "page"]
    <2>1. /\ site' = site /\ sampler' = sampler /\ now' = now /\ used' = used /\ serving' = serving
          /\ inUse /\ world' = [world EXCEPT !.service = q] /\ page.answers = "refused"
          /\ ~ComesBack(q) \/ used <= sampler.last_movement
        BY <1>14 DEF ServiceStarts
    <2>2. ASSUME ShowsItsWork PROVE Serves'
        <3>1. q.kinds = site.world.service.kinds /\ DOMAIN q.rows = DOMAIN site.world.service.rows
            <4>1. IsAnswer("service", site.world.service)
                BY <1>1, SiteFacts DEF IsWorld, Source
            <4> QED
                BY <4>1 DEF IsAnswer
        <3> HIDE DEF q
        <3>2. world'.service = q
            BY <1>7, <2>1
        <3>3. ~serving
            BY <1>3, <2>1, <2>2 DEF Serves
        <3>4. sampler.previous = Fetched(q).count => used <= sampler.last_movement
            BY <1>6, <2>1, <2>2 DEF ComesBack
        <3> QED
            BY <2>1, <3>1, <3>2, <3>3, <3>4 DEF Serves
    <2> HIDE DEF q
    <2>3. CASE ShowsItsWork
        BY <1>3, <1>5, <2>1, <2>2, <2>3
    <2>4. CASE ~ShowsItsWork
        BY <2>1, <2>4 DEF UseInv, ShowsItsWork
    <2> QED
        BY <2>3, <2>4
<1>15. ASSUME NEW secs \in Steps, TimePasses(secs) PROVE UseInv'
    <2>1. /\ site' = site /\ sampler' = sampler /\ now' = now + secs /\ serving' = serving
          /\ used' = (IF serving THEN now' ELSE used) /\ world' = world
        BY <1>15 DEF TimePasses
    <2>2. secs \in Nat
        BY <1>15, InputsConstants
    <2>3. CASE ShowsItsWork
        <3>1. used' \in site.now .. now'
            BY <1>1, <1>2, <1>3, <2>1, <2>2, <2>3
        <3>2. inUse => Serves'
            BY <1>3, <2>1, <2>3 DEF Serves
        <3> QED
            BY <1>3, <2>1, <2>3, <3>1, <3>2 DEF UseInv, Settled
    <2>4. CASE ~ShowsItsWork
        BY <2>1, <2>4 DEF UseInv, ShowsItsWork
    <2> QED
        BY <2>3, <2>4
<1> QED
    BY <1>8, <1>9, <1>10, <1>11, <1>12, <1>13, <1>14, <1>15 DEF Next

-----------------------------------------------------------------------------
(* What is decided. *)

\* The argument list of an evaluation, as DecidedOn puts it together.
Asked(load, w) ==
    LET facts == Sample(w, load, SamplerAfter(load, w), now, FALSE, FALSE, {})
    IN  [policy |-> load.policy, facts |-> facts,
         clocks |-> [now |-> now, resume |-> NotYet,
                     human_input |-> Human(w, now, load.policy.min_idle).origin],
         edges |-> Observe(LongTrue, load.policy, facts, now), request |-> NoRequest]

\* An evaluation is one call of resolve_request.
LEMMA DecidedIs ==
    ASSUME NEW load, NEW gone
    PROVE  Decided(load, gone) = ResolveRequest(Asked(load, Seen(world, gone)))
BY DEF Decided, DecidedOn, DecidedFrom, Asked

\* Whatever is loaded and whatever is lost, the engine can work with it.
LEMMA AskedTypes ==
    ASSUME IsWorld(world), now \in Instant, NEW load, load.policy \in PolicyType, NEW gone
    PROVE  Asked(load, Seen(world, gone)) \in Input
<1> DEFINE w == Seen(world, gone)
           facts == Sample(w, load, SamplerAfter(load, w), now, FALSE, FALSE, {})
           human == Human(w, now, load.policy.min_idle).origin
           edges == Observe(LongTrue, load.policy, facts, now)
<1>1. facts \in [FactId -> FactState]
    BY SampleTypes
<1>2. human \in Origin
    BY SeenTypes, HumanTypes
<1>3. now \in Int /\ 0 <= now /\ now <= MaxInstant /\ MaxInstant \in Nat
    BY PolicyConstants DEF Instant
<1>4. edges \in Edges
    <2>1. {NoEdge, 0, now} \subseteq NoEdge .. MaxInstant
        BY <1>3 DEF NoEdge
    <2>2. \A id \in BlockId : LongTrue[id] = 0
        BY DEF LongTrue
    <2>3. \A id \in BlockId : edges[id] \in {NoEdge, 0, now}
        <3> HIDE DEF facts
        <3> QED
            BY <2>2 DEF Observe
    <2>4. DOMAIN edges = BlockId /\ edges = [id \in BlockId |-> edges[id]]
        BY DEF Observe
    <2> HIDE DEF edges
    <2> QED
        BY <2>1, <2>3, <2>4 DEF Edges
<1>5. [now |-> now, resume |-> NotYet, human_input |-> human] \in ClockSnapshot
    <2>1. NotYet \in Origin
        BY PolicyConstants DEF Origin, NotYet, Unreadable
    <2> HIDE DEF human
    <2> QED
        BY <1>2, <2>1 DEF ClockSnapshot
<1>6. NoRequest \in Request
    BY DEF NoRequest, Request, Requestable
<1>7. Asked(load, w) = [policy |-> load.policy, facts |-> facts,
                        clocks |-> [now |-> now, resume |-> NotYet, human_input |-> human],
                        edges |-> edges, request |-> NoRequest]
    BY DEF Asked
<1> HIDE DEF facts, human, edges, w
<1>8. Asked(load, w) \in Input
    BY <1>1, <1>4, <1>5, <1>6, <1>7 DEF Input
<1> QED
    BY <1>8 DEF w

\* What is loaded has the type of what Load gives.
LEMMA LoadedTypes ==
    ASSUME IInv
    PROVE  /\ loaded.policy \in PolicyType
           /\ loaded.policy.min_idle \in 0 .. MaxSecs
           /\ loaded.idle_window \in 0 .. MaxSecs
           /\ loaded.window \in 0 .. MaxSecs
           /\ \A b \in loaded.policy.blocks, a \in Actions :
                    b.timeouts[a] \in {Silent, Never} \cup 0 .. MaxSecs
<1>1. layers \in Seq(Shelf(site)) /\ loaded = Load(layers)
      /\ site \in {Sites[name] : name \in DOMAIN Sites}
    BY DEF IInv
<1>2. \A file \in Shelf(site) : IsFile(file)
    BY <1>1, SiteFacts
<1> QED
    BY <1>1, <1>2, LoadTypes

\* No file, no answer and no loss makes a policy or a decision of the wrong kind:
\* every timeout that is loaded fits, every fact gets a state, and the deadlines
\* are instants or never.
THEOREM TypeCorrect == Spec => []TypeOK
<1>1. ASSUME IInv PROVE TypeOK
    <2>1. Decided(loaded, lost) \in Decision
        <3>1. Asked(loaded, Seen(world, lost)) \in Input
            BY <1>1, LoadedTypes, AskedTypes DEF IInv
        <3> QED
            BY <3>1, DecidedIs, ResolveType
    <2>2. sampler \in [previous : Nat \cup {NoSample}, last_movement : NoSample .. now]
        BY <1>1 DEF IInv, SamplerType
    <2> QED
        BY <1>1, <2>1, <2>2, LoadedTypes DEF TypeOK
<1> QED
    BY <1>1, Invariance, PTL

\* Every deadline that is loaded can be written down and read back, whatever the
\* files say and however often they are edited and reloaded.
THEOREM WhatIsLoadedReadsBack == Spec => []ReadsBack
<1>1. ASSUME IInv PROVE ReadsBack
    BY <1>1, LoadedTypes, RoundTrip DEF ReadsBack
<1> QED
    BY <1>1, Invariance, PTL

\* Every key of every block in force is the one of the last sound file that sets
\* it, for every number of layers and every content.
THEOREM TheLastSoundFileWins == Spec => []LastSoundFileWins
<1>1. ASSUME IInv PROVE LastSoundFileWins
    <2>1. layers \in Seq(Shelf(site)) /\ loaded = Load(layers)
          /\ \A file \in Shelf(site) : IsFile(file)
        BY <1>1, SiteFacts DEF IInv
    <2> DEFINE m == Merged(layers)
               sound == {i \in DOMAIN layers : ~Dropped(layers[i])}
    <2>2. \A path \in DOMAIN m : IsBlock(path) =>
            /\ BuildBlock(path, m[path]) \in Block
            /\ IdOf(BuildBlock(path, m[path])) = path
        BY <2>1, BlockTypes
    <2>3. ASSUME NEW b \in loaded.policy.blocks \ {Fallback}
          PROVE  \E path \in DOMAIN m : IdOf(b) = path /\ b = BuildBlock(path, m[path])
                                        /\ b \in Block
        <3>1. Load(layers).policy.blocks \in {BlocksOf(m), BlocksOf(m) \cup {Fallback}}
            BY LoadedBlocks
        <3>2. b \in BlocksOf(m)
            BY <2>1, <2>3, <3>1
        <3> HIDE DEF m
        <3> QED
            BY <2>2, <3>2 DEF BlocksOf
    <2>4. SUFFICES ASSUME NEW b \in loaded.policy.blocks \ {Fallback}
                   PROVE  LET setting(k) == {i \in sound :
                                                k \in DOMAIN SectionOf(layers[i].tables, IdOf(b))}
                              last(k) == layers[Latest(setting(k))].tables[IdOf(b)][k]
                          IN  /\ \A a \in Actions :
                                  b.timeouts[a] = IF setting(a) = {} THEN Silent
                                                  ELSE ParseValue(last(a))
                              /\ b.enabled = (setting("enabled") # {} => last("enabled"))
                              /\ setting("clock") # {} => b.clock = last("clock")
        BY DEF LastSoundFileWins
    <2>5. PICK path \in DOMAIN m : IdOf(b) = path /\ b = BuildBlock(path, m[path]) /\ b \in Block
        BY <2>3
    <2> DEFINE setting(k) == {i \in sound : k \in DOMAIN SectionOf(layers[i].tables, path)}
               last(k) == layers[Latest(setting(k))].tables[path][k]
               section == m[path]
    <2>6. \A k : /\ k \in DOMAIN section <=> setting(k) # {}
                 /\ setting(k) # {} => section[k] = last(k)
        <3> TAKE k
        <3>1. setting(k) = Setters(layers, path, k)
            BY DEF Setters
        <3>2. SectionOf(m, path) = section
            BY DEF SectionOf
        <3>3. /\ k \in DOMAIN SectionOf(m, path) <=> setting(k) # {}
              /\ setting(k) # {} => SectionOf(m, path)[k]
                                    = SectionOf(layers[Latest(setting(k))].tables, path)[k]
            <4>1. layers \in Seq(Shelf(site))
                BY <2>1
            <4>2. /\ k \in DOMAIN SectionOf(m, path) <=> Setters(layers, path, k) # {}
                  /\ Setters(layers, path, k) # {}
                        => SectionOf(m, path)[k]
                            = SectionOf(layers[Latest(Setters(layers, path, k))].tables, path)[k]
                BY <4>1, MergedKeys
            <4> HIDE DEF setting, m
            <4> QED
                BY <3>1, <4>2
        <3>4. ASSUME setting(k) # {}
              PROVE  SectionOf(layers[Latest(setting(k))].tables, path)[k] = last(k)
            <4>1. Len(layers) \in Nat /\ DOMAIN layers = 1 .. Len(layers)
                BY <2>1, SeqMonotonic
            <4>2. setting(k) \in SUBSET (0 .. Len(layers))
                BY <4>1
            <4> DEFINE set == setting(k)
            <4>3. set \in SUBSET (0 .. Len(layers)) /\ set # {}
                BY <3>4, <4>2
            <4>4. Latest(set) \in set
                <5> HIDE DEF set
                <5> QED
                    BY <4>1, <4>3, GreatestBounded
            <4> DEFINE j == Latest(set)
            <4>5. k \in DOMAIN SectionOf(layers[j].tables, path)
                <5> HIDE DEF j
                <5> QED
                    BY <4>4 DEF j
            <4> HIDE DEF j
            <4>6. path \in DOMAIN layers[j].tables
                BY <4>5, NoTables DEF SectionOf
            <4>7. SectionOf(layers[j].tables, path)[k] = layers[j].tables[path][k]
                BY <4>6 DEF SectionOf
            <4> QED
                BY <4>7 DEF j
        <3> HIDE DEF setting, last, m
        <3> QED
            BY <3>2, <3>3, <3>4
    <2>7. /\ b.clock = KeyOr(section, "clock", "human_input")
          /\ b.enabled = KeyOr(section, "enabled", TRUE)
          /\ b.timeouts = [a \in Actions |->
                            IF a \in DOMAIN section THEN ParseValue(section[a]) ELSE Silent]
          /\ b.enabled \in BOOLEAN
        <3>1. b.enabled \in BOOLEAN
            BY <2>5 DEF Block
        <3> HIDE DEF section
        <3>2. b = BuildBlock(path, section)
            BY <2>5 DEF section
        <3> QED
            BY <3>1, <3>2 DEF BuildBlock
    <2> HIDE DEF setting, last, section, m, sound
    <2>8. \A a \in Actions : b.timeouts[a] = IF setting(a) = {} THEN Silent ELSE ParseValue(last(a))
        BY <2>6, <2>7
    <2>9. b.enabled = (setting("enabled") # {} => last("enabled"))
        <3>1. CASE setting("enabled") = {}
            <4>1. b.enabled = TRUE
                BY <2>6, <2>7, <3>1 DEF KeyOr
            <4> QED
                BY <3>1, <4>1
        <3>2. CASE setting("enabled") # {}
            <4>1. b.enabled = last("enabled")
                BY <2>6, <2>7, <3>2 DEF KeyOr
            <4>2. last("enabled") \in BOOLEAN
                BY <2>7, <4>1
            <4> QED
                BY <3>2, <4>1, <4>2
        <3> QED
            BY <3>1, <3>2
    <2>10. setting("clock") # {} => b.clock = last("clock")
        BY <2>6, <2>7 DEF KeyOr
    <2> QED
        BY <2>5, <2>8, <2>9, <2>10 DEF setting, last, sound
<1> QED
    BY <1>1, Invariance, PTL

\* Where no ceiling is in force, doubt and faults hold every sleep.
LEMMA HeldByDoubt ==
    ASSUME NEW in \in Input, in.request = NoRequest,
           \A b \in in.policy.blocks : b.kind = "when" => ~b.enabled,
           Doubtful(in) # {} \/ in.policy.faults > 0
    PROVE  SleepDue(ResolveRequest(in)) = {}
<1> SUFFICES ASSUME NEW a \in Actions, IsSleep(a), Due(ResolveRequest(in), a) PROVE FALSE
    BY DEF SleepDue
<1>1. in.request.force # a
    BY DEF NoRequest, Actions
<1>2. \A b \in in.policy.blocks : ~(b.kind = "when" /\ b.enabled /\ b.timeouts[a] # Silent)
    OBVIOUS
<1>3. Never \in Floors(in, a)
    BY DEF IsSleep, VetoedByDoubt, Floors, ImplicitFloors
<1>4. ~(Never <= in.clocks.now)
    BY NeverFacts DEF Input, ClockSnapshot
<1> QED
    BY <1>1, <1>2, <1>3, <1>4, NothingForces

\* A file that is rejected makes no sleep due that was not due before it, whatever
\* floors it takes with it, unless a ceiling asks for the sleep.
THEOREM RejectionIsSafe == Spec => []RejectionNeverCauses
<1>1. ASSUME IInv PROVE RejectionNeverCauses
    <2>1. layers \in Seq(Shelf(site)) /\ IsWorld(world) /\ now \in Instant
          /\ \A file \in Shelf(site) : IsFile(file)
        BY <1>1, SiteFacts DEF IInv
    <2> DEFINE garbled == NoText("garbled")
    <2>2. SUFFICES ASSUME NEW i \in DOMAIN layers,
                          \A b \in Load([layers EXCEPT ![i] = garbled]).policy.blocks :
                                b.kind = "when" => ~b.enabled
                   PROVE  SleepDue(Decided(Load([layers EXCEPT ![i] = garbled]), lost)) = {}
        BY DEF RejectionNeverCauses
    <2> DEFINE after == [layers EXCEPT ![i] = garbled]
               broken == Load(after)
               F == Shelf(site) \cup {garbled}
    <2>3. IsFile(garbled) /\ Dropped(garbled)
        <3>1. Validate(garbled) = {<<"file", "file">>}
            BY DEF Validate, NoText
        <3>2. DOMAIN garbled.tables = {}
            BY NoTables DEF NoText
        <3> QED
            BY <3>1, <3>2, FS_EmptySet DEF Dropped, IsFile
    <2>4. after \in Seq(F) /\ \A file \in F : IsFile(file)
        <3>1. layers \in Seq(F)
            BY <2>1, SeqMonotonic
        <3> HIDE DEF garbled
        <3>2. Len(layers) \in Nat /\ DOMAIN layers = 1 .. Len(layers)
            BY <2>1, SeqMonotonic
        <3>3. after \in Seq(F)
            BY <2>2, <3>1, <3>2, ExceptSeq
        <3> QED
            BY <2>1, <2>3, <3>3
    <2>5. i \in DOMAIN after /\ after[i] = garbled
        BY <2>2
    <2> HIDE DEF garbled, after, F
    <2>6. broken.policy \in PolicyType /\ broken.policy.faults > 0
        BY <2>3, <2>4, <2>5, LoadTypes, FaultCount
    <2>7. \A b \in broken.policy.blocks : b.kind = "when" => ~b.enabled
        BY <2>2 DEF after
    <2> HIDE DEF broken
    <2> DEFINE in == Asked(broken, Seen(world, lost))
    <2>8. in \in Input /\ in.policy = broken.policy /\ in.request = NoRequest
        BY <2>1, <2>6, AskedTypes DEF Asked
    <2> HIDE DEF in
    <2>9. SleepDue(ResolveRequest(in)) = {}
        BY <2>6, <2>7, <2>8, HeldByDoubt
    <2>10. Decided(broken, lost) = ResolveRequest(in)
        BY DecidedIs DEF in
    <2>11. SleepDue(Decided(broken, lost)) = {}
        BY <2>9, <2>10
    <2> QED
        BY <2>11 DEF broken, after
<1> QED
    BY <1>1, Invariance, PTL

\* Through every restart, every lost reading and every edit of the files.
LEMMA UseInvariance == Spec => []UseInv
BY UseStart, UseStep, Invariance, PTL DEF Spec

\* "Not in use" is never said of a service that answers and has done something
\* within the idle window, however it was stopped, started, lost sight of and
\* sampled in between.
THEOREM NotInUseIsTrue == Spec => []IdleMeansUnused
<1>1. ASSUME IInv, UseInv PROVE IdleMeansUnused
    <2> DEFINE page == world.service
               seen == Fetched(Seen(world, lost).service)
               after == SamplerAfter(loaded, Seen(world, lost))
               window == loaded.idle_window
    <2>1. SUFFICES ASSUME ShowsItsWork, "local_service_busy" \in loaded.policy.facts,
                          seen.answers = "counters",
                          ServiceBusy(after, seen, now, window) = "false"
                   PROVE  ~serving /\ now - used >= window
        BY DEF IdleMeansUnused
    <2>2. page.answers = "page" /\ seen = Fetched(page)
        BY <1>1, <2>1, SeenService DEF IInv
    <2>3. IsAnswer("service", page) /\ seen.in_flight \in Nat
        BY <1>1, <2>2, FetchedTypes DEF IInv, IsWorld, Source
    <2>4. /\ now \in Nat /\ window \in Nat /\ site.now \in Nat
          /\ sampler.last_movement \in Int
        BY <1>1, LoadedTypes, SiteFacts, PolicyConstants, ConfigConstants
        DEF IInv, Instant, SamplerType, NoSample
    <2>5. after = Sampled(sampler, seen, now)
        BY <2>1 DEF SamplerAfter
    <2>6. /\ ~(seen.in_flight > 0)
          /\ after.last_movement = IF Moved(sampler, seen.count) THEN now
                                   ELSE sampler.last_movement
          /\ now - after.last_movement >= window
        <3> HIDE DEF seen, after, window
        <3>1. ServiceBusy(after, seen, now, window)
                = YesOrNo(seen.in_flight > 0 \/ now - after.last_movement < window)
            BY <2>1, Zenon DEF ServiceBusy
        <3>2. ~(seen.in_flight > 0 \/ now - after.last_movement < window)
            BY <2>1, <3>1 DEF YesOrNo
        <3>3. after.last_movement = IF Moved(sampler, seen.count) \/ seen.in_flight > 0
                                    THEN now ELSE sampler.last_movement
            BY <2>1, <2>5, SampledIs
        <3> QED
            BY <2>4, <3>2, <3>3
    <2>7. /\ used \in site.now .. now
          /\ sampler.previous # NoSample => site.now <= sampler.last_movement
          /\ "serve" \notin site.may => ~serving /\ used = site.now
          /\ "serve" \in site.may => Serves
        BY <1>1, <2>1 DEF UseInv
    <2> HIDE DEF seen, after, window
    <2>8. ~serving
        <3> SUFFICES ASSUME serving PROVE FALSE
            OBVIOUS
        <3>1. "serve" \in site.may
            BY <2>7
        <3>2. page.rows["processing"] = 1
            BY <2>7, <3>1 DEF Serves
        <3>3. seen.in_flight >= 1
            BY <1>1, <2>1, <2>2, <3>1, <3>2, Shape, WorkingShows
        <3> QED
            BY <2>3, <2>6, <3>3
    <2>9. CASE Moved(sampler, seen.count)
        BY <2>4, <2>6, <2>7, <2>8, <2>9
    <2>10. CASE ~Moved(sampler, seen.count)
        <3>1. sampler.previous # NoSample /\ sampler.previous = seen.count
            BY <2>10 DEF Moved
        <3>2. used <= sampler.last_movement
            BY <2>2, <2>4, <2>7, <2>8, <3>1 DEF Serves
        <3> QED
            BY <2>4, <2>6, <2>7, <2>8, <2>10, <3>2
    <2> QED
        BY <2>9, <2>10
<1> QED
    BY <1>1, Invariance, UseInvariance, PTL

-----------------------------------------------------------------------------
(* Half blind. *)

\* The sessions whose agent still beats.
Beating(w) == {s \in w.agents : s.age <= HEARTBEAT_MAX_AGE}

\* What is live is what the beating agents make of their sessions.
LEMMA LiveIs ==
    ASSUME NEW w, NEW gone
    PROVE  Live(Seen(w, gone)) =
                IF "agents" \in gone THEN {} ELSE {ReportOf(Blinded(s, gone)) : s \in Beating(w)}
<1> DEFINE agents == Seen(w, gone).agents
<1>1. agents = IF "agents" \in gone THEN {} ELSE {Blinded(s, gone) : s \in w.agents}
    BY DEF Seen
<1>2. \A s : Blinded(s, gone).age = s.age
    BY DEF Blinded
<1>3. Live(Seen(w, gone)) = {ReportOf(s) : s \in {a \in agents : a.age <= HEARTBEAT_MAX_AGE}}
    BY DEF Live
<1> HIDE DEF agents
<1>4. CASE "agents" \in gone
    BY <1>1, <1>3, <1>4
<1>5. CASE "agents" \notin gone
    <2>1. \A r : r \in Live(Seen(w, gone))
                    <=> \E a \in agents : a.age <= HEARTBEAT_MAX_AGE /\ r = ReportOf(a)
        BY <1>3
    <2>2. \A r : r \in Live(Seen(w, gone))
                    <=> \E s \in w.agents : s.age <= HEARTBEAT_MAX_AGE
                                            /\ r = ReportOf(Blinded(s, gone))
        <3> TAKE r
        <3>1. \A a : a \in agents <=> \E s \in w.agents : a = Blinded(s, gone)
            BY <1>1, <1>5
        <3>2. ASSUME NEW a \in agents, a.age <= HEARTBEAT_MAX_AGE, r = ReportOf(a)
              PROVE  \E s \in w.agents : s.age <= HEARTBEAT_MAX_AGE
                                         /\ r = ReportOf(Blinded(s, gone))
            <4>1. PICK s \in w.agents : a = Blinded(s, gone)
                BY <3>1, <3>2
            <4> QED
                BY <1>2, <3>2, <4>1
        <3>3. ASSUME NEW s \in w.agents, s.age <= HEARTBEAT_MAX_AGE
              PROVE  Blinded(s, gone) \in agents /\ Blinded(s, gone).age <= HEARTBEAT_MAX_AGE
            BY <1>2, <3>1, <3>3
        <3> QED
            BY <2>1, <3>2, <3>3
    <2>3. \A r : r \in Live(Seen(w, gone))
                    <=> r \in {ReportOf(Blinded(s, gone)) : s \in Beating(w)}
        BY <2>2 DEF Beating
    <2> QED
        BY <1>5, <2>3
<1> QED
    BY <1>4, <1>5

\* What is live where nothing is lost.
LEMMA LiveWhole ==
    ASSUME NEW w, NEW gone
    PROVE  /\ Live(Seen(w, {})) = {ReportOf(Blinded(s, {})) : s \in Beating(w)}
           /\ Live(w) = {ReportOf(s) : s \in Beating(w)}
BY LiveIs DEF Live, Beating

\* The parts of a report that the losses leave alone.
LEMMA ReportIs ==
    ASSUME NEW s, NEW gone
    PROVE  LET r == ReportOf(Blinded(s, gone))
           IN  /\ r.age = s.age
               /\ r.idle = IF s.spoken /\ "report" \notin gone /\ "idle" \notin gone
                           THEN s.idle ELSE Unreadable
               /\ "report" \notin gone => r.holders = ReportOf(Blinded(s, {})).holders
BY DEF ReportOf, Blinded

\* While a fact that asks logind is not in doubt, logind is seen whole.
LEMMA SameLogind ==
    ASSUME NEW w, IsWorld(w), NEW gone, "session" \notin gone,
           \/ Remote(Seen(w, gone), {}) # "indeterminate"
           \/ Inhibited(Seen(w, gone)) # "indeterminate"
    PROVE  /\ Seen(w, gone).logind = Seen(w, {}).logind
           /\ w.logind.answers # "mute"
           /\ Graphical(w) => Graphical(Seen(w, gone))
<1> DEFINE seen == Seen(w, gone).logind
           Nearby(p) == {[s EXCEPT !.remote = s.remote /\ p, !.graphical = s.graphical /\ p] :
                            s \in w.logind.sessions}
           whole(p) == [w.logind EXCEPT !.sessions = Nearby(p)]
<1>1. seen.answers # "mute"
    BY DEF Remote, Inhibited
<1>2. DOMAIN w.logind = {"answers", "sessions", "blocked"}
    BY DEF IsWorld, IsAnswer, Source
<1>3. seen = IF "logind" \in gone /\ w.logind.answers # "absent"
             THEN [w.logind EXCEPT !.answers = "mute"] ELSE whole("session" \notin gone)
    BY DEF Seen
<1>4. Seen(w, {}).logind = whole("session" \notin {})
    BY DEF Seen
<1>5. seen = whole("session" \notin gone)
    <2>1. [w.logind EXCEPT !.answers = "mute"].answers = "mute"
        BY <1>2
    <2> HIDE DEF whole, seen
    <2> QED
        BY <1>1, <1>3, <2>1
<1>6. ("session" \notin gone) = ("session" \notin {})
    OBVIOUS
<1>7. whole("session" \notin gone) = whole("session" \notin {})
    <2> HIDE DEF whole
    <2> QED
        BY <1>6, Zenon
<1>8. seen.answers = w.logind.answers /\ seen.sessions = Nearby("session" \notin gone)
    BY <1>2, <1>5
<1>9. \A s \in w.logind.sessions :
        \E q \in Nearby("session" \notin gone) : s.graphical => q.graphical
    <2> TAKE s \in w.logind.sessions
    <2> DEFINE q == [s EXCEPT !.remote = s.remote /\ "session" \notin gone,
                              !.graphical = s.graphical /\ "session" \notin gone]
    <2>1. DOMAIN s = {"id", "class", "remote", "graphical"}
        BY DEF IsWorld, IsAnswer, Source
    <2>2. q \in Nearby("session" \notin gone) /\ (s.graphical => q.graphical)
        BY <2>1
    <2> HIDE DEF q
    <2> QED
        BY <2>2
<1> HIDE DEF seen, Nearby, whole
<1>10. Graphical(w) => Graphical(Seen(w, gone))
    BY <1>8, <1>9 DEF Graphical, seen
<1> QED
    BY <1>1, <1>4, <1>5, <1>7, <1>8, <1>10 DEF seen

\* Losing the agents, their reports or their seats is doubt about who is there,
\* on a machine with a seat, unless no agent was there to lose.
LEMMA SameSeats ==
    ASSUME NEW w, NEW gone, NEW t, NEW min_idle,
           Human(Seen(w, gone), t, min_idle).state # "indeterminate",
           Live(w) # {} => Graphical(Seen(w, gone))
    PROVE  Beating(w) = {} \/ {"agents", "report", "idle"} \cap gone = {}
<1> DEFINE v == Seen(w, gone)
<1> SUFFICES ASSUME NEW s \in Beating(w) PROVE {"agents", "report", "idle"} \cap gone = {}
    OBVIOUS
<1>1. Graphical(v)
    BY LiveWhole
<1>2. "agents" \notin gone
    <2> SUFFICES ASSUME "agents" \in gone PROVE FALSE
        OBVIOUS
    <2>1. Live(v) = {}
        BY LiveIs
    <2>2. Human(v, t, min_idle) = [state |-> "indeterminate", origin |-> Unreadable]
        BY <1>1, <2>1, Zenon DEF Human
    <2> HIDE DEF v
    <2> QED
        BY <2>2 DEF v
<1>3. ReportOf(Blinded(s, gone)) \in Live(v)
    BY <1>2, LiveIs
<1>4. Human(v, t, min_idle) = HumanSeen(v, t, min_idle)
    <2>1. Live(v) # {}
        BY <1>3
    <2> HIDE DEF v
    <2> QED
        BY <2>1, Zenon DEF Human
<1>5. ASSUME NEW r \in Live(v) PROVE r.idle # Unreadable
    <2> SUFFICES ASSUME r.idle = Unreadable PROVE FALSE
        OBVIOUS
    <2>1. HumanSeen(v, t, min_idle).state = "indeterminate"
        <3> HIDE DEF v
        <3> QED
            BY DEF HumanSeen
    <2> QED
        BY <1>4, <2>1
<1>6. ReportOf(Blinded(s, gone)).idle # Unreadable
    BY <1>3, <1>5
<1> HIDE DEF v
<1> QED
    BY <1>2, <1>6, ReportIs

\* Then who is there, and what is held on the GPU, is read as by who sees everything.
LEMMA SameReports ==
    ASSUME NEW w, NEW gone, NEW t, NEW min_idle,
           Seen(w, gone).logind = Seen(w, {}).logind,
           Beating(w) = {} \/ {"agents", "report", "idle"} \cap gone = {}
    PROVE  /\ Human(Seen(w, gone), t, min_idle) = Human(Seen(w, {}), t, min_idle)
           /\ Reported(Seen(w, gone)) = Reported(Seen(w, {}))
<1> DEFINE v == Seen(w, gone)
           u == Seen(w, {})
           ages(x) == {r.idle + r.age : r \in Live(x)}
           blind(x) == \E r \in Live(x) : r.idle = Unreadable
           holders(x) == {r.holders : r \in Live(x)}
           rv(s) == ReportOf(Blinded(s, gone))
           ru(s) == ReportOf(Blinded(s, {}))
<1>1. /\ Beating(w) # {} => Live(v) = {rv(s) : s \in Beating(w)}
      /\ Live(u) = {ru(s) : s \in Beating(w)}
      /\ Beating(w) = {} => Live(v) = {}
    BY LiveIs
<1>2. ASSUME NEW s \in Beating(w)
      PROVE rv(s).age = ru(s).age /\ rv(s).idle = ru(s).idle /\ rv(s).holders = ru(s).holders
    BY ReportIs
<1> HIDE DEF rv, ru
<1>3. /\ (Live(v) = {}) = (Live(u) = {})
      /\ blind(v) = blind(u)
      /\ ages(v) = ages(u)
      /\ holders(v) = holders(u)
    <2>1. CASE Beating(w) = {}
        <3>1. Live(v) = Live(u)
            BY <1>1, <2>1
        <3> QED
            BY <3>1
    <2>2. CASE Beating(w) # {}
        <3> HIDE DEF v, u
        <3>1. (Live(v) = {}) = (Live(u) = {})
            BY <1>1, <2>2
        <3>2. blind(v) = blind(u)
            BY <1>1, <1>2, <2>2
        <3>3. ages(v) = ages(u)
            BY <1>1, <1>2, <2>2
        <3>4. holders(v) = holders(u)
            BY <1>1, <1>2, <2>2
        <3> QED
            BY <3>1, <3>2, <3>3, <3>4
    <2> QED
        BY <2>1, <2>2
<1>4. Graphical(v) = Graphical(u)
    <2>1. v.logind = u.logind
        OBVIOUS
    <2> HIDE DEF v, u
    <2> QED
        BY <2>1, Zenon DEF Graphical
<1>5. ASSUME NEW x
      PROVE  HumanSeen(x, t, min_idle) =
                IF blind(x) THEN [state |-> "indeterminate", origin |-> Unreadable]
                ELSE [state |-> YesOrNo(Earliest(ages(x)) < min_idle),
                      origin |-> Latest({0, t - Earliest(ages(x))})]
    BY DEF HumanSeen
<1> HIDE DEF v, u, ages, blind, holders
<1>6. HumanSeen(v, t, min_idle) = HumanSeen(u, t, min_idle)
    BY <1>3, <1>5, Zenon
<1>7. Human(v, t, min_idle) = Human(u, t, min_idle)
    BY <1>3, <1>4, <1>6, Zenon DEF Human
<1>8. Reported(v) = Reported(u)
    BY <1>3, Zenon DEF Reported, holders
<1> QED
    BY <1>7, <1>8 DEF v, u

\* So is what is played: a bus that is lost is doubt, unless no agent read one.
LEMMA SameMedia ==
    ASSUME NEW w, IsWorld(w), NEW gone,
           Beating(w) = {} \/ {"agents", "report", "idle"} \cap gone = {},
           Media(Seen(w, gone)) # "indeterminate"
    PROVE  Media(Seen(w, gone)) = Media(Seen(w, {}))
<1> DEFINE v == Seen(w, gone)
           u == Seen(w, {})
           said(x) == {r.media : r \in Live(x)}
           heard(s, g) == ReportOf(Blinded(s, g)).media
           deaf(s) == "mpris" \in gone /\ s.spoken /\ s.bus.answers = "lists"
<1>1. /\ Beating(w) # {} => Live(v) = {ReportOf(Blinded(s, gone)) : s \in Beating(w)}
      /\ Live(u) = {ReportOf(Blinded(s, {})) : s \in Beating(w)}
      /\ Beating(w) = {} => Live(v) = {}
    BY LiveIs
<1>2. ASSUME NEW s \in Beating(w)
      PROVE  s.bus.answers \in {"absent", "mute", "lists"} /\ DOMAIN s.bus = {"answers", "players"}
    BY <1>2 DEF IsWorld, IsAnswer, Source, Beating
<1>3. \A bus : /\ bus.answers = "absent" => MediaState(bus) = "unavailable"
               /\ bus.answers = "mute" => MediaState(bus) = "indeterminate"
               /\ bus.answers = "lists" /\ "error" \in bus.players
                    => MediaState(bus) = "indeterminate"
    BY Zenon DEF MediaState
<1>4. ASSUME NEW s \in Beating(w), "report" \notin gone
      PROVE  /\ deaf(s) => heard(s, gone) = "indeterminate"
             /\ ~deaf(s) => heard(s, gone) = heard(s, {})
    <2>1. \A g : heard(s, g) = IF s.spoken /\ "report" \notin g
                               THEN MediaState(Blinded(s, g).bus) ELSE "unsaid"
        BY DEF ReportOf, Blinded
    <2>2. \A g : Blinded(s, g).bus =
                    IF "mpris" \in g /\ s.bus.answers = "lists"
                    THEN [s.bus EXCEPT !.players = @ \cup {"error"}] ELSE s.bus
        BY DEF Blinded
    <2>3. deaf(s) => MediaState(Blinded(s, gone).bus) = "indeterminate"
        <3> DEFINE bus == [s.bus EXCEPT !.players = @ \cup {"error"}]
        <3>1. s.bus.answers = "lists" => bus.answers = "lists" /\ "error" \in bus.players
            BY <1>2
        <3> HIDE DEF bus
        <3>2. deaf(s) => Blinded(s, gone).bus = bus
            BY <2>2 DEF bus
        <3> QED
            BY <1>3, <3>1, <3>2
    <2> HIDE DEF heard
    <2>4. CASE deaf(s)
        BY <1>4, <2>1, <2>3, <2>4
    <2>5. CASE ~deaf(s)
        <3>1. s.spoken => Blinded(s, gone).bus = s.bus /\ Blinded(s, {}).bus = s.bus
            BY <2>2, <2>5
        <3> QED
            BY <1>4, <2>1, <2>5, <3>1
    <2> QED
        BY <2>4, <2>5
<1>5. ASSUME NEW s \in Beating(w), "report" \notin gone, deaf(s), NEW q \in Beating(w)
      PROVE  heard(q, gone) # "true"
    <2>1. \A g : heard(q, g) = IF q.spoken /\ "report" \notin g
                               THEN MediaState(Blinded(q, g).bus) ELSE "unsaid"
        BY DEF ReportOf, Blinded
    <2>2. CASE deaf(q)
        BY <1>4, <1>5, <2>2
    <2>3. CASE ~deaf(q) /\ q.spoken
        <3>1. q.bus.answers \in {"absent", "mute"} /\ Blinded(q, gone).bus = q.bus
            BY <1>2, <1>5, <2>3 DEF Blinded
        <3>2. heard(q, gone) = MediaState(q.bus)
            BY <1>5, <2>1, <2>3, <3>1
        <3>3. MediaState(q.bus) \in {"unavailable", "indeterminate"}
            BY <1>3, <3>1
        <3> QED
            BY <3>2, <3>3
    <2>4. CASE ~q.spoken
        BY <2>1, <2>4
    <2> QED
        BY <2>2, <2>3, <2>4
<1>6. said(v) = said(u)
    <2>1. CASE Beating(w) = {}
        BY <1>1, <2>1
    <2>2. CASE Beating(w) # {}
        <3>1. "report" \notin gone
            BY <2>2
        <3>2. /\ said(v) = {heard(s, gone) : s \in Beating(w)}
              /\ said(u) = {heard(s, {}) : s \in Beating(w)}
            BY <1>1, <2>2
        <3>3. ASSUME NEW s \in Beating(w) PROVE ~deaf(s)
            <4> SUFFICES ASSUME deaf(s) PROVE FALSE
                OBVIOUS
            <4> HIDE DEF deaf, heard
            <4>1. "indeterminate" \in said(v)
                BY <1>4, <3>1, <3>2
            <4>2. "true" \notin said(v)
                BY <1>5, <3>1, <3>2
            <4>3. Media(v) = "indeterminate"
                <5> HIDE DEF v
                <5> QED
                    BY <4>1, <4>2, Zenon DEF Media
            <4> QED
                BY <4>3
        <3>4. \A s \in Beating(w) : heard(s, gone) = heard(s, {})
            BY <1>4, <3>1, <3>3
        <3> HIDE DEF heard
        <3> QED
            BY <3>2, <3>4
    <2> QED
        BY <2>1, <2>2
<1> HIDE DEF v, u
<1>7. Media(v) = Media(u)
    BY <1>6, Zenon DEF Media
<1> QED
    BY <1>7 DEF v, u

\* A service that is not reached is doubt; else its page is the one it serves.
LEMMA SameService ==
    ASSUME NEW w, IsWorld(w), NEW gone, NEW s, NEW t, NEW window,
           ServiceBusy(s, Fetched(Seen(w, gone).service), t, window) # "indeterminate"
    PROVE  Seen(w, gone).service = Seen(w, {}).service
<1> DEFINE mute == [w.service EXCEPT !.answers = "mute"]
<1>1. Seen(w, {}).service = w.service /\ Seen(w, gone).service \in {mute, w.service}
    BY DEF Seen
<1>2. mute.answers = "mute"
    BY DEF IsWorld, IsAnswer, Source
<1> HIDE DEF mute
<1>3. Fetched(mute) = NoSum("unreadable")
    BY <1>2, Zenon DEF Fetched
<1>4. Fetched(mute).answers = "unreadable"
    BY <1>3 DEF NoSum
<1>5. ServiceBusy(s, Fetched(mute), t, window) = "indeterminate"
    BY <1>4, Zenon DEF ServiceBusy
<1> QED
    BY <1>1, <1>5

\* A process table or a tool that is lost is doubt about both attributions.
LEMMA SameGpu ==
    ASSUME NEW w, IsWorld(w), NEW gone, NEW game, NEW service,
           Reported(Seen(w, gone)) = Reported(Seen(w, {})),
           \/ GpuSplit(Seen(w, gone), game, service).game # "indeterminate"
           \/ GpuSplit(Seen(w, gone), game, service).other # "indeterminate"
    PROVE  GpuSplit(Seen(w, gone), game, service) = GpuSplit(Seen(w, {}), game, service)
<1> DEFINE v == Seen(w, gone)
           u == Seen(w, {})
           spoilt == [w.nvidia EXCEPT !.rows = @ \cup {Garbled}]
<1>1. /\ u.proc = w.proc /\ u.nvidia = w.nvidia
      /\ v.proc \in {{}, w.proc}
      /\ v.nvidia = w.nvidia \/ (v.nvidia = spoilt /\ w.nvidia.ran = "printed")
    BY DEF Seen
<1>2. w.nvidia.ran = "printed" => ReadNvidiaSmi(spoilt).answers = "failed"
    <2>1. DOMAIN w.nvidia = {"ran", "rows"}
        BY DEF IsWorld, IsAnswer, Source
    <2>2. spoilt.ran = w.nvidia.ran /\ Garbled \in spoilt.rows
        BY <2>1
    <2> HIDE DEF spoilt
    <2>3. w.nvidia.ran = "printed"
            => ReadNvidiaSmi(spoilt) = [answers |-> "failed", holders |-> Nothing]
        BY <2>2, Zenon DEF ReadNvidiaSmi
    <2> QED
        BY <2>3
<1> HIDE DEF v, u, spoilt
<1>3. ASSUME v.proc = {} \/ ReadNvidiaSmi(v.nvidia).answers = "failed"
      PROVE  /\ GpuSplit(v, game, service).game = "indeterminate"
             /\ GpuSplit(v, game, service).other = "indeterminate"
    BY <1>3 DEF GpuSplit, GpuVerdict
<1>4. v.proc = u.proc /\ v.nvidia = u.nvidia
    BY <1>1, <1>2, <1>3 DEF v
<1> QED
    BY <1>4, Zenon DEF GpuSplit, v, u

\* What a sample says of each fact that is asked for.
Tells(said, game, service, w, load) ==
    LET on == load.policy.facts
    IN  /\ said = [f \in FactId |-> said[f]]
        /\ \A f \in FactId \ on : said[f] = "unavailable"
        /\ "human_active" \in on
            => said["human_active"] = Human(w, now, load.policy.min_idle).state
        /\ "after_resume" \in on => said["after_resume"] = YesOrNo(FALSE)
        /\ "remote_session" \in on => said["remote_session"] = Remote(w, {})
        /\ "lease_held" \in on => said["lease_held"] = YesOrNo(FALSE)
        /\ "inhibitor_block" \in on => said["inhibitor_block"] = Inhibited(w)
        /\ "media_playing" \in on => said["media_playing"] = Media(w)
        /\ "steam_game_running" \in on => said["steam_game_running"] = game
        /\ "steam_downloading" \in on => said["steam_downloading"] = Downloading(w, load.window)
        /\ "gpu_busy_game" \in on => said["gpu_busy_game"] = GpuSplit(w, game, service).game
        /\ "gpu_busy_other" \in on => said["gpu_busy_other"] = GpuSplit(w, game, service).other
        /\ "local_service_busy" \in on => said["local_service_busy"] = service

\* It reads each from the detector that has the fact's name.
LEMMA SampleIs ==
    ASSUME NEW game, NEW service, NEW w, NEW load
    PROVE  Tells(SampleGiven(game, service, w, load, now, FALSE, FALSE, {}),
                 game, service, w, load)
BY DetectorConstants DEF SampleGiven, Tells

\* A game is seen, or the process table is lost and that is doubt.
LEMMA SameGame ==
    ASSUME NEW w, NEW gone, "homes" \notin gone, GameRunning(Seen(w, gone)) # "indeterminate"
    PROVE  GameRunning(Seen(w, gone)) = GameRunning(Seen(w, {}))
<1> DEFINE v == Seen(w, gone)
           u == Seen(w, {})
<1>1. v.proc \in {{}, w.proc} /\ u.proc = w.proc
    BY DEF Seen
<1>2. HasSteamRoot(v) = HasSteamRoot(u)
    BY Zenon DEF Seen, HasSteamRoot
<1> HIDE DEF v, u
<1>3. v.proc = u.proc
    BY <1>1 DEF GameRunning, v
<1> QED
    BY <1>2, <1>3, Zenon DEF GameRunning, v, u

\* The staging tree and the homes are lost in part or not at all.
LEMMA SameDownload ==
    ASSUME NEW w, NEW gone, {"homes", "staging"} \cap gone = {}, NEW window
    PROVE  Downloading(Seen(w, gone), window) = Downloading(Seen(w, {}), window)
<1> DEFINE v == Seen(w, gone)
           u == Seen(w, {})
<1>1. v.staging = w.staging /\ u.staging = w.staging
    BY DEF Seen
<1>2. "homes" \notin gone
    OBVIOUS
<1>3. HasSteamRoot(v) = HasSteamRoot(u)
    BY <1>2, Zenon DEF Seen, HasSteamRoot
<1> HIDE DEF v, u
<1> QED
    BY <1>1, <1>3, Zenon DEF Downloading, v, u

\* Whoever is in no doubt half blind decides from what who sees everything decides
\* from.
LEMMA SameAsked ==
    ASSUME IsWorld(world), NEW load, load.policy \in PolicyType, NEW gone,
           gone \cap {"staging", "session", "homes"} = {},
           ~Overlooked(load, world),
           Doubtful(Asked(load, Seen(world, gone))) = {}
    PROVE  Asked(load, Seen(world, gone)) = Asked(load, Seen(world, {}))
<1> DEFINE on == load.policy.facts
           min_idle == load.policy.min_idle
           v == Seen(world, gone)
           u == Seen(world, {})
           ifOn(f, state) == IF f \in on THEN state ELSE "unavailable"
           game(x) == ifOn("steam_game_running", GameRunning(x))
           service(x) == ifOn("local_service_busy",
                            ServiceBusy(SamplerAfter(load, x), Fetched(x.service), now,
                                        load.idle_window))
           said(x) == SampleGiven(game(x), service(x), x, load, now, FALSE, FALSE, {})
<1>1. \A x : Sample(x, load, SamplerAfter(load, x), now, FALSE, FALSE, {}) = said(x)
    BY Zenon DEF Sample
<1>2. on \subseteq FactId /\ \A f \in on : said(v)[f] # "indeterminate"
    <2>1. on \subseteq FactId
        BY DEF PolicyType
    <2>2. Asked(load, v).policy = load.policy /\ Asked(load, v).facts = said(v)
        <3> HIDE DEF said, v
        <3> QED
            BY <1>1 DEF Asked
    <2> HIDE DEF said
    <2> QED
        BY <2>1, <2>2 DEF Doubtful
<1>3. "human_active" \in on /\ {"remote_session", "inhibitor_block"} \cap on # {}
      /\ (Live(world) # {} /\ world.logind.answers # "mute" => Graphical(world))
    BY DEF Overlooked
<1> HIDE DEF game, service, v, u
<1>0. \A x : Tells(said(x), game(x), service(x), x, load)
    BY SampleIs
<1> HIDE DEF said
<1>4. v.logind = u.logind /\ (Live(world) # {} => Graphical(v))
    <2>1. \/ Remote(v, {}) # "indeterminate"
          \/ Inhibited(v) # "indeterminate"
        BY <1>2, <1>3, <1>0 DEF Tells
    <2>2. "session" \notin gone
        OBVIOUS
    <2> QED
        BY <1>3, <2>1, <2>2, SameLogind DEF v, u
<1>5. Human(v, now, min_idle) = Human(u, now, min_idle) /\ Reported(v) = Reported(u)
      /\ (Beating(world) = {} \/ {"agents", "report", "idle"} \cap gone = {})
    <2>1. Human(v, now, min_idle).state # "indeterminate"
        BY <1>2, <1>3, <1>0 DEF Tells
    <2>2. Beating(world) = {} \/ {"agents", "report", "idle"} \cap gone = {}
        BY <1>4, <2>1, SameSeats DEF v
    <2> QED
        BY <1>4, <2>2, SameReports DEF v, u
<1>6. "media_playing" \in on => Media(v) = Media(u)
    <2> SUFFICES ASSUME "media_playing" \in on PROVE Media(v) = Media(u)
        OBVIOUS
    <2>1. Media(v) # "indeterminate"
        BY <1>2, <1>0 DEF Tells
    <2> QED
        BY <1>5, <2>1, SameMedia DEF v, u
<1>7. game(v) = game(u)
    <2>1. CASE "steam_game_running" \in on
        <3>1. game(v) # "indeterminate"
            BY <1>2, <2>1, <1>0 DEF Tells
        <3>2. GameRunning(v) # "indeterminate"
            BY <2>1, <3>1 DEF game
        <3>3. GameRunning(v) = GameRunning(u)
            BY <3>2, SameGame DEF v, u
        <3> QED
            BY <3>3 DEF game
    <2>2. CASE "steam_game_running" \notin on
        BY <2>2 DEF game
    <2> QED
        BY <2>1, <2>2
<1>8. SamplerAfter(load, v) = SamplerAfter(load, u) /\ service(v) = service(u)
    <2>1. CASE "local_service_busy" \in on
        <3>1. service(v) # "indeterminate"
            BY <1>2, <2>1, <1>0 DEF Tells
        <3>2. ServiceBusy(SamplerAfter(load, v), Fetched(v.service), now, load.idle_window)
                # "indeterminate"
            BY <2>1, <3>1 DEF service
        <3>3. v.service = u.service
            BY <3>2, SameService DEF v, u
        <3>4. SamplerAfter(load, v) = SamplerAfter(load, u)
            BY <3>3, Zenon DEF SamplerAfter
        <3> QED
            BY <3>3, <3>4, Zenon DEF service
    <2>2. CASE "local_service_busy" \notin on
        BY <2>2 DEF service, SamplerAfter
    <2> QED
        BY <2>1, <2>2
<1>9. Downloading(v, load.window) = Downloading(u, load.window)
    BY SameDownload DEF v, u
<1>10. {"gpu_busy_game", "gpu_busy_other"} \cap on # {}
        => GpuSplit(v, game(v), service(v)) = GpuSplit(u, game(u), service(u))
    <2> SUFFICES ASSUME {"gpu_busy_game", "gpu_busy_other"} \cap on # {}
                 PROVE  GpuSplit(v, game(v), service(v)) = GpuSplit(u, game(u), service(u))
        OBVIOUS
    <2>1. \/ GpuSplit(v, game(v), service(v)).game # "indeterminate"
          \/ GpuSplit(v, game(v), service(v)).other # "indeterminate"
        BY <1>2, <1>0 DEF Tells
    <2>2. GpuSplit(v, game(v), service(v)) = GpuSplit(u, game(v), service(v))
        BY <1>5, <2>1, SameGpu DEF v, u
    <2> QED
        BY <1>7, <1>8, <2>2
<1>11. Remote(v, {}) = Remote(u, {}) /\ Inhibited(v) = Inhibited(u)
    BY <1>4, Zenon DEF Remote, Inhibited
<1>12. said(v) = said(u)
    <2> DEFINE sv == said(v)
               su == said(u)
    <2>1. Tells(sv, game(v), service(v), v, load) /\ Tells(su, game(u), service(u), u, load)
        BY <1>0, Zenon
    <2> HIDE DEF sv, su
    <2>2. /\ sv = [f \in FactId |-> sv[f]] /\ su = [f \in FactId |-> su[f]]
          /\ \A f \in FactId \ on : sv[f] = "unavailable" /\ su[f] = "unavailable"
        BY <2>1 DEF Tells
    <2>3. \A f \in on : sv[f] = su[f]
        <3>1. FactId = {"human_active", "after_resume", "remote_session", "lease_held",
                        "inhibitor_block", "media_playing", "steam_game_running",
                        "steam_downloading", "gpu_busy_game", "gpu_busy_other",
                        "local_service_busy"}
            BY DetectorConstants
        <3>2. /\ "human_active" \in on => sv["human_active"] = su["human_active"]
              /\ "after_resume" \in on => sv["after_resume"] = su["after_resume"]
              /\ "remote_session" \in on => sv["remote_session"] = su["remote_session"]
              /\ "lease_held" \in on => sv["lease_held"] = su["lease_held"]
              /\ "inhibitor_block" \in on => sv["inhibitor_block"] = su["inhibitor_block"]
            BY <1>5, <1>11, <2>1 DEF Tells
        <3>3. /\ "media_playing" \in on => sv["media_playing"] = su["media_playing"]
              /\ "steam_game_running" \in on
                    => sv["steam_game_running"] = su["steam_game_running"]
              /\ "steam_downloading" \in on => sv["steam_downloading"] = su["steam_downloading"]
              /\ "local_service_busy" \in on
                    => sv["local_service_busy"] = su["local_service_busy"]
            BY <1>6, <1>7, <1>8, <1>9, <2>1 DEF Tells
        <3>4. /\ "gpu_busy_game" \in on => sv["gpu_busy_game"] = su["gpu_busy_game"]
              /\ "gpu_busy_other" \in on => sv["gpu_busy_other"] = su["gpu_busy_other"]
            BY <1>10, <2>1 DEF Tells
        <3> HIDE DEF on
        <3> QED
            BY <1>2, <3>1, <3>2, <3>3, <3>4
    <2>4. sv = su
        BY <2>2, <2>3
    <2> QED
        BY <2>4 DEF sv, su
<1> QED
    BY <1>1, <1>5, <1>12, Zenon DEF Asked, v, u

\* Who is in no doubt decides as if everything were seen, whatever was lost whole.
THEOREM NoDoubtNoDifference == Spec => []SureIsRight
<1>1. ASSUME IInv PROVE SureIsRight
    <2> DEFINE seen == Seen(world, lost)
               facts == Sample(seen, loaded, SamplerAfter(loaded, seen), now, FALSE, FALSE, {})
    <2>1. SUFFICES ASSUME lost \cap {"staging", "session", "homes"} = {},
                          ~Overlooked(loaded, world),
                          \A f \in loaded.policy.facts : facts[f] # "indeterminate"
                   PROVE  DecidedFrom(facts, loaded, seen) = Decided(loaded, {})
        BY DEF SureIsRight
    <2>2. loaded.policy \in PolicyType /\ IsWorld(world)
        BY <1>1, LoadedTypes DEF IInv
    <2>3. Doubtful(Asked(loaded, seen)) = {}
        <3>1. Asked(loaded, seen).facts = facts /\ Asked(loaded, seen).policy = loaded.policy
            BY DEF Asked
        <3> HIDE DEF seen, facts
        <3> QED
            BY <2>1, <3>1 DEF Doubtful
    <2>4. Asked(loaded, seen) = Asked(loaded, Seen(world, {}))
        BY <2>1, <2>2, <2>3, SameAsked
    <2>5. DecidedFrom(facts, loaded, seen) = ResolveRequest(Asked(loaded, seen))
        BY DEF DecidedFrom, Asked
    <2> QED
        BY <2>4, <2>5, DecidedIs
<1> QED
    BY <1>1, Invariance, PTL

\* No sleep becomes due because a source went away: what is in doubt holds it, and
\* who is in no doubt decides as if everything were seen.
THEOREM SightLossIsSafe == Spec => []LosingSightNeverCauses
<1>1. ASSUME IInv PROVE LosingSightNeverCauses
    <2>1. SUFFICES ASSUME lost \cap {"staging", "session", "homes"} = {},
                          \A b \in loaded.policy.blocks : b.kind = "when" => ~b.enabled,
                          ~Overlooked(loaded, world)
                   PROVE  SleepDue(Decided(loaded, lost)) \subseteq SleepDue(Decided(loaded, {}))
        BY DEF LosingSightNeverCauses
    <2> DEFINE in == Asked(loaded, Seen(world, lost))
    <2>2. loaded.policy \in PolicyType /\ IsWorld(world) /\ now \in Instant
        BY <1>1, LoadedTypes DEF IInv
    <2>3. in \in Input /\ in.policy = loaded.policy /\ in.request = NoRequest
        BY <2>2, AskedTypes DEF Asked
    <2>4. CASE Doubtful(in) # {}
        <3> HIDE DEF in
        <3>1. SleepDue(ResolveRequest(in)) = {}
            BY <2>1, <2>3, <2>4, HeldByDoubt
        <3> QED
            BY <3>1, DecidedIs DEF in
    <2>5. CASE Doubtful(in) = {}
        <3>1. in = Asked(loaded, Seen(world, {}))
            BY <2>1, <2>2, <2>5, SameAsked
        <3> QED
            BY <3>1, DecidedIs
    <2> QED
        BY <2>4, <2>5
<1> QED
    BY <1>1, Invariance, PTL
=============================================================================
