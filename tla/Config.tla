------------------------------- MODULE Config -------------------------------
(***************************************************************************)
(* How the files of idlectl become a policy (crates/idlectl-config/src/     *)
(* lib.rs): durations as text, the layers, per-key merging, per-file        *)
(* rejection and the compiled-in fallback.                                  *)
(*                                                                          *)
(* A file is a set of tables, a table a set of keys: "tables" maps a path   *)
(* such as <<"while", "always">> to a section, and a section maps the keys  *)
(* it sets to their values.  A key that is not set is not in its domain.    *)
(***************************************************************************)
EXTENDS Policy, Sequences, FiniteSets

CONSTANTS
    MaxSecs,    \* BOUND: the largest duration in seconds; the code has 2^64 - 1
    Clock       \* the clock names a file may use

ASSUME ConfigConstants ==
    /\ MaxSecs \in 1800 .. MaxInstant
    /\ Clock = ClockName

-----------------------------------------------------------------------------
(* Durations as text: a sequence of characters. *)

Unparsable  == -2
Space       == " "
Word_never  == <<"n", "e", "v", "e", "r">>
UnitSeconds == [s |-> 1, m |-> 60, h |-> 3600, d |-> 86400]
Digit       == <<"0", "1", "2", "3", "4", "5", "6", "7", "8", "9">>
Digits      == {Digit[i] : i \in 1 .. 10}
ValueOf(c)  == (CHOOSE i \in 1 .. 10 : Digit[i] = c) - 1

\* One character of parse_timeout.  "digits" is -1 while no digit is pending:
\* spaces and underscores do not end a number, a unit does.
ReadChar(acc, c) ==
    LET scaled == acc.digits * UnitSeconds[c]
    IN  IF acc.failed \/ c \in {"_", Space} THEN acc
        ELSE IF c \in Digits
        THEN [acc EXCEPT !.digits = IF @ = -1 THEN ValueOf(c) ELSE 10 * @ + ValueOf(c)]
        ELSE IF \/ c \notin DOMAIN UnitSeconds
                \/ acc.digits = -1
                \/ acc.digits > MaxSecs \div UnitSeconds[c]
                \/ acc.total + scaled > MaxSecs
        THEN [acc EXCEPT !.failed = TRUE]
        ELSE [total |-> acc.total + scaled, digits |-> -1, unit |-> TRUE, failed |-> FALSE]

Unread == [total |-> 0, digits |-> -1, unit |-> FALSE, failed |-> FALSE]

\* The loop over the characters.
Reading(start, text) ==
    LET read[i \in 0 .. Len(text)] ==
            IF i = 0 THEN start ELSE ReadChar(read[i - 1], text[i])
    IN  read[Len(text)]

\* str::trim.
Trimmed(text) ==
    LET inked == {i \in DOMAIN text : text[i] # Space}
    IN  IF inked = {} THEN <<>> ELSE SubSeq(text, Earliest(inked), Latest(inked))

\* parse_timeout.  The sentinel is exact but for surrounding space, and a number
\* without a unit is refused, zero included.
ParseTimeout(text) ==
    LET read == Reading(Unread, Trimmed(text))
    IN  IF Trimmed(text) = Word_never THEN Never
        ELSE IF read.failed \/ read.digits # -1 \/ ~read.unit THEN Unparsable
        ELSE read.total

Decimal[n \in 0 .. MaxSecs] ==
    IF n < 10 THEN <<Digit[n + 1]>> ELSE Append(Decimal[n \div 10], Digit[(n % 10) + 1])

\* One round of format_timeout's loop: no count, no unit.
Written(text, count, unit) ==
    IF count = 0 THEN text ELSE Append(text \o Decimal[count], unit)

FormatUnits(secs) ==
    LET days    == Written(<<>>, secs \div 86400, "d")
        hours   == Written(days, (secs % 86400) \div 3600, "h")
        minutes == Written(hours, (secs % 3600) \div 60, "m")
    IN  Written(minutes, secs % 60, "s")

\* Mutant: zero is written as a bare number.
FormatTimeoutBare(t) ==
    IF t = Never THEN Word_never ELSE IF t = 0 THEN <<"0">> ELSE FormatUnits(t)

FormatTimeout(t) ==
    IF t = Never THEN Word_never ELSE IF t = 0 THEN <<"0", "s">> ELSE FormatUnits(t)

\* TimeoutValue: quoted text, or a bare integer, which is always refused.
Quoted(text) == [quoted |-> TRUE, text |-> text]
Bare(text)   == [quoted |-> FALSE, text |-> text]

ParseValue(v) == IF v.quoted THEN ParseTimeout(v.text) ELSE Unparsable

\* Mutant: never is accepted where a finite duration is asked for.
ParseFiniteOrNever(v) == ParseValue(v)

ParseFinite(v) ==
    LET finite(t) == IF t = Never THEN Unparsable ELSE t
    IN  finite(ParseValue(v))

-----------------------------------------------------------------------------
(* Files. *)

\* "missing" and "unreadable" are what the disk says of a path, "garbled" is
\* text the TOML parser or an unknown key refuses.
FileState == {"missing", "unreadable", "garbled", "text"}

Text(tables) == [state |-> "text", tables |-> tables]
NoText(why)  == [state |-> why, tables |-> <<>>]

SectionOf(tables, path) == IF path \in DOMAIN tables THEN tables[path] ELSE <<>>

General     == <<"general", "general">>
Facts(f)    == <<"facts", f>>
IsBlock(path) == path[1] \in BlockKind

AllowedKeys(fact) ==
    {"enabled"} \cup
    CASE fact = "local_service_busy" -> {"counters_url", "idle_window"}
      [] fact = "steam_game_running" -> {"steam_root"}
      [] fact = "steam_downloading"  -> {"steam_root", "window"}
      [] OTHER -> {}

\* What serde lets through: every table has a place and every key the type of its
\* value.  Anything else is a garbled file.
TimeoutValue == [quoted : BOOLEAN, text : Seq(STRING)]

IsSection(section) ==
    /\ IsFiniteSet(DOMAIN section)
    /\ "enabled" \in DOMAIN section => section["enabled"] \in BOOLEAN
    /\ \A k \in DOMAIN section \cap (Actions \cup {"min_idle", "idle_window", "window"}) :
            section[k] \in TimeoutValue

IsFile(file) ==
    /\ IsFiniteSet(DOMAIN file.tables)
    /\ \A path \in DOMAIN file.tables :
            /\ path = General \/ path \in ({"facts"} \cup BlockKind) \X STRING
            /\ IsSection(file.tables[path])

\* The keys of one section that validate refuses; "name" stands for the table.
FaultyKeys(path, section) ==
    CASE path = General ->
            {k \in DOMAIN section : ParseFinite(section[k]) = Unparsable}
      [] path[1] = "facts" ->
            IF path[2] \notin FactId THEN {"name"}
            ELSE {k \in DOMAIN section :
                    \/ k \notin AllowedKeys(path[2])
                    \/ k \in {"idle_window", "window"} /\ ParseFinite(section[k]) = Unparsable}
      [] OTHER ->
            (IF path[2] \in Condition THEN {} ELSE {"name"})
            \cup {k \in DOMAIN section :
                    \/ k = "clock" /\ section[k] \notin Clock
                    \/ k \in Actions /\ ParseValue(section[k]) = Unparsable}

\* A duration that does not parse is refused also where it has no place.
RefusedTwice(path, section) ==
    IF path[1] # "facts" \/ path[2] \notin FactId THEN {}
    ELSE {k \in DOMAIN section \cap {"idle_window", "window"} :
            k \notin AllowedKeys(path[2]) /\ ParseFinite(section[k]) = Unparsable}

Faults(path, section) ==
    (FaultyKeys(path, section) \X {1}) \cup (RefusedTwice(path, section) \X {2})

\* One entry for every problem of one file, looked at on its own.
Validate(file) ==
    IF file.state = "garbled" THEN {<<"file", "file">>}
    ELSE UNION {{<<path, fault>> : fault \in Faults(path, file.tables[path])} :
                    path \in DOMAIN file.tables}

Dropped(file) == Validate(file) # {}

\* Every key of the two, as the later one has it.
Over(above, below) ==
    [k \in DOMAIN above \cup DOMAIN below |->
        IF k \in DOMAIN above THEN above[k] ELSE below[k]]

\* Mutant: a table of a later layer replaces the earlier table whole.
OverlayTables(below, above) == Over(above, below)

\* A key the later layer does not set keeps its value.
Overlay(below, above) ==
    [path \in DOMAIN below \cup DOMAIN above |->
        Over(SectionOf(above, path), SectionOf(below, path))]

-----------------------------------------------------------------------------
(* Loading. *)

DEFAULT_MIN_IDLE    == 300
FALLBACK_SCREEN_OFF == 900

KeyOr(section, k, default) == IF k \in DOMAIN section THEN section[k] ELSE default

BuildBlock(path, section) ==
    [kind |-> path[1], condition |-> path[2],
     clock    |-> KeyOr(section, "clock", "human_input"),
     enabled  |-> KeyOr(section, "enabled", TRUE),
     timeouts |-> [a \in Actions |->
                    IF a \in DOMAIN section THEN ParseValue(section[a]) ELSE Silent]]

\* local_service_busy is off until it has an endpoint, whatever "enabled" says;
\* an explicit enabled = false of an earlier layer stands when only the endpoint
\* is set.
FactEnabled(tables, f) ==
    LET section == SectionOf(tables, Facts(f))
        endpoint == "counters_url" \in DOMAIN section
    IN  /\ KeyOr(section, "enabled", f # "local_service_busy" \/ endpoint)
        /\ f = "local_service_busy" => endpoint

Fallback ==
    [kind |-> "while", condition |-> "always", clock |-> "human_input", enabled |-> TRUE,
     timeouts |-> [a \in Actions |->
                    IF a = "screen_off" THEN FALLBACK_SCREEN_OFF ELSE Silent]]

SetsScreenFloor(b) == b.enabled /\ b.kind = "while" /\ b.timeouts["screen_off"] # Silent

\* The layers in order; one with a fault takes no part.
Merged(layers) ==
    LET upTo[i \in 0 .. Len(layers)] ==
            IF i = 0 THEN <<>>
            ELSE IF Dropped(layers[i]) THEN upTo[i - 1]
            ELSE Overlay(upTo[i - 1], layers[i].tables)
    IN  upTo[Len(layers)]

\* Mutant: a file the parser refuses is skipped without a fault.
FaultsOfValues(layers) ==
    UNION {{<<i, fault>> : fault \in Validate(layers[i])} :
                i \in {j \in DOMAIN layers : layers[j].state = "text"}}

FaultsOf(layers) ==
    UNION {{<<i, fault>> : fault \in Validate(layers[i])} : i \in DOMAIN layers}

\* The policy of the merged tables.  A vendor file that was dropped is made up
\* for by the fallback where no other floor holds the screen.
Built(tables, vendorDropped, faults) ==
    LET blocks == {BuildBlock(path, tables[path]) : path \in {p \in DOMAIN tables : IsBlock(p)}}
        bereft == vendorDropped /\ \A b \in blocks : ~SetsScreenFloor(b)
        DurationOr(path, k, default) ==
            IF k \in DOMAIN SectionOf(tables, path) THEN ParseFinite(tables[path][k])
            ELSE default
    IN  [policy |->
            [blocks   |-> blocks \cup (IF bereft THEN {Fallback} ELSE {}),
             facts    |-> {f \in FactId : FactEnabled(tables, f)},
             min_idle |-> DurationOr(General, "min_idle", DEFAULT_MIN_IDLE),
             faults   |-> faults],
         idle_window |-> DurationOr(Facts("local_service_busy"), "idle_window", 1800),
         window      |-> DurationOr(Facts("steam_downloading"), "window", 300)]

Load(layers) ==
    Built(Merged(layers), Dropped(layers[1]), Cardinality(FaultsOf(layers)))

\* Sources::read.  The vendor file must be there, a later layer may be missing and
\* sets nothing then, and one that is there and cannot be read fails the whole read.
CanRead(disk) ==
    /\ disk[1].state # "missing"
    /\ \A i \in DOMAIN disk : disk[i].state # "unreadable"
=============================================================================
