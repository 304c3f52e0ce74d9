------------------------------ MODULE MCInputs ------------------------------
(* Small machines for TLC: the shipped file and drop-ins, a desktop with a game  *)
(* and a download, a headless box, and a service that is watched.                *)
EXTENDS Inputs, TLC

MCFactId == {"human_active", "after_resume", "remote_session", "lease_held",
             "inhibitor_block", "media_playing", "steam_game_running",
             "steam_downloading", "gpu_busy_game", "gpu_busy_other",
             "local_service_busy"}

\* Texts.
T2s    == Quoted(<<"2", "s">>)
T0s    == Quoted(<<"0", "s">>)
T10m   == Quoted(<<"1", "0", "m">>)
T20m   == Quoted(<<"2", "0", "m">>)
T30m   == Quoted(<<" ", "3", "0", "m", " ">>)
T45m   == Quoted(<<"4", " ", "5", "m">>)
T2h    == Quoted(<<"2", "h">>)
T1h30m == Quoted(<<"1", "h", " ", "3", "0", "m">>)
T25h   == Quoted(<<"9", "0", "_", "0", "6", "1", "s">>)
TNever == Quoted(Word_never)
T0     == Quoted(<<"0">>)
BadTexts == {Bare(<<"3", "0">>), T0, Quoted(<<"m">>), Quoted(<<>>),
             Quoted(<<"5", "x">>), Quoted(<<"9", "9", "9", "9", "d">>),
             Quoted(<<"n", "e", "v", "e", "r", "s">>)}

W(name) == <<"while", name>>
Sleeps(t) == [suspend |-> t, hibernate |-> TNever, poweroff |-> TNever]
Screen(t) == [screen_off |-> t]
Held    == Sleeps(TNever)
Soft    == Sleeps(T2h) @@ [clock |-> "human_input", screen_off |-> TNever]

\* data/idlectl.toml.
Vendor == Text(
    General :> [min_idle |-> Quoted(<<"5", "m">>)]
    @@ Facts("local_service_busy") :> [enabled |-> FALSE]
    @@ W("always") :> (Sleeps(T30m) @@ [clock |-> "human_input", screen_off |-> T10m])
    @@ W("human_active") :> Held
    @@ W("remote_session") :> Held
    @@ W("lease_held") :> Held
    @@ W("media_playing") :> Soft
    @@ W("steam_game_running") :> Soft
    @@ W("steam_downloading") :> Held
    @@ W("gpu_busy_game") :> Soft
    @@ W("gpu_busy_other") :> (Sleeps(T20m) @@ [clock |-> "condition"])
    @@ W("local_service_busy") :> Held
    @@ W("inhibitor_block") :> Held)

\* Drop-ins.
Longer   == Text(W("always") :> [suspend |-> T1h30m, hibernate |-> T25h])
Shorter  == Text(W("always") :> [suspend |-> T0s] @@ W("media_playing") :> [suspend |-> T45m])
Without  == Text(W("steam_downloading") :> [enabled |-> FALSE]
                 @@ Facts("steam_downloading") :> [enabled |-> FALSE])
FilmOnly == Text(W("media_playing") :> [screen_off |-> T30m])
Watched  == Text(Facts("local_service_busy") :>
                    [enabled |-> TRUE, counters_url |-> "url", idle_window |-> T2s]
                 @@ W("always") :> [suspend |-> T2s])
UrlOnly  == Text(Facts("local_service_busy") :> [counters_url |-> "url"])
Curfew   == Text(<<"when", "always">> :> [clock |-> "resume", poweroff |-> T2h])
NotToml  == NoText("garbled")
Absent   == NoText("missing")
Locked   == NoText("unreadable")
Misspelt(t) == Text(W("always") :> [suspend |-> t])
Unknown  == {Text(W("game_runing") :> Held), Text(Facts("game_runing") :> [enabled |-> FALSE]),
             Text(W("always") :> [clock |-> "mouse"]),
             Text(Facts("media_playing") :> [counters_url |-> "url"]),
             Text(Facts("media_playing") :> [window |-> T0]),
             Text(General :> [min_idle |-> TNever])}

\* Processes: the launch wrapper of a game, its child, a server of the system, a shell.
MCPid    == {"wrapper", "game", "server", "shell"}
MCParent == [p \in MCPid |-> IF p = "game" THEN "wrapper" ELSE p]

\* Sessions with an agent: for how long idle, and the state of its players.
Idle(s, bus) ==
    [age |-> 0, spoken |-> TRUE, idle |-> s, bus |-> bus, fds |-> {}]
Bus(players) == [answers |-> "lists", players |-> players]
NoBus        == [answers |-> "absent", players |-> {}]
MuteBus      == [answers |-> "mute", players |-> {}]
Silence      == Bus({"Paused"})
Film         == Bus({"Playing", "Stopped"})
\* A process with two clients of one half each, one of them open twice.
Fd(p, client, vram, gtt) == [pid |-> p, client |-> client, vram |-> vram, gtt |-> gtt]
Holding(r, p) ==
    [r EXCEPT !.fds = {Fd(p, 1, 1, 5), Fd(p, 2, 0, 1), Fd(p, NoClient, 9, 0),
                       Fd("shell", 1, 1, 0)}]
Seat(class, remote) ==
    [id |-> <<class, remote>>, class |-> class, remote |-> remote, graphical |-> ~remote]
Logind(sessions, blocked) ==
    [answers |-> "yes", sessions |-> sessions, blocked |-> blocked]
Tool(ran, rows) == [ran |-> ran, rows |-> rows]
File(age) == [age |-> age, readable |-> TRUE]
Tree(exists, files) == [exists |-> exists, files |-> files]
Page(kinds, rows) == [answers |-> "page", kinds |-> kinds, rows |-> rows]
Counter == [served |-> "counter"]
Gauges  == Counter @@ [processing |-> "gauge", slots |-> "gauge", seconds |-> "summary"]
Served(rows) == [served |-> 0] @@ rows
Served0 == Page(Gauges, Served([processing |-> 0, slots |-> 1, seconds |-> 1]))

\* Four hours after boot, untouched for two, nothing going on.
Desk ==
    [proc |-> {"shell"}, homes |-> TRUE, staging |-> Tree(FALSE, {}),
     service |-> Served0,
     nvidia |-> Tool("printed", {}), agents |-> {Idle(7200, Silence)},
     logind |-> Logind({Seat("user", FALSE)}, {})]

Loading == [Desk EXCEPT !.staging = Tree(TRUE, {File(10)})]

Box == [Desk EXCEPT !.nvidia = Tool("missing", {}), !.agents = {},
                    !.logind = Logind({}, {})]

MkSite(d, files, w, answers, losses, may, at) ==
    [disk |-> d, files |-> files, world |-> w, answers |-> answers, losses |-> losses,
     may |-> may, now |-> at]

Shipped == <<Vendor, Absent, Absent>>

DeskAnswers ==
    [proc    |-> {{"shell"}, {"shell", "wrapper", "game"}},
     staging |-> {Desk.staging, Tree(TRUE, {File(-5), File(400)}), Tree(TRUE, {}),
                  Tree(TRUE, {File(301)})},
     nvidia  |-> {Tool("no devices", {}), Tool("printed", {<<"game", 2>>}),
                  Tool("printed", {<<"server", 1>>, <<"game", 1>>, <<"game", 3>>})},
     agents  |-> {{Idle(7200, Silence)}, {Idle(10, Silence)}, {Idle(7200, MuteBus)},
                  {Idle(7200, NoBus), Holding(Idle(7300, Film), "game")}},
     logind  |-> {Desk.logind, Logind({Seat("user", FALSE), Seat("user", TRUE)}, {}),
                  Logind({Seat("user", FALSE), Seat("unreadable", FALSE)}, {"sleep", "idle"})}]

\* The desktop twice, with the losses shared out: each leaves to the other the
\* answers its own losses do not touch.
DeskBut(source) == [s \in DOMAIN DeskAnswers \ {source} |-> DeskAnswers[s]]

BoxAnswers ==
    [proc   |-> {{"shell"}, {"shell", "server"}},
     nvidia |-> {Tool("missing", {}), Tool("failed", {}), Tool("printed", {<<"server", 2>>})},
     agents |-> {{}, {[Idle(7200, Film) EXCEPT !.age = 91]}},
     logind |-> {Box.logind, Logind({Seat("user", TRUE), Seat("greeter", TRUE)}, {"shutdown"}),
                 [Box.logind EXCEPT !.answers = "absent"]}]

\* What a counters page may hold: no kinds, no hint, nothing that counts, nothing.
PageAnswers ==
    [service |-> {Served0, Page(Counter, Served([processing |-> 1])),
                  Page(Gauges, [served |-> NoValue, processing |-> 1]),
                  Page(Nothing, [processing |-> 1, slots |-> NoValue]),
                  Page(Nothing, Nothing), Page(Counter, [served |-> NoValue]),
                  [Served0 EXCEPT !.answers = "mute"]}]

\* Layers that come and go, one layer with every kind of mistake, a desktop and
\* a headless box that lose their sources, a watched service, and the pages one serves.
MCSites ==
    [layers  |-> MkSite(Shipped,
                        <<{Vendor, NotToml, Absent}, {Absent, Longer, Locked, Misspelt(T0)},
                          {Absent, Shorter, Without, FilmOnly, Curfew, NotToml}>>,
                        Loading, <<>>, {}, {}, 14400),
     typos   |-> MkSite(Shipped,
                        <<{Vendor}, {Absent, UrlOnly} \cup Unknown
                                        \cup {Misspelt(t) : t \in BadTexts}>>,
                        Desk, <<>>, {}, {}, 14400),
     desk    |-> MkSite(Shipped, <<>>, Desk, DeskBut("staging"),
                        {"proc", "nvidia", "idle", "logind"}, {}, 14400),
     seat    |-> MkSite(Shipped, <<>>, Desk, DeskBut("nvidia"),
                        {"agents", "report", "mpris", "staging", "homes"}, {}, 14400),
     box     |-> MkSite(Shipped, <<>>, Box, BoxAnswers,
                        {"proc", "nvidia", "agents", "logind", "session"}, {}, 14400),
     service |-> MkSite(<<Vendor, Watched, Absent>>, <<>>, Desk, <<>>,
                        {"endpoint"}, {"serve", "time"}, 0),
     pages   |-> MkSite(<<Vendor, Watched, Absent>>, <<>>, Desk, PageAnswers,
                        {"endpoint"}, {"time"}, 0)]

\* The layers, for a run of their own.
Packaged == [layers |-> MCSites.layers]

\* Services that IdleMeansUnused does not cover: one without a gauge for work in
\* flight, and one whose sum after a restart may be the sum from before.
Uncovered == [gaugeless |-> [MCSites.service EXCEPT
                                !.world.service = Page(Counter, Served(Nothing))],
              restarted |-> [MCSites.service EXCEPT !.may = @ \cup {"alias"}]]

\* Losses that LosingSightNeverCauses does not cover, somebody being there: under a
\* ceiling, unasked for by the facts, of an agent where logind knows of no seat.
Present(bus) == [Desk EXCEPT !.agents = {Idle(10, bus)}]
Losing(dropin, w) ==
    MkSite(<<Vendor, dropin>>, <<>>, w, <<>>, {"agents", "logind"}, {}, 14400)
Off(facts) == Text([path \in {Facts(f) : f \in facts} |-> [enabled |-> FALSE]])
Unpromised ==
    [ceiling |-> Losing(Text(<<"when", "always">> :>
                                [clock |-> "human_input", suspend |-> T2h]), Present(Silence)),
     nobody  |-> Losing(Text(Facts("human_active") :> [enabled |-> FALSE]
                             @@ W("always") :> [clock |-> "boot"]), Present(Film)),
     unasked |-> Losing(Off({"remote_session", "inhibitor_block"}), Present(Silence)),
     seatless |-> Losing(Absent, [Present(Silence) EXCEPT !.logind = Logind({}, {})])]
=============================================================================
