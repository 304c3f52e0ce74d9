------------------------------ MODULE MCEngine ------------------------------
(* Small machines for TLC.  The policies are the shipped schedule cut down   *)
(* to a few units of time: a base, the vetoes, the settle window, and in one *)
(* of them a ceiling.                                                        *)
EXTENDS Engine

Keys(so, su, hi, po) ==
    [screen_off |-> so, suspend |-> su, hibernate |-> hi, poweroff |-> po]

MkBlock(kind, condition, clock, keys) ==
    [kind |-> kind, condition |-> condition, clock |-> clock,
     enabled |-> TRUE, timeouts |-> keys]

Base     == MkBlock("while", "always", "human_input", Keys(Never, 2, Never, Never))
Slow     == MkBlock("while", "always", "human_input", Keys(1, 4, 6, Never))
Human    == MkBlock("while", "human_active", "human_input", Keys(Never, Never, Never, Never))
Settle   == MkBlock("while", "after_resume", "resume", Keys(Silent, 2, 2, 2))
Stay     == MkBlock("while", "after_resume", "resume", Keys(Silent, Never, Never, Never))
Leased   == MkBlock("while", "lease_held", "condition", Keys(Silent, Never, Never, Never))
Download == MkBlock("while", "steam_download", "condition", Keys(Silent, Never, Never, Never))
Limit    == MkBlock("when", "steam_download", "condition", Keys(Silent, Silent, Silent, 3))

FactsR == {"human_active", "after_resume", "lease_held"}
Facts0 == {"human_active", "after_resume", "lease_held", "steam_download"}

MkPolicy(blocks, facts) == [blocks |-> blocks, facts |-> facts, min_idle |-> 1, faults |-> 0]

Plain   == {MkPolicy({Base, Settle}, {"after_resume"})}
Deep    == {MkPolicy({Slow, Settle, Download}, {"after_resume", "steam_download"})}
Seated  == {MkPolicy({Base, Human, Settle, Download, Leased}, Facts0)}
Vetoed  == {MkPolicy({Base, Settle, Download, Leased},
                     {"after_resume", "lease_held", "steam_download"})}
Woken   == {MkPolicy({Base, Stay, Download}, {"after_resume", "steam_download"})}
Limited == Vetoed \cup {MkPolicy({Base, Settle, Limit}, {"after_resume", "steam_download"})}

MkSite(policies, seat, may, requests, lastEvent, maxTime) ==
    [policies |-> policies, seat |-> seat, may |-> may, requests |-> requests,
     lastEvent |-> lastEvent, maxTime |-> maxTime]

\* Sleeps of every kind, on a daemon that may take time over its steps: a loop left to
\* itself for long, and one with callers for a while.
SleepingSites ==
    [sleeping |-> MkSite(Plain, FALSE,
        {"external", "direct", "restart", "refuse", "abandon"}, {}, 1, 5),
     called   |-> MkSite(Plain, FALSE,
        {"external", "direct", "restart", "refuse", "abandon", "rest"}, {"suspend"}, 1, 3)]

\* A seat with an agent and callers, and one left to its download; a machine that must
\* not sleep again on its own once it has slept, with a daemon that is restarted; callers
\* who have a request held, or force one beside a held one, or force one against a veto;
\* leases and reloads beside a loop nobody calls.
VetoedSites ==
    [seated |-> MkSite(Seated, TRUE, {"human", "rest"}, {"suspend"}, 1, 3),
     left   |-> MkSite(Seated, TRUE, {"facts", "human"}, {}, 1, 3),
     woken  |-> MkSite(Woken, FALSE, {"facts", "external", "restart", "rest"}, {"suspend"}, 1, 3),
     asked  |-> MkSite(Deep, FALSE, {"facts", "pending"}, {"suspend", "hibernate"}, 1, 2),
     torn   |-> MkSite(Deep, FALSE, {"pending", "force"}, {"suspend", "hibernate"}, 1, 2),
     forced |-> MkSite(Deep, FALSE, {"facts", "pending", "force"}, {"hibernate"}, 1, 2),
     leased |-> MkSite(Limited, FALSE, {"facts", "lease", "release", "reload"}, {}, 1, 3)]

LiveSites == [live |-> MkSite(Vetoed, FALSE, {"facts", "lease"}, {}, 1, 7)]
HeldSites == [held |-> MkSite(Deep, FALSE, {"facts", "pending"}, {"suspend"}, 3, 5)]
=============================================================================
