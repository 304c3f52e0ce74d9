---------------------------- MODULE MCPolicyLaws ----------------------------
(* One small machine: a game, a human, the base schedule, the settle window  *)
(* and a ceiling that powers the machine off while nobody answers.           *)
EXTENDS PolicyLaws

MCFactId == {"human_active", "after_resume", "game"}

Keys(so, su, hi, po) ==
    [screen_off |-> so, suspend |-> su, hibernate |-> hi, poweroff |-> po]

MkBlock(kind, condition, clock, keys) ==
    [kind |-> kind, condition |-> condition, clock |-> clock,
     enabled |-> TRUE, timeouts |-> keys]

Base     == MkBlock("while", "always", "human_input", Keys(1, 2, Never, Never))
Human    == MkBlock("while", "human_active", "boot", Keys(Silent, Never, Never, Never))
Settle   == MkBlock("while", "after_resume", "resume", Keys(Silent, 2, 2, 2))
Game     == MkBlock("while", "game", "condition", Keys(Never, 3, Never, Silent))
GameOver == MkBlock("when", "game", "human_input", Keys(Silent, Silent, 2, 1))
Absolute == MkBlock("when", "always", "resume", Keys(2, Silent, Never, 3))

MCPool == {Base, Human, Settle, Game, GameOver, Absolute}

Empty == [human_active |-> "false", after_resume |-> "unavailable", game |-> "false"]

\* The game has run since instant 0 or not yet; somebody touched the machine at
\* instant 1 or nobody has; it has resumed at instant 1 or not at all.
MCStart ==
    {[policy  |-> [blocks |-> bs, facts |-> {"human_active", "game"},
                   min_idle |-> 1, faults |-> 0],
      facts   |-> Empty,
      clocks  |-> [now |-> 2, human_input |-> h, resume |-> r],
      edges   |-> [id \in BlockId |-> IF id[2] = "game" THEN 0 ELSE NoEdge],
      request |-> NoRequest] :
        bs \in {{}, {Base}}, h \in {1}, r \in {NotYet, 1}}
=============================================================================
