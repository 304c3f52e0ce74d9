--------------------------- MODULE MCSessionAgent ---------------------------
(* One session for TLC: when each thing around the agent stops happening.    *)
EXTENDS SessionAgent

SomePads == {"js0"}

Early(seatUntil, padUntil, otherwise) ==
    [d \in Disturbances |-> IF d = "seat" THEN seatUntil
                            ELSE IF d \in {"pad", "unplug"} THEN padUntil
                            ELSE IF d \in {"death", "compositor"} THEN otherwise ELSE 1]

WholeSession == Early(4, 3, 5)
OneSeat      == [d \in Disturbances |-> IF d = "seat" THEN 6 ELSE -1]
=============================================================================
