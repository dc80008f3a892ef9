------------------------------ MODULE MCBmpEvt -------------------------------
(* Model checking the bitmap event. *)
EXTENDS BmpEvt, TLC

CONSTANTS low1, low2, high

ThreePenders == low1 :> [mask |-> {1}, op |-> "OR"] @@
                low2 :> [mask |-> {1, 2}, op |-> "AND"] @@
                high :> [mask |-> {1, 2}, op |-> "OR"]

\* The task that waits for all bits has no timeout; nobody has one.
TwoTimed == low1 :> {"timed"} @@ low2 :> {"forever"} @@ high :> {"timed", "forever"}
AllForever == [t \in Tasks |-> {"forever"}]

\* All tasks have one priority; one of them is above the others.
Equal == [t \in Tasks |-> 0]
OneHigh == [t \in Tasks |-> IF t = high THEN 1 ELSE 0]
BothPrios == {Equal, OneHigh}
=============================================================================
