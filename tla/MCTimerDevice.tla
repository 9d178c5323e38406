---------------------------- MODULE MCTimerDevice ----------------------------
(* Instances of TimerDevice for TLC. *)
EXTENDS TimerDevice
CONSTANTS r1, r2, hostTimer

\* One request keeps time, the other waits for dates and for vertical blanks.
TwoClients == [r \in Requests |->
    IF r = r1 THEN {"delayUSec", "metronomeUSec"}
              ELSE {"delayUntilUSec", "delayVBL", "delayUntilVBL", "metronomeVBL"}]
=============================================================================
