-------------------------------- MODULE Timer --------------------------------
(***************************************************************************)
(* The kernel's timers (kernel/timer.c, timer.s): a list of armed timers   *)
(* sorted by wake time, and the processor's decrementer, which is narrower *)
(* than the 64-bit time base and interrupts when its top bit goes from 0   *)
(* to 1.  TimerDevice is the specification: it adds the client whose       *)
(* timer's handler is modelled and closes the system.                      *)
(*                                                                         *)
(* The decrementer exception is served with interrupts disabled, one turn  *)
(* of ServiceDecrementer's loop per step; only time goes on between them.  *)
(* The wake time of a timer that is not armed is never read: it is kept 0. *)
(***************************************************************************)
EXTENDS Lists

CONSTANTS
    Timers,      \* Timer structures
    NoTimer,
    Periodic,    \* timers created with CREATETIMER_TAG_PERIOD
    Period,      \* tm_Period
    DecMax,      \* 0x7fffffff
    Delays,      \* delays that clients ask for
    ClockSets,   \* values the clock is set to
    MaxTime      \* model bound on the time base

ASSUME TimerAssumption ==
    /\ NoTimer \notin Timers /\ Periodic \subseteq Timers
    /\ Period \in Nat \ {0} /\ DecMax \in Nat \ {0} /\ MaxTime \in Nat
    /\ Delays \subseteq Nat /\ ClockSets \subseteq 0 .. MaxTime

VARIABLES
    now,           \* the time base
    dec,           \* the decrementer
    decPending,    \* a decrementer exception waits to be taken
    waitq,         \* _waitq; the other created timers are on _expiredq
    created,
    tm_WakeTime,
    serving,       \* ServiceDecrementer is in its loop
    inHandler,     \* the timer whose tm_Code it calls
    settling       \* ghost: the pass that follows a new clock has not begun

timerVars == <<now, dec, decPending, waitq, created, tm_WakeTime, serving,
               inHandler, settling>>

DecRange == 2 * (DecMax + 1)

TimerTypeOK ==
    /\ now \in 0 .. MaxTime
    /\ dec \in 0 .. DecRange - 1 /\ decPending \in BOOLEAN
    /\ waitq \in Seq(created) /\ created \subseteq Timers
    /\ tm_WakeTime \in [Timers -> Nat]
    /\ serving \in BOOLEAN /\ inHandler \in Timers \cup {NoTimer}
    /\ settling \in BOOLEAN

TimerInit ==
    /\ now = 0 /\ dec = DecMax /\ decPending = FALSE
    /\ waitq = << >> /\ tm_WakeTime = [t \in Timers |-> 0]
    /\ serving = FALSE /\ inHandler = NoTimer /\ settling = FALSE

-----------------------------------------------------------------------------
\* Mutant of SubTimerTicks: the difference may go below 0.
SubTimerTicks_NoFloor(tt1, tt2) == tt2 - tt1

\* tt2 - tt1, or 0 where that would be negative.
SubTimerTicks(tt1, tt2) == IF tt1 <= tt2 THEN tt2 - tt1 ELSE 0

\* Writing the decrementer raises the exception when the top bit becomes 1.
_mtdec(v) ==
    /\ dec' = v
    /\ decPending' = (decPending \/ (dec <= DecMax /\ v > DecMax))

\* A delay of 32 bits or less is loaded as it is, a longer one in parts.
StartDecrementer(wakeTime) ==
    LET tt == SubTimerTicks(now, wakeTime)
    IN _mtdec(IF tt >= DecRange THEN DecMax ELSE tt)

\* Queue q with timer t at its place among wake times w (CmpWakeTimes).
ByWakeTime(q, t, w) == UniversalInsertNode(q, t, {x \in Nodes(q) : w[t] < w[x]})

\* Mutant of LoadTimer: the decrementer is started only if no timer was armed.
LoadTimer_IfIdle(t, tt) ==
    LET w == [tm_WakeTime EXCEPT ![t] = now + tt]
    IN /\ tm_WakeTime' = w
       /\ waitq' = ByWakeTime(WithoutNode(waitq, t), t, w)
       /\ IF waitq = << >> THEN StartDecrementer(w[t])
                           ELSE UNCHANGED <<dec, decPending>>

LoadTimer(t, tt) ==
    LET w == [tm_WakeTime EXCEPT ![t] = now + tt]
        q == ByWakeTime(WithoutNode(waitq, t), t, w)
    IN /\ tm_WakeTime' = w
       /\ waitq' = q
       /\ IF Head(q) = t THEN StartDecrementer(w[t])
                         ELSE UNCHANGED <<dec, decPending>>

UnloadTimer(t) ==
    LET q == WithoutNode(waitq, t)
    IN /\ waitq' = q
       /\ tm_WakeTime' = [tm_WakeTime EXCEPT ![t] = 0]
       /\ IF waitq = << >> \/ Head(waitq) # t THEN UNCHANGED <<dec, decPending>>
          ELSE IF q = << >> THEN _mtdec(DecMax)
          ELSE StartDecrementer(tm_WakeTime[Head(q)])

internalCreateTimer(t) ==
    /\ t \notin created
    /\ created' = created \cup {t}
    /\ UNCHANGED <<now, dec, decPending, waitq, tm_WakeTime, serving, inHandler,
                   settling>>

internalDeleteTimer(t) ==
    LET q == WithoutNode(waitq, t)
    IN /\ t \in created
       /\ created' = created \ {t}
       /\ waitq' = q
       /\ tm_WakeTime' = [tm_WakeTime EXCEPT ![t] = 0]
       /\ IF q # << >> THEN StartDecrementer(tm_WakeTime[Head(q)])
                       ELSE UNCHANGED <<dec, decPending>>
       /\ UNCHANGED <<now, serving, inHandler, settling>>

\* The clock is set; a pass through ServiceDecrementer follows.
SuperSetSystemTimeTT(new) ==
    /\ now' = new
    /\ _mtdec(1)
    /\ tm_WakeTime' = [t \in Timers |->
           IF t \in Nodes(waitq) \cap Periodic THEN new ELSE tm_WakeTime[t]]
    /\ settling' = TRUE
    /\ UNCHANGED <<waitq, created, serving, inHandler>>

-----------------------------------------------------------------------------
\* Time goes on, also while interrupts are disabled.
Tick ==
    /\ now < MaxTime
    /\ now' = now + 1
    /\ dec' = (dec + DecRange - 1) % DecRange
    /\ decPending' = (decPending \/ dec = 0)
    /\ UNCHANGED <<waitq, created, tm_WakeTime, serving, inHandler, settling>>

DecrementerException ==
    /\ decPending /\ ~serving
    /\ decPending' = FALSE
    /\ serving' = TRUE
    /\ settling' = FALSE
    /\ UNCHANGED <<now, dec, waitq, created, tm_WakeTime, inHandler>>

\* ServiceDecrementer finds an expired timer and calls its handler.
ServiceExpired ==
    /\ serving /\ inHandler = NoTimer
    /\ waitq # << >>
    /\ LET t == Head(waitq)
           w == [tm_WakeTime EXCEPT ![t] = @ + Period]
       IN /\ now >= tm_WakeTime[t]
          /\ inHandler' = t
          /\ IF t \in Periodic
             THEN waitq' = ByWakeTime(Tail(waitq), t, w) /\ tm_WakeTime' = w
             ELSE /\ waitq' = Tail(waitq)
                  /\ tm_WakeTime' = [tm_WakeTime EXCEPT ![t] = 0]
    /\ UNCHANGED <<now, dec, decPending, created, serving, settling>>

\* ServiceDecrementer finds none and returns.
ServiceDone ==
    /\ serving /\ inHandler = NoTimer
    /\ serving' = FALSE
    /\ IF waitq = << >> THEN UNCHANGED <<dec, decPending>>
       ELSE /\ now < tm_WakeTime[Head(waitq)]
            /\ StartDecrementer(tm_WakeTime[Head(waitq)])
    /\ UNCHANGED <<now, waitq, created, tm_WakeTime, inHandler, settling>>

-----------------------------------------------------------------------------
\* An interrupt looks, or will look, at the armed timers at once.
Alerted == decPending \/ serving \/ settling

=============================================================================
