----------------------------- MODULE TimerDevice -----------------------------
(***************************************************************************)
(* The timer device (devices/operator/timer.c) over the kernel's timers.   *)
(* Requests wait in two queues: usecWaiters, sorted by target time and     *)
(* served through one kernel timer that is loaded for the first of them,   *)
(* and vblWaiters, which count vertical blanks.  A metronome request stays *)
(* in its queue and signals its owner again and again.                     *)
(*                                                                         *)
(* A request is started by StartIO, which refuses one that is not done,    *)
(* and ends with CompleteIO (kernel/io.c), here the flag done.  What       *)
(* the next start overwrites is kept 0 while a request is done.            *)
(***************************************************************************)
EXTENDS Timer

CONSTANTS
    Requests,     \* I/O requests of the timer device
    utimer,       \* the device's kernel timer
    VblRange,     \* 2^32: io_Actual and ioi_Offset are 32 bits wide
    Uses,         \* the commands that clients use each request for
    Targets,      \* times of day that clients wait for
    VblCounts,    \* numbers of vertical blanks that clients ask for
    Recycled,     \* clients start a delay with a request whose metronome
                  \* ended by an error
    SetsLate      \* the clock is set while periodic timers are armed

Commands == {"delayUSec", "delayUntilUSec", "metronomeUSec",
             "delayVBL", "delayUntilVBL", "metronomeVBL"}
Metronomes == {"metronomeUSec", "metronomeVBL"}

ASSUME TimerDeviceAssumption ==
    /\ utimer \in Timers \ Periodic
    /\ VblRange \in Nat \ {0} /\ VblCounts \subseteq 0 .. VblRange - 1
    /\ Targets \subseteq Nat /\ Uses \in [Requests -> SUBSET Commands]
    /\ {Recycled, SetsLate} \subseteq BOOLEAN

VARIABLES
    usecWaiters, vblWaiters,
    done,          \* requests with IO_DONE
    metronome,     \* requests with TIMERIOFLAGS_METRONOME in io_Flags
    ior,           \* the rest of each request, see Request
    processing     \* ProcessUSecWaiters is in its loop

queues  == <<usecWaiters, vblWaiters>>
devVars == <<queues, done, metronome, ior, processing>>
vars    == <<timerVars, devVars>>

Lost == -1   \* the clock was set since
Request ==
    [command  : Commands \cup {"none"},   \* ioi_Command
     target   : Nat,                 \* io_Extension, the target time
     interval : Nat,                 \* timer_Interval
     offset   : 0 .. VblRange - 1,   \* ioi_Offset
     actual   : 0 .. VblRange - 1,   \* io_Actual
     started  : Nat \cup {Lost},     \* ghost: the time at the start
     pings    : Nat]                 \* ghost: signals sent since

Idle == [command |-> "none", target |-> 0, interval |-> 0, offset |-> 0,
         actual |-> 0, started |-> 0, pings |-> 0]

TypeOK ==
    /\ TimerTypeOK
    /\ usecWaiters \in Seq(Requests) /\ vblWaiters \subseteq Requests
    /\ done \subseteq Requests /\ metronome \subseteq Requests
    /\ ior \in [Requests -> Request]
    /\ processing \in BOOLEAN

\* CreateTimerDriver has made the device's timer.
Init ==
    /\ TimerInit /\ created = {utimer}
    /\ usecWaiters = << >> /\ vblWaiters = {}
    /\ done = Requests /\ metronome = {}
    /\ ior = [r \in Requests |-> Idle]
    /\ processing = FALSE

\* Tasks run and interrupts are taken.
Calm == ~serving /\ ~processing

\* A client may start r: it is done, and r is fit for the command.
Startable(r, cmd) ==
    /\ Calm
    /\ r \in done
    /\ cmd \in Uses[r]
    /\ cmd \in Metronomes \/ Recycled \/ r \notin metronome

\* What is left of the data of r when it is done: the interval, which a request
\* that is still marked as a metronome would use again.
Leftover(r, flagged) ==
    [Idle EXCEPT !.interval = IF r \in flagged THEN ior[r].interval ELSE 0]

-----------------------------------------------------------------------------
(* Requests in units of time. *)

\* Mutant of ByTarget: the request is added at the tail.
ByTarget_AddTail(q, r, reqs) == Append(q, r)

\* CmpTicks: a request goes before the first one that is not earlier.
ByTarget(q, r, reqs) ==
    UniversalInsertNode(q, r, {x \in Nodes(q) : reqs[r].target <= reqs[x].target})

\* The common end of the USec commands: queue the request and process the queue.
QueueUSec(r, req) ==
    LET reqs == [ior EXCEPT ![r] = req]
    IN /\ done' = done \ {r}
       /\ ior' = reqs
       /\ usecWaiters' = ByTarget(usecWaiters, r, reqs)
       /\ processing' = TRUE
       /\ UNCHANGED <<timerVars, vblWaiters>>

\* The interval is read again only if the request is marked as a metronome.
CmdDelayUSec(r) ==
    /\ Startable(r, "delayUSec")
    /\ \E d \in Delays :
           QueueUSec(r, [Idle EXCEPT !.command = "delayUSec", !.target = now + d,
                            !.interval = IF r \in metronome THEN d ELSE 0])
    /\ UNCHANGED metronome

CmdDelayUntilUSec(r) ==
    /\ Startable(r, "delayUntilUSec")
    /\ \E tg \in Targets :
           QueueUSec(r, [Leftover(r, metronome) EXCEPT
                            !.command = "delayUntilUSec", !.target = tg])
    /\ UNCHANGED metronome

\* An interval of zero would keep ProcessUSecWaiters in its loop for ever.
CmdMetronomeUSec(r) ==
    /\ Startable(r, "metronomeUSec")
    /\ \E d \in Delays \ {0} :
           QueueUSec(r, [Idle EXCEPT !.command = "metronomeUSec", !.target = now + d,
                            !.interval = d, !.started = now])
    /\ metronome' = metronome \cup {r}

\* The time value is bad: CmdDelayUSec refuses the request when it is already
\* marked as a metronome.
CmdMetronomeUSecBad(r) ==
    /\ Startable(r, "metronomeUSec")
    /\ metronome' = metronome \cup {r}
    /\ UNCHANGED <<timerVars, queues, done, ior, processing>>

\* The outcomes of signalling r's owner.  It fails if the owner has freed the
\* signal of a metronome; a delay has no signal in its request.
PingSucceeds(r) == IF ior[r].command \in Metronomes THEN BOOLEAN ELSE {TRUE}

\* Mutant of NextBeat: counted from the time of service.
NextBeat_FromNow(r) == now + ior[r].interval

\* The target time of the next beat of a metronome.
NextBeat(r) == ior[r].target + ior[r].interval

\* ProcessUSecWaiters: the first request is due.
ProcessDue ==
    /\ processing
    /\ usecWaiters # << >>
    /\ LET r    == Head(usecWaiters)
           reqs == [ior EXCEPT ![r].target = NextBeat(r),
                               ![r].pings = IF ior[r].started = Lost THEN 0 ELSE @ + 1]
       IN /\ ior[r].target <= now
          /\ \/ /\ r \in metronome /\ TRUE \in PingSucceeds(r)
                /\ ior' = reqs
                /\ usecWaiters' = ByTarget(Tail(usecWaiters), r, reqs)
                /\ UNCHANGED done
             \/ /\ r \in metronome => FALSE \in PingSucceeds(r)
                /\ ior' = [ior EXCEPT ![r] = Leftover(r, metronome)]
                /\ usecWaiters' = Tail(usecWaiters)
                /\ done' = done \cup {r}
    /\ UNCHANGED <<timerVars, vblWaiters, metronome, processing>>

\* ProcessUSecWaiters: nobody is due; the timer is loaded for the first request.
ProcessDone ==
    /\ processing
    /\ processing' = FALSE
    /\ inHandler' = NoTimer
    /\ IF usecWaiters = << >>
       THEN UNCHANGED <<waitq, tm_WakeTime, dec, decPending>>
       ELSE LET tg == ior[Head(usecWaiters)].target
            IN tg > now /\ LoadTimer(utimer, SubTimerTicks(now, tg))
    /\ UNCHANGED <<now, created, serving, settling, queues, done, metronome, ior>>

\* The handler of the device's timer.
USecHandler ==
    /\ inHandler = utimer /\ ~processing
    /\ processing' = TRUE
    /\ UNCHANGED <<timerVars, queues, done, metronome, ior>>

-----------------------------------------------------------------------------
(* Requests in vertical blanks. *)

QueueVBL(r, cmd, count) ==
    /\ done' = done \ {r}
    /\ ior' = [ior EXCEPT ![r] = [Leftover(r, metronome) EXCEPT
                   !.command = cmd, !.offset = count]]
    /\ vblWaiters' = vblWaiters \cup {r}
    /\ UNCHANGED <<timerVars, usecWaiters, processing>>

CmdDelayVBL(r) ==
    /\ Startable(r, "delayVBL")
    /\ \E n \in VblCounts : QueueVBL(r, "delayVBL", n)
    /\ UNCHANGED metronome

\* The count since the start of the machine, any by now, is subtracted from the
\* count asked for, in 32 bits; one that has passed is nearly 2^32 blanks away.
CmdDelayUntilVBL(r) ==
    /\ Startable(r, "delayUntilVBL")
    /\ \E n, tvvbl \in 0 .. VblRange - 1 :
           QueueVBL(r, "delayUntilVBL", (n + VblRange - tvvbl) % VblRange)
    /\ UNCHANGED metronome

CmdMetronomeVBL(r) ==
    /\ Startable(r, "metronomeVBL")
    /\ \E n \in VblCounts : QueueVBL(r, "metronomeVBL", n)
    /\ metronome' = metronome \cup {r}

\* Mutant of Counted: io_Actual is not written back.
Counted_NotStored(r) == 1

\* io_Actual of request r after one more blank.
Counted(r) == (ior[r].actual + 1) % VblRange

\* A vertical blank: the handler walks the waiters.
VBLHandler ==
    LET due == {r \in vblWaiters : Counted(r) >= ior[r].offset}
    IN \E pinged \in SUBSET (due \cap metronome) :
       LET over == due \ pinged
       IN
       /\ Calm
       /\ \A r \in due \cap metronome : (r \in pinged) \in PingSucceeds(r)
       /\ vblWaiters' = vblWaiters \ over
       /\ done' = done \cup over
       /\ ior' = [r \in Requests |->
              CASE r \in over -> Leftover(r, metronome)
                [] r \in pinged -> [ior[r] EXCEPT !.actual = 0]
                [] r \in vblWaiters \ due -> [ior[r] EXCEPT !.actual = Counted(r)]
                [] OTHER -> ior[r]]
       /\ UNCHANGED <<timerVars, usecWaiters, metronome, processing>>

-----------------------------------------------------------------------------
(* Aborts, and the device's surroundings. *)

\* Called by AbortIO with interrupts disabled, for a request that is not done.
AbortTimerIO(r) ==
    /\ Calm
    /\ r \notin done
    /\ usecWaiters' = WithoutNode(usecWaiters, r)
    /\ vblWaiters' = vblWaiters \ {r}
    /\ metronome' = metronome \ {r}
    /\ done' = done \cup {r}
    /\ ior' = [ior EXCEPT ![r] = Leftover(r, {})]
    /\ UNCHANGED <<timerVars, processing>>

\* Other clients of the kernel's timers; a handler may load its timer again.
ClientLoads(t) ==
    /\ t # utimer /\ t \in created
    /\ Calm \/ inHandler = t
    /\ \E d \in Delays : LoadTimer(t, d)
    /\ inHandler' = NoTimer
    /\ UNCHANGED <<now, created, serving, settling, devVars>>

ClientHandlerReturns ==
    /\ inHandler \in Timers \ {utimer}
    /\ inHandler' = NoTimer
    /\ UNCHANGED <<now, dec, decPending, waitq, created, tm_WakeTime, serving,
                   settling, devVars>>

ClientUnloads(t) ==
    /\ Calm /\ t # utimer /\ t \in created
    /\ UnloadTimer(t)
    /\ UNCHANGED <<now, created, serving, inHandler, settling, devVars>>

ClientCreates(t) == Calm /\ internalCreateTimer(t) /\ UNCHANGED devVars
ClientDeletes(t) ==
    Calm /\ t # utimer /\ internalDeleteTimer(t) /\ UNCHANGED devVars

CmdSetTimeUSec ==
    /\ Calm
    /\ SetsLate \/ Nodes(waitq) \cap Periodic = {}
    /\ \E new \in ClockSets : SuperSetSystemTimeTT(new)
    /\ ior' = [r \in Requests |-> IF r \notin Nodes(usecWaiters) \cap metronome THEN ior[r]
                    ELSE [ior[r] EXCEPT !.started = Lost, !.pings = 0]]
    /\ UNCHANGED <<queues, done, metronome, processing>>

TimePasses == Tick /\ UNCHANGED devVars
TakeDecrementer == Calm /\ DecrementerException /\ UNCHANGED devVars
ServiceLoop == (ServiceExpired \/ ServiceDone) /\ UNCHANGED devVars

Next ==
    \/ \E r \in Requests :
           \/ CmdDelayUSec(r) \/ CmdDelayUntilUSec(r) \/ CmdMetronomeUSec(r)
           \/ CmdMetronomeUSecBad(r) \/ CmdDelayVBL(r) \/ CmdDelayUntilVBL(r)
           \/ CmdMetronomeVBL(r) \/ AbortTimerIO(r)
    \/ ProcessDue \/ ProcessDone \/ USecHandler \/ VBLHandler
    \/ \E t \in Timers :
           \/ ClientLoads(t) \/ ClientUnloads(t)
           \/ ClientCreates(t) \/ ClientDeletes(t)
    \/ ClientHandlerReturns \/ CmdSetTimeUSec
    \/ TimePasses \/ TakeDecrementer \/ ServiceLoop

Spec == Init /\ [][Next]_vars

\* Interrupts are taken, handlers and loops go on.  Handlers and calls come
\* between two vertical blanks, so that one is strong.
FairSpec ==
    /\ Spec
    /\ SF_vars(VBLHandler) /\ SF_vars(TakeDecrementer)
    /\ WF_vars(ServiceLoop) /\ WF_vars(USecHandler)
    /\ WF_vars(ClientHandlerReturns)
    /\ WF_vars(ProcessDue) /\ WF_vars(ProcessDone)

-----------------------------------------------------------------------------
\* PROPERTY.  Nobody is forgotten past its time: if a timer or a request is
\* overdue, an interrupt looks for it now.  StartDecrementer cuts the delay to the
\* width of the decrementer, LoadTimer and UnloadTimer touch it only for the head
\* of the list, nobody writes it when the list runs empty, and all requests share
\* one timer that is loaded only for the first of them and that aborts leave alone.
NothingOverdue ==
    /\ \A t \in Nodes(waitq) : tm_WakeTime[t] < now => Alerted
    /\ \A r \in Nodes(usecWaiters) : ior[r].target < now => Alerted \/ processing

\* PROPERTY.  A metronome neither drifts nor loses beats, however late its
\* interrupts are served: the signals sent are as many as whole intervals have
\* passed since the start, unless an interrupt sends them now (the target time
\* moves on by the interval, not from the time of service).
MetronomeKeepsCount ==
    \A r \in Nodes(usecWaiters) \cap metronome :
        ior[r].command = "metronomeUSec" /\ ior[r].started # Lost =>
            LET elapsed == now - ior[r].started
            IN /\ ior[r].pings * ior[r].interval <= elapsed
               /\ Alerted \/ processing
                  \/ elapsed <= (ior[r].pings + 1) * ior[r].interval

\* PROPERTY.  A request that is not done waits in exactly one queue, once, and
\* the queue by time is in order, whatever series of starts, aborts, beats and
\* failed signals came before.
WaitsInOneQueue ==
    /\ Distinct(usecWaiters)
    /\ Nodes(usecWaiters) \cap vblWaiters = {}
    /\ Nodes(usecWaiters) \cup vblWaiters = Requests \ done
    /\ \A i, j \in 1 .. Len(usecWaiters) :
           i < j => ior[usecWaiters[i]].target <= ior[usecWaiters[j]].target

\* PROPERTY.  "When that number passes, your IOReq is returned to you"
\* (TIMERCMD_DELAY_VBL): every delay ends.
DelaysEnd ==
    \A r \in {q \in Requests : "delayVBL" \in Uses[q]} :
        (r \in vblWaiters /\ ior[r].command = "delayVBL") ~> (r \in done)

=============================================================================
