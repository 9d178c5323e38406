----------------------------- MODULE TimerProofs -----------------------------
(***************************************************************************)
(* Proofs about TimerDevice, for any number of timers and requests, any    *)
(* width of the decrementer and any delays.                                *)
(*                                                                         *)
(* ShapeInv (types, and every list holds each node once) needs nothing     *)
(* else.  ClockInv says that the decrementer fires in time for the first   *)
(* armed timer, UTimerLoaded that the device's timer is armed in time for  *)
(* the first request, BeatsInStep that a metronome's target is its next    *)
(* beat.                                                                   *)
(***************************************************************************)
EXTENDS TimerDevice, ListProofs

-----------------------------------------------------------------------------
(* The invariants.                                                         *)

\* A handler runs only inside ServiceDecrementer.
HandlersServed == inHandler # NoTimer => serving

\* The kernel's side of ShapeInv, and the device's.
TimerOK ==
    /\ TimerTypeOK
    /\ Distinct(waitq) /\ utimer \in created
    /\ HandlersServed

DeviceTypeOK ==
    /\ usecWaiters \in Seq(Requests) /\ vblWaiters \subseteq Requests
    /\ done \subseteq Requests /\ metronome \subseteq Requests
    /\ ior \in [Requests -> Request]
    /\ processing \in BOOLEAN

DeviceOK == DeviceTypeOK /\ WaitsInOneQueue

ShapeInv == TimerOK /\ DeviceOK

\* The decrementer reaches 0 no later than any armed timer is due; after the
\* clock was set, it interrupts at once.
DecOnTime ==
    \/ decPending \/ serving
    \/ \A t \in Nodes(waitq) : now + dec <= tm_WakeTime[t]
    \/ settling /\ dec <= 1

\* The list of armed timers is in order of wake time.
ClockInv == Rising(tm_WakeTime, waitq) /\ DecOnTime

\* The device's timer wakes it no later than any request is due.
UTimerLoaded ==
    \/ processing \/ inHandler = utimer
    \/ usecWaiters = << >>
    \/ /\ utimer \in Nodes(waitq)
       /\ \A r \in Nodes(usecWaiters) : tm_WakeTime[utimer] <= ior[r].target

\* The target of a metronome is its next beat; the last one has passed.
BeatsInStep ==
    \A r \in Nodes(usecWaiters) \cap metronome :
        ior[r].command = "metronomeUSec" /\ ior[r].started # Lost =>
            /\ ior[r].target = ior[r].started + (ior[r].pings + 1) * ior[r].interval
            /\ ior[r].started + ior[r].pings * ior[r].interval <= now

-----------------------------------------------------------------------------
(* The decrementer.                                                        *)

(* The decrementer has one more bit than DecMax. *)
LEMMA Width == DecMax \in Nat /\ DecRange \in Nat /\ DecRange > DecMax + 1
BY TimerAssumption DEF DecRange

(* Loading the decrementer keeps a pending exception. *)
LEMMA MtDec ==
    ASSUME TimerTypeOK, NEW v \in 0 .. DecRange - 1, _mtdec(v)
    PROVE  /\ dec' = v /\ dec' \in 0 .. DecRange - 1 /\ decPending' \in BOOLEAN
           /\ decPending => decPending'
<1>1. decPending' = (decPending \/ (dec <= DecMax /\ v > DecMax))
  BY DEF _mtdec
<1>2. decPending' \in BOOLEAN /\ (decPending => decPending')
  BY <1>1 DEF TimerTypeOK
<1> QED BY <1>2 DEF _mtdec

(* StartDecrementer: the decrementer reaches 0 no later than the wake time, *)
(* in parts if that is far away, and at once if it has passed.              *)
LEMMA StartDec ==
    ASSUME TimerTypeOK, NEW w \in Nat, StartDecrementer(w)
    PROVE  /\ dec' \in 0 .. DecRange - 1 /\ decPending' \in BOOLEAN
           /\ decPending => decPending'
           /\ now <= w => now + dec' <= w
           /\ now > w => dec' = 0
<1> DEFINE tt == SubTimerTicks(now, w)
           v == IF tt >= DecRange THEN DecMax ELSE tt
<1>0. now \in Nat
  BY TimerAssumption DEF TimerTypeOK
<1>1. tt \in Nat /\ (now <= w => tt = w - now) /\ (now > w => tt = 0)
  BY <1>0 DEF SubTimerTicks
<1>2. v \in 0 .. DecRange - 1 /\ v <= tt
  BY <1>1, Width
<1>3. _mtdec(v)
  BY DEF StartDecrementer
<1> HIDE DEF v, tt
<1>4. dec' = v
  BY <1>2, <1>3, MtDec
<1>5. /\ dec' \in 0 .. DecRange - 1 /\ decPending' \in BOOLEAN
      /\ decPending => decPending'
  BY <1>2, <1>3, MtDec
<1>6. now <= w => now + dec' <= w
  BY <1>0, <1>1, <1>2, <1>4, Width
<1>7. now > w => dec' = 0
  BY <1>0, <1>1, <1>2, <1>4, Width
<1> QED BY <1>5, <1>6, <1>7

(* A tick of the decrementer. *)
LEMMA DecTick ==
    ASSUME NEW n \in Nat \ {0}, NEW d \in 0 .. n - 1
    PROVE  (d + n - 1) % n = IF d = 0 THEN n - 1 ELSE d - 1
OBVIOUS

-----------------------------------------------------------------------------
(* The list of armed timers.                                               *)

(* The order of a list depends only on the keys of its nodes. *)
LEMMA RisingSame ==
    ASSUME NEW s, NEW key, NEW key2, Rising(key, s),
           \A x \in Nodes(s) : key2[x] = key[x]
    PROVE  Rising(key2, s)
BY DEF Rising, Nodes

(* A list whose nodes are all in T is a list over T. *)
LEMMA ListOver ==
    ASSUME NEW S, NEW s \in Seq(S), NEW T, Nodes(s) \subseteq T
    PROVE  s \in Seq(T)
<1>1. \A i \in 1 .. Len(s) : s[i] \in T
  BY DEF Nodes
<1> QED BY <1>1

(* LoadTimer arms the timer in order of wake time; it starts the decrementer *)
(* if the timer is the first now.                                            *)
LEMMA LoadEffect ==
    ASSUME TimerOK, NEW t \in created, NEW tt \in Nat, LoadTimer(t, tt)
    PROVE  /\ waitq' \in Seq(created) /\ waitq' # << >> /\ Distinct(waitq')
           /\ Nodes(waitq') = Nodes(waitq) \cup {t}
           /\ tm_WakeTime' \in [Timers -> Nat] /\ tm_WakeTime'[t] = now + tt
           /\ \A x \in Timers : x # t => tm_WakeTime'[x] = tm_WakeTime[x]
           /\ dec' \in 0 .. DecRange - 1 /\ decPending' \in BOOLEAN
           /\ decPending => decPending'
           /\ Rising(tm_WakeTime, waitq) => Rising(tm_WakeTime', waitq')
           /\ IF Head(waitq') = t THEN now + dec' <= now + tt
                                  ELSE dec' = dec
<1> DEFINE w == [tm_WakeTime EXCEPT ![t] = now + tt]
           p == WithoutNode(waitq, t)
           q == ByWakeTime(p, t, w)
<1>1. /\ now \in Nat /\ created \subseteq Timers /\ waitq \in Seq(created) /\ Distinct(waitq)
      /\ tm_WakeTime \in [Timers -> Nat] /\ t \in Timers
  BY TimerAssumption DEF TimerOK, TimerTypeOK
<1>2. /\ w \in [Timers -> Nat] /\ w[t] = now + tt
      /\ \A x \in Timers : x # t => w[x] = tm_WakeTime[x]
  BY <1>1
<1>3. /\ p \in Seq(created) /\ Distinct(p) /\ Nodes(p) = Nodes(waitq) \ {t}
      /\ Rising(tm_WakeTime, waitq) => Rising(tm_WakeTime, p)
  BY <1>1, WithoutNodeList, RemovalRising
<1> HIDE DEF w, p
<1>4. /\ q \in Seq(created) /\ q # << >> /\ Distinct(q) /\ Nodes(q) = Nodes(p) \cup {t}
  <2>1. PICK later : q = UniversalInsertNode(p, t, later)
    BY DEF ByWakeTime
  <2>2. t \notin Nodes(p)
    BY <1>3
  <2> QED BY <1>3, <2>1, <2>2, UniversalInsertList
<1>5. ASSUME Rising(tm_WakeTime, waitq) PROVE Rising(w, q)
  <2>1. Nodes(p) \subseteq Timers /\ p \in Seq(Timers)
    BY <1>1, <1>3, ListOver DEF Nodes
  <2>2. Rising(w, p)
    BY <1>2, <1>3, <1>5, <2>1, RisingSame
  <2>3. w \in [Timers -> Int]
    BY <1>2
  <2> QED BY <1>1, <2>1, <2>2, <2>3, UniversalInsertRising DEF ByWakeTime
<1>6. /\ tm_WakeTime' = w /\ waitq' = q
      /\ IF Head(q) = t THEN StartDecrementer(w[t]) ELSE UNCHANGED <<dec, decPending>>
  BY DEF LoadTimer, w, p
<1> HIDE DEF q
<1>7. w[t] \in Nat /\ now <= w[t]
  BY <1>1, <1>2
<1>8. /\ dec' \in 0 .. DecRange - 1 /\ decPending' \in BOOLEAN
      /\ decPending => decPending'
      /\ IF Head(q) = t THEN now + dec' <= now + tt ELSE dec' = dec
  <2>1. CASE Head(q) = t
    BY <1>2, <1>6, <1>7, <2>1, StartDec DEF TimerOK
  <2>2. CASE Head(q) # t
    BY <1>6, <2>2 DEF TimerOK, TimerTypeOK
  <2> QED BY <2>1, <2>2
<1>9. Nodes(q) = Nodes(waitq) \cup {t}
  BY <1>3, <1>4
<1> QED BY <1>2, <1>4, <1>5, <1>6, <1>8, <1>9

(* UnloadTimer and DeleteTimer disarm the timer. *)
LEMMA DisarmEffect ==
    ASSUME TimerOK, NEW t \in created, waitq' = WithoutNode(waitq, t),
           tm_WakeTime' = [tm_WakeTime EXCEPT ![t] = 0]
    PROVE  /\ waitq' \in Seq(created) /\ Distinct(waitq')
           /\ Nodes(waitq') = Nodes(waitq) \ {t}
           /\ tm_WakeTime' \in [Timers -> Nat]
           /\ \A x \in Timers : x # t => tm_WakeTime'[x] = tm_WakeTime[x]
           /\ Rising(tm_WakeTime, waitq) => Rising(tm_WakeTime', waitq')
<1>1. /\ created \subseteq Timers /\ waitq \in Seq(created) /\ Distinct(waitq)
      /\ tm_WakeTime \in [Timers -> Nat] /\ t \in Timers
  BY DEF TimerOK, TimerTypeOK
<1>2. /\ waitq' \in Seq(created) /\ Distinct(waitq') /\ Nodes(waitq') = Nodes(waitq) \ {t}
      /\ Rising(tm_WakeTime, waitq) => Rising(tm_WakeTime, waitq')
  BY <1>1, WithoutNodeList, RemovalRising
<1>3. /\ tm_WakeTime' \in [Timers -> Nat]
      /\ \A x \in Timers : x # t => tm_WakeTime'[x] = tm_WakeTime[x]
  BY <1>1
<1>4. Nodes(waitq) \subseteq Timers
  BY <1>1 DEF Nodes
<1>5. Rising(tm_WakeTime, waitq) => Rising(tm_WakeTime', waitq')
  BY <1>2, <1>3, <1>4, RisingSame
<1> QED BY <1>2, <1>3, <1>5

-----------------------------------------------------------------------------
(* The kernel's steps keep the kernel's side of the shape.                 *)

(* ServiceExpired takes the first timer off the list; a periodic one goes   *)
(* back to its place.                                                       *)
LEMMA ExpiredEffect ==
    ASSUME TimerOK, ServiceExpired
    PROVE  /\ waitq # << >> /\ Head(waitq) \in Nodes(waitq) /\ inHandler' = Head(waitq)
           /\ waitq' \in Seq(created) /\ Distinct(waitq')
           /\ Nodes(waitq') = IF Head(waitq) \in Periodic THEN Nodes(waitq)
                              ELSE Nodes(waitq) \ {Head(waitq)}
           /\ tm_WakeTime' \in [Timers -> Nat]
           /\ \A x \in Timers : x # Head(waitq) => tm_WakeTime'[x] = tm_WakeTime[x]
           /\ Rising(tm_WakeTime, waitq) => Rising(tm_WakeTime', waitq')
<1> DEFINE t == Head(waitq)
           w == [tm_WakeTime EXCEPT ![t] = @ + Period]
<1>1. /\ created \subseteq Timers /\ waitq \in Seq(created) /\ Distinct(waitq)
      /\ tm_WakeTime \in [Timers -> Nat] /\ Period \in Nat /\ waitq # << >>
  BY TimerAssumption DEF TimerOK, TimerTypeOK, ServiceExpired
<1>2. t = waitq[1]
  BY <1>1
<1>3. /\ t \in Nodes(waitq) /\ t \in created /\ t \in Timers
      /\ Tail(waitq) \in Seq(created) /\ Distinct(Tail(waitq))
      /\ Nodes(Tail(waitq)) = Nodes(waitq) \ {t}
      /\ Rising(tm_WakeTime, waitq) => Rising(tm_WakeTime, Tail(waitq))
  <2>1. /\ waitq[1] \in Nodes(waitq) /\ waitq[1] \in created
        /\ Tail(waitq) \in Seq(created) /\ Distinct(Tail(waitq))
        /\ Nodes(Tail(waitq)) = Nodes(waitq) \ {waitq[1]}
    BY <1>1, TailNodes
  <2>2. Rising(tm_WakeTime, waitq) => Rising(tm_WakeTime, Tail(waitq))
    BY <1>1, RemovalRising
  <2> QED BY <1>1, <1>2, <2>1, <2>2
<1>4. inHandler' = t
  BY DEF ServiceExpired
<1>5. Nodes(waitq) \subseteq Timers
  BY <1>1 DEF Nodes
<1> HIDE DEF t
<1>6. CASE t \in Periodic
  <2> DEFINE q == ByWakeTime(Tail(waitq), t, w)
  <2>1. waitq' = q /\ tm_WakeTime' = w
    BY <1>6 DEF ServiceExpired, t
  <2>2. /\ w \in [Timers -> Nat]
        /\ \A x \in Timers : x # t => w[x] = tm_WakeTime[x]
    BY <1>1, <1>3
  <2> HIDE DEF w
  <2>3. q \in Seq(created) /\ Distinct(q) /\ Nodes(q) = Nodes(Tail(waitq)) \cup {t}
    <3>1. PICK later : q = UniversalInsertNode(Tail(waitq), t, later)
      BY DEF ByWakeTime
    <3> HIDE DEF q
    <3>2. PICK s : s = Tail(waitq)
      OBVIOUS
    <3>3. s \in Seq(created) /\ Distinct(s) /\ t \in created /\ t \notin Nodes(s)
      BY <1>3, <3>2
    <3>4. q = UniversalInsertNode(s, t, later)
      BY <3>1, <3>2
    <3>5. q \in Seq(created) /\ Distinct(q) /\ Nodes(q) = Nodes(s) \cup {t}
      BY <3>3, <3>4, UniversalInsertList
    <3> QED BY <3>2, <3>5
  <2>4. ASSUME Rising(tm_WakeTime, waitq) PROVE Rising(w, q)
    <3>1. Tail(waitq) \in Seq(Timers)
      BY <1>3, <1>5, ListOver
    <3>2. Rising(w, Tail(waitq))
      <4>1. \A x \in Nodes(Tail(waitq)) : w[x] = tm_WakeTime[x]
        BY <1>3, <1>5, <2>2
      <4> QED BY <1>3, <2>4, <4>1, RisingSame
    <3>3. w \in [Timers -> Int]
      BY <2>2
    <3> QED BY <1>3, <3>1, <3>2, <3>3, UniversalInsertRising DEF ByWakeTime
  <2> HIDE DEF q
  <2>5. Nodes(q) = Nodes(waitq)
    BY <1>3, <2>3
  <2> QED BY <1>1, <1>3, <1>4, <1>6, <2>1, <2>2, <2>3, <2>4, <2>5 DEF t
<1>7. CASE t \notin Periodic
  <2>1. waitq' = Tail(waitq) /\ tm_WakeTime' = [tm_WakeTime EXCEPT ![t] = 0]
    BY <1>7 DEF ServiceExpired, t
  <2>2. /\ tm_WakeTime' \in [Timers -> Nat]
        /\ \A x \in Timers : x # t => tm_WakeTime'[x] = tm_WakeTime[x]
    BY <1>1, <1>3, <2>1
  <2>3. Rising(tm_WakeTime, waitq) => Rising(tm_WakeTime', waitq')
    <3>1. \A x \in Nodes(Tail(waitq)) : tm_WakeTime'[x] = tm_WakeTime[x]
      BY <1>3, <1>5, <2>2
    <3> QED BY <1>3, <2>1, <3>1, RisingSame
  <2> QED BY <1>1, <1>3, <1>4, <1>7, <2>1, <2>2, <2>3 DEF t
<1> QED BY <1>6, <1>7

(* The clock is set. *)
LEMMA SetTimeEffect ==
    ASSUME TimerOK, CmdSetTimeUSec
    PROVE  /\ now' \in 0 .. MaxTime /\ dec' = 1 /\ dec' \in 0 .. DecRange - 1
           /\ decPending' \in BOOLEAN
           /\ tm_WakeTime' \in [Timers -> Nat]
           /\ \A x \in Timers : x \notin Nodes(waitq) \cap Periodic =>
                  tm_WakeTime'[x] = tm_WakeTime[x]
           /\ settling' = TRUE /\ Calm
           /\ UNCHANGED <<waitq, created, serving, inHandler>>
           /\ SetsLate \/ Nodes(waitq) \cap Periodic = {}
<1>1. PICK new \in ClockSets : SuperSetSystemTimeTT(new)
  BY DEF CmdSetTimeUSec
<1>2. new \in 0 .. MaxTime /\ new \in Nat /\ now' = new
  BY <1>1, TimerAssumption DEF SuperSetSystemTimeTT
<1>3. dec' = 1 /\ dec' \in 0 .. DecRange - 1 /\ decPending' \in BOOLEAN
  <2>1. 1 \in 0 .. DecRange - 1
    BY Width
  <2> QED BY <1>1, <2>1, MtDec DEF SuperSetSystemTimeTT, TimerOK
<1>4. /\ tm_WakeTime' \in [Timers -> Nat]
      /\ \A x \in Timers : x \notin Nodes(waitq) \cap Periodic =>
             tm_WakeTime'[x] = tm_WakeTime[x]
  BY <1>1, <1>2 DEF SuperSetSystemTimeTT, TimerOK, TimerTypeOK
<1>5. settling' = TRUE /\ UNCHANGED <<waitq, created, serving, inHandler>>
  BY <1>1 DEF SuperSetSystemTimeTT
<1> QED BY <1>2, <1>3, <1>4, <1>5 DEF CmdSetTimeUSec

(* TimerOK holds at the start and every step keeps it. *)
LEMMA TimerOKInit == Init => TimerOK
<1> SUFFICES ASSUME Init PROVE TimerOK
  OBVIOUS
<1>1. waitq = << >> /\ Distinct(waitq) /\ waitq \in Seq(created)
  BY DEF Init, TimerInit, Distinct
<1>2. dec \in 0 .. DecRange - 1 /\ now \in 0 .. MaxTime
  BY Width, TimerAssumption DEF Init, TimerInit
<1>3. created \subseteq Timers /\ utimer \in created
  BY TimerDeviceAssumption DEF Init
<1>4. tm_WakeTime \in [Timers -> Nat]
  BY DEF Init, TimerInit
<1> QED BY <1>1, <1>2, <1>3, <1>4 DEF Init, TimerInit, TimerOK, TimerTypeOK, HandlersServed

LEMMA TimerOKStep ==
    ASSUME TimerOK, DeviceTypeOK, [Next]_vars
    PROVE  TimerOK'
<1> DEFINE Rest == serving' = serving /\ settling' = settling /\ now' = now
<1>0. /\ now \in Nat /\ created \subseteq Timers /\ utimer \in created
      /\ inHandler \in Timers \cup {NoTimer} /\ NoTimer \notin Timers
  BY TimerAssumption DEF TimerOK, TimerTypeOK
<1>1. CASE UNCHANGED timerVars
  BY <1>1 DEF timerVars, TimerOK, TimerTypeOK, HandlersServed, Distinct
<1>2. ASSUME NEW t \in created, NEW tt \in Nat, LoadTimer(t, tt), Rest,
             inHandler' = NoTimer, created' = created
      PROVE  TimerOK'
  <2>1. /\ waitq' \in Seq(created) /\ Distinct(waitq') /\ tm_WakeTime' \in [Timers -> Nat]
        /\ dec' \in 0 .. DecRange - 1 /\ decPending' \in BOOLEAN
    BY <1>2, LoadEffect
  <2> QED BY <1>2, <2>1 DEF TimerOK, TimerTypeOK, HandlersServed, Distinct
<1>3. CASE ProcessDone
  <2>1. CASE usecWaiters = << >>
    BY <1>3, <2>1 DEF ProcessDone, TimerOK, TimerTypeOK, HandlersServed, Distinct
  <2>2. CASE usecWaiters # << >>
    <3> DEFINE tg == ior[Head(usecWaiters)].target
    <3>1. tg \in Nat
      BY <2>2 DEF DeviceTypeOK, Request
    <3>2. SubTimerTicks(now, tg) \in Nat
      BY <1>0, <3>1 DEF SubTimerTicks
    <3>3. /\ LoadTimer(utimer, SubTimerTicks(now, tg)) /\ Rest
          /\ inHandler' = NoTimer /\ created' = created
      BY <1>3, <2>2 DEF ProcessDone
    <3> QED BY <1>0, <1>2, <3>2, <3>3
  <2> QED BY <2>1, <2>2
<1>4. ASSUME NEW t \in Timers, ClientLoads(t) PROVE TimerOK'
  <2>1. PICK d \in Delays : LoadTimer(t, d)
    BY <1>4 DEF ClientLoads
  <2> QED BY <1>2, <1>4, <2>1, TimerAssumption DEF ClientLoads
<1>5. ASSUME NEW t \in Timers, ClientUnloads(t) PROVE TimerOK'
  <2>1. /\ t \in created /\ UnloadTimer(t) /\ Rest
        /\ UNCHANGED <<created, inHandler>>
    BY <1>5 DEF ClientUnloads
  <2>2. /\ waitq' = WithoutNode(waitq, t) /\ tm_WakeTime' = [tm_WakeTime EXCEPT ![t] = 0]
    BY <2>1 DEF UnloadTimer
  <2>3. waitq' \in Seq(created) /\ Distinct(waitq') /\ tm_WakeTime' \in [Timers -> Nat]
    BY <2>1, <2>2, DisarmEffect
  <2>4. dec' \in 0 .. DecRange - 1 /\ decPending' \in BOOLEAN
    <3>1. CASE waitq = << >> \/ Head(waitq) # t
      BY <2>1, <3>1 DEF UnloadTimer, TimerOK, TimerTypeOK
    <3>2. CASE ~(waitq = << >> \/ Head(waitq) # t) /\ waitq' = << >>
      <4>1. _mtdec(DecMax) /\ DecMax \in 0 .. DecRange - 1
        BY <2>1, <3>2, Width DEF UnloadTimer
      <4> QED BY <4>1, MtDec DEF TimerOK
    <3>3. CASE ~(waitq = << >> \/ Head(waitq) # t) /\ waitq' # << >>
      <4>1. StartDecrementer(tm_WakeTime[Head(waitq')])
        BY <2>1, <3>3 DEF UnloadTimer
      <4>2. Head(waitq') \in created /\ created \subseteq Timers
        <5>1. created \subseteq Timers
          BY DEF TimerOK, TimerTypeOK
        <5>2. \A q \in Seq(created) : q # << >> => Head(q) \in created
          OBVIOUS
        <5> QED BY <2>3, <3>3, <5>1, <5>2
      <4>3. tm_WakeTime[Head(waitq')] \in Nat
        BY <4>2 DEF TimerOK, TimerTypeOK
      <4> QED BY <4>1, <4>3, StartDec DEF TimerOK
    <3> QED BY <3>1, <3>2, <3>3
  <2> QED BY <2>1, <2>3, <2>4 DEF TimerOK, TimerTypeOK, HandlersServed, Distinct
<1>6. ASSUME NEW t \in Timers, ClientCreates(t) PROVE TimerOK'
  <2>1. /\ created' = created \cup {t}
        /\ UNCHANGED <<now, dec, decPending, waitq, tm_WakeTime, serving, inHandler, settling>>
    BY <1>6 DEF ClientCreates, internalCreateTimer
  <2>2. waitq' \in Seq(created')
    BY <2>1 DEF TimerOK, TimerTypeOK
  <2> QED BY <1>0, <2>1, <2>2 DEF TimerOK, TimerTypeOK, HandlersServed, Distinct
<1>7. ASSUME NEW t \in Timers, ClientDeletes(t) PROVE TimerOK'
  <2>1. /\ t # utimer /\ t \in created /\ internalDeleteTimer(t) /\ Rest
        /\ inHandler' = inHandler /\ created' = created \ {t}
    BY <1>7 DEF ClientDeletes, internalDeleteTimer
  <2>2. /\ waitq' = WithoutNode(waitq, t) /\ tm_WakeTime' = [tm_WakeTime EXCEPT ![t] = 0]
    BY <2>1 DEF internalDeleteTimer
  <2>3. /\ waitq' \in Seq(created) /\ Distinct(waitq') /\ tm_WakeTime' \in [Timers -> Nat]
        /\ Nodes(waitq') = Nodes(waitq) \ {t}
    BY <2>1, <2>2, DisarmEffect
  <2>4. waitq' \in Seq(created')
    <3>1. Nodes(waitq) \subseteq created
      BY DEF Nodes, TimerOK, TimerTypeOK
    <3>2. Nodes(waitq') \subseteq created'
      BY <2>1, <2>3, <3>1
    <3> QED BY <2>3, <3>2, ListOver
  <2>5. dec' \in 0 .. DecRange - 1 /\ decPending' \in BOOLEAN
    <3>1. CASE waitq' = << >>
      BY <2>1, <3>1 DEF internalDeleteTimer, TimerOK, TimerTypeOK
    <3>2. CASE waitq' # << >>
      <4>1. StartDecrementer(tm_WakeTime[Head(waitq')])
        BY <2>1, <3>2 DEF internalDeleteTimer
      <4>2. tm_WakeTime[Head(waitq')] \in Nat
        BY <1>0, <2>3, <3>2 DEF TimerOK, TimerTypeOK
      <4> QED BY <4>1, <4>2, StartDec DEF TimerOK
    <3> QED BY <3>1, <3>2
  <2> QED BY <2>1, <2>3, <2>4, <2>5 DEF TimerOK, TimerTypeOK, HandlersServed, Distinct
<1>8. CASE ClientHandlerReturns
  BY <1>8 DEF ClientHandlerReturns, TimerOK, TimerTypeOK, HandlersServed, Distinct
<1>9. CASE CmdSetTimeUSec
  BY <1>9, SetTimeEffect DEF TimerOK, TimerTypeOK, HandlersServed, Distinct
<1>10. CASE TimePasses
  <2>1. now' \in 0 .. MaxTime
    BY <1>10, TimerAssumption DEF TimePasses, Tick, TimerOK, TimerTypeOK
  <2>2. dec' \in 0 .. DecRange - 1
    BY <1>10, Width, DecTick DEF TimePasses, Tick, TimerOK, TimerTypeOK
  <2>3. decPending' \in BOOLEAN
    <3>1. decPending' = (decPending \/ dec = 0)
      BY <1>10 DEF TimePasses, Tick
    <3> QED BY <3>1
  <2> QED BY <1>10, <2>1, <2>2, <2>3
        DEF TimePasses, Tick, TimerOK, TimerTypeOK, HandlersServed, Distinct
<1>11. CASE TakeDecrementer
  BY <1>11 DEF TakeDecrementer, DecrementerException, TimerOK, TimerTypeOK,
               HandlersServed, Distinct
<1>12. CASE ServiceExpired
  <2>1. /\ waitq' \in Seq(created) /\ Distinct(waitq') /\ tm_WakeTime' \in [Timers -> Nat]
        /\ inHandler' \in Timers
    <3>1. Nodes(waitq) \subseteq created
      BY DEF Nodes, TimerOK, TimerTypeOK
    <3> QED BY <1>0, <1>12, <3>1, ExpiredEffect
  <2>2. serving /\ UNCHANGED <<now, dec, decPending, created, serving, settling>>
    BY <1>12 DEF ServiceExpired
  <2> QED BY <2>1, <2>2 DEF TimerOK, TimerTypeOK, HandlersServed, Distinct
<1>13. CASE ServiceDone
  <2>1. dec' \in 0 .. DecRange - 1 /\ decPending' \in BOOLEAN
    <3>1. CASE waitq = << >>
      BY <1>13, <3>1 DEF ServiceDone, TimerOK, TimerTypeOK
    <3>2. CASE waitq # << >>
      <4>1. StartDecrementer(tm_WakeTime[Head(waitq)])
        BY <1>13, <3>2 DEF ServiceDone
      <4>2. tm_WakeTime[Head(waitq)] \in Nat
        BY <1>0, <3>2 DEF TimerOK, TimerTypeOK
      <4> QED BY <4>1, <4>2, StartDec DEF TimerOK
    <3> QED BY <3>1, <3>2
  <2> QED BY <1>13, <2>1 DEF ServiceDone, TimerOK, TimerTypeOK, HandlersServed, Distinct
<1>14. ASSUME NEW r \in Requests,
              \/ CmdDelayUSec(r) \/ CmdDelayUntilUSec(r) \/ CmdMetronomeUSec(r)
              \/ CmdMetronomeUSecBad(r) \/ CmdDelayVBL(r) \/ CmdDelayUntilVBL(r)
              \/ CmdMetronomeVBL(r) \/ AbortTimerIO(r)
       PROVE  UNCHANGED timerVars
  BY <1>14 DEF CmdDelayUSec, CmdDelayUntilUSec, CmdMetronomeUSec, CmdMetronomeUSecBad,
               CmdDelayVBL, CmdDelayUntilVBL, CmdMetronomeVBL, AbortTimerIO, QueueUSec,
               QueueVBL
<1>15. ProcessDue \/ USecHandler \/ VBLHandler => UNCHANGED timerVars
  BY DEF ProcessDue, USecHandler, VBLHandler
<1> QED BY <1>1, <1>3, <1>4, <1>5, <1>6, <1>7, <1>8, <1>9, <1>10, <1>11, <1>12, <1>13,
           <1>14, <1>15 DEF Next, ServiceLoop, vars

-----------------------------------------------------------------------------
(* The device's queues.                                                    *)

\* The target times of the requests f.
TargetTimes(f) == [r \in Requests |-> f[r].target]

(* The queue by time is in order of the target times. *)
LEMMA ByTime ==
    ASSUME DeviceTypeOK
    PROVE  /\ TargetTimes(ior) \in [Requests -> Nat]
           /\ \A r \in Requests : TargetTimes(ior)[r] = ior[r].target
           /\ Nodes(usecWaiters) \subseteq Requests
           /\ WaitsInOneQueue =>
                  /\ Distinct(usecWaiters) /\ Nodes(usecWaiters) \cap vblWaiters = {}
                  /\ Nodes(usecWaiters) \cup vblWaiters = Requests \ done
                  /\ Rising(TargetTimes(ior), usecWaiters)
<1>1. /\ TargetTimes(ior) \in [Requests -> Nat]
      /\ \A r \in Requests : TargetTimes(ior)[r] = ior[r].target
  BY DEF DeviceTypeOK, TargetTimes, Request
<1>2. \A i \in 1 .. Len(usecWaiters) : usecWaiters[i] \in Requests
  BY DEF DeviceTypeOK
<1> QED BY <1>1, <1>2 DEF WaitsInOneQueue, Rising, Nodes

(* The same, as a way to show that a step keeps the queues in shape. *)
LEMMA QueuesKept ==
    ASSUME DeviceTypeOK', Distinct(usecWaiters'),
           Nodes(usecWaiters') \cap vblWaiters' = {},
           Nodes(usecWaiters') \cup vblWaiters' = Requests \ done',
           Rising(TargetTimes(ior'), usecWaiters')
    PROVE  DeviceOK'
<1>1. /\ \A r \in Requests : TargetTimes(ior')[r] = ior'[r].target
      /\ \A i \in 1 .. Len(usecWaiters') : usecWaiters'[i] \in Requests
  BY DEF DeviceTypeOK, TargetTimes
<1>2. \A i, j \in 1 .. Len(usecWaiters') :
          i < j => ior'[usecWaiters'[i]].target <= ior'[usecWaiters'[j]].target
  BY <1>1 DEF Rising
<1> QED BY <1>2 DEF DeviceOK, WaitsInOneQueue

(* CmpTicks: a request is queued at its place among the target times. *)
LEMMA InsertedByTarget ==
    ASSUME NEW q \in Seq(Requests), Distinct(q), NEW r \in Requests, r \notin Nodes(q),
           NEW reqs \in [Requests -> Request], Rising(TargetTimes(reqs), q)
    PROVE  /\ ByTarget(q, r, reqs) \in Seq(Requests) /\ Distinct(ByTarget(q, r, reqs))
           /\ Nodes(ByTarget(q, r, reqs)) = Nodes(q) \cup {r}
           /\ Rising(TargetTimes(reqs), ByTarget(q, r, reqs))
<1> DEFINE key == TargetTimes(reqs)
           later == {x \in Nodes(q) : reqs[r].target <= reqs[x].target}
<1>1. key \in [Requests -> Int] /\ \A x \in Requests : key[x] = reqs[x].target
  BY DEF TargetTimes, Request
<1>2. Nodes(q) \subseteq Requests
  BY DEF Nodes
<1>3. later = {x \in Nodes(q) : key[r] <= key[x]}
  BY <1>1, <1>2
<1>4. ByTarget(q, r, reqs) = UniversalInsertNode(q, r, later)
  BY DEF ByTarget
<1> HIDE DEF key, later
<1>5. Rising(key, q)
  BY DEF key
<1>6. Rising(key, UniversalInsertNode(q, r, later))
  BY <1>1, <1>3, <1>5, UniversalInsertRising
<1>7. /\ UniversalInsertNode(q, r, later) \in Seq(Requests)
      /\ Distinct(UniversalInsertNode(q, r, later))
      /\ Nodes(UniversalInsertNode(q, r, later)) = Nodes(q) \cup {r}
  BY UniversalInsertList
<1> QED BY <1>4, <1>6, <1>7 DEF key

(* What is left of a request that is done is a request. *)
LEMMA LeftoverType ==
    ASSUME DeviceTypeOK, NEW r \in Requests, NEW flagged
    PROVE  /\ Leftover(r, flagged) \in Request
           /\ Leftover(r, flagged).started = 0
           /\ Leftover(r, flagged).command = "none"
<1>1. ior[r].interval \in Nat /\ 0 \in 0 .. VblRange - 1
  BY TimerDeviceAssumption DEF DeviceTypeOK, Request
<1> QED BY <1>1 DEF Leftover, Idle, Request

(* Changing one request changes no other target time. *)
LEMMA OthersOnTime ==
    ASSUME DeviceTypeOK, NEW r \in Requests, NEW req \in Request,
           NEW q \in Seq(Requests), r \notin Nodes(q), Rising(TargetTimes(ior), q)
    PROVE  /\ [ior EXCEPT ![r] = req] \in [Requests -> Request]
           /\ Rising(TargetTimes([ior EXCEPT ![r] = req]), q)
<1> DEFINE reqs == [ior EXCEPT ![r] = req]
<1>1. reqs \in [Requests -> Request] /\ \A x \in Requests : x # r => reqs[x] = ior[x]
  BY DEF DeviceTypeOK
<1>2. Nodes(q) \subseteq Requests
  BY DEF Nodes
<1> HIDE DEF reqs
<1>3. \A x \in Nodes(q) : TargetTimes(reqs)[x] = TargetTimes(ior)[x]
  BY <1>1, <1>2 DEF TargetTimes
<1>4. Rising(TargetTimes(reqs), q)
  BY <1>3, RisingSame
<1> QED BY <1>1, <1>4 DEF reqs

(* The common end of the USec commands. *)
LEMMA QueueUSecOK ==
    ASSUME DeviceOK, NEW r \in Requests, r \in done, NEW req \in Request,
           QueueUSec(r, req), metronome' \subseteq Requests
    PROVE  DeviceOK'
<1> DEFINE reqs == [ior EXCEPT ![r] = req]
<1>1. /\ DeviceTypeOK /\ usecWaiters \in Seq(Requests) /\ Distinct(usecWaiters)
      /\ Nodes(usecWaiters) \cap vblWaiters = {}
      /\ Nodes(usecWaiters) \cup vblWaiters = Requests \ done
      /\ Rising(TargetTimes(ior), usecWaiters)
  BY ByTime DEF DeviceOK, DeviceTypeOK
<1>2. r \notin Nodes(usecWaiters) /\ r \notin vblWaiters
  BY <1>1
<1>3. reqs \in [Requests -> Request] /\ Rising(TargetTimes(reqs), usecWaiters)
  BY <1>1, <1>2, OthersOnTime
<1>4. /\ done' = done \ {r} /\ ior' = reqs /\ processing' = TRUE
      /\ usecWaiters' = ByTarget(usecWaiters, r, reqs) /\ vblWaiters' = vblWaiters
  BY DEF QueueUSec
<1> HIDE DEF reqs
<1>5. /\ usecWaiters' \in Seq(Requests) /\ Distinct(usecWaiters')
      /\ Nodes(usecWaiters') = Nodes(usecWaiters) \cup {r}
      /\ Rising(TargetTimes(reqs), usecWaiters')
  BY <1>1, <1>2, <1>3, <1>4, InsertedByTarget
<1>6. DeviceTypeOK'
  BY <1>1, <1>3, <1>4, <1>5 DEF DeviceTypeOK
<1>7. /\ Nodes(usecWaiters') \cap vblWaiters' = {}
      /\ Nodes(usecWaiters') \cup vblWaiters' = Requests \ done'
  BY <1>1, <1>2, <1>4, <1>5
<1> QED BY <1>4, <1>5, <1>6, <1>7, QueuesKept

(* The common end of the VBL commands. *)
LEMMA QueueVBLOK ==
    ASSUME DeviceOK, NEW r \in Requests, r \in done, NEW cmd \in Commands,
           NEW count \in 0 .. VblRange - 1,
           QueueVBL(r, cmd, count), metronome' \subseteq Requests
    PROVE  DeviceOK'
<1> DEFINE req == [Leftover(r, metronome) EXCEPT !.command = cmd, !.offset = count]
           reqs == [ior EXCEPT ![r] = req]
<1>1. /\ DeviceTypeOK /\ usecWaiters \in Seq(Requests) /\ Distinct(usecWaiters)
      /\ Nodes(usecWaiters) \cap vblWaiters = {}
      /\ Nodes(usecWaiters) \cup vblWaiters = Requests \ done
      /\ Rising(TargetTimes(ior), usecWaiters)
  BY ByTime DEF DeviceOK, DeviceTypeOK
<1>2. r \notin Nodes(usecWaiters) /\ r \notin vblWaiters
  BY <1>1
<1>3. req \in Request
  BY <1>1, LeftoverType DEF Request
<1>4. /\ done' = done \ {r} /\ ior' = reqs /\ processing' = processing
      /\ usecWaiters' = usecWaiters /\ vblWaiters' = vblWaiters \cup {r}
  BY DEF QueueVBL
<1> HIDE DEF req
<1>5. reqs \in [Requests -> Request] /\ Rising(TargetTimes(reqs), usecWaiters)
  BY <1>1, <1>2, <1>3, OthersOnTime
<1> HIDE DEF reqs
<1>6. DeviceTypeOK'
  BY <1>1, <1>4, <1>5 DEF DeviceTypeOK
<1>7. /\ Nodes(usecWaiters') \cap vblWaiters' = {}
      /\ Nodes(usecWaiters') \cup vblWaiters' = Requests \ done'
  BY <1>1, <1>2, <1>4
<1> QED BY <1>1, <1>4, <1>5, <1>6, <1>7, QueuesKept

(* ProcessUSecWaiters: the first request is done or queued for its next     *)
(* beat.                                                                    *)
LEMMA ProcessDueOK ==
    ASSUME DeviceOK, ProcessDue
    PROVE  DeviceOK'
<1> DEFINE r == Head(usecWaiters)
<1>1. /\ DeviceTypeOK /\ usecWaiters \in Seq(Requests) /\ Distinct(usecWaiters)
      /\ Nodes(usecWaiters) \cap vblWaiters = {}
      /\ Nodes(usecWaiters) \cup vblWaiters = Requests \ done
      /\ Rising(TargetTimes(ior), usecWaiters)
      /\ usecWaiters # << >> /\ r = usecWaiters[1]
  BY ByTime DEF DeviceOK, DeviceTypeOK, ProcessDue
<1>2. PICK s : s = Tail(usecWaiters)
  OBVIOUS
<1>3. /\ s \in Seq(Requests) /\ Distinct(s) /\ Nodes(s) = Nodes(usecWaiters) \ {r}
      /\ r \in Nodes(usecWaiters) /\ r \in Requests
      /\ Rising(TargetTimes(ior), s)
  <2>1. /\ Tail(usecWaiters) \in Seq(Requests) /\ Distinct(Tail(usecWaiters))
        /\ Nodes(Tail(usecWaiters)) = Nodes(usecWaiters) \ {usecWaiters[1]}
        /\ usecWaiters[1] \in Nodes(usecWaiters) /\ usecWaiters[1] \in Requests
    BY <1>1, TailNodes
  <2>2. Rising(TargetTimes(ior), Tail(usecWaiters))
    BY <1>1, RemovalRising
  <2> QED BY <1>1, <1>2, <2>1, <2>2
<1> DEFINE req == [ior[r] EXCEPT !.target = NextBeat(r),
                       !.pings = IF ior[r].started = Lost THEN 0 ELSE @ + 1]
           reqs == [ior EXCEPT ![r].target = NextBeat(r),
                       ![r].pings = IF ior[r].started = Lost THEN 0 ELSE @ + 1]
<1>4. /\ vblWaiters' = vblWaiters /\ metronome' = metronome /\ processing' = processing
      /\ \/ /\ ior' = reqs /\ usecWaiters' = ByTarget(s, r, reqs) /\ done' = done
         \/ /\ ior' = [ior EXCEPT ![r] = Leftover(r, metronome)]
            /\ usecWaiters' = s /\ done' = done \cup {r}
  BY <1>2 DEF ProcessDue
<1>5. ior[r] \in Request
  BY <1>1, <1>3 DEF DeviceTypeOK
<1>6. req \in Request
  <2>1. PICK b : b = NextBeat(r)
    OBVIOUS
  <2>2. PICK n : n = IF ior[r].started = Lost THEN 0 ELSE ior[r].pings + 1
    OBVIOUS
  <2>3. b \in Nat /\ n \in Nat
    BY <1>5, <2>1, <2>2 DEF NextBeat, Request
  <2>4. req = [ior[r] EXCEPT !.target = b, !.pings = n]
    BY <2>1, <2>2
  <2> HIDE DEF req
  <2> QED BY <1>5, <2>3, <2>4 DEF Request
<1>7. reqs = [ior EXCEPT ![r] = req]
  BY <1>1, <1>3 DEF DeviceTypeOK
<1> HIDE DEF req, reqs, r
<1>8. r \notin Nodes(s)
  BY <1>3
<1>9. CASE /\ ior' = reqs /\ usecWaiters' = ByTarget(s, r, reqs) /\ done' = done
  <2>1. reqs \in [Requests -> Request] /\ Rising(TargetTimes(reqs), s)
    BY <1>1, <1>3, <1>6, <1>7, <1>8, OthersOnTime
  <2>2. /\ usecWaiters' \in Seq(Requests) /\ Distinct(usecWaiters')
        /\ Nodes(usecWaiters') = Nodes(s) \cup {r}
        /\ Rising(TargetTimes(reqs), usecWaiters')
    BY <1>3, <1>8, <1>9, <2>1, InsertedByTarget
  <2>3. DeviceTypeOK'
    BY <1>1, <1>4, <1>9, <2>1, <2>2 DEF DeviceTypeOK
  <2>4. Nodes(usecWaiters') = Nodes(usecWaiters)
    BY <1>3, <2>2
  <2> QED BY <1>1, <1>4, <1>9, <2>2, <2>3, <2>4, QueuesKept
<1>10. CASE /\ ior' = [ior EXCEPT ![r] = Leftover(r, metronome)]
            /\ usecWaiters' = s /\ done' = done \cup {r}
  <2>1. ior' \in [Requests -> Request] /\ Rising(TargetTimes(ior'), s)
    BY <1>1, <1>3, <1>8, <1>10, OthersOnTime, LeftoverType
  <2>2. DeviceTypeOK'
    BY <1>1, <1>3, <1>4, <1>10, <2>1 DEF DeviceTypeOK
  <2>3. /\ Nodes(usecWaiters') \cap vblWaiters' = {}
        /\ Nodes(usecWaiters') \cup vblWaiters' = Requests \ done'
    BY <1>1, <1>3, <1>4, <1>10
  <2> QED BY <1>3, <1>10, <2>1, <2>2, <2>3, QueuesKept
<1> QED BY <1>4, <1>9, <1>10

(* A vertical blank moves no request of the queue by time. *)
LEMMA VBLHandlerOK ==
    ASSUME DeviceOK, VBLHandler
    PROVE  DeviceOK' /\ \A r \in Nodes(usecWaiters) : ior'[r] = ior[r]
<1>1. /\ DeviceTypeOK /\ usecWaiters \in Seq(Requests) /\ Distinct(usecWaiters)
      /\ Nodes(usecWaiters) \cap vblWaiters = {} /\ Nodes(usecWaiters) \subseteq Requests
      /\ Nodes(usecWaiters) \cup vblWaiters = Requests \ done
      /\ Rising(TargetTimes(ior), usecWaiters)
  BY ByTime DEF DeviceOK, DeviceTypeOK
<1> DEFINE due == {r \in vblWaiters : Counted(r) >= ior[r].offset}
<1>2. PICK pinged \in SUBSET (due \cap metronome) :
         /\ vblWaiters' = vblWaiters \ (due \ pinged)
         /\ done' = done \cup (due \ pinged)
         /\ ior' = [r \in Requests |->
                CASE r \in due \ pinged -> Leftover(r, metronome)
                  [] r \in pinged -> [ior[r] EXCEPT !.actual = 0]
                  [] r \in vblWaiters \ due -> [ior[r] EXCEPT !.actual = Counted(r)]
                  [] OTHER -> ior[r]]
         /\ UNCHANGED <<usecWaiters, metronome, processing>>
  BY DEF VBLHandler
<1>3. due \subseteq vblWaiters
  OBVIOUS
<1> HIDE DEF due
<1>4. ASSUME NEW r \in Requests PROVE ior'[r] \in Request
  <2>1. ior[r] \in Request /\ Leftover(r, metronome) \in Request
    BY <1>1, LeftoverType DEF DeviceTypeOK
  <2>2. 0 \in 0 .. VblRange - 1 /\ Counted(r) \in 0 .. VblRange - 1
    BY <2>1, TimerDeviceAssumption DEF Counted, Request
  <2>3. /\ [ior[r] EXCEPT !.actual = 0] \in Request
        /\ [ior[r] EXCEPT !.actual = Counted(r)] \in Request
    BY <2>1, <2>2 DEF Request
  <2>4. \/ ior'[r] = Leftover(r, metronome) \/ ior'[r] = [ior[r] EXCEPT !.actual = 0]
        \/ ior'[r] = [ior[r] EXCEPT !.actual = Counted(r)] \/ ior'[r] = ior[r]
    BY <1>2
  <2> QED BY <2>1, <2>3, <2>4
<1>5. ASSUME NEW r \in Nodes(usecWaiters) PROVE ior'[r] = ior[r]
  <2>1. r \in Requests /\ r \notin vblWaiters
    BY <1>1
  <2>2. r \notin due /\ r \notin pinged
    BY <1>3, <2>1
  <2> QED BY <1>2, <2>1, <2>2
<1>6. ior' \in [Requests -> Request]
  <2>1. ior' = [r \in Requests |-> ior'[r]]
    BY <1>2
  <2> QED BY <1>4, <2>1
<1>7. DeviceTypeOK'
  BY <1>1, <1>2, <1>3, <1>6 DEF DeviceTypeOK
<1>8. Rising(TargetTimes(ior'), usecWaiters')
  <2>1. \A x \in Nodes(usecWaiters) : TargetTimes(ior')[x] = TargetTimes(ior)[x]
    BY <1>1, <1>5 DEF TargetTimes
  <2>2. Rising(TargetTimes(ior'), usecWaiters)
    BY <1>1, <2>1, RisingSame
  <2> QED BY <1>2, <2>2
<1>9. /\ Nodes(usecWaiters') \cap vblWaiters' = {}
      /\ Nodes(usecWaiters') \cup vblWaiters' = Requests \ done'
      /\ Distinct(usecWaiters')
  BY <1>1, <1>2, <1>3
<1> QED BY <1>5, <1>7, <1>8, <1>9, QueuesKept

(* AbortIO takes the request out of its queue. *)
LEMMA AbortOK ==
    ASSUME DeviceOK, NEW r \in Requests, AbortTimerIO(r)
    PROVE  DeviceOK' /\ Nodes(usecWaiters') = Nodes(usecWaiters) \ {r}
<1>1. /\ DeviceTypeOK /\ usecWaiters \in Seq(Requests) /\ Distinct(usecWaiters)
      /\ Nodes(usecWaiters) \cap vblWaiters = {}
      /\ Nodes(usecWaiters) \cup vblWaiters = Requests \ done
      /\ Rising(TargetTimes(ior), usecWaiters)
  BY ByTime DEF DeviceOK, DeviceTypeOK
<1>2. /\ usecWaiters' = WithoutNode(usecWaiters, r) /\ vblWaiters' = vblWaiters \ {r}
      /\ metronome' = metronome \ {r} /\ done' = done \cup {r} /\ processing' = processing
      /\ ior' = [ior EXCEPT ![r] = Leftover(r, {})]
  BY DEF AbortTimerIO
<1>3. /\ usecWaiters' \in Seq(Requests) /\ Distinct(usecWaiters')
      /\ Nodes(usecWaiters') = Nodes(usecWaiters) \ {r}
      /\ Rising(TargetTimes(ior), usecWaiters')
  BY <1>1, <1>2, WithoutNodeList, RemovalRising
<1>4. ior' \in [Requests -> Request] /\ Rising(TargetTimes(ior'), usecWaiters')
  <2>1. Leftover(r, {}) \in Request /\ r \notin Nodes(usecWaiters')
    BY <1>1, <1>3, LeftoverType
  <2> QED BY <1>1, <1>2, <1>3, <2>1, OthersOnTime
<1>5. DeviceTypeOK'
  BY <1>1, <1>2, <1>3, <1>4 DEF DeviceTypeOK
<1>6. /\ Nodes(usecWaiters') \cap vblWaiters' = {}
      /\ Nodes(usecWaiters') \cup vblWaiters' = Requests \ done'
  BY <1>1, <1>2, <1>3
<1> QED BY <1>3, <1>4, <1>5, <1>6, QueuesKept

(* The clock is set: the target times stay. *)
LEMMA SetTimeOK ==
    ASSUME DeviceOK, CmdSetTimeUSec
    PROVE  /\ DeviceOK' /\ UNCHANGED <<usecWaiters, metronome>>
           /\ \A r \in Requests : ior'[r].target = ior[r].target
           /\ \A r \in Nodes(usecWaiters) \cap metronome : ior'[r].started = Lost
<1>1. /\ DeviceTypeOK /\ usecWaiters \in Seq(Requests) /\ Distinct(usecWaiters)
      /\ Nodes(usecWaiters) \cap vblWaiters = {} /\ Nodes(usecWaiters) \subseteq Requests
      /\ Nodes(usecWaiters) \cup vblWaiters = Requests \ done
      /\ Rising(TargetTimes(ior), usecWaiters)
  BY ByTime DEF DeviceOK, DeviceTypeOK
<1>2. /\ UNCHANGED <<usecWaiters, vblWaiters, done, metronome, processing>>
      /\ ior' = [r \in Requests |-> IF r \notin Nodes(usecWaiters) \cap metronome THEN ior[r]
                     ELSE [ior[r] EXCEPT !.started = Lost, !.pings = 0]]
  BY DEF CmdSetTimeUSec, queues
<1>3. ASSUME NEW r \in Requests
      PROVE  /\ ior'[r] \in Request /\ ior'[r].target = ior[r].target
             /\ r \in Nodes(usecWaiters) \cap metronome => ior'[r].started = Lost
  <2>1. ior[r] \in Request
    BY <1>1 DEF DeviceTypeOK
  <2>2. /\ [ior[r] EXCEPT !.started = Lost, !.pings = 0] \in Request
        /\ [ior[r] EXCEPT !.started = Lost, !.pings = 0].target = ior[r].target
        /\ [ior[r] EXCEPT !.started = Lost, !.pings = 0].started = Lost
    BY <2>1 DEF Request
  <2> QED BY <1>2, <2>1, <2>2
<1>4. ior' \in [Requests -> Request]
  <2>1. ior' = [r \in Requests |-> ior'[r]]
    BY <1>2
  <2> QED BY <1>3, <2>1
<1>5. DeviceTypeOK'
  BY <1>1, <1>2, <1>4 DEF DeviceTypeOK
<1>6. TargetTimes(ior') = TargetTimes(ior)
  BY <1>3 DEF TargetTimes
<1>7. /\ Nodes(usecWaiters') \cap vblWaiters' = {}
      /\ Nodes(usecWaiters') \cup vblWaiters' = Requests \ done'
      /\ Distinct(usecWaiters') /\ Rising(TargetTimes(ior'), usecWaiters')
  BY <1>1, <1>2, <1>6
<1>8. DeviceOK'
  BY <1>5, <1>7, QueuesKept
<1> QED BY <1>1, <1>2, <1>3, <1>8

(* The requests that the USec commands queue. *)
LEMMA NewDelay ==
    ASSUME TimerTypeOK, DeviceTypeOK, NEW r \in Requests, CmdDelayUSec(r)
    PROVE  \E req \in Request :
              QueueUSec(r, req) /\ req.command = "delayUSec" /\ metronome' = metronome
<1>1. PICK d \in Delays :
         QueueUSec(r, [Idle EXCEPT !.command = "delayUSec", !.target = now + d,
                                   !.interval = IF r \in metronome THEN d ELSE 0])
  BY DEF CmdDelayUSec
<1>2. PICK tg, iv : tg = now + d /\ iv = IF r \in metronome THEN d ELSE 0
  OBVIOUS
<1>3. tg \in Nat /\ iv \in Nat /\ 0 \in 0 .. VblRange - 1
  BY <1>2, TimerAssumption, TimerDeviceAssumption DEF TimerTypeOK
<1> DEFINE req == [Idle EXCEPT !.command = "delayUSec", !.target = tg, !.interval = iv]
<1>4. req \in Request /\ req.command = "delayUSec"
  BY <1>3 DEF Idle, Request, Commands
<1>5. QueueUSec(r, req) /\ metronome' = metronome
  BY <1>1, <1>2 DEF CmdDelayUSec
<1> QED BY <1>4, <1>5

LEMMA NewDelayUntil ==
    ASSUME DeviceTypeOK, NEW r \in Requests, CmdDelayUntilUSec(r)
    PROVE  \E req \in Request :
              QueueUSec(r, req) /\ req.command = "delayUntilUSec" /\ metronome' = metronome
<1>1. PICK tg \in Targets :
         QueueUSec(r, [Leftover(r, metronome) EXCEPT
                          !.command = "delayUntilUSec", !.target = tg])
  BY DEF CmdDelayUntilUSec
<1> DEFINE req == [Leftover(r, metronome) EXCEPT !.command = "delayUntilUSec", !.target = tg]
<1>2. tg \in Nat /\ Leftover(r, metronome) \in Request
  BY TimerDeviceAssumption, LeftoverType
<1>3. req \in Request /\ req.command = "delayUntilUSec"
  BY <1>2 DEF Request, Commands
<1> QED BY <1>1, <1>3 DEF CmdDelayUntilUSec

LEMMA NewMetronome ==
    ASSUME TimerTypeOK, DeviceTypeOK, NEW r \in Requests, CmdMetronomeUSec(r)
    PROVE  \E req \in Request :
              /\ QueueUSec(r, req) /\ metronome' = metronome \cup {r}
              /\ req.target = now + req.interval /\ req.started = now /\ req.pings = 0
<1>1. PICK d \in Delays \ {0} :
         QueueUSec(r, [Idle EXCEPT !.command = "metronomeUSec", !.target = now + d,
                                   !.interval = d, !.started = now])
  BY DEF CmdMetronomeUSec
<1>2. PICK tg : tg = now + d
  OBVIOUS
<1>3. tg \in Nat /\ d \in Nat /\ now \in Nat /\ 0 \in 0 .. VblRange - 1
  BY <1>2, TimerAssumption, TimerDeviceAssumption DEF TimerTypeOK
<1> DEFINE req == [Idle EXCEPT !.command = "metronomeUSec", !.target = tg,
                               !.interval = d, !.started = now]
<1>4. /\ req \in Request /\ req.target = tg /\ req.interval = d /\ req.started = now
      /\ req.pings = 0
  BY <1>3 DEF Idle, Request, Commands
<1>5. QueueUSec(r, req) /\ metronome' = metronome \cup {r}
  BY <1>1, <1>2 DEF CmdMetronomeUSec
<1> HIDE DEF req
<1> QED BY <1>2, <1>4, <1>5

(* DeviceOK holds at the start and every step keeps it. *)
LEMMA DeviceOKInit == Init => DeviceOK
<1> SUFFICES ASSUME Init PROVE DeviceOK
  OBVIOUS
<1>1. usecWaiters = << >> /\ Nodes(usecWaiters) = {} /\ Len(usecWaiters) = 0
  BY DEF Init, Nodes
<1>2. Idle \in Request
  BY TimerDeviceAssumption DEF Idle, Request
<1>3. DeviceTypeOK
  <2>1. ior \in [Requests -> Request]
    BY <1>2 DEF Init
  <2>2. usecWaiters \in Seq(Requests)
    BY <1>1
  <2> QED BY <2>1, <2>2 DEF Init, DeviceTypeOK
<1>4. WaitsInOneQueue
  BY <1>1 DEF Init, WaitsInOneQueue, Distinct
<1> QED BY <1>3, <1>4 DEF DeviceOK

LEMMA DeviceOKStep ==
    ASSUME TimerOK, DeviceOK, [Next]_vars
    PROVE  DeviceOK'
<1>0. TimerTypeOK /\ DeviceTypeOK /\ metronome \subseteq Requests
  BY DEF TimerOK, DeviceOK, DeviceTypeOK
<1>1. ASSUME UNCHANGED <<queues, done, ior>>, metronome' \subseteq Requests,
             processing' \in BOOLEAN
      PROVE  DeviceOK'
  BY <1>1 DEF queues, DeviceOK, DeviceTypeOK, WaitsInOneQueue, Nodes, Distinct
<1>2. CASE UNCHANGED devVars
  BY <1>0, <1>1, <1>2 DEF devVars, DeviceTypeOK
<1>3. ASSUME NEW r \in Requests, CmdDelayUSec(r) PROVE DeviceOK'
  <2>1. PICK req \in Request : QueueUSec(r, req) /\ metronome' \subseteq Requests
    BY <1>0, <1>3, NewDelay
  <2>2. r \in done
    BY <1>3 DEF CmdDelayUSec, Startable
  <2> QED BY <2>1, <2>2, QueueUSecOK
<1>4. ASSUME NEW r \in Requests, CmdDelayUntilUSec(r) PROVE DeviceOK'
  <2>1. PICK req \in Request : QueueUSec(r, req) /\ metronome' \subseteq Requests
    BY <1>0, <1>4, NewDelayUntil
  <2>2. r \in done
    BY <1>4 DEF CmdDelayUntilUSec, Startable
  <2> QED BY <2>1, <2>2, QueueUSecOK
<1>5. ASSUME NEW r \in Requests, CmdMetronomeUSec(r) PROVE DeviceOK'
  <2>1. PICK req \in Request : QueueUSec(r, req) /\ metronome' \subseteq Requests
    BY <1>0, <1>5, NewMetronome
  <2>2. r \in done
    BY <1>5 DEF CmdMetronomeUSec, Startable
  <2> QED BY <2>1, <2>2, QueueUSecOK
<1>6. ASSUME NEW r \in Requests, CmdMetronomeUSecBad(r) PROVE DeviceOK'
  BY <1>0, <1>1, <1>6 DEF CmdMetronomeUSecBad, DeviceTypeOK
<1>7. ASSUME NEW r \in Requests, CmdDelayVBL(r) PROVE DeviceOK'
  <2>1. PICK n \in VblCounts : QueueVBL(r, "delayVBL", n)
    BY <1>7 DEF CmdDelayVBL
  <2>2. n \in 0 .. VblRange - 1 /\ "delayVBL" \in Commands
    BY TimerDeviceAssumption DEF Commands
  <2> QED BY <1>0, <1>7, <2>1, <2>2, QueueVBLOK DEF CmdDelayVBL, Startable
<1>8. ASSUME NEW r \in Requests, CmdDelayUntilVBL(r) PROVE DeviceOK'
  <2>1. PICK n \in 0 .. VblRange - 1, tvvbl \in 0 .. VblRange - 1 :
           QueueVBL(r, "delayUntilVBL", (n + VblRange - tvvbl) % VblRange)
    BY <1>8 DEF CmdDelayUntilVBL
  <2>2. (n + VblRange - tvvbl) % VblRange \in 0 .. VblRange - 1
    BY TimerDeviceAssumption
  <2>3. "delayUntilVBL" \in Commands
    BY DEF Commands
  <2> QED BY <1>0, <1>8, <2>1, <2>2, <2>3, QueueVBLOK DEF CmdDelayUntilVBL, Startable
<1>9. ASSUME NEW r \in Requests, CmdMetronomeVBL(r) PROVE DeviceOK'
  <2>1. PICK n \in VblCounts : QueueVBL(r, "metronomeVBL", n)
    BY <1>9 DEF CmdMetronomeVBL
  <2>2. n \in 0 .. VblRange - 1 /\ "metronomeVBL" \in Commands
    BY TimerDeviceAssumption DEF Commands
  <2> QED BY <1>0, <1>9, <2>1, <2>2, QueueVBLOK DEF CmdMetronomeVBL, Startable
<1>10. ASSUME NEW r \in Requests, AbortTimerIO(r) PROVE DeviceOK'
  BY <1>10, AbortOK
<1>11. CASE ProcessDue
  BY <1>11, ProcessDueOK
<1>12. CASE ProcessDone \/ USecHandler
  BY <1>0, <1>1, <1>12 DEF ProcessDone, USecHandler
<1>13. CASE VBLHandler
  BY <1>13, VBLHandlerOK
<1>14. CASE CmdSetTimeUSec
  BY <1>14, SetTimeOK
<1>15. ASSUME NEW t \in Timers,
              \/ ClientLoads(t) \/ ClientUnloads(t) \/ ClientCreates(t) \/ ClientDeletes(t)
       PROVE  UNCHANGED devVars
  BY <1>15 DEF ClientLoads, ClientUnloads, ClientCreates, ClientDeletes
<1>16. ClientHandlerReturns \/ TimePasses \/ TakeDecrementer \/ ServiceLoop
           => UNCHANGED devVars
  BY DEF ClientHandlerReturns, TimePasses, TakeDecrementer, ServiceLoop
<1> QED BY <1>2, <1>3, <1>4, <1>5, <1>6, <1>7, <1>8, <1>9, <1>10, <1>11, <1>12, <1>13,
           <1>14, <1>15, <1>16 DEF Next, vars

LEMMA ShapeInit == Init => ShapeInv
BY TimerOKInit, DeviceOKInit DEF ShapeInv

LEMMA ShapeStep == ShapeInv /\ [Next]_vars => ShapeInv'
BY TimerOKStep, DeviceOKStep DEF ShapeInv, DeviceOK

(* The state of the kernel's timers and of the timer device keeps its types: *)
(* in particular the list of armed timers holds no deleted one, the loaded   *)
(* delays fit the decrementer and the counts of blanks fit their 32 bits.    *)
THEOREM TypeCorrect == Spec => []TypeOK
<1>1. ShapeInv => TypeOK
  BY DEF ShapeInv, TimerOK, DeviceOK, DeviceTypeOK, TypeOK
<1> QED BY <1>1, ShapeInit, ShapeStep, PTL DEF Spec

(* Every request that is not done waits in exactly one of the two queues,    *)
(* once, and the queue by time is in order of the target times, whatever     *)
(* series of starts, aborts, beats and failed signals came before            *)
(* (ProcessUSecWaiters, VBLHandler, AbortTimerIO).                           *)
THEOREM RequestsWaitOnce == Spec => []WaitsInOneQueue
<1>1. ShapeInv => WaitsInOneQueue
  BY DEF ShapeInv, DeviceOK
<1> QED BY <1>1, ShapeInit, ShapeStep, PTL DEF Spec

-----------------------------------------------------------------------------
(* The decrementer fires in time.                                          *)

(* Arming a timer. *)
LEMMA LoadOnTime ==
    ASSUME TimerOK, ClockInv, NEW t \in created, NEW tt \in Nat, LoadTimer(t, tt),
           UNCHANGED <<now, serving, settling>>
    PROVE  ClockInv'
<1>1. /\ now \in Nat /\ created \subseteq Timers /\ dec \in Nat
      /\ tm_WakeTime \in [Timers -> Nat] /\ Nodes(waitq) \subseteq Timers
  BY TimerAssumption, Width DEF TimerOK, TimerTypeOK, Nodes
<1>2. /\ waitq' \in Seq(created) /\ waitq' # << >>
      /\ Nodes(waitq') = Nodes(waitq) \cup {t}
      /\ tm_WakeTime' \in [Timers -> Nat] /\ tm_WakeTime'[t] = now + tt
      /\ \A x \in Timers : x # t => tm_WakeTime'[x] = tm_WakeTime[x]
      /\ dec' \in 0 .. DecRange - 1 /\ (decPending => decPending')
      /\ IF Head(waitq') = t THEN now + dec' <= now + tt ELSE dec' = dec
  BY LoadEffect
<1>3. Rising(tm_WakeTime', waitq')
  BY LoadEffect DEF ClockInv
<1>4. PICK h : h = Head(waitq')
  OBVIOUS
<1>5. h \in Nodes(waitq') /\ \A x \in Nodes(waitq') : tm_WakeTime'[h] <= tm_WakeTime'[x]
  <2>1. waitq' \in Seq(Timers) /\ tm_WakeTime' \in [Timers -> Int]
    BY <1>1, <1>2
  <2> QED BY <1>2, <1>3, <1>4, <2>1, HeadFirst
<1>6. DecOnTime'
  <2>1. CASE decPending \/ serving
    BY <1>2, <2>1 DEF DecOnTime
  <2>2. CASE h = t
    <3>1. now + dec' <= tm_WakeTime'[h]
      BY <1>2, <1>4, <2>2
    <3>2. \A x \in Nodes(waitq') : tm_WakeTime'[h] \in Nat /\ tm_WakeTime'[x] \in Nat
      BY <1>1, <1>2, <1>5
    <3>3. dec' \in Nat
      BY <1>2, Width
    <3>4. \A x \in Nodes(waitq') : now + dec' <= tm_WakeTime'[x]
      BY <1>1, <1>5, <3>1, <3>2, <3>3
    <3> QED BY <3>4 DEF DecOnTime
  <2>3. CASE h # t /\ \A x \in Nodes(waitq) : now + dec <= tm_WakeTime[x]
    <3>1. h \in Nodes(waitq) /\ dec' = dec /\ tm_WakeTime'[h] = tm_WakeTime[h]
      BY <1>1, <1>2, <1>4, <1>5, <2>3
    <3>2. now + dec <= tm_WakeTime'[h]
      BY <2>3, <3>1
    <3>3. \A x \in Nodes(waitq') : tm_WakeTime'[h] \in Nat /\ tm_WakeTime'[x] \in Nat
      BY <1>1, <1>2, <1>5
    <3>4. \A x \in Nodes(waitq') : now + dec <= tm_WakeTime'[x]
      BY <1>1, <1>5, <3>2, <3>3
    <3> QED BY <3>1, <3>4 DEF DecOnTime
  <2>4. CASE h # t /\ settling /\ dec <= 1
    BY <1>2, <1>4, <2>4 DEF DecOnTime
  <2> QED BY <2>1, <2>2, <2>3, <2>4 DEF ClockInv, DecOnTime
<1> QED BY <1>3, <1>6 DEF ClockInv

(* Disarming a timer: the decrementer stays as it is, or is started for the  *)
(* next one.                                                                 *)
LEMMA DisarmOnTime ==
    ASSUME TimerOK, ClockInv, NEW t \in created, waitq' = WithoutNode(waitq, t),
           tm_WakeTime' = [tm_WakeTime EXCEPT ![t] = 0],
           UNCHANGED <<now, serving, settling>>,
           \/ UNCHANGED <<dec, decPending>>
           \/ waitq' = << >>
           \/ waitq' # << >> /\ StartDecrementer(tm_WakeTime[Head(waitq')])
    PROVE  ClockInv'
<1>1. /\ now \in Nat /\ created \subseteq Timers /\ dec \in Nat
      /\ tm_WakeTime \in [Timers -> Nat] /\ Nodes(waitq) \subseteq Timers
  BY TimerAssumption, Width DEF TimerOK, TimerTypeOK, Nodes
<1>2. /\ waitq' \in Seq(created) /\ Nodes(waitq') = Nodes(waitq) \ {t}
      /\ tm_WakeTime' \in [Timers -> Nat]
      /\ \A x \in Timers : x # t => tm_WakeTime'[x] = tm_WakeTime[x]
  BY DisarmEffect
<1>3. Rising(tm_WakeTime', waitq')
  BY DisarmEffect DEF ClockInv
<1>4. \A x \in Nodes(waitq') : x \in Nodes(waitq) /\ tm_WakeTime'[x] = tm_WakeTime[x]
  BY <1>1, <1>2
<1>5. CASE UNCHANGED <<dec, decPending>>
  <2>1. DecOnTime'
    BY <1>4, <1>5 DEF ClockInv, DecOnTime
  <2> QED BY <1>3, <2>1 DEF ClockInv
<1>6. CASE waitq' = << >>
  <2>1. Nodes(waitq') = {}
    BY <1>6 DEF Nodes
  <2>2. DecOnTime'
    BY <2>1 DEF DecOnTime
  <2> QED BY <1>3, <2>2 DEF ClockInv
<1>7. CASE waitq' # << >> /\ StartDecrementer(tm_WakeTime[Head(waitq')])
  <2>1. PICK h : h = Head(waitq')
    OBVIOUS
  <2>2. h \in Nodes(waitq') /\ \A x \in Nodes(waitq') : tm_WakeTime'[h] <= tm_WakeTime'[x]
    <3>1. waitq' \in Seq(Timers) /\ tm_WakeTime' \in [Timers -> Int]
      BY <1>1, <1>2
    <3> QED BY <1>2, <1>3, <1>7, <2>1, <3>1, HeadFirst
  <2>3. tm_WakeTime[h] \in Nat /\ tm_WakeTime[h] = tm_WakeTime'[h] /\ h \in Nodes(waitq)
    BY <1>1, <1>4, <2>2
  <2>4. /\ dec' \in 0 .. DecRange - 1 /\ (decPending => decPending')
        /\ (now <= tm_WakeTime[h] => now + dec' <= tm_WakeTime[h])
        /\ (now > tm_WakeTime[h] => dec' = 0)
    BY <1>7, <2>1, <2>3, StartDec DEF TimerOK
  <2>5. dec' \in Nat /\ \A x \in Nodes(waitq') : tm_WakeTime'[x] \in Nat
    BY <1>1, <1>2, <2>4, Width
  <2>6. CASE decPending \/ serving
    <3>1. DecOnTime'
      BY <2>4, <2>6 DEF DecOnTime
    <3> QED BY <1>3, <3>1 DEF ClockInv
  <2>7. CASE now <= tm_WakeTime[h]
    <3>1. \A x \in Nodes(waitq') : now + dec' <= tm_WakeTime'[x]
      BY <1>1, <2>2, <2>3, <2>4, <2>5, <2>7
    <3>2. DecOnTime'
      BY <3>1 DEF DecOnTime
    <3> QED BY <1>3, <3>2 DEF ClockInv
  <2>8. CASE now > tm_WakeTime[h] /\ ~decPending /\ ~serving
    <3>1. ~(now + dec <= tm_WakeTime[h])
      BY <1>1, <2>3, <2>8
    <3>2. settling
      BY <2>3, <2>8, <3>1 DEF ClockInv, DecOnTime
    <3>3. dec' <= 1
      BY <2>4, <2>8
    <3>4. DecOnTime'
      BY <3>2, <3>3 DEF DecOnTime
    <3> QED BY <1>3, <3>4 DEF ClockInv
  <2> QED BY <1>1, <2>3, <2>6, <2>7, <2>8
<1> QED BY <1>5, <1>6, <1>7

(* ClockInv holds at the start and every step keeps it, if the clock is set  *)
(* only while no periodic timer is armed: SuperSetSystemTimeTT moves those   *)
(* without sorting the list.                                                 *)
LEMMA ClockInit == Init => ClockInv
<1> SUFFICES ASSUME Init PROVE ClockInv
  OBVIOUS
<1>1. waitq = << >> /\ Nodes(waitq) = {} /\ Len(waitq) = 0
  BY DEF Init, TimerInit, Nodes
<1> QED BY <1>1 DEF ClockInv, Rising, DecOnTime

LEMMA ClockStep ==
    ASSUME ~SetsLate, ShapeInv, ClockInv, [Next]_vars
    PROVE  ClockInv'
<1>0. /\ now \in Nat /\ created \subseteq Timers /\ utimer \in created /\ dec \in Nat
      /\ tm_WakeTime \in [Timers -> Nat] /\ Nodes(waitq) \subseteq Timers
      /\ waitq \in Seq(Timers) /\ TimerOK /\ DeviceTypeOK
  BY TimerAssumption, Width DEF ShapeInv, TimerOK, TimerTypeOK, DeviceOK, Nodes
<1>1. CASE UNCHANGED <<now, dec, decPending, waitq, tm_WakeTime, serving, settling>>
  BY <1>1 DEF ClockInv, Rising, DecOnTime, Nodes
<1>2. CASE ProcessDone
  <2>1. CASE usecWaiters = << >>
    BY <1>1, <1>2, <2>1 DEF ProcessDone
  <2>2. CASE usecWaiters # << >>
    <3> DEFINE tg == ior[Head(usecWaiters)].target
    <3>1. tg \in Nat
      BY <1>0, <2>2 DEF DeviceTypeOK, Request
    <3>2. SubTimerTicks(now, tg) \in Nat
      BY <1>0, <3>1 DEF SubTimerTicks
    <3>3. /\ LoadTimer(utimer, SubTimerTicks(now, tg))
          /\ UNCHANGED <<now, serving, settling>>
      BY <1>2, <2>2 DEF ProcessDone
    <3> QED BY <1>0, <3>2, <3>3, LoadOnTime
  <2> QED BY <2>1, <2>2
<1>3. ASSUME NEW t \in Timers, ClientLoads(t) PROVE ClockInv'
  <2>1. PICK d \in Delays : LoadTimer(t, d)
    BY <1>3 DEF ClientLoads
  <2>2. d \in Nat /\ t \in created /\ UNCHANGED <<now, serving, settling>>
    BY <1>3, TimerAssumption DEF ClientLoads
  <2> QED BY <1>0, <2>1, <2>2, LoadOnTime
<1>4. ASSUME NEW t \in Timers, ClientUnloads(t) PROVE ClockInv'
  <2>1. /\ t \in created /\ UnloadTimer(t) /\ UNCHANGED <<now, serving, settling>>
    BY <1>4 DEF ClientUnloads
  <2>2. /\ waitq' = WithoutNode(waitq, t) /\ tm_WakeTime' = [tm_WakeTime EXCEPT ![t] = 0]
        /\ \/ UNCHANGED <<dec, decPending>>
           \/ waitq' = << >>
           \/ waitq' # << >> /\ StartDecrementer(tm_WakeTime[Head(waitq')])
    BY <2>1 DEF UnloadTimer
  <2> QED BY <1>0, <2>1, <2>2, DisarmOnTime
<1>5. ASSUME NEW t \in Timers, ClientDeletes(t) PROVE ClockInv'
  <2>1. /\ t \in created /\ internalDeleteTimer(t) /\ UNCHANGED <<now, serving, settling>>
    BY <1>5 DEF ClientDeletes, internalDeleteTimer
  <2>2. /\ waitq' = WithoutNode(waitq, t) /\ tm_WakeTime' = [tm_WakeTime EXCEPT ![t] = 0]
        /\ \/ UNCHANGED <<dec, decPending>>
           \/ waitq' = << >>
           \/ waitq' # << >> /\ StartDecrementer(tm_WakeTime[Head(waitq')])
    BY <2>1 DEF internalDeleteTimer
  <2> QED BY <1>0, <2>1, <2>2, DisarmOnTime
<1>6. CASE CmdSetTimeUSec
  <2>1. /\ Nodes(waitq) \cap Periodic = {} /\ dec' = 1 /\ settling' = TRUE
        /\ waitq' = waitq
        /\ \A x \in Timers : x \notin Nodes(waitq) \cap Periodic =>
                  tm_WakeTime'[x] = tm_WakeTime[x]
    BY <1>0, <1>6, SetTimeEffect
  <2>2. DecOnTime'
    BY <2>1 DEF DecOnTime
  <2>3. \A x \in Nodes(waitq) : tm_WakeTime'[x] = tm_WakeTime[x]
    BY <1>0, <2>1
  <2>4. Rising(tm_WakeTime', waitq)
    BY <2>3, RisingSame DEF ClockInv
  <2> QED BY <2>1, <2>2, <2>4 DEF ClockInv
<1>7. CASE TimePasses
  <2>1. /\ now' = now + 1 /\ dec' = (dec + DecRange - 1) % DecRange
        /\ UNCHANGED <<waitq, tm_WakeTime, serving, settling>>
    BY <1>7 DEF TimePasses, Tick
  <2>2. dec' = IF dec = 0 THEN DecRange - 1 ELSE dec - 1
    <3>1. dec \in 0 .. DecRange - 1 /\ DecRange \in Nat \ {0}
      BY Width DEF ShapeInv, TimerOK, TimerTypeOK
    <3> QED BY <2>1, <3>1, DecTick
  <2>3. decPending' = (decPending \/ dec = 0)
    BY <1>7 DEF TimePasses, Tick
  <2>4. CASE decPending \/ serving \/ dec = 0
    <3>1. decPending' \/ serving'
      BY <2>1, <2>3, <2>4
    <3> QED BY <2>1, <3>1 DEF ClockInv, DecOnTime
  <2>5. CASE dec # 0 /\ settling /\ dec <= 1
    <3>1. dec' <= 1
      BY <1>0, <2>2, <2>5
    <3> QED BY <2>1, <2>5, <3>1 DEF ClockInv, DecOnTime
  <2>6. CASE dec # 0 /\ \A t \in Nodes(waitq) : now + dec <= tm_WakeTime[t]
    <3>1. now' + dec' = now + dec
      BY <1>0, <2>1, <2>2, <2>6
    <3>2. \A t \in Nodes(waitq') : now' + dec' <= tm_WakeTime'[t]
      BY <2>1, <2>6, <3>1
    <3> QED BY <2>1, <3>2 DEF ClockInv, DecOnTime
  <2> QED BY <2>4, <2>5, <2>6 DEF ClockInv, DecOnTime
<1>8. CASE TakeDecrementer
  <2>1. serving' = TRUE /\ UNCHANGED <<waitq, tm_WakeTime>>
    BY <1>8 DEF TakeDecrementer, DecrementerException
  <2> QED BY <2>1 DEF ClockInv, DecOnTime
<1>9. CASE ServiceExpired
  <2>1. Rising(tm_WakeTime', waitq')
    BY <1>0, <1>9, ExpiredEffect DEF ClockInv
  <2>2. serving'
    BY <1>9 DEF ServiceExpired
  <2> QED BY <2>1, <2>2 DEF ClockInv, DecOnTime
<1>10. CASE ServiceDone
  <2>1. UNCHANGED <<now, waitq, tm_WakeTime, settling>>
    BY <1>10 DEF ServiceDone
  <2>2. CASE waitq = << >>
    <3>1. Nodes(waitq') = {}
      BY <2>1, <2>2 DEF Nodes
    <3>2. DecOnTime'
      BY <3>1 DEF DecOnTime
    <3> QED BY <2>1, <3>2 DEF ClockInv
  <2>3. CASE waitq # << >>
    <3>1. PICK h : h = Head(waitq)
      OBVIOUS
    <3>2. h \in Nodes(waitq) /\ \A x \in Nodes(waitq) : tm_WakeTime[h] <= tm_WakeTime[x]
      <4>1. tm_WakeTime \in [Timers -> Int]
        BY <1>0
      <4> QED BY <1>0, <2>3, <3>1, <4>1, HeadFirst DEF ClockInv
    <3>3. tm_WakeTime[h] \in Nat /\ \A x \in Nodes(waitq) : tm_WakeTime[x] \in Nat
      BY <1>0, <3>2
    <3>4. now < tm_WakeTime[h] /\ StartDecrementer(tm_WakeTime[h])
      BY <1>10, <2>3, <3>1 DEF ServiceDone
    <3>5. dec' \in 0 .. DecRange - 1 /\ (now <= tm_WakeTime[h] => now + dec' <= tm_WakeTime[h])
      BY <3>3, <3>4, StartDec DEF ShapeInv, TimerOK
    <3>6. dec' \in Nat
      BY <3>5, Width
    <3>7. \A x \in Nodes(waitq) : now + dec' <= tm_WakeTime[x]
      BY <1>0, <3>2, <3>3, <3>4, <3>5, <3>6
    <3>8. DecOnTime'
      BY <2>1, <3>7 DEF DecOnTime
    <3> QED BY <2>1, <3>8 DEF ClockInv
  <2> QED BY <2>2, <2>3
<1>11. ASSUME NEW r \in Requests,
              \/ CmdDelayUSec(r) \/ CmdDelayUntilUSec(r) \/ CmdMetronomeUSec(r)
              \/ CmdMetronomeUSecBad(r) \/ CmdDelayVBL(r) \/ CmdDelayUntilVBL(r)
              \/ CmdMetronomeVBL(r) \/ AbortTimerIO(r)
       PROVE  UNCHANGED timerVars
  BY <1>11 DEF CmdDelayUSec, CmdDelayUntilUSec, CmdMetronomeUSec, CmdMetronomeUSecBad,
               CmdDelayVBL, CmdDelayUntilVBL, CmdMetronomeVBL, AbortTimerIO, QueueUSec,
               QueueVBL
<1>12. ProcessDue \/ USecHandler \/ VBLHandler => UNCHANGED timerVars
  BY DEF ProcessDue, USecHandler, VBLHandler
<1>13. ASSUME UNCHANGED timerVars PROVE ClockInv'
  BY <1>1, <1>13 DEF timerVars
<1>14. ASSUME NEW t \in Timers, ClientCreates(t) PROVE ClockInv'
  BY <1>1, <1>14 DEF ClientCreates, internalCreateTimer
<1>15. CASE ClientHandlerReturns
  BY <1>1, <1>15 DEF ClientHandlerReturns
<1> QED BY <1>2, <1>3, <1>4, <1>5, <1>6, <1>7, <1>8, <1>9, <1>10, <1>11, <1>12, <1>13,
           <1>14, <1>15 DEF Next, ServiceLoop, vars

(* The decrementer interrupts no later than the first armed timer is due:    *)
(* also a delay that StartDecrementer had to cut to the width of the         *)
(* decrementer, also after timers were disarmed, and at once after the clock *)
(* was set.                                                                  *)
THEOREM DecrementerIsOnTime ==
    ASSUME ~SetsLate
    PROVE  Spec => []DecOnTime
<1>1. ShapeInv /\ ClockInv /\ [Next]_vars => ShapeInv' /\ ClockInv'
  BY ShapeStep, ClockStep
<1>2. ClockInv => DecOnTime
  BY DEF ClockInv
<1> QED BY <1>1, <1>2, ShapeInit, ClockInit, PTL DEF Spec

-----------------------------------------------------------------------------
(* The device's timer is loaded in time.                                   *)

LEMMA LoadedInit == Init => UTimerLoaded
BY DEF Init, UTimerLoaded

LEMMA LoadedStep ==
    ASSUME ShapeInv, UTimerLoaded, [Next]_vars
    PROVE  UTimerLoaded'
<1>0. /\ now \in Nat /\ created \subseteq Timers /\ utimer \in created /\ utimer \in Timers
      /\ TimerOK /\ DeviceOK /\ DeviceTypeOK /\ utimer \notin Periodic /\ utimer # NoTimer
      /\ Nodes(usecWaiters) \subseteq Requests /\ usecWaiters \in Seq(Requests)
      /\ Nodes(usecWaiters) \cup vblWaiters = Requests \ done
      /\ TargetTimes(ior) \in [Requests -> Nat]
      /\ (inHandler # NoTimer => serving)
  BY TimerAssumption, TimerDeviceAssumption, ByTime
     DEF ShapeInv, TimerOK, TimerTypeOK, DeviceOK, DeviceTypeOK, HandlersServed
\* The kernel's side of the step leaves the device's timer alone.
<1> DEFINE Same == /\ utimer \in Nodes(waitq) => utimer \in Nodes(waitq')
                   /\ tm_WakeTime'[utimer] = tm_WakeTime[utimer]
                   /\ inHandler = utimer => inHandler' = utimer
\* The device's side of the step puts no request forward.
           Fewer == /\ processing' = processing
                    /\ Nodes(usecWaiters') \subseteq Nodes(usecWaiters)
                    /\ usecWaiters = << >> => usecWaiters' = << >>
                    /\ \A r \in Nodes(usecWaiters') : ior'[r].target = ior[r].target
<1>1. ASSUME Same, Fewer PROVE UTimerLoaded'
  BY <1>1 DEF UTimerLoaded
<1>2. ASSUME UNCHANGED timerVars PROVE Same
  BY <1>2 DEF timerVars
<1>3. ASSUME UNCHANGED devVars PROVE Fewer
  BY <1>3 DEF devVars, queues
<1>4. ASSUME NEW r \in Requests,
             CmdDelayUSec(r) \/ CmdDelayUntilUSec(r) \/ CmdMetronomeUSec(r)
      PROVE  UTimerLoaded'
  BY <1>4 DEF CmdDelayUSec, CmdDelayUntilUSec, CmdMetronomeUSec, QueueUSec, UTimerLoaded
<1>5. ASSUME NEW r \in Requests, CmdMetronomeUSecBad(r) PROVE UTimerLoaded'
  <2>1. Same /\ Fewer
    BY <1>2, <1>5 DEF CmdMetronomeUSecBad, queues
  <2> QED BY <1>1, <2>1
<1>6. ASSUME NEW r \in Requests,
             CmdDelayVBL(r) \/ CmdDelayUntilVBL(r) \/ CmdMetronomeVBL(r)
      PROVE  UTimerLoaded'
  <2>1. r \in done /\ \E cmd, count : QueueVBL(r, cmd, count)
    BY <1>6 DEF CmdDelayVBL, CmdDelayUntilVBL, CmdMetronomeVBL, Startable
  <2>2. PICK req : ior' = [ior EXCEPT ![r] = req]
    BY <2>1 DEF QueueVBL
  <2>3. UNCHANGED timerVars /\ UNCHANGED <<usecWaiters, processing>>
    BY <2>1 DEF QueueVBL
  <2>4. r \notin Nodes(usecWaiters)
    BY <1>0, <2>1
  <2>5. \A x \in Nodes(usecWaiters) : ior'[x] = ior[x]
    BY <1>0, <2>2, <2>4 DEF DeviceTypeOK
  <2>6. Fewer
    BY <2>3, <2>5
  <2> QED BY <1>1, <1>2, <2>3, <2>6
<1>7. ASSUME NEW r \in Requests, AbortTimerIO(r) PROVE UTimerLoaded'
  <2>1. /\ UNCHANGED timerVars /\ processing' = processing
        /\ ior' = [ior EXCEPT ![r] = Leftover(r, {})]
    BY <1>7 DEF AbortTimerIO
  <2>2. /\ Nodes(usecWaiters') = Nodes(usecWaiters) \ {r}
        /\ usecWaiters' = WithoutNode(usecWaiters, r)
    BY <1>0, <1>7, AbortOK DEF AbortTimerIO
  <2>3. \A x \in Nodes(usecWaiters') : ior'[x] = ior[x]
    BY <1>0, <2>1, <2>2 DEF DeviceTypeOK
  <2>4. usecWaiters = << >> => usecWaiters' = << >>
    BY <2>2 DEF WithoutNode, Nodes
  <2>5. Fewer
    BY <2>1, <2>2, <2>3, <2>4
  <2> QED BY <1>1, <1>2, <2>1, <2>5
<1>8. CASE ProcessDue \/ USecHandler
  <2>1. ProcessDue => processing /\ processing' = processing
    BY DEF ProcessDue
  <2>2. USecHandler => processing' = TRUE
    BY DEF USecHandler
  <2> QED BY <1>8, <2>1, <2>2 DEF UTimerLoaded
<1>9. CASE ProcessDone
  <2>1. UNCHANGED <<usecWaiters, ior>>
    BY <1>9 DEF ProcessDone, queues
  <2>2. CASE usecWaiters = << >>
    BY <2>1, <2>2 DEF UTimerLoaded
  <2>3. CASE usecWaiters # << >>
    <3>1. PICK h : h = Head(usecWaiters)
      OBVIOUS
    <3>2. /\ h \in Nodes(usecWaiters)
          /\ \A x \in Nodes(usecWaiters) : TargetTimes(ior)[h] <= TargetTimes(ior)[x]
      <4>1. TargetTimes(ior) \in [Requests -> Int] /\ Rising(TargetTimes(ior), usecWaiters)
        BY <1>0, ByTime DEF DeviceOK
      <4> QED BY <1>0, <2>3, <3>1, <4>1, HeadFirst
    <3>3. \A x \in Nodes(usecWaiters) : ior[h].target <= ior[x].target
      BY <1>0, <3>2 DEF TargetTimes
    <3>4. ior[h].target \in Nat
      BY <1>0, <3>2 DEF DeviceTypeOK, Request
    <3>5. ior[h].target > now /\ LoadTimer(utimer, SubTimerTicks(now, ior[h].target))
      BY <1>9, <2>3, <3>1 DEF ProcessDone
    <3>6. /\ SubTimerTicks(now, ior[h].target) \in Nat
          /\ now + SubTimerTicks(now, ior[h].target) = ior[h].target
      BY <1>0, <3>4, <3>5 DEF SubTimerTicks
    <3>7. utimer \in Nodes(waitq') /\ tm_WakeTime'[utimer] = ior[h].target
      BY <1>0, <3>5, <3>6, LoadEffect
    <3> QED BY <2>1, <3>3, <3>7 DEF UTimerLoaded
  <2> QED BY <2>2, <2>3
<1>10. CASE VBLHandler
  <2>1. UNCHANGED timerVars /\ UNCHANGED <<usecWaiters, processing>>
    BY <1>10 DEF VBLHandler
  <2>2. Fewer
    BY <1>0, <1>10, <2>1, VBLHandlerOK
  <2> QED BY <1>1, <1>2, <2>1, <2>2
<1>11. ASSUME NEW t \in Timers, ClientLoads(t) PROVE UTimerLoaded'
  <2>1. PICK d \in Delays : LoadTimer(t, d)
    BY <1>11 DEF ClientLoads
  <2>2. /\ d \in Nat /\ t \in created /\ t # utimer /\ UNCHANGED devVars
        /\ Calm \/ inHandler = t
    BY <1>11, TimerAssumption DEF ClientLoads
  <2>3. inHandler # utimer
    BY <1>0, <2>2 DEF Calm
  <2>4. Same
    BY <1>0, <2>1, <2>2, <2>3, LoadEffect
  <2> QED BY <1>1, <1>3, <2>2, <2>4
<1>12. ASSUME NEW t \in Timers, ClientUnloads(t) \/ ClientDeletes(t) PROVE UTimerLoaded'
  <2>1. /\ t \in created /\ t # utimer /\ UNCHANGED devVars /\ inHandler' = inHandler
        /\ waitq' = WithoutNode(waitq, t) /\ tm_WakeTime' = [tm_WakeTime EXCEPT ![t] = 0]
    BY <1>12 DEF ClientUnloads, UnloadTimer, ClientDeletes, internalDeleteTimer
  <2>2. Same
    BY <1>0, <2>1, DisarmEffect
  <2> QED BY <1>1, <1>3, <2>1, <2>2
<1>13. ASSUME NEW t \in Timers, ClientCreates(t) PROVE UTimerLoaded'
  <2>1. Same /\ UNCHANGED devVars
    BY <1>13 DEF ClientCreates, internalCreateTimer
  <2> QED BY <1>1, <1>3, <2>1
<1>14. CASE \/ ClientHandlerReturns \/ TimePasses \/ TakeDecrementer
            \/ ServiceDone /\ UNCHANGED devVars
  <2>1. Same /\ UNCHANGED devVars
    BY <1>0, <1>14 DEF ClientHandlerReturns, TimePasses, Tick, TakeDecrementer,
                       DecrementerException, ServiceDone
  <2> QED BY <1>1, <1>3, <2>1
<1>15. CASE CmdSetTimeUSec
  <2>1. Same
    BY <1>0, <1>15, SetTimeEffect
  <2>2. Fewer
    <3>1. processing' = processing
      BY <1>15 DEF CmdSetTimeUSec
    <3> QED BY <1>0, <1>15, <3>1, SetTimeOK
  <2> QED BY <1>1, <2>1, <2>2
<1>16. CASE ServiceExpired /\ UNCHANGED devVars
  <2>1. CASE Head(waitq) = utimer
    BY <1>0, <1>16, <2>1, ExpiredEffect DEF UTimerLoaded
  <2>2. CASE Head(waitq) # utimer
    <3>1. inHandler # utimer
      BY <1>0, <1>16 DEF ServiceExpired
    <3>2. Same
      BY <1>0, <1>16, <2>2, <3>1, ExpiredEffect
    <3> QED BY <1>1, <1>3, <1>16, <3>2
  <2> QED BY <2>1, <2>2
<1>17. CASE UNCHANGED vars
  BY <1>1, <1>2, <1>3, <1>17 DEF vars
<1> QED BY <1>4, <1>5, <1>6, <1>7, <1>8, <1>9, <1>10, <1>11, <1>12, <1>13, <1>14, <1>15,
           <1>16, <1>17 DEF Next, ServiceLoop

(* While nothing looks at the queue, no request in it is overdue. *)
LEMMA QueueOnTime ==
    ASSUME ShapeInv, ClockInv, UTimerLoaded
    PROVE  NothingOverdue
<1>0. /\ now \in Nat /\ dec \in Nat /\ TimerOK /\ DeviceTypeOK
      /\ Nodes(usecWaiters) \subseteq Requests
      /\ tm_WakeTime \in [Timers -> Nat] /\ Nodes(waitq) \subseteq Timers
  BY TimerAssumption, Width, ByTime
     DEF ShapeInv, TimerOK, TimerTypeOK, DeviceOK, Nodes
<1>1. ASSUME NEW t \in Nodes(waitq), tm_WakeTime[t] < now PROVE Alerted
  <2>1. tm_WakeTime[t] \in Nat
    BY <1>0
  <2>2. ~(now + dec <= tm_WakeTime[t])
    BY <1>0, <1>1, <2>1
  <2> QED BY <2>2 DEF Alerted, ClockInv, DecOnTime
<1>2. ASSUME NEW r \in Nodes(usecWaiters), ior[r].target < now, ~processing
      PROVE  Alerted
  <2>1. CASE inHandler = utimer
    BY <2>1, TimerAssumption, TimerDeviceAssumption
       DEF ShapeInv, TimerOK, HandlersServed, Alerted
  <2>2. CASE inHandler # utimer
    <3>1. usecWaiters # << >>
      BY <1>2 DEF Nodes
    <3>2. utimer \in Nodes(waitq) /\ tm_WakeTime[utimer] <= ior[r].target
      BY <1>2, <2>2, <3>1 DEF UTimerLoaded
    <3>3. ior[r].target \in Nat /\ tm_WakeTime[utimer] \in Nat
      BY <1>0, <3>2 DEF DeviceTypeOK, Request
    <3>4. tm_WakeTime[utimer] < now
      BY <1>0, <1>2, <3>2, <3>3
    <3> QED BY <1>1, <3>2, <3>4
  <2> QED BY <2>1, <2>2
<1> QED BY <1>1, <1>2 DEF NothingOverdue

(* Nobody is forgotten past its time: when a timer or a request is overdue,  *)
(* an interrupt is looking for it (StartDecrementer, LoadTimer, UnloadTimer, *)
(* ProcessUSecWaiters; all requests share one timer, loaded for the first).  *)
THEOREM NobodyIsForgotten ==
    ASSUME ~SetsLate
    PROVE  Spec => []NothingOverdue
<1> DEFINE Inv == ShapeInv /\ ClockInv /\ UTimerLoaded
<1>1. Init => Inv
  BY ShapeInit, ClockInit, LoadedInit
<1>2. Inv /\ [Next]_vars => Inv'
  BY ShapeStep, ClockStep, LoadedStep
<1>3. Inv => NothingOverdue
  BY QueueOnTime
<1> QED BY <1>1, <1>2, <1>3, PTL DEF Spec

-----------------------------------------------------------------------------
(* Metronomes.                                                             *)

(* One more beat. *)
LEMMA OneMore ==
    ASSUME NEW n \in Nat, NEW d \in Nat
    PROVE  (n + 1) * d = n * d + d /\ n * d \in Nat
OBVIOUS

LEMMA BeatsInit == Init => BeatsInStep
<1> SUFFICES ASSUME Init PROVE BeatsInStep
  OBVIOUS
<1>1. metronome = {}
  BY DEF Init
<1> QED BY <1>1 DEF BeatsInStep

LEMMA BeatsStep ==
    ASSUME ShapeInv, BeatsInStep, [Next]_vars
    PROVE  BeatsInStep'
<1>0. /\ now \in Nat /\ TimerTypeOK /\ DeviceOK /\ DeviceTypeOK
      /\ Nodes(usecWaiters) \subseteq Requests /\ ior \in [Requests -> Request]
      /\ Nodes(usecWaiters) \cup vblWaiters = Requests \ done
  BY TimerAssumption, ByTime DEF ShapeInv, TimerOK, TimerTypeOK, DeviceOK, DeviceTypeOK
\* Request r is in step.
<1> DEFINE InStep(r, q, when) ==
        q[r].command = "metronomeUSec" /\ q[r].started # Lost =>
            /\ q[r].target = q[r].started + (q[r].pings + 1) * q[r].interval
            /\ q[r].started + q[r].pings * q[r].interval <= when
<1>1. \A r \in Nodes(usecWaiters) \cap metronome : InStep(r, ior, now)
  BY DEF BeatsInStep
<1>2. ASSUME \A r \in Nodes(usecWaiters') \cap metronome' : InStep(r, ior', now')
      PROVE  BeatsInStep'
  BY <1>2 DEF BeatsInStep
<1>3. \A r \in Requests : ior[r] \in Request
  BY <1>0
<1>4. ASSUME NEW r \in Requests, InStep(r, ior, now), now' \in Nat, now <= now',
             ior'[r] = ior[r]
      PROVE  InStep(r, ior', now')
  <2>1. ASSUME ior[r].started # Lost
        PROVE  ior[r].started + ior[r].pings * ior[r].interval \in Nat
    <3>1. ior[r].started \in Nat /\ ior[r].pings \in Nat /\ ior[r].interval \in Nat
      BY <1>3, <2>1 DEF Request
    <3> QED BY <3>1, OneMore
  <2>2. PICK x : x = ior[r].started + ior[r].pings * ior[r].interval
    OBVIOUS
  <2> QED BY <1>0, <1>4, <2>1, <2>2
<1> HIDE DEF InStep
\* A step that keeps the other requests and does not set the clock.
<1>5. ASSUME NEW r, now' = now, \A x \in Nodes(usecWaiters') : x # r =>
                 /\ x \in Nodes(usecWaiters) /\ ior'[x] = ior[x]
                 /\ x \in metronome' => x \in metronome,
             r \in Nodes(usecWaiters') \cap metronome' => InStep(r, ior', now')
      PROVE  BeatsInStep'
  <2> SUFFICES ASSUME NEW x \in Nodes(usecWaiters') \cap metronome'
               PROVE  InStep(x, ior', now')
    BY <1>2
  <2>1. CASE x = r
    BY <1>5, <2>1
  <2>2. CASE x # r
    <3>1. x \in Nodes(usecWaiters) \cap metronome /\ ior'[x] = ior[x]
      BY <1>5, <2>2
    <3> QED BY <1>0, <1>1, <1>4, <1>5, <3>1
  <2> QED BY <2>1, <2>2
<1>6. CASE UNCHANGED <<usecWaiters, metronome, ior>> /\ (now' = now \/ TimePasses)
  <2>1. now' \in Nat /\ now <= now'
    BY <1>0, <1>6 DEF TimePasses, Tick
  <2>2. ASSUME NEW r \in Nodes(usecWaiters') \cap metronome' PROVE InStep(r, ior', now')
    <3>1. r \in Nodes(usecWaiters) \cap metronome /\ ior'[r] = ior[r] /\ r \in Requests
      BY <1>0, <1>6
    <3> QED BY <1>1, <1>4, <2>1, <3>1
  <2> QED BY <1>2, <2>2
\* The USec commands.
<1>7. ASSUME NEW r \in Requests, r \in done, NEW req \in Request, QueueUSec(r, req),
             metronome' \subseteq metronome \cup {r},
             r \in metronome' => InStep(r, [ior EXCEPT ![r] = req], now)
      PROVE  BeatsInStep'
  <2> DEFINE reqs == [ior EXCEPT ![r] = req]
  <2>1. now' = now /\ ior' = reqs
    BY <1>7 DEF QueueUSec, timerVars
  <2>2. Nodes(usecWaiters') = Nodes(usecWaiters) \cup {r}
    <3>1. /\ usecWaiters \in Seq(Requests) /\ Distinct(usecWaiters)
          /\ Rising(TargetTimes(ior), usecWaiters) /\ r \notin Nodes(usecWaiters)
      BY <1>0, <1>7, ByTime DEF DeviceOK, DeviceTypeOK
    <3>2. reqs \in [Requests -> Request] /\ Rising(TargetTimes(reqs), usecWaiters)
      BY <1>0, <1>7, <3>1, OthersOnTime
    <3>3. usecWaiters' = ByTarget(usecWaiters, r, reqs)
      BY <1>7 DEF QueueUSec
    <3> HIDE DEF reqs
    <3> QED BY <1>7, <3>1, <3>2, <3>3, InsertedByTarget
  <2>3. \A x \in Requests : x # r => ior'[x] = ior[x]
    BY <1>0, <2>1
  <2>4. r \in metronome' => InStep(r, ior', now')
    BY <1>7, <2>1
  <2> QED BY <1>0, <1>5, <1>7, <2>1, <2>2, <2>3, <2>4
<1>8. ASSUME NEW r \in Requests, CmdDelayUSec(r) \/ CmdDelayUntilUSec(r) PROVE BeatsInStep'
  <2>1. PICK req \in Request :
            QueueUSec(r, req) /\ req.command # "metronomeUSec" /\ metronome' = metronome
    BY <1>0, <1>8, NewDelay, NewDelayUntil
  <2>2. r \in done
    BY <1>8 DEF CmdDelayUSec, CmdDelayUntilUSec, Startable
  <2>3. InStep(r, [ior EXCEPT ![r] = req], now)
    BY <1>0, <2>1 DEF InStep
  <2> QED BY <1>7, <2>1, <2>2, <2>3
<1>9. ASSUME NEW r \in Requests, CmdMetronomeUSec(r) PROVE BeatsInStep'
  <2>1. PICK req \in Request :
            /\ QueueUSec(r, req) /\ metronome' = metronome \cup {r}
            /\ req.target = now + req.interval /\ req.started = now /\ req.pings = 0
    BY <1>0, <1>9, NewMetronome
  <2>2. r \in done
    BY <1>9 DEF CmdMetronomeUSec, Startable
  <2>3. InStep(r, [ior EXCEPT ![r] = req], now)
    <3>1. [ior EXCEPT ![r] = req][r] = req
      BY <1>0
    <3>2. PICK iv \in Nat : iv = req.interval
      BY <2>1 DEF Request
    <3>3. (0 + 1) * iv = iv /\ 0 * iv = 0
      BY <3>2
    <3>4. /\ req.target = req.started + (req.pings + 1) * req.interval
          /\ req.started + req.pings * req.interval <= now
      BY <1>0, <2>1, <3>2, <3>3
    <3> QED BY <3>1, <3>4 DEF InStep
  <2> QED BY <1>7, <2>1, <2>2, <2>3
<1>10. ASSUME NEW r \in Requests,
              \/ CmdMetronomeUSecBad(r) \/ CmdDelayVBL(r) \/ CmdDelayUntilVBL(r)
              \/ CmdMetronomeVBL(r)
       PROVE  BeatsInStep'
  <2>1. /\ r \in done /\ now' = now /\ usecWaiters' = usecWaiters
        /\ metronome' \subseteq metronome \cup {r}
    BY <1>10 DEF CmdMetronomeUSecBad, CmdDelayVBL, CmdDelayUntilVBL, CmdMetronomeVBL,
                 Startable, QueueVBL, timerVars, queues
  <2>2. ior' = ior \/ \E req : ior' = [ior EXCEPT ![r] = req]
    BY <1>10 DEF CmdMetronomeUSecBad, CmdDelayVBL, CmdDelayUntilVBL, CmdMetronomeVBL, QueueVBL
  <2>3. \A x \in Requests : x # r => ior'[x] = ior[x]
    BY <1>0, <2>2
  <2>4. r \notin Nodes(usecWaiters')
    BY <1>0, <2>1
  <2> QED BY <1>0, <1>5, <2>1, <2>3, <2>4
<1>11. ASSUME NEW r \in Requests, AbortTimerIO(r) PROVE BeatsInStep'
  <2>1. /\ now' = now /\ metronome' = metronome \ {r}
        /\ ior' = [ior EXCEPT ![r] = Leftover(r, {})]
    BY <1>11 DEF AbortTimerIO, timerVars
  <2>2. Nodes(usecWaiters') = Nodes(usecWaiters) \ {r}
    BY <1>0, <1>11, AbortOK
  <2>3. \A x \in Requests : x # r => ior'[x] = ior[x]
    BY <1>0, <2>1
  <2> QED BY <1>0, <1>5, <2>1, <2>2, <2>3
<1>12. CASE ProcessDue
  <2>1. PICK r : r = Head(usecWaiters)
    OBVIOUS
  <2>2. PICK nb : nb = NextBeat(r)
    OBVIOUS
  <2>3. PICK n : n = IF ior[r].started = Lost THEN 0 ELSE ior[r].pings + 1
    OBVIOUS
  <2>4. /\ usecWaiters # << >> /\ ior[r].target <= now /\ now' = now
        /\ metronome' = metronome
        /\ \/ /\ r \in metronome /\ ior' = [ior EXCEPT ![r].target = nb, ![r].pings = n]
              /\ usecWaiters' = ByTarget(Tail(usecWaiters), r, ior')
           \/ /\ ior' = [ior EXCEPT ![r] = Leftover(r, metronome)]
              /\ usecWaiters' = Tail(usecWaiters)
    BY <1>12, <2>1, <2>2, <2>3 DEF ProcessDue, timerVars
  <2>5. \A x \in Requests : x # r => ior'[x] = ior[x]
    BY <1>0, <2>4
  <2>6. PICK s : s = Tail(usecWaiters)
    OBVIOUS
  <2>7. /\ s \in Seq(Requests) /\ Distinct(s) /\ Nodes(s) = Nodes(usecWaiters) \ {r}
        /\ r \in Nodes(usecWaiters) /\ r \in Requests
    <3>1. usecWaiters \in Seq(Requests) /\ Distinct(usecWaiters) /\ r = usecWaiters[1]
      BY <1>0, <2>1, <2>4, ByTime DEF DeviceOK, DeviceTypeOK
    <3> QED BY <2>4, <2>6, <3>1, TailNodes
  <2>8. CASE /\ r \in metronome /\ ior' = [ior EXCEPT ![r].target = nb, ![r].pings = n]
             /\ usecWaiters' = ByTarget(Tail(usecWaiters), r, ior')
    <3>1. Nodes(usecWaiters') \subseteq Nodes(s) \cup {r}
      <4>1. PICK later : usecWaiters' = UniversalInsertNode(s, r, later)
        BY <2>6, <2>8 DEF ByTarget
      <4>2. r \notin Nodes(s)
        BY <2>7
      <4> QED BY <2>7, <4>1, <4>2, UniversalInsertList
    <3>2. InStep(r, ior', now')
      <4>0. ior[r] \in Request
        BY <1>3, <2>7
      <4>1. ior'[r] = [ior[r] EXCEPT !.target = nb, !.pings = n]
        BY <1>0, <2>7, <2>8
      <4>2. /\ ior'[r].target = nb /\ ior'[r].pings = n /\ ior'[r].interval = ior[r].interval
            /\ ior'[r].started = ior[r].started /\ ior'[r].command = ior[r].command
        BY <4>0, <4>1 DEF Request
      <4>3. SUFFICES ASSUME ior[r].command = "metronomeUSec", ior[r].started # Lost
                     PROVE  /\ nb = ior[r].started + (n + 1) * ior[r].interval
                            /\ ior[r].started + n * ior[r].interval <= now'
        BY <4>2 DEF InStep
      <4>4. PICK st \in Nat, pg \in Nat, iv \in Nat :
               st = ior[r].started /\ pg = ior[r].pings /\ iv = ior[r].interval
        BY <4>0, <4>3 DEF Request
      <4>5. ior[r].target = st + (pg + 1) * iv
        BY <1>1, <2>7, <2>8, <4>3, <4>4 DEF InStep
      <4>6. n = pg + 1 /\ nb = ior[r].target + iv
        BY <2>2, <2>3, <4>3, <4>4 DEF NextBeat
      <4>7. n \in Nat /\ (n + 1) * iv = n * iv + iv /\ n * iv \in Nat
        BY <4>6, OneMore
      <4>8. ior[r].target = st + n * iv
        BY <4>5, <4>6
      <4>9. nb = st + (n + 1) * iv
        BY <4>6, <4>7, <4>8
      <4> QED BY <2>4, <4>4, <4>8, <4>9
    <3> QED BY <1>5, <2>4, <2>5, <2>7, <3>1, <3>2, <1>0
  <2>9. CASE /\ ior' = [ior EXCEPT ![r] = Leftover(r, metronome)]
             /\ usecWaiters' = Tail(usecWaiters)
    <3>1. Nodes(usecWaiters') = Nodes(usecWaiters) \ {r}
      BY <2>6, <2>7, <2>9
    <3> QED BY <1>0, <1>5, <2>4, <2>5, <3>1
  <2> QED BY <2>4, <2>8, <2>9
<1>13. CASE VBLHandler
  <2>1. UNCHANGED <<usecWaiters, metronome>> /\ now' = now
    BY <1>13 DEF VBLHandler, timerVars
  <2>2. \A x \in Nodes(usecWaiters) : ior'[x] = ior[x]
    BY <1>0, <1>13, VBLHandlerOK
  <2>3. ASSUME NEW x \in Nodes(usecWaiters') \cap metronome' PROVE InStep(x, ior', now')
    <3>1. x \in Nodes(usecWaiters) \cap metronome /\ x \in Requests
      BY <1>0, <2>1
    <3> QED BY <1>0, <1>1, <1>4, <2>1, <2>2, <3>1
  <2> QED BY <1>2, <2>3
<1>14. CASE CmdSetTimeUSec
  <2>1. /\ UNCHANGED <<usecWaiters, metronome>>
        /\ \A r \in Nodes(usecWaiters) \cap metronome : ior'[r].started = Lost
    BY <1>0, <1>14, SetTimeOK
  <2>2. \A r \in Nodes(usecWaiters') \cap metronome' : InStep(r, ior', now')
    BY <2>1 DEF InStep
  <2> QED BY <1>2, <2>2
<1>15. CASE ProcessDone \/ USecHandler
  BY <1>6, <1>15 DEF ProcessDone, USecHandler, queues, timerVars
<1>16. ASSUME NEW t \in Timers,
              \/ ClientLoads(t) \/ ClientUnloads(t) \/ ClientCreates(t) \/ ClientDeletes(t)
       PROVE  BeatsInStep'
  BY <1>6, <1>16 DEF ClientLoads, ClientUnloads, ClientCreates, ClientDeletes,
                     internalCreateTimer, internalDeleteTimer, devVars, queues
<1>17. CASE ClientHandlerReturns \/ TimePasses \/ TakeDecrementer \/ ServiceLoop
  BY <1>6, <1>17 DEF ClientHandlerReturns, TimePasses, TakeDecrementer, ServiceLoop,
                     DecrementerException, ServiceExpired, ServiceDone, devVars, queues
<1>18. CASE UNCHANGED vars
  BY <1>6, <1>18 DEF vars, timerVars, devVars, queues
<1> QED BY <1>8, <1>9, <1>10, <1>11, <1>12, <1>13, <1>14, <1>15, <1>16, <1>17, <1>18 DEF Next

(* A metronome neither drifts nor loses beats, however late its interrupts   *)
(* are served: the signals sent are as many as whole intervals have passed   *)
(* since the start, unless an interrupt sends them now (ProcessUSecWaiters   *)
(* moves the target time on by the interval, not from the time of service).  *)
THEOREM MetronomesKeepCount ==
    ASSUME ~SetsLate
    PROVE  Spec => []MetronomeKeepsCount
<1> DEFINE Inv == ShapeInv /\ ClockInv /\ UTimerLoaded /\ BeatsInStep
<1>1. Init => Inv
  BY ShapeInit, ClockInit, LoadedInit, BeatsInit
<1>2. Inv /\ [Next]_vars => Inv'
  BY ShapeStep, ClockStep, LoadedStep, BeatsStep
<1>3. Inv => MetronomeKeepsCount
  <2> SUFFICES ASSUME Inv, NEW r \in Nodes(usecWaiters) \cap metronome,
                      ior[r].command = "metronomeUSec", ior[r].started # Lost
               PROVE  /\ ior[r].pings * ior[r].interval <= now - ior[r].started
                      /\ \/ Alerted \/ processing
                         \/ now - ior[r].started <= (ior[r].pings + 1) * ior[r].interval
    BY DEF MetronomeKeepsCount
  <2>1. now \in Nat /\ r \in Requests /\ ior[r] \in Request
    BY TimerAssumption, ByTime DEF ShapeInv, TimerOK, TimerTypeOK, DeviceOK, DeviceTypeOK
  <2>2. PICK st \in Nat, pg \in Nat, iv \in Nat :
           st = ior[r].started /\ pg = ior[r].pings /\ iv = ior[r].interval
    BY <2>1 DEF Request
  <2>3. ior[r].target = st + (pg + 1) * iv /\ st + pg * iv <= now
    BY <2>2 DEF BeatsInStep
  <2>4. pg * iv \in Nat /\ (pg + 1) * iv \in Nat
    BY OneMore
  <2>5. pg * iv <= now - st
    BY <2>1, <2>3, <2>4
  <2>6. ASSUME ~Alerted, ~processing PROVE now - st <= (pg + 1) * iv
    <3>1. ~(ior[r].target < now)
      BY <2>6, QueueOnTime DEF NothingOverdue
    <3> QED BY <2>1, <2>3, <2>4, <3>1
  <2> QED BY <2>2, <2>5, <2>6
<1> QED BY <1>1, <1>2, <1>3, PTL DEF Spec

=============================================================================
