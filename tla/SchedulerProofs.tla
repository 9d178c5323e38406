--------------------------- MODULE SchedulerProofs ---------------------------
(***************************************************************************)
(* Proofs that the safety properties of Scheduler hold for every set of    *)
(* tasks, every set of priorities and every quantum.                       *)
(***************************************************************************)
EXTENDS Scheduler, ListProofs

(* A ready queue in good order, for the priorities pri.                     *)
GoodQueue(q, pri) == q \in Seq(Tasks) /\ Distinct(q) /\ Sorted(pri, q)

(* Whoever is ready has been taken notice of: a reschedule is pending for   *)
(* tasks of higher priority, and the timer runs for those of the same.      *)
Noticed(N, cur, pri, armed, pr) ==
    /\ cur = NoTask /\ N # {} => pr
    /\ cur # NoTask => \A t \in N : /\ pri[t] > pri[cur] => pr
                                    /\ pri[t] = pri[cur] => armed \/ pr

(* Without removes exactly the task it is given.                            *)
LEMMA WithoutGood ==
    ASSUME NEW q, NEW pri, GoodQueue(q, pri), NEW t
    PROVE  /\ GoodQueue(Without(q, t), pri)
           /\ Nodes(Without(q, t)) = Nodes(q) \ {t}
<1>1. CASE t \in Nodes(q)
  <2> PICK i : i = CHOOSE j \in 1 .. Len(q) : q[j] = t
    OBVIOUS
  <2>1. i \in 1 .. Len(q) /\ q[i] = t
    BY <1>1 DEF Nodes
  <2>2. Without(q, t) = WithoutAt(q, i)
    BY <1>1 DEF Without
  <2>3. WithoutAt(q, i) \in Seq(Tasks)
    BY <2>1, WithoutAtSeq DEF GoodQueue
  <2>4. /\ Distinct(WithoutAt(q, i))
        /\ Nodes(WithoutAt(q, i)) = Nodes(q) \ {q[i]}
        /\ Sorted(pri, WithoutAt(q, i))
    BY <2>1, WithoutAtNodes DEF GoodQueue
  <2> QED BY <2>1, <2>2, <2>3, <2>4 DEF GoodQueue
<1>2. CASE t \notin Nodes(q)
  BY <1>2 DEF Without
<1> QED BY <1>1, <1>2

(* A priority insertion adds exactly one task and keeps the order.          *)
LEMMA InsertGood ==
    ASSUME NEW q, NEW pri \in [Tasks -> Nat], GoodQueue(q, pri),
           NEW t \in Tasks, t \notin Nodes(q), NEW k,
           FromTail(pri, q, t, k) \/ FromHead(pri, q, t, k)
    PROVE  /\ GoodQueue(InsertAfter(q, k, t), pri)
           /\ Nodes(InsertAfter(q, k, t)) = Nodes(q) \cup {t}
<1>0. q \in Seq(Tasks) /\ Distinct(q) /\ Sorted(pri, q)
  BY DEF GoodQueue
<1>1. k \in 0 .. Len(q)
  BY DEF FromTail, FromHead
<1>2. InsertAfter(q, k, t) \in Seq(Tasks)
  BY <1>0, <1>1, InsertSeq
<1>3. /\ Distinct(InsertAfter(q, k, t))
      /\ Nodes(InsertAfter(q, k, t)) = Nodes(q) \cup {t}
  BY <1>0, <1>1, InsertNodes
<1>4. Sorted(pri, InsertAfter(q, k, t))
  BY <1>0, InsertSorted
<1> QED BY <1>2, <1>3, <1>4 DEF GoodQueue

(* The first task of the queue has the highest priority, and RemHead takes  *)
(* it off.                                                                  *)
LEMMA HeadGood ==
    ASSUME NEW q, NEW pri \in [Tasks -> Nat], GoodQueue(q, pri), q # << >>
    PROVE  /\ q[1] \in Tasks /\ q[1] \in Nodes(q)
           /\ GoodQueue(Tail(q), pri)
           /\ Nodes(Tail(q)) = Nodes(q) \ {q[1]}
           /\ \A t \in Nodes(q) : pri[t] <= pri[q[1]]
<1>0. q \in Seq(Tasks) /\ Distinct(q) /\ Sorted(pri, q)
  BY DEF GoodQueue
<1>1. /\ q[1] \in Nodes(q) /\ q[1] \in Tasks
      /\ Tail(q) \in Seq(Tasks)
      /\ Distinct(Tail(q))
      /\ Nodes(Tail(q)) = Nodes(q) \ {q[1]}
      /\ Sorted(pri, Tail(q))
  BY <1>0, TailNodes
<1>2. ASSUME NEW i \in 1 .. Len(q)
      PROVE  pri[q[i]] <= pri[q[1]]
  <2>1. 1 \in 1 .. Len(q) /\ (i = 1 \/ 1 < i)
    BY <1>0
  <2>2. pri[q[i]] \in Nat /\ pri[q[1]] \in Nat
    BY <1>0, <1>1
  <2> QED BY <1>0, <2>1, <2>2 DEF Sorted
<1> QED BY <1>1, <1>2 DEF GoodQueue, Nodes

(* An empty queue has no tasks on it, and another one has.                  *)
LEMMA EmptyNodes ==
    ASSUME NEW q \in Seq(Tasks)
    PROVE  Nodes(q) = {} <=> q = << >>
<1>1. q = << >> => Nodes(q) = {}
  BY DEF Nodes
<1>2. q # << >> => q[1] \in Nodes(q)
  BY DEF Nodes
<1> QED BY <1>1, <1>2

-----------------------------------------------------------------------------
(* Launch of a task that nobody left on the queue exceeds in priority.      *)
LEMMA LaunchGood ==
    ASSUME TypeOK, NEW t \in Tasks, NEW q, NEW pri \in [Tasks -> Nat],
           NEW rem \in 0 .. Quantum, GoodQueue(q, pri),
           \A u \in Nodes(q) : pri[u] <= pri[t],
           Launch(t, q, rem, pri)
    PROVE  /\ readyQ' = q
           /\ current' = t
           /\ pleaseReschedule' = FALSE
           /\ ran' \in 0 .. Quantum
           /\ timerArmed' \in BOOLEAN
           /\ timerLeft' \in 0 .. Quantum
           /\ Noticed(Nodes(q), t, pri, timerArmed', FALSE)
<1> USE SchedulerAssumption
<1>1. /\ readyQ' = q /\ current' = t /\ pleaseReschedule' = FALSE /\ ran' = 0
      /\ timerArmed' = (q # << >> /\ pri[q[1]] = pri[t])
      /\ timerLeft' = IF timerArmed' THEN rem ELSE 0
  BY DEF Launch
<1>2. 0 \in 0 .. Quantum
  OBVIOUS
<1>3. ASSUME NEW u \in Nodes(q)
      PROVE  ~(pri[u] > pri[t]) /\ (pri[u] = pri[t] => timerArmed')
  <2>1. q # << >>
    BY EmptyNodes DEF GoodQueue
  <2>2. q[1] \in Tasks /\ q[1] \in Nodes(q) /\ pri[u] <= pri[q[1]]
    BY <2>1, HeadGood
  <2>3. u \in Tasks
    BY DEF GoodQueue, Nodes
  <2>4. pri[u] \in Nat /\ pri[t] \in Nat /\ pri[q[1]] \in Nat
    BY <2>2, <2>3
  <2>5. pri[u] <= pri[t] /\ pri[q[1]] <= pri[t]
    BY <2>2
  <2>6. pri[u] = pri[t] => pri[q[1]] = pri[t]
    BY <2>2, <2>4, <2>5
  <2>7. ~(pri[u] > pri[t])
    BY <2>4, <2>5
  <2>8. pri[u] = pri[t] => timerArmed'
    BY <1>1, <2>1, <2>6
  <2> QED BY <2>7, <2>8
<1>4. t # NoTask
  OBVIOUS
<1>5. Noticed(Nodes(q), t, pri, timerArmed', FALSE)
  BY <1>3, <1>4 DEF Noticed
<1> QED BY <1>1, <1>2, <1>5

(* NewReadyTask puts its task on the queue and takes notice of it, and so   *)
(* of the tasks behind it; the others had been taken notice of.             *)
LEMMA NewReadyGood ==
    ASSUME TypeOK, expired \subseteq {current},
           NEW t \in Tasks, NEW q, NEW pri \in [Tasks -> Nat], NEW susp,
           GoodQueue(q, pri), t \notin Nodes(q),
           \/ Noticed(Nodes(q), current, pri, timerArmed, pleaseReschedule)
           \/ t \notin susp /\ \A u \in Nodes(q) : pri[u] <= pri[t],
           NewReadyTask(t, q, pri, susp)
    PROVE  /\ GoodQueue(readyQ', pri)
           /\ Nodes(readyQ') = IF t \in susp THEN Nodes(q) ELSE Nodes(q) \cup {t}
           /\ current' = current
           /\ ran' = ran
           /\ expired' \subseteq {current}
           /\ remainder' \in [Tasks -> 0 .. Quantum]
           /\ pleaseReschedule' \in BOOLEAN
           /\ timerArmed' \in BOOLEAN
           /\ timerLeft' \in 0 .. Quantum
           /\ expired' \in SUBSET Tasks
           /\ Noticed(Nodes(readyQ'), current, pri, timerArmed', pleaseReschedule')
<1> USE SchedulerAssumption
<1>1. current' = current /\ ran' = ran
  BY DEF NewReadyTask
<1>2. /\ GoodQueue(readyQ', pri)
      /\ Nodes(readyQ') = IF t \in susp THEN Nodes(q) ELSE Nodes(q) \cup {t}
  <2>1. CASE t \in susp
    BY <2>1 DEF NewReadyTask, EnqueueReady
  <2>2. CASE t \notin susp
    <3> PICK k \in 0 .. Len(q) :
               FromTail(pri, q, t, k) /\ readyQ' = InsertAfter(q, k, t)
      BY <2>2 DEF NewReadyTask, EnqueueReady
    <3> QED BY <2>2, InsertGood
  <2> QED BY <2>1, <2>2
<1>3. TypeOK
  OBVIOUS
<1>4. pri[t] \in Nat /\ (current # NoTask => current \in Tasks /\ pri[current] \in Nat)
  BY DEF TypeOK
<1>7. \A u \in Nodes(q) : u \in Tasks /\ pri[u] \in Nat
  BY DEF GoodQueue, Nodes
<1> DEFINE Rest == /\ expired' \subseteq {current}
                   /\ remainder' \in [Tasks -> 0 .. Quantum]
                   /\ pleaseReschedule' \in BOOLEAN
                   /\ timerArmed' \in BOOLEAN
                   /\ timerLeft' \in 0 .. Quantum
                   /\ expired' \in SUBSET Tasks
                   /\ Noticed(Nodes(readyQ'), current, pri, timerArmed',
                              pleaseReschedule')
<1>5. CASE t \in susp
  <2>1. UNCHANGED <<remainder, expired, timerArmed, timerLeft, pleaseReschedule>>
    BY <1>5 DEF NewReadyTask
  <2>2. Nodes(readyQ') = Nodes(q)
    BY <1>2, <1>5
  <2>3. Noticed(Nodes(q), current, pri, timerArmed, pleaseReschedule)
    BY <1>5
  <2>4. Rest
    BY <2>1, <2>2, <2>3 DEF TypeOK
  <2> QED BY <1>1, <1>2, <2>4
<1>6. CASE t \notin susp
  <2>0. Nodes(readyQ') = Nodes(q) \cup {t}
    BY <1>2, <1>6
  <2>1. CASE current = NoTask \/ pri[t] > pri[current] \/
             (pri[t] = pri[current] /\ current \in expired)
    <3>1. /\ pleaseReschedule' = TRUE
          /\ UNCHANGED <<remainder, expired, timerArmed, timerLeft>>
      BY <1>4, <1>6, <2>1 DEF NewReadyTask
    <3>2. Noticed(Nodes(readyQ'), current, pri, timerArmed', pleaseReschedule')
      BY <3>1 DEF Noticed
    <3>3. Rest
      BY <3>1, <3>2 DEF TypeOK
    <3> QED BY <1>1, <1>2, <3>3
  <2>2. CASE /\ current # NoTask /\ pri[t] = pri[current]
             /\ current \notin expired /\ ~timerArmed
    <3>0. StartQuantum
      BY <1>4, <1>6, <2>2 DEF NewReadyTask
    <3> PICK left : left = SubTicks(remainder[current], ran)
      OBVIOUS
    <3>1. current \in Tasks /\ remainder[current] \in 0 .. Quantum /\ ran \in 0 .. Quantum
      BY <1>4, <2>2 DEF TypeOK
    <3>2. left \in 0 .. Quantum
      BY <3>1 DEF SubTicks
    <3>3. remainder' = [remainder EXCEPT ![current] = left]
      BY <3>0 DEF StartQuantum
    <3>4. remainder' \in [Tasks -> 0 .. Quantum]
      BY <3>1, <3>2, <3>3 DEF TypeOK
    <3>5. CASE left > 0
      <4>1. /\ timerArmed' = TRUE /\ timerLeft' = left
            /\ UNCHANGED <<expired, pleaseReschedule>>
        BY <3>0, <3>5 DEF StartQuantum
      <4>2. \A u \in Nodes(q) : pri[u] > pri[current] => pleaseReschedule
        BY <1>4, <1>7, <2>2 DEF Noticed
      <4>3. ~(pri[t] > pri[current])
        BY <1>4, <2>2
      <4>4. Noticed(Nodes(readyQ'), current, pri, timerArmed', pleaseReschedule')
        BY <2>0, <2>2, <4>1, <4>2, <4>3 DEF Noticed
      <4>5. Rest
        BY <3>2, <3>4, <4>1, <4>4 DEF TypeOK
      <4> QED BY <1>1, <1>2, <4>5
    <3>6. CASE ~(left > 0)
      <4>1. /\ expired' = expired \cup {current} /\ pleaseReschedule' = TRUE
            /\ UNCHANGED <<timerArmed, timerLeft>>
        BY <3>0, <3>6 DEF StartQuantum
      <4>2. Noticed(Nodes(readyQ'), current, pri, timerArmed', pleaseReschedule')
        BY <4>1 DEF Noticed
      <4>3. Rest
        BY <3>1, <3>4, <4>1, <4>2 DEF TypeOK
      <4> QED BY <1>1, <1>2, <4>3
    <3> QED BY <3>5, <3>6
  <2>3. CASE /\ current # NoTask /\ ~(pri[t] > pri[current])
             /\ ~(pri[t] = pri[current] /\ (current \in expired \/ ~timerArmed))
    <3>1. UNCHANGED <<remainder, expired, timerArmed, timerLeft, pleaseReschedule>>
      BY <1>4, <1>6, <2>3 DEF NewReadyTask
    <3>2. \A u \in Nodes(q) : /\ pri[u] > pri[current] => pleaseReschedule
                              /\ pri[u] = pri[current]
                                    => timerArmed \/ pleaseReschedule
      <4>1. CASE Noticed(Nodes(q), current, pri, timerArmed, pleaseReschedule)
        BY <2>3, <4>1 DEF Noticed
      <4>2. CASE \A u \in Nodes(q) : pri[u] <= pri[t]
        <5>1. pri[t] <= pri[current] /\ (pri[t] = pri[current] => timerArmed)
          BY <1>4, <2>3
        <5>2. ASSUME NEW u \in Nodes(q)
              PROVE  /\ ~(pri[u] > pri[current])
                     /\ pri[u] = pri[current] => pri[t] = pri[current]
          BY <1>4, <1>7, <2>3, <4>2, <5>1
        <5> QED BY <5>1, <5>2
      <4> QED BY <4>1, <4>2
    <3>4. Noticed(Nodes(readyQ'), current, pri, timerArmed', pleaseReschedule')
      BY <2>0, <2>3, <3>1, <3>2 DEF Noticed
    <3>5. Rest
      BY <3>1, <3>4 DEF TypeOK
    <3> QED BY <1>1, <1>2, <3>5
  <2> QED BY <2>1, <2>2, <2>3
<1> QED BY <1>5, <1>6

-----------------------------------------------------------------------------
(* The inductive invariant in the form the steps use.                       *)
ReadySet(st, susp) == {t \in Tasks : st[t] = "ready"} \ susp

InvQ ==
    /\ TypeOK
    /\ GoodQueue(readyQ, n_Priority)
    /\ Nodes(readyQ) = ReadySet(status, suspended)
    /\ \A t \in Tasks : status[t] = "running" <=> t = current
    /\ Noticed(Nodes(readyQ), current, n_Priority, timerArmed, pleaseReschedule)
    /\ NoIdleWithWork
    /\ \A t \in suspended : status[t] = "ready"
    /\ expired \subseteq {current}
    /\ TaskRuns /\ t_Forbid[current] = 0 => ~pleaseReschedule

(* It is the invariant SchedulerInv that TLC checks.                        *)
LEMMA SameInv == InvQ => SchedulerInv
<1> SUFFICES ASSUME InvQ PROVE SchedulerInv
  OBVIOUS
<1>1. ReadyQueueExact
  BY DEF InvQ, ReadyQueueExact, GoodQueue, ReadySet
<1>2. ReadyQueueSorted
  BY DEF InvQ, ReadyQueueSorted, GoodQueue
<1>3. EqualsAreTimed
  BY DEF InvQ, EqualsAreTimed, Noticed
<1>4. current = NoTask /\ readyQ # << >> => pleaseReschedule
  <2>1. readyQ # << >> => Nodes(readyQ) # {}
    BY EmptyNodes DEF InvQ, TypeOK
  <2> QED BY <2>1 DEF InvQ, Noticed
<1>5. current # NoTask =>
        \A t \in Nodes(readyQ) :
            n_Priority[t] > n_Priority[current] => pleaseReschedule
  BY DEF InvQ, Noticed
<1> QED BY <1>1, <1>2, <1>3, <1>4, <1>5 DEF InvQ, SchedulerInv

(* The initial states satisfy it.                                           *)
LEMMA InvInit == Init => InvQ
<1> SUFFICES ASSUME Init PROVE InvQ
  OBVIOUS
<1> USE SchedulerAssumption
<1>1. << >> \in Seq(Tasks) /\ Nodes(<< >>) = {}
  BY DEF Nodes
<1>2. 0 \in 0 .. Quantum /\ Quantum \in 0 .. Quantum
  OBVIOUS
<1>3. n_Priority \in [Tasks -> Nat]
  BY DEF Init
<1>4. status \in [Tasks -> {"dead", "waiting", "ready", "running"}]
  BY DEF Init
<1>5. TypeOK
  BY <1>1, <1>2, <1>3, <1>4 DEF Init, TypeOK
<1>6. Distinct(<< >>) /\ Sorted(n_Priority, << >>)
  BY DEF Distinct, Sorted
<1>7. GoodQueue(readyQ, n_Priority)
  BY <1>1, <1>6 DEF Init, GoodQueue
<1>8. \A t \in Tasks : (status[t] = "running" <=> t = current) /\ status[t] # "ready"
  BY DEF Init
<1>9. Nodes(readyQ) = ReadySet(status, suspended)
  BY <1>1, <1>8 DEF Init, ReadySet
<1>10. Noticed(Nodes(readyQ), current, n_Priority, timerArmed, pleaseReschedule)
  BY <1>1 DEF Init, Noticed
<1>11. NoIdleWithWork /\ suspended = {} /\ expired = {} /\ ~pleaseReschedule
  BY DEF Init, NoIdleWithWork
<1> QED BY <1>5, <1>7, <1>8, <1>9, <1>10, <1>11 DEF InvQ

-----------------------------------------------------------------------------
(* One step lemma per way of changing the queue.                            *)

(* A task is launched, after cur has left the CPU for a state that makes it *)
(* ready or not: the shape of Preempt, ScheduleNewTask and Kill.            *)
LEMMA LaunchStep ==
    ASSUME InvQ,
           NEW first \in Tasks, NEW q, NEW rem \in 0 .. Quantum,
           n_Priority' \in [Tasks -> Nat],
           t_Forbid' \in [Tasks -> Nat],
           suspended' \in SUBSET Tasks,
           remainder' \in [Tasks -> 0 .. Quantum],
           status' \in [Tasks -> {"dead", "waiting", "ready", "running"}],
           inInterrupt' \in BOOLEAN,
           GoodQueue(q, n_Priority'),
           \A u \in Nodes(q) : n_Priority'[u] <= n_Priority'[first],
           Launch(first, q, rem, n_Priority'),
           Nodes(q) = ReadySet(status', suspended'),
           \A t \in Tasks : status'[t] = "running" <=> t = first,
           \A t \in suspended' : status'[t] = "ready",
           expired' = {}
    PROVE  InvQ'
<1> USE SchedulerAssumption
<1> PICK pri : pri = n_Priority'
  OBVIOUS
<1>0. /\ TypeOK
      /\ pri \in [Tasks -> Nat]
      /\ GoodQueue(q, pri)
      /\ \A u \in Nodes(q) : pri[u] <= pri[first]
      /\ Launch(first, q, rem, pri)
  BY DEF InvQ
<1>1. /\ readyQ' = q
      /\ current' = first
      /\ pleaseReschedule' = FALSE
      /\ ran' \in 0 .. Quantum
      /\ timerArmed' \in BOOLEAN
      /\ timerLeft' \in 0 .. Quantum
      /\ Noticed(Nodes(q), first, pri, timerArmed', FALSE)
  BY ONLY <1>0, LaunchGood, first \in Tasks, rem \in 0 .. Quantum
<1>2. TypeOK'
  BY <1>1 DEF TypeOK, GoodQueue
<1>3. first # NoTask
  OBVIOUS
<1>4. NoIdleWithWork'
  BY <1>1, <1>3 DEF NoIdleWithWork
<1> QED BY <1>1, <1>2, <1>4 DEF InvQ

(* A task arrives on the queue while the current one goes on: the shape of  *)
(* the actions with NewReadyTask.                                           *)
LEMMA ArriveStep ==
    ASSUME InvQ, (TaskRuns /\ t_Forbid[current] > 0) \/ inInterrupt',
           NEW t \in Tasks, NEW q, NEW susp,
           n_Priority' \in [Tasks -> Nat],
           t_Forbid' \in [Tasks -> Nat],
           current # NoTask => t_Forbid'[current] = t_Forbid[current],
           suspended' \in SUBSET Tasks,
           status' \in [Tasks -> {"dead", "waiting", "ready", "running"}],
           inInterrupt' \in BOOLEAN,
           GoodQueue(q, n_Priority'), t \notin Nodes(q),
           \/ Noticed(Nodes(q), current, n_Priority', timerArmed, pleaseReschedule)
           \/ t \notin susp /\ \A u \in Nodes(q) : n_Priority'[u] <= n_Priority'[t],
           NewReadyTask(t, q, n_Priority', susp),
           (IF t \in susp THEN Nodes(q) ELSE Nodes(q) \cup {t})
              = ReadySet(status', suspended'),
           \A u \in Tasks : status'[u] = "running" <=> u = current,
           \A u \in suspended' : status'[u] = "ready"
    PROVE  InvQ'
<1> USE SchedulerAssumption
<1> PICK pri : pri = n_Priority'
  OBVIOUS
<1>0. TypeOK /\ expired \subseteq {current}
  BY DEF InvQ
<1>1. /\ GoodQueue(readyQ', pri)
      /\ Nodes(readyQ') = IF t \in susp THEN Nodes(q) ELSE Nodes(q) \cup {t}
      /\ current' = current
      /\ ran' = ran
      /\ expired' \subseteq {current}
      /\ remainder' \in [Tasks -> 0 .. Quantum]
      /\ pleaseReschedule' \in BOOLEAN
      /\ timerArmed' \in BOOLEAN
      /\ timerLeft' \in 0 .. Quantum
      /\ expired' \in SUBSET Tasks
      /\ Noticed(Nodes(readyQ'), current, pri, timerArmed', pleaseReschedule')
  BY <1>0, NewReadyGood
<1>2. TypeOK'
  BY <1>0, <1>1 DEF TypeOK, GoodQueue
<1>3. NoIdleWithWork' /\ ~(TaskRuns' /\ t_Forbid'[current'] = 0)
  <2>1. CASE inInterrupt'
    BY <2>1 DEF NoIdleWithWork, TaskRuns
  <2>2. CASE TaskRuns /\ t_Forbid[current] > 0
    <3>1. current # NoTask /\ t_Forbid'[current'] = t_Forbid[current]
      BY <1>1, <2>2 DEF TaskRuns
    <3>2. t_Forbid'[current'] # 0
      BY <2>2, <3>1
    <3> QED BY <1>1, <3>1, <3>2 DEF NoIdleWithWork, TaskRuns
  <2> QED BY <2>1, <2>2
<1>4. Nodes(readyQ') = ReadySet(status', suspended')
  BY <1>1
<1> QED BY <1>1, <1>2, <1>3, <1>4 DEF InvQ

(* The running task is not on the ready queue, and exists.                  *)
LEMMA CurrentNotQueued ==
    ASSUME InvQ, current # NoTask
    PROVE  /\ current \in Tasks
           /\ status[current] = "running"
           /\ current \notin Nodes(readyQ)
           /\ current \notin suspended
           /\ \A t \in Nodes(readyQ) : t \in Tasks /\ status[t] = "ready"
<1>1. current \in Tasks /\ status[current] = "running"
  BY DEF InvQ, TypeOK
<1>2. "running" # "ready"
  OBVIOUS
<1>3. current \notin Nodes(readyQ) /\ current \notin suspended
  BY <1>1, <1>2 DEF InvQ, ReadySet
<1>4. \A t \in Nodes(readyQ) : t \in Tasks /\ status[t] = "ready"
  BY DEF InvQ, ReadySet
<1> QED BY <1>1, <1>3, <1>4

(* Preempt: the running task lands on the queue, the first one is launched. *)
LEMMA PreemptStep ==
    ASSUME InvQ, current # NoTask, MustSwap,
           NEW exp, exp \subseteq {current},
           Preempt(exp),
           UNCHANGED <<suspended, n_Priority>>,
           t_Forbid' \in [Tasks -> Nat],
           inInterrupt' \in BOOLEAN
    PROVE  InvQ'
<1> USE SchedulerAssumption
<1> PICK cur, first, pri : cur = current /\ first = readyQ[1] /\ pri = n_Priority
  OBVIOUS
<1>1. /\ cur \in Tasks /\ status[cur] = "running"
      /\ cur \notin Nodes(readyQ) /\ cur \notin suspended
      /\ \A t \in Nodes(readyQ) : t \in Tasks /\ status[t] = "ready"
  BY CurrentNotQueued
<1>2. /\ TypeOK /\ GoodQueue(readyQ, pri) /\ pri \in [Tasks -> Nat]
      /\ readyQ # << >> /\ pri[first] >= pri[cur]
  BY DEF InvQ, TypeOK, MustSwap
<1>3. /\ first \in Tasks /\ first \in Nodes(readyQ)
      /\ \A t \in Nodes(readyQ) : pri[t] <= pri[first]
  BY <1>2, HeadGood
<1>4. PICK k \in 0 .. Len(readyQ) :
        /\ LandsAt(exp, k)
        /\ status' = [status EXCEPT ![cur] = "ready", ![first] = "running"]
        /\ remainder' = [remainder EXCEPT ![cur] = LandedRemainder(exp)]
        /\ expired' = exp \ {cur}
        /\ Launch(first, Without(InsertAfter(readyQ, k, cur), first),
                  remainder[first], pri)
  BY DEF Preempt
<1> PICK land, q, rem : /\ land = InsertAfter(readyQ, k, cur)
                        /\ q = Without(land, first)
                        /\ rem = remainder[first]
  OBVIOUS
<1>5. FromTail(pri, readyQ, cur, k) \/ FromHead(pri, readyQ, cur, k)
  BY <1>4 DEF LandsAt
<1>6. GoodQueue(land, pri) /\ Nodes(land) = Nodes(readyQ) \cup {cur}
  BY <1>1, <1>2, <1>5, InsertGood
<1>7. GoodQueue(q, pri) /\ Nodes(q) = (Nodes(readyQ) \cup {cur}) \ {first}
  BY <1>6, WithoutGood
<1>8. \A u \in Nodes(q) : pri[u] <= pri[first]
  <2>1. pri[cur] \in Nat /\ pri[first] \in Nat
    BY <1>1, <1>2, <1>3
  <2>2. pri[cur] <= pri[first]
    BY <1>2, <2>1
  <2> QED BY <1>3, <1>7, <2>2
<1>9. rem \in 0 .. Quantum /\ LandedRemainder(exp) \in 0 .. Quantum
  <2>1. rem \in 0 .. Quantum
    BY <1>2, <1>3 DEF TypeOK
  <2>2. remainder[cur] \in 0 .. Quantum /\ ran \in 0 .. Quantum
    BY <1>1, <1>2 DEF TypeOK
  <2> QED BY <2>1, <2>2 DEF LandedRemainder, SubTicks
<1>10. /\ status \in [Tasks -> {"dead", "waiting", "ready", "running"}]
       /\ remainder \in [Tasks -> 0 .. Quantum]
       /\ suspended \in SUBSET Tasks
  BY <1>2 DEF TypeOK
<1>11. /\ status' \in [Tasks -> {"dead", "waiting", "ready", "running"}]
       /\ remainder' \in [Tasks -> 0 .. Quantum]
       /\ expired' = {}
  BY <1>1, <1>3, <1>4, <1>9, <1>10
<1>12. cur # first
  BY <1>1, <1>3
<1>13. \A t \in Tasks : status'[t] = IF t = cur THEN "ready"
                                     ELSE IF t = first THEN "running"
                                     ELSE status[t]
  BY <1>1, <1>3, <1>4, <1>10, <1>12
<1>14. Nodes(readyQ) = ReadySet(status, suspended)
  BY DEF InvQ
<1>15. first \notin suspended
  BY <1>3, <1>14 DEF ReadySet
<1>16. Nodes(q) = ReadySet(status', suspended')
  BY <1>1, <1>3, <1>7, <1>12, <1>13, <1>14 DEF ReadySet
<1>17. \A t \in Tasks : status'[t] = "running" <=> t = first
  <2>1. \A t \in Tasks : status[t] = "running" <=> t = cur
    BY DEF InvQ
  <2> QED BY <1>12, <1>13, <2>1
<1>18. \A t \in suspended' : status'[t] = "ready"
  <2>1. \A t \in suspended : status[t] = "ready"
    BY DEF InvQ
  <2> QED BY <1>1, <1>10, <1>13, <1>15, <2>1
<1>19. /\ n_Priority' \in [Tasks -> Nat] /\ suspended' \in SUBSET Tasks
       /\ GoodQueue(q, n_Priority')
       /\ \A u \in Nodes(q) : n_Priority'[u] <= n_Priority'[first]
       /\ Launch(first, q, rem, n_Priority')
  BY <1>2, <1>4, <1>7, <1>8, <1>10
<1> QED BY <1>3, <1>9, <1>11, <1>16, <1>17, <1>18, <1>19, LaunchStep

(* ScheduleNewTask, when the running task has been put into another state.  *)
LEMMA ScheduleStep ==
    ASSUME InvQ, NEW st, NEW pr \in BOOLEAN,
           ScheduleNewTask(st, pr),
           st \in [Tasks -> {"dead", "waiting", "ready", "running"}],
           \A t \in Tasks : st[t] # "running",
           n_Priority' = n_Priority,
           t_Forbid' \in [Tasks -> Nat],
           suspended' \in SUBSET Tasks,
           remainder' \in [Tasks -> 0 .. Quantum],
           inInterrupt' \in BOOLEAN,
           ReadySet(st, suspended') = Nodes(readyQ),
           \A t \in suspended' : st[t] = "ready",
           expired' = {}
    PROVE  InvQ'
<1> USE SchedulerAssumption
<1>0. TypeOK /\ GoodQueue(readyQ, n_Priority) /\ n_Priority \in [Tasks -> Nat]
  BY DEF InvQ, TypeOK
<1>1. CASE readyQ # << >>
  <2> PICK first, q, rem, pri : /\ first = readyQ[1] /\ q = Tail(readyQ)
                                /\ rem = remainder[readyQ[1]]
                                /\ pri = n_Priority
    OBVIOUS
  <2>1. /\ status' = [st EXCEPT ![first] = "running"]
        /\ Launch(first, q, rem, pri)
    BY <1>1 DEF ScheduleNewTask
  <2>2. /\ first \in Tasks /\ first \in Nodes(readyQ)
        /\ GoodQueue(q, pri)
        /\ Nodes(q) = Nodes(readyQ) \ {first}
        /\ \A t \in Nodes(readyQ) : pri[t] <= pri[first]
    BY <1>0, <1>1, HeadGood
  <2>3. rem \in 0 .. Quantum
    BY <1>0, <2>2 DEF TypeOK
  <2>4. /\ status' \in [Tasks -> {"dead", "waiting", "ready", "running"}]
        /\ \A t \in Tasks : status'[t] = IF t = first THEN "running" ELSE st[t]
    BY <2>1, <2>2
  <2>5. Nodes(q) = ReadySet(status', suspended')
    BY <2>2, <2>4 DEF ReadySet
  <2>6. \A t \in Tasks : status'[t] = "running" <=> t = first
    BY <2>4
  <2>7. first \notin suspended'
    BY <2>2 DEF ReadySet
  <2>8. \A t \in suspended' : status'[t] = "ready"
    BY <2>4, <2>7
  <2>9. /\ n_Priority' \in [Tasks -> Nat]
        /\ GoodQueue(q, n_Priority')
        /\ \A u \in Nodes(q) : n_Priority'[u] <= n_Priority'[first]
        /\ Launch(first, q, rem, n_Priority')
    BY <1>0, <2>1, <2>2
  <2> QED BY <2>2, <2>3, <2>4, <2>5, <2>6, <2>8, <2>9, LaunchStep
<1>2. CASE readyQ = << >>
  <2>1. /\ status' = st /\ readyQ' = << >> /\ current' = NoTask
        /\ pleaseReschedule' = pr
        /\ UNCHANGED <<timerArmed, timerLeft, ran>>
    BY <1>2 DEF ScheduleNewTask, timerVars
  <2>2. Nodes(readyQ') = {} /\ Nodes(readyQ) = {}
    BY <1>2, <2>1 DEF Nodes
  <2>3. TypeOK'
    BY <1>0, <1>2, <2>1 DEF TypeOK
  <2>4. GoodQueue(readyQ', n_Priority')
    BY <1>0, <1>2, <2>1
  <2>5. \A t \in Tasks : status'[t] = "running" <=> t = current'
    BY <2>1
  <2>6. Noticed(Nodes(readyQ'), current', n_Priority', timerArmed', pleaseReschedule')
    BY <2>2 DEF Noticed
  <2>7. NoIdleWithWork' /\ ~TaskRuns'
    BY <2>1 DEF NoIdleWithWork, TaskRuns
  <2>8. Nodes(readyQ') = ReadySet(status', suspended')
    BY <2>1, <2>2
  <2> QED BY <2>1, <2>3, <2>4, <2>5, <2>6, <2>7, <2>8 DEF InvQ
<1> QED BY <1>1, <1>2

(* Priorities of tasks that are not on the queue do not matter to it.       *)
LEMMA SameOrder ==
    ASSUME NEW q, NEW pri, GoodQueue(q, pri),
           NEW new, \A u \in Nodes(q) : new[u] = pri[u]
    PROVE  GoodQueue(q, new)
BY DEF GoodQueue, Sorted, Nodes

(* Nor to what has been taken notice of; and fewer tasks need less of it.   *)
LEMMA SameNotice ==
    ASSUME NEW N, NEW M, M \subseteq N, NEW cur, NEW pri, NEW armed, NEW pr,
           Noticed(N, cur, pri, armed, pr),
           NEW new, cur # NoTask => new[cur] = pri[cur],
           \A u \in M : new[u] = pri[u]
    PROVE  Noticed(M, cur, new, armed, pr)
BY DEF Noticed

-----------------------------------------------------------------------------
(* One lemma per action, or for actions of one shape.                       *)

(* A system call or an interrupt makes a sleeping task ready.               *)
LEMMA WakeStep ==
    ASSUME InvQ, NEW t \in Tasks, Wake(t) \/ InterruptWake(t)
    PROVE  InvQ'
<1> USE SchedulerAssumption
<1>1. /\ status[t] = "waiting"
      /\ status' = [status EXCEPT ![t] = "ready"]
      /\ NewReadyTask(t, readyQ, n_Priority, suspended)
      /\ UNCHANGED <<suspended, n_Priority, t_Forbid>>
      /\ (TaskRuns /\ t_Forbid[current] > 0) \/ inInterrupt'
      /\ inInterrupt' \in BOOLEAN
  BY DEF Wake, InterruptWake, InSysCall, InvQ, TypeOK
<1>2. /\ status \in [Tasks -> {"dead", "waiting", "ready", "running"}]
      /\ n_Priority \in [Tasks -> Nat] /\ t_Forbid \in [Tasks -> Nat]
      /\ suspended \in SUBSET Tasks
  BY DEF InvQ, TypeOK
<1>3. /\ GoodQueue(readyQ, n_Priority)
      /\ Nodes(readyQ) = ReadySet(status, suspended)
      /\ Noticed(Nodes(readyQ), current, n_Priority, timerArmed, pleaseReschedule)
      /\ \A u \in Tasks : status[u] = "running" <=> u = current
      /\ \A u \in suspended : status[u] = "ready"
  BY DEF InvQ
<1>4. /\ status' \in [Tasks -> {"dead", "waiting", "ready", "running"}]
      /\ \A u \in Tasks : status'[u] = IF u = t THEN "ready" ELSE status[u]
  BY <1>1, <1>2
<1>5. t \notin suspended /\ t \notin Nodes(readyQ)
  BY <1>1, <1>3 DEF ReadySet
<1>6. Nodes(readyQ) \cup {t} = ReadySet(status', suspended')
  BY <1>1, <1>3, <1>4, <1>5 DEF ReadySet
<1>7. \A u \in Tasks : status'[u] = "running" <=> u = current
  BY <1>1, <1>3, <1>4
<1>8. \A u \in suspended' : status'[u] = "ready"
  BY <1>1, <1>2, <1>3, <1>4
<1>9. /\ n_Priority' \in [Tasks -> Nat] /\ t_Forbid' \in [Tasks -> Nat]
      /\ suspended' \in SUBSET Tasks
      /\ GoodQueue(readyQ, n_Priority')
      /\ Noticed(Nodes(readyQ), current, n_Priority', timerArmed, pleaseReschedule)
      /\ NewReadyTask(t, readyQ, n_Priority', suspended)
      /\ current # NoTask => t_Forbid'[current] = t_Forbid[current]
  BY <1>1, <1>2, <1>3
<1> PICK q, susp : q = readyQ /\ susp = suspended
  OBVIOUS
<1>10. (IF t \in susp THEN Nodes(q) ELSE Nodes(q) \cup {t})
          = ReadySet(status', suspended')
  BY <1>5, <1>6
<1> QED BY <1>1, <1>4, <1>5, <1>7, <1>8, <1>9, <1>10, ArriveStep

(* internalCreateTask.                                                      *)
LEMMA CreateStep ==
    ASSUME InvQ, NEW t \in Tasks, NEW p \in Priorities, NEW f \in {0, 1},
           CreateTask(t, p, f)
    PROVE  InvQ'
<1> USE SchedulerAssumption
<1>1. /\ status[t] = "dead"
      /\ status' = [status EXCEPT ![t] = "ready"]
      /\ n_Priority' = [n_Priority EXCEPT ![t] = p]
      /\ t_Forbid' = [t_Forbid EXCEPT ![t] = f]
      /\ NewReadyTask(t, readyQ, n_Priority', suspended)
      /\ UNCHANGED <<suspended, inInterrupt>>
      /\ TaskRuns /\ t_Forbid[current] > 0
      /\ inInterrupt' \in BOOLEAN
  BY DEF CreateTask, InSysCall, InvQ, TypeOK
<1>2. /\ status \in [Tasks -> {"dead", "waiting", "ready", "running"}]
      /\ n_Priority \in [Tasks -> Nat] /\ t_Forbid \in [Tasks -> Nat]
      /\ suspended \in SUBSET Tasks
  BY DEF InvQ, TypeOK
<1>3. /\ GoodQueue(readyQ, n_Priority)
      /\ Nodes(readyQ) = ReadySet(status, suspended)
      /\ Noticed(Nodes(readyQ), current, n_Priority, timerArmed, pleaseReschedule)
      /\ \A u \in Tasks : status[u] = "running" <=> u = current
      /\ \A u \in suspended : status[u] = "ready"
  BY DEF InvQ
<1>4. /\ status' \in [Tasks -> {"dead", "waiting", "ready", "running"}]
      /\ \A u \in Tasks : status'[u] = IF u = t THEN "ready" ELSE status[u]
  BY <1>1, <1>2
<1>5. /\ t \notin suspended /\ t \notin Nodes(readyQ)
      /\ current \in Tasks /\ current # NoTask /\ t # current
  <2>1. current \in Tasks /\ current # NoTask /\ status[current] = "running"
    BY <1>1, CurrentNotQueued DEF TaskRuns
  <2> QED BY <1>1, <1>3, <2>1 DEF ReadySet
<1>6. Nodes(readyQ) \cup {t} = ReadySet(status', suspended')
  BY <1>1, <1>3, <1>4, <1>5 DEF ReadySet
<1>7. \A u \in Tasks : status'[u] = "running" <=> u = current
  BY <1>1, <1>3, <1>4
<1>8. \A u \in suspended' : status'[u] = "ready"
  BY <1>1, <1>2, <1>3, <1>4
<1>9. /\ n_Priority' \in [Tasks -> Nat] /\ t_Forbid' \in [Tasks -> Nat]
      /\ suspended' \in SUBSET Tasks
      /\ t_Forbid'[current] = t_Forbid[current]
      /\ \A u \in Tasks : u # t => n_Priority'[u] = n_Priority[u]
  BY <1>1, <1>2, <1>5
<1> PICK q, susp, pri, old, cur, armed, pr :
      /\ q = readyQ /\ susp = suspended /\ pri = n_Priority' /\ old = n_Priority
      /\ cur = current /\ armed = timerArmed /\ pr = pleaseReschedule
  OBVIOUS
<1>10. /\ \A u \in Nodes(q) : pri[u] = old[u]
       /\ pri[cur] = old[cur]
  BY <1>3, <1>5, <1>9 DEF ReadySet
<1>11. GoodQueue(q, pri)
  BY <1>3, <1>10, SameOrder
<1>12. Noticed(Nodes(q), cur, pri, armed, pr)
  BY <1>3, <1>10, SameNotice
<1>13. (IF t \in susp THEN Nodes(q) ELSE Nodes(q) \cup {t})
          = ReadySet(status', suspended')
  BY <1>5, <1>6
<1> QED BY <1>1, <1>4, <1>5, <1>7, <1>8, <1>9, <1>11, <1>12, <1>13, ArriveStep

(* internalChangeTaskPri on a ready task, which is requeued unless it is    *)
(* suspended.                                                               *)
LEMMA ChangeReadyStep ==
    ASSUME InvQ, NEW t \in Tasks, NEW p \in Priorities, ChangeReadyPri(t, p)
    PROVE  InvQ'
<1> USE SchedulerAssumption
<1>1. /\ status[t] = "ready"
      /\ n_Priority' = [n_Priority EXCEPT ![t] = p]
      /\ NewReadyTask(t, Without(readyQ, t), n_Priority', suspended)
      /\ UNCHANGED <<status, suspended, t_Forbid, inInterrupt>>
      /\ TaskRuns /\ t_Forbid[current] > 0
      /\ inInterrupt' \in BOOLEAN
  BY DEF ChangeReadyPri, InSysCall, InvQ, TypeOK
<1>2. /\ status \in [Tasks -> {"dead", "waiting", "ready", "running"}]
      /\ n_Priority \in [Tasks -> Nat] /\ t_Forbid \in [Tasks -> Nat]
      /\ suspended \in SUBSET Tasks
  BY DEF InvQ, TypeOK
<1>3. /\ GoodQueue(readyQ, n_Priority)
      /\ Nodes(readyQ) = ReadySet(status, suspended)
      /\ Noticed(Nodes(readyQ), current, n_Priority, timerArmed, pleaseReschedule)
      /\ \A u \in Tasks : status[u] = "running" <=> u = current
      /\ \A u \in suspended : status[u] = "ready"
  BY DEF InvQ
<1>4. current \in Tasks /\ current # NoTask /\ t # current
  <2>1. current \in Tasks /\ current # NoTask /\ status[current] = "running"
    BY <1>1, CurrentNotQueued DEF TaskRuns
  <2> QED BY <1>1, <2>1
<1>5. /\ n_Priority' \in [Tasks -> Nat] /\ t_Forbid' \in [Tasks -> Nat]
      /\ suspended' \in SUBSET Tasks
      /\ status' \in [Tasks -> {"dead", "waiting", "ready", "running"}]
      /\ t_Forbid'[current] = t_Forbid[current]
      /\ \A u \in Tasks : u # t => n_Priority'[u] = n_Priority[u]
  BY <1>1, <1>2
<1> PICK q, susp, pri, old, cur, armed, pr :
      /\ q = Without(readyQ, t) /\ susp = suspended
      /\ pri = n_Priority' /\ old = n_Priority
      /\ cur = current /\ armed = timerArmed /\ pr = pleaseReschedule
  OBVIOUS
<1>6. GoodQueue(q, old) /\ Nodes(q) = Nodes(readyQ) \ {t}
  BY <1>3, WithoutGood
<1>7. /\ \A u \in Nodes(q) : pri[u] = old[u]
      /\ pri[cur] = old[cur]
      /\ Nodes(q) \subseteq Nodes(readyQ)
      /\ t \notin Nodes(q)
  BY <1>3, <1>4, <1>5, <1>6 DEF ReadySet
<1>8. GoodQueue(q, pri)
  BY <1>6, <1>7, SameOrder
<1>9. Noticed(Nodes(q), cur, pri, armed, pr)
  BY <1>3, <1>7, SameNotice
<1>10. (IF t \in susp THEN Nodes(q) ELSE Nodes(q) \cup {t})
          = ReadySet(status', suspended')
  BY <1>1, <1>3, <1>6 DEF ReadySet
<1>11. /\ \A u \in Tasks : status'[u] = "running" <=> u = current
       /\ \A u \in suspended' : status'[u] = "ready"
  BY <1>1, <1>3
<1> QED BY <1>1, <1>4, <1>5, <1>7, <1>8, <1>9, <1>10, <1>11, ArriveStep

(* ResumeTask.                                                              *)
LEMMA ResumeStep ==
    ASSUME InvQ, NEW t \in Tasks, ResumeTask(t)
    PROVE  InvQ'
<1> USE SchedulerAssumption
<1>1. /\ t \in suspended
      /\ suspended' = suspended \ {t}
      /\ NewReadyTask(t, readyQ, n_Priority, suspended')
      /\ UNCHANGED <<status, n_Priority, t_Forbid, inInterrupt>>
      /\ TaskRuns /\ t_Forbid[current] > 0
      /\ inInterrupt' \in BOOLEAN
  BY DEF ResumeTask, InSysCall, InvQ, TypeOK
<1>2. /\ status \in [Tasks -> {"dead", "waiting", "ready", "running"}]
      /\ n_Priority \in [Tasks -> Nat] /\ t_Forbid \in [Tasks -> Nat]
      /\ suspended \in SUBSET Tasks
  BY DEF InvQ, TypeOK
<1>3. /\ GoodQueue(readyQ, n_Priority)
      /\ Nodes(readyQ) = ReadySet(status, suspended)
      /\ Noticed(Nodes(readyQ), current, n_Priority, timerArmed, pleaseReschedule)
      /\ \A u \in Tasks : status[u] = "running" <=> u = current
      /\ \A u \in suspended : status[u] = "ready"
  BY DEF InvQ
<1> PICK q, susp : q = readyQ /\ susp = suspended'
  OBVIOUS
<1>4. t \notin Nodes(q) /\ t \notin susp
  BY <1>1, <1>3 DEF ReadySet
<1>5. (IF t \in susp THEN Nodes(q) ELSE Nodes(q) \cup {t})
          = ReadySet(status', suspended')
  BY <1>1, <1>3, <1>4 DEF ReadySet
<1>6. /\ n_Priority' \in [Tasks -> Nat] /\ t_Forbid' \in [Tasks -> Nat]
      /\ suspended' \in SUBSET Tasks
      /\ status' \in [Tasks -> {"dead", "waiting", "ready", "running"}]
      /\ t_Forbid'[current] = t_Forbid[current]
      /\ GoodQueue(q, n_Priority')
      /\ Noticed(Nodes(q), current, n_Priority', timerArmed, pleaseReschedule)
      /\ NewReadyTask(t, q, n_Priority', susp)
      /\ \A u \in Tasks : status'[u] = "running" <=> u = current
      /\ \A u \in suspended' : status'[u] = "ready"
  BY <1>1, <1>2, <1>3
<1> QED BY <1>1, <1>4, <1>5, <1>6, ArriveStep

(* internalChangeTaskPri on the caller.  When the caller is lowered, all it *)
(* does about the tasks that are now above it is to requeue the first one;  *)
(* that is enough because the queue is sorted.                              *)
LEMMA ChangeOwnStep ==
    ASSUME InvQ, NEW p \in Priorities, ChangeOwnPri(p)
    PROVE  InvQ'
<1> USE SchedulerAssumption
<1>1. /\ n_Priority' = [n_Priority EXCEPT ![current] = p]
      /\ UNCHANGED <<status, suspended, t_Forbid, inInterrupt>>
      /\ TaskRuns /\ t_Forbid[current] > 0
      /\ inInterrupt' \in BOOLEAN
  BY DEF ChangeOwnPri, InSysCall, InvQ, TypeOK
<1>2. /\ status \in [Tasks -> {"dead", "waiting", "ready", "running"}]
      /\ n_Priority \in [Tasks -> Nat] /\ t_Forbid \in [Tasks -> Nat]
      /\ suspended \in SUBSET Tasks
  BY DEF InvQ, TypeOK
<1>3. /\ GoodQueue(readyQ, n_Priority)
      /\ Nodes(readyQ) = ReadySet(status, suspended)
      /\ Noticed(Nodes(readyQ), current, n_Priority, timerArmed, pleaseReschedule)
      /\ \A u \in Tasks : status[u] = "running" <=> u = current
      /\ \A u \in suspended : status[u] = "ready"
  BY DEF InvQ
<1>4. /\ current \in Tasks /\ current # NoTask
      /\ current \notin Nodes(readyQ)
      /\ \A u \in Nodes(readyQ) : u \in Tasks
  BY <1>1, CurrentNotQueued DEF TaskRuns
<1>5. /\ n_Priority' \in [Tasks -> Nat] /\ t_Forbid' \in [Tasks -> Nat]
      /\ suspended' \in SUBSET Tasks
      /\ status' \in [Tasks -> {"dead", "waiting", "ready", "running"}]
      /\ t_Forbid'[current] = t_Forbid[current]
      /\ \A u \in Tasks : u # current => n_Priority'[u] = n_Priority[u]
      /\ n_Priority'[current] = p
      /\ \A u \in Tasks : status'[u] = "running" <=> u = current
      /\ \A u \in suspended' : status'[u] = "ready"
  BY <1>1, <1>2, <1>3, <1>4
<1> PICK pri, old, cur : pri = n_Priority' /\ old = n_Priority /\ cur = current
  OBVIOUS
<1>6. \A u \in Nodes(readyQ) : pri[u] = old[u]
  BY <1>4, <1>5
<1>7. GoodQueue(readyQ, pri)
  BY <1>3, <1>6, SameOrder
<1>8. CASE p < n_Priority[current] /\ readyQ # << >>
  <2> PICK t, q, susp : t = readyQ[1] /\ q = Tail(readyQ) /\ susp = suspended
    OBVIOUS
  <2>1. NewReadyTask(t, q, pri, susp)
    BY <1>8 DEF ChangeOwnPri
  <2>2. /\ t \in Tasks /\ t \in Nodes(readyQ)
        /\ GoodQueue(q, pri)
        /\ Nodes(q) = Nodes(readyQ) \ {t}
        /\ \A u \in Nodes(readyQ) : pri[u] <= pri[t]
    BY <1>5, <1>7, <1>8, HeadGood
  <2>3. t \notin susp /\ t \notin Nodes(q) /\ \A u \in Nodes(q) : pri[u] <= pri[t]
    BY <1>3, <2>2 DEF ReadySet
  <2>4. (IF t \in susp THEN Nodes(q) ELSE Nodes(q) \cup {t})
          = ReadySet(status', suspended')
    BY <1>1, <1>3, <2>2, <2>3
  <2> QED BY <1>1, <1>4, <1>5, <2>1, <2>2, <2>3, <2>4, ArriveStep
<1>9. CASE ~(p < n_Priority[current] /\ readyQ # << >>)
  <2>1. UNCHANGED <<readyQ, current, ran, remainder, expired, timerArmed,
                    timerLeft, pleaseReschedule>>
    BY <1>9 DEF ChangeOwnPri
  <2>2. TypeOK'
    BY <1>1, <1>5, <2>1 DEF InvQ, TypeOK
  <2>3. Nodes(readyQ') = ReadySet(status', suspended')
    BY <1>1, <1>3, <2>1
  <2>4. \A u \in Nodes(readyQ) :
          /\ pri[u] > pri[cur] => pleaseReschedule
          /\ pri[u] = pri[cur] => timerArmed \/ pleaseReschedule
    <3> SUFFICES ASSUME NEW u \in Nodes(readyQ)
                 PROVE  /\ pri[u] > pri[cur] => pleaseReschedule
                        /\ pri[u] = pri[cur] => timerArmed \/ pleaseReschedule
      OBVIOUS
    <3>1. readyQ # << >>
      BY EmptyNodes DEF InvQ, TypeOK
    <3>2. pri[u] = old[u] /\ old[u] \in Nat /\ old[cur] \in Nat /\ pri[cur] \in Nat
      BY <1>2, <1>4, <1>5, <1>6
    <3>3. pri[cur] >= old[cur]
      BY <1>5, <1>9, <3>1, <3>2
    <3>4. /\ pri[u] > pri[cur] => old[u] > old[cur]
          /\ pri[u] = pri[cur] => old[u] > old[cur] \/ old[u] = old[cur]
      BY <3>2, <3>3
    <3>5. /\ old[u] > old[cur] => pleaseReschedule
          /\ old[u] = old[cur] => timerArmed \/ pleaseReschedule
      BY <1>3, <1>4 DEF Noticed
    <3> QED BY <3>4, <3>5
  <2>5. Noticed(Nodes(readyQ'), current', n_Priority', timerArmed', pleaseReschedule')
    BY <1>4, <2>1, <2>4 DEF Noticed
  <2>6. NoIdleWithWork' /\ expired' \subseteq {current'}
    BY <1>4, <2>1 DEF NoIdleWithWork, InvQ
  <2>7. t_Forbid'[current'] # 0
    BY <1>1, <2>1
  <2>8. GoodQueue(readyQ', n_Priority')
    BY <1>7, <2>1
  <2> QED BY <1>5, <2>1, <2>2, <2>3, <2>5, <2>6, <2>7, <2>8 DEF InvQ
<1> QED BY <1>8, <1>9

(* SleepTask and the end of a task: the CPU goes to the next one.           *)
LEMMA LeaveStep ==
    ASSUME InvQ, SleepTask \/ Die
    PROVE  InvQ'
<1> USE SchedulerAssumption
<1>1. /\ TaskRuns
      /\ expired' = expired \ {current}
      /\ remainder' = [remainder EXCEPT ![current] = Quantum]
      /\ t_Forbid' = t_Forbid \/ t_Forbid' = [t_Forbid EXCEPT ![current] = 0]
      /\ UNCHANGED <<suspended, n_Priority, inInterrupt>>
  BY DEF SleepTask, Die, InSysCall
<1>0. PICK s \in {"waiting", "dead"} :
        ScheduleNewTask([status EXCEPT ![current] = s], pleaseReschedule)
  BY DEF SleepTask, Die
<1>2. /\ status \in [Tasks -> {"dead", "waiting", "ready", "running"}]
      /\ n_Priority \in [Tasks -> Nat] /\ t_Forbid \in [Tasks -> Nat]
      /\ remainder \in [Tasks -> 0 .. Quantum]
      /\ suspended \in SUBSET Tasks
      /\ pleaseReschedule \in BOOLEAN
  BY DEF InvQ, TypeOK
<1>3. /\ GoodQueue(readyQ, n_Priority)
      /\ Nodes(readyQ) = ReadySet(status, suspended)
      /\ \A u \in Tasks : status[u] = "running" <=> u = current
      /\ \A u \in suspended : status[u] = "ready"
      /\ expired \subseteq {current}
  BY DEF InvQ
<1>4. /\ current \in Tasks /\ current \notin suspended
      /\ current \notin Nodes(readyQ)
  BY <1>1, CurrentNotQueued DEF TaskRuns
<1> PICK st, pr : st = [status EXCEPT ![current] = s] /\ pr = pleaseReschedule
  OBVIOUS
<1>5. /\ st \in [Tasks -> {"dead", "waiting", "ready", "running"}]
      /\ \A t \in Tasks : st[t] = IF t = current THEN s ELSE status[t]
  BY <1>2, <1>4
<1>6. \A t \in Tasks : st[t] # "running"
  BY <1>3, <1>5
<1>7. ReadySet(st, suspended') = Nodes(readyQ)
  BY <1>1, <1>3, <1>4, <1>5 DEF ReadySet
<1>8. \A t \in suspended' : st[t] = "ready"
  BY <1>1, <1>2, <1>3, <1>4, <1>5
<1>9. /\ expired' = {}
      /\ remainder' \in [Tasks -> 0 .. Quantum]
      /\ t_Forbid' \in [Tasks -> Nat]
      /\ suspended' \in SUBSET Tasks
      /\ n_Priority' = n_Priority
  <2>1. Quantum \in 0 .. Quantum /\ 0 \in Nat
    OBVIOUS
  <2>2. expired' = {}
    BY <1>1, <1>3
  <2>3. remainder' \in [Tasks -> 0 .. Quantum]
    BY <1>1, <1>2, <2>1
  <2>4. t_Forbid' \in [Tasks -> Nat]
    BY <1>1, <1>2, <2>1
  <2> QED BY <1>1, <1>2, <2>2, <2>3, <2>4
<1>10. inInterrupt' \in BOOLEAN /\ pr \in BOOLEAN
  BY <1>1, <1>2 DEF InvQ, TypeOK
<1>11. ScheduleNewTask(st, pr)
  BY <1>0
<1> QED BY ONLY InvQ, <1>5, <1>6, <1>7, <1>8, <1>9, <1>10, <1>11, ScheduleStep

(* HandleUserExceptions suspends the running task.                          *)
LEMMA ExceptionStep ==
    ASSUME InvQ, UserException
    PROVE  InvQ'
<1> USE SchedulerAssumption
<1>1. /\ current \in Mortal
      /\ suspended' = suspended \cup {current}
      /\ expired' = expired \ {current}
      /\ remainder' = [remainder EXCEPT ![current] = LandedRemainder(expired)]
      /\ ScheduleNewTask([status EXCEPT ![current] = "ready"], TRUE)
      /\ inInterrupt' = FALSE
      /\ UNCHANGED <<n_Priority, t_Forbid>>
  BY DEF UserException
<1>2. /\ status \in [Tasks -> {"dead", "waiting", "ready", "running"}]
      /\ n_Priority \in [Tasks -> Nat] /\ t_Forbid \in [Tasks -> Nat]
      /\ remainder \in [Tasks -> 0 .. Quantum]
      /\ suspended \in SUBSET Tasks
      /\ pleaseReschedule \in BOOLEAN
  BY DEF InvQ, TypeOK
<1>3. /\ GoodQueue(readyQ, n_Priority)
      /\ Nodes(readyQ) = ReadySet(status, suspended)
      /\ \A u \in Tasks : status[u] = "running" <=> u = current
      /\ \A u \in suspended : status[u] = "ready"
      /\ expired \subseteq {current}
  BY DEF InvQ
<1>4. /\ current \in Tasks /\ current \notin suspended
      /\ current \notin Nodes(readyQ)
  <2>1. current # NoTask
    BY <1>1
  <2> QED BY <2>1, CurrentNotQueued
<1> PICK st, pr : st = [status EXCEPT ![current] = "ready"] /\ pr = TRUE
  OBVIOUS
<1>5. /\ st \in [Tasks -> {"dead", "waiting", "ready", "running"}]
      /\ \A t \in Tasks : st[t] = IF t = current THEN "ready" ELSE status[t]
  BY <1>2, <1>4
<1>6. \A t \in Tasks : st[t] # "running"
  BY <1>3, <1>5
<1>7. ReadySet(st, suspended') = Nodes(readyQ)
  BY <1>1, <1>3, <1>4, <1>5 DEF ReadySet
<1>8. \A t \in suspended' : st[t] = "ready"
  BY <1>1, <1>2, <1>3, <1>4, <1>5
<1>9. LandedRemainder(expired) \in 0 .. Quantum
  <2>1. remainder[current] \in 0 .. Quantum /\ ran \in 0 .. Quantum
    BY <1>4 DEF InvQ, TypeOK
  <2> QED BY <2>1 DEF LandedRemainder, SubTicks
<1>10. /\ expired' = {}
       /\ remainder' \in [Tasks -> 0 .. Quantum]
       /\ t_Forbid' \in [Tasks -> Nat]
       /\ suspended' \in SUBSET Tasks
       /\ n_Priority' = n_Priority
       /\ inInterrupt' \in BOOLEAN
  BY <1>1, <1>2, <1>3, <1>4, <1>9
<1>11. ScheduleNewTask(st, pr) /\ pr \in BOOLEAN
  BY <1>1
<1> QED BY <1>5, <1>6, <1>7, <1>8, <1>10, <1>11, ScheduleStep

(* internalKill: the victim is requeued, the killer sleeps.                 *)
LEMMA KillStep ==
    ASSUME InvQ, NEW t \in Tasks, Kill(t)
    PROVE  InvQ'
<1> USE SchedulerAssumption
<1> PICK pri, old, rest : /\ pri = [n_Priority EXCEPT ![t] = KillPri]
                          /\ old = n_Priority
                          /\ rest = Without(readyQ, t)
  OBVIOUS
<1>1. /\ TaskRuns
      /\ t # current
      /\ n_Priority' = pri
      /\ suspended' = suspended \ {t}
      /\ expired' = expired \ {current}
      /\ remainder' = [remainder EXCEPT ![current] = Quantum]
      /\ UNCHANGED <<t_Forbid, inInterrupt>>
  BY DEF Kill, InSysCall
<1>2. /\ status \in [Tasks -> {"dead", "waiting", "ready", "running"}]
      /\ n_Priority \in [Tasks -> Nat] /\ t_Forbid \in [Tasks -> Nat]
      /\ remainder \in [Tasks -> 0 .. Quantum]
      /\ suspended \in SUBSET Tasks
      /\ pleaseReschedule \in BOOLEAN
  BY DEF InvQ, TypeOK
<1>3. /\ GoodQueue(readyQ, n_Priority)
      /\ Nodes(readyQ) = ReadySet(status, suspended)
      /\ \A u \in Tasks : status[u] = "running" <=> u = current
      /\ \A u \in suspended : status[u] = "ready"
      /\ expired \subseteq {current}
  BY DEF InvQ
<1>4. /\ current \in Tasks /\ current \notin suspended
      /\ current \notin Nodes(readyQ)
      /\ \A u \in Nodes(readyQ) : u \in Tasks
  BY <1>1, CurrentNotQueued DEF TaskRuns
<1>5. PICK k \in 0 .. Len(rest) :
        /\ FromTail(pri, rest, t, k)
        /\ status' = [status EXCEPT ![t] = "ready", ![current] = "waiting",
                                    ![InsertAfter(rest, k, t)[1]] = "running"]
        /\ Launch(InsertAfter(rest, k, t)[1], Tail(InsertAfter(rest, k, t)),
                  remainder[InsertAfter(rest, k, t)[1]], pri)
  BY DEF Kill
<1> PICK full, first, q, rem : /\ full = InsertAfter(rest, k, t)
                               /\ first = full[1]
                               /\ q = Tail(full)
                               /\ rem = remainder[first]
  OBVIOUS
<1>6. pri \in [Tasks -> Nat] /\ \A u \in Tasks : u # t => pri[u] = old[u]
  BY <1>2
<1>7. GoodQueue(rest, old) /\ Nodes(rest) = Nodes(readyQ) \ {t}
  BY <1>3, WithoutGood
<1>8. t \notin Nodes(rest) /\ \A u \in Nodes(rest) : pri[u] = old[u]
  BY <1>4, <1>6, <1>7
<1>9. GoodQueue(rest, pri)
  BY ONLY <1>7, <1>8, SameOrder
<1>10. GoodQueue(full, pri) /\ Nodes(full) = Nodes(rest) \cup {t}
  BY <1>5, <1>6, <1>8, <1>9, InsertGood
<1>11. full # << >>
  <2>1. full \in Seq(Tasks) /\ Nodes(full) # {}
    BY <1>10 DEF GoodQueue
  <2> QED BY <2>1, EmptyNodes
<1>12. /\ first \in Tasks /\ first \in Nodes(full)
       /\ GoodQueue(q, pri)
       /\ Nodes(q) = Nodes(full) \ {first}
       /\ \A u \in Nodes(full) : pri[u] <= pri[first]
  BY <1>6, <1>10, <1>11, HeadGood
<1>13. first # current
  BY <1>1, <1>4, <1>7, <1>10, <1>12
<1>14. /\ status' \in [Tasks -> {"dead", "waiting", "ready", "running"}]
       /\ \A u \in Tasks : status'[u] = IF u = first THEN "running"
                                       ELSE IF u = current THEN "waiting"
                                       ELSE IF u = t THEN "ready"
                                       ELSE status[u]
  BY <1>1, <1>2, <1>4, <1>5, <1>12, <1>13
<1>15. Nodes(full) = ({u \in Tasks : status[u] = "ready"} \ suspended) \cup {t}
  BY <1>3, <1>7, <1>10 DEF ReadySet
<1>16. Nodes(q) = ReadySet(status', suspended')
  BY <1>1, <1>3, <1>12, <1>13, <1>14, <1>15 DEF ReadySet
<1>17. \A u \in Tasks : status'[u] = "running" <=> u = first
  BY <1>3, <1>12, <1>13, <1>14
<1>18. \A u \in suspended' : status'[u] = "ready"
  <2>1. first \notin suspended'
    BY <1>1, <1>12, <1>15
  <2> QED BY <1>1, <1>2, <1>3, <1>4, <1>14, <2>1
<1>19. /\ expired' = {}
       /\ remainder' \in [Tasks -> 0 .. Quantum]
       /\ t_Forbid' \in [Tasks -> Nat]
       /\ suspended' \in SUBSET Tasks
       /\ rem \in 0 .. Quantum
       /\ inInterrupt' \in BOOLEAN
  <2>1. Quantum \in 0 .. Quantum
    OBVIOUS
  <2>2. inInterrupt \in BOOLEAN
    BY DEF InvQ, TypeOK
  <2> QED BY <1>1, <1>2, <1>3, <1>12, <2>1, <2>2
<1>20. /\ n_Priority' \in [Tasks -> Nat]
       /\ GoodQueue(q, n_Priority')
       /\ \A u \in Nodes(q) : n_Priority'[u] <= n_Priority'[first]
       /\ Launch(first, q, rem, n_Priority')
  BY <1>1, <1>5, <1>6, <1>12
<1> QED BY <1>12, <1>14, <1>16, <1>17, <1>18, <1>19, <1>20, LaunchStep

(* Steps that leave the queue, its priorities and the current task alone.   *)
LEMMA QuietStep ==
    ASSUME InvQ, TypeOK',
           UNCHANGED <<status, suspended, n_Priority, readyQ, current>>,
           pleaseReschedule => pleaseReschedule',
           timerArmed => timerArmed' \/ pleaseReschedule' \/ current = NoTask,
           expired' \subseteq {current},
           NoIdleWithWork',
           TaskRuns' /\ t_Forbid'[current] = 0 => ~pleaseReschedule'
    PROVE  InvQ'
<1>1. Noticed(Nodes(readyQ'), current', n_Priority', timerArmed', pleaseReschedule')
  BY DEF InvQ, Noticed
<1> QED BY <1>1 DEF InvQ

(* Entry of a system call.                                                  *)
LEMMA EnterStep ==
    ASSUME InvQ, EnterForbid
    PROVE  InvQ'
<1> USE SchedulerAssumption
<1>1. /\ TaskRuns
      /\ t_Forbid' = [t_Forbid EXCEPT ![current] = t_Forbid[current] + 1]
      /\ UNCHANGED <<status, suspended, expired, n_Priority, remainder, readyQ,
                     current, pleaseReschedule, timerArmed, timerLeft, ran,
                     inInterrupt>>
  BY DEF EnterForbid, timerVars
<1>2. /\ current \in Tasks /\ t_Forbid[current] \in Nat
      /\ t_Forbid \in [Tasks -> Nat]
  BY <1>1, CurrentNotQueued DEF TaskRuns, InvQ, TypeOK
<1>3. t_Forbid' \in [Tasks -> Nat] /\ t_Forbid'[current] # 0
  BY <1>1, <1>2
<1>4. TypeOK'
  BY <1>1, <1>3 DEF InvQ, TypeOK
<1>5. NoIdleWithWork' /\ expired' \subseteq {current}
  BY <1>1 DEF InvQ, NoIdleWithWork
<1> QED BY <1>1, <1>3, <1>4, <1>5, QuietStep

(* Without a task to give way to, the reschedule flag is not needed.        *)
LEMMA NothingHigher ==
    ASSUME InvQ, current # NoTask, ~MustSwap
    PROVE  Noticed(Nodes(readyQ), current, n_Priority, timerArmed, FALSE)
<1>1. /\ GoodQueue(readyQ, n_Priority) /\ n_Priority \in [Tasks -> Nat]
      /\ readyQ \in Seq(Tasks)
  BY DEF InvQ, TypeOK
<1>2. current \in Tasks /\ \A t \in Nodes(readyQ) : t \in Tasks
  BY CurrentNotQueued
<1>3. ASSUME NEW t \in Nodes(readyQ)
      PROVE  ~(n_Priority[t] > n_Priority[current]) /\ n_Priority[t] # n_Priority[current]
  <2>1. readyQ # << >>
    BY <1>1, EmptyNodes
  <2>2. readyQ[1] \in Tasks /\ n_Priority[t] <= n_Priority[readyQ[1]]
    BY <1>1, <2>1, HeadGood
  <2>3. /\ n_Priority[t] \in Nat /\ n_Priority[readyQ[1]] \in Nat
        /\ n_Priority[current] \in Nat
    BY <1>1, <1>2, <2>2
  <2>4. ~(n_Priority[readyQ[1]] >= n_Priority[current])
    BY <2>1 DEF MustSwap
  <2> QED BY <2>2, <2>3, <2>4
<1> QED BY <1>3 DEF Noticed

(* Exit of a system call.                                                   *)
LEMMA PermitStep ==
    ASSUME InvQ, LeaveForbid
    PROVE  InvQ'
<1> USE SchedulerAssumption
<1>1. /\ TaskRuns /\ t_Forbid[current] > 0
      /\ t_Forbid' = [t_Forbid EXCEPT ![current] = t_Forbid[current] - 1]
      /\ UNCHANGED <<suspended, n_Priority, inInterrupt>>
  BY DEF LeaveForbid, InSysCall
<1>2. /\ current \in Tasks /\ current # NoTask /\ t_Forbid[current] \in Nat
      /\ t_Forbid \in [Tasks -> Nat]
  BY <1>1, CurrentNotQueued DEF TaskRuns, InvQ, TypeOK
<1>3. /\ t_Forbid' \in [Tasks -> Nat]
      /\ t_Forbid'[current] = t_Forbid[current] - 1
  BY <1>1, <1>2
<1>4. inInterrupt' \in BOOLEAN
  BY <1>1 DEF InvQ, TypeOK
<1>5. CASE pleaseReschedule /\ t_Forbid[current] = 1
  <2>1. SwapTasks
    BY <1>5 DEF LeaveForbid
  <2>2. CASE MustSwap
    <3>1. Preempt(expired)
      BY <2>1, <2>2 DEF SwapTasks
    <3>2. expired \subseteq {current}
      BY DEF InvQ
    <3> PICK exp : exp = expired
      OBVIOUS
    <3> QED BY <1>1, <1>2, <1>3, <1>4, <2>2, <3>1, <3>2, PreemptStep
  <2>3. CASE ~MustSwap
    <3>1. /\ pleaseReschedule' = FALSE
          /\ UNCHANGED <<status, expired, remainder, readyQ, current,
                         timerArmed, timerLeft, ran>>
      BY <2>1, <2>3 DEF SwapTasks, timerVars
    <3>2. TypeOK'
      BY <1>1, <1>3, <3>1 DEF InvQ, TypeOK
    <3>3. Noticed(Nodes(readyQ'), current', n_Priority', timerArmed', pleaseReschedule')
      BY <1>1, <1>2, <2>3, <3>1, NothingHigher
    <3>4. NoIdleWithWork'
      BY <1>1, <3>1 DEF InvQ, NoIdleWithWork
    <3> QED BY <1>1, <3>1, <3>2, <3>3, <3>4 DEF InvQ
  <2> QED BY <2>2, <2>3
<1>6. CASE ~(pleaseReschedule /\ t_Forbid[current] = 1)
  <2>1. UNCHANGED <<status, expired, remainder, readyQ, current, pleaseReschedule,
                    timerArmed, timerLeft, ran>>
    BY <1>6 DEF LeaveForbid, timerVars
  <2>2. TypeOK'
    BY <1>1, <1>3, <2>1 DEF InvQ, TypeOK
  <2>3. NoIdleWithWork' /\ expired' \subseteq {current}
    BY <1>1, <2>1 DEF InvQ, NoIdleWithWork
  <2>4. t_Forbid'[current] = 0 => t_Forbid[current] = 1
    BY <1>2, <1>3
  <2> QED BY <1>1, <1>6, <2>1, <2>2, <2>3, <2>4, QuietStep
<1> QED BY <1>5, <1>6

(* Yield.                                                                   *)
LEMMA YieldStep ==
    ASSUME InvQ, Yield
    PROVE  InvQ'
<1> PICK exp : exp = expired \cup {current}
  OBVIOUS
<1>1. /\ current # NoTask /\ MustSwap /\ Preempt(exp)
      /\ UNCHANGED <<suspended, n_Priority, t_Forbid, inInterrupt>>
  BY DEF Yield, InSysCall, TaskRuns
<1>2. exp \subseteq {current}
  BY DEF InvQ
<1>3. t_Forbid' \in [Tasks -> Nat] /\ inInterrupt' \in BOOLEAN
  BY <1>1 DEF InvQ, TypeOK
<1> QED BY <1>1, <1>2, <1>3, PreemptStep

(* Time passes, and the quantum timer goes off.                             *)
LEMMA TimeStep ==
    ASSUME InvQ, Tick \/ QuantumTimer
    PROVE  InvQ'
<1> USE SchedulerAssumption
<1>0. TypeOK
  BY DEF InvQ
<1>1. CASE Tick
  <2>1. /\ timerArmed => timerLeft > 0
        /\ timerLeft' = IF timerArmed THEN timerLeft - 1 ELSE 0
        /\ ran' = IF ran < Quantum THEN ran + 1 ELSE ran
        /\ UNCHANGED <<status, suspended, expired, n_Priority, t_Forbid,
                       remainder, readyQ, current, pleaseReschedule, timerArmed,
                       inInterrupt>>
    BY <1>1 DEF Tick, taskVars
  <2>2. timerLeft' \in 0 .. Quantum /\ ran' \in 0 .. Quantum
    <3>1. timerLeft \in 0 .. Quantum /\ ran \in 0 .. Quantum
      BY <1>0 DEF TypeOK
    <3> QED BY <2>1, <3>1
  <2>3. TypeOK'
    BY <1>0, <2>1, <2>2 DEF TypeOK
  <2>4. NoIdleWithWork' /\ expired' \subseteq {current}
    BY <2>1 DEF InvQ, NoIdleWithWork
  <2>5. TaskRuns' /\ t_Forbid'[current] = 0 => ~pleaseReschedule'
    BY <2>1 DEF InvQ, TaskRuns
  <2> QED BY <2>1, <2>3, <2>4, <2>5, QuietStep
<1>2. CASE QuantumTimer
  <2>1. /\ inInterrupt' = TRUE
        /\ timerArmed' = FALSE
        /\ IF current # NoTask
           THEN expired' = expired \cup {current} /\ pleaseReschedule' = TRUE
           ELSE UNCHANGED <<expired, pleaseReschedule>>
        /\ UNCHANGED <<status, suspended, n_Priority, t_Forbid, remainder,
                       readyQ, current, timerLeft, ran>>
    BY <1>2 DEF QuantumTimer
  <2>2. expired' \subseteq {current} /\ expired' \in SUBSET Tasks
    BY <1>0, <2>1 DEF InvQ, TypeOK
  <2>3. pleaseReschedule' \in BOOLEAN
    BY <1>0, <2>1 DEF TypeOK
  <2>4. TypeOK'
    BY <1>0, <2>1, <2>2, <2>3 DEF TypeOK
  <2>5. NoIdleWithWork' /\ ~TaskRuns'
    BY <2>1 DEF NoIdleWithWork, TaskRuns
  <2>6. /\ pleaseReschedule => pleaseReschedule'
        /\ pleaseReschedule' \/ current = NoTask
    BY <2>1
  <2> QED BY <2>1, <2>2, <2>4, <2>5, <2>6, QuietStep
<1> QED BY <1>1, <1>2

(* CheckForTaskSwap.                                                        *)
LEMMA ExitStep ==
    ASSUME InvQ, InterruptExit
    PROVE  InvQ'
<1> USE SchedulerAssumption
<1>1. inInterrupt' = FALSE /\ UNCHANGED <<suspended, n_Priority, t_Forbid>>
  BY DEF InterruptExit
<1>2. /\ TypeOK /\ expired \subseteq {current}
      /\ GoodQueue(readyQ, n_Priority)
      /\ Nodes(readyQ) = ReadySet(status, suspended)
      /\ \A u \in Tasks : status[u] = "running" <=> u = current
      /\ \A u \in suspended : status[u] = "ready"
  BY DEF InvQ
<1>3. CASE UNCHANGED <<status, expired, remainder, readyQ, current,
                       pleaseReschedule, timerVars>>
           /\ (current = NoTask => readyQ = << >>)
           /\ (current # NoTask /\ t_Forbid[current] = 0 => ~pleaseReschedule)
  <2>1. TypeOK'
    BY <1>1, <1>2, <1>3 DEF TypeOK, timerVars
  <2>2. NoIdleWithWork' /\ expired' \subseteq {current}
    BY <1>2, <1>3 DEF NoIdleWithWork
  <2>3. TaskRuns' /\ t_Forbid'[current] = 0 => ~pleaseReschedule'
    BY <1>1, <1>3 DEF TaskRuns
  <2> QED BY <1>1, <1>3, <2>1, <2>2, <2>3, QuietStep DEF timerVars
<1>4. CASE ~pleaseReschedule
  <2>1. UNCHANGED <<status, expired, remainder, readyQ, current,
                    pleaseReschedule, timerVars>>
    BY <1>4 DEF InterruptExit
  <2>2. current = NoTask => readyQ = << >>
    <3>1. current = NoTask => Nodes(readyQ) = {}
      BY <1>4 DEF InvQ, Noticed
    <3> QED BY <1>2, <3>1, EmptyNodes DEF TypeOK
  <2> QED BY <1>3, <1>4, <2>1, <2>2
<1>5. CASE pleaseReschedule /\ current = NoTask /\ readyQ # << >>
  <2> PICK first, q, rem, pri : /\ first = readyQ[1] /\ q = Tail(readyQ)
                                /\ rem = remainder[first] /\ pri = n_Priority
    OBVIOUS
  <2>1. /\ status' = [status EXCEPT ![first] = "running"]
        /\ Launch(first, q, rem, pri)
        /\ UNCHANGED <<expired, remainder>>
    BY <1>5 DEF InterruptExit
  <2>2. pri \in [Tasks -> Nat]
    BY <1>2 DEF TypeOK
  <2>3. /\ first \in Tasks /\ first \in Nodes(readyQ)
        /\ GoodQueue(q, pri)
        /\ Nodes(q) = Nodes(readyQ) \ {first}
        /\ \A t \in Nodes(readyQ) : pri[t] <= pri[first]
    BY <1>2, <1>5, <2>2, HeadGood
  <2>4. rem \in 0 .. Quantum
    BY <1>2, <2>3 DEF TypeOK
  <2>5. /\ status' \in [Tasks -> {"dead", "waiting", "ready", "running"}]
        /\ \A t \in Tasks : status'[t] = IF t = first THEN "running" ELSE status[t]
    BY <1>2, <2>1, <2>3 DEF TypeOK
  <2>6. Nodes(q) = ReadySet(status', suspended')
    BY <1>1, <1>2, <2>3, <2>5 DEF ReadySet
  <2>7. \A t \in Tasks : status'[t] = "running" <=> t = first
    BY <1>2, <1>5, <2>5
  <2>8. \A t \in suspended' : status'[t] = "ready"
    <3>1. first \notin suspended /\ suspended \subseteq Tasks
      BY <1>2, <2>3 DEF ReadySet, TypeOK
    <3> QED BY <1>1, <1>2, <2>5, <3>1
  <2>9. expired' = {}
    <3>1. expired \subseteq Tasks /\ expired \subseteq {NoTask}
      BY <1>2, <1>5 DEF TypeOK
    <3> QED BY <2>1, <3>1
  <2>10. /\ n_Priority' \in [Tasks -> Nat]
         /\ t_Forbid' \in [Tasks -> Nat]
         /\ suspended' \in SUBSET Tasks
         /\ remainder' \in [Tasks -> 0 .. Quantum]
         /\ inInterrupt' \in BOOLEAN
         /\ GoodQueue(q, n_Priority')
         /\ \A u \in Nodes(q) : n_Priority'[u] <= n_Priority'[first]
         /\ Launch(first, q, rem, n_Priority')
    BY <1>1, <1>2, <2>1, <2>2, <2>3 DEF TypeOK
  <2> QED BY <2>3, <2>4, <2>5, <2>6, <2>7, <2>8, <2>9, <2>10, LaunchStep
<1>6. CASE pleaseReschedule /\ current # NoTask /\ MustSwap
  <2>1. CASE t_Forbid[current] = 0
    <3> PICK exp : exp = expired
      OBVIOUS
    <3>1. Preempt(exp)
      BY <1>6, <2>1 DEF InterruptExit
    <3>2. t_Forbid' \in [Tasks -> Nat] /\ inInterrupt' \in BOOLEAN
      BY <1>1, <1>2 DEF TypeOK
    <3> QED BY <1>1, <1>2, <1>6, <3>1, <3>2, PreemptStep
  <2>2. CASE t_Forbid[current] # 0
    <3>1. UNCHANGED <<status, expired, remainder, readyQ, current,
                      pleaseReschedule, timerVars>>
      BY <1>6, <2>2 DEF InterruptExit
    <3> QED BY <1>3, <1>6, <2>2, <3>1
  <2> QED BY <2>1, <2>2
<1>7. CASE /\ pleaseReschedule
           /\ current = NoTask => readyQ = << >>
           /\ current # NoTask => ~MustSwap
  <2>1. /\ pleaseReschedule' = FALSE
        /\ UNCHANGED <<status, expired, remainder, readyQ, current,
                       timerArmed, timerLeft, ran>>
    BY <1>7 DEF InterruptExit, timerVars
  <2>2. TypeOK'
    BY <1>1, <1>2, <2>1 DEF TypeOK
  <2>3. Noticed(Nodes(readyQ), current, n_Priority, timerArmed, FALSE)
    <3>1. CASE current # NoTask
      BY <1>7, <3>1, NothingHigher
    <3>2. CASE current = NoTask
      <4>1. Nodes(readyQ) = {}
        BY <1>7, <3>2 DEF Nodes
      <4> QED BY <3>2, <4>1 DEF Noticed
    <3> QED BY <3>1, <3>2
  <2>4. NoIdleWithWork'
    BY <1>7, <2>1 DEF NoIdleWithWork
  <2> QED BY <1>1, <1>2, <2>1, <2>2, <2>3, <2>4 DEF InvQ
<1> QED BY <1>4, <1>5, <1>6, <1>7

(* internalChangeTaskPri on a sleeping task, which is on no queue.          *)
LEMMA ChangeSleeperStep ==
    ASSUME InvQ, NEW t \in Tasks, NEW p \in Priorities, ChangeSleeperPri(t, p)
    PROVE  InvQ'
<1> USE SchedulerAssumption
<1>1. /\ status[t] = "waiting"
      /\ TaskRuns /\ t_Forbid[current] > 0
      /\ n_Priority' = [n_Priority EXCEPT ![t] = p]
      /\ UNCHANGED <<status, suspended, expired, t_Forbid, remainder, readyQ,
                     current, pleaseReschedule, timerArmed, timerLeft, ran,
                     inInterrupt>>
  BY DEF ChangeSleeperPri, InSysCall, timerVars
<1> PICK q, cur, pri, old : /\ q = readyQ /\ cur = current
                            /\ pri = n_Priority' /\ old = n_Priority
  OBVIOUS
<1>2. /\ cur \in Tasks /\ status[cur] = "running" /\ cur # NoTask
      /\ \A u \in Nodes(q) : u \in Tasks /\ status[u] = "ready"
  BY <1>1, CurrentNotQueued DEF TaskRuns
<1>3. /\ pri \in [Tasks -> Nat]
      /\ \A u \in Tasks : u # t => pri[u] = old[u]
  BY <1>1 DEF InvQ, TypeOK
<1>4. pri[cur] = old[cur] /\ \A u \in Nodes(q) : pri[u] = old[u]
  BY <1>1, <1>2, <1>3
<1>5. GoodQueue(q, pri)
  BY <1>4, SameOrder DEF InvQ
<1> PICK armed, pr : armed = timerArmed /\ pr = pleaseReschedule
  OBVIOUS
<1>6. Noticed(Nodes(q), cur, pri, armed, pr)
  <2>1. Noticed(Nodes(q), cur, old, armed, pr)
    BY DEF InvQ
  <2> QED BY ONLY <1>4, <2>1, SameNotice
<1>7. TypeOK'
  BY <1>1, <1>3 DEF InvQ, TypeOK
<1>8. NoIdleWithWork' /\ t_Forbid'[current'] # 0
  BY <1>1 DEF InvQ, NoIdleWithWork
<1> QED BY <1>1, <1>5, <1>6, <1>7, <1>8 DEF InvQ

(* Every step keeps the invariant.                                          *)
LEMMA InvStep == InvQ /\ [Next]_vars => InvQ'
<1> SUFFICES ASSUME InvQ, [Next]_vars PROVE InvQ'
  OBVIOUS
<1>1. CASE EnterForbid
  BY <1>1, EnterStep
<1>2. CASE LeaveForbid
  BY <1>2, PermitStep
<1>3. CASE Yield
  BY <1>3, YieldStep
<1>4. CASE SleepTask \/ Die
  BY <1>4, LeaveStep
<1>5. CASE UserException
  BY <1>5, ExceptionStep
<1>6. CASE Tick \/ QuantumTimer
  BY <1>6, TimeStep
<1>7. CASE InterruptExit
  BY <1>7, ExitStep
<1>8. CASE \E p \in Priorities : ChangeOwnPri(p)
  BY <1>8, ChangeOwnStep
<1>9. CASE \E t \in Tasks : Wake(t) \/ InterruptWake(t)
  BY <1>9, WakeStep
<1>10. CASE \E t \in Tasks : Kill(t)
  BY <1>10, KillStep
<1>11. CASE \E t \in Tasks : ResumeTask(t)
  BY <1>11, ResumeStep
<1>12. CASE \E t \in Tasks : \E p \in Priorities : ChangeSleeperPri(t, p)
  BY <1>12, ChangeSleeperStep
<1>13. CASE \E t \in Tasks : \E p \in Priorities : ChangeReadyPri(t, p)
  BY <1>13, ChangeReadyStep
<1>14. CASE \E t \in Tasks : \E p \in Priorities :
              \E forbid \in {0, 1} : CreateTask(t, p, forbid)
  BY <1>14, CreateStep
<1>15. CASE UNCHANGED vars
  BY <1>15 DEF vars, taskVars, timerVars, InvQ, TypeOK, NoIdleWithWork, TaskRuns
<1> QED BY <1>1, <1>2, <1>3, <1>4, <1>5, <1>6, <1>7, <1>8, <1>9, <1>10, <1>11,
           <1>12, <1>13, <1>14, <1>15 DEF Next

-----------------------------------------------------------------------------
(* The scheduler keeps its inductive invariant: every action of taskswap.c, *)
(* and every caller that changes the queue or a priority, repairs what it   *)
(* disturbs before interrupts are enabled again.                            *)
THEOREM SchedulerInvariance == Spec => []SchedulerInv
<1>1. Spec => []InvQ
  BY InvInit, InvStep, PTL DEF Spec
<1>2. []InvQ => []SchedulerInv
  BY SameInv, PTL
<1> QED BY <1>1, <1>2, PTL

(* All variables keep their types; above all, no quantum goes below 0 when  *)
(* the time a task has run is subtracted from it.                           *)
THEOREM SchedulerTypes == Spec => []TypeOK
<1>1. SchedulerInv => TypeOK
  BY DEF SchedulerInv
<1> QED BY <1>1, SchedulerInvariance, PTL

(* The ready queue holds exactly the tasks that could run, once each,       *)
(* whatever is killed, requeued, suspended, resumed or put to sleep.        *)
THEOREM ReadyQueueCorrect == Spec => []ReadyQueueExact
<1>1. SchedulerInv => ReadyQueueExact
  BY DEF SchedulerInv
<1> QED BY <1>1, SchedulerInvariance, PTL

(* The ready queue stays in order of priority, although Murder and          *)
(* ChangeTaskPri write the priority of tasks that may be on it.             *)
THEOREM ReadyQueueInOrder == Spec => []ReadyQueueSorted
<1>1. SchedulerInv => ReadyQueueSorted
  BY DEF SchedulerInv
<1> QED BY <1>1, SchedulerInvariance, PTL

(* Strict priority: a task that may be preempted is never running while a   *)
(* task of higher priority is ready.                                        *)
THEOREM StrictPriority == Spec => []HighestPriorityRuns
<1>1. SchedulerInv => HighestPriorityRuns
  <2> SUFFICES ASSUME SchedulerInv, TaskRuns, t_Forbid[current] = 0,
                      NEW t \in Nodes(readyQ)
               PROVE  n_Priority[t] <= n_Priority[current]
    BY DEF HighestPriorityRuns
  <2>1. current # NoTask /\ ~pleaseReschedule
    BY DEF TaskRuns, SchedulerInv
  <2>2. ~(n_Priority[t] > n_Priority[current])
    BY <2>1 DEF SchedulerInv
  <2>3. t \in Tasks /\ current \in Tasks
    BY <2>1 DEF SchedulerInv, TypeOK, Nodes
  <2>4. n_Priority[t] \in Nat /\ n_Priority[current] \in Nat
    BY <2>3 DEF SchedulerInv, TypeOK
  <2> QED BY <2>2, <2>4
<1> QED BY <1>1, SchedulerInvariance, PTL

(* Round robin never stops: while an equal of the running task is ready,    *)
(* the quantum timer runs or a reschedule is pending.                       *)
THEOREM RoundRobinGoesOn == Spec => []EqualsAreTimed
<1>1. SchedulerInv => EqualsAreTimed
  BY DEF SchedulerInv
<1> QED BY <1>1, SchedulerInvariance, PTL

(* The idle loop runs only while no task is ready.                          *)
THEOREM IdleOnlyWithoutWork == Spec => []NoIdleWithWork
<1>1. SchedulerInv => NoIdleWithWork
  BY DEF SchedulerInv
<1> QED BY <1>1, SchedulerInvariance, PTL

=============================================================================
