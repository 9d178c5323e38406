------------------------------ MODULE Scheduler ------------------------------
(***************************************************************************)
(* The kernel's scheduler (kernel/taskswap.c, with the parts of task.c,    *)
(* exceptions.c and exceptions.s that call it): the ready queue, task      *)
(* switches, priorities, the quantum timer, and the Forbid count that      *)
(* keeps a task from being preempted inside a system call.                 *)
(*                                                                         *)
(* An action is one section that runs with interrupts disabled.  A system  *)
(* call is a series of such sections between EnterForbid and LeaveForbid;  *)
(* interrupts come between any two of them.                                *)
(***************************************************************************)
EXTENDS Lists

CONSTANTS
    Tasks,           \* Task structures
    NoTask,          \* NULL: the idle loop runs
    Mortal,          \* tasks that may exit, be killed or trap; the operator
                     \* task is not one of them
    Priorities,      \* priorities tasks are given
    KillPri,         \* the priority Murder gives to its victim (200)
    Quantum,         \* t_Quantum, in ticks
    MaxForbid,       \* model bound on t_Forbid
    PriChanges       \* tasks change the priority of ready tasks

ASSUME SchedulerAssumption ==
    /\ NoTask \notin Tasks
    /\ Mortal \subseteq Tasks /\ Mortal # Tasks
    /\ Priorities \subseteq Nat /\ Priorities # {}
    /\ KillPri \in Nat
    /\ Quantum \in Nat \ {0}
    /\ MaxForbid \in Nat \ {0}
    /\ PriChanges \in BOOLEAN

VARIABLES
    status,            \* n_Flags: which of READY, WAITING, RUNNING is set
    suspended,         \* tasks with TASK_SUSPENDED
    expired,           \* tasks with TASK_QUANTUM_EXPIRED
    n_Priority,
    t_Forbid,
    remainder,         \* t_QuantumRemainder
    readyQ,            \* kb_TaskReadyQ
    current,           \* kb_CurrentTask
    pleaseReschedule,  \* kb_PleaseReschedule
    timerArmed,
    timerLeft,         \* ticks until _quantaclock goes off, while it is armed
    ran,               \* ticks since taskStartTime, up to Quantum
    inInterrupt        \* an interrupt handler runs

taskVars  == <<status, suspended, expired, n_Priority, t_Forbid, remainder>>
timerVars == <<timerArmed, timerLeft, ran>>
vars      == <<taskVars, readyQ, current, pleaseReschedule, timerVars,
               inInterrupt>>

TypeOK ==
    /\ status \in [Tasks -> {"dead", "waiting", "ready", "running"}]
    /\ suspended \in SUBSET Tasks
    /\ expired \in SUBSET Tasks
    /\ n_Priority \in [Tasks -> Nat]
    /\ t_Forbid \in [Tasks -> Nat]
    /\ remainder \in [Tasks -> 0 .. Quantum]
    /\ readyQ \in Seq(Tasks)
    /\ current \in Tasks \cup {NoTask}
    /\ pleaseReschedule \in BOOLEAN
    /\ timerArmed \in BOOLEAN
    /\ timerLeft \in 0 .. Quantum
    /\ ran \in 0 .. Quantum
    /\ inInterrupt \in BOOLEAN

\* The operator task has just been launched; the others do not exist yet.
Init ==
    /\ current \in Tasks \ Mortal
    /\ status = [t \in Tasks |-> IF t = current THEN "running" ELSE "dead"]
    /\ suspended = {}
    /\ expired = {}
    /\ \E p \in Priorities : n_Priority = [t \in Tasks |-> p]
    /\ t_Forbid = [t \in Tasks |-> 0]
    /\ remainder = [t \in Tasks |-> Quantum]
    /\ readyQ = << >>
    /\ pleaseReschedule = FALSE
    /\ timerArmed = FALSE /\ timerLeft = 0 /\ ran = 0
    /\ inInterrupt = FALSE

-----------------------------------------------------------------------------
\* Mutant of SubTicks: the difference may go below 0.
SubTicks_NoFloor(a, b) == a - b

\* SubTimerTicks(b, a): the difference stops at 0.
SubTicks(a, b) == IF a > b THEN a - b ELSE 0

\* Mutant of Without: the node is not removed.
Without_Forgets(q, t) == q

\* The queue q without task t, which is unchanged if t is not there.
Without(q, t) ==
    IF t \in Nodes(q) THEN WithoutAt(q, CHOOSE i \in 1 .. Len(q) : q[i] = t)
    ELSE q

\* Mutant of LandsAt: the task always goes before its equals.
LandsAt_IgnoresQuantum(exp, k) == FromHead(n_Priority, readyQ, current, k)

\* LandReady(current), with exp the expired tasks, puts it behind the first k
\* tasks of the ready queue: behind its equals if it has used up its quantum,
\* before them if it has not.
LandsAt(exp, k) ==
    IF current \in exp
    THEN FromTail(n_Priority, readyQ, current, k)
    ELSE FromHead(n_Priority, readyQ, current, k)

\* Its t_QuantumRemainder: a new quantum, or what is left of the old one.
LandedRemainder(exp) ==
    IF current \in exp THEN Quantum ELSE SubTicks(remainder[current], ran)

(* Launch(t), with q what is left on the ready queue: the quantum timer     *)
(* runs only if another ready task has the same priority.                   *)
Launch(t, q, rem, pri) ==
    /\ readyQ' = q
    /\ current' = t
    /\ pleaseReschedule' = FALSE
    /\ ran' = 0
    /\ timerArmed' = (q # << >> /\ pri[q[1]] = pri[t])
    /\ timerLeft' = IF timerArmed' THEN rem ELSE 0

(* LandReady(current), then Launch the task that was first in the ready     *)
(* queue, as CheckForTaskSwap, SwapTasks and Yield do.                      *)
Preempt(exp) ==
    LET first == readyQ[1] IN
    \E k \in 0 .. Len(readyQ) :
        /\ LandsAt(exp, k)
        /\ status' = [status EXCEPT ![current] = "ready", ![first] = "running"]
        /\ remainder' = [remainder EXCEPT ![current] = LandedRemainder(exp)]
        /\ expired' = exp \ {current}
        /\ Launch(first, Without(InsertAfter(readyQ, k, current), first),
                  remainder[first], n_Priority)

(* ScheduleNewTask, with st the task states and pr the reschedule flag it   *)
(* finds: launch the first ready task or enter the idle loop.               *)
ScheduleNewTask(st, pr) ==
    \/ /\ readyQ # << >>
       /\ status' = [st EXCEPT ![readyQ[1]] = "running"]
       /\ Launch(readyQ[1], Tail(readyQ), remainder[readyQ[1]], n_Priority)
    \/ /\ readyQ = << >>
       /\ status' = st
       /\ readyQ' = readyQ
       /\ current' = NoTask
       /\ pleaseReschedule' = pr
       /\ UNCHANGED timerVars

\* The ready queue holds a task the current one must give way to.
MustSwap == readyQ # << >> /\ n_Priority[readyQ[1]] >= n_Priority[current]

-----------------------------------------------------------------------------
(* NewReadyTask(t), for a task that is not on the queue q.                 *)

\* A task that is not suspended is put on the queue, behind its equals.
EnqueueReady(t, q, pri, susp) ==
    IF t \in susp THEN readyQ' = q
    ELSE \E k \in 0 .. Len(q) :
            FromTail(pri, q, t, k) /\ readyQ' = InsertAfter(q, k, t)

\* A task of the current one's priority arrives: start to count its quantum.
StartQuantum ==
    LET left == SubTicks(remainder[current], ran) IN
    /\ remainder' = [remainder EXCEPT ![current] = left]
    /\ IF left > 0
       THEN /\ timerArmed' = TRUE /\ timerLeft' = left
            /\ UNCHANGED <<expired, pleaseReschedule>>
       ELSE /\ expired' = expired \cup {current}
            /\ pleaseReschedule' = TRUE
            /\ UNCHANGED <<timerArmed, timerLeft>>

\* Mutant of NewReadyTask: tasks of equal priority do not start the timer.
NewReadyTask_NoTimer(t, q, pri, susp) ==
    /\ EnqueueReady(t, q, pri, susp)
    /\ UNCHANGED <<current, ran>>
    /\ pleaseReschedule' =
           (pleaseReschedule \/ (t \notin susp /\
               (current = NoTask \/ pri[t] > pri[current])))
    /\ UNCHANGED <<remainder, expired, timerArmed, timerLeft>>

NewReadyTask(t, q, pri, susp) ==
    /\ EnqueueReady(t, q, pri, susp)
    /\ UNCHANGED <<current, ran>>
    /\ IF t \in susp
       THEN UNCHANGED <<remainder, expired, timerArmed, timerLeft,
                        pleaseReschedule>>
       ELSE IF current = NoTask \/ pri[t] > pri[current]
       THEN /\ pleaseReschedule' = TRUE
            /\ UNCHANGED <<remainder, expired, timerArmed, timerLeft>>
       ELSE IF pri[t] = pri[current] /\ current \in expired
       THEN /\ pleaseReschedule' = TRUE
            /\ UNCHANGED <<remainder, expired, timerArmed, timerLeft>>
       ELSE IF pri[t] = pri[current] /\ ~timerArmed
       THEN StartQuantum
       ELSE UNCHANGED <<remainder, expired, timerArmed, timerLeft,
                        pleaseReschedule>>

-----------------------------------------------------------------------------
(* What tasks do.                                                          *)

TaskRuns  == current # NoTask /\ ~inInterrupt
InSysCall == TaskRuns /\ t_Forbid[current] > 0

(* Forbid(), and the entry of a system call. *)
EnterForbid ==
    /\ TaskRuns
    /\ t_Forbid[current] < MaxForbid
    /\ t_Forbid' = [t_Forbid EXCEPT ![current] = @ + 1]
    /\ UNCHANGED <<status, suspended, expired, n_Priority, remainder, readyQ,
                   current, pleaseReschedule, timerVars, inInterrupt>>

SwapTasks ==
    IF MustSwap
    THEN Preempt(expired)
    ELSE /\ pleaseReschedule' = FALSE
         /\ UNCHANGED <<status, expired, remainder, readyQ, current, timerVars>>

\* Mutant of LeaveForbid: a reschedule that was asked for meanwhile is not
\* made up for.
LeaveForbid_NoSwap ==
    /\ InSysCall
    /\ t_Forbid' = [t_Forbid EXCEPT ![current] = @ - 1]
    /\ UNCHANGED <<status, expired, remainder, readyQ, current,
                   pleaseReschedule, timerVars>>
    /\ UNCHANGED <<suspended, n_Priority, inInterrupt>>

(* Permit(), and the exit of a system call. *)
LeaveForbid ==
    /\ InSysCall
    /\ t_Forbid' = [t_Forbid EXCEPT ![current] = @ - 1]
    /\ IF pleaseReschedule /\ t_Forbid[current] = 1
       THEN SwapTasks
       ELSE UNCHANGED <<status, expired, remainder, readyQ, current,
                        pleaseReschedule, timerVars>>
    /\ UNCHANGED <<suspended, n_Priority, inInterrupt>>

(* Yield: gives the rest of the quantum away, inside Forbid too. *)
Yield ==
    /\ InSysCall
    /\ MustSwap
    /\ Preempt(expired \cup {current})
    /\ UNCHANGED <<suspended, n_Priority, t_Forbid, inInterrupt>>

(* SleepTask on the current task. *)
SleepTask ==
    /\ InSysCall
    /\ expired' = expired \ {current}
    /\ remainder' = [remainder EXCEPT ![current] = Quantum]
    /\ ScheduleNewTask([status EXCEPT ![current] = "waiting"], pleaseReschedule)
    /\ UNCHANGED <<suspended, n_Priority, t_Forbid, inInterrupt>>

(* A system call wakes a task: a signal, a message, a semaphore, ... *)
Wake(t) ==
    /\ InSysCall
    /\ status[t] = "waiting"
    /\ status' = [status EXCEPT ![t] = "ready"]
    /\ NewReadyTask(t, readyQ, n_Priority, suspended)
    /\ UNCHANGED <<suspended, n_Priority, t_Forbid, inInterrupt>>

(* internalCreateTask; a supervisor-mode task starts with a Forbid count. *)
CreateTask(t, p, forbid) ==
    /\ InSysCall
    /\ status[t] = "dead"
    /\ status' = [status EXCEPT ![t] = "ready"]
    /\ n_Priority' = [n_Priority EXCEPT ![t] = p]
    /\ t_Forbid' = [t_Forbid EXCEPT ![t] = forbid]
    /\ NewReadyTask(t, readyQ, n_Priority', suspended)
    /\ UNCHANGED <<suspended, inInterrupt>>

(* internalChangeTaskPri, on the caller, on a sleeping and on a ready task. *)

ChangeOwnPri(p) ==
    /\ InSysCall
    /\ n_Priority' = [n_Priority EXCEPT ![current] = p]
    /\ IF p < n_Priority[current] /\ readyQ # << >>
       THEN NewReadyTask(readyQ[1], Tail(readyQ), n_Priority', suspended)
       ELSE UNCHANGED <<readyQ, current, ran, remainder, expired, timerArmed,
                        timerLeft, pleaseReschedule>>
    /\ UNCHANGED <<status, suspended, t_Forbid, inInterrupt>>

ChangeSleeperPri(t, p) ==
    /\ InSysCall
    /\ status[t] = "waiting"
    /\ n_Priority' = [n_Priority EXCEPT ![t] = p]
    /\ UNCHANGED <<status, suspended, expired, t_Forbid, remainder, readyQ,
                   current, pleaseReschedule, timerVars, inInterrupt>>

\* Mutant of ChangeReadyPri: the task keeps its place in the queue.
ChangeReadyPri_InPlace(t, p) ==
    /\ InSysCall
    /\ status[t] = "ready"
    /\ PriChanges /\ t \notin suspended
    /\ n_Priority' = [n_Priority EXCEPT ![t] = p]
    /\ UNCHANGED <<status, suspended, expired, t_Forbid, remainder, readyQ,
                   current, pleaseReschedule, timerVars, inInterrupt>>

\* REMOVENODE on a suspended task, which is on no list, would write through stale
\* links: callers are assumed not to do that.
ChangeReadyPri(t, p) ==
    /\ InSysCall
    /\ status[t] = "ready"
    /\ PriChanges /\ t \notin suspended
    /\ n_Priority' = [n_Priority EXCEPT ![t] = p]
    /\ NewReadyTask(t, Without(readyQ, t), n_Priority', suspended)
    /\ UNCHANGED <<status, suspended, t_Forbid, inInterrupt>>

(* internalKill on another task: Murder resumes it if it is suspended and   *)
(* raises its priority; it is requeued and the caller sleeps until it has   *)
(* died.                                                                    *)
Kill(t) ==
    LET pri  == [n_Priority EXCEPT ![t] = KillPri]
        rest == Without(readyQ, t)
    IN  /\ InSysCall
        /\ t \in Mortal \ {current} /\ status[t] # "dead"
        /\ n_Priority' = pri
        /\ suspended' = suspended \ {t}
        /\ expired' = expired \ {current}
        /\ remainder' = [remainder EXCEPT ![current] = Quantum]
        /\ \E k \in 0 .. Len(rest) :
              LET q == InsertAfter(rest, k, t) IN
              /\ FromTail(pri, rest, t, k)
              /\ status' = [status EXCEPT ![t] = "ready", ![current] = "waiting",
                                          ![q[1]] = "running"]
              /\ Launch(q[1], Tail(q), remainder[q[1]], pri)
        /\ UNCHANGED <<t_Forbid, inInterrupt>>

(* The end of internalKill on oneself; the structure is freed. *)
Die ==
    /\ InSysCall
    /\ current \in Mortal
    /\ expired' = expired \ {current}
    /\ remainder' = [remainder EXCEPT ![current] = Quantum]
    /\ t_Forbid' = [t_Forbid EXCEPT ![current] = 0]
    /\ ScheduleNewTask([status EXCEPT ![current] = "dead"], pleaseReschedule)
    /\ UNCHANGED <<suspended, n_Priority, inInterrupt>>

(* HandleUserExceptions: the current task traps; SuspendTask takes it off   *)
(* the CPU and off the ready queue.  (The message to the handler, which may *)
(* wake it, is an InterruptWake.)                                           *)
UserException ==
    /\ current \in Mortal
    /\ suspended' = suspended \cup {current}
    /\ expired' = expired \ {current}
    /\ remainder' = [remainder EXCEPT ![current] = LandedRemainder(expired)]
    /\ ScheduleNewTask([status EXCEPT ![current] = "ready"], TRUE)
    /\ inInterrupt' = FALSE
    /\ UNCHANGED <<n_Priority, t_Forbid>>

(* CompleteUserException: ResumeTask. *)
ResumeTask(t) ==
    /\ InSysCall
    /\ t \in suspended
    /\ suspended' = suspended \ {t}
    /\ NewReadyTask(t, readyQ, n_Priority, suspended')
    /\ UNCHANGED <<status, n_Priority, t_Forbid, inInterrupt>>

-----------------------------------------------------------------------------
(* What interrupts do.                                                     *)

\* Time passes; the decrementer interrupt is not put off by a whole tick.
Tick ==
    /\ timerArmed => timerLeft > 0
    /\ timerLeft' = IF timerArmed THEN timerLeft - 1 ELSE 0
    /\ ran' = IF ran < Quantum THEN ran + 1 ELSE ran
    /\ UNCHANGED <<taskVars, readyQ, current, pleaseReschedule, timerArmed,
                   inInterrupt>>

(* An interrupt handler completes a request or sends a signal. *)
InterruptWake(t) ==
    /\ status[t] = "waiting"
    /\ status' = [status EXCEPT ![t] = "ready"]
    /\ NewReadyTask(t, readyQ, n_Priority, suspended)
    /\ inInterrupt' = TRUE
    /\ UNCHANGED <<suspended, n_Priority, t_Forbid>>

(* _cblank: the quantum timer goes off. *)
QuantumTimer ==
    /\ ~inInterrupt
    /\ timerArmed /\ timerLeft = 0
    /\ timerArmed' = FALSE
    /\ IF current # NoTask
       THEN expired' = expired \cup {current} /\ pleaseReschedule' = TRUE
       ELSE UNCHANGED <<expired, pleaseReschedule>>
    /\ inInterrupt' = TRUE
    /\ UNCHANGED <<status, suspended, n_Priority, t_Forbid, remainder, readyQ,
                   current, timerLeft, ran>>

\* Mutant of InterruptExit: CheckForTaskSwap is not called.
InterruptExit_NoCheck ==
    /\ inInterrupt
    /\ inInterrupt' = FALSE
    /\ UNCHANGED <<taskVars, readyQ, current, pleaseReschedule, timerVars>>

(* CheckForTaskSwap, at the end of every interrupt. *)
InterruptExit ==
    /\ inInterrupt
    /\ inInterrupt' = FALSE
    /\ IF ~pleaseReschedule
       THEN UNCHANGED <<status, expired, remainder, readyQ, current,
                        pleaseReschedule, timerVars>>
       ELSE IF current = NoTask /\ readyQ # << >>
       THEN /\ status' = [status EXCEPT ![readyQ[1]] = "running"]
            /\ Launch(readyQ[1], Tail(readyQ), remainder[readyQ[1]], n_Priority)
            /\ UNCHANGED <<expired, remainder>>
       ELSE IF current # NoTask /\ MustSwap
       THEN IF t_Forbid[current] = 0
            THEN Preempt(expired)
            ELSE UNCHANGED <<status, expired, remainder, readyQ, current,
                             pleaseReschedule, timerVars>>
       ELSE /\ pleaseReschedule' = FALSE
            /\ UNCHANGED <<status, expired, remainder, readyQ, current,
                           timerVars>>
    /\ UNCHANGED <<suspended, n_Priority, t_Forbid>>

Next ==
    \/ EnterForbid \/ LeaveForbid \/ Yield \/ SleepTask
    \/ Die \/ UserException
    \/ Tick \/ QuantumTimer \/ InterruptExit
    \/ \E p \in Priorities : ChangeOwnPri(p)
    \/ \E t \in Tasks :
          \/ Wake(t) \/ Kill(t) \/ ResumeTask(t) \/ InterruptWake(t)
          \/ \E p \in Priorities :
                \/ ChangeSleeperPri(t, p) \/ ChangeReadyPri(t, p)
                \/ \E forbid \in {0, 1} : CreateTask(t, p, forbid)

Spec == Init /\ [][Next]_vars

\* Interrupt handlers end, time passes, a pending decrementer interrupt is
\* taken, and tasks leave the sections in which they forbid preemption.
Fairness ==
    /\ WF_vars(InterruptExit)
    /\ WF_vars(Tick)
    /\ SF_vars(QuantumTimer)
    /\ WF_vars(LeaveForbid)
    /\ SF_vars(LeaveForbid /\ t_Forbid[current] = 1)

FairSpec == Spec /\ Fairness

-----------------------------------------------------------------------------
(* Properties.                                                             *)

(* The ready queue holds exactly the tasks that could run, once each: no    *)
(* task is lost from it by a kill, a change of priority, an exception or a  *)
(* preemption, and the running task is not on it.                           *)
ReadyQueueExact ==
    /\ Nodes(readyQ) = {t \in Tasks : status[t] = "ready"} \ suspended
    /\ Distinct(readyQ)
    /\ \A t \in Tasks : status[t] = "running" <=> t = current

(* The queue is in order of priority, so that its first task is the one to  *)
(* launch, although priorities change under it.                             *)
ReadyQueueSorted == Sorted(n_Priority, readyQ)

(* A task that may be preempted is never running while a task of higher     *)
(* priority is ready, whoever made that one ready: an interrupt inside a    *)
(* forbidden section, a system call or a change of priority.                *)
HighestPriorityRuns ==
    TaskRuns /\ t_Forbid[current] = 0 =>
        \A t \in Nodes(readyQ) : n_Priority[t] <= n_Priority[current]

(* Round robin does not stop: while a ready task has the running task's     *)
(* priority, the quantum timer is running or a reschedule has been asked    *)
(* for.                                                                     *)
EqualsAreTimed ==
    current # NoTask =>
        \A t \in Nodes(readyQ) :
            n_Priority[t] = n_Priority[current] => timerArmed \/ pleaseReschedule

(* The CPU does not idle while there is work: in the idle loop, outside     *)
(* interrupts, the ready queue is empty.                                    *)
NoIdleWithWork ==
    current = NoTask /\ ~inInterrupt => readyQ = << >>

(* The inductive invariant behind these: the properties themselves; only a  *)
(* ready task is suspended and only the running one has expired; a task of  *)
(* higher priority than the running one, or any task beside the idle loop,  *)
(* is on the queue only while a reschedule is asked for; and no reschedule  *)
(* is pending while a task runs that could be preempted.                    *)
SchedulerInv ==
    /\ TypeOK
    /\ ReadyQueueExact
    /\ ReadyQueueSorted
    /\ EqualsAreTimed
    /\ NoIdleWithWork
    /\ \A t \in suspended : status[t] = "ready"
    /\ expired \subseteq {current}
    /\ current = NoTask /\ readyQ # << >> => pleaseReschedule
    /\ current # NoTask =>
          \A t \in Nodes(readyQ) :
              n_Priority[t] > n_Priority[current] => pleaseReschedule
    /\ TaskRuns /\ t_Forbid[current] = 0 => ~pleaseReschedule

(* Among tasks of one priority, every ready task runs eventually.           *)
ReadyTasksRun ==
    \A t \in Tasks : status[t] = "ready" ~> status[t] # "ready"

=============================================================================
