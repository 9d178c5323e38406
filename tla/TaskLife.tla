------------------------------ MODULE TaskLife ------------------------------
(***************************************************************************)
(* Tasks, their signals and their I/O requests, from creation to death     *)
(* (task.c, signal.c, io.c): a family of threads that start I/O, wait for  *)
(* it in WaitIO, by signal or in a delete, kill one another and exit.      *)
(*                                                                         *)
(* A system call is not preempted, but interrupts complete requests while  *)
(* it runs; it keeps the processor until it returns or sleeps, in one step *)
(* except for DoIO and FreeResources, in the middle of which a completion  *)
(* can come from an interrupt.  at[t] is where a task is, arg[t] what the  *)
(* call is about.  Requests are the ones that signal; message-based ones   *)
(* are in MsgPorts.                                                        *)
(***************************************************************************)
EXTENDS Naturals, FiniteSets

CONSTANTS
    Tasks, Reqs,
    NoTask, NoReq,
    Root,       \* the task that is there from the start
    Parent,     \* n_Owner of a task: who creates it
    Creator,    \* who creates a request
    MayKill,    \* MayKill[t]: the tasks that call DeleteItem on t
    Orderly,    \* no task exits or is killed while one above or below it is dying
    Careful     \* a request that another task aborts is left alone, and its owner lives

ASSUME TaskLifeAssumption ==
    /\ Root \in Tasks /\ NoTask \notin Tasks /\ NoReq \notin Reqs
    /\ Tasks \cap Reqs = {} /\ NoTask \notin Reqs /\ NoReq \notin Tasks
    /\ Parent \in [Tasks -> Tasks \cup {NoTask}] /\ Parent[Root] = NoTask
    /\ \A t \in Tasks \ {Root} : Parent[t] \in Tasks
    /\ \A S \in SUBSET Tasks : S # {} => \E t \in S : Parent[t] \notin S
    /\ Creator \in [Reqs -> Tasks] /\ MayKill \in [Tasks -> SUBSET Tasks]
    /\ {Orderly, Careful} \subseteq BOOLEAN

Signals == {"ABORT", "IODONE", "DEADTASK"}
Places  == {"user", "checked", "doio", "waitio", "waitsig", "deleting", "scanning",
            "killing", "dying"}

VARIABLES
    life,       \* alive; doomed: Murder has been at it; dying: it deletes itself
                \* (ITEMNODE_DELETED is set); dead: the item is gone
    at, arg,
    asleep,     \* tasks with TASK_WAITING
    waitItem,   \* t_WaitItem while it is a request
    sigBits, waitBits,
    killer,     \* t_Killer
    todo,       \* children that FreeResources still comes to in this pass
    lastPass,   \* dying tasks that free their remaining items
    owner,      \* n_Owner of a request that exists
    done,       \* requests with IO_DONE, and those that do not exist
    busy,       \* requests the device works on
    aborted,    \* of these, the ones it was told to abort
    sigItem     \* io_SigItem

taskVars == <<life, at, arg, killer, todo, lastPass>>
wakeVars == <<asleep, waitItem, sigBits, waitBits>>
reqVars  == <<owner, done, busy, aborted, sigItem>>
vars     == <<taskVars, wakeVars, reqVars>>

TypeOK ==
    /\ life \in [Tasks -> {"unborn", "alive", "doomed", "dying", "dead"}]
    /\ at \in [Tasks -> Places] /\ arg \in [Tasks -> Reqs \cup Tasks \cup {NoReq}]
    /\ asleep \subseteq Tasks /\ waitItem \in [Tasks -> Reqs \cup {NoReq}]
    /\ sigBits \in [Tasks -> SUBSET Signals] /\ waitBits \in [Tasks -> SUBSET Signals]
    /\ killer \in [Tasks -> Tasks \cup {NoTask}]
    /\ todo \in [Tasks -> SUBSET Tasks] /\ lastPass \subseteq Tasks
    /\ owner \in [Reqs -> Tasks \cup {NoTask}]
    /\ done \subseteq Reqs /\ busy = Reqs \ done /\ aborted \subseteq busy
    /\ sigItem \in [Reqs -> Tasks \cup {NoTask}]

Init ==
    /\ life = [t \in Tasks |-> IF t = Root THEN "alive" ELSE "unborn"]
    /\ at = [t \in Tasks |-> "user"] /\ arg = [t \in Tasks |-> NoReq]
    /\ asleep = {} /\ waitItem = [t \in Tasks |-> NoReq]
    /\ sigBits = [t \in Tasks |-> {}] /\ waitBits = [t \in Tasks |-> {}]
    /\ killer = [t \in Tasks |-> NoTask]
    /\ todo = [t \in Tasks |-> {}] /\ lastPass = {}
    /\ owner = [r \in Reqs |-> NoTask] /\ done = Reqs /\ busy = {} /\ aborted = {}
    /\ sigItem = [r \in Reqs |-> NoTask]

-----------------------------------------------------------------------------
\* Task t gets the processor: it does not sleep, and nobody is in the middle of
\* DoIO or FreeResources, which keep it until they sleep.
Runs(t) ==
    /\ t \notin asleep
    /\ \A u \in Tasks \ {t} : at[u] \notin {"doio", "dying"}

\* A live task in its own code.
User(t) == Runs(t) /\ life[t] = "alive" /\ at[t] = "user"

Goes(t, place, what) ==
    /\ at' = [at EXCEPT ![t] = place]
    /\ arg' = [arg EXCEPT ![t] = what]

\* The call of t returns: to user mode, or into the loop of FreeResources.
Returns(t) == Goes(t, IF life[t] = "dying" THEN "dying" ELSE "user", NoReq)

Children(t) == {c \in Tasks : Parent[c] = t /\ life[c] \in {"alive", "doomed", "dying"}}

\* t and the tasks whose death is t's death: the least set with t that holds the
\* parents of its members.
Line(t) == {u \in Tasks : \A S \in SUBSET Tasks :
    t \in S /\ (\A v \in S : Parent[v] \in S \cup {NoTask}) => u \in S}

\* If tasks take care: nobody is inside internalAbortForeignIO with r ...
LeftAlone(r) == Careful => sigItem[r] = NoTask
\* ... no other task is with a request that dies with t ...
MayDie(t) == Careful => \A r \in Reqs :
    sigItem[r] \notin {NoTask, owner[r]} => t \notin Line(owner[r])
\* ... and the request of another task is not about to go.
WillStay(t, r) ==
    Careful /\ owner[r] # t => \A u \in Line(owner[r]) : life[u] = "alive"

CreateTask(t, c) ==
    /\ User(t) /\ Parent[c] = t /\ life[c] = "unborn"
    /\ life' = [life EXCEPT ![c] = "alive"]
    /\ UNCHANGED <<at, arg, killer, todo, lastPass, wakeVars, reqVars>>

internalCreateIOReq(t, r) ==
    /\ User(t) /\ Creator[r] = t /\ owner[r] = NoTask
    /\ owner' = [owner EXCEPT ![r] = t]
    /\ UNCHANGED <<taskVars, wakeVars, done, busy, aborted, sigItem>>

\* internalSetItemOwner and SetIOReqOwner, which refuses a request in progress.
SetIOReqOwner(t, r, u) ==
    /\ User(t) /\ owner[r] = t /\ r \in done /\ LeftAlone(r)
    /\ u # t /\ life[u] \in {"alive", "doomed"}
    /\ owner' = [owner EXCEPT ![r] = u]
    /\ UNCHANGED <<taskVars, wakeVars, done, busy, aborted, sigItem>>

-----------------------------------------------------------------------------
(* Signals. *)

\* internalSignal: the bits are set, a task that waits for them wakes.
Woken(t, sig) == IF sig \in waitBits[t] THEN {t} ELSE {}
internalSignal(t, sig) ==
    /\ sigBits' = [sigBits EXCEPT ![t] = @ \cup {sig}]
    /\ asleep' = asleep \ Woken(t, sig)

SignalOf(x) == IF x \in Reqs THEN "IODONE" ELSE "DEADTASK"
Over(x) == IF x \in Reqs THEN x \in done ELSE life[x] = "dead"

\* The client finds that a request is not done (CheckIO), or a child not dead.
CheckIO(t, x) ==
    /\ User(t)
    /\ IF x \in Reqs THEN owner[x] = t ELSE Parent[x] = t /\ life[x] # "unborn"
    /\ ~Over(x)
    /\ Goes(t, "checked", x)
    /\ UNCHANGED <<life, killer, todo, lastPass, wakeVars, reqVars>>

\* ... and waits for the signal.
internalWait(t) ==
    LET bits == {SignalOf(arg[t]), "ABORT"}
        res  == bits \cap sigBits[t]
    IN /\ Runs(t) /\ life[t] = "alive" /\ at[t] = "checked"
       /\ IF res # {}
          THEN /\ sigBits' = [sigBits EXCEPT ![t] = @ \ res]
               /\ Goes(t, "user", NoReq)
               /\ UNCHANGED <<asleep, waitBits>>
          ELSE /\ asleep' = asleep \cup {t}
               /\ waitBits' = [waitBits EXCEPT ![t] = bits]
               /\ Goes(t, "waitsig", arg[t])
               /\ UNCHANGED sigBits
       /\ UNCHANGED <<life, killer, todo, lastPass, waitItem, reqVars>>

internalWaitReturns(t) ==
    /\ Runs(t) /\ at[t] = "waitsig"
    /\ sigBits' = [sigBits EXCEPT ![t] = @ \ waitBits[t]]
    /\ waitBits' = [waitBits EXCEPT ![t] = {}]
    /\ Returns(t)
    /\ UNCHANGED <<life, killer, todo, lastPass, asleep, waitItem, reqVars>>

-----------------------------------------------------------------------------
(* I/O requests. *)

\* Mutant of internalCompleteIO: the aborting task is forgotten.
internalCompleteIO_OwnerOnly(r) ==
    LET t == owner[r]
        inWaitIO == waitItem[t] = r
    IN /\ done' = done \cup {r}
       /\ busy' = busy \ {r} /\ aborted' = aborted \ {r}
       /\ asleep' = asleep \ IF inWaitIO THEN {t} ELSE Woken(t, "IODONE")
       /\ IF inWaitIO THEN /\ waitItem' = [waitItem EXCEPT ![t] = NoReq]
                           /\ UNCHANGED sigBits
                      ELSE /\ sigBits' = [sigBits EXCEPT ![t] = @ \cup {"IODONE"}]
                           /\ UNCHANGED waitItem
       /\ UNCHANGED waitBits

\* The wake-ups of a completion: the owner inside WaitIO, or its signal, and the
\* task that aborts the request.
internalCompleteIO(r) ==
    LET t == owner[r]
        inWaitIO == waitItem[t] = r
    IN /\ done' = done \cup {r}
       /\ busy' = busy \ {r} /\ aborted' = aborted \ {r}
       /\ asleep' = asleep \ ({sigItem[r]} \cup IF inWaitIO THEN {t} ELSE Woken(t, "IODONE"))
       /\ IF inWaitIO THEN /\ waitItem' = [waitItem EXCEPT ![t] = NoReq]
                           /\ UNCHANGED sigBits
                      ELSE /\ sigBits' = [sigBits EXCEPT ![t] = @ \cup {"IODONE"}]
                           /\ UNCHANGED waitItem
       /\ UNCHANGED waitBits

\* An interrupt or the driver's own task completes the request.
DeviceCompletes(r) ==
    /\ r \in busy
    /\ internalCompleteIO(r)
    /\ UNCHANGED <<taskVars, owner, sigItem>>

\* Mutant of SendIO: IO_DONE is not cleared before the driver is called.
SendIO_StaysDone(t, r) ==
    /\ User(t) /\ owner[r] = t /\ r \in done /\ LeftAlone(r)
    /\ \/ internalSignal(t, "IODONE") /\ UNCHANGED busy
       \/ busy' = busy \cup {r} /\ UNCHANGED <<asleep, sigBits>>
    /\ UNCHANGED <<taskVars, waitItem, waitBits, owner, done, aborted, sigItem>>

\* StartIO accepts a request of the caller that is done; the driver serves it at
\* once or keeps it.  At once, SendIO signals its caller, DoIO (IO_QUICK) does not.
SendIO(t, r) ==
    /\ User(t) /\ owner[r] = t /\ r \in done /\ LeftAlone(r)
    /\ \/ /\ internalSignal(t, "IODONE")
          /\ UNCHANGED <<done, busy>>
       \/ /\ done' = done \ {r} /\ busy' = busy \cup {r}
          /\ UNCHANGED <<asleep, sigBits>>
    /\ UNCHANGED <<taskVars, waitItem, waitBits, owner, aborted, sigItem>>

DoIO(t, r) ==
    /\ User(t) /\ owner[r] = t /\ r \in done /\ LeftAlone(r)
    /\ done' = done \ {r} /\ busy' = busy \cup {r}
    /\ Goes(t, "doio", r)
    /\ UNCHANGED <<life, killer, todo, lastPass, wakeVars, owner, aborted, sigItem>>

\* internalWaitIO, from DoIO or from user mode.
internalWaitIO(t, r) ==
    /\ IF r \in done
       THEN Returns(t) /\ UNCHANGED <<asleep, waitItem>>
       ELSE /\ asleep' = asleep \cup {t}
            /\ waitItem' = [waitItem EXCEPT ![t] = r]
            /\ Goes(t, "waitio", r)
    /\ UNCHANGED <<life, killer, todo, lastPass, sigBits, waitBits, reqVars>>

DoIOWaits(t) == at[t] = "doio" /\ internalWaitIO(t, arg[t])
WaitIO(t, r) == User(t) /\ owner[r] = t /\ internalWaitIO(t, r)

WaitIOReturns(t) ==
    /\ Runs(t) /\ at[t] = "waitio"
    /\ waitItem' = [waitItem EXCEPT ![t] = NoReq]
    /\ Returns(t)
    /\ UNCHANGED <<life, killer, todo, lastPass, asleep, sigBits, waitBits, reqVars>>

\* The driver completes the request at once or promises to do so.
AbortIO(t, r) ==
    /\ User(t) /\ owner[r] = t /\ r \notin done
    /\ \/ internalCompleteIO(r)
       \/ aborted' = aborted \cup {r} /\ UNCHANGED <<wakeVars, done, busy>>
    /\ UNCHANGED <<taskVars, owner, sigItem>>

\* Mutant of AbortSleeps: the driver is not told.
AbortSleeps_Untold(t, r, place) ==
    /\ sigItem' = [sigItem EXCEPT ![r] = t]
    /\ asleep' = asleep \cup {t}
    /\ Goes(t, place, r)
    /\ UNCHANGED <<waitItem, sigBits, waitBits, owner, done, busy, aborted>>

\* internalAbortForeignIO has to wait for the driver.
AbortSleeps(t, r, place) ==
    /\ aborted' = aborted \cup {r}
    /\ sigItem' = [sigItem EXCEPT ![r] = t]
    /\ asleep' = asleep \cup {t}
    /\ Goes(t, place, r)
    /\ UNCHANGED <<waitItem, sigBits, waitBits, owner, done, busy>>

\* Mutant of internalDeleteIOReq: the request is freed as soon as the driver was told.
internalDeleteIOReq_NoWait(t, r) ==
    /\ owner[r] = t
    /\ owner' = [owner EXCEPT ![r] = NoTask]
    /\ aborted' = aborted \cup ({r} \ done)
    /\ UNCHANGED <<taskVars, wakeVars, done, busy, sigItem>>

\* internalDeleteIOReq by the owner, in user mode or as it dies.
internalDeleteIOReq(t, r) ==
    /\ owner[r] = t
    /\ \/ /\ r \in done
          /\ owner' = [owner EXCEPT ![r] = NoTask]
          /\ UNCHANGED <<at, arg, wakeVars, done, busy, aborted, sigItem>>
       \/ /\ r \notin done
          /\ internalCompleteIO(r)
          /\ owner' = [owner EXCEPT ![r] = NoTask]
          /\ UNCHANGED <<at, arg, sigItem>>
       \/ r \notin done /\ AbortSleeps(t, r, "deleting")
    /\ UNCHANGED <<life, killer, todo, lastPass>>

DeleteIOReq(t, r) == User(t) /\ LeftAlone(r) /\ internalDeleteIOReq(t, r)

\* AbortIOReqs finds a request of the family with a buffer in memory that t gives
\* back; _DevSemaphore lets one task scan at a time.
AbortIOReqs(t, r) ==
    /\ User(t) /\ owner[r] # NoTask /\ r \notin done
    /\ LeftAlone(r) /\ WillStay(t, r)
    /\ \A u \in Tasks : at[u] # "scanning"
    /\ \/ internalCompleteIO(r) /\ UNCHANGED <<at, arg, owner, sigItem>>
       \/ AbortSleeps(t, r, "scanning")
    /\ UNCHANGED <<life, killer, todo, lastPass>>

\* internalAbortForeignIO looks again after it was woken.
AbortReturns(t) ==
    LET r == arg[t]
    IN /\ Runs(t) /\ at[t] \in {"deleting", "scanning"}
       /\ IF r \in done
          THEN /\ sigItem' = [sigItem EXCEPT ![r] = NoTask]
               /\ owner' = IF at[t] = "deleting" THEN [owner EXCEPT ![r] = NoTask]
                                                 ELSE owner
               /\ Returns(t)
               /\ UNCHANGED asleep
          ELSE /\ sigItem' = [sigItem EXCEPT ![r] = t]
               /\ asleep' = asleep \cup {t}
               /\ UNCHANGED <<at, arg, owner>>
       /\ UNCHANGED <<life, killer, todo, lastPass, waitItem, sigBits, waitBits, done,
                      busy, aborted>>

-----------------------------------------------------------------------------
(* Death. *)

\* Murder, the first part of internalKill: v is marked and woken, k goes to sleep.
Murder(k, v) ==
    /\ life' = [life EXCEPT ![v] = "doomed"]
    /\ killer' = [killer EXCEPT ![v] = k]
    /\ sigBits' = [sigBits EXCEPT ![v] = @ \cup {"ABORT"}]
    /\ waitItem' = [waitItem EXCEPT ![v] = NoReq]
    /\ asleep' = (asleep \ {v}) \cup {k}
    /\ Goes(k, "killing", v)
    /\ UNCHANGED <<lastPass, waitBits, reqVars>>

\* Nobody above or below t is dying.
Settled(t) == \A u \in Tasks \ {t} :
    u \in Line(t) \/ t \in Line(u) => life[u] \notin {"doomed", "dying"}

\* realDeleteItem refuses a task that is deleting itself.
internalKill(k, v) ==
    /\ User(k) /\ k \in MayKill[v] /\ k # v
    /\ life[v] \in {"alive", "doomed"}
    /\ (Orderly => Settled(v)) /\ MayDie(v)
    /\ Murder(k, v)
    /\ UNCHANGED todo

KillReturns(t) ==
    /\ Runs(t) /\ at[t] = "killing"
    /\ Returns(t)
    /\ UNCHANGED <<life, killer, todo, lastPass, wakeVars, reqVars>>

\* The task deletes itself: FreeResources starts with its child tasks.
Suicide(t) ==
    /\ life' = [life EXCEPT ![t] = "dying"]
    /\ Goes(t, "dying", NoReq)
    /\ todo' = [todo EXCEPT ![t] = Children(t)]
    /\ UNCHANGED <<killer, lastPass, wakeVars, reqVars>>

exit(t) ==
    /\ User(t) /\ t # Root
    /\ (Orderly => Settled(t)) /\ MayDie(t)
    /\ Suicide(t)

\* A task that was killed comes back to user mode.
KillSelf(t) ==
    /\ Runs(t) /\ life[t] = "doomed" /\ at[t] \in {"user", "checked"}
    /\ Suicide(t)

Frees(t) == Runs(t) /\ at[t] = "dying"

\* FreeResources comes to a child.  One that deletes itself is passed over.
FreeChild(t, c) ==
    /\ Frees(t) /\ c \in todo[t]
    /\ todo' = [todo EXCEPT ![t] = @ \ {c}]
    /\ IF life[c] \in {"alive", "doomed"} THEN Murder(t, c)
       ELSE UNCHANGED <<life, at, arg, killer, lastPass, wakeVars, reqVars>>

FreeIOReq(t, r) ==
    /\ Frees(t) /\ todo[t] = {} /\ t \notin lastPass
    /\ internalDeleteIOReq(t, r)

\* The last pass goes over everything that is left.
FreeRest(t) ==
    /\ Frees(t) /\ todo[t] = {} /\ t \notin lastPass
    /\ \A r \in Reqs : owner[r] # t
    /\ lastPass' = lastPass \cup {t}
    /\ todo' = [todo EXCEPT ![t] = Children(t)]
    /\ UNCHANGED <<life, at, arg, killer, wakeVars, reqVars>>

\* The end: the killer wakes, the parent is told.
Dies(t) ==
    LET p == Parent[t]
    IN /\ Frees(t) /\ todo[t] = {} /\ t \in lastPass
       /\ life' = [life EXCEPT ![t] = "dead"]
       /\ sigBits' = [sigBits EXCEPT ![p] = @ \cup {"DEADTASK"}]
       /\ asleep' = asleep \ ({killer[t]} \cup Woken(p, "DEADTASK"))
       /\ Goes(t, "user", NoReq)
       /\ UNCHANGED <<killer, todo, lastPass, waitItem, waitBits, reqVars>>

-----------------------------------------------------------------------------
Starts(t) ==
    \/ \E c \in Tasks : CreateTask(t, c) \/ internalKill(t, c)
    \/ \E x \in Reqs \cup Tasks : CheckIO(t, x)
    \/ internalWait(t) \/ exit(t)
    \/ \E r \in Reqs :
           \/ internalCreateIOReq(t, r) \/ SendIO(t, r) \/ DoIO(t, r) \/ WaitIO(t, r)
           \/ AbortIO(t, r) \/ DeleteIOReq(t, r) \/ AbortIOReqs(t, r)
           \/ \E u \in Tasks : SetIOReqOwner(t, r, u)

\* What a task does by itself once it has the processor.
GoesOn(t) ==
    \/ internalWaitReturns(t) \/ DoIOWaits(t) \/ WaitIOReturns(t) \/ AbortReturns(t)
    \/ KillReturns(t) \/ KillSelf(t) \/ FreeRest(t) \/ Dies(t)
    \/ \E c \in Tasks : FreeChild(t, c)
    \/ \E r \in Reqs : FreeIOReq(t, r)

Next ==
    \/ \E t \in Tasks : Starts(t) \/ GoesOn(t)
    \/ \E r \in Reqs : DeviceCompletes(r)

Spec == Init /\ [][Next]_vars

\* The scheduler lets every ready task run again and again, also beside tasks that
\* call DoIO all the time; drivers complete what they were told to abort.
FairSpec ==
    /\ Spec
    /\ \A t \in Tasks : SF_vars(GoesOn(t))
    /\ \A r \in Reqs : WF_vars(r \in aborted /\ DeviceCompletes(r))

-----------------------------------------------------------------------------
\* PROPERTY.  "Any items owned by the task, which includes any threads of that
\* task, are automatically freed" (DeleteTask): a dead task leaves no child and no
\* request behind, and no device works on a request that is gone, although each of
\* them may take its time to go (internalKill, FreeResources, internalDeleteIOReq).
NothingOutlivesItsOwner ==
    /\ \A c \in Tasks : life[c] \in {"alive", "doomed", "dying"} /\ c # Root =>
           life[Parent[c]] # "dead"
    /\ \A r \in Reqs : owner[r] # NoTask => life[owner[r]] # "dead"
    /\ \A r \in busy : owner[r] # NoTask

\* PROPERTY.  Every sleeper has somebody who will wake it, whatever completed,
\* died or was aborted between its last look and its sleep: the request it waits
\* for is not done and the completion knows the sleeper, or the victim it waits for
\* is not dead and knows its killer.
SleepersHaveAWaker ==
    \A t \in asleep :
        CASE at[t] = "waitio" -> waitItem[t] \in busy /\ owner[waitItem[t]] = t
          [] at[t] = "waitsig" -> /\ ~Over(arg[t]) /\ SignalOf(arg[t]) \in waitBits[t]
                                  /\ arg[t] \in Reqs => owner[arg[t]] = t
          [] at[t] \in {"deleting", "scanning"} -> arg[t] \in busy /\ sigItem[arg[t]] = t
          [] at[t] = "killing" -> /\ life[arg[t]] \in {"doomed", "dying"}
                                  /\ killer[arg[t]] = t
          [] OTHER -> FALSE

\* PROPERTY.  Who is killed or exits is dead in the end, with all its children and
\* whatever it was doing, and its killer returns, unless that is killed itself.
TheDoomedDie ==
    \A t \in Tasks : (life[t] \in {"doomed", "dying"} \/ at[t] = "killing")
                         ~> (life[t] = "dead" \/ (life[t] = "alive" /\ at[t] # "killing"))

=============================================================================
