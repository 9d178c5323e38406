------------------------------ MODULE Semaphore ------------------------------
(***************************************************************************)
(* One kernel semaphore through its whole life: created, locked and        *)
(* unlocked by tasks in exclusive or shared mode, and deleted, while the   *)
(* tasks themselves are killed, die and are replaced by new tasks that     *)
(* reuse the address of a dead one (kernel/semaphore.c, and the parts of   *)
(* kernel/task.c that repair a semaphore when a task dies).                *)
(*                                                                         *)
(* A system call runs with the caller's forbid count raised, so no other   *)
(* task runs before it returns or sleeps: each call is one action, and     *)
(* LockSemaphore is two when it sleeps (LockWait, then LockWoken).         *)
(***************************************************************************)
EXTENDS Lists

CONSTANTS
    Tasks,        \* addresses a Task structure (TCB) can have
    NoTask,       \* NULL
    MaxNest,      \* model bound on the nest count of one locker
    Disciplined   \* TRUE: callers obey the rule that a holder in shared mode
                  \* does not ask for exclusive mode; FALSE: they may not

ASSUME SemaphoreAssumption ==
    /\ NoTask \notin Tasks
    /\ MaxNest \in Nat \ {0}
    /\ Disciplined \in BOOLEAN

VARIABLES
    item,          \* the semaphore item: "none", "live" or "deleted"
    owner,         \* n_Owner of the item
    sem_Locker,    \* the primary locker
    sem_NestCnt,   \* how often the primary locker has locked
    sharedRead,    \* SEMAPHORE_SHAREDREAD in n_Flags
    waitingList,   \* sem_TaskWaitingList, head first
    slNodes,       \* tasks that have a node on sem_SharedLockers
    sl_NestCnt,    \* nest count in that node (0 for a task without a node)
    alive,         \* tasks that exist
    inLock,        \* tasks inside a LockSemaphore call that slept
    taskWaiting,   \* of those, the ones still asleep (TASK_WAITING)
    t_WaitItem     \* what the sleeper waits for, then the result it is given

semVars  == <<item, owner, sem_Locker, sem_NestCnt, sharedRead, waitingList,
              slNodes, sl_NestCnt>>
taskVars == <<alive, inLock, taskWaiting, t_WaitItem>>
vars     == <<semVars, taskVars>>

\* Values of t_WaitItem: none (-1), this semaphore's item number, or an error.
WaitItems == {"none", "sem", "BADITEM", "NOMEM", "ABORTED"}

WaitNode == [task : Tasks, shared : BOOLEAN]

TypeOK ==
    /\ item \in {"none", "live", "deleted"}
    /\ owner \in Tasks \cup {NoTask}
    /\ sem_Locker \in Tasks \cup {NoTask}
    /\ sem_NestCnt \in Nat
    /\ sharedRead \in BOOLEAN
    /\ waitingList \in Seq(WaitNode)
    /\ slNodes \in SUBSET Tasks
    /\ sl_NestCnt \in [Tasks -> Nat]
    /\ alive \in SUBSET Tasks
    /\ inLock \in SUBSET Tasks
    /\ taskWaiting \in SUBSET Tasks
    /\ t_WaitItem \in [Tasks -> WaitItems]

-----------------------------------------------------------------------------
(* Who holds the lock, and how often.                                      *)

LockCount(t) == IF sem_Locker = t THEN sem_NestCnt ELSE sl_NestCnt[t]

Holds(t) == sem_Locker = t \/ sl_NestCnt[t] > 0

\* The task runs outside LockSemaphore and may make a system call.
CanCall(t) == t \in alive \ inLock

-----------------------------------------------------------------------------
Init ==
    /\ item = "none"
    /\ owner = NoTask
    /\ sem_Locker = NoTask
    /\ sem_NestCnt = 0
    /\ sharedRead = FALSE
    /\ waitingList = << >>
    /\ slNodes = {}
    /\ sl_NestCnt = [t \in Tasks |-> 0]
    /\ alive = Tasks
    /\ inLock = {}
    /\ taskWaiting = {}
    /\ t_WaitItem = [t \in Tasks |-> "none"]

(* internalCreateSemaphore *)
CreateSemaphore(t) ==
    /\ CanCall(t)
    /\ item = "none"
    /\ item' = "live"
    /\ owner' = t
    /\ UNCHANGED <<sem_Locker, sem_NestCnt, sharedRead, waitingList, slNodes,
                   sl_NestCnt, taskVars>>

-----------------------------------------------------------------------------
(* internalLockSemaphore, one action for each way it ends.                 *)

(* Not locked by anyone: grab it. *)
LockFree(t, shared) ==
    /\ CanCall(t)
    /\ item = "live"
    /\ sem_Locker = NoTask
    /\ sem_Locker' = t
    /\ sem_NestCnt' = 1
    /\ sharedRead' = (sharedRead \/ shared)
    /\ UNCHANGED <<item, owner, waitingList, slNodes, sl_NestCnt, taskVars>>

(* The caller is the primary locker and asks for the current mode, or for   *)
(* shared mode under its own exclusive lock.  (Shared to exclusive is       *)
(* refused with BadLockArg and changes nothing.)                            *)
LockAgain(t, shared) ==
    /\ CanCall(t)
    /\ sem_Locker = t
    /\ sharedRead = shared \/ (shared /\ ~sharedRead)
    /\ sem_NestCnt < MaxNest
    /\ sem_NestCnt' = sem_NestCnt + 1
    /\ UNCHANGED <<item, owner, sem_Locker, sharedRead, waitingList, slNodes,
                   sl_NestCnt, taskVars>>

\* Mutants of MayJoin: the waiting list, or the caller's own lock, is ignored.
MayJoin_IgnoresQueue(t) == TRUE
MayJoin_IgnoresOwnLock(t) == waitingList = << >>

\* A shared request that joins a semaphore already locked in shared mode.
MayJoin(t) == sl_NestCnt[t] > 0 \/ waitingList = << >>

\* Mutant of LockShared: joins without looking at the SHAREDREAD flag.
LockShared_IgnoresMode(t) ==
    /\ CanCall(t)
    /\ sem_Locker \notin {NoTask, t}
    /\ MayJoin(t)
    /\ sl_NestCnt[t] < MaxNest
    /\ slNodes' = slNodes \cup {t}
    /\ sl_NestCnt' = [sl_NestCnt EXCEPT ![t] = @ + 1]
    /\ UNCHANGED <<item, owner, sem_Locker, sem_NestCnt, sharedRead,
                   waitingList, taskVars>>

(* The caller becomes, or already is, a secondary locker.  Its node is      *)
(* created if it has none (GetSharedLocker; on failure NOMEM, no change).   *)
LockShared(t) ==
    /\ CanCall(t)
    /\ sem_Locker \notin {NoTask, t}
    /\ sharedRead
    /\ MayJoin(t)
    /\ sl_NestCnt[t] < MaxNest
    /\ slNodes' = slNodes \cup {t}
    /\ sl_NestCnt' = [sl_NestCnt EXCEPT ![t] = @ + 1]
    /\ UNCHANGED <<item, owner, sem_Locker, sem_NestCnt, sharedRead,
                   waitingList, taskVars>>

\* The request of a task that is not the primary locker must wait.  A shared
\* request against a shared semaphore has got its node by then.
MustWait(t, shared) ==
    /\ CanCall(t)
    /\ sem_Locker \notin {NoTask, t}
    /\ ~(shared /\ sharedRead /\ MayJoin(t))
    /\ Disciplined /\ ~shared => ~Holds(t)

NodesAfterTry(t, shared) ==
    IF shared /\ sharedRead THEN slNodes \cup {t} ELSE slNodes

(* SEM_WAIT was not given: 0 is returned, but a node may have been added.   *)
LockRefused(t, shared) ==
    /\ MustWait(t, shared)
    /\ slNodes' = NodesAfterTry(t, shared)
    /\ UNCHANGED <<item, owner, sem_Locker, sem_NestCnt, sharedRead,
                   waitingList, sl_NestCnt, taskVars>>

(* SEM_WAIT: queue up at the tail and sleep. *)
LockWait(t, shared) ==
    /\ MustWait(t, shared)
    /\ slNodes' = NodesAfterTry(t, shared)
    /\ waitingList' = Append(waitingList, [task |-> t, shared |-> shared])
    /\ t_WaitItem' = [t_WaitItem EXCEPT ![t] = "sem"]
    /\ inLock' = inLock \cup {t}
    /\ taskWaiting' = taskWaiting \cup {t}
    /\ UNCHANGED <<item, owner, sem_Locker, sem_NestCnt, sharedRead,
                   sl_NestCnt, alive>>

(* The sleeper has been made ready and gets the CPU: it reads its result    *)
(* from t_WaitItem, resets that to -1, and returns.                         *)
LockWoken(t) ==
    /\ t \in inLock \ taskWaiting
    /\ t_WaitItem' = [t_WaitItem EXCEPT ![t] = "none"]
    /\ inLock' = inLock \ {t}
    /\ UNCHANGED <<semVars, alive, taskWaiting>>

-----------------------------------------------------------------------------
(* internalUnlockSemaphore.                                                *)

\* Secondary lockers that hold the lock.  The list order that the code follows
\* when it picks one of them is left open here.
Secondaries == {u \in slNodes : sl_NestCnt[u] > 0}

\* Mutant of Promote: the new primary locker starts with a count of 1.
Promote_ResetsCount(u) ==
    /\ u \in Secondaries
    /\ sem_Locker' = u
    /\ sem_NestCnt' = 1
    /\ sl_NestCnt' = [sl_NestCnt EXCEPT ![u] = 0]
    /\ UNCHANGED <<sharedRead, waitingList, slNodes, taskWaiting, t_WaitItem>>

(* A secondary locker becomes the primary one; its node stays, with count 0. *)
Promote(u) ==
    /\ u \in Secondaries
    /\ sem_Locker' = u
    /\ sem_NestCnt' = sl_NestCnt[u]
    /\ sl_NestCnt' = [sl_NestCnt EXCEPT ![u] = 0]
    /\ UNCHANGED <<sharedRead, waitingList, slNodes, taskWaiting, t_WaitItem>>

\* Mutant of SetFree: the SHAREDREAD flag is left as it was.
SetFree_KeepsFlag ==
    /\ Secondaries = {} /\ waitingList = << >>
    /\ sem_Locker' = NoTask
    /\ sem_NestCnt' = 0
    /\ UNCHANGED <<sharedRead, waitingList, slNodes, sl_NestCnt, taskWaiting,
                   t_WaitItem>>

(* Nobody wants it: the semaphore becomes free. *)
SetFree ==
    /\ Secondaries = {} /\ waitingList = << >>
    /\ sem_Locker' = NoTask
    /\ sem_NestCnt' = 0
    /\ sharedRead' = FALSE
    /\ UNCHANGED <<waitingList, slNodes, sl_NestCnt, taskWaiting, t_WaitItem>>

(* The first waiter wants the lock for itself. *)
GrantExclusive ==
    /\ Secondaries = {} /\ waitingList # << >>
    /\ ~Head(waitingList).shared
    /\ sem_Locker' = Head(waitingList).task
    /\ sem_NestCnt' = 1
    /\ sharedRead' = FALSE
    /\ waitingList' = Tail(waitingList)
    /\ taskWaiting' = taskWaiting \ {Head(waitingList).task}
    /\ UNCHANGED <<slNodes, sl_NestCnt, t_WaitItem>>

\* Mutant of SharedRun: the scan does not stop at an exclusive waiter.
SharedRun_NoStop(n) == waitingList[1].shared /\ n = Len(waitingList)

\* n waiters at the head of the list are shared, and the next one is not.
SharedRun(n) ==
    /\ \A i \in 1 .. n : waitingList[i].shared
    /\ n < Len(waitingList) => ~waitingList[n + 1].shared

\* The tasks behind the head that are woken with it, and those of them that
\* need a new node.
Followers(n)  == {waitingList[i].task : i \in 2 .. n}
NeedsNode(n)  == Followers(n) \ slNodes

\* Mutant of GrantShared: a waiter without a node is woken but not told.
GrantShared_SilentNoMem(n, noMem) ==
    /\ Secondaries = {} /\ n \in 1 .. Len(waitingList)
    /\ SharedRun(n)
    /\ noMem \subseteq NeedsNode(n)
    /\ sem_Locker' = waitingList[1].task
    /\ sem_NestCnt' = 1
    /\ sharedRead' = TRUE
    /\ waitingList' = SubSeq(waitingList, n + 1, Len(waitingList))
    /\ slNodes' = slNodes \cup (Followers(n) \ noMem)
    /\ sl_NestCnt' = [u \in Tasks |-> IF u \in Followers(n) \ noMem
                                      THEN sl_NestCnt[u] + 1
                                      ELSE sl_NestCnt[u]]
    /\ taskWaiting' = taskWaiting \ ({waitingList[1].task} \cup Followers(n))
    /\ UNCHANGED t_WaitItem

(* The first n waiters are shared: the head becomes the primary locker, the *)
(* others secondary ones; those in noMem get no node and are told NOMEM.    *)
GrantShared(n, noMem) ==
    /\ Secondaries = {} /\ n \in 1 .. Len(waitingList)
    /\ SharedRun(n)
    /\ noMem \subseteq NeedsNode(n)
    /\ sem_Locker' = waitingList[1].task
    /\ sem_NestCnt' = 1
    /\ sharedRead' = TRUE
    /\ waitingList' = SubSeq(waitingList, n + 1, Len(waitingList))
    /\ slNodes' = slNodes \cup (Followers(n) \ noMem)
    /\ sl_NestCnt' = [u \in Tasks |-> IF u \in Followers(n) \ noMem
                                      THEN sl_NestCnt[u] + 1
                                      ELSE sl_NestCnt[u]]
    /\ taskWaiting' = taskWaiting \ ({waitingList[1].task} \cup Followers(n))
    /\ t_WaitItem' = [u \in Tasks |-> IF u \in noMem THEN "NOMEM"
                                      ELSE t_WaitItem[u]]

(* The primary locker's count has dropped to 0. *)
Handover ==
    \/ \E u \in Tasks : Promote(u)
    \/ SetFree
    \/ GrantExclusive
    \/ \E n \in 1 .. Len(waitingList), noMem \in SUBSET Tasks :
          GrantShared(n, noMem)

UnlockNested(t) ==
    /\ CanCall(t)
    /\ sem_Locker = t /\ sem_NestCnt > 1
    /\ sem_NestCnt' = sem_NestCnt - 1
    /\ UNCHANGED <<item, owner, sem_Locker, sharedRead, waitingList, slNodes,
                   sl_NestCnt, taskVars>>

UnlockLast(t) ==
    /\ CanCall(t)
    /\ sem_Locker = t /\ sem_NestCnt = 1
    /\ Handover
    /\ UNCHANGED <<item, owner, alive, inLock>>

\* Mutant of UnlockSecondary: a count of 0 is not refused with NOTOWNER.
UnlockSecondary_NoCheck(t) ==
    /\ CanCall(t)
    /\ sem_Locker # t /\ t \in slNodes
    /\ sl_NestCnt' = [sl_NestCnt EXCEPT ![t] = @ - 1]
    /\ UNCHANGED <<item, owner, sem_Locker, sem_NestCnt, sharedRead,
                   waitingList, slNodes, taskVars>>

UnlockSecondary(t) ==
    /\ CanCall(t)
    /\ sem_Locker # t /\ sl_NestCnt[t] > 0
    /\ sl_NestCnt' = [sl_NestCnt EXCEPT ![t] = @ - 1]
    /\ UNCHANGED <<item, owner, sem_Locker, sem_NestCnt, sharedRead,
                   waitingList, slNodes, taskVars>>

UnlockSemaphore(t) == UnlockNested(t) \/ UnlockLast(t) \/ UnlockSecondary(t)

-----------------------------------------------------------------------------
(* internalSetSemaphoreOwner: only while nobody has it locked. *)
SetSemaphoreOwner(t, newOwner) ==
    /\ CanCall(t)
    /\ item = "live" /\ sem_Locker = NoTask
    /\ newOwner \in alive
    /\ owner' = newOwner
    /\ UNCHANGED <<item, sem_Locker, sem_NestCnt, sharedRead, waitingList,
                   slNodes, sl_NestCnt, taskVars>>

\* Mutant of Destroy: the waiters are forgotten, not woken.
Destroy_LeavesWaiters ==
    /\ item = "live"
    /\ item' = "deleted"
    /\ owner' = NoTask
    /\ sem_Locker' = NoTask
    /\ sem_NestCnt' = 0
    /\ sharedRead' = FALSE
    /\ waitingList' = << >>
    /\ slNodes' = {}
    /\ sl_NestCnt' = [u \in Tasks |-> 0]
    /\ UNCHANGED <<taskWaiting, t_WaitItem>>

(* internalDeleteSemaphore: every waiter is woken with BADITEM and all nodes *)
(* are freed.  The structure itself is freed by the caller, so its fields   *)
(* are those of no semaphore at all.                                        *)
Destroy ==
    /\ item = "live"
    /\ item' = "deleted"
    /\ owner' = NoTask
    /\ sem_Locker' = NoTask
    /\ sem_NestCnt' = 0
    /\ sharedRead' = FALSE
    /\ waitingList' = << >>
    /\ slNodes' = {}
    /\ sl_NestCnt' = [u \in Tasks |-> 0]
    /\ taskWaiting' = {}
    /\ t_WaitItem' = [u \in Tasks |-> IF u \in taskWaiting THEN "BADITEM"
                                      ELSE t_WaitItem[u]]

(* The owner or any privileged task may delete the semaphore, locked or not. *)
DeleteSemaphore(t) ==
    /\ CanCall(t)
    /\ Destroy
    /\ UNCHANGED <<alive, inLock>>

-----------------------------------------------------------------------------
(* Tasks that die (task.c).                                                *)

\* Mutant of Murder: the victim stays on the waiting list.
Murder_KeepsWaitNode(t) ==
    /\ t \in alive
    /\ taskWaiting' = taskWaiting \ {t}
    /\ t_WaitItem' = [t_WaitItem EXCEPT ![t] = "ABORTED"]
    /\ UNCHANGED <<item, owner, sem_Locker, sem_NestCnt, sharedRead, waitingList,
                   slNodes, sl_NestCnt, alive, inLock>>

(* Murder: a victim asleep on the semaphore is taken off its list; a victim *)
(* that has been woken but has not run yet keeps the lock it was granted.   *)
(* Either way its result becomes ABORTED and internalKill makes it ready.   *)
Murder(t) ==
    /\ t \in alive
    /\ IF t \in taskWaiting
       THEN \E i \in 1 .. Len(waitingList) :
               /\ waitingList[i].task = t
               /\ waitingList' = WithoutAt(waitingList, i)
       ELSE waitingList' = waitingList
    /\ taskWaiting' = taskWaiting \ {t}
    /\ t_WaitItem' = [t_WaitItem EXCEPT ![t] = "ABORTED"]
    /\ UNCHANGED <<item, owner, sem_Locker, sem_NestCnt, sharedRead, slNodes,
                   sl_NestCnt, alive, inLock>>

\* UnlockSemaphores for a dying primary locker: unlock until it is not.  Its
\* own node, if it has one, is not looked at on this path.
DiePrimary(t) ==
    /\ sem_Locker = t
    /\ Handover
    /\ UNCHANGED <<item, owner>>

\* Mutant of DieSecondary: only primary lockers are cleaned up.
DieSecondary_Forgets(t) ==
    /\ sem_Locker # t
    /\ UNCHANGED <<semVars, taskWaiting, t_WaitItem>>

\* UnlockSemaphores for any other dying task: drop its count and its node.
DieSecondary(t) ==
    /\ sem_Locker # t
    /\ slNodes' = slNodes \ {t}
    /\ sl_NestCnt' = [sl_NestCnt EXCEPT ![t] = 0]
    /\ UNCHANGED <<item, owner, sem_Locker, sem_NestCnt, sharedRead,
                   waitingList, taskWaiting, t_WaitItem>>

(* internalKill, suicide: FreeResources deletes a semaphore the task owns,  *)
(* then UnlockSemaphores runs over the semaphores that are left.            *)
Die(t) ==
    /\ CanCall(t)
    /\ IF item = "live" /\ owner = t
       THEN Destroy
       ELSE DiePrimary(t) \/ DieSecondary(t)
    /\ alive' = alive \ {t}
    /\ UNCHANGED inLock

(* A new task is created in the memory of a dead one. *)
Spawn(t) ==
    /\ t \notin alive
    /\ alive' = alive \cup {t}
    /\ t_WaitItem' = [t_WaitItem EXCEPT ![t] = "none"]
    /\ UNCHANGED <<semVars, inLock, taskWaiting>>

-----------------------------------------------------------------------------
LockSemaphore(t) ==
    \E shared \in BOOLEAN :
        \/ LockFree(t, shared)
        \/ LockAgain(t, shared)
        \/ shared /\ LockShared(t)
        \/ LockRefused(t, shared)
        \/ LockWait(t, shared)

Next ==
    \E t \in Tasks :
        \/ CreateSemaphore(t)
        \/ LockSemaphore(t)
        \/ LockWoken(t)
        \/ UnlockSemaphore(t)
        \/ \E newOwner \in Tasks : SetSemaphoreOwner(t, newOwner)
        \/ DeleteSemaphore(t)
        \/ Murder(t)
        \/ Die(t)
        \/ Spawn(t)

Spec == Init /\ [][Next]_vars

\* A task that was made ready gets the CPU; a holder goes on unlocking, and
\* does not nest up and down for ever without dropping its last lock.
Fairness ==
    \A t \in Tasks :
        /\ WF_vars(LockWoken(t))
        /\ WF_vars(UnlockSemaphore(t))
        /\ SF_vars(UnlockSemaphore(t) /\ ~Holds(t)')

FairSpec == Spec /\ Fairness

-----------------------------------------------------------------------------
(* Properties.                                                             *)

\* The tasks on a waiting list, and that none of them is there twice.
QueuedTasks(s) == {s[i].task : i \in 1 .. Len(s)}
QueuedOnce(s)  == \A i, j \in 1 .. Len(s) : s[i].task = s[j].task => i = j

(* Two tasks hold the lock at the same time only in shared mode, whatever   *)
(* mixture of promotions, batch wake-ups, kills and new tasks led there.    *)
MutualExclusion ==
    \A t, u \in Tasks : Holds(t) /\ Holds(u) /\ t # u => sharedRead

(* The bookkeeping that internalLockSemaphore relies on without checking:   *)
(* a free semaphore has its SHAREDREAD flag clear, no queue and no          *)
(* secondary locker, and the primary locker's own shared node counts 0, so  *)
(* a lock is never counted in two places.                                   *)
LockAccounting ==
    /\ sem_Locker = NoTask => ~sharedRead /\ waitingList = << >>
    /\ sem_Locker = NoTask => \A u \in Tasks : sl_NestCnt[u] = 0
    /\ sem_Locker # NoTask => sem_NestCnt > 0 /\ sl_NestCnt[sem_Locker] = 0
    /\ \A u \in Tasks : sl_NestCnt[u] > 0 => u \in slNodes

(* No lost wake-up: the tasks asleep in LockSemaphore are exactly the ones  *)
(* on the waiting list, once each, so the next unlock, deletion or kill     *)
(* finds every one of them.                                                 *)
SleepersAreQueued ==
    /\ taskWaiting = QueuedTasks(waitingList)
    /\ QueuedOnce(waitingList)

(* What a woken task is told is true: with its result still the semaphore   *)
(* (LockSemaphore will return 1) it holds the lock unless the semaphore is  *)
(* gone by now, and with NOMEM or BADITEM it does not hold it.              *)
GrantIsReal ==
    \A t \in inLock \ taskWaiting :
        /\ t_WaitItem[t] = "sem" /\ item = "live" => Holds(t)
        /\ t_WaitItem[t] \in {"NOMEM", "BADITEM"} => ~Holds(t)

(* A dead task holds nothing and is on no waiting list, so its memory can   *)
(* be given to a new task without that task inheriting a lock.              *)
DeadHoldNothing ==
    \A t \in Tasks \ alive : ~Holds(t) /\ t \notin inLock

(* A task that holds the lock never sleeps for it.  The LockSemaphore       *)
(* autodoc makes relocking a shared semaphore in exclusive mode illegal and *)
(* the code refuses it with BadLockArg, but only for the primary locker.    *)
HoldersDoNotWait ==
    \A t \in taskWaiting : ~Holds(t)

(* The comment in internalUnlockSemaphore: the node of a dead task has been *)
(* yanked from the shared lockers by the task termination code.             *)
NoNodeOfDeadTask == slNodes \subseteq alive

\* t stands before u on the waiting list.
Before(t, u) ==
    \E i, j \in 1 .. Len(waitingList) :
        i < j /\ waitingList[i].task = t /\ waitingList[j].task = u

(* No overtaking: while a task goes on waiting, the only tasks that newly   *)
(* get the lock are ones that were queued before it.                        *)
NoOvertaking ==
    [][ \A u \in taskWaiting \cap taskWaiting', t \in Tasks :
            Holds(t)' /\ ~Holds(t) => Before(t, u) ]_vars

(* While the semaphore lives, one step takes locks away from at most one    *)
(* task: handing the primary role over keeps the nest count of the task     *)
(* that takes it.                                                           *)
CountsSurviveHandover ==
    [][ item' = "live" =>
          \A t, u \in Tasks :
             LockCount(t)' < LockCount(t) /\ LockCount(u)' < LockCount(u)
                => t = u ]_vars

(* Every waiter is served, or told that it will not be: nobody sleeps in    *)
(* LockSemaphore for ever when the holders unlock.                          *)
WaitersAreServed ==
    \A t \in Tasks : t \in taskWaiting ~> t \notin taskWaiting

(* The inductive invariant behind the safety properties: the properties     *)
(* themselves, and what they need to be preserved.  Exclusive mode leaves   *)
(* all shared nodes at count 0, sleepers are live tasks inside              *)
(* LockSemaphore whose result is still the semaphore, only a live semaphore *)
(* is locked, and nobody waits for one that does not exist yet.             *)
SemaphoreInv ==
    /\ TypeOK
    /\ LockAccounting
    /\ ~sharedRead => \A u \in Tasks : sl_NestCnt[u] = 0
    /\ SleepersAreQueued
    /\ taskWaiting \subseteq inLock
    /\ \A t \in taskWaiting : t_WaitItem[t] = "sem"
    /\ DeadHoldNothing
    /\ GrantIsReal
    /\ item # "live" => sem_Locker = NoTask
    /\ item = "none" => inLock = {}

-----------------------------------------------------------------------------
(* The semaphore implements a readers-writer lock.                         *)

lockMode == IF sem_Locker = NoTask THEN "free"
            ELSE IF sharedRead THEN "shared" ELSE "exclusive"

wanted(t) ==
    IF t \notin taskWaiting THEN "no"
    ELSE IF \E i \in 1 .. Len(waitingList) :
               waitingList[i].task = t /\ waitingList[i].shared
         THEN "shared" ELSE "exclusive"

RW == INSTANCE RWLock WITH
          hold <- [t \in Tasks |-> LockCount(t)],
          mode <- lockMode,
          want <- [t \in Tasks |-> wanted(t)]

(* Every behaviour of the semaphore code is one of the abstract lock: what  *)
(* queues, nodes, flags and promotions do is only grant, release and wait.  *)
ImplementsRWLock == RW!Spec

=============================================================================
