---------------------------- MODULE RWLockProofs ----------------------------
(***************************************************************************)
(* What a step of the semaphore may do, for every set of tasks: nobody is  *)
(* overtaken, hand-overs lose no count, disciplined holders never sleep,   *)
(* and every step is one of the abstract lock RWLock.                      *)
(***************************************************************************)
EXTENDS SemaphoreProofs

-----------------------------------------------------------------------------
(* How often the lock is held.                                             *)

(* A task holds the lock if and only if its count is positive.             *)
LEMMA HoldsIsCount ==
    ASSUME SemaphoreInv, NEW t \in Tasks
    PROVE  LockCount(t) \in Nat /\ (Holds(t) <=> LockCount(t) > 0)
BY SemaphoreAssumption DEF SemaphoreInv, TypeOK, LockAccounting, LockCount, Holds

(* The counts after the primary locker t has given up its last lock: the    *)
(* others keep theirs when one of them is promoted; otherwise nobody has    *)
(* one, and the tasks that are granted the lock start at 1.                 *)
Promotes(t) ==
    /\ \E u \in Tasks \ {t} : LockCount(u) > 0
    /\ \A u \in Tasks : LockCount(u)' = IF u = t THEN 0 ELSE LockCount(u)
    /\ UNCHANGED <<sharedRead, waitingList, taskWaiting>>
    /\ sem_Locker' # NoTask

Frees(t) ==
    /\ \A u \in Tasks \ {t} : LockCount(u) = 0
    /\ \A u \in Tasks : LockCount(u)' = 0
    /\ waitingList = << >> /\ UNCHANGED <<waitingList, taskWaiting>>
    /\ sem_Locker' = NoTask

\* The first n waiters leave the list; those in noMem get nothing.
First(n) == {waitingList[i].task : i \in 1 .. n}
Grants(t, n, noMem, shared) ==
    /\ \A u \in Tasks \ {t} : LockCount(u) = 0
    /\ \A u \in Tasks : LockCount(u)' = IF u \in First(n) \ noMem THEN 1 ELSE 0
    /\ noMem \subseteq First(n) /\ waitingList[1].task \notin noMem
    /\ ~shared => n = 1 /\ noMem = {}
    /\ \A i \in 1 .. n : waitingList[i].shared = shared
    /\ sharedRead' = shared /\ sem_Locker' # NoTask
    /\ waitingList' = SubSeq(waitingList, n + 1, Len(waitingList))
    /\ taskWaiting' = taskWaiting \ First(n)

(* A hand-over does one of these. *)
LEMMA HandoverCases ==
    ASSUME SemaphoreInv, NEW t \in Tasks, CanCall(t), sem_Locker = t, Handover
    PROVE  \/ Promotes(t)
           \/ Frees(t)
           \/ \E n \in 1 .. Len(waitingList), noMem \in SUBSET Tasks, shared \in BOOLEAN :
                 Grants(t, n, noMem, shared)
<1> USE SemaphoreAssumption
<1>0. TypeOK /\ t # NoTask /\ sl_NestCnt[t] = 0
  BY DEF SemaphoreInv, LockAccounting
<1>1. CASE \E u \in Tasks : Promote(u)
  <2> PICK u \in Tasks : Promote(u)
    BY <1>1
  <2>1. u # t /\ sl_NestCnt[u] > 0
    BY <1>0 DEF Promote, Secondaries, TypeOK
  <2>2. LockCount(u) > 0
    BY <2>1 DEF LockCount
  <2>3. \A v \in Tasks : LockCount(v)' = IF v = t THEN 0 ELSE LockCount(v)
    BY <1>0, <2>1 DEF Promote, LockCount, TypeOK
  <2> QED BY <2>1, <2>2, <2>3 DEF Promote, Promotes
<1>2. ASSUME Secondaries = {}
      PROVE  \A u \in Tasks : sl_NestCnt[u] = 0 /\ (u # t => LockCount(u) = 0)
  BY <1>0, <1>2 DEF Secondaries, LockCount, SemaphoreInv, LockAccounting, TypeOK
<1>3. CASE SetFree
  <2>1. \A u \in Tasks : LockCount(u)' = 0
    BY <1>2, <1>3 DEF SetFree, LockCount
  <2> QED BY <1>2, <1>3, <2>1 DEF SetFree, Frees
<1>4. CASE GrantExclusive
  <2>1. /\ 1 \in 1 .. Len(waitingList) /\ Head(waitingList) = waitingList[1]
        /\ Tail(waitingList) = SubSeq(waitingList, 1 + 1, Len(waitingList))
        /\ waitingList[1].task \in Tasks /\ waitingList[1].shared \in BOOLEAN
    <3>1. waitingList \in Seq(WaitNode) /\ waitingList # << >>
      BY <1>0, <1>4 DEF GrantExclusive, TypeOK
    <3>2. 1 \in 1 .. Len(waitingList) /\ Head(waitingList) = waitingList[1]
      BY <3>1
    <3>3. Tail(waitingList) = SubSeq(waitingList, 1 + 1, Len(waitingList))
      BY <3>1
    <3>4. waitingList[1] \in WaitNode
      BY <3>1, <3>2
    <3> QED BY <3>2, <3>3, <3>4 DEF WaitNode
  <2>2. First(1) = {waitingList[1].task}
    BY DEF First
  <2>3. \A u \in Tasks : LockCount(u)' = IF u \in First(1) THEN 1 ELSE 0
    BY <1>2, <1>4, <2>1, <2>2 DEF GrantExclusive, LockCount
  <2>4. Grants(t, 1, {}, FALSE)
    BY <1>2, <1>4, <2>1, <2>2, <2>3 DEF GrantExclusive, Grants
  <2> QED BY <2>1, <2>4
<1>5. CASE \E n \in 1 .. Len(waitingList), noMem \in SUBSET Tasks :
              GrantShared(n, noMem)
  <2> PICK n \in 1 .. Len(waitingList), noMem \in SUBSET Tasks :
              GrantShared(n, noMem)
    BY <1>5
  <2>1. /\ Len(waitingList) \in Nat /\ n \in Nat /\ n >= 1 /\ n <= Len(waitingList)
        /\ \A i \in 1 .. Len(waitingList) :
              waitingList[i].task \in Tasks /\ waitingList[i].shared \in BOOLEAN
    <3>1. waitingList \in Seq(WaitNode)
      BY <1>0 DEF TypeOK
    <3>2. \A i \in 1 .. Len(waitingList) : waitingList[i] \in WaitNode
      BY <3>1
    <3> QED BY <3>1, <3>2 DEF WaitNode
  <2>2. First(n) = {waitingList[1].task} \cup Followers(n)
    BY <2>1 DEF First, Followers
  <2>3. waitingList[1].task \notin Followers(n)
    BY <2>1 DEF Followers, SemaphoreInv, SleepersAreQueued, QueuedOnce
  <2>4. noMem \subseteq Followers(n)
    BY DEF GrantShared, NeedsNode
  <2>5. \A u \in Tasks : LockCount(u)' = IF u \in First(n) \ noMem THEN 1 ELSE 0
    <3>1. \A u \in Tasks : sl_NestCnt[u] = 0
      BY <1>2 DEF GrantShared
    <3>2. /\ sem_Locker' = waitingList[1].task /\ sem_NestCnt' = 1
          /\ sl_NestCnt' = [u \in Tasks |-> IF u \in Followers(n) \ noMem
                                            THEN sl_NestCnt[u] + 1 ELSE sl_NestCnt[u]]
      BY DEF GrantShared
    <3> QED BY <2>2, <2>3, <2>4, <3>1, <3>2 DEF LockCount
  <2>6. \A i \in 1 .. n : waitingList[i].shared = TRUE
    BY <2>1 DEF GrantShared, SharedRun
  <2>7. sem_Locker' # NoTask
    BY <2>1 DEF GrantShared
  <2>8. Grants(t, n, noMem, TRUE)
    BY <1>2, <2>2, <2>3, <2>4, <2>5, <2>6, <2>7 DEF GrantShared, Grants
  <2> QED BY <2>8
<1> QED BY <1>1, <1>3, <1>4, <1>5 DEF Handover

-----------------------------------------------------------------------------
(* The steps of the semaphore, by what they do to the counts.              *)

SameCounts == \A u \in Tasks : LockCount(u)' = LockCount(u)
SameQueue  == UNCHANGED <<waitingList, taskWaiting>>

\* Somebody may go to sleep, as a disciplined task only without the lock; or a
\* sleeper is killed, or nothing happens to the lock at all.
Quiet ==
    /\ SameCounts
    /\ \A v \in taskWaiting' \ taskWaiting :
          v \in Tasks /\ (Disciplined => LockCount(v) = 0)

\* A task that runs locks once more, or as a new holder when nobody waits.
Gains(t) ==
    /\ CanCall(t) /\ SameQueue
    /\ LockCount(t) > 0 \/ waitingList = << >>
    /\ \A u \in Tasks \ {t} : LockCount(u)' = LockCount(u)

\* A task gives up locks, and nobody gets one.
Loses(t) ==
    /\ SameQueue
    /\ LockCount(t)' <= LockCount(t)
    /\ \A u \in Tasks \ {t} : LockCount(u)' = LockCount(u)

Deletes ==
    /\ item' = "deleted" /\ taskWaiting' = {}
    /\ \A u \in Tasks : LockCount(u)' = 0

(* Every step is one of these, or a hand-over. *)
LEMMA StepCases ==
    ASSUME SemaphoreInv, [Next]_vars
    PROVE  \/ Quiet \/ Deletes
           \/ \E t \in Tasks : Gains(t) \/ Loses(t)
           \/ \E t \in Tasks, n \in 1 .. Len(waitingList), noMem \in SUBSET Tasks,
                 shared \in BOOLEAN : LockCount(t) > 0 /\ Grants(t, n, noMem, shared)
<1> USE SemaphoreAssumption DEF SameQueue
<1>0. TypeOK /\ \A u \in Tasks : LockCount(u) \in Nat
  BY HoldsIsCount DEF SemaphoreInv
<1>1. CASE UNCHANGED vars
  BY <1>1 DEF vars, semVars, taskVars, Quiet, SameCounts, LockCount
<1>2. CASE Next
  <2> PICK t \in Tasks :
        \/ CreateSemaphore(t) \/ LockSemaphore(t) \/ LockWoken(t)
        \/ UnlockSemaphore(t)
        \/ \E newOwner \in Tasks : SetSemaphoreOwner(t, newOwner)
        \/ DeleteSemaphore(t) \/ Murder(t) \/ Die(t) \/ Spawn(t)
    BY <1>2 DEF Next
  <2>0. ASSUME Destroy PROVE Deletes
    BY <2>0 DEF Destroy, Deletes, LockCount
  <2>1. ASSUME CanCall(t), sem_Locker = t, Handover
        PROVE  \/ Loses(t)
               \/ \E n \in 1 .. Len(waitingList), noMem \in SUBSET Tasks,
                     shared \in BOOLEAN : LockCount(t) > 0 /\ Grants(t, n, noMem, shared)
    <3>1. LockCount(t) > 0
      BY <2>1 DEF SemaphoreInv, LockAccounting, LockCount
    <3>2. CASE Promotes(t)
      BY <1>0, <3>2 DEF Promotes, Loses
    <3>3. CASE Frees(t)
      BY <1>0, <3>3 DEF Frees, Loses
    <3> QED BY <2>1, <3>1, <3>2, <3>3, HandoverCases
  <2>2. CASE CreateSemaphore(t)
    BY <2>2 DEF CreateSemaphore, Quiet, SameCounts, LockCount, taskVars
  <2>3. CASE LockSemaphore(t)
    <3> PICK shared \in BOOLEAN :
          \/ LockFree(t, shared) \/ LockAgain(t, shared)
          \/ shared /\ LockShared(t)
          \/ LockRefused(t, shared) \/ LockWait(t, shared)
      BY <2>3 DEF LockSemaphore
    <3>1. CASE LockFree(t, shared)
      <4>1. waitingList = << >>
        BY <3>1 DEF LockFree, SemaphoreInv, LockAccounting
      <4>2. \A u \in Tasks \ {t} : LockCount(u)' = LockCount(u)
        BY <3>1 DEF LockFree, LockCount
      <4>3. Gains(t)
        BY <3>1, <4>1, <4>2 DEF LockFree, Gains, taskVars
      <4> QED BY <4>3
    <3>2. CASE LockAgain(t, shared)
      <4>1. LockCount(t) > 0 /\ \A u \in Tasks \ {t} : LockCount(u)' = LockCount(u)
        BY <3>2 DEF LockAgain, LockCount, SemaphoreInv, LockAccounting
      <4>2. Gains(t)
        BY <3>2, <4>1 DEF LockAgain, Gains, taskVars
      <4> QED BY <4>2
    <3>3. CASE LockShared(t)
      <4>1. /\ LockCount(t) > 0 \/ waitingList = << >>
            /\ \A u \in Tasks \ {t} : LockCount(u)' = LockCount(u)
        BY <1>0, <3>3 DEF LockShared, MayJoin, LockCount, TypeOK
      <4>2. Gains(t)
        BY <3>3, <4>1 DEF LockShared, Gains, taskVars
      <4> QED BY <4>2
    <3>4. CASE LockRefused(t, shared)
      BY <3>4 DEF LockRefused, Quiet, SameCounts, LockCount, taskVars
    <3>5. CASE LockWait(t, shared)
      <4>1. SameCounts
        BY <3>5 DEF LockWait, SameCounts, LockCount
      <4>2. Disciplined => LockCount(t) = 0
        BY <1>0, <3>5
           DEF LockWait, MustWait, MayJoin, Holds, LockCount, SemaphoreInv, TypeOK
      <4> QED BY <3>5, <4>1, <4>2 DEF LockWait, Quiet
    <3> QED BY <3>1, <3>2, <3>3, <3>4, <3>5
  <2>4. CASE LockWoken(t)
    BY <2>4 DEF LockWoken, semVars, Quiet, SameCounts, LockCount
  <2>5. CASE UnlockSemaphore(t)
    <3>1. CASE UnlockNested(t)
      <4>1. Loses(t)
        BY <1>0, <3>1 DEF UnlockNested, Loses, LockCount, taskVars, TypeOK
      <4> QED BY <4>1
    <3>2. CASE UnlockLast(t)
      BY <2>1, <3>2 DEF UnlockLast
    <3>3. CASE UnlockSecondary(t)
      <4>1. Loses(t)
        BY <1>0, <3>3 DEF UnlockSecondary, Loses, LockCount, taskVars, TypeOK
      <4> QED BY <4>1
    <3> QED BY <2>5, <3>1, <3>2, <3>3 DEF UnlockSemaphore
  <2>6. CASE \E newOwner \in Tasks : SetSemaphoreOwner(t, newOwner)
    BY <2>6 DEF SetSemaphoreOwner, Quiet, SameCounts, LockCount, taskVars
  <2>7. CASE DeleteSemaphore(t)
    BY <2>0, <2>7 DEF DeleteSemaphore
  <2>8. CASE Murder(t)
    BY <2>8 DEF Murder, Quiet, SameCounts, LockCount
  <2>9. CASE Die(t)
    <3>1. CASE DieSecondary(t)
      <4>1. Loses(t)
        BY <1>0, <3>1 DEF DieSecondary, Loses, LockCount, TypeOK
      <4> QED BY <4>1
    <3> QED BY <2>0, <2>1, <2>9, <3>1 DEF Die, DiePrimary
  <2>10. CASE Spawn(t)
    BY <2>10 DEF Spawn, semVars, Quiet, SameCounts, LockCount
  <2> QED BY <2>2, <2>3, <2>4, <2>5, <2>6, <2>7, <2>8, <2>9, <2>10
<1> QED BY <1>1, <1>2

-----------------------------------------------------------------------------
(* When callers keep the rule of the autodoc, that a holder in shared mode  *)
(* does not ask for exclusive mode, no task sleeps in LockSemaphore while   *)
(* it holds the lock, whatever is granted, promoted or killed meanwhile.    *)
THEOREM HoldersNeverWait ==
    ASSUME Disciplined
    PROVE  Spec => []HoldersDoNotWait
<1> DEFINE Inv == \A t \in taskWaiting : LockCount(t) = 0
<1>1. Init => Inv
  BY DEF Init
<1>2. SemaphoreInv /\ SemaphoreInv' /\ Inv /\ [Next]_vars => Inv'
  <2> SUFFICES ASSUME SemaphoreInv, SemaphoreInv', Inv, [Next]_vars,
                      NEW v \in taskWaiting'
               PROVE  LockCount(v)' = 0
    OBVIOUS
  <2>0. /\ taskWaiting \subseteq Tasks /\ taskWaiting' \subseteq Tasks
        /\ \A u \in Tasks : LockCount(u) \in Nat
    BY HoldsIsCount DEF SemaphoreInv, TypeOK
  <2>1. CASE Quiet
    BY <2>0, <2>1 DEF Quiet, SameCounts
  <2>2. CASE Deletes
    BY <2>2 DEF Deletes
  <2>3. ASSUME NEW t \in Tasks, Gains(t) PROVE LockCount(v)' = 0
    BY <2>0, <2>3 DEF Gains, CanCall, SameQueue, SemaphoreInv
  <2>4. ASSUME NEW t \in Tasks, Loses(t) PROVE LockCount(v)' = 0
    <3>1. LockCount(v) = 0 /\ LockCount(v)' \in Nat
      BY <2>0, <2>4 DEF Loses, SameQueue, LockCount, SemaphoreInv, TypeOK
    <3> QED BY <2>0, <2>4, <3>1 DEF Loses
  <2>5. ASSUME NEW t \in Tasks, NEW n \in 1 .. Len(waitingList),
               NEW noMem \in SUBSET Tasks, NEW shared \in BOOLEAN,
               Grants(t, n, noMem, shared)
        PROVE  LockCount(v)' = 0
    BY <2>0, <2>5 DEF Grants
  <2> QED BY <2>1, <2>2, <2>3, <2>4, <2>5, StepCases
<1>3. SemaphoreInv /\ Inv => HoldersDoNotWait
  BY HoldsIsCount DEF HoldersDoNotWait, SemaphoreInv, TypeOK
<1> QED BY <1>1, <1>2, <1>3, Invariance, PTL DEF Spec

(* No task that newly holds the lock was behind a task that goes on        *)
(* waiting: not by nesting, joining, promotion or a batch of grants.       *)
THEOREM NobodyIsOvertaken == Spec => NoOvertaking
<1> DEFINE Step == \A u \in taskWaiting \cap taskWaiting', t \in Tasks :
                      Holds(t)' /\ ~Holds(t) => Before(t, u)
<1>1. SemaphoreInv /\ SemaphoreInv' /\ [Next]_vars => Step
  <2> SUFFICES ASSUME SemaphoreInv, SemaphoreInv', [Next]_vars,
                      NEW u \in taskWaiting, u \in taskWaiting',
                      NEW v \in Tasks, Holds(v)', ~Holds(v)
               PROVE  Before(v, u)
    OBVIOUS
  <2>0. /\ LockCount(v) = 0 /\ LockCount(v)' > 0
        /\ waitingList \in Seq(WaitNode) /\ Len(waitingList) \in Nat
    <3>1. LockCount(v) = 0
      BY HoldsIsCount
    <3>2. LockCount(v)' > 0
      BY SemaphoreAssumption DEF SemaphoreInv, TypeOK, LockAccounting, LockCount, Holds
    <3> QED BY <3>1, <3>2 DEF SemaphoreInv, TypeOK
  <2>1. PICK j \in 1 .. Len(waitingList) : waitingList[j].task = u
    BY DEF SemaphoreInv, SleepersAreQueued, QueuedTasks
  <2>2. CASE Quiet \/ Deletes
    BY <2>0, <2>2 DEF Quiet, SameCounts, Deletes
  <2>3. ASSUME NEW t \in Tasks, Gains(t) PROVE FALSE
    BY <2>0, <2>1, <2>3 DEF Gains
  <2>4. ASSUME NEW t \in Tasks, Loses(t) PROVE FALSE
    <3>1. LockCount(v)' \in Nat
      BY DEF LockCount, SemaphoreInv, TypeOK
    <3> QED BY <2>0, <2>4, <3>1 DEF Loses
  <2>5. ASSUME NEW t \in Tasks, NEW n \in 1 .. Len(waitingList),
               NEW noMem \in SUBSET Tasks, NEW shared \in BOOLEAN,
               Grants(t, n, noMem, shared)
        PROVE  Before(v, u)
    <3>1. v \in First(n) /\ u \notin First(n)
      BY <2>0, <2>5 DEF Grants
    <3>2. PICK i \in 1 .. n : waitingList[i].task = v
      BY <3>1 DEF First
    <3>3. i < j /\ i \in 1 .. Len(waitingList)
      BY <2>0, <2>1, <3>1, <3>2 DEF First
    <3> QED BY <2>1, <3>2, <3>3 DEF Before
  <2> QED BY <2>2, <2>3, <2>4, <2>5, StepCases
<1> QED BY <1>1, Invariance, PTL DEF Spec, NoOvertaking

(* While the semaphore lives, a step takes locks away from one task at the *)
(* most: the count of a task that is promoted goes with it.                *)
THEOREM HandoverKeepsCounts == Spec => CountsSurviveHandover
<1> DEFINE Step == item' = "live" =>
          \A t, u \in Tasks :
             LockCount(t)' < LockCount(t) /\ LockCount(u)' < LockCount(u) => t = u
<1>1. SemaphoreInv /\ [Next]_vars => Step
  <2> SUFFICES ASSUME SemaphoreInv, [Next]_vars, item' = "live",
                      NEW v \in Tasks, NEW u \in Tasks,
                      LockCount(v)' < LockCount(v), LockCount(u)' < LockCount(u)
               PROVE  v = u
    OBVIOUS
  <2>0. \A w \in Tasks : LockCount(w) \in Nat
    BY HoldsIsCount
  <2>1. CASE Quiet \/ Deletes
    BY <2>0, <2>1 DEF Quiet, SameCounts, Deletes
  <2>2. ASSUME NEW t \in Tasks, Gains(t) \/ Loses(t) PROVE v = u
    BY <2>0, <2>2 DEF Gains, Loses
  <2>3. ASSUME NEW t \in Tasks, NEW n \in 1 .. Len(waitingList),
               NEW noMem \in SUBSET Tasks, NEW shared \in BOOLEAN,
               Grants(t, n, noMem, shared)
        PROVE  v = u
    BY <2>0, <2>3 DEF Grants
  <2> QED BY <2>1, <2>2, <2>3, StepCases
<1> QED BY <1>1, Invariance, PTL DEF Spec, CountsSurviveHandover

-----------------------------------------------------------------------------
(* What a waiting list says a task waits for.                              *)

modeOf(shared) == IF shared THEN "shared" ELSE "exclusive"

wants(s, u) ==
    IF u \notin QueuedTasks(s) THEN "no"
    ELSE modeOf(\E i \in 1 .. Len(s) : s[i].task = u /\ s[i].shared)

(* In a state of the semaphore, the list tells what every task wants.      *)
LEMMA WantedIsWants ==
    ASSUME SleepersAreQueued, NEW u
    PROVE  wanted(u) = wants(waitingList, u)
BY DEF SleepersAreQueued, wanted, wants, modeOf

(* A task wants the same of two lists that have the same nodes of it.      *)
LEMMA SameWants ==
    ASSUME NEW s, NEW r, NEW u,
           \A i \in 1 .. Len(s) : s[i].task = u => \E j \in 1 .. Len(r) : r[j] = s[i],
           \A j \in 1 .. Len(r) : r[j].task = u => \E i \in 1 .. Len(s) : s[i] = r[j]
    PROVE  wants(r, u) = wants(s, u)
<1>1. u \in QueuedTasks(s) <=> u \in QueuedTasks(r)
  BY DEF QueuedTasks
<1>2. (\E i \in 1 .. Len(s) : s[i].task = u /\ s[i].shared)
        <=> (\E j \in 1 .. Len(r) : r[j].task = u /\ r[j].shared)
  OBVIOUS
<1> QED BY <1>1, <1>2 DEF wants, modeOf

(* Queueing up at the tail. *)
LEMMA AppendWants ==
    ASSUME NEW s \in Seq(WaitNode), NEW t \in Tasks, t \notin QueuedTasks(s),
           NEW shared \in BOOLEAN, NEW u \in Tasks
    PROVE  wants(Append(s, [task |-> t, shared |-> shared]), u)
             = IF u = t THEN modeOf(shared) ELSE wants(s, u)
<1> DEFINE e == [task |-> t, shared |-> shared]
           r == Append(s, e)
<1>1. /\ Len(s) \in Nat /\ Len(r) = Len(s) + 1 /\ r[Len(s) + 1] = e
      /\ \A i \in 1 .. Len(s) : r[i] = s[i]
  BY DEF WaitNode
<1>2. e.task = t /\ e.shared = shared
  OBVIOUS
<1> HIDE DEF r, e
<1>3. CASE u # t
  <2>1. \A i \in 1 .. Len(s) : s[i].task = u => \E j \in 1 .. Len(r) : r[j] = s[i]
    BY <1>1
  <2>2. \A j \in 1 .. Len(r) : r[j].task = u => \E i \in 1 .. Len(s) : s[i] = r[j]
    BY <1>1, <1>2, <1>3
  <2>3. wants(r, u) = wants(s, u)
    BY <2>1, <2>2, SameWants
  <2> QED BY <1>3, <2>3 DEF r, e
<1>4. CASE u = t
  <2>1. u \in QueuedTasks(r)
    BY <1>1, <1>2, <1>4 DEF QueuedTasks
  <2>2. \A i \in 1 .. Len(s) : s[i].task # t
    BY DEF QueuedTasks
  <2>3. (\E i \in 1 .. Len(r) : r[i].task = u /\ r[i].shared) <=> shared
    BY <1>1, <1>2, <1>4, <2>2
  <2>4. wants(r, u) = modeOf(shared)
    BY <2>1, <2>3 DEF wants, modeOf
  <2> QED BY <1>4, <2>4 DEF r, e
<1> QED BY <1>3, <1>4

(* Taking a killed task's node out of the list. *)
LEMMA WithoutWants ==
    ASSUME NEW s \in Seq(WaitNode), QueuedOnce(s), NEW i \in 1 .. Len(s), NEW u
    PROVE  wants(WithoutAt(s, i), u) = IF u = s[i].task THEN "no" ELSE wants(s, u)
<1> DEFINE w == WithoutAt(s, i)
<1>1. /\ Len(s) \in Nat
      /\ Len(w) = Len(s) - 1
      /\ \A j \in 1 .. Len(s) - 1 : w[j] = IF j < i THEN s[j] ELSE s[j + 1]
  BY DEF WithoutAt
<1>2. QueuedTasks(w) = QueuedTasks(s) \ {s[i].task}
  BY WithoutQueue
<1> HIDE DEF w
<1>3. CASE u = s[i].task
  BY <1>2, <1>3 DEF wants, w
<1>4. CASE u # s[i].task
  <2>1. ASSUME NEW k \in 1 .. Len(s), s[k].task = u
        PROVE  \E j \in 1 .. Len(w) : w[j] = s[k]
    <3>1. CASE k < i
      BY <1>1, <3>1
    <3>2. CASE k > i
      <4>1. k - 1 \in 1 .. Len(w) /\ w[k - 1] = s[k]
        BY <1>1, <3>2
      <4> QED BY <4>1
    <3> QED BY <1>4, <2>1, <3>1, <3>2
  <2>2. ASSUME NEW j \in 1 .. Len(w)
        PROVE  \E k \in 1 .. Len(s) : s[k] = w[j]
    <3>1. j \in 1 .. Len(s) /\ j + 1 \in 1 .. Len(s)
      BY <1>1
    <3> QED BY <1>1, <3>1
  <2>3. wants(w, u) = wants(s, u)
    BY <2>1, <2>2, SameWants
  <2> QED BY <1>4, <2>3 DEF w
<1> QED BY <1>3, <1>4

(* Granting the lock to the first n waiters, all of the same mode. *)
LEMMA RestWants ==
    ASSUME NEW s \in Seq(WaitNode), QueuedOnce(s), NEW n \in 1 .. Len(s), NEW u
    PROVE  wants(SubSeq(s, n + 1, Len(s)), u)
             = IF \E i \in 1 .. n : s[i].task = u THEN "no" ELSE wants(s, u)
<1> DEFINE r == SubSeq(s, n + 1, Len(s))
<1>1. /\ Len(s) \in Nat /\ Len(r) = Len(s) - n
      /\ \A j \in 1 .. Len(s) - n : r[j] = s[n + j]
  BY RestSeq
<1> HIDE DEF r
<1>2. QueuedTasks(r) = QueuedTasks(s) \ {s[i].task : i \in 1 .. n}
  BY <1>1, RestQueue
<1>3. CASE \E i \in 1 .. n : s[i].task = u
  BY <1>2, <1>3 DEF wants, r
<1>4. CASE ~ \E i \in 1 .. n : s[i].task = u
  <2>1. ASSUME NEW k \in 1 .. Len(s), s[k].task = u
        PROVE  \E j \in 1 .. Len(r) : r[j] = s[k]
    <3>1. k > n
      BY <1>1, <1>4, <2>1
    <3>2. k - n \in 1 .. Len(r) /\ r[k - n] = s[k]
      BY <1>1, <3>1
    <3> QED BY <3>2
  <2>2. ASSUME NEW j \in 1 .. Len(r)
        PROVE  \E k \in 1 .. Len(s) : s[k] = r[j]
    <3>1. n + j \in 1 .. Len(s)
      BY <1>1
    <3> QED BY <1>1, <3>1
  <2>3. wants(r, u) = wants(s, u)
    BY <2>1, <2>2, SameWants
  <2> QED BY <1>4, <2>3 DEF r
<1> QED BY <1>3, <1>4

(* What the first n waiters want, when they all are of the same mode. *)
LEMMA FirstWants ==
    ASSUME NEW s \in Seq(WaitNode), QueuedOnce(s), NEW n \in 1 .. Len(s),
           NEW shared \in BOOLEAN, \A i \in 1 .. n : s[i].shared = shared,
           NEW k \in 1 .. n
    PROVE  wants(s, s[k].task) = modeOf(shared)
<1>1. k \in 1 .. Len(s) /\ \A i \in 1 .. Len(s) : s[i].task = s[k].task => i = k
  BY DEF QueuedOnce
<1>2. s[k].task \in QueuedTasks(s)
  BY <1>1 DEF QueuedTasks
<1>3. (\E i \in 1 .. Len(s) : s[i].task = s[k].task /\ s[i].shared) <=> shared
  BY <1>1
<1> QED BY <1>2, <1>3 DEF wants, modeOf

-----------------------------------------------------------------------------
(* Every step of the semaphore is a step of the abstract lock, or none.    *)

\* The three parts of the refinement mapping that a step leaves alone.
SameMode == lockMode' = lockMode
SameWant == \A u \in Tasks : wanted(u)' = wanted(u)

(* A task gives up n locks, and it or another task keeps some.             *)
LEMMA ReleaseRefines ==
    ASSUME SameMode, SameWant, NEW t \in Tasks, NEW n \in 1 .. LockCount(t),
           \A u \in Tasks : LockCount(u) \in Nat,
           LockCount(t) > n \/ \E u \in Tasks \ {t} : LockCount(u) > 0,
           \A u \in Tasks : LockCount(u)' = IF u = t THEN LockCount(t) - n
                                            ELSE LockCount(u)
    PROVE  RW!Next
<1> DEFINE hold == [u \in Tasks |-> LockCount(u)]
<1>1. hold' = [hold EXCEPT ![t] = @ - n]
  OBVIOUS
<1>2. hold[t] >= n /\ (hold[t] > n \/ \E u \in Tasks \ {t} : hold[u] > 0)
  OBVIOUS
<1>3. [u \in Tasks |-> wanted(u)]' = [u \in Tasks |-> wanted(u)]
  BY DEF SameWant
<1>4. RW!Release(t, n)
  BY <1>1, <1>2, <1>3 DEF RW!Release, SameMode
<1> QED BY <1>4 DEF RW!Next

(* The hand-over, in its three forms, is Release, ReleaseLast and PassOn.  *)
LEMMA HandoverRefines ==
    ASSUME SemaphoreInv, SemaphoreInv', NEW t \in Tasks, CanCall(t),
           sem_Locker = t, Handover
    PROVE  RW!Next
<1> USE SemaphoreAssumption
<1>0. /\ TypeOK /\ LockCount(t) > 0 /\ \A u \in Tasks : LockCount(u) \in Nat
      /\ SleepersAreQueued /\ SleepersAreQueued' /\ QueuedOnce(waitingList)
  BY HoldsIsCount
     DEF SemaphoreInv, LockAccounting, LockCount, SleepersAreQueued
<1>1. CASE Promotes(t)
  <2>1. SameMode
    BY <1>1 DEF SameMode, lockMode, Promotes
  <2>2. SameWant
    BY <1>1 DEF SameWant, wanted, Promotes
  <2>3. \A u \in Tasks : LockCount(u)' = IF u = t THEN LockCount(t) - LockCount(t)
                                         ELSE LockCount(u)
    BY <1>0, <1>1 DEF Promotes
  <2>4. /\ LockCount(t) \in 1 .. LockCount(t)
        /\ \E u \in Tasks \ {t} : LockCount(u) > 0
    BY <1>0, <1>1 DEF Promotes
  <2> QED BY <1>0, <2>1, <2>2, <2>3, <2>4, ReleaseRefines
<1>2. CASE Frees(t)
  <2>1. lockMode' = "free"
    BY <1>2 DEF lockMode, Frees
  <2>2. \A u \in Tasks : wanted(u) = "no" /\ wanted(u)' = "no"
    <3>1. taskWaiting = {} /\ taskWaiting' = {}
      BY <1>0, <1>2 DEF Frees, SleepersAreQueued, QueuedTasks
    <3> QED BY <3>1 DEF wanted
  <2>3. RW!ReleaseLast(t)
    BY <1>0, <1>2, <2>1, <2>2 DEF RW!ReleaseLast, Frees
  <2> QED BY <2>3 DEF RW!Next
<1>3. ASSUME NEW n \in 1 .. Len(waitingList), NEW noMem \in SUBSET Tasks,
             NEW shared \in BOOLEAN, Grants(t, n, noMem, shared)
      PROVE  RW!Next
  <2> DEFINE G == First(n) \ noMem
             m == modeOf(shared)
  <2>1. lockMode' = m
    BY <1>3 DEF lockMode, Grants, modeOf
  <2>2. First(n) \subseteq Tasks
    BY <1>0, WaitNodeTask DEF First, TypeOK
  <2>3. \A u \in First(n) : wanted(u) = m
    <3>1. \A i \in 1 .. n : waitingList[i].shared = shared
      BY <1>3 DEF Grants
    <3>2. \A i \in 1 .. n : wants(waitingList, waitingList[i].task) = m
      BY <1>0, <3>1, FirstWants DEF TypeOK
    <3> QED BY <1>0, <3>2, WantedIsWants DEF First
  <2>4. \A u \in Tasks : wanted(u)' = IF u \in First(n) THEN "no" ELSE wanted(u)
    <3> TAKE u \in Tasks
    <3>1. wanted(u)' = wants(waitingList', u)
      BY <1>0 DEF SleepersAreQueued, wanted, wants, modeOf
    <3>2. waitingList' = SubSeq(waitingList, n + 1, Len(waitingList))
      BY <1>3 DEF Grants
    <3>3. wants(waitingList', u)
            = IF \E i \in 1 .. n : waitingList[i].task = u THEN "no"
              ELSE wants(waitingList, u)
      BY <1>0, <3>2, RestWants DEF TypeOK
    <3> QED BY <1>0, <3>1, <3>3, WantedIsWants DEF First
  <2>5. m = "exclusive" => noMem = {} /\ \A u, v \in G : u = v
    BY <1>3 DEF Grants, First, modeOf
  <2>6. waitingList[1].task \in G
    BY <1>3 DEF Grants, First
  <2>7. G \cup noMem = First(n) /\ G \cap noMem = {} /\ G \in SUBSET Tasks
    BY <1>3, <2>2 DEF Grants
  <2>8. m \in {"shared", "exclusive"}
    BY DEF modeOf
  <2>9. \A u \in Tasks : LockCount(u)' = IF u \in G THEN 1 ELSE 0
    BY <1>3 DEF Grants
  <2> HIDE DEF G, m
  <2>10. RW!PassOn(t, G, noMem, m)
    <3>1. /\ G # {} /\ G \cap noMem = {}
          /\ m = "exclusive" => noMem = {} /\ \A u, v \in G : u = v
      BY <2>5, <2>6, <2>7
    <3>2. \A u \in G \cup noMem : [v \in Tasks |-> wanted(v)][u] = m
      BY <2>2, <2>3, <2>7
    <3>3. [u \in Tasks |-> LockCount(u)'] = [u \in Tasks |-> IF u \in G THEN 1 ELSE 0]
      BY <2>9
    <3>4. [u \in Tasks |-> wanted(u)']
            = [u \in Tasks |-> IF u \in G \cup noMem THEN "no"
                               ELSE [v \in Tasks |-> wanted(v)][u]]
      BY <2>4, <2>7
    <3> QED BY <2>1, <3>1, <3>2, <3>3, <3>4 DEF RW!PassOn
  <2>11. \A u \in Tasks \ {t} : LockCount(u) = 0
    BY <1>3 DEF Grants
  <2>12. G \in SUBSET {u \in Tasks : [v \in Tasks |-> wanted(v)][u] = m}
         /\ noMem \in SUBSET {u \in Tasks : [v \in Tasks |-> wanted(v)][u] = m}
    BY <2>2, <2>3, <2>7
  <2> QED BY <1>0, <2>8, <2>10, <2>11, <2>12 DEF RW!Next
<1> QED BY <1>1, <1>2, <1>3, HandoverCases

(* Locking is Acquire, Nest, Join or Wait, or nothing at all. *)
LEMMA LockRefines ==
    ASSUME SemaphoreInv, SemaphoreInv', NEW t \in Tasks, LockSemaphore(t)
    PROVE  RW!Next \/ UNCHANGED RW!rwVars
<1> USE SemaphoreAssumption
<1> DEFINE hold == [u \in Tasks |-> LockCount(u)]
           want == [u \in Tasks |-> wanted(u)]
<1>0. /\ TypeOK /\ \A u \in Tasks : LockCount(u) \in Nat
      /\ SleepersAreQueued /\ SleepersAreQueued' /\ QueuedOnce(waitingList)
  BY HoldsIsCount DEF SemaphoreInv, SleepersAreQueued
<1>1. ASSUME SameQueue PROVE want' = want
  BY <1>1 DEF SameQueue, wanted
<1>2. ASSUME waitingList = << >> PROVE \A u \in Tasks : want[u] = "no"
  <2>1. taskWaiting = {}
    BY <1>0, <1>2 DEF SleepersAreQueued, QueuedTasks
  <2> QED BY <2>1 DEF wanted
<1> PICK shared \in BOOLEAN :
      \/ LockFree(t, shared) \/ LockAgain(t, shared)
      \/ shared /\ LockShared(t)
      \/ LockRefused(t, shared) \/ LockWait(t, shared)
  BY DEF LockSemaphore
<1>3. ASSUME LockCount(t) > 0, SameQueue, SameMode,
             \A u \in Tasks : LockCount(u)' = IF u = t THEN LockCount(t) + 1
                                              ELSE LockCount(u)
      PROVE  RW!Next
  <2>1. hold' = [hold EXCEPT ![t] = @ + 1] /\ hold[t] > 0
    BY <1>3
  <2>2. RW!Nest(t)
    BY <1>1, <1>3, <2>1 DEF RW!Nest, SameMode
  <2> QED BY <2>2 DEF RW!Next
<1>4. CASE LockFree(t, shared)
  <2>1. ~sharedRead /\ \A u \in Tasks : LockCount(u) = 0
    BY <1>4 DEF LockFree, SemaphoreInv, LockAccounting, LockCount
  <2>2. lockMode = "free" /\ lockMode' = modeOf(shared)
    BY <1>4, <2>1 DEF LockFree, lockMode, modeOf
  <2>3. \A u \in Tasks : LockCount(u)' = IF u = t THEN 1 ELSE LockCount(u)
    BY <1>4 DEF LockFree, LockCount
  <2>4. hold' = [hold EXCEPT ![t] = 1]
    BY <2>3
  <2>5. want' = want
    BY <1>1, <1>4 DEF LockFree, SameQueue, taskVars
  <2>6. RW!Acquire(t, modeOf(shared))
    BY <2>2, <2>4, <2>5 DEF RW!Acquire
  <2>7. modeOf(shared) \in {"shared", "exclusive"}
    BY DEF modeOf
  <2> QED BY <2>6, <2>7 DEF RW!Next
<1>5. CASE LockAgain(t, shared)
  <2>1. SameQueue /\ SameMode
    BY <1>5 DEF LockAgain, SameQueue, SameMode, lockMode, taskVars
  <2>2. LockCount(t) > 0
    BY <1>5 DEF LockAgain, LockCount, SemaphoreInv, LockAccounting
  <2>3. \A u \in Tasks : LockCount(u)' = IF u = t THEN LockCount(t) + 1
                                         ELSE LockCount(u)
    BY <1>5 DEF LockAgain, LockCount
  <2> QED BY <1>3, <2>1, <2>2, <2>3
<1>6. CASE LockShared(t)
  <2>1. SameQueue /\ SameMode /\ lockMode = "shared"
    BY <1>6 DEF LockShared, SameQueue, SameMode, lockMode, taskVars
  <2>2. \A u \in Tasks : LockCount(u)' = IF u = t THEN LockCount(t) + 1
                                         ELSE LockCount(u)
    BY <1>0, <1>6 DEF LockShared, LockCount, TypeOK
  <2>3. CASE LockCount(t) > 0
    BY <1>3, <2>1, <2>2, <2>3
  <2>4. CASE LockCount(t) = 0
    <3>1. waitingList = << >>
      BY <1>6, <2>4 DEF LockShared, MayJoin, LockCount
    <3>2. \A u \in Tasks : LockCount(u)' = IF u = t THEN 1 ELSE LockCount(u)
      BY <2>2, <2>4
    <3>3. hold' = [hold EXCEPT ![t] = 1]
      BY <3>2
    <3>4. RW!Join(t)
      BY <1>1, <1>2, <2>1, <2>4, <3>1, <3>3 DEF RW!Join, SameMode
    <3> QED BY <3>4 DEF RW!Next
  <2> QED BY <1>0, <2>3, <2>4
<1>7. CASE LockRefused(t, shared)
  <2>1. SameQueue /\ SameMode /\ hold' = hold
    BY <1>7 DEF LockRefused, SameQueue, SameMode, lockMode, LockCount, taskVars
  <2> QED BY <1>1, <2>1 DEF RW!rwVars, SameMode
<1>8. CASE LockWait(t, shared)
  <2>1. lockMode # "free" /\ SameMode /\ hold' = hold
    BY <1>8 DEF LockWait, MustWait, SameMode, lockMode, LockCount
  <2>2. t \notin taskWaiting
    BY <1>8 DEF LockWait, MustWait, CanCall, SemaphoreInv
  <2>3. t \notin QueuedTasks(waitingList)
    BY <1>0, <2>2 DEF SleepersAreQueued
  <2>4. \A u \in Tasks : wanted(u)' = IF u = t THEN modeOf(shared) ELSE wanted(u)
    <3> TAKE u \in Tasks
    <3>1. wanted(u)' = wants(waitingList', u)
      BY <1>0 DEF SleepersAreQueued, wanted, wants, modeOf
    <3>2. waitingList' = Append(waitingList, [task |-> t, shared |-> shared])
      BY <1>8 DEF LockWait
    <3>3. wants(waitingList', u) = IF u = t THEN modeOf(shared) ELSE wants(waitingList, u)
      BY <1>0, <2>3, <3>2, AppendWants DEF TypeOK
    <3> QED BY <1>0, <3>1, <3>3, WantedIsWants
  <2>5. want[t] = "no"
    BY <2>2 DEF wanted
  <2>6. want' = [want EXCEPT ![t] = modeOf(shared)]
    BY <2>4
  <2>7. RW!Wait(t, modeOf(shared))
    BY <2>1, <2>5, <2>6 DEF RW!Wait, SameMode
  <2>8. modeOf(shared) \in {"shared", "exclusive"}
    BY DEF modeOf
  <2> QED BY <2>7, <2>8 DEF RW!Next
<1> QED BY <1>4, <1>5, <1>6, <1>7, <1>8

(* A step of the semaphore is a step of the abstract lock, or leaves it     *)
(* unchanged.                                                               *)
LEMMA StepRefines ==
    ASSUME SemaphoreInv, SemaphoreInv', [Next]_vars
    PROVE  [RW!Next]_(RW!rwVars)
<1> USE SemaphoreAssumption
<1> DEFINE hold == [u \in Tasks |-> LockCount(u)]
           want == [u \in Tasks |-> wanted(u)]
<1>0. /\ TypeOK /\ \A u \in Tasks : LockCount(u) \in Nat
      /\ SleepersAreQueued /\ SleepersAreQueued' /\ QueuedOnce(waitingList)
  BY HoldsIsCount DEF SemaphoreInv, SleepersAreQueued
<1>1. ASSUME UNCHANGED <<sem_Locker, sem_NestCnt, sharedRead, sl_NestCnt,
                         waitingList, taskWaiting>>
      PROVE  UNCHANGED RW!rwVars
  <2>1. hold' = hold /\ want' = want /\ lockMode' = lockMode
    BY <1>1 DEF LockCount, wanted, lockMode
  <2> QED BY <2>1 DEF RW!rwVars
<1>2. CASE UNCHANGED vars
  BY <1>1, <1>2 DEF vars, semVars, taskVars
<1>3. ASSUME Destroy PROVE RW!Next
  <2>1. hold' = [u \in Tasks |-> 0]
    BY <1>3 DEF Destroy, LockCount
  <2>2. want' = [u \in Tasks |-> "no"]
    BY <1>3 DEF Destroy, wanted
  <2>3. lockMode' = "free"
    BY <1>3 DEF Destroy, lockMode
  <2> QED BY <2>1, <2>2, <2>3 DEF RW!Destroy, RW!Next
<1>4. ASSUME NEW t \in Tasks, NEW n \in 1 .. LockCount(t), sem_Locker # t \/ LockCount(t) > n,
             UNCHANGED <<sem_Locker, sharedRead, waitingList, taskWaiting>>,
             \A u \in Tasks : LockCount(u)' = IF u = t THEN LockCount(t) - n
                                              ELSE LockCount(u)
      PROVE  RW!Next
  <2>1. SameMode /\ SameWant
    BY <1>4 DEF SameMode, SameWant, lockMode, wanted
  <2>2. LockCount(t) > n \/ \E u \in Tasks \ {t} : LockCount(u) > 0
    <3>1. CASE sem_Locker # t
      <4>1. sem_Locker # NoTask
        BY <1>0, <1>4, <3>1 DEF LockCount, SemaphoreInv, LockAccounting
      <4>2. sem_Locker \in Tasks \ {t} /\ LockCount(sem_Locker) > 0
        BY <1>0, <3>1, <4>1 DEF LockCount, SemaphoreInv, LockAccounting, TypeOK
      <4> QED BY <4>2
    <3> QED BY <1>4, <3>1
  <2> QED BY <1>0, <1>4, <2>1, <2>2, ReleaseRefines
<1>5. CASE Next
  <2> PICK t \in Tasks :
        \/ CreateSemaphore(t) \/ LockSemaphore(t) \/ LockWoken(t)
        \/ UnlockSemaphore(t)
        \/ \E newOwner \in Tasks : SetSemaphoreOwner(t, newOwner)
        \/ DeleteSemaphore(t) \/ Murder(t) \/ Die(t) \/ Spawn(t)
    BY <1>5 DEF Next
  <2>1. CASE CreateSemaphore(t)
    BY <1>1, <2>1 DEF CreateSemaphore, taskVars
  <2>2. CASE LockSemaphore(t)
    BY <2>2, LockRefines
  <2>3. CASE LockWoken(t)
    BY <1>1, <2>3 DEF LockWoken, semVars
  <2>4. CASE UnlockNested(t)
    <3>1. 1 \in 1 .. LockCount(t) /\ LockCount(t) > 1
      BY <1>0, <2>4 DEF UnlockNested, LockCount, TypeOK
    <3>2. \A u \in Tasks : LockCount(u)' = IF u = t THEN LockCount(t) - 1
                                           ELSE LockCount(u)
      BY <2>4 DEF UnlockNested, LockCount
    <3>3. UNCHANGED <<sem_Locker, sharedRead, waitingList, taskWaiting>>
      BY <2>4 DEF UnlockNested, taskVars
    <3> QED BY <1>4, <3>1, <3>2, <3>3
  <2>5. CASE UnlockLast(t)
    BY <2>5, HandoverRefines DEF UnlockLast
  <2>6. CASE UnlockSecondary(t)
    <3>1. 1 \in 1 .. LockCount(t) /\ sem_Locker # t
      BY <1>0, <2>6 DEF UnlockSecondary, LockCount, TypeOK
    <3>2. \A u \in Tasks : LockCount(u)' = IF u = t THEN LockCount(t) - 1
                                           ELSE LockCount(u)
      BY <1>0, <2>6 DEF UnlockSecondary, LockCount, TypeOK
    <3>3. UNCHANGED <<sem_Locker, sharedRead, waitingList, taskWaiting>>
      BY <2>6 DEF UnlockSecondary, taskVars
    <3> QED BY <1>4, <3>1, <3>2, <3>3
  <2>7. CASE \E newOwner \in Tasks : SetSemaphoreOwner(t, newOwner)
    BY <1>1, <2>7 DEF SetSemaphoreOwner, taskVars
  <2>8. CASE DeleteSemaphore(t)
    BY <1>3, <2>8 DEF DeleteSemaphore
  <2>9. CASE Murder(t)
    <3>1. CASE t \notin taskWaiting
      BY <1>1, <2>9, <3>1 DEF Murder
    <3>2. CASE t \in taskWaiting
      <4> PICK i \in 1 .. Len(waitingList) :
               /\ waitingList[i].task = t
               /\ waitingList' = WithoutAt(waitingList, i)
        BY <2>9, <3>2 DEF Murder
      <4>1. \A u \in Tasks : wanted(u)' = IF u = t THEN "no" ELSE wanted(u)
        <5> TAKE u \in Tasks
        <5>1. wanted(u)' = wants(waitingList', u)
          BY <1>0 DEF SleepersAreQueued, wanted, wants, modeOf
        <5>2. wants(waitingList', u) = IF u = t THEN "no" ELSE wants(waitingList, u)
          BY <1>0, WithoutWants DEF TypeOK
        <5> QED BY <1>0, <5>1, <5>2, WantedIsWants
      <4>2. want[t] # "no" /\ want' = [want EXCEPT ![t] = "no"]
        BY <3>2, <4>1 DEF wanted
      <4>3. hold' = hold /\ lockMode' = lockMode
        BY <2>9 DEF Murder, LockCount, lockMode
      <4>4. RW!Cancel(t)
        BY <4>2, <4>3 DEF RW!Cancel
      <4> QED BY <4>4 DEF RW!Next
    <3> QED BY <3>1, <3>2
  <2>10. CASE Die(t)
    <3>1. CASE DiePrimary(t)
      BY <2>10, <3>1, HandoverRefines DEF Die, DiePrimary
    <3>2. CASE DieSecondary(t)
      <4>1. CASE LockCount(t) = 0
        <5>1. hold' = hold /\ want' = want /\ lockMode' = lockMode
          BY <1>0, <3>2, <4>1 DEF DieSecondary, LockCount, wanted, lockMode, TypeOK
        <5> QED BY <5>1 DEF RW!rwVars
      <4>2. CASE LockCount(t) # 0
        <5>1. LockCount(t) \in 1 .. LockCount(t) /\ sem_Locker # t
          BY <1>0, <3>2, <4>2 DEF DieSecondary
        <5>2. \A u \in Tasks : LockCount(u)' = IF u = t THEN LockCount(t) - LockCount(t)
                                               ELSE LockCount(u)
          BY <1>0, <3>2 DEF DieSecondary, LockCount, TypeOK
        <5>3. UNCHANGED <<sem_Locker, sharedRead, waitingList, taskWaiting>>
          BY <3>2 DEF DieSecondary
        <5> QED BY <1>4, <5>1, <5>2, <5>3
      <4> QED BY <4>1, <4>2
    <3> QED BY <1>3, <2>10, <3>1, <3>2 DEF Die
  <2>11. CASE Spawn(t)
    BY <1>1, <2>11 DEF Spawn, semVars
  <2> QED BY <2>1, <2>2, <2>3, <2>4, <2>5, <2>6, <2>7, <2>8, <2>9, <2>10, <2>11
          DEF UnlockSemaphore
<1> QED BY <1>2, <1>5

(* The semaphore code implements the readers-writer lock that its users     *)
(* see: queues, shared nodes, flags, promotions, kills and deletion amount  *)
(* to acquiring, nesting, waiting, releasing and passing on.                *)
THEOREM SemaphoreIsRWLock == Spec => ImplementsRWLock
<1>1. Init => RW!Init
  <2> SUFFICES ASSUME Init PROVE RW!Init
    OBVIOUS
  <2>1. [u \in Tasks |-> LockCount(u)] = [u \in Tasks |-> 0]
    BY DEF Init, LockCount
  <2>2. [u \in Tasks |-> wanted(u)] = [u \in Tasks |-> "no"]
    BY DEF Init, wanted
  <2> QED BY <2>1, <2>2 DEF Init, RW!Init, lockMode
<1>2. SemaphoreInv /\ SemaphoreInv' /\ [Next]_vars => [RW!Next]_(RW!rwVars)
  BY StepRefines
<1> QED BY <1>1, <1>2, Invariance, PTL DEF Spec, ImplementsRWLock, RW!Spec

=============================================================================
