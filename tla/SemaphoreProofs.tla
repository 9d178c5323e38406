--------------------------- MODULE SemaphoreProofs ---------------------------
(***************************************************************************)
(* Proofs about Semaphore for every set of tasks and every nest bound.     *)
(***************************************************************************)
EXTENDS Semaphore, ListProofs

-----------------------------------------------------------------------------
(* Facts about the list operations that the model uses.                    *)

(* The list behind its first n elements (the batch wake-up of shared        *)
(* waiters).                                                                *)
LEMMA RestSeq ==
    ASSUME NEW S, NEW s \in Seq(S), NEW n \in 1 .. Len(s)
    PROVE  /\ SubSeq(s, n + 1, Len(s)) \in Seq(S)
           /\ Len(SubSeq(s, n + 1, Len(s))) = Len(s) - n
           /\ \A j \in 1 .. Len(s) - n : SubSeq(s, n + 1, Len(s))[j] = s[n + j]
OBVIOUS

(* The parts of a non-empty list (RemHead on the waiting list).             *)
LEMMA HeadTailSeq ==
    ASSUME NEW S, NEW s \in Seq(S), s # << >>
    PROVE  /\ Len(s) >= 1
           /\ Head(s) = s[1]
           /\ Head(s) \in S
           /\ Tail(s) \in Seq(S)
           /\ Len(Tail(s)) = Len(s) - 1
           /\ \A j \in 1 .. Len(s) - 1 : Tail(s)[j] = s[j + 1]
OBVIOUS

-----------------------------------------------------------------------------
(* TypeOK is inductive by itself.                                          *)

(* Handing the lock over keeps every variable in its type. *)
LEMMA HandoverType ==
    ASSUME TypeOK, Handover
    PROVE  /\ sem_Locker' \in Tasks \cup {NoTask}
           /\ sem_NestCnt' \in Nat
           /\ sharedRead' \in BOOLEAN
           /\ waitingList' \in Seq(WaitNode)
           /\ slNodes' \in SUBSET Tasks
           /\ sl_NestCnt' \in [Tasks -> Nat]
           /\ taskWaiting' \in SUBSET Tasks
           /\ t_WaitItem' \in [Tasks -> WaitItems]
<1> USE DEF TypeOK
<1>1. CASE \E u \in Tasks : Promote(u)
  BY <1>1 DEF Promote, Secondaries
<1>2. CASE SetFree
  BY <1>2 DEF SetFree
<1>3. CASE GrantExclusive
  <2>1. Head(waitingList) \in WaitNode /\ Tail(waitingList) \in Seq(WaitNode)
    BY <1>3, HeadTailSeq DEF GrantExclusive
  <2>2. Head(waitingList).task \in Tasks
    BY <2>1 DEF WaitNode
  <2> QED BY <1>3, <2>1, <2>2 DEF GrantExclusive
<1>4. CASE \E n \in 1 .. Len(waitingList), noMem \in SUBSET Tasks :
              GrantShared(n, noMem)
  <2> PICK n \in 1 .. Len(waitingList), noMem \in SUBSET Tasks :
              GrantShared(n, noMem)
    BY <1>4
  <2>1. waitingList' \in Seq(WaitNode)
    BY RestSeq DEF GrantShared
  <2>2. /\ waitingList[1].task \in Tasks
        /\ Followers(n) \in SUBSET Tasks
    <3>1. \A i \in 1 .. Len(waitingList) : waitingList[i] \in WaitNode
      OBVIOUS
    <3>2. \A i \in 1 .. Len(waitingList) : waitingList[i].task \in Tasks
      BY <3>1 DEF WaitNode
    <3> QED BY <3>2 DEF Followers
  <2>3. sl_NestCnt' \in [Tasks -> Nat]
    BY DEF GrantShared
  <2>4. t_WaitItem' \in [Tasks -> WaitItems]
    BY DEF GrantShared, WaitItems
  <2> QED BY <2>1, <2>2, <2>3, <2>4 DEF GrantShared
<1> QED BY <1>1, <1>2, <1>3, <1>4 DEF Handover

(* Deleting the semaphore keeps every variable in its type. *)
LEMMA DestroyType ==
    ASSUME TypeOK, Destroy
    PROVE  /\ item' \in {"none", "live", "deleted"}
           /\ owner' \in Tasks \cup {NoTask}
           /\ sem_Locker' \in Tasks \cup {NoTask}
           /\ sem_NestCnt' \in Nat
           /\ sharedRead' \in BOOLEAN
           /\ waitingList' \in Seq(WaitNode)
           /\ slNodes' \in SUBSET Tasks
           /\ sl_NestCnt' \in [Tasks -> Nat]
           /\ taskWaiting' \in SUBSET Tasks
           /\ t_WaitItem' \in [Tasks -> WaitItems]
<1>1. waitingList' \in Seq(WaitNode)
  BY DEF Destroy
<1>2. sl_NestCnt' \in [Tasks -> Nat]
  BY DEF Destroy
<1>3. t_WaitItem' \in [Tasks -> WaitItems]
  BY DEF Destroy, TypeOK, WaitItems
<1> QED BY <1>1, <1>2, <1>3 DEF Destroy, TypeOK

(* One step of the semaphore keeps every variable in its type. *)
LEMMA TypeStep ==
    ASSUME TypeOK, [Next]_vars
    PROVE  TypeOK'
<1>1. CASE UNCHANGED vars
  BY <1>1 DEF vars, semVars, taskVars, TypeOK
<1>2. CASE Next
  <2> PICK t \in Tasks :
        \/ CreateSemaphore(t) \/ LockSemaphore(t) \/ LockWoken(t)
        \/ UnlockSemaphore(t)
        \/ \E newOwner \in Tasks : SetSemaphoreOwner(t, newOwner)
        \/ DeleteSemaphore(t) \/ Murder(t) \/ Die(t) \/ Spawn(t)
    BY <1>2 DEF Next
  <2>1. CASE CreateSemaphore(t)
    BY <2>1 DEF CreateSemaphore, taskVars, TypeOK
  <2>2. CASE LockSemaphore(t)
    <3> PICK shared \in BOOLEAN :
          \/ LockFree(t, shared) \/ LockAgain(t, shared)
          \/ shared /\ LockShared(t)
          \/ LockRefused(t, shared) \/ LockWait(t, shared)
      BY <2>2 DEF LockSemaphore
    <3>1. CASE LockFree(t, shared)
      BY <3>1 DEF LockFree, taskVars, TypeOK
    <3>2. CASE LockAgain(t, shared)
      BY <3>2 DEF LockAgain, taskVars, TypeOK
    <3>3. CASE LockShared(t)
      BY <3>3 DEF LockShared, taskVars, TypeOK
    <3>4. CASE LockRefused(t, shared)
      BY <3>4 DEF LockRefused, NodesAfterTry, taskVars, TypeOK
    <3>5. CASE LockWait(t, shared)
      <4>1. waitingList' \in Seq(WaitNode)
        BY <3>5 DEF LockWait, WaitNode, TypeOK
      <4> QED BY <3>5, <4>1 DEF LockWait, NodesAfterTry, WaitItems, TypeOK
    <3> QED BY <3>1, <3>2, <3>3, <3>4, <3>5
  <2>3. CASE LockWoken(t)
    BY <2>3 DEF LockWoken, semVars, WaitItems, TypeOK
  <2>4. CASE UnlockSemaphore(t)
    <3>1. CASE UnlockNested(t)
      BY <3>1 DEF UnlockNested, taskVars, TypeOK
    <3>2. CASE UnlockLast(t)
      BY <3>2, HandoverType DEF UnlockLast, TypeOK
    <3>3. CASE UnlockSecondary(t)
      BY <3>3 DEF UnlockSecondary, taskVars, TypeOK
    <3> QED BY <2>4, <3>1, <3>2, <3>3 DEF UnlockSemaphore
  <2>5. CASE \E newOwner \in Tasks : SetSemaphoreOwner(t, newOwner)
    BY <2>5 DEF SetSemaphoreOwner, taskVars, TypeOK
  <2>6. CASE DeleteSemaphore(t)
    BY <2>6, DestroyType DEF DeleteSemaphore, TypeOK
  <2>7. CASE Murder(t)
    <3>1. waitingList' \in Seq(WaitNode)
      BY <2>7, WithoutAtSeq DEF Murder, TypeOK
    <3> QED BY <2>7, <3>1 DEF Murder, WaitItems, TypeOK
  <2>8. CASE Die(t)
    <3>1. CASE Destroy
      BY <2>8, <3>1, DestroyType DEF Die, TypeOK
    <3>2. CASE DiePrimary(t)
      BY <2>8, <3>2, HandoverType DEF Die, DiePrimary, TypeOK
    <3>3. CASE DieSecondary(t)
      BY <2>8, <3>3 DEF Die, DieSecondary, TypeOK
    <3> QED BY <2>8, <3>1, <3>2, <3>3 DEF Die
  <2>9. CASE Spawn(t)
    BY <2>9 DEF Spawn, semVars, WaitItems, TypeOK
  <2> QED BY <2>1, <2>2, <2>3, <2>4, <2>5, <2>6, <2>7, <2>8, <2>9
<1> QED BY <1>1, <1>2

(* The initial state has its type. *)
LEMMA InitType == ASSUME Init PROVE TypeOK
<1>1. waitingList \in Seq(WaitNode)
  BY DEF Init
<1>2. sl_NestCnt \in [Tasks -> Nat]
  BY DEF Init
<1>3. t_WaitItem \in [Tasks -> WaitItems]
  BY DEF Init, WaitItems
<1> QED BY <1>1, <1>2, <1>3 DEF Init, TypeOK

(* Every variable of the semaphore always has its type; in particular the   *)
(* nest counts, unsigned in the code, never go below 0.                     *)
THEOREM TypeCorrect == Spec => []TypeOK
<1>1. Init => TypeOK
  BY InitType
<1>2. TypeOK /\ [Next]_vars => TypeOK'
  BY TypeStep
<1> QED BY <1>1, <1>2, PTL DEF Spec

-----------------------------------------------------------------------------
(* The waiting list as a set of tasks.                                     *)

(* Every element of a waiting list names a task. *)
LEMMA WaitNodeTask ==
    ASSUME NEW s \in Seq(WaitNode), NEW i \in 1 .. Len(s)
    PROVE  s[i].task \in Tasks
<1>1. s[i] \in WaitNode
  OBVIOUS
<1> QED BY <1>1 DEF WaitNode

(* Removing the i-th node removes exactly its task. *)
LEMMA WithoutQueue ==
    ASSUME NEW s \in Seq(WaitNode), QueuedOnce(s), NEW i \in 1 .. Len(s)
    PROVE  /\ QueuedOnce(WithoutAt(s, i))
           /\ QueuedTasks(WithoutAt(s, i)) = QueuedTasks(s) \ {s[i].task}
<1> DEFINE w == WithoutAt(s, i)
<1>1. /\ Len(s) \in Nat
      /\ Len(w) = Len(s) - 1
      /\ \A j \in 1 .. Len(s) - 1 : w[j] = IF j < i THEN s[j] ELSE s[j + 1]
  BY DEF WithoutAt
<1> HIDE DEF w
<1>2. QueuedOnce(w)
  <2> SUFFICES ASSUME NEW j \in 1 .. Len(w), NEW k \in 1 .. Len(w),
                      w[j].task = w[k].task
               PROVE  j = k
    BY DEF QueuedOnce
  <2> DEFINE at(m) == IF m < i THEN m ELSE m + 1
  <2>1. /\ at(j) \in 1 .. Len(s) /\ w[j] = s[at(j)]
        /\ at(k) \in 1 .. Len(s) /\ w[k] = s[at(k)]
    BY <1>1
  <2>2. at(j) = at(k)
    BY <2>1 DEF QueuedOnce
  <2> QED BY <1>1, <2>2
<1>3. QueuedTasks(w) \subseteq QueuedTasks(s) \ {s[i].task}
  <2> SUFFICES ASSUME NEW j \in 1 .. Len(w)
               PROVE  w[j].task \in QueuedTasks(s) \ {s[i].task}
    BY DEF QueuedTasks
  <2> QED BY <1>1 DEF QueuedTasks, QueuedOnce
<1>4. QueuedTasks(s) \ {s[i].task} \subseteq QueuedTasks(w)
  <2> SUFFICES ASSUME NEW j \in 1 .. Len(s), s[j].task # s[i].task
               PROVE  s[j].task \in QueuedTasks(w)
    BY DEF QueuedTasks
  <2>1. CASE j < i
    BY <1>1, <2>1 DEF QueuedTasks
  <2>2. CASE j > i
    <3>1. j - 1 \in 1 .. Len(w) /\ w[j - 1] = s[j]
      BY <1>1, <2>2
    <3> QED BY <3>1 DEF QueuedTasks
  <2> QED BY <2>1, <2>2
<1> QED BY <1>2, <1>3, <1>4 DEF w

(* What is left behind the first n nodes. *)
LEMMA RestQueue ==
    ASSUME NEW s \in Seq(WaitNode), QueuedOnce(s), NEW n \in 1 .. Len(s),
           NEW r, Len(s) \in Nat, Len(r) = Len(s) - n,
           \A j \in 1 .. Len(s) - n : r[j] = s[n + j]
    PROVE  /\ QueuedOnce(r)
           /\ QueuedTasks(r) = QueuedTasks(s) \ {s[i].task : i \in 1 .. n}
<1>1. QueuedOnce(r)
  BY DEF QueuedOnce
<1>2. QueuedTasks(r) \subseteq QueuedTasks(s) \ {s[i].task : i \in 1 .. n}
  <2> SUFFICES ASSUME NEW x \in QueuedTasks(r)
               PROVE  x \in QueuedTasks(s) /\ \A i \in 1 .. n : x # s[i].task
    OBVIOUS
  <2> PICK j \in 1 .. Len(r) : x = r[j].task
    BY DEF QueuedTasks
  <2>1. /\ n + j \in 1 .. Len(s) /\ r[j] = s[n + j]
        /\ \A i \in 1 .. n : i \in 1 .. Len(s) /\ i # n + j
    OBVIOUS
  <2>2. s[n + j].task \in QueuedTasks(s)
    BY <2>1 DEF QueuedTasks
  <2>3. \A i \in 1 .. n : s[n + j].task # s[i].task
    BY <2>1 DEF QueuedOnce
  <2> QED BY <2>1, <2>2, <2>3
<1>3. QueuedTasks(s) \ {s[i].task : i \in 1 .. n} \subseteq QueuedTasks(r)
  <2> SUFFICES ASSUME NEW j \in 1 .. Len(s),
                      s[j].task \notin {s[i].task : i \in 1 .. n}
               PROVE  s[j].task \in QueuedTasks(r)
    BY DEF QueuedTasks
  <2>1. j > n
    OBVIOUS
  <2>2. j - n \in 1 .. Len(r) /\ r[j - n] = s[j]
    BY <2>1
  <2> QED BY <2>2 DEF QueuedTasks
<1> QED BY <1>1, <1>2, <1>3

(* A new node at the tail adds its task. *)
LEMMA AppendQueue ==
    ASSUME NEW s \in Seq(WaitNode), QueuedOnce(s), NEW x \in WaitNode,
           x.task \notin QueuedTasks(s)
    PROVE  /\ QueuedOnce(Append(s, x))
           /\ QueuedTasks(Append(s, x)) = QueuedTasks(s) \cup {x.task}
<1> DEFINE a == Append(s, x)
<1>1. /\ Len(s) \in Nat
      /\ Len(a) = Len(s) + 1
      /\ a[Len(s) + 1] = x
      /\ \A j \in 1 .. Len(s) : a[j] = s[j]
  OBVIOUS
<1> HIDE DEF a
<1>2. QueuedOnce(a)
  <2> SUFFICES ASSUME NEW j \in 1 .. Len(a), NEW k \in 1 .. Len(a),
                      a[j].task = a[k].task
               PROVE  j = k
    BY DEF QueuedOnce
  <2> QED BY <1>1 DEF QueuedOnce, QueuedTasks
<1>3. QueuedTasks(a) \subseteq QueuedTasks(s) \cup {x.task}
  BY <1>1 DEF QueuedTasks
<1>4. QueuedTasks(s) \cup {x.task} \subseteq QueuedTasks(a)
  <2>1. x.task \in QueuedTasks(a)
    BY <1>1 DEF QueuedTasks
  <2>2. QueuedTasks(s) \subseteq QueuedTasks(a)
    BY <1>1 DEF QueuedTasks
  <2> QED BY <2>1, <2>2
<1> QED BY <1>2, <1>3, <1>4 DEF a

-----------------------------------------------------------------------------
(* The inductive invariant.                                                *)

(* Passing the lock on when the primary locker's last lock goes, whether it *)
(* unlocked (alive stays) or died (it leaves alive).                        *)
LEMMA HandoverInv ==
    ASSUME SemaphoreInv, TypeOK', NEW t \in Tasks, CanCall(t), sem_Locker = t,
           Handover, item' = item, inLock' = inLock,
           alive' = alive \/ alive' = alive \ {t}
    PROVE  SemaphoreInv'
<1> USE SemaphoreAssumption DEF CanCall
<1>0. /\ t \in alive /\ t \notin inLock /\ t \notin taskWaiting
      /\ sl_NestCnt[t] = 0 /\ t # NoTask /\ item = "live"
  BY DEF SemaphoreInv, LockAccounting
<1>1. CASE \E u \in Tasks : Promote(u)
  <2> PICK u \in Tasks : Promote(u)
    BY <1>1
  <2>1. u # t /\ sl_NestCnt[u] > 0 /\ sharedRead
    BY <1>0 DEF Promote, Secondaries, SemaphoreInv, TypeOK
  <2>2. \A v \in Tasks : Holds(v)' <=> Holds(v) /\ v # t
    BY <1>0, <2>1 DEF Promote, Holds, SemaphoreInv, TypeOK
  <2>3. LockAccounting'
    BY <1>0, <2>1 DEF Promote, LockAccounting, SemaphoreInv, TypeOK
  <2>4. SleepersAreQueued'
    BY DEF Promote, SemaphoreInv, SleepersAreQueued, QueuedTasks, QueuedOnce
  <2>5. DeadHoldNothing'
    BY <1>0, <2>2 DEF SemaphoreInv, DeadHoldNothing
  <2>6. GrantIsReal'
    BY <1>0, <2>2 DEF Promote, SemaphoreInv, GrantIsReal, TypeOK
  <2> QED BY <1>0, <2>1, <2>3, <2>4, <2>5, <2>6 DEF Promote, SemaphoreInv
<1>2. CASE SetFree
  <2>1. \A v \in Tasks : sl_NestCnt[v] = 0
    BY <1>2 DEF SetFree, Secondaries, SemaphoreInv, LockAccounting, TypeOK
  <2>2. \A v \in Tasks : ~Holds(v)'
    BY <1>2, <2>1 DEF SetFree, Holds
  <2>3. \A v \in Tasks : Holds(v) => v = t
    BY <2>1 DEF Holds
  <2>4. LockAccounting'
    BY <1>2, <2>1 DEF SetFree, LockAccounting
  <2>5. SleepersAreQueued'
    BY <1>2 DEF SetFree, SemaphoreInv, SleepersAreQueued, QueuedTasks,
                QueuedOnce
  <2>6. DeadHoldNothing'
    BY <1>0, <2>2 DEF SemaphoreInv, DeadHoldNothing
  <2>7. GrantIsReal'
    BY <1>0, <1>2, <2>2, <2>3 DEF SetFree, SemaphoreInv, GrantIsReal, TypeOK
  <2> QED BY <1>0, <1>2, <2>1, <2>4, <2>5, <2>6, <2>7 DEF SetFree, SemaphoreInv
<1>3. CASE GrantExclusive
  <2> PICK h : h = waitingList[1].task
    OBVIOUS
  <2>1. /\ waitingList \in Seq(WaitNode) /\ Len(waitingList) \in Nat
        /\ Len(waitingList) >= 1
        /\ Head(waitingList) = waitingList[1]
        /\ Len(Tail(waitingList)) = Len(waitingList) - 1
        /\ \A j \in 1 .. Len(waitingList) - 1 :
              Tail(waitingList)[j] = waitingList[1 + j]
    BY <1>3, HeadTailSeq DEF GrantExclusive, SemaphoreInv, TypeOK
  <2>2. h \in taskWaiting /\ h \in Tasks /\ h \in inLock /\ h # t /\ h # NoTask
    BY <1>0, <2>1, WaitNodeTask
       DEF SemaphoreInv, SleepersAreQueued, QueuedTasks
  <2>3. \A v \in Tasks : sl_NestCnt[v] = 0
    BY <1>3 DEF GrantExclusive, Secondaries, SemaphoreInv, LockAccounting,
                TypeOK
  <2>4. /\ sem_Locker' = h /\ sem_NestCnt' = 1 /\ sharedRead' = FALSE
        /\ sl_NestCnt' = sl_NestCnt /\ slNodes' = slNodes
        /\ taskWaiting' = taskWaiting \ {h} /\ t_WaitItem' = t_WaitItem
    BY <1>3, <2>1 DEF GrantExclusive
  <2>5. \A v \in Tasks : (Holds(v)' <=> v = h) /\ (Holds(v) <=> v = t)
    BY <2>3, <2>4 DEF Holds
  <2>6. LockAccounting'
    BY <2>2, <2>3, <2>4 DEF LockAccounting
  <2>7. SleepersAreQueued'
    <3>1. {waitingList[i].task : i \in 1 .. 1} = {h}
      OBVIOUS
    <3>2. PICK r : r = Tail(waitingList)
      OBVIOUS
    <3>3. /\ QueuedTasks(r) = QueuedTasks(waitingList)
                                \ {waitingList[i].task : i \in 1 .. 1}
          /\ QueuedOnce(r)
      <4>1. /\ 1 \in 1 .. Len(waitingList)
            /\ Len(r) = Len(waitingList) - 1
            /\ \A j \in 1 .. Len(waitingList) - 1 : r[j] = waitingList[1 + j]
        BY <2>1, <3>2
      <4>2. QueuedOnce(waitingList)
        BY DEF SemaphoreInv, SleepersAreQueued
      <4> QED BY <2>1, <4>1, <4>2, RestQueue
    <3> QED BY <1>3, <2>4, <3>1, <3>2, <3>3
            DEF GrantExclusive, SemaphoreInv, SleepersAreQueued
  <2>8. DeadHoldNothing'
    <3> SUFFICES ASSUME NEW v \in Tasks, v \notin alive'
                 PROVE  ~Holds(v)' /\ v \notin inLock
      BY DEF DeadHoldNothing
    <3>1. v \notin inLock
      BY <1>0 DEF SemaphoreInv, DeadHoldNothing
    <3> QED BY <2>2, <2>5, <3>1
  <2>9. GrantIsReal'
    <3> SUFFICES ASSUME NEW v \in inLock, v \notin taskWaiting'
                 PROVE  /\ t_WaitItem[v] = "sem" => Holds(v)'
                        /\ t_WaitItem[v] \in {"NOMEM", "BADITEM"} => ~Holds(v)'
      BY <2>4 DEF GrantIsReal
    <3>1. v \in Tasks /\ v # t
      BY <1>0 DEF SemaphoreInv, TypeOK
    <3>2. CASE v = h
      BY <2>2, <2>5, <3>1, <3>2 DEF SemaphoreInv
    <3>3. CASE v # h
      BY <1>0, <2>4, <2>5, <3>1, <3>3 DEF SemaphoreInv, GrantIsReal
    <3> QED BY <3>2, <3>3
  <2> QED BY <1>0, <2>2, <2>3, <2>4, <2>6, <2>7, <2>8, <2>9 DEF SemaphoreInv
<1>4. CASE \E n \in 1 .. Len(waitingList), noMem \in SUBSET Tasks :
              GrantShared(n, noMem)
  <2> PICK n \in 1 .. Len(waitingList), noMem \in SUBSET Tasks :
              GrantShared(n, noMem)
    BY <1>4
  <2> PICK h : h = waitingList[1].task
    OBVIOUS
  <2> PICK F : F = Followers(n)
    OBVIOUS
  <2> PICK rest : rest = SubSeq(waitingList, n + 1, Len(waitingList))
    OBVIOUS
  <2>1. /\ waitingList \in Seq(WaitNode) /\ Len(waitingList) \in Nat
        /\ Len(waitingList) >= 1 /\ n \in Nat /\ n >= 1
        /\ Len(rest) = Len(waitingList) - n
        /\ \A j \in 1 .. Len(waitingList) - n : rest[j] = waitingList[n + j]
    BY RestSeq DEF SemaphoreInv, TypeOK
  <2>2. /\ h \in taskWaiting /\ h \in Tasks /\ h \in inLock
        /\ h # t /\ h # NoTask
    BY <1>0, <2>1, WaitNodeTask
       DEF SemaphoreInv, SleepersAreQueued, QueuedTasks
  <2>3. /\ F \subseteq taskWaiting /\ F \subseteq inLock
        /\ h \notin F /\ t \notin F
    <3>1. \A x \in F : \E i \in 2 .. n : x = waitingList[i].task
      BY DEF Followers
    <3>2. ASSUME NEW i \in 2 .. n
          PROVE  waitingList[i].task \in taskWaiting /\ waitingList[i].task # h
      <4>1. i \in 1 .. Len(waitingList) /\ 1 \in 1 .. Len(waitingList) /\ i # 1
        BY <2>1
      <4>2. taskWaiting = QueuedTasks(waitingList) /\ QueuedOnce(waitingList)
        BY DEF SemaphoreInv, SleepersAreQueued
      <4>3. waitingList[i].task \in taskWaiting
        BY <4>1, <4>2 DEF QueuedTasks
      <4>4. waitingList[i].task # waitingList[1].task
        BY <4>1, <4>2 DEF QueuedOnce
      <4> QED BY <4>3, <4>4
    <3>3. F \subseteq taskWaiting /\ h \notin F
      BY <3>1, <3>2
    <3>4. taskWaiting \subseteq inLock /\ t \notin taskWaiting
      BY <1>0 DEF SemaphoreInv
    <3> QED BY <3>3, <3>4
  <2>4. \A v \in Tasks : sl_NestCnt[v] = 0
    <3>1. Secondaries = {}
      BY DEF GrantShared
    <3>2. sl_NestCnt \in [Tasks -> Nat] /\ \A v \in Tasks \ slNodes : sl_NestCnt[v] = 0
      BY DEF SemaphoreInv, LockAccounting, TypeOK
    <3> QED BY ONLY <3>1, <3>2 DEF Secondaries
  <2>5. /\ sem_Locker' = h /\ sem_NestCnt' = 1 /\ sharedRead' = TRUE
        /\ waitingList' = rest
        /\ slNodes' = slNodes \cup (F \ noMem)
        /\ \A v \in Tasks : sl_NestCnt'[v] = IF v \in F \ noMem THEN 1 ELSE 0
        /\ taskWaiting' = taskWaiting \ ({h} \cup F)
        /\ \A v \in Tasks : t_WaitItem'[v] = IF v \in noMem THEN "NOMEM"
                                             ELSE t_WaitItem[v]
        /\ noMem \subseteq F
    BY <2>4 DEF GrantShared, NeedsNode
  <2>6. \A v \in Tasks : /\ Holds(v)' <=> (v = h \/ v \in F \ noMem)
                         /\ Holds(v) <=> v = t
    BY <2>4, <2>5 DEF Holds
  <2>7. SleepersAreQueued'
    <3>1. {waitingList[i].task : i \in 1 .. n} = {h} \cup F
      BY <2>1 DEF Followers
    <3>2. /\ QueuedTasks(rest) = QueuedTasks(waitingList) \ ({h} \cup F)
          /\ QueuedOnce(rest)
      <4>1. QueuedOnce(waitingList)
        BY DEF SemaphoreInv, SleepersAreQueued
      <4>2. /\ QueuedTasks(rest) = QueuedTasks(waitingList)
                                     \ {waitingList[i].task : i \in 1 .. n}
            /\ QueuedOnce(rest)
        BY <2>1, <4>1, RestQueue
      <4> QED BY <3>1, <4>2
    <3> QED BY <2>5, <3>2 DEF SemaphoreInv, SleepersAreQueued
  <2>8. LockAccounting'
    BY <2>2, <2>3, <2>5 DEF LockAccounting, SemaphoreInv
  <2>9. DeadHoldNothing'
    <3> SUFFICES ASSUME NEW v \in Tasks, v \notin alive'
                 PROVE  ~Holds(v)' /\ v \notin inLock
      BY DEF DeadHoldNothing
    <3>1. v \notin inLock
      BY <1>0 DEF SemaphoreInv, DeadHoldNothing
    <3> QED BY <2>2, <2>3, <2>6, <3>1
  <2>10. GrantIsReal'
    <3> SUFFICES ASSUME NEW v \in inLock, v \notin taskWaiting'
                 PROVE  /\ t_WaitItem'[v] = "sem" => Holds(v)'
                        /\ t_WaitItem'[v] \in {"NOMEM", "BADITEM"} => ~Holds(v)'
      BY DEF GrantIsReal
    <3>1. v \in Tasks /\ v # t
      BY <1>0 DEF SemaphoreInv, TypeOK
    <3>2. CASE v \in taskWaiting
      BY <2>3, <2>5, <2>6, <3>1, <3>2 DEF SemaphoreInv
    <3>3. CASE v \notin taskWaiting
      BY <1>0, <2>2, <2>3, <2>5, <2>6, <3>1, <3>3 DEF SemaphoreInv, GrantIsReal
    <3> QED BY <3>2, <3>3
  <2>11. \A v \in taskWaiting' : v \in inLock /\ t_WaitItem'[v] = "sem"
    BY <2>5 DEF SemaphoreInv, TypeOK
  <2> QED BY <1>0, <2>2, <2>5, <2>7, <2>8, <2>9, <2>10, <2>11 DEF SemaphoreInv
<1> QED BY <1>1, <1>2, <1>3, <1>4 DEF Handover

(* Deleting the semaphore, by a call or because its owner t dies. *)
LEMMA DestroyInv ==
    ASSUME SemaphoreInv, TypeOK', NEW t \in Tasks, CanCall(t), Destroy,
           inLock' = inLock, alive' = alive \/ alive' = alive \ {t}
    PROVE  SemaphoreInv'
<1> USE SemaphoreAssumption
<1>1. \A v \in Tasks : ~Holds(v)'
  BY DEF Destroy, Holds
<1>2. LockAccounting'
  BY DEF Destroy, LockAccounting
<1>3. SleepersAreQueued'
  BY DEF Destroy, SleepersAreQueued, QueuedTasks, QueuedOnce
<1>4. DeadHoldNothing'
  BY <1>1 DEF SemaphoreInv, DeadHoldNothing, CanCall
<1>5. GrantIsReal'
  BY <1>1 DEF Destroy, GrantIsReal, SemaphoreInv, TypeOK
<1> QED BY <1>2, <1>3, <1>4, <1>5 DEF Destroy, SemaphoreInv

(* A step that leaves the tasks and the waiting list alone: what is left to *)
(* show is the accounting, and that no live task lost or won a lock it      *)
(* should not have.                                                         *)
LEMMA LockStepInv ==
    ASSUME SemaphoreInv, TypeOK', NEW t \in Tasks, CanCall(t),
           UNCHANGED <<waitingList, taskVars>>,
           LockAccounting',
           ~sharedRead' => \A u \in Tasks : sl_NestCnt'[u] = 0,
           item' # "live" => sem_Locker' = NoTask,
           item' = item \/ (item = "none" /\ item' = "live"),
           \A v \in Tasks : v # t => (Holds(v)' <=> Holds(v))
    PROVE  SemaphoreInv'
<1>1. SleepersAreQueued'
  BY DEF taskVars, SemaphoreInv, SleepersAreQueued, QueuedTasks, QueuedOnce
<1>2. DeadHoldNothing'
  BY DEF taskVars, SemaphoreInv, DeadHoldNothing, CanCall
<1>3. GrantIsReal'
  BY DEF taskVars, SemaphoreInv, GrantIsReal, CanCall, TypeOK
<1> QED BY <1>1, <1>2, <1>3 DEF taskVars, SemaphoreInv

(* One step of the semaphore keeps the invariant. *)
LEMMA InvStep ==
    ASSUME SemaphoreInv, [Next]_vars
    PROVE  SemaphoreInv'
<1> USE SemaphoreAssumption
<1>0. TypeOK /\ TypeOK'
  BY TypeStep DEF SemaphoreInv
<1>1. CASE UNCHANGED vars
  <2>1. \A v \in Tasks : Holds(v)' <=> Holds(v)
    BY <1>1 DEF vars, semVars, Holds
  <2>2. LockAccounting'
    BY <1>1 DEF vars, semVars, SemaphoreInv, LockAccounting
  <2>3. SleepersAreQueued'
    BY <1>1 DEF vars, semVars, taskVars, SemaphoreInv, SleepersAreQueued,
                QueuedTasks, QueuedOnce
  <2>4. DeadHoldNothing'
    BY <1>1, <2>1 DEF vars, taskVars, SemaphoreInv, DeadHoldNothing
  <2>5. GrantIsReal'
    BY <1>0, <1>1, <2>1 DEF vars, semVars, taskVars, SemaphoreInv, GrantIsReal,
                            TypeOK
  <2> QED BY <1>0, <1>1, <2>2, <2>3, <2>4, <2>5
          DEF vars, semVars, taskVars, SemaphoreInv
<1>2. CASE Next
  <2> PICK t \in Tasks :
        \/ CreateSemaphore(t) \/ LockSemaphore(t) \/ LockWoken(t)
        \/ UnlockSemaphore(t)
        \/ \E newOwner \in Tasks : SetSemaphoreOwner(t, newOwner)
        \/ DeleteSemaphore(t) \/ Murder(t) \/ Die(t) \/ Spawn(t)
    BY <1>2 DEF Next
  <2> t # NoTask
    OBVIOUS
  <2>1. CASE CreateSemaphore(t)
    <3>1. LockAccounting'
      BY <2>1 DEF CreateSemaphore, SemaphoreInv, LockAccounting
    <3>2. \A v \in Tasks : Holds(v)' <=> Holds(v)
      BY <2>1 DEF CreateSemaphore, Holds
    <3> QED BY <1>0, <2>1, <3>1, <3>2, LockStepInv
            DEF CreateSemaphore, SemaphoreInv
  <2>2. CASE LockSemaphore(t)
    <3> PICK shared \in BOOLEAN :
          \/ LockFree(t, shared) \/ LockAgain(t, shared)
          \/ shared /\ LockShared(t)
          \/ LockRefused(t, shared) \/ LockWait(t, shared)
      BY <2>2 DEF LockSemaphore
    <3>1. CASE LockFree(t, shared)
      <4>1. LockAccounting'
        BY <3>1 DEF LockFree, SemaphoreInv, LockAccounting
      <4>2. \A v \in Tasks : v # t => (Holds(v)' <=> Holds(v))
        BY <3>1 DEF LockFree, Holds
      <4>3. \A u \in Tasks : sl_NestCnt'[u] = 0
        BY <3>1 DEF LockFree, SemaphoreInv, LockAccounting
      <4> QED BY <1>0, <3>1, <4>1, <4>2, <4>3, LockStepInv
              DEF LockFree, SemaphoreInv
    <3>2. CASE LockAgain(t, shared)
      <4>1. LockAccounting'
        BY <1>0, <3>2 DEF LockAgain, SemaphoreInv, LockAccounting, TypeOK
      <4>2. \A v \in Tasks : Holds(v)' <=> Holds(v)
        BY <3>2 DEF LockAgain, Holds
      <4> QED BY <1>0, <3>2, <4>1, <4>2, LockStepInv
              DEF LockAgain, SemaphoreInv
    <3>3. CASE LockShared(t)
      <4>1. LockAccounting'
        BY <1>0, <3>3 DEF LockShared, SemaphoreInv, LockAccounting, TypeOK
      <4>2. \A v \in Tasks : v # t => (Holds(v)' <=> Holds(v))
        BY <1>0, <3>3 DEF LockShared, Holds, TypeOK
      <4> QED BY <1>0, <3>3, <4>1, <4>2, LockStepInv
              DEF LockShared, SemaphoreInv
    <3>4. CASE LockRefused(t, shared)
      <4>1. LockAccounting'
        BY <1>0, <3>4
           DEF LockRefused, NodesAfterTry, SemaphoreInv, LockAccounting, TypeOK
      <4>2. \A v \in Tasks : Holds(v)' <=> Holds(v)
        BY <3>4 DEF LockRefused, Holds
      <4> QED BY <1>0, <3>4, <4>1, <4>2, LockStepInv
              DEF LockRefused, MustWait, SemaphoreInv
    <3>5. CASE LockWait(t, shared)
      <4>1. /\ t \in alive /\ t \notin inLock /\ t \notin taskWaiting
            /\ sem_Locker # NoTask /\ item = "live"
        BY <3>5 DEF LockWait, MustWait, CanCall, SemaphoreInv
      <4>2. LockAccounting'
        BY <1>0, <3>5, <4>1
           DEF LockWait, NodesAfterTry, SemaphoreInv, LockAccounting, TypeOK
      <4>3. \A v \in Tasks : Holds(v)' <=> Holds(v)
        BY <3>5 DEF LockWait, Holds
      <4>4. SleepersAreQueued'
        <5> PICK x : x = [task |-> t, shared |-> shared]
          OBVIOUS
        <5>1. x \in WaitNode /\ x.task = t
          BY DEF WaitNode
        <5>2. /\ QueuedOnce(waitingList) /\ waitingList \in Seq(WaitNode)
              /\ taskWaiting = QueuedTasks(waitingList)
          BY <1>0 DEF SemaphoreInv, SleepersAreQueued, TypeOK
        <5>3. /\ QueuedOnce(Append(waitingList, x))
              /\ QueuedTasks(Append(waitingList, x))
                   = QueuedTasks(waitingList) \cup {t}
          BY <4>1, <5>1, <5>2, AppendQueue
        <5> QED BY <3>5, <5>2, <5>3 DEF LockWait, SleepersAreQueued
      <4>5. DeadHoldNothing'
        BY <3>5, <4>1, <4>3 DEF LockWait, SemaphoreInv, DeadHoldNothing
      <4>6. GrantIsReal'
        BY <1>0, <3>5, <4>1, <4>3
           DEF LockWait, SemaphoreInv, GrantIsReal, TypeOK
      <4>7. \A v \in taskWaiting' : v \in inLock' /\ t_WaitItem'[v] = "sem"
        BY <1>0, <3>5 DEF LockWait, SemaphoreInv, TypeOK
      <4> QED BY <1>0, <3>5, <4>1, <4>2, <4>4, <4>5, <4>6, <4>7
              DEF LockWait, SemaphoreInv
    <3> QED BY <3>1, <3>2, <3>3, <3>4, <3>5
  <2>3. CASE LockWoken(t)
    <3>1. \A v \in Tasks : Holds(v)' <=> Holds(v)
      BY <2>3 DEF LockWoken, semVars, Holds
    <3>2. LockAccounting'
      BY <2>3 DEF LockWoken, semVars, SemaphoreInv, LockAccounting
    <3>3. SleepersAreQueued'
      BY <2>3 DEF LockWoken, semVars, SemaphoreInv, SleepersAreQueued,
                  QueuedTasks, QueuedOnce
    <3>4. DeadHoldNothing'
      BY <2>3, <3>1 DEF LockWoken, SemaphoreInv, DeadHoldNothing
    <3>5. GrantIsReal'
      BY <1>0, <2>3, <3>1
         DEF LockWoken, semVars, SemaphoreInv, GrantIsReal, TypeOK
    <3> QED BY <1>0, <2>3, <3>2, <3>3, <3>4, <3>5
            DEF LockWoken, semVars, SemaphoreInv, TypeOK
  <2>4. CASE UnlockSemaphore(t)
    <3>1. CASE UnlockNested(t)
      <4>1. LockAccounting'
        BY <1>0, <3>1 DEF UnlockNested, SemaphoreInv, LockAccounting, TypeOK
      <4>2. \A v \in Tasks : Holds(v)' <=> Holds(v)
        BY <3>1 DEF UnlockNested, Holds
      <4> QED BY <1>0, <3>1, <4>1, <4>2, LockStepInv
              DEF UnlockNested, SemaphoreInv
    <3>2. CASE UnlockLast(t)
      BY <1>0, <3>2, HandoverInv DEF UnlockLast
    <3>3. CASE UnlockSecondary(t)
      <4>1. LockAccounting'
        BY <1>0, <3>3 DEF UnlockSecondary, SemaphoreInv, LockAccounting, TypeOK
      <4>2. \A v \in Tasks : v # t => (Holds(v)' <=> Holds(v))
        BY <1>0, <3>3 DEF UnlockSecondary, Holds, TypeOK
      <4>3. ~sharedRead' => \A u \in Tasks : sl_NestCnt'[u] = 0
        BY <1>0, <3>3 DEF UnlockSecondary, SemaphoreInv, TypeOK
      <4> QED BY <1>0, <3>3, <4>1, <4>2, <4>3, LockStepInv
              DEF UnlockSecondary, SemaphoreInv
    <3> QED BY <2>4, <3>1, <3>2, <3>3 DEF UnlockSemaphore
  <2>5. CASE \E newOwner \in Tasks : SetSemaphoreOwner(t, newOwner)
    <3>1. LockAccounting'
      BY <2>5 DEF SetSemaphoreOwner, SemaphoreInv, LockAccounting
    <3>2. \A v \in Tasks : Holds(v)' <=> Holds(v)
      BY <2>5 DEF SetSemaphoreOwner, Holds
    <3> QED BY <1>0, <2>5, <3>1, <3>2, LockStepInv
            DEF SetSemaphoreOwner, SemaphoreInv
  <2>6. CASE DeleteSemaphore(t)
    BY <1>0, <2>6, DestroyInv DEF DeleteSemaphore
  <2>7. CASE Murder(t)
    <3>1. \A v \in Tasks : Holds(v)' <=> Holds(v)
      BY <2>7 DEF Murder, Holds
    <3>2. SleepersAreQueued'
      <4>1. /\ QueuedOnce(waitingList) /\ waitingList \in Seq(WaitNode)
            /\ taskWaiting = QueuedTasks(waitingList)
        BY <1>0 DEF SemaphoreInv, SleepersAreQueued, TypeOK
      <4>2. CASE t \in taskWaiting
        <5> PICK i \in 1 .. Len(waitingList) :
              /\ waitingList[i].task = t
              /\ waitingList' = WithoutAt(waitingList, i)
          BY <2>7, <4>2 DEF Murder
        <5> QED BY <2>7, <4>1, WithoutQueue DEF Murder, SleepersAreQueued
      <4>3. CASE t \notin taskWaiting
        <5>1. waitingList' = waitingList /\ taskWaiting' = taskWaiting
          BY <2>7, <4>3 DEF Murder
        <5> QED BY <4>1, <5>1 DEF SleepersAreQueued
      <4> QED BY <4>2, <4>3
    <3>3. LockAccounting'
      <4>1. waitingList = << >> => waitingList' = << >>
        <5> SUFFICES ASSUME waitingList = << >> PROVE waitingList' = << >>
          OBVIOUS
        <5>1. t \notin taskWaiting
          BY DEF SemaphoreInv, SleepersAreQueued, QueuedTasks
        <5> QED BY <2>7, <5>1 DEF Murder
      <4> QED BY <2>7, <4>1 DEF Murder, SemaphoreInv, LockAccounting
    <3>4. DeadHoldNothing'
      BY <2>7, <3>1 DEF Murder, SemaphoreInv, DeadHoldNothing
    <3>5. GrantIsReal'
      BY <1>0, <2>7, <3>1 DEF Murder, SemaphoreInv, GrantIsReal, TypeOK
    <3>6. \A v \in taskWaiting' : v \in inLock' /\ t_WaitItem'[v] = "sem"
      BY <1>0, <2>7 DEF Murder, SemaphoreInv, TypeOK
    <3> QED BY <1>0, <2>7, <3>2, <3>3, <3>4, <3>5, <3>6
            DEF Murder, SemaphoreInv
  <2>8. CASE Die(t)
    <3>1. CASE Destroy
      BY <1>0, <2>8, <3>1, DestroyInv DEF Die
    <3>2. CASE DiePrimary(t)
      BY <1>0, <2>8, <3>2, HandoverInv DEF Die, DiePrimary
    <3>3. CASE DieSecondary(t)
      <4>0. t \notin inLock /\ t \notin taskWaiting
        BY <2>8 DEF Die, CanCall, SemaphoreInv
      <4>1. LockAccounting'
        BY <1>0, <3>3 DEF DieSecondary, SemaphoreInv, LockAccounting, TypeOK
      <4>2. \A v \in Tasks : Holds(v)' <=> (Holds(v) /\ v # t)
        BY <1>0, <3>3 DEF DieSecondary, Holds, TypeOK
      <4>3. SleepersAreQueued'
        BY <3>3 DEF DieSecondary, SemaphoreInv, SleepersAreQueued, QueuedTasks,
                    QueuedOnce
      <4>4. DeadHoldNothing'
        BY <2>8, <4>0, <4>2 DEF Die, SemaphoreInv, DeadHoldNothing
      <4>5. GrantIsReal'
        BY <1>0, <2>8, <3>3, <4>0, <4>2
           DEF Die, DieSecondary, SemaphoreInv, GrantIsReal, TypeOK
      <4>6. ~sharedRead' => \A u \in Tasks : sl_NestCnt'[u] = 0
        BY <1>0, <3>3 DEF DieSecondary, SemaphoreInv, TypeOK
      <4> QED BY <1>0, <2>8, <3>3, <4>1, <4>3, <4>4, <4>5, <4>6
              DEF Die, DieSecondary, SemaphoreInv
    <3> QED BY <2>8, <3>1, <3>2, <3>3 DEF Die
  <2>9. CASE Spawn(t)
    <3>0. t \notin inLock /\ t \notin taskWaiting
      BY <2>9 DEF Spawn, SemaphoreInv, DeadHoldNothing
    <3>1. \A v \in Tasks : Holds(v)' <=> Holds(v)
      BY <2>9 DEF Spawn, semVars, Holds
    <3>2. LockAccounting'
      BY <2>9 DEF Spawn, semVars, SemaphoreInv, LockAccounting
    <3>3. SleepersAreQueued'
      BY <2>9 DEF Spawn, semVars, SemaphoreInv, SleepersAreQueued, QueuedTasks,
                  QueuedOnce
    <3>4. DeadHoldNothing'
      BY <2>9, <3>1 DEF Spawn, SemaphoreInv, DeadHoldNothing
    <3>5. GrantIsReal'
      BY <1>0, <2>9, <3>0, <3>1
         DEF Spawn, semVars, SemaphoreInv, GrantIsReal, TypeOK
    <3>6. \A v \in taskWaiting' : v \in inLock' /\ t_WaitItem'[v] = "sem"
      BY <1>0, <2>9, <3>0 DEF Spawn, SemaphoreInv, TypeOK
    <3> QED BY <1>0, <2>9, <3>2, <3>3, <3>4, <3>5, <3>6
            DEF Spawn, semVars, SemaphoreInv
  <2> QED BY <2>1, <2>2, <2>3, <2>4, <2>5, <2>6, <2>7, <2>8, <2>9
<1> QED BY <1>1, <1>2

(* SemaphoreInv holds in every reachable state. *)
THEOREM Invariance == Spec => []SemaphoreInv
<1>1. Init => SemaphoreInv
  <2> SUFFICES ASSUME Init PROVE SemaphoreInv
    OBVIOUS
  <2>1. TypeOK
    BY InitType
  <2>2. \A u \in Tasks : sl_NestCnt[u] = 0
    BY DEF Init
  <2>3. LockAccounting
    BY <2>2 DEF Init, LockAccounting
  <2>4. SleepersAreQueued
    BY DEF Init, SleepersAreQueued, QueuedTasks, QueuedOnce
  <2>5. DeadHoldNothing /\ GrantIsReal
    BY DEF Init, DeadHoldNothing, GrantIsReal
  <2> QED BY <2>1, <2>2, <2>3, <2>4, <2>5 DEF Init, SemaphoreInv
<1>2. SemaphoreInv /\ [Next]_vars => SemaphoreInv'
  BY InvStep
<1> QED BY <1>1, <1>2, PTL DEF Spec

(* Two tasks never hold one semaphore together unless it is in shared mode, *)
(* for any number of tasks and any nesting.                                 *)
THEOREM MutualExclusionHolds == Spec => []MutualExclusion
<1>1. SemaphoreInv => MutualExclusion
  BY DEF SemaphoreInv, MutualExclusion, Holds, TypeOK
<1> QED BY <1>1, Invariance, PTL

(* The sleepers of LockSemaphore are exactly the tasks on the waiting list: *)
(* no unlock, deletion or kill can miss one.                                *)
THEOREM NoSleeperIsLost == Spec => []SleepersAreQueued
<1>1. SemaphoreInv => SleepersAreQueued
  BY DEF SemaphoreInv
<1> QED BY <1>1, Invariance, PTL

(* LockSemaphore never reports a lock that the caller does not have, nor    *)
(* gives a lock to a caller that it tells NOMEM or BADITEM.                 *)
THEOREM GrantsAreReal == Spec => []GrantIsReal
<1>1. SemaphoreInv => GrantIsReal
  BY DEF SemaphoreInv
<1> QED BY <1>1, Invariance, PTL

(* A dead task holds no lock and waits for none. *)
THEOREM DeadTasksHoldNothing == Spec => []DeadHoldNothing
<1>1. SemaphoreInv => DeadHoldNothing
  BY DEF SemaphoreInv
<1> QED BY <1>1, Invariance, PTL

(* The flag, queue and node bookkeeping that LockSemaphore relies on. *)
THEOREM AccountingHolds == Spec => []LockAccounting
<1>1. SemaphoreInv => LockAccounting
  BY DEF SemaphoreInv
<1> QED BY <1>1, Invariance, PTL

=============================================================================
