---------------------------- MODULE TaskLifeProofs ----------------------------
(***************************************************************************)
(* Proofs about TaskLife, for any family of tasks and any requests.        *)
(*                                                                         *)
(* ShapeInv says what the calls that tasks are in have left behind, and    *)
(* holds whatever programs do.  DeathInv, that tasks die in order, needs   *)
(* Orderly; WakeInv, that whoever sleeps is known to its waker, needs      *)
(* Careful; both need that a task is killed only by its parent.            *)
(***************************************************************************)
EXTENDS TaskLife, TLAPS

\* A task is killed only by the task that created it.
KilledByParent == \A t \in Tasks : MayKill[t] \subseteq {Parent[t]}

-----------------------------------------------------------------------------
(* The invariants.                                                         *)

Living(t) == life[t] \in {"alive", "doomed", "dying"}
Going(t)  == life[t] \in {"doomed", "dying"}

\* The calls in which a task is with a request; with one of its own.
WithReq == {"doio", "waitio", "deleting", "scanning"}
WithOwn == {"doio", "waitio", "deleting", "checked", "waitsig"}

\* What the call of t is about, and what it has set up for its return.
CallOf(t) ==
    /\ at[t] \in WithReq => arg[t] \in Reqs
    /\ at[t] \in {"checked", "waitsig"} => arg[t] \in Reqs \cup Tasks
    /\ at[t] = "killing" => arg[t] \in Tasks
    /\ t \in asleep => at[t] \in {"waitio", "waitsig", "deleting", "scanning", "killing"}
    /\ waitItem[t] # NoReq => at[t] = "waitio"
    /\ t \in asleep /\ at[t] = "waitio" => waitItem[t] = arg[t]
    /\ at[t] = "waitsig" => waitBits[t] = {SignalOf(arg[t]), "ABORT"}
    /\ at[t] # "waitsig" => waitBits[t] = {}
CallShape == \A t \in Tasks : CallOf(t)

\* How far the life of t is.
LifeOf(t) ==
    /\ at[t] = "dying" => life[t] = "dying"
    /\ life[t] = "dying" => at[t] \in {"dying", "killing", "deleting"}
    /\ life[t] \in {"unborn", "dead"} => at[t] = "user"
    /\ todo[t] # {} => life[t] = "dying"
    /\ t \in lastPass => life[t] \in {"dying", "dead"}
    /\ \A c \in todo[t] : Parent[c] = t /\ life[c] # "unborn"
    /\ at[t] = "killing" => life[arg[t]] \in {"doomed", "dying", "dead"}
    /\ life[t] \in {"unborn", "alive"} => killer[t] = NoTask
LifeShape == \A t \in Tasks : LifeOf(t)

\* Requests and their owners.
OwnerOf(r) ==
    /\ owner[r] # NoTask => Living(owner[r]) /\ owner[r] \notin lastPass
    /\ r \in busy => owner[r] # NoTask
    /\ sigItem[r] # NoTask =>
           at[sigItem[r]] \in {"deleting", "scanning"} /\ arg[sigItem[r]] = r
OwnerShape ==
    /\ \A r \in Reqs : OwnerOf(r)
    /\ \A t \in Tasks : at[t] \in WithOwn /\ arg[t] \in Reqs => owner[arg[t]] = t

\* A client waits for the signal of a child or of a request of its own, and has the
\* signal once that is over.
SignalShape ==
    \A t \in Tasks :
        /\ at[t] \in {"checked", "waitsig"} /\ arg[t] \in Tasks => Parent[arg[t]] = t
        /\ at[t] = "checked" /\ Over(arg[t]) => SignalOf(arg[t]) \in sigBits[t]

ShapeInv == TypeOK /\ CallShape /\ LifeShape /\ OwnerShape /\ SignalShape

\* Children die before their parents: ...
ParentsLive == \A t \in Tasks \ {Root} : Living(t) => Living(Parent[t])
\* ... who is dying still comes to every living child, or waits for its death, ...
ChildrenSeen ==
    \A t, c \in Tasks : life[t] = "dying" /\ Parent[c] = t /\ Living(c) =>
        c \in todo[t] \/ (at[t] = "killing" /\ arg[t] = c)
\* ... and nobody below a task that was killed, or will be, is going already.
BelowDoomed ==
    \A t, u \in Tasks : life[t] = "doomed" /\ t \in Line(u) /\ Going(u) => u = t
BelowTodo ==
    \A t, c, u \in Tasks : c \in todo[t] /\ c \in Line(u) => ~Going(u)

\* The victim knows who waits for its death ...
VictimKnowsKiller ==
    \A t \in Tasks : at[t] = "killing" => Parent[arg[t]] = t /\ killer[arg[t]] = t
\* ... and that one sleeps until then.
KillersWait ==
    \A v \in Tasks : Going(v) /\ killer[v] # NoTask =>
        at[killer[v]] = "killing" /\ arg[killer[v]] = v /\ killer[v] \in asleep

DeathInv ==
    /\ ParentsLive /\ ChildrenSeen /\ BelowDoomed /\ BelowTodo
    /\ VictimKnowsKiller /\ KillersWait

\* Whoever aborts a request is the one that the request knows, and a request that
\* another task aborts does not go.
AbortersKnown ==
    /\ \A t \in Tasks : at[t] \in {"deleting", "scanning"} => sigItem[arg[t]] = t
    /\ \A r \in Reqs : sigItem[r] \notin {NoTask, owner[r]} =>
           owner[r] # NoTask /\ \A u \in Line(owner[r]) : life[u] = "alive"

\* What a sleeper waits for is still to come.
SleepersWait ==
    \A t \in asleep :
        /\ at[t] \in {"waitio", "deleting", "scanning"} => arg[t] \in busy
        /\ at[t] = "waitsig" => ~Over(arg[t])
        /\ at[t] = "killing" => life[arg[t]] # "dead"

WakeInv == VictimKnowsKiller /\ AbortersKnown /\ SleepersWait

-----------------------------------------------------------------------------
(* A completion wakes the owner inside WaitIO or signals it, and wakes the  *)
(* task that aborts the request.                                            *)
LEMMA CompleteEffect ==
    ASSUME TypeOK, NEW r \in Reqs, internalCompleteIO(r)
    PROVE  /\ done' = done \cup {r} /\ busy' = busy \ {r} /\ aborted' = aborted \ {r}
           /\ waitBits' = waitBits
           /\ waitItem' \in [Tasks -> Reqs \cup {NoReq}]
           /\ sigBits' \in [Tasks -> SUBSET Signals]
           /\ asleep' \subseteq asleep /\ sigItem[r] \notin asleep'
           /\ \A t \in Tasks : /\ sigBits[t] \subseteq sigBits'[t]
                               /\ waitItem'[t] \in {waitItem[t], NoReq}
                               /\ t # owner[r] => waitItem'[t] = waitItem[t]
                               /\ t \in asleep' => waitItem'[t] = waitItem[t]
           /\ \A t \in asleep \ asleep' :
                  t = sigItem[r] \/ (t = owner[r] /\ (waitItem[t] = r \/ "IODONE" \in waitBits[t]))
           /\ owner[r] \in Tasks =>
                  IF waitItem[owner[r]] = r THEN owner[r] \notin asleep'
                  ELSE /\ "IODONE" \in sigBits'[owner[r]]
                       /\ "IODONE" \in waitBits[owner[r]] => owner[r] \notin asleep'
<1> DEFINE t == owner[r]
<1>1. CASE waitItem[t] = r
  <2>1. /\ done' = done \cup {r} /\ busy' = busy \ {r} /\ aborted' = aborted \ {r}
        /\ waitBits' = waitBits /\ sigBits' = sigBits
        /\ asleep' = asleep \ {sigItem[r], t}
        /\ waitItem' = [waitItem EXCEPT ![t] = NoReq]
    BY <1>1 DEF internalCompleteIO
  <2>2. waitItem' \in [Tasks -> Reqs \cup {NoReq}] /\ sigBits' \in [Tasks -> SUBSET Signals]
    BY <2>1 DEF TypeOK
  <2>3. \A x \in Tasks : waitItem'[x] = IF x = t THEN NoReq ELSE waitItem[x]
    BY <2>1 DEF TypeOK
  <2> QED BY <1>1, <2>1, <2>2, <2>3
<1>2. CASE waitItem[t] # r
  <2>1. /\ done' = done \cup {r} /\ busy' = busy \ {r} /\ aborted' = aborted \ {r}
        /\ waitBits' = waitBits /\ waitItem' = waitItem
        /\ asleep' = asleep \ ({sigItem[r]} \cup Woken(t, "IODONE"))
        /\ sigBits' = [sigBits EXCEPT ![t] = @ \cup {"IODONE"}]
    BY <1>2 DEF internalCompleteIO
  <2>2. waitItem' \in [Tasks -> Reqs \cup {NoReq}] /\ sigBits' \in [Tasks -> SUBSET Signals]
    BY <2>1 DEF TypeOK, Signals
  <2>3. \A x \in Tasks : sigBits'[x] = IF x = t THEN sigBits[x] \cup {"IODONE"} ELSE sigBits[x]
    BY <2>1 DEF TypeOK
  <2>4. /\ Woken(t, "IODONE") \subseteq {t}
        /\ "IODONE" \in waitBits[t] => Woken(t, "IODONE") = {t}
        /\ "IODONE" \notin waitBits[t] => Woken(t, "IODONE") = {}
    BY DEF Woken
  <2> QED BY <1>2, <2>1, <2>2, <2>3, <2>4
<1> QED BY <1>1, <1>2

(* Types: every action keeps every variable in its set.                      *)
LEMMA TypeStep ==
    ASSUME TypeOK, CallShape, [Next]_vars
    PROVE  TypeOK'
<1>1. ASSUME NEW t \in Tasks, NEW c \in Tasks, CreateTask(t, c) PROVE TypeOK'
  BY <1>1 DEF CreateTask, TypeOK, wakeVars, reqVars
<1>2. ASSUME NEW t \in Tasks, NEW c \in Tasks, internalKill(t, c) PROVE TypeOK'
  BY <1>2 DEF internalKill, Murder, Goes, TypeOK, Places, Signals, reqVars
<1>3. ASSUME NEW t \in Tasks, NEW x \in Reqs \cup Tasks, CheckIO(t, x) PROVE TypeOK'
  BY <1>3 DEF CheckIO, Goes, TypeOK, Places, wakeVars, reqVars
<1>4. ASSUME NEW t \in Tasks, internalWait(t) PROVE TypeOK'
  <2>0. /\ Runs(t) /\ life[t] = "alive" /\ at[t] = "checked"
        /\ UNCHANGED <<life, killer, todo, lastPass, waitItem, reqVars>>
    BY <1>4 DEF internalWait
  <2>1. CASE /\ {SignalOf(arg[t]), "ABORT"} \cap sigBits[t] # {}
             /\ sigBits' = [sigBits EXCEPT ![t] = @ \ ({SignalOf(arg[t]), "ABORT"} \cap @)]
             /\ Goes(t, "user", NoReq) /\ UNCHANGED <<asleep, waitBits>>
    BY <2>0, <2>1 DEF Goes, TypeOK, Places, reqVars
  <2>2. CASE /\ {SignalOf(arg[t]), "ABORT"} \cap sigBits[t] = {}
             /\ asleep' = asleep \cup {t} /\ waitBits' = [waitBits EXCEPT ![t] = {SignalOf(arg[t]), "ABORT"}]
             /\ Goes(t, "waitsig", arg[t]) /\ UNCHANGED sigBits
    BY <2>0, <2>2 DEF Goes, TypeOK, Places, Signals, reqVars, SignalOf
  <2> QED BY <1>4, <2>1, <2>2 DEF internalWait
<1>5. ASSUME NEW t \in Tasks, exit(t) PROVE TypeOK'
  BY <1>5 DEF exit, Suicide, Goes, Children, TypeOK, Places, wakeVars, reqVars
<1>6. ASSUME NEW t \in Tasks, NEW r \in Reqs, internalCreateIOReq(t, r) PROVE TypeOK'
  BY <1>6 DEF internalCreateIOReq, TypeOK, taskVars, wakeVars
<1>7. ASSUME NEW t \in Tasks, NEW r \in Reqs, SendIO(t, r) PROVE TypeOK'
  <2>0. /\ User(t) /\ owner[r] = t /\ r \in done /\ LeftAlone(r)
        /\ UNCHANGED <<taskVars, waitItem, waitBits, owner, aborted, sigItem>>
    BY <1>7 DEF SendIO
  <2>1. CASE internalSignal(t, "IODONE") /\ UNCHANGED <<done, busy>>
    BY <2>0, <2>1 DEF internalSignal, TypeOK, Signals, taskVars
  <2>2. CASE /\ done' = done \ {r} /\ busy' = busy \cup {r}
             /\ UNCHANGED <<asleep, sigBits>>
    BY <2>0, <2>2 DEF TypeOK, taskVars
  <2> QED BY <1>7, <2>1, <2>2 DEF SendIO
<1>8. ASSUME NEW t \in Tasks, NEW r \in Reqs, DoIO(t, r) PROVE TypeOK'
  BY <1>8 DEF DoIO, Goes, TypeOK, Places, wakeVars
<1>9. ASSUME NEW t \in Tasks, NEW r \in Reqs, WaitIO(t, r) PROVE TypeOK'
  <2>0. /\ User(t) /\ owner[r] = t
        /\ UNCHANGED <<life, killer, todo, lastPass, sigBits, waitBits, reqVars>>
    BY <1>9 DEF WaitIO, internalWaitIO
  <2>1. CASE r \in done /\ Returns(t) /\ UNCHANGED <<asleep, waitItem>>
    BY <2>0, <2>1 DEF User, Returns, Goes, TypeOK, reqVars
  <2>2. CASE /\ r \notin done /\ asleep' = asleep \cup {t}
             /\ waitItem' = [waitItem EXCEPT ![t] = r] /\ Goes(t, "waitio", r)
    BY <2>0, <2>2 DEF Goes, TypeOK, Places, reqVars
  <2> QED BY <1>9, <2>1, <2>2 DEF WaitIO, internalWaitIO
<1>10. ASSUME NEW t \in Tasks, NEW r \in Reqs, AbortIO(t, r) PROVE TypeOK'
  <2>0. /\ User(t) /\ owner[r] = t /\ r \notin done /\ UNCHANGED <<taskVars, owner, sigItem>>
    BY <1>10 DEF AbortIO
  <2>1. CASE internalCompleteIO(r)
    BY <2>0, <2>1, CompleteEffect DEF TypeOK, taskVars
  <2>2. CASE aborted' = aborted \cup {r} /\ UNCHANGED <<wakeVars, done, busy>>
    BY <2>0, <2>2 DEF TypeOK, taskVars, wakeVars
  <2> QED BY <1>10, <2>1, <2>2 DEF AbortIO
<1>11. ASSUME NEW t \in Tasks, NEW r \in Reqs, DeleteIOReq(t, r) PROVE TypeOK'
  <2>0. /\ User(t) /\ LeftAlone(r) /\ owner[r] = t
        /\ UNCHANGED <<life, killer, todo, lastPass>>
    BY <1>11 DEF DeleteIOReq, internalDeleteIOReq
  <2>1. CASE /\ r \in done /\ owner' = [owner EXCEPT ![r] = NoTask]
             /\ UNCHANGED <<at, arg, wakeVars, done, busy, aborted, sigItem>>
    BY <2>0, <2>1 DEF TypeOK, wakeVars
  <2>2. CASE /\ r \notin done /\ internalCompleteIO(r) /\ owner' = [owner EXCEPT ![r] = NoTask]
             /\ UNCHANGED <<at, arg, sigItem>>
    BY <2>0, <2>2, CompleteEffect DEF TypeOK
  <2>3. CASE r \notin done /\ AbortSleeps(t, r, "deleting")
    BY <2>0, <2>3 DEF AbortSleeps, Goes, TypeOK, Places
  <2> QED BY <1>11, <2>1, <2>2, <2>3 DEF DeleteIOReq, internalDeleteIOReq
<1>12. ASSUME NEW t \in Tasks, NEW r \in Reqs, AbortIOReqs(t, r) PROVE TypeOK'
  <2>0. /\ User(t) /\ owner[r] # NoTask /\ r \notin done /\ LeftAlone(r) /\ WillStay(t, r)
        /\ UNCHANGED <<life, killer, todo, lastPass>>
    BY <1>12 DEF AbortIOReqs
  <2>1. CASE internalCompleteIO(r) /\ UNCHANGED <<at, arg, owner, sigItem>>
    BY <2>0, <2>1, CompleteEffect DEF TypeOK
  <2>2. CASE AbortSleeps(t, r, "scanning")
    BY <2>0, <2>2 DEF AbortSleeps, Goes, TypeOK, Places
  <2> QED BY <1>12, <2>1, <2>2 DEF AbortIOReqs
<1>13. ASSUME NEW t \in Tasks, NEW r \in Reqs, NEW u \in Tasks, SetIOReqOwner(t, r, u) PROVE TypeOK'
  BY <1>13 DEF SetIOReqOwner, TypeOK, taskVars, wakeVars
<1>14. ASSUME NEW t \in Tasks, internalWaitReturns(t) PROVE TypeOK'
  BY <1>14 DEF internalWaitReturns, Returns, Goes, TypeOK, Places, reqVars
<1>15. ASSUME NEW t \in Tasks, DoIOWaits(t) PROVE TypeOK'
  <2>0. /\ at[t] = "doio"
        /\ UNCHANGED <<life, killer, todo, lastPass, sigBits, waitBits, reqVars>>
    BY <1>15 DEF DoIOWaits, internalWaitIO
  <2>1. CASE arg[t] \in done /\ Returns(t) /\ UNCHANGED <<asleep, waitItem>>
    BY <2>0, <2>1 DEF Returns, Goes, TypeOK, Places, reqVars
  <2>2. CASE /\ arg[t] \notin done /\ asleep' = asleep \cup {t}
             /\ waitItem' = [waitItem EXCEPT ![t] = arg[t]] /\ Goes(t, "waitio", arg[t])
    BY <2>0, <2>2 DEF Goes, TypeOK, CallShape, CallOf, WithReq, Places, reqVars
  <2> QED BY <1>15, <2>1, <2>2 DEF DoIOWaits, internalWaitIO
<1>16. ASSUME NEW t \in Tasks, WaitIOReturns(t) PROVE TypeOK'
  BY <1>16 DEF WaitIOReturns, Returns, Goes, TypeOK, Places, reqVars
<1>17. ASSUME NEW t \in Tasks, AbortReturns(t) PROVE TypeOK'
  <2>0. /\ Runs(t) /\ at[t] \in {"deleting", "scanning"}
        /\ UNCHANGED <<life, killer, todo, lastPass, waitItem, sigBits, waitBits, done, busy, aborted>>
    BY <1>17 DEF AbortReturns
  <2>1. CASE /\ arg[t] \in done /\ sigItem' = [sigItem EXCEPT ![arg[t]] = NoTask]
             /\ at[t] = "deleting" /\ owner' = [owner EXCEPT ![arg[t]] = NoTask]
             /\ Returns(t) /\ UNCHANGED asleep
    BY <2>0, <2>1 DEF Returns, Goes, TypeOK, Places
  <2>2. CASE /\ arg[t] \in done /\ sigItem' = [sigItem EXCEPT ![arg[t]] = NoTask]
             /\ at[t] = "scanning" /\ Returns(t) /\ UNCHANGED <<owner, asleep>>
    BY <2>0, <2>2 DEF Returns, Goes, TypeOK, Places
  <2>3. CASE /\ arg[t] \notin done /\ sigItem' = [sigItem EXCEPT ![arg[t]] = t]
             /\ asleep' = asleep \cup {t} /\ UNCHANGED <<at, arg, owner>>
    BY <2>0, <2>3 DEF TypeOK
  <2> QED BY <1>17, <2>1, <2>2, <2>3 DEF AbortReturns
<1>18. ASSUME NEW t \in Tasks, KillReturns(t) PROVE TypeOK'
  BY <1>18 DEF KillReturns, Returns, Goes, TypeOK, Places, wakeVars, reqVars
<1>19. ASSUME NEW t \in Tasks, KillSelf(t) PROVE TypeOK'
  BY <1>19 DEF KillSelf, Suicide, Goes, Children, TypeOK, Places, wakeVars, reqVars
<1>20. ASSUME NEW t \in Tasks, FreeRest(t) PROVE TypeOK'
  BY <1>20 DEF FreeRest, Children, TypeOK, wakeVars, reqVars
<1>21. ASSUME NEW t \in Tasks, Dies(t) PROVE TypeOK'
  BY <1>21 DEF Dies, Goes, TypeOK, Places, Signals, reqVars
<1>22. ASSUME NEW t \in Tasks, NEW c \in Tasks, FreeChild(t, c) PROVE TypeOK'
  <2>0. /\ Frees(t) /\ c \in todo[t] /\ todo' = [todo EXCEPT ![t] = @ \ {c}]
    BY <1>22 DEF FreeChild
  <2>1. CASE life[c] \in {"alive", "doomed"} /\ Murder(t, c)
    BY <2>0, <2>1 DEF Murder, Goes, TypeOK, Places, Signals, reqVars
  <2>2. CASE /\ life[c] \notin {"alive", "doomed"}
             /\ UNCHANGED <<life, at, arg, killer, lastPass, wakeVars, reqVars>>
    BY <2>0, <2>2 DEF TypeOK, wakeVars, reqVars
  <2> QED BY <1>22, <2>1, <2>2 DEF FreeChild
<1>23. ASSUME NEW t \in Tasks, NEW r \in Reqs, FreeIOReq(t, r) PROVE TypeOK'
  <2>0. /\ Frees(t) /\ todo[t] = {} /\ t \notin lastPass /\ owner[r] = t
        /\ UNCHANGED <<life, killer, todo, lastPass>>
    BY <1>23 DEF FreeIOReq, internalDeleteIOReq
  <2>1. CASE /\ r \in done /\ owner' = [owner EXCEPT ![r] = NoTask]
             /\ UNCHANGED <<at, arg, wakeVars, done, busy, aborted, sigItem>>
    BY <2>0, <2>1 DEF TypeOK, wakeVars
  <2>2. CASE /\ r \notin done /\ internalCompleteIO(r) /\ owner' = [owner EXCEPT ![r] = NoTask]
             /\ UNCHANGED <<at, arg, sigItem>>
    BY <2>0, <2>2, CompleteEffect DEF TypeOK
  <2>3. CASE r \notin done /\ AbortSleeps(t, r, "deleting")
    BY <2>0, <2>3 DEF AbortSleeps, Goes, TypeOK, Places
  <2> QED BY <1>23, <2>1, <2>2, <2>3 DEF FreeIOReq, internalDeleteIOReq
<1>24. ASSUME NEW r \in Reqs, DeviceCompletes(r) PROVE TypeOK'
  BY <1>24, CompleteEffect DEF DeviceCompletes, TypeOK, taskVars
<1>25. CASE UNCHANGED vars
  BY <1>25 DEF vars, TypeOK, taskVars, wakeVars, reqVars
<1> QED BY <1>1, <1>2, <1>3, <1>4, <1>5, <1>6, <1>7, <1>8, <1>9, <1>10, <1>11, <1>12,
     <1>13, <1>14, <1>15, <1>16, <1>17, <1>18, <1>19, <1>20, <1>21, <1>22, <1>23,
     <1>24, <1>25
     DEF Next, Starts, GoesOn

(* What a call has set up is there when it returns.                         *)
LEMMA CallStep ==
    ASSUME TypeOK, CallShape, [Next]_vars
    PROVE  CallShape'
<1>1. ASSUME NEW t \in Tasks, NEW c \in Tasks, CreateTask(t, c) PROVE CallShape'
  BY <1>1 DEF CreateTask, CallShape, CallOf, wakeVars
<1>2. ASSUME NEW t \in Tasks, NEW c \in Tasks, internalKill(t, c) PROVE CallShape'
  BY <1>2 DEF internalKill, User, Murder, Goes, TypeOK, CallShape, CallOf, WithReq
<1>3. ASSUME NEW t \in Tasks, NEW x \in Reqs \cup Tasks, CheckIO(t, x) PROVE CallShape'
  BY <1>3 DEF CheckIO, User, Goes, TypeOK, CallShape, CallOf, WithReq, wakeVars
<1>4. ASSUME NEW t \in Tasks, internalWait(t) PROVE CallShape'
  <2>0. /\ Runs(t) /\ life[t] = "alive" /\ at[t] = "checked"
        /\ UNCHANGED <<life, killer, todo, lastPass, waitItem, reqVars>>
    BY <1>4 DEF internalWait
  <2>1. CASE /\ {SignalOf(arg[t]), "ABORT"} \cap sigBits[t] # {}
             /\ sigBits' = [sigBits EXCEPT ![t] = @ \ ({SignalOf(arg[t]), "ABORT"} \cap @)]
             /\ Goes(t, "user", NoReq) /\ UNCHANGED <<asleep, waitBits>>
    BY <2>0, <2>1 DEF Goes, TypeOK, CallShape, CallOf, WithReq
  <2>2. CASE /\ {SignalOf(arg[t]), "ABORT"} \cap sigBits[t] = {}
             /\ asleep' = asleep \cup {t} /\ waitBits' = [waitBits EXCEPT ![t] = {SignalOf(arg[t]), "ABORT"}]
             /\ Goes(t, "waitsig", arg[t]) /\ UNCHANGED sigBits
    BY <2>0, <2>2 DEF Goes, TypeOK, CallShape, CallOf, WithReq
  <2> QED BY <1>4, <2>1, <2>2 DEF internalWait
<1>5. ASSUME NEW t \in Tasks, exit(t) PROVE CallShape'
  BY <1>5 DEF exit, User, Suicide, Goes, CallShape, CallOf, WithReq, wakeVars
<1>6. ASSUME NEW t \in Tasks, NEW r \in Reqs, internalCreateIOReq(t, r) PROVE CallShape'
  BY <1>6 DEF internalCreateIOReq, CallShape, CallOf, taskVars, wakeVars
<1>7. ASSUME NEW t \in Tasks, NEW r \in Reqs, SendIO(t, r) PROVE CallShape'
  <2>0. /\ User(t) /\ owner[r] = t /\ r \in done /\ LeftAlone(r)
        /\ UNCHANGED <<taskVars, waitItem, waitBits, owner, aborted, sigItem>>
    BY <1>7 DEF SendIO
  <2>1. CASE internalSignal(t, "IODONE") /\ UNCHANGED <<done, busy>>
    BY <2>0, <2>1 DEF internalSignal, CallShape, CallOf, taskVars
  <2>2. CASE /\ done' = done \ {r} /\ busy' = busy \cup {r}
             /\ UNCHANGED <<asleep, sigBits>>
    BY <2>0, <2>2 DEF CallShape, CallOf, taskVars
  <2> QED BY <1>7, <2>1, <2>2 DEF SendIO
<1>8. ASSUME NEW t \in Tasks, NEW r \in Reqs, DoIO(t, r) PROVE CallShape'
  BY <1>8 DEF DoIO, User, Goes, TypeOK, CallShape, CallOf, wakeVars
<1>9. ASSUME NEW t \in Tasks, NEW r \in Reqs, WaitIO(t, r) PROVE CallShape'
  <2>0. /\ User(t) /\ owner[r] = t
        /\ UNCHANGED <<life, killer, todo, lastPass, sigBits, waitBits, reqVars>>
    BY <1>9 DEF WaitIO, internalWaitIO
  <2>1. CASE r \in done /\ Returns(t) /\ UNCHANGED <<asleep, waitItem>>
    BY <2>0, <2>1 DEF User, Returns, Goes, CallShape, CallOf, WithReq
  <2>2. CASE /\ r \notin done /\ asleep' = asleep \cup {t}
             /\ waitItem' = [waitItem EXCEPT ![t] = r] /\ Goes(t, "waitio", r)
    BY <2>0, <2>2 DEF User, Goes, TypeOK, CallShape, CallOf
  <2> QED BY <1>9, <2>1, <2>2 DEF WaitIO, internalWaitIO
<1>10. ASSUME NEW t \in Tasks, NEW r \in Reqs, AbortIO(t, r) PROVE CallShape'
  <2>0. /\ User(t) /\ owner[r] = t /\ r \notin done /\ UNCHANGED <<taskVars, owner, sigItem>>
    BY <1>10 DEF AbortIO
  <2>1. CASE internalCompleteIO(r)
    BY <2>0, <2>1, CompleteEffect DEF CallShape, CallOf, taskVars
  <2>2. CASE aborted' = aborted \cup {r} /\ UNCHANGED <<wakeVars, done, busy>>
    BY <2>0, <2>2 DEF CallShape, CallOf, taskVars, wakeVars
  <2> QED BY <1>10, <2>1, <2>2 DEF AbortIO
<1>11. ASSUME NEW t \in Tasks, NEW r \in Reqs, DeleteIOReq(t, r) PROVE CallShape'
  <2>0. /\ User(t) /\ LeftAlone(r) /\ owner[r] = t
        /\ UNCHANGED <<life, killer, todo, lastPass>>
    BY <1>11 DEF DeleteIOReq, internalDeleteIOReq
  <2>1. CASE /\ r \in done /\ owner' = [owner EXCEPT ![r] = NoTask]
             /\ UNCHANGED <<at, arg, wakeVars, done, busy, aborted, sigItem>>
    BY <2>1 DEF CallShape, CallOf, wakeVars
  <2>2. CASE /\ r \notin done /\ internalCompleteIO(r) /\ owner' = [owner EXCEPT ![r] = NoTask]
             /\ UNCHANGED <<at, arg, sigItem>>
    BY <2>2, CompleteEffect DEF CallShape, CallOf
  <2>3. CASE r \notin done /\ AbortSleeps(t, r, "deleting")
    BY <2>0, <2>3 DEF User, AbortSleeps, Goes, TypeOK, CallShape, CallOf
  <2> QED BY <1>11, <2>1, <2>2, <2>3 DEF DeleteIOReq, internalDeleteIOReq
<1>12. ASSUME NEW t \in Tasks, NEW r \in Reqs, AbortIOReqs(t, r) PROVE CallShape'
  <2>0. /\ User(t) /\ owner[r] # NoTask /\ r \notin done /\ LeftAlone(r) /\ WillStay(t, r)
        /\ UNCHANGED <<life, killer, todo, lastPass>>
    BY <1>12 DEF AbortIOReqs
  <2>1. CASE internalCompleteIO(r) /\ UNCHANGED <<at, arg, owner, sigItem>>
    BY <2>1, CompleteEffect DEF CallShape, CallOf
  <2>2. CASE AbortSleeps(t, r, "scanning")
    BY <2>0, <2>2 DEF User, AbortSleeps, Goes, TypeOK, CallShape, CallOf
  <2> QED BY <1>12, <2>1, <2>2 DEF AbortIOReqs
<1>13. ASSUME NEW t \in Tasks, NEW r \in Reqs, NEW u \in Tasks, SetIOReqOwner(t, r, u) PROVE CallShape'
  BY <1>13 DEF SetIOReqOwner, CallShape, CallOf, taskVars, wakeVars
<1>14. ASSUME NEW t \in Tasks, internalWaitReturns(t) PROVE CallShape'
  BY <1>14
     DEF internalWaitReturns, Runs, Returns, Goes, TypeOK, CallShape, CallOf, WithReq
<1>15. ASSUME NEW t \in Tasks, DoIOWaits(t) PROVE CallShape'
  <2>0. /\ at[t] = "doio"
        /\ UNCHANGED <<life, killer, todo, lastPass, sigBits, waitBits, reqVars>>
    BY <1>15 DEF DoIOWaits, internalWaitIO
  <2>1. CASE arg[t] \in done /\ Returns(t) /\ UNCHANGED <<asleep, waitItem>>
    BY <2>0, <2>1 DEF Returns, Goes, TypeOK, CallShape, CallOf, WithReq
  <2>2. CASE /\ arg[t] \notin done /\ asleep' = asleep \cup {t}
             /\ waitItem' = [waitItem EXCEPT ![t] = arg[t]] /\ Goes(t, "waitio", arg[t])
    BY <2>0, <2>2 DEF Goes, TypeOK, CallShape, CallOf, WithReq
  <2> QED BY <1>15, <2>1, <2>2 DEF DoIOWaits, internalWaitIO
<1>16. ASSUME NEW t \in Tasks, WaitIOReturns(t) PROVE CallShape'
  BY <1>16 DEF WaitIOReturns, Runs, Returns, Goes, TypeOK, CallShape, CallOf, WithReq
<1>17. ASSUME NEW t \in Tasks, AbortReturns(t) PROVE CallShape'
  <2>0. /\ Runs(t) /\ at[t] \in {"deleting", "scanning"}
        /\ UNCHANGED <<life, killer, todo, lastPass, waitItem, sigBits, waitBits, done, busy, aborted>>
    BY <1>17 DEF AbortReturns
  <2>1. CASE /\ arg[t] \in done /\ sigItem' = [sigItem EXCEPT ![arg[t]] = NoTask]
             /\ at[t] = "deleting" /\ owner' = [owner EXCEPT ![arg[t]] = NoTask]
             /\ Returns(t) /\ UNCHANGED asleep
    BY <2>0, <2>1 DEF Runs, Returns, Goes, TypeOK, CallShape, CallOf, WithReq
  <2>2. CASE /\ arg[t] \in done /\ sigItem' = [sigItem EXCEPT ![arg[t]] = NoTask]
             /\ at[t] = "scanning" /\ Returns(t) /\ UNCHANGED <<owner, asleep>>
    BY <2>0, <2>2 DEF Runs, Returns, Goes, TypeOK, CallShape, CallOf, WithReq
  <2>3. CASE /\ arg[t] \notin done /\ sigItem' = [sigItem EXCEPT ![arg[t]] = t]
             /\ asleep' = asleep \cup {t} /\ UNCHANGED <<at, arg, owner>>
    BY <2>0, <2>3 DEF CallShape, CallOf
  <2> QED BY <1>17, <2>1, <2>2, <2>3 DEF AbortReturns
<1>18. ASSUME NEW t \in Tasks, KillReturns(t) PROVE CallShape'
  BY <1>18
     DEF KillReturns, Runs, Returns, Goes, TypeOK, CallShape, CallOf, WithReq,
         wakeVars
<1>19. ASSUME NEW t \in Tasks, KillSelf(t) PROVE CallShape'
  BY <1>19 DEF KillSelf, Suicide, Goes, TypeOK, CallShape, CallOf, WithReq, wakeVars
<1>20. ASSUME NEW t \in Tasks, FreeRest(t) PROVE CallShape'
  BY <1>20 DEF FreeRest, CallShape, CallOf, wakeVars
<1>21. ASSUME NEW t \in Tasks, Dies(t) PROVE CallShape'
  BY <1>21 DEF Dies, Frees, Goes, CallShape, CallOf, WithReq
<1>22. ASSUME NEW t \in Tasks, NEW c \in Tasks, FreeChild(t, c) PROVE CallShape'
  <2>0. /\ Frees(t) /\ c \in todo[t] /\ todo' = [todo EXCEPT ![t] = @ \ {c}]
    BY <1>22 DEF FreeChild
  <2>1. CASE life[c] \in {"alive", "doomed"} /\ Murder(t, c)
    BY <2>0, <2>1 DEF Frees, Murder, Goes, TypeOK, CallShape, CallOf, WithReq
  <2>2. CASE /\ life[c] \notin {"alive", "doomed"}
             /\ UNCHANGED <<life, at, arg, killer, lastPass, wakeVars, reqVars>>
    BY <2>2 DEF CallShape, CallOf, wakeVars
  <2> QED BY <1>22, <2>1, <2>2 DEF FreeChild
<1>23. ASSUME NEW t \in Tasks, NEW r \in Reqs, FreeIOReq(t, r) PROVE CallShape'
  <2>0. /\ Frees(t) /\ todo[t] = {} /\ t \notin lastPass /\ owner[r] = t
        /\ UNCHANGED <<life, killer, todo, lastPass>>
    BY <1>23 DEF FreeIOReq, internalDeleteIOReq
  <2>1. CASE /\ r \in done /\ owner' = [owner EXCEPT ![r] = NoTask]
             /\ UNCHANGED <<at, arg, wakeVars, done, busy, aborted, sigItem>>
    BY <2>1 DEF CallShape, CallOf, wakeVars
  <2>2. CASE /\ r \notin done /\ internalCompleteIO(r) /\ owner' = [owner EXCEPT ![r] = NoTask]
             /\ UNCHANGED <<at, arg, sigItem>>
    BY <2>2, CompleteEffect DEF CallShape, CallOf
  <2>3. CASE r \notin done /\ AbortSleeps(t, r, "deleting")
    BY <2>0, <2>3 DEF Frees, AbortSleeps, Goes, TypeOK, CallShape, CallOf
  <2> QED BY <1>23, <2>1, <2>2, <2>3 DEF FreeIOReq, internalDeleteIOReq
<1>24. ASSUME NEW r \in Reqs, DeviceCompletes(r) PROVE CallShape'
  BY <1>24, CompleteEffect DEF DeviceCompletes, CallShape, CallOf, taskVars
<1>25. CASE UNCHANGED vars
  BY <1>25 DEF vars, CallShape, CallOf, taskVars, wakeVars
<1> QED BY <1>1, <1>2, <1>3, <1>4, <1>5, <1>6, <1>7, <1>8, <1>9, <1>10, <1>11, <1>12,
     <1>13, <1>14, <1>15, <1>16, <1>17, <1>18, <1>19, <1>20, <1>21, <1>22, <1>23,
     <1>24, <1>25
     DEF Next, Starts, GoesOn

(* How a life goes on.                                                     *)
LEMMA LifeStep ==
    ASSUME TypeOK, CallShape, LifeShape, [Next]_vars
    PROVE  LifeShape'
<1>1. ASSUME NEW t \in Tasks, NEW c \in Tasks, CreateTask(t, c) PROVE LifeShape'
  BY <1>1 DEF CreateTask, LifeShape, LifeOf
<1>2. ASSUME NEW t \in Tasks, NEW c \in Tasks, internalKill(t, c) PROVE LifeShape'
  BY <1>2 DEF internalKill, User, Murder, Goes, TypeOK, LifeShape, LifeOf
<1>3. ASSUME NEW t \in Tasks, NEW x \in Reqs \cup Tasks, CheckIO(t, x) PROVE LifeShape'
  BY <1>3 DEF CheckIO, User, Goes, LifeShape, LifeOf
<1>4. ASSUME NEW t \in Tasks, internalWait(t) PROVE LifeShape'
  <2>0. /\ Runs(t) /\ life[t] = "alive" /\ at[t] = "checked"
        /\ UNCHANGED <<life, killer, todo, lastPass, waitItem, reqVars>>
    BY <1>4 DEF internalWait
  <2>1. CASE /\ {SignalOf(arg[t]), "ABORT"} \cap sigBits[t] # {}
             /\ sigBits' = [sigBits EXCEPT ![t] = @ \ ({SignalOf(arg[t]), "ABORT"} \cap @)]
             /\ Goes(t, "user", NoReq) /\ UNCHANGED <<asleep, waitBits>>
    BY <2>0, <2>1 DEF Goes, LifeShape, LifeOf
  <2>2. CASE /\ {SignalOf(arg[t]), "ABORT"} \cap sigBits[t] = {}
             /\ asleep' = asleep \cup {t} /\ waitBits' = [waitBits EXCEPT ![t] = {SignalOf(arg[t]), "ABORT"}]
             /\ Goes(t, "waitsig", arg[t]) /\ UNCHANGED sigBits
    BY <2>0, <2>2 DEF Goes, LifeShape, LifeOf
  <2> QED BY <1>4, <2>1, <2>2 DEF internalWait
<1>5. ASSUME NEW t \in Tasks, exit(t) PROVE LifeShape'
  BY <1>5 DEF exit, Suicide, Goes, Children, TypeOK, LifeShape, LifeOf
<1>6. ASSUME NEW t \in Tasks, NEW r \in Reqs, internalCreateIOReq(t, r) PROVE LifeShape'
  BY <1>6 DEF internalCreateIOReq, LifeShape, LifeOf, taskVars
<1>7. ASSUME NEW t \in Tasks, NEW r \in Reqs, SendIO(t, r) PROVE LifeShape'
  <2>0. /\ User(t) /\ owner[r] = t /\ r \in done /\ LeftAlone(r)
        /\ UNCHANGED <<taskVars, waitItem, waitBits, owner, aborted, sigItem>>
    BY <1>7 DEF SendIO
  <2>1. CASE internalSignal(t, "IODONE") /\ UNCHANGED <<done, busy>>
    BY <2>0, <2>1 DEF LifeShape, LifeOf, taskVars
  <2>2. CASE /\ done' = done \ {r} /\ busy' = busy \cup {r}
             /\ UNCHANGED <<asleep, sigBits>>
    BY <2>0, <2>2 DEF LifeShape, LifeOf, taskVars
  <2> QED BY <1>7, <2>1, <2>2 DEF SendIO
<1>8. ASSUME NEW t \in Tasks, NEW r \in Reqs, DoIO(t, r) PROVE LifeShape'
  BY <1>8 DEF DoIO, User, Goes, LifeShape, LifeOf
<1>9. ASSUME NEW t \in Tasks, NEW r \in Reqs, WaitIO(t, r) PROVE LifeShape'
  <2>0. /\ User(t) /\ owner[r] = t
        /\ UNCHANGED <<life, killer, todo, lastPass, sigBits, waitBits, reqVars>>
    BY <1>9 DEF WaitIO, internalWaitIO
  <2>1. CASE r \in done /\ Returns(t) /\ UNCHANGED <<asleep, waitItem>>
    BY <2>0, <2>1 DEF User, Returns, Goes, LifeShape, LifeOf
  <2>2. CASE /\ r \notin done /\ asleep' = asleep \cup {t}
             /\ waitItem' = [waitItem EXCEPT ![t] = r] /\ Goes(t, "waitio", r)
    BY <2>0, <2>2 DEF User, Goes, LifeShape, LifeOf
  <2> QED BY <1>9, <2>1, <2>2 DEF WaitIO, internalWaitIO
<1>10. ASSUME NEW t \in Tasks, NEW r \in Reqs, AbortIO(t, r) PROVE LifeShape'
  <2>0. /\ User(t) /\ owner[r] = t /\ r \notin done /\ UNCHANGED <<taskVars, owner, sigItem>>
    BY <1>10 DEF AbortIO
  <2>1. CASE internalCompleteIO(r)
    BY <2>0, <2>1 DEF LifeShape, LifeOf, taskVars
  <2>2. CASE aborted' = aborted \cup {r} /\ UNCHANGED <<wakeVars, done, busy>>
    BY <2>0, <2>2 DEF LifeShape, LifeOf, taskVars
  <2> QED BY <1>10, <2>1, <2>2 DEF AbortIO
<1>11. ASSUME NEW t \in Tasks, NEW r \in Reqs, DeleteIOReq(t, r) PROVE LifeShape'
  <2>0. /\ User(t) /\ LeftAlone(r) /\ owner[r] = t
        /\ UNCHANGED <<life, killer, todo, lastPass>>
    BY <1>11 DEF DeleteIOReq, internalDeleteIOReq
  <2>1. CASE /\ r \in done /\ owner' = [owner EXCEPT ![r] = NoTask]
             /\ UNCHANGED <<at, arg, wakeVars, done, busy, aborted, sigItem>>
    BY <2>0, <2>1 DEF LifeShape, LifeOf
  <2>2. CASE /\ r \notin done /\ internalCompleteIO(r) /\ owner' = [owner EXCEPT ![r] = NoTask]
             /\ UNCHANGED <<at, arg, sigItem>>
    BY <2>0, <2>2 DEF LifeShape, LifeOf
  <2>3. CASE r \notin done /\ AbortSleeps(t, r, "deleting")
    BY <2>0, <2>3 DEF User, AbortSleeps, Goes, LifeShape, LifeOf
  <2> QED BY <1>11, <2>1, <2>2, <2>3 DEF DeleteIOReq, internalDeleteIOReq
<1>12. ASSUME NEW t \in Tasks, NEW r \in Reqs, AbortIOReqs(t, r) PROVE LifeShape'
  <2>0. /\ User(t) /\ owner[r] # NoTask /\ r \notin done /\ LeftAlone(r) /\ WillStay(t, r)
        /\ UNCHANGED <<life, killer, todo, lastPass>>
    BY <1>12 DEF AbortIOReqs
  <2>1. CASE internalCompleteIO(r) /\ UNCHANGED <<at, arg, owner, sigItem>>
    BY <2>0, <2>1 DEF LifeShape, LifeOf
  <2>2. CASE AbortSleeps(t, r, "scanning")
    BY <2>0, <2>2 DEF User, AbortSleeps, Goes, LifeShape, LifeOf
  <2> QED BY <1>12, <2>1, <2>2 DEF AbortIOReqs
<1>13. ASSUME NEW t \in Tasks, NEW r \in Reqs, NEW u \in Tasks, SetIOReqOwner(t, r, u) PROVE LifeShape'
  BY <1>13 DEF SetIOReqOwner, LifeShape, LifeOf, taskVars
<1>14. ASSUME NEW t \in Tasks, internalWaitReturns(t) PROVE LifeShape'
  BY <1>14 DEF internalWaitReturns, Returns, Goes, LifeShape, LifeOf
<1>15. ASSUME NEW t \in Tasks, DoIOWaits(t) PROVE LifeShape'
  <2>0. /\ at[t] = "doio"
        /\ UNCHANGED <<life, killer, todo, lastPass, sigBits, waitBits, reqVars>>
    BY <1>15 DEF DoIOWaits, internalWaitIO
  <2>1. CASE arg[t] \in done /\ Returns(t) /\ UNCHANGED <<asleep, waitItem>>
    BY <2>0, <2>1 DEF Returns, Goes, LifeShape, LifeOf
  <2>2. CASE /\ arg[t] \notin done /\ asleep' = asleep \cup {t}
             /\ waitItem' = [waitItem EXCEPT ![t] = arg[t]] /\ Goes(t, "waitio", arg[t])
    BY <2>0, <2>2 DEF Goes, LifeShape, LifeOf
  <2> QED BY <1>15, <2>1, <2>2 DEF DoIOWaits, internalWaitIO
<1>16. ASSUME NEW t \in Tasks, WaitIOReturns(t) PROVE LifeShape'
  BY <1>16 DEF WaitIOReturns, Returns, Goes, LifeShape, LifeOf
<1>17. ASSUME NEW t \in Tasks, AbortReturns(t) PROVE LifeShape'
  <2>0. /\ Runs(t) /\ at[t] \in {"deleting", "scanning"}
        /\ UNCHANGED <<life, killer, todo, lastPass, waitItem, sigBits, waitBits, done, busy, aborted>>
    BY <1>17 DEF AbortReturns
  <2>1. CASE /\ arg[t] \in done /\ sigItem' = [sigItem EXCEPT ![arg[t]] = NoTask]
             /\ at[t] = "deleting" /\ owner' = [owner EXCEPT ![arg[t]] = NoTask]
             /\ Returns(t) /\ UNCHANGED asleep
    BY <2>0, <2>1 DEF Returns, Goes, LifeShape, LifeOf
  <2>2. CASE /\ arg[t] \in done /\ sigItem' = [sigItem EXCEPT ![arg[t]] = NoTask]
             /\ at[t] = "scanning" /\ Returns(t) /\ UNCHANGED <<owner, asleep>>
    BY <2>0, <2>2 DEF Returns, Goes, LifeShape, LifeOf
  <2>3. CASE /\ arg[t] \notin done /\ sigItem' = [sigItem EXCEPT ![arg[t]] = t]
             /\ asleep' = asleep \cup {t} /\ UNCHANGED <<at, arg, owner>>
    BY <2>0, <2>3 DEF LifeShape, LifeOf
  <2> QED BY <1>17, <2>1, <2>2, <2>3 DEF AbortReturns
<1>18. ASSUME NEW t \in Tasks, KillReturns(t) PROVE LifeShape'
  BY <1>18 DEF KillReturns, Returns, Goes, TypeOK, LifeShape, LifeOf
<1>19. ASSUME NEW t \in Tasks, KillSelf(t) PROVE LifeShape'
  BY <1>19 DEF KillSelf, Suicide, Goes, Children, TypeOK, LifeShape, LifeOf
<1>20. ASSUME NEW t \in Tasks, FreeRest(t) PROVE LifeShape'
  BY <1>20 DEF FreeRest, Frees, Children, LifeShape, LifeOf
<1>21. ASSUME NEW t \in Tasks, Dies(t) PROVE LifeShape'
  BY <1>21 DEF Dies, Goes, TypeOK, LifeShape, LifeOf
<1>22. ASSUME NEW t \in Tasks, NEW c \in Tasks, FreeChild(t, c) PROVE LifeShape'
  <2>0. /\ Frees(t) /\ c \in todo[t] /\ todo' = [todo EXCEPT ![t] = @ \ {c}]
    BY <1>22 DEF FreeChild
  <2>1. CASE life[c] \in {"alive", "doomed"} /\ Murder(t, c)
    BY <2>0, <2>1 DEF Murder, Goes, TypeOK, LifeShape, LifeOf
  <2>2. CASE /\ life[c] \notin {"alive", "doomed"}
             /\ UNCHANGED <<life, at, arg, killer, lastPass, wakeVars, reqVars>>
    BY <2>0, <2>2 DEF LifeShape, LifeOf
  <2> QED BY <1>22, <2>1, <2>2 DEF FreeChild
<1>23. ASSUME NEW t \in Tasks, NEW r \in Reqs, FreeIOReq(t, r) PROVE LifeShape'
  <2>0. /\ Frees(t) /\ todo[t] = {} /\ t \notin lastPass /\ owner[r] = t
        /\ UNCHANGED <<life, killer, todo, lastPass>>
    BY <1>23 DEF FreeIOReq, internalDeleteIOReq
  <2>1. CASE /\ r \in done /\ owner' = [owner EXCEPT ![r] = NoTask]
             /\ UNCHANGED <<at, arg, wakeVars, done, busy, aborted, sigItem>>
    BY <2>0, <2>1 DEF LifeShape, LifeOf
  <2>2. CASE /\ r \notin done /\ internalCompleteIO(r) /\ owner' = [owner EXCEPT ![r] = NoTask]
             /\ UNCHANGED <<at, arg, sigItem>>
    BY <2>0, <2>2 DEF LifeShape, LifeOf
  <2>3. CASE r \notin done /\ AbortSleeps(t, r, "deleting")
    BY <2>0, <2>3 DEF Frees, AbortSleeps, Goes, LifeShape, LifeOf
  <2> QED BY <1>23, <2>1, <2>2, <2>3 DEF FreeIOReq, internalDeleteIOReq
<1>24. ASSUME NEW r \in Reqs, DeviceCompletes(r) PROVE LifeShape'
  BY <1>24 DEF DeviceCompletes, LifeShape, LifeOf, taskVars
<1>25. CASE UNCHANGED vars
  BY <1>25 DEF vars, LifeShape, LifeOf, taskVars
<1> QED BY <1>1, <1>2, <1>3, <1>4, <1>5, <1>6, <1>7, <1>8, <1>9, <1>10, <1>11, <1>12,
     <1>13, <1>14, <1>15, <1>16, <1>17, <1>18, <1>19, <1>20, <1>21, <1>22, <1>23,
     <1>24, <1>25
     DEF Next, Starts, GoesOn

(* Requests belong to the living, and to the call that is with them.        *)
LEMMA OwnerStep ==
    ASSUME TypeOK, CallShape, LifeShape, OwnerShape, [Next]_vars
    PROVE  OwnerShape'
<1>1. ASSUME NEW t \in Tasks, NEW c \in Tasks, CreateTask(t, c) PROVE OwnerShape'
  BY <1>1 DEF CreateTask, OwnerShape, OwnerOf, Living, reqVars
<1>2. ASSUME NEW t \in Tasks, NEW c \in Tasks, internalKill(t, c) PROVE OwnerShape'
  BY <1>2
     DEF internalKill, User, Murder, Goes, OwnerShape, OwnerOf, Living, WithOwn,
         reqVars
<1>3. ASSUME NEW t \in Tasks, NEW x \in Reqs \cup Tasks, CheckIO(t, x) PROVE OwnerShape'
  BY <1>3 DEF CheckIO, User, Goes, TypeOK, OwnerShape, OwnerOf, Living, reqVars
<1>4. ASSUME NEW t \in Tasks, internalWait(t) PROVE OwnerShape'
  <2>0. /\ Runs(t) /\ life[t] = "alive" /\ at[t] = "checked"
        /\ UNCHANGED <<life, killer, todo, lastPass, waitItem, reqVars>>
    BY <1>4 DEF internalWait
  <2>1. CASE /\ {SignalOf(arg[t]), "ABORT"} \cap sigBits[t] # {}
             /\ sigBits' = [sigBits EXCEPT ![t] = @ \ ({SignalOf(arg[t]), "ABORT"} \cap @)]
             /\ Goes(t, "user", NoReq) /\ UNCHANGED <<asleep, waitBits>>
    BY <2>0, <2>1, TaskLifeAssumption
       DEF Goes, OwnerShape, OwnerOf, Living, WithOwn, reqVars
  <2>2. CASE /\ {SignalOf(arg[t]), "ABORT"} \cap sigBits[t] = {}
             /\ asleep' = asleep \cup {t} /\ waitBits' = [waitBits EXCEPT ![t] = {SignalOf(arg[t]), "ABORT"}]
             /\ Goes(t, "waitsig", arg[t]) /\ UNCHANGED sigBits
    BY <2>0, <2>2 DEF Goes, OwnerShape, OwnerOf, Living, WithOwn, reqVars
  <2> QED BY <1>4, <2>1, <2>2 DEF internalWait
<1>5. ASSUME NEW t \in Tasks, exit(t) PROVE OwnerShape'
  BY <1>5 DEF exit, User, Suicide, Goes, OwnerShape, OwnerOf, Living, WithOwn, reqVars
<1>6. ASSUME NEW t \in Tasks, NEW r \in Reqs, internalCreateIOReq(t, r) PROVE OwnerShape'
  BY <1>6, TaskLifeAssumption
     DEF internalCreateIOReq, User, LifeShape, LifeOf, OwnerShape, OwnerOf, Living,
         taskVars
<1>7. ASSUME NEW t \in Tasks, NEW r \in Reqs, SendIO(t, r) PROVE OwnerShape'
  <2>0. /\ User(t) /\ owner[r] = t /\ r \in done /\ LeftAlone(r)
        /\ UNCHANGED <<taskVars, waitItem, waitBits, owner, aborted, sigItem>>
    BY <1>7 DEF SendIO
  <2>1. CASE internalSignal(t, "IODONE") /\ UNCHANGED <<done, busy>>
    BY <2>0, <2>1 DEF OwnerShape, OwnerOf, Living, taskVars
  <2>2. CASE /\ done' = done \ {r} /\ busy' = busy \cup {r}
             /\ UNCHANGED <<asleep, sigBits>>
    BY <2>0, <2>2, TaskLifeAssumption DEF OwnerShape, OwnerOf, Living, taskVars
  <2> QED BY <1>7, <2>1, <2>2 DEF SendIO
<1>8. ASSUME NEW t \in Tasks, NEW r \in Reqs, DoIO(t, r) PROVE OwnerShape'
  BY <1>8, TaskLifeAssumption
     DEF DoIO, User, Goes, TypeOK, OwnerShape, OwnerOf, Living
<1>9. ASSUME NEW t \in Tasks, NEW r \in Reqs, WaitIO(t, r) PROVE OwnerShape'
  <2>0. /\ User(t) /\ owner[r] = t
        /\ UNCHANGED <<life, killer, todo, lastPass, sigBits, waitBits, reqVars>>
    BY <1>9 DEF WaitIO, internalWaitIO
  <2>1. CASE r \in done /\ Returns(t) /\ UNCHANGED <<asleep, waitItem>>
    BY <2>0, <2>1
       DEF User, Returns, Goes, OwnerShape, OwnerOf, Living, WithOwn, reqVars
  <2>2. CASE /\ r \notin done /\ asleep' = asleep \cup {t}
             /\ waitItem' = [waitItem EXCEPT ![t] = r] /\ Goes(t, "waitio", r)
    BY <2>0, <2>2 DEF User, Goes, TypeOK, OwnerShape, OwnerOf, Living, reqVars
  <2> QED BY <1>9, <2>1, <2>2 DEF WaitIO, internalWaitIO
<1>10. ASSUME NEW t \in Tasks, NEW r \in Reqs, AbortIO(t, r) PROVE OwnerShape'
  <2>0. /\ User(t) /\ owner[r] = t /\ r \notin done /\ UNCHANGED <<taskVars, owner, sigItem>>
    BY <1>10 DEF AbortIO
  <2>1. CASE internalCompleteIO(r)
    BY <2>0, <2>1, CompleteEffect DEF OwnerShape, OwnerOf, Living, taskVars
  <2>2. CASE aborted' = aborted \cup {r} /\ UNCHANGED <<wakeVars, done, busy>>
    BY <2>0, <2>2 DEF OwnerShape, OwnerOf, Living, taskVars
  <2> QED BY <1>10, <2>1, <2>2 DEF AbortIO
<1>11. ASSUME NEW t \in Tasks, NEW r \in Reqs, DeleteIOReq(t, r) PROVE OwnerShape'
  <2>0. /\ User(t) /\ LeftAlone(r) /\ owner[r] = t
        /\ UNCHANGED <<life, killer, todo, lastPass>>
    BY <1>11 DEF DeleteIOReq, internalDeleteIOReq
  <2>1. CASE /\ r \in done /\ owner' = [owner EXCEPT ![r] = NoTask]
             /\ UNCHANGED <<at, arg, wakeVars, done, busy, aborted, sigItem>>
    BY <2>0, <2>1 DEF User, TypeOK, OwnerShape, OwnerOf, Living, WithOwn
  <2>2. CASE /\ r \notin done /\ internalCompleteIO(r) /\ owner' = [owner EXCEPT ![r] = NoTask]
             /\ UNCHANGED <<at, arg, sigItem>>
    BY <2>0, <2>2, CompleteEffect DEF User, OwnerShape, OwnerOf, Living, WithOwn
  <2>3. CASE r \notin done /\ AbortSleeps(t, r, "deleting")
    BY <2>0, <2>3 DEF User, AbortSleeps, Goes, TypeOK, OwnerShape, OwnerOf, Living
  <2> QED BY <1>11, <2>1, <2>2, <2>3 DEF DeleteIOReq, internalDeleteIOReq
<1>12. ASSUME NEW t \in Tasks, NEW r \in Reqs, AbortIOReqs(t, r) PROVE OwnerShape'
  <2>0. /\ User(t) /\ owner[r] # NoTask /\ r \notin done /\ LeftAlone(r) /\ WillStay(t, r)
        /\ UNCHANGED <<life, killer, todo, lastPass>>
    BY <1>12 DEF AbortIOReqs
  <2>1. CASE internalCompleteIO(r) /\ UNCHANGED <<at, arg, owner, sigItem>>
    BY <2>0, <2>1, CompleteEffect DEF OwnerShape, OwnerOf, Living
  <2>2. CASE AbortSleeps(t, r, "scanning")
    BY <2>0, <2>2
       DEF User, AbortSleeps, Goes, TypeOK, OwnerShape, OwnerOf, Living, WithOwn
  <2> QED BY <1>12, <2>1, <2>2 DEF AbortIOReqs
<1>13. ASSUME NEW t \in Tasks, NEW r \in Reqs, NEW u \in Tasks, SetIOReqOwner(t, r, u) PROVE OwnerShape'
  BY <1>13, TaskLifeAssumption
     DEF SetIOReqOwner, User, LifeShape, LifeOf, OwnerShape, OwnerOf, Living, WithOwn,
         taskVars
<1>14. ASSUME NEW t \in Tasks, internalWaitReturns(t) PROVE OwnerShape'
  BY <1>14, TaskLifeAssumption
     DEF internalWaitReturns, Returns, Goes, OwnerShape, OwnerOf, Living, WithOwn,
         reqVars
<1>15. ASSUME NEW t \in Tasks, DoIOWaits(t) PROVE OwnerShape'
  <2>0. /\ at[t] = "doio"
        /\ UNCHANGED <<life, killer, todo, lastPass, sigBits, waitBits, reqVars>>
    BY <1>15 DEF DoIOWaits, internalWaitIO
  <2>1. CASE arg[t] \in done /\ Returns(t) /\ UNCHANGED <<asleep, waitItem>>
    BY <2>0, <2>1, TaskLifeAssumption
       DEF Returns, Goes, OwnerShape, OwnerOf, Living, WithOwn, reqVars
  <2>2. CASE /\ arg[t] \notin done /\ asleep' = asleep \cup {t}
             /\ waitItem' = [waitItem EXCEPT ![t] = arg[t]] /\ Goes(t, "waitio", arg[t])
    BY <2>0, <2>2 DEF Goes, OwnerShape, OwnerOf, Living, WithOwn, reqVars
  <2> QED BY <1>15, <2>1, <2>2 DEF DoIOWaits, internalWaitIO
<1>16. ASSUME NEW t \in Tasks, WaitIOReturns(t) PROVE OwnerShape'
  BY <1>16, TaskLifeAssumption
     DEF WaitIOReturns, Returns, Goes, OwnerShape, OwnerOf, Living, WithOwn, reqVars
<1>17. ASSUME NEW t \in Tasks, AbortReturns(t) PROVE OwnerShape'
  <2>0. /\ Runs(t) /\ at[t] \in {"deleting", "scanning"}
        /\ UNCHANGED <<life, killer, todo, lastPass, waitItem, sigBits, waitBits, done, busy, aborted>>
    BY <1>17 DEF AbortReturns
  <2>1. CASE /\ arg[t] \in done /\ sigItem' = [sigItem EXCEPT ![arg[t]] = NoTask]
             /\ at[t] = "deleting" /\ owner' = [owner EXCEPT ![arg[t]] = NoTask]
             /\ Returns(t) /\ UNCHANGED asleep
    BY <2>0, <2>1 DEF Returns, Goes, TypeOK, OwnerShape, OwnerOf, Living, WithOwn
  <2>2. CASE /\ arg[t] \in done /\ sigItem' = [sigItem EXCEPT ![arg[t]] = NoTask]
             /\ at[t] = "scanning" /\ Returns(t) /\ UNCHANGED <<owner, asleep>>
    BY <2>0, <2>2 DEF Returns, Goes, TypeOK, OwnerShape, OwnerOf, Living, WithOwn
  <2>3. CASE /\ arg[t] \notin done /\ sigItem' = [sigItem EXCEPT ![arg[t]] = t]
             /\ asleep' = asleep \cup {t} /\ UNCHANGED <<at, arg, owner>>
    BY <2>0, <2>3 DEF OwnerShape, OwnerOf, Living
  <2> QED BY <1>17, <2>1, <2>2, <2>3 DEF AbortReturns
<1>18. ASSUME NEW t \in Tasks, KillReturns(t) PROVE OwnerShape'
  BY <1>18
     DEF KillReturns, Returns, Goes, OwnerShape, OwnerOf, Living, WithOwn, reqVars
<1>19. ASSUME NEW t \in Tasks, KillSelf(t) PROVE OwnerShape'
  BY <1>19, TaskLifeAssumption
     DEF KillSelf, Suicide, Goes, OwnerShape, OwnerOf, Living, WithOwn, reqVars
<1>20. ASSUME NEW t \in Tasks, FreeRest(t) PROVE OwnerShape'
  BY <1>20 DEF FreeRest, OwnerShape, OwnerOf, Living, reqVars
<1>21. ASSUME NEW t \in Tasks, Dies(t) PROVE OwnerShape'
  BY <1>21 DEF Dies, Frees, Goes, OwnerShape, OwnerOf, Living, WithOwn, reqVars
<1>22. ASSUME NEW t \in Tasks, NEW c \in Tasks, FreeChild(t, c) PROVE OwnerShape'
  <2>0. /\ Frees(t) /\ c \in todo[t] /\ todo' = [todo EXCEPT ![t] = @ \ {c}]
    BY <1>22 DEF FreeChild
  <2>1. CASE life[c] \in {"alive", "doomed"} /\ Murder(t, c)
    BY <2>0, <2>1
       DEF Frees, Murder, Goes, OwnerShape, OwnerOf, Living, WithOwn, reqVars
  <2>2. CASE /\ life[c] \notin {"alive", "doomed"}
             /\ UNCHANGED <<life, at, arg, killer, lastPass, wakeVars, reqVars>>
    BY <2>2 DEF OwnerShape, OwnerOf, Living, reqVars
  <2> QED BY <1>22, <2>1, <2>2 DEF FreeChild
<1>23. ASSUME NEW t \in Tasks, NEW r \in Reqs, FreeIOReq(t, r) PROVE OwnerShape'
  <2>0. /\ Frees(t) /\ todo[t] = {} /\ t \notin lastPass /\ owner[r] = t
        /\ UNCHANGED <<life, killer, todo, lastPass>>
    BY <1>23 DEF FreeIOReq, internalDeleteIOReq
  <2>1. CASE /\ r \in done /\ owner' = [owner EXCEPT ![r] = NoTask]
             /\ UNCHANGED <<at, arg, wakeVars, done, busy, aborted, sigItem>>
    BY <2>0, <2>1 DEF Frees, TypeOK, OwnerShape, OwnerOf, Living, WithOwn
  <2>2. CASE /\ r \notin done /\ internalCompleteIO(r) /\ owner' = [owner EXCEPT ![r] = NoTask]
             /\ UNCHANGED <<at, arg, sigItem>>
    BY <2>0, <2>2, CompleteEffect DEF Frees, OwnerShape, OwnerOf, Living, WithOwn
  <2>3. CASE r \notin done /\ AbortSleeps(t, r, "deleting")
    BY <2>0, <2>3 DEF Frees, AbortSleeps, Goes, TypeOK, OwnerShape, OwnerOf, Living
  <2> QED BY <1>23, <2>1, <2>2, <2>3 DEF FreeIOReq, internalDeleteIOReq
<1>24. ASSUME NEW r \in Reqs, DeviceCompletes(r) PROVE OwnerShape'
  BY <1>24, CompleteEffect DEF DeviceCompletes, OwnerShape, OwnerOf, Living, taskVars
<1>25. CASE UNCHANGED vars
  BY <1>25 DEF vars, OwnerShape, OwnerOf, Living, taskVars, reqVars
<1> QED BY <1>1, <1>2, <1>3, <1>4, <1>5, <1>6, <1>7, <1>8, <1>9, <1>10, <1>11, <1>12,
     <1>13, <1>14, <1>15, <1>16, <1>17, <1>18, <1>19, <1>20, <1>21, <1>22, <1>23,
     <1>24, <1>25
     DEF Next, Starts, GoesOn

(* Nobody sleeps for a signal that was given before.                        *)
LEMMA SignalStep ==
    ASSUME TypeOK, CallShape, LifeShape, OwnerShape, SignalShape, [Next]_vars
    PROVE  SignalShape'
<1>1. ASSUME NEW t \in Tasks, NEW c \in Tasks, CreateTask(t, c) PROVE SignalShape'
  BY <1>1 DEF CreateTask, SignalShape, Over, wakeVars, reqVars
<1>2. ASSUME NEW t \in Tasks, NEW c \in Tasks, internalKill(t, c) PROVE SignalShape'
  BY <1>2 DEF internalKill, User, Murder, Goes, SignalShape, Over, reqVars
<1>3. ASSUME NEW t \in Tasks, NEW x \in Reqs \cup Tasks, CheckIO(t, x) PROVE SignalShape'
  BY <1>3, TaskLifeAssumption
     DEF CheckIO, Goes, TypeOK, SignalShape, Over, wakeVars, reqVars
<1>4. ASSUME NEW t \in Tasks, internalWait(t) PROVE SignalShape'
  <2>0. /\ Runs(t) /\ life[t] = "alive" /\ at[t] = "checked"
        /\ UNCHANGED <<life, killer, todo, lastPass, waitItem, reqVars>>
    BY <1>4 DEF internalWait
  <2>1. CASE /\ {SignalOf(arg[t]), "ABORT"} \cap sigBits[t] # {}
             /\ sigBits' = [sigBits EXCEPT ![t] = @ \ ({SignalOf(arg[t]), "ABORT"} \cap @)]
             /\ Goes(t, "user", NoReq) /\ UNCHANGED <<asleep, waitBits>>
    BY <2>0, <2>1 DEF Goes, TypeOK, SignalShape, Over, reqVars
  <2>2. CASE /\ {SignalOf(arg[t]), "ABORT"} \cap sigBits[t] = {}
             /\ asleep' = asleep \cup {t} /\ waitBits' = [waitBits EXCEPT ![t] = {SignalOf(arg[t]), "ABORT"}]
             /\ Goes(t, "waitsig", arg[t]) /\ UNCHANGED sigBits
    BY <2>0, <2>2 DEF Goes, SignalShape, Over, reqVars
  <2> QED BY <1>4, <2>1, <2>2 DEF internalWait
<1>5. ASSUME NEW t \in Tasks, exit(t) PROVE SignalShape'
  BY <1>5 DEF exit, User, Suicide, Goes, SignalShape, Over, wakeVars, reqVars
<1>6. ASSUME NEW t \in Tasks, NEW r \in Reqs, internalCreateIOReq(t, r) PROVE SignalShape'
  BY <1>6 DEF internalCreateIOReq, SignalShape, Over, taskVars, wakeVars
<1>7. ASSUME NEW t \in Tasks, NEW r \in Reqs, SendIO(t, r) PROVE SignalShape'
  <2>0. /\ User(t) /\ owner[r] = t /\ r \in done /\ LeftAlone(r)
        /\ UNCHANGED <<taskVars, waitItem, waitBits, owner, aborted, sigItem>>
    BY <1>7 DEF SendIO
  <2>1. CASE internalSignal(t, "IODONE") /\ UNCHANGED <<done, busy>>
    BY <2>0, <2>1 DEF internalSignal, SignalShape, Over, taskVars
  <2>2. CASE /\ done' = done \ {r} /\ busy' = busy \cup {r}
             /\ UNCHANGED <<asleep, sigBits>>
    BY <2>0, <2>2 DEF SignalShape, Over, taskVars
  <2> QED BY <1>7, <2>1, <2>2 DEF SendIO
<1>8. ASSUME NEW t \in Tasks, NEW r \in Reqs, DoIO(t, r) PROVE SignalShape'
  BY <1>8 DEF DoIO, User, Goes, SignalShape, Over, wakeVars
<1>9. ASSUME NEW t \in Tasks, NEW r \in Reqs, WaitIO(t, r) PROVE SignalShape'
  <2>0. /\ User(t) /\ owner[r] = t
        /\ UNCHANGED <<life, killer, todo, lastPass, sigBits, waitBits, reqVars>>
    BY <1>9 DEF WaitIO, internalWaitIO
  <2>1. CASE r \in done /\ Returns(t) /\ UNCHANGED <<asleep, waitItem>>
    BY <2>0, <2>1 DEF User, Returns, Goes, SignalShape, Over, reqVars
  <2>2. CASE /\ r \notin done /\ asleep' = asleep \cup {t}
             /\ waitItem' = [waitItem EXCEPT ![t] = r] /\ Goes(t, "waitio", r)
    BY <2>0, <2>2 DEF User, Goes, SignalShape, Over, reqVars
  <2> QED BY <1>9, <2>1, <2>2 DEF WaitIO, internalWaitIO
<1>10. ASSUME NEW t \in Tasks, NEW r \in Reqs, AbortIO(t, r) PROVE SignalShape'
  <2>0. /\ User(t) /\ owner[r] = t /\ r \notin done /\ UNCHANGED <<taskVars, owner, sigItem>>
    BY <1>10 DEF AbortIO
  <2>1. CASE internalCompleteIO(r)
    BY <2>0, <2>1, CompleteEffect
       DEF User, OwnerShape, SignalShape, Over, WithOwn, taskVars
  <2>2. CASE aborted' = aborted \cup {r} /\ UNCHANGED <<wakeVars, done, busy>>
    BY <2>0, <2>2 DEF SignalShape, Over, taskVars, wakeVars
  <2> QED BY <1>10, <2>1, <2>2 DEF AbortIO
<1>11. ASSUME NEW t \in Tasks, NEW r \in Reqs, DeleteIOReq(t, r) PROVE SignalShape'
  <2>0. /\ User(t) /\ LeftAlone(r) /\ owner[r] = t
        /\ UNCHANGED <<life, killer, todo, lastPass>>
    BY <1>11 DEF DeleteIOReq, internalDeleteIOReq
  <2>1. CASE /\ r \in done /\ owner' = [owner EXCEPT ![r] = NoTask]
             /\ UNCHANGED <<at, arg, wakeVars, done, busy, aborted, sigItem>>
    BY <2>0, <2>1 DEF SignalShape, Over, wakeVars
  <2>2. CASE /\ r \notin done /\ internalCompleteIO(r) /\ owner' = [owner EXCEPT ![r] = NoTask]
             /\ UNCHANGED <<at, arg, sigItem>>
    BY <2>0, <2>2, CompleteEffect DEF User, OwnerShape, SignalShape, Over, WithOwn
  <2>3. CASE r \notin done /\ AbortSleeps(t, r, "deleting")
    BY <2>0, <2>3 DEF User, AbortSleeps, Goes, SignalShape, Over
  <2> QED BY <1>11, <2>1, <2>2, <2>3 DEF DeleteIOReq, internalDeleteIOReq
<1>12. ASSUME NEW t \in Tasks, NEW r \in Reqs, AbortIOReqs(t, r) PROVE SignalShape'
  <2>0. /\ User(t) /\ owner[r] # NoTask /\ r \notin done /\ LeftAlone(r) /\ WillStay(t, r)
        /\ UNCHANGED <<life, killer, todo, lastPass>>
    BY <1>12 DEF AbortIOReqs
  <2>1. CASE internalCompleteIO(r) /\ UNCHANGED <<at, arg, owner, sigItem>>
    BY <2>0, <2>1, TaskLifeAssumption, CompleteEffect
       DEF CallShape, CallOf, OwnerShape, SignalShape, Over, SignalOf, WithOwn
  <2>2. CASE AbortSleeps(t, r, "scanning")
    BY <2>0, <2>2 DEF User, AbortSleeps, Goes, SignalShape, Over
  <2> QED BY <1>12, <2>1, <2>2 DEF AbortIOReqs
<1>13. ASSUME NEW t \in Tasks, NEW r \in Reqs, NEW u \in Tasks, SetIOReqOwner(t, r, u) PROVE SignalShape'
  BY <1>13 DEF SetIOReqOwner, SignalShape, Over, taskVars, wakeVars
<1>14. ASSUME NEW t \in Tasks, internalWaitReturns(t) PROVE SignalShape'
  BY <1>14, TaskLifeAssumption
     DEF internalWaitReturns, Returns, Goes, SignalShape, Over, reqVars
<1>15. ASSUME NEW t \in Tasks, DoIOWaits(t) PROVE SignalShape'
  <2>0. /\ at[t] = "doio"
        /\ UNCHANGED <<life, killer, todo, lastPass, sigBits, waitBits, reqVars>>
    BY <1>15 DEF DoIOWaits, internalWaitIO
  <2>1. CASE arg[t] \in done /\ Returns(t) /\ UNCHANGED <<asleep, waitItem>>
    BY <2>0, <2>1 DEF Returns, Goes, SignalShape, Over, reqVars
  <2>2. CASE /\ arg[t] \notin done /\ asleep' = asleep \cup {t}
             /\ waitItem' = [waitItem EXCEPT ![t] = arg[t]] /\ Goes(t, "waitio", arg[t])
    BY <2>0, <2>2 DEF Goes, SignalShape, Over, reqVars
  <2> QED BY <1>15, <2>1, <2>2 DEF DoIOWaits, internalWaitIO
<1>16. ASSUME NEW t \in Tasks, WaitIOReturns(t) PROVE SignalShape'
  BY <1>16 DEF WaitIOReturns, Returns, Goes, SignalShape, Over, reqVars
<1>17. ASSUME NEW t \in Tasks, AbortReturns(t) PROVE SignalShape'
  <2>0. /\ Runs(t) /\ at[t] \in {"deleting", "scanning"}
        /\ UNCHANGED <<life, killer, todo, lastPass, waitItem, sigBits, waitBits, done, busy, aborted>>
    BY <1>17 DEF AbortReturns
  <2>1. CASE /\ arg[t] \in done /\ sigItem' = [sigItem EXCEPT ![arg[t]] = NoTask]
             /\ at[t] = "deleting" /\ owner' = [owner EXCEPT ![arg[t]] = NoTask]
             /\ Returns(t) /\ UNCHANGED asleep
    BY <2>0, <2>1 DEF Returns, Goes, SignalShape, Over
  <2>2. CASE /\ arg[t] \in done /\ sigItem' = [sigItem EXCEPT ![arg[t]] = NoTask]
             /\ at[t] = "scanning" /\ Returns(t) /\ UNCHANGED <<owner, asleep>>
    BY <2>0, <2>2 DEF Returns, Goes, SignalShape, Over
  <2>3. CASE /\ arg[t] \notin done /\ sigItem' = [sigItem EXCEPT ![arg[t]] = t]
             /\ asleep' = asleep \cup {t} /\ UNCHANGED <<at, arg, owner>>
    BY <2>0, <2>3 DEF SignalShape, Over
  <2> QED BY <1>17, <2>1, <2>2, <2>3 DEF AbortReturns
<1>18. ASSUME NEW t \in Tasks, KillReturns(t) PROVE SignalShape'
  BY <1>18 DEF KillReturns, Returns, Goes, SignalShape, Over, wakeVars, reqVars
<1>19. ASSUME NEW t \in Tasks, KillSelf(t) PROVE SignalShape'
  BY <1>19 DEF KillSelf, Suicide, Goes, TypeOK, SignalShape, Over, wakeVars, reqVars
<1>20. ASSUME NEW t \in Tasks, FreeRest(t) PROVE SignalShape'
  BY <1>20 DEF FreeRest, SignalShape, Over, wakeVars, reqVars
<1>21. ASSUME NEW t \in Tasks, Dies(t) PROVE SignalShape'
  BY <1>21 DEF Dies, Goes, TypeOK, SignalShape, Over, SignalOf, reqVars
<1>22. ASSUME NEW t \in Tasks, NEW c \in Tasks, FreeChild(t, c) PROVE SignalShape'
  <2>0. /\ Frees(t) /\ c \in todo[t] /\ todo' = [todo EXCEPT ![t] = @ \ {c}]
    BY <1>22 DEF FreeChild
  <2>1. CASE life[c] \in {"alive", "doomed"} /\ Murder(t, c)
    BY <2>0, <2>1 DEF Frees, Murder, Goes, SignalShape, Over, reqVars
  <2>2. CASE /\ life[c] \notin {"alive", "doomed"}
             /\ UNCHANGED <<life, at, arg, killer, lastPass, wakeVars, reqVars>>
    BY <2>2 DEF SignalShape, Over, wakeVars, reqVars
  <2> QED BY <1>22, <2>1, <2>2 DEF FreeChild
<1>23. ASSUME NEW t \in Tasks, NEW r \in Reqs, FreeIOReq(t, r) PROVE SignalShape'
  <2>0. /\ Frees(t) /\ todo[t] = {} /\ t \notin lastPass /\ owner[r] = t
        /\ UNCHANGED <<life, killer, todo, lastPass>>
    BY <1>23 DEF FreeIOReq, internalDeleteIOReq
  <2>1. CASE /\ r \in done /\ owner' = [owner EXCEPT ![r] = NoTask]
             /\ UNCHANGED <<at, arg, wakeVars, done, busy, aborted, sigItem>>
    BY <2>0, <2>1 DEF SignalShape, Over, wakeVars
  <2>2. CASE /\ r \notin done /\ internalCompleteIO(r) /\ owner' = [owner EXCEPT ![r] = NoTask]
             /\ UNCHANGED <<at, arg, sigItem>>
    BY <2>0, <2>2, CompleteEffect DEF Frees, OwnerShape, SignalShape, Over, WithOwn
  <2>3. CASE r \notin done /\ AbortSleeps(t, r, "deleting")
    BY <2>0, <2>3 DEF Frees, AbortSleeps, Goes, SignalShape, Over
  <2> QED BY <1>23, <2>1, <2>2, <2>3 DEF FreeIOReq, internalDeleteIOReq
<1>24. ASSUME NEW r \in Reqs, DeviceCompletes(r) PROVE SignalShape'
  BY <1>24, TaskLifeAssumption, CompleteEffect
     DEF DeviceCompletes, CallShape, CallOf, OwnerShape, SignalShape, Over, SignalOf,
         WithOwn, taskVars
<1>25. CASE UNCHANGED vars
  BY <1>25 DEF vars, SignalShape, Over, taskVars, wakeVars, reqVars
<1> QED BY <1>1, <1>2, <1>3, <1>4, <1>5, <1>6, <1>7, <1>8, <1>9, <1>10, <1>11, <1>12,
     <1>13, <1>14, <1>15, <1>16, <1>17, <1>18, <1>19, <1>20, <1>21, <1>22, <1>23,
     <1>24, <1>25
     DEF Next, Starts, GoesOn

-----------------------------------------------------------------------------
(* Line(t) is t, its parent, the parent of that, and so on.                *)
LEMMA LineOfParent ==
    ASSUME NEW t \in Tasks, NEW u \in Line(t)
    PROVE  /\ u \in Tasks /\ t \in Line(t)
           /\ Parent[u] # NoTask => Parent[u] \in Line(t)
<1>1. u \in Tasks /\ t \in Line(t)
  BY DEF Line
<1>2. SUFFICES ASSUME Parent[u] # NoTask, NEW S \in SUBSET Tasks, t \in S,
                      \A v \in S : Parent[v] \in S \cup {NoTask}
               PROVE  Parent[u] \in S
  <2>1. Parent[u] # NoTask => Parent[u] \in Tasks
    BY <1>1, TaskLifeAssumption
  <2> QED BY <1>1, <2>1 DEF Line
<1>3. u \in S
  BY <1>2 DEF Line
<1> QED BY <1>2, <1>3

(* Who is in the line of t is t or in the line of its parent.               *)
LEMMA LineFromParent ==
    ASSUME NEW t \in Tasks, NEW u \in Line(t), u # t
    PROVE  Parent[t] \in Tasks /\ u \in Line(Parent[t])
<1>1. u \in Tasks
  BY DEF Line
<1>2. ASSUME Parent[t] \notin Tasks PROVE FALSE
  <2>1. Parent[t] = NoTask
    BY <1>2, TaskLifeAssumption
  <2>2. u \in {t}
    <3>1. {t} \in SUBSET Tasks /\ t \in {t} /\ \A v \in {t} : Parent[v] \in {t} \cup {NoTask}
      BY <2>1
    <3> QED BY <3>1 DEF Line
  <2> QED BY <2>2
<1>3. ASSUME Parent[t] \in Tasks PROVE u \in Line(Parent[t])
  <2> DEFINE S == {t} \cup Line(Parent[t])
  <2>1. S \in SUBSET Tasks /\ t \in S
    BY DEF Line
  <2>2. Parent[t] \in Line(Parent[t])
    BY <1>3 DEF Line
  <2>3. ASSUME NEW v \in S PROVE Parent[v] \in S \cup {NoTask}
    <3>1. CASE v = t
      BY <3>1, <2>2
    <3>2. CASE v \in Line(Parent[t])
      BY <3>2, <1>3, LineOfParent
    <3> QED BY <3>1, <3>2
  <2>4. u \in S
    <3> HIDE DEF S
    <3> QED BY <2>1, <2>3 DEF Line
  <2> QED BY <2>4
<1> QED BY <1>2, <1>3

(* The line of an ancestor is part of the line.                             *)
LEMMA LineInLine ==
    ASSUME NEW t \in Tasks, NEW u \in Line(t)
    PROVE  Line(u) \subseteq Line(t)
<1>1. u \in Tasks /\ Line(t) \in SUBSET Tasks
  BY DEF Line
<1>2. \A v \in Line(t) : Parent[v] \in Line(t) \cup {NoTask}
  BY LineOfParent
<1>3. SUFFICES ASSUME NEW v \in Line(u) PROVE v \in Line(t)
  OBVIOUS
<1>4. \A S \in SUBSET Tasks : u \in S /\ (\A w \in S : Parent[w] \in S \cup {NoTask}) => v \in S
  BY DEF Line
<1> QED BY <1>1, <1>2, <1>4

(* Nobody is above itself: the tasks of such a circle would all have their  *)
(* parents in it.                                                           *)
LEMMA NoCircle ==
    ASSUME NEW t \in Tasks, NEW c \in Tasks, Parent[c] = t
    PROVE  c \notin Line(t)
<1>1. SUFFICES ASSUME c \in Line(t) PROVE FALSE
  OBVIOUS
<1> DEFINE S == {v \in Line(c) : c \in Line(v)}
<1>2. t \in Line(c) /\ c \in Line(c)
  <2>1. c \in Line(c)
    BY DEF Line
  <2>2. t # NoTask
    BY TaskLifeAssumption
  <2> QED BY <2>1, <2>2, LineOfParent
<1>3. S \in SUBSET Tasks /\ S # {}
  BY <1>2 DEF Line
<1>4. ASSUME NEW v \in S PROVE Parent[v] \in S
  <2>1. v \in Tasks /\ v \in Line(c) /\ c \in Line(v)
    BY DEF Line
  <2>2. CASE v = c
    BY <2>2, <1>1, <1>2
  <2>3. CASE v # c
    <3>1. Parent[v] \in Tasks /\ c \in Line(Parent[v])
      BY <2>1, <2>3, LineFromParent
    <3>2. Parent[v] \in Line(c)
      BY <2>1, <3>1, LineOfParent, TaskLifeAssumption
    <3> QED BY <3>1, <3>2
  <2> QED BY <2>2, <2>3
<1> HIDE DEF S
<1> QED BY <1>3, <1>4, TaskLifeAssumption

-----------------------------------------------------------------------------
(* A task that kills in a system call or as it dies was in no kill before.  *)
LEMMA KillerWasFree ==
    ASSUME TypeOK, VictimKnowsKiller, NEW k \in Tasks, NEW v \in Tasks,
           Parent[v] = k, at[k] # "killing", Murder(k, v)
    PROVE  VictimKnowsKiller'
<1>1. /\ killer' = [killer EXCEPT ![v] = k]
      /\ at' = [at EXCEPT ![k] = "killing"] /\ arg' = [arg EXCEPT ![k] = v]
  BY DEF Murder, Goes
<1> QED BY <1>1 DEF VictimKnowsKiller, TypeOK

(* Most steps leave lives and killers alone.                                *)
LEMMA QuietDeath ==
    ASSUME TypeOK, DeathInv, life' = life, todo' = todo, killer' = killer,
           \A t \in Tasks : /\ at[t] = "killing" <=> at'[t] = "killing"
                            /\ at[t] = "killing" => arg'[t] = arg[t]
                            /\ at[t] = "killing" /\ t \in asleep => t \in asleep'
    PROVE  DeathInv'
<1>1. /\ \A t \in Tasks : (Living(t)' <=> Living(t)) /\ (Going(t)' <=> Going(t))
      /\ \A t \in Tasks : Line(t)' = Line(t)
  BY DEF Living, Going
<1>2. ParentsLive' /\ BelowDoomed' /\ BelowTodo'
  BY <1>1, TaskLifeAssumption DEF DeathInv, ParentsLive, BelowDoomed, BelowTodo
<1>3. ChildrenSeen'
  BY <1>1 DEF DeathInv, ChildrenSeen
<1>4. VictimKnowsKiller' /\ KillersWait'
  BY <1>1 DEF DeathInv, VictimKnowsKiller, KillersWait, TypeOK
<1> QED BY <1>2, <1>3, <1>4 DEF DeathInv

(* A completion wakes no killer.                                            *)
LEMMA CompleteQuiet ==
    ASSUME TypeOK, CallShape, OwnerShape, NEW r \in Reqs, internalCompleteIO(r)
    PROVE  \A t \in Tasks : at[t] = "killing" /\ t \in asleep => t \in asleep'
<1>1. SUFFICES ASSUME NEW t \in Tasks, at[t] = "killing", t \in asleep, t \notin asleep'
               PROVE  FALSE
  OBVIOUS
<1>2. t = sigItem[r] \/ waitItem[t] = r \/ "IODONE" \in waitBits[t]
  BY <1>1, CompleteEffect
<1> QED BY <1>1, <1>2, TaskLifeAssumption DEF CallShape, CallOf, OwnerShape, OwnerOf

(* A task that is not in the middle of a kill kills its child c: it must not *)
(* be too late for anybody below c, nor too early for anybody above it.      *)
LEMMA MurderInOrder ==
    ASSUME TypeOK, CallShape, LifeShape, DeathInv, NEW t \in Tasks, NEW c \in Tasks,
           Murder(t, c), Parent[c] = t, at[t] # "killing", life[c] \in {"alive", "doomed"},
           todo' \in [Tasks -> SUBSET Tasks],
           \A u, x \in Tasks : /\ x \in todo'[u] => x \in todo[u]
                               /\ x \in todo[u] => x \in todo'[u] \/ (u = t /\ x = c),
           \A x, u \in Tasks : x \in todo'[u] /\ x \in Line(c) => FALSE,
           \A u \in Tasks : /\ c \in Line(u) /\ Going(u) => u = c
                            /\ u \in Line(c) /\ life[u] = "doomed" => u = c
    PROVE  DeathInv'
<1>1. /\ life' = [life EXCEPT ![c] = "doomed"] /\ killer' = [killer EXCEPT ![c] = t]
      /\ at' = [at EXCEPT ![t] = "killing"] /\ arg' = [arg EXCEPT ![t] = c]
      /\ asleep' = (asleep \ {c}) \cup {t}
  BY DEF Murder, Goes
<1>2. /\ \A u \in Tasks : life'[u] = IF u = c THEN "doomed" ELSE life[u]
      /\ \A u \in Tasks : /\ Going(u)' <=> (Going(u) \/ u = c)
                          /\ Living(u)' <=> Living(u)
  BY <1>1 DEF TypeOK, Living, Going
<1>3. /\ \A u \in Tasks : at'[u] = IF u = t THEN "killing" ELSE at[u]
      /\ \A u \in Tasks : arg'[u] = IF u = t THEN c ELSE arg[u]
      /\ \A u \in Tasks : killer'[u] = IF u = c THEN t ELSE killer[u]
  BY <1>1 DEF TypeOK
<1>4. \A u \in Tasks : Line(u)' = Line(u)
  OBVIOUS
<1>5. ParentsLive'
  BY <1>2, TaskLifeAssumption DEF DeathInv, ParentsLive
<1>6. ChildrenSeen'
  BY <1>2, <1>3 DEF DeathInv, ChildrenSeen
<1>7. BelowDoomed'
  BY <1>2, <1>4 DEF DeathInv, BelowDoomed
<1>8. BelowTodo'
  BY <1>2, <1>4 DEF DeathInv, BelowTodo
<1>9. VictimKnowsKiller'
  BY KillerWasFree DEF DeathInv
<1>10. KillersWait'
  <2>1. SUFFICES ASSUME NEW v \in Tasks, v # c, Going(v), killer[v] # NoTask
                 PROVE  at'[killer[v]] = "killing" /\ arg'[killer[v]] = v /\ killer[v] \in asleep'
    BY <1>1, <1>2, <1>3 DEF KillersWait
  <2>2. /\ killer[v] \in Tasks /\ at[killer[v]] = "killing" /\ arg[killer[v]] = v
        /\ killer[v] \in asleep /\ Parent[v] = killer[v]
    BY <2>1 DEF DeathInv, KillersWait, VictimKnowsKiller, TypeOK
  <2>3. killer[v] # c
    <3>1. SUFFICES ASSUME Parent[v] = c PROVE FALSE
      BY <2>2
    <3>2. v \in Line(v) /\ c # NoTask
      BY TaskLifeAssumption DEF Line
    <3>3. c \in Line(v)
      BY <3>1, <3>2, LineOfParent
    <3> QED BY <2>1, <3>3
  <2> QED BY <1>1, <1>3, <2>2, <2>3
<1> QED BY <1>5, <1>6, <1>7, <1>8, <1>9, <1>10 DEF DeathInv

(* A task that deletes itself, with nobody going below it and nobody killed  *)
(* above it.                                                                 *)
LEMMA SuicideInOrder ==
    ASSUME TypeOK, CallShape, LifeShape, DeathInv, NEW t \in Tasks, Suicide(t),
           at[t] # "killing", life[t] \in {"alive", "doomed"},
           \A u \in Tasks : /\ t \in Line(u) /\ Going(u) => u = t
                            /\ u \in Line(t) /\ life[u] = "doomed" => u = t,
           \A x, u \in Tasks : x \in todo[u] /\ x \in Line(t) => FALSE
    PROVE  DeathInv'
<1>1. /\ life' = [life EXCEPT ![t] = "dying"] /\ killer' = killer /\ asleep' = asleep
      /\ at' = [at EXCEPT ![t] = "dying"] /\ arg' = [arg EXCEPT ![t] = NoReq]
      /\ todo' = [todo EXCEPT ![t] = Children(t)]
  BY DEF Suicide, Goes, wakeVars
<1>2. /\ \A u \in Tasks : life'[u] = IF u = t THEN "dying" ELSE life[u]
      /\ \A u \in Tasks : /\ Going(u)' <=> (Going(u) \/ u = t)
                          /\ Living(u)' <=> Living(u)
  BY <1>1 DEF TypeOK, Living, Going
<1>3. /\ \A u \in Tasks : at'[u] = IF u = t THEN "dying" ELSE at[u]
      /\ \A u \in Tasks : u # t => arg'[u] = arg[u]
      /\ \A u \in Tasks : todo'[u] = IF u = t THEN Children(t) ELSE todo[u]
      /\ \A c \in Tasks : c \in Children(t) <=> Parent[c] = t /\ Living(c)
  BY <1>1 DEF TypeOK, Children, Living
<1>4. \A u \in Tasks : Line(u)' = Line(u)
  OBVIOUS
<1>5. ParentsLive'
  BY <1>2, TaskLifeAssumption DEF DeathInv, ParentsLive
<1>6. ChildrenSeen'
  BY <1>2, <1>3 DEF DeathInv, ChildrenSeen
<1>7. BelowDoomed'
  BY <1>2, <1>4 DEF DeathInv, BelowDoomed
<1>8. BelowTodo'
  <2>1. SUFFICES ASSUME NEW u \in Tasks, NEW c \in Tasks, NEW w \in Tasks,
                        c \in todo'[u], c \in Line(w), Going(w) \/ w = t
                 PROVE  FALSE
    BY <1>2, <1>4 DEF BelowTodo
  <2>2. CASE u # t
    BY <2>1, <2>2, <1>3 DEF DeathInv, BelowTodo
  <2>3. CASE u = t
    <3>1. Parent[c] = t
      BY <2>1, <2>3, <1>3
    <3>2. t \in Line(w)
      BY <2>1, <3>1, LineOfParent, TaskLifeAssumption
    <3>3. w = t
      BY <2>1, <3>2
    <3> QED BY <2>1, <3>1, <3>3, NoCircle
  <2> QED BY <2>2, <2>3
<1>9. VictimKnowsKiller'
  BY <1>1, <1>3 DEF DeathInv, VictimKnowsKiller
<1>10. KillersWait'
  <2>1. SUFFICES ASSUME NEW v \in Tasks, Going(v)', killer[v] # NoTask
                 PROVE  at'[killer[v]] = "killing" /\ arg'[killer[v]] = v /\ killer[v] \in asleep'
    BY <1>1 DEF KillersWait
  <2>2. Going(v)
    BY <2>1, <1>2 DEF LifeShape, LifeOf, Going
  <2>3. /\ killer[v] \in Tasks /\ at[killer[v]] = "killing" /\ arg[killer[v]] = v
        /\ killer[v] \in asleep
    BY <2>1, <2>2 DEF DeathInv, KillersWait, TypeOK
  <2> QED BY <1>1, <1>3, <2>3
<1> QED BY <1>5, <1>6, <1>7, <1>8, <1>9, <1>10 DEF DeathInv

(* Children die before their parents, and killers sleep until it is done.   *)
LEMMA DeathStep ==
    ASSUME TypeOK, CallShape, LifeShape, OwnerShape, DeathInv, Orderly,
           KilledByParent, [Next]_vars
    PROVE  DeathInv'
<1>1. ASSUME NEW t \in Tasks, NEW c \in Tasks, CreateTask(t, c) PROVE DeathInv'
  <2>1. /\ life' = [life EXCEPT ![c] = "alive"] /\ todo' = todo /\ killer' = killer
        /\ at' = at /\ arg' = arg /\ asleep' = asleep
        /\ life[t] = "alive" /\ life[c] = "unborn" /\ Parent[c] = t
    BY <1>1 DEF CreateTask, User, wakeVars
  <2>2. /\ \A u \in Tasks : life'[u] = IF u = c THEN "alive" ELSE life[u]
        /\ \A u \in Tasks : (Going(u)' <=> Going(u)) /\ (Living(u)' <=> (Living(u) \/ u = c))
    BY <2>1 DEF TypeOK, Living, Going
  <2>3. ParentsLive' /\ ChildrenSeen'
    BY <2>1, <2>2 DEF DeathInv, ParentsLive, ChildrenSeen, Living
  <2>4. BelowDoomed' /\ BelowTodo'
    BY <2>1, <2>2 DEF DeathInv, BelowDoomed, BelowTodo
  <2>5. VictimKnowsKiller' /\ KillersWait'
    BY <2>1, <2>2 DEF DeathInv, VictimKnowsKiller, KillersWait
  <2> QED BY <2>3, <2>4, <2>5 DEF DeathInv
<1>2. ASSUME NEW t \in Tasks, NEW c \in Tasks, internalKill(t, c) PROVE DeathInv'
  <2>1. /\ Murder(t, c) /\ todo' = todo /\ at[t] = "user" /\ life[t] = "alive"
        /\ Parent[c] = t /\ Settled(c) /\ life[c] \in {"alive", "doomed"}
    BY <1>2 DEF internalKill, User, KilledByParent
  <2>2. \A x, u \in Tasks : x \in todo[u] /\ x \in Line(c) => FALSE
    <3>1. SUFFICES ASSUME NEW x \in Tasks, NEW u \in Tasks, x \in todo[u], x \in Line(c)
                   PROVE  FALSE
      OBVIOUS
    <3>2. Parent[x] = u /\ life[u] = "dying"
      BY <3>1 DEF LifeShape, LifeOf
    <3>3. u \in Line(c)
      BY <3>1, <3>2, LineOfParent, TaskLifeAssumption
    <3> QED BY <2>1, <3>2, <3>3 DEF Settled
  <2>3. \A u \in Tasks : /\ c \in Line(u) /\ Going(u) => u = c
                         /\ u \in Line(c) /\ life[u] = "doomed" => u = c
    BY <2>1 DEF Settled, Going
  <2>4. todo' \in [Tasks -> SUBSET Tasks]
    BY <2>1 DEF TypeOK
  <2> QED BY <2>1, <2>2, <2>3, <2>4, MurderInOrder
<1>3. ASSUME NEW t \in Tasks, NEW x \in Reqs \cup Tasks, CheckIO(t, x) PROVE DeathInv'
  BY <1>3, QuietDeath DEF CheckIO, User, Goes, wakeVars
<1>4. ASSUME NEW t \in Tasks, internalWait(t) PROVE DeathInv'
  <2>0. /\ Runs(t) /\ life[t] = "alive" /\ at[t] = "checked"
        /\ UNCHANGED <<life, killer, todo, lastPass, waitItem, reqVars>>
    BY <1>4 DEF internalWait
  <2>1. CASE /\ {SignalOf(arg[t]), "ABORT"} \cap sigBits[t] # {}
             /\ sigBits' = [sigBits EXCEPT ![t] = @ \ ({SignalOf(arg[t]), "ABORT"} \cap @)]
             /\ Goes(t, "user", NoReq) /\ UNCHANGED <<asleep, waitBits>>
    BY <2>0, <2>1, QuietDeath DEF Goes
  <2>2. CASE /\ {SignalOf(arg[t]), "ABORT"} \cap sigBits[t] = {}
             /\ asleep' = asleep \cup {t} /\ waitBits' = [waitBits EXCEPT ![t] = {SignalOf(arg[t]), "ABORT"}]
             /\ Goes(t, "waitsig", arg[t]) /\ UNCHANGED sigBits
    BY <2>0, <2>2, QuietDeath DEF Goes
  <2> QED BY <1>4, <2>1, <2>2 DEF internalWait
<1>5. ASSUME NEW t \in Tasks, exit(t) PROVE DeathInv'
  <2>1. Suicide(t) /\ life[t] = "alive" /\ at[t] = "user"
    BY <1>5 DEF exit, User
  <2>2. \A u \in Tasks : /\ t \in Line(u) /\ Going(u) => u = t
                         /\ u \in Line(t) /\ life[u] = "doomed" => u = t
    BY <1>5 DEF exit, Settled, Going
  <2>3. \A x, u \in Tasks : x \in todo[u] /\ x \in Line(t) => FALSE
    <3>1. SUFFICES ASSUME NEW x \in Tasks, NEW u \in Tasks, x \in todo[u], x \in Line(t)
                   PROVE  FALSE
      OBVIOUS
    <3>2. Parent[x] = u /\ life[u] = "dying"
      BY <3>1 DEF LifeShape, LifeOf
    <3>3. u \in Line(t)
      BY <3>1, <3>2, LineOfParent, TaskLifeAssumption
    <3> QED BY <1>5, <2>1, <3>2, <3>3 DEF exit, Settled
  <2> QED BY <2>1, <2>2, <2>3, SuicideInOrder
<1>6. ASSUME NEW t \in Tasks, NEW r \in Reqs, internalCreateIOReq(t, r) PROVE DeathInv'
  BY <1>6, QuietDeath DEF internalCreateIOReq, taskVars, wakeVars
<1>7. ASSUME NEW t \in Tasks, NEW r \in Reqs, SendIO(t, r) PROVE DeathInv'
  <2>0. /\ User(t) /\ owner[r] = t /\ r \in done /\ LeftAlone(r)
        /\ UNCHANGED <<taskVars, waitItem, waitBits, owner, aborted, sigItem>>
    BY <1>7 DEF SendIO
  <2>1. CASE internalSignal(t, "IODONE") /\ UNCHANGED <<done, busy>>
    BY <2>0, <2>1, QuietDeath DEF User, internalSignal, taskVars, Woken
  <2>2. CASE /\ done' = done \ {r} /\ busy' = busy \cup {r}
             /\ UNCHANGED <<asleep, sigBits>>
    BY <2>0, <2>2, QuietDeath DEF taskVars
  <2> QED BY <1>7, <2>1, <2>2 DEF SendIO
<1>8. ASSUME NEW t \in Tasks, NEW r \in Reqs, DoIO(t, r) PROVE DeathInv'
  BY <1>8, QuietDeath DEF DoIO, User, Goes, wakeVars
<1>9. ASSUME NEW t \in Tasks, NEW r \in Reqs, WaitIO(t, r) PROVE DeathInv'
  <2>0. /\ User(t) /\ owner[r] = t
        /\ UNCHANGED <<life, killer, todo, lastPass, sigBits, waitBits, reqVars>>
    BY <1>9 DEF WaitIO, internalWaitIO
  <2>1. CASE r \in done /\ Returns(t) /\ UNCHANGED <<asleep, waitItem>>
    BY <2>0, <2>1, QuietDeath DEF User, Returns, Goes
  <2>2. CASE /\ r \notin done /\ asleep' = asleep \cup {t}
             /\ waitItem' = [waitItem EXCEPT ![t] = r] /\ Goes(t, "waitio", r)
    BY <2>0, <2>2, QuietDeath DEF User, Goes
  <2> QED BY <1>9, <2>1, <2>2 DEF WaitIO, internalWaitIO
<1>10. ASSUME NEW t \in Tasks, NEW r \in Reqs, AbortIO(t, r) PROVE DeathInv'
  <2>0. /\ User(t) /\ owner[r] = t /\ r \notin done /\ UNCHANGED <<taskVars, owner, sigItem>>
    BY <1>10 DEF AbortIO
  <2>1. CASE internalCompleteIO(r)
    BY <2>0, <2>1, QuietDeath, CompleteQuiet DEF taskVars
  <2>2. CASE aborted' = aborted \cup {r} /\ UNCHANGED <<wakeVars, done, busy>>
    BY <2>0, <2>2, QuietDeath DEF taskVars, wakeVars
  <2> QED BY <1>10, <2>1, <2>2 DEF AbortIO
<1>11. ASSUME NEW t \in Tasks, NEW r \in Reqs, DeleteIOReq(t, r) PROVE DeathInv'
  <2>0. /\ User(t) /\ LeftAlone(r) /\ owner[r] = t
        /\ UNCHANGED <<life, killer, todo, lastPass>>
    BY <1>11 DEF DeleteIOReq, internalDeleteIOReq
  <2>1. CASE /\ r \in done /\ owner' = [owner EXCEPT ![r] = NoTask]
             /\ UNCHANGED <<at, arg, wakeVars, done, busy, aborted, sigItem>>
    BY <2>0, <2>1, QuietDeath DEF wakeVars
  <2>2. CASE /\ r \notin done /\ internalCompleteIO(r) /\ owner' = [owner EXCEPT ![r] = NoTask]
             /\ UNCHANGED <<at, arg, sigItem>>
    BY <2>0, <2>2, QuietDeath, CompleteQuiet
  <2>3. CASE r \notin done /\ AbortSleeps(t, r, "deleting")
    BY <2>0, <2>3, QuietDeath DEF User, AbortSleeps, Goes
  <2> QED BY <1>11, <2>1, <2>2, <2>3 DEF DeleteIOReq, internalDeleteIOReq
<1>12. ASSUME NEW t \in Tasks, NEW r \in Reqs, AbortIOReqs(t, r) PROVE DeathInv'
  <2>0. /\ User(t) /\ owner[r] # NoTask /\ r \notin done /\ LeftAlone(r) /\ WillStay(t, r)
        /\ UNCHANGED <<life, killer, todo, lastPass>>
    BY <1>12 DEF AbortIOReqs
  <2>1. CASE internalCompleteIO(r) /\ UNCHANGED <<at, arg, owner, sigItem>>
    BY <2>0, <2>1, QuietDeath, CompleteQuiet
  <2>2. CASE AbortSleeps(t, r, "scanning")
    BY <2>0, <2>2, QuietDeath DEF User, AbortSleeps, Goes
  <2> QED BY <1>12, <2>1, <2>2 DEF AbortIOReqs
<1>13. ASSUME NEW t \in Tasks, NEW r \in Reqs, NEW u \in Tasks, SetIOReqOwner(t, r, u) PROVE DeathInv'
  BY <1>13, QuietDeath DEF SetIOReqOwner, taskVars, wakeVars
<1>14. ASSUME NEW t \in Tasks, internalWaitReturns(t) PROVE DeathInv'
  BY <1>14, QuietDeath DEF internalWaitReturns, Returns, Goes
<1>15. ASSUME NEW t \in Tasks, DoIOWaits(t) PROVE DeathInv'
  <2>0. /\ at[t] = "doio"
        /\ UNCHANGED <<life, killer, todo, lastPass, sigBits, waitBits, reqVars>>
    BY <1>15 DEF DoIOWaits, internalWaitIO
  <2>1. CASE arg[t] \in done /\ Returns(t) /\ UNCHANGED <<asleep, waitItem>>
    BY <2>0, <2>1, QuietDeath DEF Returns, Goes
  <2>2. CASE /\ arg[t] \notin done /\ asleep' = asleep \cup {t}
             /\ waitItem' = [waitItem EXCEPT ![t] = arg[t]] /\ Goes(t, "waitio", arg[t])
    BY <2>0, <2>2, QuietDeath DEF Goes
  <2> QED BY <1>15, <2>1, <2>2 DEF DoIOWaits, internalWaitIO
<1>16. ASSUME NEW t \in Tasks, WaitIOReturns(t) PROVE DeathInv'
  BY <1>16, QuietDeath DEF WaitIOReturns, Returns, Goes
<1>17. ASSUME NEW t \in Tasks, AbortReturns(t) PROVE DeathInv'
  <2>0. /\ Runs(t) /\ at[t] \in {"deleting", "scanning"}
        /\ UNCHANGED <<life, killer, todo, lastPass, waitItem, sigBits, waitBits, done, busy, aborted>>
    BY <1>17 DEF AbortReturns
  <2>1. CASE /\ arg[t] \in done /\ sigItem' = [sigItem EXCEPT ![arg[t]] = NoTask]
             /\ at[t] = "deleting" /\ owner' = [owner EXCEPT ![arg[t]] = NoTask]
             /\ Returns(t) /\ UNCHANGED asleep
    BY <2>0, <2>1, QuietDeath DEF Returns, Goes
  <2>2. CASE /\ arg[t] \in done /\ sigItem' = [sigItem EXCEPT ![arg[t]] = NoTask]
             /\ at[t] = "scanning" /\ Returns(t) /\ UNCHANGED <<owner, asleep>>
    BY <2>0, <2>2, QuietDeath DEF Returns, Goes
  <2>3. CASE /\ arg[t] \notin done /\ sigItem' = [sigItem EXCEPT ![arg[t]] = t]
             /\ asleep' = asleep \cup {t} /\ UNCHANGED <<at, arg, owner>>
    BY <2>0, <2>3, QuietDeath
  <2> QED BY <1>17, <2>1, <2>2, <2>3 DEF AbortReturns
<1>18. ASSUME NEW t \in Tasks, KillReturns(t) PROVE DeathInv'
  <2>1. /\ life' = life /\ todo' = todo /\ killer' = killer /\ asleep' = asleep
        /\ t \notin asleep /\ at[t] = "killing"
        /\ \A u \in Tasks : u # t => at'[u] = at[u] /\ arg'[u] = arg[u]
        /\ at'[t] # "killing"
    BY <1>18 DEF KillReturns, Runs, Returns, Goes, wakeVars, TypeOK
  <2>2. arg[t] \in Tasks /\ killer[arg[t]] = t /\ ~Going(arg[t]) /\ life[arg[t]] = "dead"
    BY <2>1, TaskLifeAssumption
       DEF CallShape, CallOf, DeathInv, VictimKnowsKiller, KillersWait, LifeShape,
           LifeOf, Going
  <2>3. \A u \in Tasks : (Living(u)' <=> Living(u)) /\ (Going(u)' <=> Going(u))
    BY <2>1 DEF Living, Going
  <2>4. ParentsLive' /\ BelowDoomed' /\ BelowTodo'
    BY <2>1, <2>3, TaskLifeAssumption
       DEF DeathInv, ParentsLive, BelowDoomed, BelowTodo
  <2>5. ChildrenSeen'
    BY <2>1, <2>2, <2>3 DEF DeathInv, ChildrenSeen, Living
  <2>6. VictimKnowsKiller'
    BY <2>1 DEF DeathInv, VictimKnowsKiller
  <2>7. KillersWait'
    BY <2>1, <2>2, <2>3 DEF DeathInv, KillersWait, TypeOK
  <2> QED BY <2>4, <2>5, <2>6, <2>7 DEF DeathInv
<1>19. ASSUME NEW t \in Tasks, KillSelf(t) PROVE DeathInv'
  <2>1. Suicide(t) /\ life[t] = "doomed" /\ at[t] \in {"user", "checked"}
    BY <1>19 DEF KillSelf
  <2>2. \A u \in Tasks : /\ t \in Line(u) /\ Going(u) => u = t
                         /\ u \in Line(t) /\ life[u] = "doomed" => u = t
    BY <2>1 DEF DeathInv, BelowDoomed, Going
  <2>3. \A x, u \in Tasks : x \in todo[u] /\ x \in Line(t) => FALSE
    BY <2>1 DEF DeathInv, BelowTodo, Going
  <2> QED BY <2>1, <2>2, <2>3, SuicideInOrder
<1>20. ASSUME NEW t \in Tasks, FreeRest(t) PROVE DeathInv'
  <2>1. /\ at[t] = "dying" /\ todo[t] = {} /\ todo' = [todo EXCEPT ![t] = Children(t)]
        /\ life' = life /\ at' = at /\ arg' = arg /\ killer' = killer /\ asleep' = asleep
    BY <1>20 DEF FreeRest, Frees, wakeVars
  <2>2. Children(t) = {}
    BY <2>1 DEF Children, DeathInv, ChildrenSeen, LifeShape, LifeOf, Living
  <2>3. todo' = todo
    BY <2>1, <2>2 DEF TypeOK
  <2> QED BY <2>1, <2>3, QuietDeath
<1>21. ASSUME NEW t \in Tasks, Dies(t) PROVE DeathInv'
  <2>1. /\ at[t] = "dying" /\ todo[t] = {} /\ todo' = todo /\ killer' = killer
        /\ life' = [life EXCEPT ![t] = "dead"] /\ life[t] = "dying"
        /\ asleep' = asleep \ ({killer[t]} \cup Woken(Parent[t], "DEADTASK"))
        /\ at' = [at EXCEPT ![t] = "user"] /\ arg' = [arg EXCEPT ![t] = NoReq]
    BY <1>21 DEF Dies, Frees, Goes, LifeShape, LifeOf
  <2>2. /\ \A u \in Tasks : life'[u] = IF u = t THEN "dead" ELSE life[u]
        /\ \A u \in Tasks : /\ Going(u)' <=> (Going(u) /\ u # t)
                            /\ Living(u)' <=> (Living(u) /\ u # t)
    BY <2>1 DEF TypeOK, Living, Going
  <2>3. \A u \in Tasks : at'[u] = (IF u = t THEN "user" ELSE at[u])
                         /\ (u # t => arg'[u] = arg[u])
    BY <2>1 DEF TypeOK
  <2>4. \A c \in Tasks : Parent[c] = t => ~Living(c)
    BY <2>1 DEF DeathInv, ChildrenSeen
  <2>5. ParentsLive' /\ ChildrenSeen'
    BY <2>1, <2>2, <2>3, <2>4, TaskLifeAssumption
       DEF DeathInv, ParentsLive, ChildrenSeen
  <2>6. BelowDoomed' /\ BelowTodo'
    BY <2>1, <2>2 DEF DeathInv, BelowDoomed, BelowTodo
  <2>7. VictimKnowsKiller'
    BY <2>1, <2>3 DEF DeathInv, VictimKnowsKiller
  <2>8. KillersWait'
    <3>1. SUFFICES ASSUME NEW v \in Tasks, Going(v), v # t, killer[v] # NoTask
                   PROVE  at'[killer[v]] = "killing" /\ arg'[killer[v]] = v /\ killer[v] \in asleep'
      BY <2>1, <2>2 DEF KillersWait
    <3>2. killer[v] \in Tasks /\ at[killer[v]] = "killing" /\ arg[killer[v]] = v /\ killer[v] \in asleep
      BY <3>1 DEF DeathInv, KillersWait, TypeOK
    <3>3. killer[v] # killer[t]
      BY <2>1, <3>1, <3>2 DEF DeathInv, KillersWait, Going
    <3>4. killer[v] \notin Woken(Parent[t], "DEADTASK")
      BY <3>2 DEF Woken, CallShape, CallOf
    <3> QED BY <2>1, <2>3, <3>2, <3>3, <3>4
  <2> QED BY <2>5, <2>6, <2>7, <2>8 DEF DeathInv
<1>22. ASSUME NEW t \in Tasks, NEW c \in Tasks, FreeChild(t, c) PROVE DeathInv'
  <2>0. /\ Frees(t) /\ c \in todo[t] /\ todo' = [todo EXCEPT ![t] = @ \ {c}]
    BY <1>22 DEF FreeChild
  <2>1. CASE life[c] \in {"alive", "doomed"} /\ Murder(t, c)
    <3>1. Parent[c] = t /\ at[t] = "dying" /\ life[t] = "dying"
      BY <2>0 DEF Frees, LifeShape, LifeOf
    <3>2. \A x, u \in Tasks : x \in todo'[u] /\ x \in Line(c) => FALSE
      <4>1. SUFFICES ASSUME NEW x \in Tasks, NEW u \in Tasks, x \in todo'[u], x \in Line(c)
                     PROVE  FALSE
        OBVIOUS
      <4>2. x \in todo[u] /\ (u = t => x # c)
        BY <2>0, <4>1 DEF TypeOK
      <4>3. x # c
        BY <3>1, <4>2 DEF LifeShape, LifeOf
      <4>4. x \in Line(t)
        BY <3>1, <4>1, <4>3, LineFromParent
      <4> QED BY <3>1, <4>2, <4>4 DEF DeathInv, BelowTodo, Going
    <3>3. \A u \in Tasks : /\ c \in Line(u) /\ Going(u) => u = c
                           /\ u \in Line(c) /\ life[u] = "doomed" => u = c
      <4>1. ASSUME NEW u \in Tasks, u \in Line(c), life[u] = "doomed" PROVE u = c
        BY <3>1, <4>1, LineFromParent DEF DeathInv, BelowDoomed, Going
      <4> QED BY <2>0, <4>1 DEF DeathInv, BelowTodo
    <3>4. \A u, x \in Tasks : x \in todo'[u] <=> x \in todo[u] /\ ~(u = t /\ x = c)
      BY <2>0 DEF TypeOK
    <3>5. todo' \in [Tasks -> SUBSET Tasks]
      BY <2>0 DEF TypeOK
    <3> QED BY <2>1, <3>1, <3>2, <3>3, <3>4, <3>5, MurderInOrder
  <2>2. CASE /\ life[c] \notin {"alive", "doomed"}
             /\ UNCHANGED <<life, at, arg, killer, lastPass, wakeVars, reqVars>>
    <3>1. life[c] \in {"unborn", "dead"}
      <4>1. c \in Line(c)
        BY DEF Line
      <4> QED BY <2>0, <2>2, <4>1 DEF DeathInv, BelowTodo, Going, TypeOK
    <3>2. \A u, x \in Tasks : x \in todo'[u] <=> x \in todo[u] /\ ~(u = t /\ x = c)
      BY <2>0 DEF TypeOK
    <3>3. \A u \in Tasks : (Living(u)' <=> Living(u)) /\ (Going(u)' <=> Going(u))
      BY <2>2 DEF Living, Going
    <3>4. ParentsLive' /\ BelowDoomed' /\ BelowTodo'
      BY <2>2, <3>2, <3>3, TaskLifeAssumption
         DEF DeathInv, ParentsLive, BelowDoomed, BelowTodo
    <3>5. ChildrenSeen'
      BY <2>2, <3>1, <3>2, <3>3 DEF DeathInv, ChildrenSeen, Living
    <3>6. VictimKnowsKiller' /\ KillersWait'
      BY <2>2, <3>3 DEF DeathInv, VictimKnowsKiller, KillersWait, wakeVars
    <3> QED BY <3>4, <3>5, <3>6 DEF DeathInv
  <2> QED BY <1>22, <2>1, <2>2 DEF FreeChild
<1>23. ASSUME NEW t \in Tasks, NEW r \in Reqs, FreeIOReq(t, r) PROVE DeathInv'
  <2>0. /\ Frees(t) /\ todo[t] = {} /\ t \notin lastPass /\ owner[r] = t
        /\ UNCHANGED <<life, killer, todo, lastPass>>
    BY <1>23 DEF FreeIOReq, internalDeleteIOReq
  <2>1. CASE /\ r \in done /\ owner' = [owner EXCEPT ![r] = NoTask]
             /\ UNCHANGED <<at, arg, wakeVars, done, busy, aborted, sigItem>>
    BY <2>0, <2>1, QuietDeath DEF wakeVars
  <2>2. CASE /\ r \notin done /\ internalCompleteIO(r) /\ owner' = [owner EXCEPT ![r] = NoTask]
             /\ UNCHANGED <<at, arg, sigItem>>
    BY <2>0, <2>2, QuietDeath, CompleteQuiet
  <2>3. CASE r \notin done /\ AbortSleeps(t, r, "deleting")
    BY <2>0, <2>3, QuietDeath DEF Frees, AbortSleeps, Goes
  <2> QED BY <1>23, <2>1, <2>2, <2>3 DEF FreeIOReq, internalDeleteIOReq
<1>24. ASSUME NEW r \in Reqs, DeviceCompletes(r) PROVE DeathInv'
  BY <1>24, QuietDeath, CompleteQuiet DEF DeviceCompletes, taskVars
<1>25. CASE UNCHANGED vars
  BY <1>25, QuietDeath DEF vars, taskVars, wakeVars
<1> QED BY <1>1, <1>2, <1>3, <1>4, <1>5, <1>6, <1>7, <1>8, <1>9, <1>10, <1>11, <1>12,
     <1>13, <1>14, <1>15, <1>16, <1>17, <1>18, <1>19, <1>20, <1>21, <1>22, <1>23,
     <1>24, <1>25
     DEF Next, Starts, GoesOn

(* Nobody else becomes the killer of a task while its parent waits.         *)
LEMMA VictimStep ==
    ASSUME TypeOK, CallShape, LifeShape, OwnerShape,
           VictimKnowsKiller, KilledByParent, [Next]_vars
    PROVE  VictimKnowsKiller'
<1>1. ASSUME NEW t \in Tasks, NEW c \in Tasks, CreateTask(t, c) PROVE VictimKnowsKiller'
  BY <1>1 DEF CreateTask, VictimKnowsKiller
<1>2. ASSUME NEW t \in Tasks, NEW c \in Tasks, internalKill(t, c) PROVE VictimKnowsKiller'
  <2>1. Murder(t, c) /\ at[t] = "user" /\ Parent[c] = t
    BY <1>2 DEF internalKill, User, KilledByParent
  <2> QED BY <2>1, KillerWasFree
<1>3. ASSUME NEW t \in Tasks, NEW x \in Reqs \cup Tasks, CheckIO(t, x) PROVE VictimKnowsKiller'
  BY <1>3 DEF CheckIO, User, Goes, VictimKnowsKiller
<1>4. ASSUME NEW t \in Tasks, internalWait(t) PROVE VictimKnowsKiller'
  <2>0. /\ Runs(t) /\ life[t] = "alive" /\ at[t] = "checked"
        /\ UNCHANGED <<life, killer, todo, lastPass, waitItem, reqVars>>
    BY <1>4 DEF internalWait
  <2>1. CASE /\ {SignalOf(arg[t]), "ABORT"} \cap sigBits[t] # {}
             /\ sigBits' = [sigBits EXCEPT ![t] = @ \ ({SignalOf(arg[t]), "ABORT"} \cap @)]
             /\ Goes(t, "user", NoReq) /\ UNCHANGED <<asleep, waitBits>>
    BY <2>0, <2>1 DEF Goes, VictimKnowsKiller
  <2>2. CASE /\ {SignalOf(arg[t]), "ABORT"} \cap sigBits[t] = {}
             /\ asleep' = asleep \cup {t} /\ waitBits' = [waitBits EXCEPT ![t] = {SignalOf(arg[t]), "ABORT"}]
             /\ Goes(t, "waitsig", arg[t]) /\ UNCHANGED sigBits
    BY <2>0, <2>2 DEF Goes, VictimKnowsKiller
  <2> QED BY <1>4, <2>1, <2>2 DEF internalWait
<1>5. ASSUME NEW t \in Tasks, exit(t) PROVE VictimKnowsKiller'
  BY <1>5 DEF exit, User, Suicide, Goes, VictimKnowsKiller
<1>6. ASSUME NEW t \in Tasks, NEW r \in Reqs, internalCreateIOReq(t, r) PROVE VictimKnowsKiller'
  BY <1>6 DEF internalCreateIOReq, VictimKnowsKiller, taskVars
<1>7. ASSUME NEW t \in Tasks, NEW r \in Reqs, SendIO(t, r) PROVE VictimKnowsKiller'
  <2>0. /\ User(t) /\ owner[r] = t /\ r \in done /\ LeftAlone(r)
        /\ UNCHANGED <<taskVars, waitItem, waitBits, owner, aborted, sigItem>>
    BY <1>7 DEF SendIO
  <2>1. CASE internalSignal(t, "IODONE") /\ UNCHANGED <<done, busy>>
    BY <2>0, <2>1 DEF VictimKnowsKiller, taskVars
  <2>2. CASE /\ done' = done \ {r} /\ busy' = busy \cup {r}
             /\ UNCHANGED <<asleep, sigBits>>
    BY <2>0, <2>2 DEF VictimKnowsKiller, taskVars
  <2> QED BY <1>7, <2>1, <2>2 DEF SendIO
<1>8. ASSUME NEW t \in Tasks, NEW r \in Reqs, DoIO(t, r) PROVE VictimKnowsKiller'
  BY <1>8 DEF DoIO, User, Goes, VictimKnowsKiller
<1>9. ASSUME NEW t \in Tasks, NEW r \in Reqs, WaitIO(t, r) PROVE VictimKnowsKiller'
  <2>0. /\ User(t) /\ owner[r] = t
        /\ UNCHANGED <<life, killer, todo, lastPass, sigBits, waitBits, reqVars>>
    BY <1>9 DEF WaitIO, internalWaitIO
  <2>1. CASE r \in done /\ Returns(t) /\ UNCHANGED <<asleep, waitItem>>
    BY <2>0, <2>1 DEF User, Returns, Goes, VictimKnowsKiller
  <2>2. CASE /\ r \notin done /\ asleep' = asleep \cup {t}
             /\ waitItem' = [waitItem EXCEPT ![t] = r] /\ Goes(t, "waitio", r)
    BY <2>0, <2>2 DEF User, Goes, VictimKnowsKiller
  <2> QED BY <1>9, <2>1, <2>2 DEF WaitIO, internalWaitIO
<1>10. ASSUME NEW t \in Tasks, NEW r \in Reqs, AbortIO(t, r) PROVE VictimKnowsKiller'
  <2>0. /\ User(t) /\ owner[r] = t /\ r \notin done /\ UNCHANGED <<taskVars, owner, sigItem>>
    BY <1>10 DEF AbortIO
  <2>1. CASE internalCompleteIO(r)
    BY <2>0, <2>1 DEF VictimKnowsKiller, taskVars
  <2>2. CASE aborted' = aborted \cup {r} /\ UNCHANGED <<wakeVars, done, busy>>
    BY <2>0, <2>2 DEF VictimKnowsKiller, taskVars
  <2> QED BY <1>10, <2>1, <2>2 DEF AbortIO
<1>11. ASSUME NEW t \in Tasks, NEW r \in Reqs, DeleteIOReq(t, r) PROVE VictimKnowsKiller'
  <2>0. /\ User(t) /\ LeftAlone(r) /\ owner[r] = t
        /\ UNCHANGED <<life, killer, todo, lastPass>>
    BY <1>11 DEF DeleteIOReq, internalDeleteIOReq
  <2>1. CASE /\ r \in done /\ owner' = [owner EXCEPT ![r] = NoTask]
             /\ UNCHANGED <<at, arg, wakeVars, done, busy, aborted, sigItem>>
    BY <2>0, <2>1 DEF VictimKnowsKiller
  <2>2. CASE /\ r \notin done /\ internalCompleteIO(r) /\ owner' = [owner EXCEPT ![r] = NoTask]
             /\ UNCHANGED <<at, arg, sigItem>>
    BY <2>0, <2>2 DEF VictimKnowsKiller
  <2>3. CASE r \notin done /\ AbortSleeps(t, r, "deleting")
    BY <2>0, <2>3 DEF User, AbortSleeps, Goes, VictimKnowsKiller
  <2> QED BY <1>11, <2>1, <2>2, <2>3 DEF DeleteIOReq, internalDeleteIOReq
<1>12. ASSUME NEW t \in Tasks, NEW r \in Reqs, AbortIOReqs(t, r) PROVE VictimKnowsKiller'
  <2>0. /\ User(t) /\ owner[r] # NoTask /\ r \notin done /\ LeftAlone(r) /\ WillStay(t, r)
        /\ UNCHANGED <<life, killer, todo, lastPass>>
    BY <1>12 DEF AbortIOReqs
  <2>1. CASE internalCompleteIO(r) /\ UNCHANGED <<at, arg, owner, sigItem>>
    BY <2>0, <2>1 DEF VictimKnowsKiller
  <2>2. CASE AbortSleeps(t, r, "scanning")
    BY <2>0, <2>2 DEF User, AbortSleeps, Goes, VictimKnowsKiller
  <2> QED BY <1>12, <2>1, <2>2 DEF AbortIOReqs
<1>13. ASSUME NEW t \in Tasks, NEW r \in Reqs, NEW u \in Tasks, SetIOReqOwner(t, r, u) PROVE VictimKnowsKiller'
  BY <1>13 DEF SetIOReqOwner, VictimKnowsKiller, taskVars
<1>14. ASSUME NEW t \in Tasks, internalWaitReturns(t) PROVE VictimKnowsKiller'
  BY <1>14 DEF internalWaitReturns, Returns, Goes, VictimKnowsKiller
<1>15. ASSUME NEW t \in Tasks, DoIOWaits(t) PROVE VictimKnowsKiller'
  <2>0. /\ at[t] = "doio"
        /\ UNCHANGED <<life, killer, todo, lastPass, sigBits, waitBits, reqVars>>
    BY <1>15 DEF DoIOWaits, internalWaitIO
  <2>1. CASE arg[t] \in done /\ Returns(t) /\ UNCHANGED <<asleep, waitItem>>
    BY <2>0, <2>1 DEF Returns, Goes, VictimKnowsKiller
  <2>2. CASE /\ arg[t] \notin done /\ asleep' = asleep \cup {t}
             /\ waitItem' = [waitItem EXCEPT ![t] = arg[t]] /\ Goes(t, "waitio", arg[t])
    BY <2>0, <2>2 DEF Goes, VictimKnowsKiller
  <2> QED BY <1>15, <2>1, <2>2 DEF DoIOWaits, internalWaitIO
<1>16. ASSUME NEW t \in Tasks, WaitIOReturns(t) PROVE VictimKnowsKiller'
  BY <1>16 DEF WaitIOReturns, Returns, Goes, VictimKnowsKiller
<1>17. ASSUME NEW t \in Tasks, AbortReturns(t) PROVE VictimKnowsKiller'
  <2>0. /\ Runs(t) /\ at[t] \in {"deleting", "scanning"}
        /\ UNCHANGED <<life, killer, todo, lastPass, waitItem, sigBits, waitBits, done, busy, aborted>>
    BY <1>17 DEF AbortReturns
  <2>1. CASE /\ arg[t] \in done /\ sigItem' = [sigItem EXCEPT ![arg[t]] = NoTask]
             /\ at[t] = "deleting" /\ owner' = [owner EXCEPT ![arg[t]] = NoTask]
             /\ Returns(t) /\ UNCHANGED asleep
    BY <2>0, <2>1 DEF Returns, Goes, VictimKnowsKiller
  <2>2. CASE /\ arg[t] \in done /\ sigItem' = [sigItem EXCEPT ![arg[t]] = NoTask]
             /\ at[t] = "scanning" /\ Returns(t) /\ UNCHANGED <<owner, asleep>>
    BY <2>0, <2>2 DEF Returns, Goes, VictimKnowsKiller
  <2>3. CASE /\ arg[t] \notin done /\ sigItem' = [sigItem EXCEPT ![arg[t]] = t]
             /\ asleep' = asleep \cup {t} /\ UNCHANGED <<at, arg, owner>>
    BY <2>0, <2>3 DEF VictimKnowsKiller
  <2> QED BY <1>17, <2>1, <2>2, <2>3 DEF AbortReturns
<1>18. ASSUME NEW t \in Tasks, KillReturns(t) PROVE VictimKnowsKiller'
  BY <1>18 DEF KillReturns, Returns, Goes, TypeOK, VictimKnowsKiller
<1>19. ASSUME NEW t \in Tasks, KillSelf(t) PROVE VictimKnowsKiller'
  BY <1>19 DEF KillSelf, Suicide, Goes, VictimKnowsKiller
<1>20. ASSUME NEW t \in Tasks, FreeRest(t) PROVE VictimKnowsKiller'
  BY <1>20 DEF FreeRest, VictimKnowsKiller
<1>21. ASSUME NEW t \in Tasks, Dies(t) PROVE VictimKnowsKiller'
  BY <1>21 DEF Dies, Frees, Goes, VictimKnowsKiller
<1>22. ASSUME NEW t \in Tasks, NEW c \in Tasks, FreeChild(t, c) PROVE VictimKnowsKiller'
  <2>0. /\ Frees(t) /\ c \in todo[t] /\ todo' = [todo EXCEPT ![t] = @ \ {c}]
    BY <1>22 DEF FreeChild
  <2>1. CASE life[c] \in {"alive", "doomed"} /\ Murder(t, c)
    <3>1. Parent[c] = t /\ at[t] = "dying"
      BY <2>0 DEF Frees, LifeShape, LifeOf
    <3> QED BY <2>1, <3>1, KillerWasFree
  <2>2. CASE /\ life[c] \notin {"alive", "doomed"}
             /\ UNCHANGED <<life, at, arg, killer, lastPass, wakeVars, reqVars>>
    BY <2>2 DEF VictimKnowsKiller
  <2> QED BY <1>22, <2>1, <2>2 DEF FreeChild
<1>23. ASSUME NEW t \in Tasks, NEW r \in Reqs, FreeIOReq(t, r) PROVE VictimKnowsKiller'
  <2>0. /\ Frees(t) /\ todo[t] = {} /\ t \notin lastPass /\ owner[r] = t
        /\ UNCHANGED <<life, killer, todo, lastPass>>
    BY <1>23 DEF FreeIOReq, internalDeleteIOReq
  <2>1. CASE /\ r \in done /\ owner' = [owner EXCEPT ![r] = NoTask]
             /\ UNCHANGED <<at, arg, wakeVars, done, busy, aborted, sigItem>>
    BY <2>0, <2>1 DEF VictimKnowsKiller
  <2>2. CASE /\ r \notin done /\ internalCompleteIO(r) /\ owner' = [owner EXCEPT ![r] = NoTask]
             /\ UNCHANGED <<at, arg, sigItem>>
    BY <2>0, <2>2 DEF VictimKnowsKiller
  <2>3. CASE r \notin done /\ AbortSleeps(t, r, "deleting")
    BY <2>0, <2>3 DEF Frees, AbortSleeps, Goes, VictimKnowsKiller
  <2> QED BY <1>23, <2>1, <2>2, <2>3 DEF FreeIOReq, internalDeleteIOReq
<1>24. ASSUME NEW r \in Reqs, DeviceCompletes(r) PROVE VictimKnowsKiller'
  BY <1>24 DEF DeviceCompletes, VictimKnowsKiller, taskVars
<1>25. CASE UNCHANGED vars
  BY <1>25 DEF vars, VictimKnowsKiller, taskVars
<1> QED BY <1>1, <1>2, <1>3, <1>4, <1>5, <1>6, <1>7, <1>8, <1>9, <1>10, <1>11, <1>12,
     <1>13, <1>14, <1>15, <1>16, <1>17, <1>18, <1>19, <1>20, <1>21, <1>22, <1>23,
     <1>24, <1>25
     DEF Next, Starts, GoesOn

(* A task stays inside internalAbortForeignIO until its request wakes it.     *)
LEMMA AborterStep ==
    ASSUME TypeOK, CallShape, LifeShape, OwnerShape,
           AbortersKnown, Careful, [Next]_vars
    PROVE  AbortersKnown'
<1>L. \A t \in Tasks : Line(t)' = Line(t) /\ t \in Line(t) /\ Line(t) \subseteq Tasks
  BY DEF Line
<1>1. ASSUME NEW t \in Tasks, NEW c \in Tasks, CreateTask(t, c) PROVE AbortersKnown'
  BY <1>1 DEF CreateTask, AbortersKnown, reqVars
<1>2. ASSUME NEW t \in Tasks, NEW c \in Tasks, internalKill(t, c) PROVE AbortersKnown'
  BY <1>2 DEF internalKill, User, Murder, Goes, AbortersKnown, reqVars, MayDie
<1>3. ASSUME NEW t \in Tasks, NEW x \in Reqs \cup Tasks, CheckIO(t, x) PROVE AbortersKnown'
  BY <1>3 DEF CheckIO, User, Goes, AbortersKnown, reqVars
<1>4. ASSUME NEW t \in Tasks, internalWait(t) PROVE AbortersKnown'
  <2>0. /\ Runs(t) /\ life[t] = "alive" /\ at[t] = "checked"
        /\ UNCHANGED <<life, killer, todo, lastPass, waitItem, reqVars>>
    BY <1>4 DEF internalWait
  <2>1. CASE /\ {SignalOf(arg[t]), "ABORT"} \cap sigBits[t] # {}
             /\ sigBits' = [sigBits EXCEPT ![t] = @ \ ({SignalOf(arg[t]), "ABORT"} \cap @)]
             /\ Goes(t, "user", NoReq) /\ UNCHANGED <<asleep, waitBits>>
    BY <2>0, <2>1 DEF Goes, AbortersKnown, reqVars
  <2>2. CASE /\ {SignalOf(arg[t]), "ABORT"} \cap sigBits[t] = {}
             /\ asleep' = asleep \cup {t} /\ waitBits' = [waitBits EXCEPT ![t] = {SignalOf(arg[t]), "ABORT"}]
             /\ Goes(t, "waitsig", arg[t]) /\ UNCHANGED sigBits
    BY <2>0, <2>2 DEF Goes, AbortersKnown, reqVars
  <2> QED BY <1>4, <2>1, <2>2 DEF internalWait
<1>5. ASSUME NEW t \in Tasks, exit(t) PROVE AbortersKnown'
  BY <1>5 DEF exit, User, Suicide, Goes, AbortersKnown, reqVars, MayDie
<1>6. ASSUME NEW t \in Tasks, NEW r \in Reqs, internalCreateIOReq(t, r) PROVE AbortersKnown'
  BY <1>6 DEF internalCreateIOReq, AbortersKnown, taskVars
<1>7. ASSUME NEW t \in Tasks, NEW r \in Reqs, SendIO(t, r) PROVE AbortersKnown'
  <2>0. /\ User(t) /\ owner[r] = t /\ r \in done /\ LeftAlone(r)
        /\ UNCHANGED <<taskVars, waitItem, waitBits, owner, aborted, sigItem>>
    BY <1>7 DEF SendIO
  <2>1. CASE internalSignal(t, "IODONE") /\ UNCHANGED <<done, busy>>
    BY <2>0, <2>1 DEF AbortersKnown, taskVars
  <2>2. CASE /\ done' = done \ {r} /\ busy' = busy \cup {r}
             /\ UNCHANGED <<asleep, sigBits>>
    BY <2>0, <2>2 DEF AbortersKnown, taskVars
  <2> QED BY <1>7, <2>1, <2>2 DEF SendIO
<1>8. ASSUME NEW t \in Tasks, NEW r \in Reqs, DoIO(t, r) PROVE AbortersKnown'
  BY <1>8 DEF DoIO, User, Goes, AbortersKnown
<1>9. ASSUME NEW t \in Tasks, NEW r \in Reqs, WaitIO(t, r) PROVE AbortersKnown'
  <2>0. /\ User(t) /\ owner[r] = t
        /\ UNCHANGED <<life, killer, todo, lastPass, sigBits, waitBits, reqVars>>
    BY <1>9 DEF WaitIO, internalWaitIO
  <2>1. CASE r \in done /\ Returns(t) /\ UNCHANGED <<asleep, waitItem>>
    BY <2>0, <2>1 DEF User, Returns, Goes, AbortersKnown, reqVars
  <2>2. CASE /\ r \notin done /\ asleep' = asleep \cup {t}
             /\ waitItem' = [waitItem EXCEPT ![t] = r] /\ Goes(t, "waitio", r)
    BY <2>0, <2>2 DEF User, Goes, AbortersKnown, reqVars
  <2> QED BY <1>9, <2>1, <2>2 DEF WaitIO, internalWaitIO
<1>10. ASSUME NEW t \in Tasks, NEW r \in Reqs, AbortIO(t, r) PROVE AbortersKnown'
  <2>0. /\ User(t) /\ owner[r] = t /\ r \notin done /\ UNCHANGED <<taskVars, owner, sigItem>>
    BY <1>10 DEF AbortIO
  <2>1. CASE internalCompleteIO(r)
    BY <2>0, <2>1 DEF AbortersKnown, taskVars
  <2>2. CASE aborted' = aborted \cup {r} /\ UNCHANGED <<wakeVars, done, busy>>
    BY <2>0, <2>2 DEF AbortersKnown, taskVars
  <2> QED BY <1>10, <2>1, <2>2 DEF AbortIO
<1>11. ASSUME NEW t \in Tasks, NEW r \in Reqs, DeleteIOReq(t, r) PROVE AbortersKnown'
  <2>0. /\ User(t) /\ LeftAlone(r) /\ owner[r] = t
        /\ UNCHANGED <<life, killer, todo, lastPass>>
    BY <1>11 DEF DeleteIOReq, internalDeleteIOReq
  <2>1. CASE /\ r \in done /\ owner' = [owner EXCEPT ![r] = NoTask]
             /\ UNCHANGED <<at, arg, wakeVars, done, busy, aborted, sigItem>>
    BY <2>0, <2>1 DEF AbortersKnown, LeftAlone
  <2>2. CASE /\ r \notin done /\ internalCompleteIO(r) /\ owner' = [owner EXCEPT ![r] = NoTask]
             /\ UNCHANGED <<at, arg, sigItem>>
    BY <2>0, <2>2 DEF AbortersKnown, LeftAlone
  <2>3. CASE r \notin done /\ AbortSleeps(t, r, "deleting")
    BY <2>0, <2>3, TaskLifeAssumption
       DEF AbortSleeps, Goes, TypeOK, AbortersKnown, LeftAlone
  <2> QED BY <1>11, <2>1, <2>2, <2>3 DEF DeleteIOReq, internalDeleteIOReq
<1>12. ASSUME NEW t \in Tasks, NEW r \in Reqs, AbortIOReqs(t, r) PROVE AbortersKnown'
  <2>0. /\ User(t) /\ owner[r] # NoTask /\ r \notin done /\ LeftAlone(r) /\ WillStay(t, r)
        /\ UNCHANGED <<life, killer, todo, lastPass>>
    BY <1>12 DEF AbortIOReqs
  <2>1. CASE internalCompleteIO(r) /\ UNCHANGED <<at, arg, owner, sigItem>>
    BY <2>0, <2>1 DEF AbortersKnown
  <2>2. CASE AbortSleeps(t, r, "scanning")
    BY <2>0, <2>2, TaskLifeAssumption
       DEF AbortSleeps, Goes, TypeOK, AbortersKnown, LeftAlone, WillStay
  <2> QED BY <1>12, <2>1, <2>2 DEF AbortIOReqs
<1>13. ASSUME NEW t \in Tasks, NEW r \in Reqs, NEW u \in Tasks, SetIOReqOwner(t, r, u) PROVE AbortersKnown'
  BY <1>13 DEF SetIOReqOwner, AbortersKnown, LeftAlone, taskVars
<1>14. ASSUME NEW t \in Tasks, internalWaitReturns(t) PROVE AbortersKnown'
  BY <1>14 DEF internalWaitReturns, Returns, Goes, AbortersKnown, reqVars
<1>15. ASSUME NEW t \in Tasks, DoIOWaits(t) PROVE AbortersKnown'
  <2>0. /\ at[t] = "doio"
        /\ UNCHANGED <<life, killer, todo, lastPass, sigBits, waitBits, reqVars>>
    BY <1>15 DEF DoIOWaits, internalWaitIO
  <2>1. CASE arg[t] \in done /\ Returns(t) /\ UNCHANGED <<asleep, waitItem>>
    BY <2>0, <2>1 DEF Returns, Goes, AbortersKnown, reqVars
  <2>2. CASE /\ arg[t] \notin done /\ asleep' = asleep \cup {t}
             /\ waitItem' = [waitItem EXCEPT ![t] = arg[t]] /\ Goes(t, "waitio", arg[t])
    BY <2>0, <2>2 DEF Goes, AbortersKnown, reqVars
  <2> QED BY <1>15, <2>1, <2>2 DEF DoIOWaits, internalWaitIO
<1>16. ASSUME NEW t \in Tasks, WaitIOReturns(t) PROVE AbortersKnown'
  BY <1>16 DEF WaitIOReturns, Returns, Goes, AbortersKnown, reqVars
<1>17. ASSUME NEW t \in Tasks, AbortReturns(t) PROVE AbortersKnown'
  <2>0. /\ Runs(t) /\ at[t] \in {"deleting", "scanning"}
        /\ UNCHANGED <<life, killer, todo, lastPass, waitItem, sigBits, waitBits, done, busy, aborted>>
    BY <1>17 DEF AbortReturns
  <2>1. CASE /\ arg[t] \in done /\ sigItem' = [sigItem EXCEPT ![arg[t]] = NoTask]
             /\ at[t] = "deleting" /\ owner' = [owner EXCEPT ![arg[t]] = NoTask]
             /\ Returns(t) /\ UNCHANGED asleep
    BY <2>0, <2>1 DEF Returns, Goes, TypeOK, AbortersKnown
  <2>2. CASE /\ arg[t] \in done /\ sigItem' = [sigItem EXCEPT ![arg[t]] = NoTask]
             /\ at[t] = "scanning" /\ Returns(t) /\ UNCHANGED <<owner, asleep>>
    BY <2>0, <2>2 DEF Returns, Goes, TypeOK, AbortersKnown
  <2>3. CASE /\ arg[t] \notin done /\ sigItem' = [sigItem EXCEPT ![arg[t]] = t]
             /\ asleep' = asleep \cup {t} /\ UNCHANGED <<at, arg, owner>>
    BY <2>0, <2>3 DEF AbortersKnown
  <2> QED BY <1>17, <2>1, <2>2, <2>3 DEF AbortReturns
<1>18. ASSUME NEW t \in Tasks, KillReturns(t) PROVE AbortersKnown'
  BY <1>18 DEF KillReturns, Returns, Goes, AbortersKnown, reqVars
<1>19. ASSUME NEW t \in Tasks, KillSelf(t) PROVE AbortersKnown'
  BY <1>19 DEF KillSelf, Suicide, Goes, AbortersKnown, reqVars
<1>20. ASSUME NEW t \in Tasks, FreeRest(t) PROVE AbortersKnown'
  BY <1>20 DEF FreeRest, AbortersKnown, reqVars
<1>21. ASSUME NEW t \in Tasks, Dies(t) PROVE AbortersKnown'
  BY <1>21 DEF Dies, Frees, Goes, LifeShape, LifeOf, AbortersKnown, reqVars
<1>22. ASSUME NEW t \in Tasks, NEW c \in Tasks, FreeChild(t, c) PROVE AbortersKnown'
  <2>0. /\ Frees(t) /\ c \in todo[t] /\ todo' = [todo EXCEPT ![t] = @ \ {c}]
    BY <1>22 DEF FreeChild
  <2>1. CASE life[c] \in {"alive", "doomed"} /\ Murder(t, c)
    <3>1. /\ Parent[c] = t /\ life[t] = "dying" /\ at[t] = "dying"
          /\ life' = [life EXCEPT ![c] = "doomed"] /\ at' = [at EXCEPT ![t] = "killing"]
          /\ arg' = [arg EXCEPT ![t] = c] /\ owner' = owner /\ sigItem' = sigItem
      BY <2>0, <2>1 DEF Frees, Murder, Goes, reqVars, LifeShape, LifeOf
    <3>2. \A r \in Reqs : /\ sigItem[r] \notin {NoTask, owner[r]} /\ c \in Line(owner[r])
                         => FALSE
      <4>1. SUFFICES ASSUME NEW r \in Reqs, sigItem[r] \notin {NoTask, owner[r]},
                            c \in Line(owner[r])
                     PROVE  FALSE
        OBVIOUS
      <4>2. owner[r] \in Tasks /\ \A u \in Line(owner[r]) : life[u] = "alive"
        BY <4>1 DEF AbortersKnown, TypeOK
      <4>3. t \in Line(owner[r])
        BY <3>1, <4>1, <4>2, LineOfParent, TaskLifeAssumption
      <4> QED BY <3>1, <4>2, <4>3
    <3> QED BY <3>1, <3>2 DEF AbortersKnown
  <2>2. CASE /\ life[c] \notin {"alive", "doomed"}
             /\ UNCHANGED <<life, at, arg, killer, lastPass, wakeVars, reqVars>>
    BY <2>2 DEF AbortersKnown, reqVars
  <2> QED BY <1>22, <2>1, <2>2 DEF FreeChild
<1>23. ASSUME NEW t \in Tasks, NEW r \in Reqs, FreeIOReq(t, r) PROVE AbortersKnown'
  <2>0. /\ Frees(t) /\ todo[t] = {} /\ t \notin lastPass /\ owner[r] = t
        /\ UNCHANGED <<life, killer, todo, lastPass>>
    BY <1>23 DEF FreeIOReq, internalDeleteIOReq
  <2>1. CASE /\ r \in done /\ owner' = [owner EXCEPT ![r] = NoTask]
             /\ UNCHANGED <<at, arg, wakeVars, done, busy, aborted, sigItem>>
    BY <2>0, <2>1, <1>L
       DEF Frees, LifeShape, LifeOf, OwnerShape, OwnerOf, AbortersKnown
  <2>2. CASE /\ r \notin done /\ internalCompleteIO(r) /\ owner' = [owner EXCEPT ![r] = NoTask]
             /\ UNCHANGED <<at, arg, sigItem>>
    BY <2>0, <2>2, <1>L
       DEF Frees, LifeShape, LifeOf, OwnerShape, OwnerOf, AbortersKnown
  <2>3. CASE r \notin done /\ AbortSleeps(t, r, "deleting")
    <3>1. life[t] = "dying" /\ at[t] = "dying"
      BY <2>0 DEF Frees, LifeShape, LifeOf
    <3>2. sigItem[r] = NoTask
      BY <2>0, <3>1, <1>L DEF AbortersKnown, OwnerShape, OwnerOf
    <3>3. /\ sigItem' = [sigItem EXCEPT ![r] = t] /\ owner' = owner /\ life' = life
          /\ at' = [at EXCEPT ![t] = "deleting"] /\ arg' = [arg EXCEPT ![t] = r]
      BY <2>0, <2>3 DEF AbortSleeps, Goes
    <3> QED BY <2>0, <3>2, <3>3, TaskLifeAssumption DEF AbortersKnown, TypeOK
  <2> QED BY <1>23, <2>1, <2>2, <2>3 DEF FreeIOReq, internalDeleteIOReq
<1>24. ASSUME NEW r \in Reqs, DeviceCompletes(r) PROVE AbortersKnown'
  BY <1>24 DEF DeviceCompletes, AbortersKnown, taskVars
<1>25. CASE UNCHANGED vars
  BY <1>25 DEF vars, AbortersKnown, taskVars, reqVars
<1> QED BY <1>1, <1>2, <1>3, <1>4, <1>5, <1>6, <1>7, <1>8, <1>9, <1>10, <1>11, <1>12,
     <1>13, <1>14, <1>15, <1>16, <1>17, <1>18, <1>19, <1>20, <1>21, <1>22, <1>23,
     <1>24, <1>25
     DEF Next, Starts, GoesOn

(* What ends the wait of a sleeper wakes it.                                *)
LEMMA SleeperStep ==
    ASSUME TypeOK, CallShape, LifeShape, OwnerShape, SignalShape,
           VictimKnowsKiller, AbortersKnown, SleepersWait, Careful, KilledByParent, [Next]_vars
    PROVE  SleepersWait'
<1>1. ASSUME NEW t \in Tasks, NEW c \in Tasks, CreateTask(t, c) PROVE SleepersWait'
  BY <1>1 DEF CreateTask, SleepersWait, Over, wakeVars, reqVars
<1>2. ASSUME NEW t \in Tasks, NEW c \in Tasks, internalKill(t, c) PROVE SleepersWait'
  BY <1>2 DEF internalKill, Murder, Goes, TypeOK, SleepersWait, Over, reqVars
<1>3. ASSUME NEW t \in Tasks, NEW x \in Reqs \cup Tasks, CheckIO(t, x) PROVE SleepersWait'
  BY <1>3 DEF CheckIO, User, Goes, SleepersWait, Over, wakeVars, reqVars
<1>4. ASSUME NEW t \in Tasks, internalWait(t) PROVE SleepersWait'
  <2>0. /\ Runs(t) /\ life[t] = "alive" /\ at[t] = "checked"
        /\ UNCHANGED <<life, killer, todo, lastPass, waitItem, reqVars>>
    BY <1>4 DEF internalWait
  <2>1. CASE /\ {SignalOf(arg[t]), "ABORT"} \cap sigBits[t] # {}
             /\ sigBits' = [sigBits EXCEPT ![t] = @ \ ({SignalOf(arg[t]), "ABORT"} \cap @)]
             /\ Goes(t, "user", NoReq) /\ UNCHANGED <<asleep, waitBits>>
    BY <2>0, <2>1 DEF Goes, SleepersWait, Over, reqVars
  <2>2. CASE /\ {SignalOf(arg[t]), "ABORT"} \cap sigBits[t] = {}
             /\ asleep' = asleep \cup {t} /\ waitBits' = [waitBits EXCEPT ![t] = {SignalOf(arg[t]), "ABORT"}]
             /\ Goes(t, "waitsig", arg[t]) /\ UNCHANGED sigBits
    BY <2>0, <2>2 DEF Goes, SignalShape, SleepersWait, Over, reqVars
  <2> QED BY <1>4, <2>1, <2>2 DEF internalWait
<1>5. ASSUME NEW t \in Tasks, exit(t) PROVE SleepersWait'
  BY <1>5 DEF exit, User, Suicide, Goes, SleepersWait, Over, wakeVars, reqVars
<1>6. ASSUME NEW t \in Tasks, NEW r \in Reqs, internalCreateIOReq(t, r) PROVE SleepersWait'
  BY <1>6 DEF internalCreateIOReq, SleepersWait, Over, taskVars, wakeVars
<1>7. ASSUME NEW t \in Tasks, NEW r \in Reqs, SendIO(t, r) PROVE SleepersWait'
  <2>0. /\ User(t) /\ owner[r] = t /\ r \in done /\ LeftAlone(r)
        /\ UNCHANGED <<taskVars, waitItem, waitBits, owner, aborted, sigItem>>
    BY <1>7 DEF SendIO
  <2>1. CASE internalSignal(t, "IODONE") /\ UNCHANGED <<done, busy>>
    BY <2>0, <2>1 DEF internalSignal, SleepersWait, Over, taskVars
  <2>2. CASE /\ done' = done \ {r} /\ busy' = busy \cup {r}
             /\ UNCHANGED <<asleep, sigBits>>
    BY <2>0, <2>2 DEF SleepersWait, Over, taskVars
  <2> QED BY <1>7, <2>1, <2>2 DEF SendIO
<1>8. ASSUME NEW t \in Tasks, NEW r \in Reqs, DoIO(t, r) PROVE SleepersWait'
  BY <1>8 DEF DoIO, User, Goes, SleepersWait, Over, wakeVars
<1>9. ASSUME NEW t \in Tasks, NEW r \in Reqs, WaitIO(t, r) PROVE SleepersWait'
  <2>0. /\ User(t) /\ owner[r] = t
        /\ UNCHANGED <<life, killer, todo, lastPass, sigBits, waitBits, reqVars>>
    BY <1>9 DEF WaitIO, internalWaitIO
  <2>1. CASE r \in done /\ Returns(t) /\ UNCHANGED <<asleep, waitItem>>
    BY <2>0, <2>1 DEF User, Returns, Goes, SleepersWait, Over, reqVars
  <2>2. CASE /\ r \notin done /\ asleep' = asleep \cup {t}
             /\ waitItem' = [waitItem EXCEPT ![t] = r] /\ Goes(t, "waitio", r)
    BY <2>0, <2>2 DEF Goes, TypeOK, SleepersWait, Over, reqVars
  <2> QED BY <1>9, <2>1, <2>2 DEF WaitIO, internalWaitIO
<1>10. ASSUME NEW t \in Tasks, NEW r \in Reqs, AbortIO(t, r) PROVE SleepersWait'
  <2>0. /\ User(t) /\ owner[r] = t /\ r \notin done /\ UNCHANGED <<taskVars, owner, sigItem>>
    BY <1>10 DEF AbortIO
  <2>1. CASE internalCompleteIO(r)
    BY <2>0, <2>1, CompleteEffect
       DEF User, TypeOK, OwnerShape, AbortersKnown, SleepersWait, Over, WithOwn,
           taskVars
  <2>2. CASE aborted' = aborted \cup {r} /\ UNCHANGED <<wakeVars, done, busy>>
    BY <2>0, <2>2 DEF SleepersWait, Over, taskVars, wakeVars
  <2> QED BY <1>10, <2>1, <2>2 DEF AbortIO
<1>11. ASSUME NEW t \in Tasks, NEW r \in Reqs, DeleteIOReq(t, r) PROVE SleepersWait'
  <2>0. /\ User(t) /\ LeftAlone(r) /\ owner[r] = t
        /\ UNCHANGED <<life, killer, todo, lastPass>>
    BY <1>11 DEF DeleteIOReq, internalDeleteIOReq
  <2>1. CASE /\ r \in done /\ owner' = [owner EXCEPT ![r] = NoTask]
             /\ UNCHANGED <<at, arg, wakeVars, done, busy, aborted, sigItem>>
    BY <2>0, <2>1 DEF SleepersWait, Over, wakeVars
  <2>2. CASE /\ r \notin done /\ internalCompleteIO(r) /\ owner' = [owner EXCEPT ![r] = NoTask]
             /\ UNCHANGED <<at, arg, sigItem>>
    BY <2>0, <2>2, CompleteEffect
       DEF User, TypeOK, OwnerShape, AbortersKnown, SleepersWait, Over, WithOwn
  <2>3. CASE r \notin done /\ AbortSleeps(t, r, "deleting")
    BY <2>0, <2>3 DEF AbortSleeps, Goes, TypeOK, SleepersWait, Over
  <2> QED BY <1>11, <2>1, <2>2, <2>3 DEF DeleteIOReq, internalDeleteIOReq
<1>12. ASSUME NEW t \in Tasks, NEW r \in Reqs, AbortIOReqs(t, r) PROVE SleepersWait'
  <2>0. /\ User(t) /\ owner[r] # NoTask /\ r \notin done /\ LeftAlone(r) /\ WillStay(t, r)
        /\ UNCHANGED <<life, killer, todo, lastPass>>
    BY <1>12 DEF AbortIOReqs
  <2>1. CASE internalCompleteIO(r) /\ UNCHANGED <<at, arg, owner, sigItem>>
    BY <2>0, <2>1, CompleteEffect
       DEF TypeOK, CallShape, CallOf, OwnerShape, AbortersKnown, SleepersWait, Over,
           SignalOf, WithOwn
  <2>2. CASE AbortSleeps(t, r, "scanning")
    BY <2>0, <2>2 DEF AbortSleeps, Goes, TypeOK, SleepersWait, Over
  <2> QED BY <1>12, <2>1, <2>2 DEF AbortIOReqs
<1>13. ASSUME NEW t \in Tasks, NEW r \in Reqs, NEW u \in Tasks, SetIOReqOwner(t, r, u) PROVE SleepersWait'
  BY <1>13 DEF SetIOReqOwner, SleepersWait, Over, taskVars, wakeVars
<1>14. ASSUME NEW t \in Tasks, internalWaitReturns(t) PROVE SleepersWait'
  BY <1>14 DEF internalWaitReturns, Runs, Returns, Goes, SleepersWait, Over, reqVars
<1>15. ASSUME NEW t \in Tasks, DoIOWaits(t) PROVE SleepersWait'
  <2>0. /\ at[t] = "doio"
        /\ UNCHANGED <<life, killer, todo, lastPass, sigBits, waitBits, reqVars>>
    BY <1>15 DEF DoIOWaits, internalWaitIO
  <2>1. CASE arg[t] \in done /\ Returns(t) /\ UNCHANGED <<asleep, waitItem>>
    BY <2>0, <2>1 DEF Returns, Goes, SleepersWait, Over, reqVars
  <2>2. CASE /\ arg[t] \notin done /\ asleep' = asleep \cup {t}
             /\ waitItem' = [waitItem EXCEPT ![t] = arg[t]] /\ Goes(t, "waitio", arg[t])
    BY <2>0, <2>2
       DEF Goes, TypeOK, CallShape, CallOf, SleepersWait, Over, WithReq, reqVars
  <2> QED BY <1>15, <2>1, <2>2 DEF DoIOWaits, internalWaitIO
<1>16. ASSUME NEW t \in Tasks, WaitIOReturns(t) PROVE SleepersWait'
  BY <1>16 DEF WaitIOReturns, Runs, Returns, Goes, SleepersWait, Over, reqVars
<1>17. ASSUME NEW t \in Tasks, AbortReturns(t) PROVE SleepersWait'
  <2>0. /\ Runs(t) /\ at[t] \in {"deleting", "scanning"}
        /\ UNCHANGED <<life, killer, todo, lastPass, waitItem, sigBits, waitBits, done, busy, aborted>>
    BY <1>17 DEF AbortReturns
  <2>1. CASE /\ arg[t] \in done /\ sigItem' = [sigItem EXCEPT ![arg[t]] = NoTask]
             /\ at[t] = "deleting" /\ owner' = [owner EXCEPT ![arg[t]] = NoTask]
             /\ Returns(t) /\ UNCHANGED asleep
    BY <2>0, <2>1 DEF Runs, Returns, Goes, SleepersWait, Over
  <2>2. CASE /\ arg[t] \in done /\ sigItem' = [sigItem EXCEPT ![arg[t]] = NoTask]
             /\ at[t] = "scanning" /\ Returns(t) /\ UNCHANGED <<owner, asleep>>
    BY <2>0, <2>2 DEF Runs, Returns, Goes, SleepersWait, Over
  <2>3. CASE /\ arg[t] \notin done /\ sigItem' = [sigItem EXCEPT ![arg[t]] = t]
             /\ asleep' = asleep \cup {t} /\ UNCHANGED <<at, arg, owner>>
    BY <2>0, <2>3 DEF TypeOK, CallShape, CallOf, SleepersWait, Over, WithReq
  <2> QED BY <1>17, <2>1, <2>2, <2>3 DEF AbortReturns
<1>18. ASSUME NEW t \in Tasks, KillReturns(t) PROVE SleepersWait'
  BY <1>18 DEF KillReturns, Runs, Returns, Goes, SleepersWait, Over, wakeVars, reqVars
<1>19. ASSUME NEW t \in Tasks, KillSelf(t) PROVE SleepersWait'
  BY <1>19 DEF KillSelf, Suicide, Goes, SleepersWait, Over, wakeVars, reqVars
<1>20. ASSUME NEW t \in Tasks, FreeRest(t) PROVE SleepersWait'
  BY <1>20 DEF FreeRest, SleepersWait, Over, wakeVars, reqVars
<1>21. ASSUME NEW t \in Tasks, Dies(t) PROVE SleepersWait'
  BY <1>21
     DEF Dies, Goes, TypeOK, CallShape, CallOf, SignalShape, VictimKnowsKiller,
         SleepersWait, Over, SignalOf, reqVars, Woken
<1>22. ASSUME NEW t \in Tasks, NEW c \in Tasks, FreeChild(t, c) PROVE SleepersWait'
  <2>0. /\ Frees(t) /\ c \in todo[t] /\ todo' = [todo EXCEPT ![t] = @ \ {c}]
    BY <1>22 DEF FreeChild
  <2>1. CASE life[c] \in {"alive", "doomed"} /\ Murder(t, c)
    BY <2>1 DEF Murder, Goes, TypeOK, SleepersWait, Over, reqVars
  <2>2. CASE /\ life[c] \notin {"alive", "doomed"}
             /\ UNCHANGED <<life, at, arg, killer, lastPass, wakeVars, reqVars>>
    BY <2>2 DEF SleepersWait, Over, wakeVars, reqVars
  <2> QED BY <1>22, <2>1, <2>2 DEF FreeChild
<1>23. ASSUME NEW t \in Tasks, NEW r \in Reqs, FreeIOReq(t, r) PROVE SleepersWait'
  <2>0. /\ Frees(t) /\ todo[t] = {} /\ t \notin lastPass /\ owner[r] = t
        /\ UNCHANGED <<life, killer, todo, lastPass>>
    BY <1>23 DEF FreeIOReq, internalDeleteIOReq
  <2>1. CASE /\ r \in done /\ owner' = [owner EXCEPT ![r] = NoTask]
             /\ UNCHANGED <<at, arg, wakeVars, done, busy, aborted, sigItem>>
    BY <2>0, <2>1 DEF SleepersWait, Over, wakeVars
  <2>2. CASE /\ r \notin done /\ internalCompleteIO(r) /\ owner' = [owner EXCEPT ![r] = NoTask]
             /\ UNCHANGED <<at, arg, sigItem>>
    BY <2>0, <2>2, CompleteEffect
       DEF Frees, TypeOK, OwnerShape, AbortersKnown, SleepersWait, Over, WithOwn
  <2>3. CASE r \notin done /\ AbortSleeps(t, r, "deleting")
    BY <2>0, <2>3 DEF AbortSleeps, Goes, TypeOK, SleepersWait, Over
  <2> QED BY <1>23, <2>1, <2>2, <2>3 DEF FreeIOReq, internalDeleteIOReq
<1>24. ASSUME NEW r \in Reqs, DeviceCompletes(r) PROVE SleepersWait'
  BY <1>24, CompleteEffect
     DEF DeviceCompletes, TypeOK, CallShape, CallOf, OwnerShape, AbortersKnown,
         SleepersWait, Over, SignalOf, WithOwn, taskVars
<1>25. CASE UNCHANGED vars
  BY <1>25 DEF vars, SleepersWait, Over, taskVars, wakeVars, reqVars
<1> QED BY <1>1, <1>2, <1>3, <1>4, <1>5, <1>6, <1>7, <1>8, <1>9, <1>10, <1>11, <1>12,
     <1>13, <1>14, <1>15, <1>16, <1>17, <1>18, <1>19, <1>20, <1>21, <1>22, <1>23,
     <1>24, <1>25
     DEF Next, Starts, GoesOn

-----------------------------------------------------------------------------
(* The theorems.                                                           *)

(* At the start nobody calls anything.                                      *)
LEMMA ShapeInit ==
    ASSUME Init PROVE ShapeInv
<1>1. TypeOK
  BY DEF Init, TypeOK, Places
<1>2. CallShape
  BY DEF Init, CallShape, CallOf, WithReq
<1>3. LifeShape
  BY DEF Init, LifeShape, LifeOf
<1>4. OwnerShape /\ SignalShape
  BY DEF Init, OwnerShape, OwnerOf, WithOwn, SignalShape
<1> QED BY <1>1, <1>2, <1>3, <1>4 DEF ShapeInv

(* The shape of calls, lives, owners and signals always holds.               *)
LEMMA ShapeCorrect == Spec => []ShapeInv
<1>1. Init => ShapeInv
  BY ShapeInit
<1>2. ShapeInv /\ [Next]_vars => ShapeInv'
  BY TypeStep, CallStep, LifeStep, OwnerStep, SignalStep DEF ShapeInv
<1> QED BY <1>1, <1>2, PTL DEF Spec

\* THEOREM.  Every variable keeps its type, and a device works exactly on the
\* requests without IO_DONE, whatever tasks call and drivers complete (task.c, io.c).
THEOREM TypeCorrect == Spec => []TypeOK
<1>1. ShapeInv => TypeOK
  BY DEF ShapeInv
<1> QED BY <1>1, ShapeCorrect, PTL

\* THEOREM.  A dead task leaves no child and no request behind, and no device works
\* on a request that is gone (internalKill, FreeResources, internalDeleteIOReq), in
\* every family in which only a parent kills, and nobody is killed or exits while
\* somebody above or below it is dying.
THEOREM NothingIsLeftBehind ==
    ASSUME Orderly, KilledByParent
    PROVE  Spec => []NothingOutlivesItsOwner
<1>1. Init => DeathInv
  <2>1. SUFFICES ASSUME Init PROVE DeathInv
    OBVIOUS
  <2>2. ParentsLive /\ ChildrenSeen /\ BelowDoomed /\ BelowTodo
    BY <2>1 DEF Init, ParentsLive, ChildrenSeen, BelowDoomed, BelowTodo, Living
  <2>3. VictimKnowsKiller /\ KillersWait
    BY <2>1 DEF Init, VictimKnowsKiller, KillersWait
  <2> QED BY <2>2, <2>3 DEF DeathInv
<1>2. ShapeInv /\ DeathInv /\ [Next]_vars => DeathInv'
  BY DeathStep DEF ShapeInv
<1>3. ShapeInv /\ DeathInv => NothingOutlivesItsOwner
  <2>1. SUFFICES ASSUME ShapeInv, DeathInv PROVE NothingOutlivesItsOwner
    OBVIOUS
  <2>2. \A c \in Tasks : life[c] \in {"alive", "doomed", "dying"} /\ c # Root =>
            life[Parent[c]] # "dead"
    BY <2>1 DEF DeathInv, ParentsLive, Living
  <2>3. \A r \in Reqs : owner[r] # NoTask => life[owner[r]] # "dead"
    BY <2>1 DEF ShapeInv, OwnerShape, OwnerOf, Living
  <2>4. \A r \in busy : owner[r] # NoTask
    BY <2>1 DEF ShapeInv, OwnerShape, OwnerOf, TypeOK
  <2> QED BY <2>2, <2>3, <2>4 DEF NothingOutlivesItsOwner
<1> QED BY <1>1, <1>2, <1>3, ShapeCorrect, PTL DEF Spec

\* THEOREM.  Whatever completed, died or was aborted between its last look and its
\* sleep, a task in WaitIO, WaitSignal, DeleteItem or internalAbortForeignIO is known
\* to the one who will wake it (internalCompleteIO, internalWait, Murder), if only a
\* parent kills and a request that another task aborts is left alone.
THEOREM SleepersWillBeWoken ==
    ASSUME Careful, KilledByParent
    PROVE  Spec => []SleepersHaveAWaker
<1>1. Init => WakeInv
  BY DEF Init, WakeInv, VictimKnowsKiller, AbortersKnown, SleepersWait
<1>2. ShapeInv /\ WakeInv /\ [Next]_vars => WakeInv'
  BY VictimStep, AborterStep, SleeperStep DEF ShapeInv, WakeInv
<1>3. ShapeInv /\ WakeInv => SleepersHaveAWaker
  <2>1. SUFFICES ASSUME ShapeInv, WakeInv PROVE SleepersHaveAWaker
    OBVIOUS
  <2>2. TypeOK /\ CallShape /\ LifeShape /\ OwnerShape
    BY <2>1 DEF ShapeInv
  <2>3. SUFFICES ASSUME NEW t \in asleep
                 PROVE  CASE at[t] = "waitio" ->
                                waitItem[t] \in busy /\ owner[waitItem[t]] = t
                          [] at[t] = "waitsig" ->
                                /\ ~Over(arg[t]) /\ SignalOf(arg[t]) \in waitBits[t]
                                /\ arg[t] \in Reqs => owner[arg[t]] = t
                          [] at[t] \in {"deleting", "scanning"} ->
                                arg[t] \in busy /\ sigItem[arg[t]] = t
                          [] at[t] = "killing" ->
                                /\ life[arg[t]] \in {"doomed", "dying"}
                                /\ killer[arg[t]] = t
                          [] OTHER -> FALSE
    BY DEF SleepersHaveAWaker
  <2>4. t \in Tasks /\ at[t] \in {"waitio", "waitsig", "deleting", "scanning", "killing"}
    BY <2>2 DEF TypeOK, CallShape, CallOf
  <2>5. CASE at[t] = "waitio"
    BY <2>1, <2>2, <2>4, <2>5
       DEF WakeInv, SleepersWait, CallShape, CallOf, OwnerShape, WithReq, WithOwn
  <2>6. CASE at[t] = "waitsig"
    BY <2>1, <2>2, <2>4, <2>6
       DEF WakeInv, SleepersWait, CallShape, CallOf, OwnerShape, WithOwn
  <2>7. CASE at[t] \in {"deleting", "scanning"}
    BY <2>1, <2>4, <2>7 DEF WakeInv, SleepersWait, AbortersKnown
  <2>8. CASE at[t] = "killing"
    BY <2>1, <2>2, <2>4, <2>8
       DEF WakeInv, SleepersWait, VictimKnowsKiller, LifeShape, LifeOf
  <2> QED BY <2>4, <2>5, <2>6, <2>7, <2>8
<1> QED BY <1>1, <1>2, <1>3, ShapeCorrect, PTL DEF Spec

=============================================================================
