------------------------------- MODULE RWLock -------------------------------
(***************************************************************************)
(* What a kernel semaphore promises to its users: a lock that one task     *)
(* holds in exclusive mode or several tasks hold in shared mode, that      *)
(* nests, and that is passed on to waiting tasks as soon as nobody holds   *)
(* it.  Queues, nodes and flags are not visible at this level.             *)
(***************************************************************************)
EXTENDS Integers

CONSTANT Tasks

VARIABLES
    hold,    \* how often each task holds the lock
    mode,    \* "free", "shared" or "exclusive"
    want     \* what each waiting task waits for: "no", "shared", "exclusive"

rwVars == <<hold, mode, want>>

RWTypeOK ==
    /\ hold \in [Tasks -> Nat]
    /\ mode \in {"free", "shared", "exclusive"}
    /\ want \in [Tasks -> {"no", "shared", "exclusive"}]

Init ==
    /\ hold = [t \in Tasks |-> 0]
    /\ mode = "free"
    /\ want = [t \in Tasks |-> "no"]

Acquire(t, m) ==
    /\ mode = "free"
    /\ mode' = m
    /\ hold' = [hold EXCEPT ![t] = 1]
    /\ UNCHANGED want

Nest(t) ==
    /\ hold[t] > 0
    /\ hold' = [hold EXCEPT ![t] = @ + 1]
    /\ UNCHANGED <<mode, want>>

Join(t) ==
    /\ mode = "shared" /\ hold[t] = 0
    /\ \A u \in Tasks : want[u] = "no"
    /\ hold' = [hold EXCEPT ![t] = 1]
    /\ UNCHANGED <<mode, want>>

Wait(t, m) ==
    /\ mode # "free" /\ want[t] = "no"
    /\ want' = [want EXCEPT ![t] = m]
    /\ UNCHANGED <<hold, mode>>

Cancel(t) ==
    /\ want[t] # "no"
    /\ want' = [want EXCEPT ![t] = "no"]
    /\ UNCHANGED <<hold, mode>>

\* Others hold the lock after t has given up n of its locks.
Release(t, n) ==
    /\ hold[t] >= n
    /\ hold[t] > n \/ \E u \in Tasks \ {t} : hold[u] > 0
    /\ hold' = [hold EXCEPT ![t] = @ - n]
    /\ UNCHANGED <<mode, want>>

\* t gives up the last lock and nobody waits.
ReleaseLast(t) ==
    /\ hold[t] > 0
    /\ \A u \in Tasks \ {t} : hold[u] = 0
    /\ \A u \in Tasks : want[u] = "no"
    /\ hold' = [hold EXCEPT ![t] = 0]
    /\ mode' = "free"
    /\ UNCHANGED want

\* t gives up the last lock and the tasks in G get it; shared waiters in F are
\* turned away for lack of memory.
PassOn(t, G, F, m) ==
    /\ G # {} /\ G \cap F = {}
    /\ \A u \in G \cup F : want[u] = m
    /\ m = "exclusive" => F = {} /\ \A u, v \in G : u = v
    /\ hold' = [u \in Tasks |-> IF u \in G THEN 1 ELSE 0]
    /\ mode' = m
    /\ want' = [u \in Tasks |-> IF u \in G \cup F THEN "no" ELSE want[u]]

Destroy ==
    /\ hold' = [t \in Tasks |-> 0]
    /\ mode' = "free"
    /\ want' = [t \in Tasks |-> "no"]

Next ==
    \/ Destroy
    \/ \E t \in Tasks :
        \/ Nest(t) \/ Join(t) \/ Cancel(t) \/ ReleaseLast(t)
        \/ \E n \in 1 .. hold[t] : Release(t, n)
        \/ \E m \in {"shared", "exclusive"} :
             \/ Acquire(t, m)
             \/ Wait(t, m)
             \/ /\ hold[t] > 0 /\ \A u \in Tasks \ {t} : hold[u] = 0
                /\ \E G, F \in SUBSET {u \in Tasks : want[u] = m} : PassOn(t, G, F, m)

Spec == Init /\ [][Next]_rwVars

=============================================================================
