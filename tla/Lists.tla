-------------------------------- MODULE Lists --------------------------------
(***************************************************************************)
(* The kernel's doubly linked lists, as sequences with the head first:     *)
(* removal of a node, and where InsertNodeFromTail and InsertNodeFromHead  *)
(* put a node of given priority, or UniversalInsertNode with a comparison  *)
(* function (list.c, includes/kernel/listmacros.h).                        *)
(***************************************************************************)
EXTENDS Integers, Sequences

\* The nodes on a list; that none is there twice; that their priorities fall.
Nodes(s)       == {s[i] : i \in 1 .. Len(s)}
Distinct(s)    == \A i, j \in 1 .. Len(s) : s[i] = s[j] => i = j
Sorted(pri, s) == \A i, j \in 1 .. Len(s) : i < j => pri[s[i]] >= pri[s[j]]

\* The list without its i-th node (REMOVENODE).
WithoutAt(s, i) == [j \in 1 .. Len(s) - 1 |-> IF j < i THEN s[j] ELSE s[j + 1]]

\* The list with node n put behind its first k nodes.
InsertAfter(s, k, n) ==
    [j \in 1 .. Len(s) + 1 |-> IF j <= k THEN s[j]
                               ELSE IF j = k + 1 THEN n ELSE s[j - 1]]

\* The list without node n, wherever it is.
WithoutNode(s, n) ==
    IF n \in Nodes(s) THEN WithoutAt(s, CHOOSE i \in 1 .. Len(s) : s[i] = n) ELSE s

\* UniversalInsertNode: n goes before the first of the nodes x for which the
\* comparison of n with x holds, the set later.
UniversalInsertNode(s, n, later) ==
    LET k == CHOOSE k \in 0 .. Len(s) :
                 /\ k < Len(s) => s[k + 1] \in later
                 /\ \A i \in 1 .. k : s[i] \notin later
    IN InsertAfter(s, k, n)

\* Searching from the tail for a node of no lower priority than n stops at
\* the k-th node (0: at the head anchor).
FromTail(pri, s, n, k) ==
    /\ k \in 0 .. Len(s)
    /\ k > 0 => pri[s[k]] >= pri[n]
    /\ \A i \in k + 1 .. Len(s) : pri[s[i]] < pri[n]

\* Searching from the head for a node of no higher priority than n stops
\* behind the k-th node.
FromHead(pri, s, n, k) ==
    /\ k \in 0 .. Len(s)
    /\ k < Len(s) => pri[n] >= pri[s[k + 1]]
    /\ \A i \in 1 .. k : pri[n] < pri[s[i]]

=============================================================================
