------------------------------ MODULE ListProofs ------------------------------
(***************************************************************************)
(* What the list operations of Lists.tla do to the nodes and to the order  *)
(* of a list.                                                              *)
(***************************************************************************)
EXTENDS Lists, TLAPS, WellFoundedInduction

(* Removing one node of a list gives a shorter list of the same kind        *)
(* (REMOVENODE).                                                            *)
LEMMA WithoutAtSeq ==
    ASSUME NEW S, NEW s \in Seq(S), NEW i \in 1 .. Len(s)
    PROVE  /\ WithoutAt(s, i) \in Seq(S)
           /\ Len(WithoutAt(s, i)) = Len(s) - 1
           /\ \A j \in 1 .. Len(s) - 1 :
                WithoutAt(s, i)[j] = IF j < i THEN s[j] ELSE s[j + 1]
BY DEF WithoutAt

(* REMOVENODE takes exactly one node away and keeps the order of the rest.  *)
LEMMA WithoutAtNodes ==
    ASSUME NEW S, NEW s \in Seq(S), Distinct(s), NEW i \in 1 .. Len(s)
    PROVE  /\ Distinct(WithoutAt(s, i))
           /\ Nodes(WithoutAt(s, i)) = Nodes(s) \ {s[i]}
           /\ \A pri : Sorted(pri, s) => Sorted(pri, WithoutAt(s, i))
<1> DEFINE at(m) == IF m < i THEN m ELSE m + 1
<1> PICK w : w = WithoutAt(s, i)
  OBVIOUS
<1>1. /\ Len(s) \in Nat
      /\ Len(w) = Len(s) - 1
      /\ \A j \in 1 .. Len(w) : at(j) \in 1 .. Len(s) /\ w[j] = s[at(j)]
  BY DEF WithoutAt
<1>2. Distinct(w)
  <2> SUFFICES ASSUME NEW j \in 1 .. Len(w), NEW k \in 1 .. Len(w), w[j] = w[k]
               PROVE  j = k
    BY DEF Distinct
  <2>1. at(j) = at(k)
    BY <1>1 DEF Distinct
  <2> QED BY <1>1, <2>1
<1>3. Nodes(w) \subseteq Nodes(s) \ {s[i]}
  <2> SUFFICES ASSUME NEW j \in 1 .. Len(w)
               PROVE  w[j] \in Nodes(s) \ {s[i]}
    BY DEF Nodes
  <2>1. at(j) \in 1 .. Len(s) /\ w[j] = s[at(j)] /\ at(j) # i
    BY <1>1
  <2> QED BY <2>1 DEF Nodes, Distinct
<1>4. Nodes(s) \ {s[i]} \subseteq Nodes(w)
  <2> SUFFICES ASSUME NEW j \in 1 .. Len(s), j # i
               PROVE  s[j] \in Nodes(w)
    BY DEF Nodes
  <2>1. CASE j < i
    <3>1. j \in 1 .. Len(w) /\ w[j] = s[j]
      BY <1>1, <2>1
    <3> QED BY <3>1 DEF Nodes
  <2>2. CASE j > i
    <3>1. j - 1 \in 1 .. Len(w) /\ w[j - 1] = s[j]
      BY <1>1, <2>2
    <3> QED BY <3>1 DEF Nodes
  <2> QED BY <2>1, <2>2
<1>5. ASSUME NEW pri, Sorted(pri, s)
      PROVE  Sorted(pri, w)
  <2> SUFFICES ASSUME NEW j \in 1 .. Len(w), NEW k \in 1 .. Len(w), j < k
               PROVE  pri[w[j]] >= pri[w[k]]
    BY DEF Sorted
  <2>1. at(j) < at(k)
    BY <1>1
  <2> QED BY <1>1, <1>5, <2>1 DEF Sorted
<1> QED BY <1>2, <1>3, <1>4, <1>5

(* A list with one more node is a list of the same kind.                    *)
LEMMA InsertSeq ==
    ASSUME NEW S, NEW s \in Seq(S), NEW k \in 0 .. Len(s), NEW n \in S
    PROVE  /\ InsertAfter(s, k, n) \in Seq(S)
           /\ Len(InsertAfter(s, k, n)) = Len(s) + 1
           /\ \A j \in 1 .. Len(s) + 1 :
                InsertAfter(s, k, n)[j] = IF j <= k THEN s[j]
                                          ELSE IF j = k + 1 THEN n
                                          ELSE s[j - 1]
<1>1. Len(s) \in Nat
  OBVIOUS
<1>2. \A j \in 1 .. Len(s) + 1 :
         (IF j <= k THEN s[j] ELSE IF j = k + 1 THEN n ELSE s[j - 1]) \in S
  BY <1>1
<1> QED BY <1>1, <1>2 DEF InsertAfter

(* Both priority insertions add exactly one node.                           *)
LEMMA InsertNodes ==
    ASSUME NEW S, NEW s \in Seq(S), Distinct(s), NEW k \in 0 .. Len(s),
           NEW n \in S, n \notin Nodes(s)
    PROVE  /\ Distinct(InsertAfter(s, k, n))
           /\ Nodes(InsertAfter(s, k, n)) = Nodes(s) \cup {n}
<1> PICK w : w = InsertAfter(s, k, n)
  OBVIOUS
<1>1. /\ Len(s) \in Nat
      /\ Len(w) = Len(s) + 1
      /\ \A j \in 1 .. Len(w) :
            w[j] = IF j <= k THEN s[j] ELSE IF j = k + 1 THEN n ELSE s[j - 1]
  BY DEF InsertAfter
<1>2. \A j \in 1 .. Len(s) : s[j] # n
  BY DEF Nodes
<1>3. Distinct(w)
  <2> SUFFICES ASSUME NEW j \in 1 .. Len(w), NEW m \in 1 .. Len(w), w[j] = w[m]
               PROVE  j = m
    BY DEF Distinct
  <2> QED BY <1>1, <1>2 DEF Distinct
<1>4. \A j \in 1 .. Len(w) : w[j] \in Nodes(s) \cup {n}
  BY <1>1 DEF Nodes
<1>5. ASSUME NEW j \in 1 .. Len(s)
      PROVE  s[j] \in Nodes(w)
  <2>1. CASE j <= k
    <3>1. j \in 1 .. Len(w) /\ w[j] = s[j]
      BY <1>1, <2>1
    <3> QED BY <3>1 DEF Nodes
  <2>2. CASE j > k
    <3>1. j + 1 \in 1 .. Len(w) /\ w[j + 1] = s[j]
      BY <1>1, <2>2
    <3> QED BY <3>1 DEF Nodes
  <2> QED BY <2>1, <2>2
<1>6. n \in Nodes(w)
  <2>1. k + 1 \in 1 .. Len(w) /\ w[k + 1] = n
    BY <1>1
  <2> QED BY <2>1 DEF Nodes
<1>7. Nodes(w) \subseteq Nodes(s) \cup {n}
  BY <1>4 DEF Nodes
<1>8. Nodes(s) \cup {n} \subseteq Nodes(w)
  BY <1>5, <1>6 DEF Nodes
<1> QED BY <1>3, <1>7, <1>8

(* Both priority insertions keep a list in order of priority.               *)
LEMMA InsertSorted ==
    ASSUME NEW S, NEW s \in Seq(S), NEW n \in S, NEW k,
           NEW pri \in [S -> Nat], Sorted(pri, s),
           FromTail(pri, s, n, k) \/ FromHead(pri, s, n, k)
    PROVE  Sorted(pri, InsertAfter(s, k, n))
<1>0. k \in 0 .. Len(s)
  BY DEF FromTail, FromHead
<1> PICK w : w = InsertAfter(s, k, n)
  OBVIOUS
<1>1. /\ Len(s) \in Nat
      /\ Len(w) = Len(s) + 1
      /\ \A j \in 1 .. Len(w) :
            w[j] = IF j <= k THEN s[j] ELSE IF j = k + 1 THEN n ELSE s[j - 1]
  BY <1>0 DEF InsertAfter
<1>2. /\ pri[n] \in Nat
      /\ \A j \in 1 .. Len(s) : pri[s[j]] \in Nat
  OBVIOUS
<1>3. \A j \in 1 .. Len(s) : j <= k => pri[s[j]] >= pri[n]
  <2> SUFFICES ASSUME NEW j \in 1 .. Len(s), j <= k
               PROVE  pri[s[j]] >= pri[n]
    OBVIOUS
  <2>1. CASE FromTail(pri, s, n, k)
    <3>1. k \in 1 .. Len(s) /\ pri[s[k]] >= pri[n]
      BY <1>0, <2>1 DEF FromTail
    <3>2. pri[s[j]] >= pri[s[k]]
      BY <1>2, <3>1 DEF Sorted
    <3> QED BY <1>2, <3>1, <3>2
  <2>2. CASE FromHead(pri, s, n, k)
    BY <1>0, <1>2, <2>2 DEF FromHead
  <2> QED BY <2>1, <2>2
<1>4. \A j \in 1 .. Len(s) : j > k => pri[n] >= pri[s[j]]
  <2> SUFFICES ASSUME NEW j \in 1 .. Len(s), j > k
               PROVE  pri[n] >= pri[s[j]]
    OBVIOUS
  <2>1. CASE FromTail(pri, s, n, k)
    BY <1>0, <1>2, <2>1 DEF FromTail
  <2>2. CASE FromHead(pri, s, n, k)
    <3>1. k + 1 \in 1 .. Len(s) /\ pri[n] >= pri[s[k + 1]]
      BY <1>0, <2>2 DEF FromHead
    <3>2. pri[s[k + 1]] >= pri[s[j]]
      BY <1>0, <1>2, <3>1 DEF Sorted
    <3> QED BY <1>2, <3>1, <3>2
  <2> QED BY <2>1, <2>2
<1>5. SUFFICES ASSUME NEW i \in 1 .. Len(w), NEW j \in 1 .. Len(w), i < j
               PROVE  pri[w[i]] >= pri[w[j]]
  BY DEF Sorted
<1>6. CASE j <= k
  <2>1. i \in 1 .. Len(s) /\ j \in 1 .. Len(s) /\ w[i] = s[i] /\ w[j] = s[j]
    BY <1>0, <1>1, <1>5, <1>6
  <2> QED BY <1>5, <2>1 DEF Sorted
<1>7. CASE j = k + 1
  <2>1. i \in 1 .. Len(s) /\ i <= k /\ w[i] = s[i] /\ w[j] = n
    BY <1>0, <1>1, <1>5, <1>7
  <2> QED BY <1>3, <2>1
<1>8. CASE j > k + 1
  <2>1. j - 1 \in 1 .. Len(s) /\ w[j] = s[j - 1]
    BY <1>0, <1>1, <1>8
  <2>2. CASE i <= k
    <3>1. i \in 1 .. Len(s) /\ i < j - 1 /\ w[i] = s[i]
      BY <1>0, <1>1, <1>8, <2>2
    <3> QED BY <2>1, <3>1 DEF Sorted
  <2>3. CASE i = k + 1
    <3>1. w[i] = n /\ j - 1 > k
      BY <1>0, <1>1, <1>8, <2>3
    <3> QED BY <1>4, <2>1, <3>1
  <2>4. CASE i > k + 1
    <3>1. i - 1 \in 1 .. Len(s) /\ i - 1 < j - 1 /\ w[i] = s[i - 1]
      BY <1>0, <1>1, <1>5, <2>4
    <3> QED BY <2>1, <3>1 DEF Sorted
  <2> QED BY <1>0, <2>2, <2>3, <2>4
<1> QED BY <1>0, <1>6, <1>7, <1>8

(* RemHead takes the first node away and keeps the order of the rest.       *)
LEMMA TailNodes ==
    ASSUME NEW S, NEW s \in Seq(S), s # << >>, Distinct(s)
    PROVE  /\ s[1] \in Nodes(s) /\ s[1] \in S
           /\ Tail(s) \in Seq(S)
           /\ Distinct(Tail(s))
           /\ Nodes(Tail(s)) = Nodes(s) \ {s[1]}
           /\ \A pri : Sorted(pri, s) => Sorted(pri, Tail(s))
<1> PICK w : w = Tail(s)
  OBVIOUS
<1>1. /\ Len(s) \in Nat /\ Len(s) >= 1
      /\ w \in Seq(S)
      /\ Len(w) = Len(s) - 1
      /\ \A j \in 1 .. Len(w) : w[j] = s[j + 1]
  OBVIOUS
<1>2. Distinct(w)
  BY <1>1 DEF Distinct
<1>3. \A j \in 1 .. Len(w) : w[j] \in Nodes(s) \ {s[1]}
  <2> SUFFICES ASSUME NEW j \in 1 .. Len(w)
               PROVE  w[j] \in Nodes(s) \ {s[1]}
    OBVIOUS
  <2>1. j + 1 \in 1 .. Len(s) /\ w[j] = s[j + 1] /\ j + 1 # 1 /\ 1 \in 1 .. Len(s)
    BY <1>1
  <2> QED BY <2>1 DEF Nodes, Distinct
<1>4. ASSUME NEW j \in 1 .. Len(s), s[j] # s[1]
      PROVE  s[j] \in Nodes(w)
  <2>1. j - 1 \in 1 .. Len(w) /\ w[j - 1] = s[j]
    BY <1>1, <1>4
  <2> QED BY <2>1 DEF Nodes
<1>5. Nodes(w) = Nodes(s) \ {s[1]}
  BY <1>3, <1>4 DEF Nodes
<1>6. \A pri : Sorted(pri, s) => Sorted(pri, w)
  BY <1>1 DEF Sorted
<1>7. 1 \in 1 .. Len(s)
  BY <1>1
<1>8. s[1] \in Nodes(s) /\ s[1] \in S
  BY <1>7 DEF Nodes
<1> QED BY <1>1, <1>2, <1>5, <1>6, <1>8

(* Taking a node out, wherever it is, keeps the order of the rest.          *)
LEMMA WithoutNodeList ==
    ASSUME NEW S, NEW s \in Seq(S), Distinct(s), NEW n
    PROVE  /\ WithoutNode(s, n) \in Seq(S)
           /\ Distinct(WithoutNode(s, n))
           /\ Nodes(WithoutNode(s, n)) = Nodes(s) \ {n}
           /\ \A pri : Sorted(pri, s) => Sorted(pri, WithoutNode(s, n))
<1>1. CASE n \notin Nodes(s)
  BY <1>1 DEF WithoutNode
<1>2. CASE n \in Nodes(s)
  <2> DEFINE i == CHOOSE i \in 1 .. Len(s) : s[i] = n
  <2>1. i \in 1 .. Len(s) /\ s[i] = n
    BY <1>2 DEF Nodes
  <2>2. WithoutNode(s, n) = WithoutAt(s, i)
    BY <1>2 DEF WithoutNode
  <2> HIDE DEF i
  <2> QED BY <2>1, <2>2, WithoutAtSeq, WithoutAtNodes
<1> QED BY <1>1, <1>2

-----------------------------------------------------------------------------
(* Lists in rising order of a key: the timers by wake time, the requests by *)
(* target time.                                                             *)

Rising(key, s) == \A i, j \in 1 .. Len(s) : i < j => key[s[i]] <= key[s[j]]

(* The first node of a rising list has the least key.                       *)
LEMMA HeadFirst ==
    ASSUME NEW S, NEW s \in Seq(S), NEW key \in [S -> Int], Rising(key, s), s # << >>
    PROVE  /\ Head(s) \in Nodes(s) /\ Head(s) \in S
           /\ \A x \in Nodes(s) : key[Head(s)] <= key[x]
<1>1. Len(s) \in Nat /\ 1 \in 1 .. Len(s) /\ Head(s) = s[1] /\ s[1] \in S
  OBVIOUS
<1>2. ASSUME NEW j \in 1 .. Len(s)
      PROVE  key[s[1]] <= key[s[j]]
  <2>1. CASE j = 1
    BY <1>1, <2>1
  <2>2. CASE j # 1
    BY <1>1, <2>2 DEF Rising
  <2> QED BY <2>1, <2>2
<1> QED BY <1>1, <1>2 DEF Nodes

(* REMOVENODE and RemHead keep a rising list rising.                        *)
LEMMA RemovalRising ==
    ASSUME NEW S, NEW s \in Seq(S), NEW key, Rising(key, s), NEW n
    PROVE  /\ Rising(key, WithoutNode(s, n))
           /\ s # << >> => Rising(key, Tail(s))
<1>1. ASSUME n \notin Nodes(s) PROVE Rising(key, WithoutNode(s, n))
  BY <1>1 DEF WithoutNode
<1>2. ASSUME n \in Nodes(s) PROVE Rising(key, WithoutNode(s, n))
  <2> DEFINE i == CHOOSE i \in 1 .. Len(s) : s[i] = n
  <2>1. i \in 1 .. Len(s)
    BY <1>2 DEF Nodes
  <2>2. WithoutNode(s, n) = WithoutAt(s, i)
    BY <1>2 DEF WithoutNode
  <2> HIDE DEF i
  <2> DEFINE at(m) == IF m < i THEN m ELSE m + 1
  <2> PICK w : w = WithoutAt(s, i)
    OBVIOUS
  <2>3. /\ Len(s) \in Nat
        /\ Len(w) = Len(s) - 1
        /\ \A j \in 1 .. Len(w) : at(j) \in 1 .. Len(s) /\ w[j] = s[at(j)]
    BY <2>1, WithoutAtSeq DEF WithoutAt
  <2>4. SUFFICES ASSUME NEW j \in 1 .. Len(w), NEW k \in 1 .. Len(w), j < k
                 PROVE  key[w[j]] <= key[w[k]]
    BY <2>2 DEF Rising
  <2>5. at(j) < at(k)
    BY <2>1, <2>3, <2>4
  <2> QED BY <2>3, <2>5 DEF Rising
<1>3. ASSUME s # << >> PROVE Rising(key, Tail(s))
  <2>1. /\ Len(s) \in Nat /\ Len(Tail(s)) = Len(s) - 1
        /\ \A j \in 1 .. Len(Tail(s)) : Tail(s)[j] = s[j + 1]
    BY <1>3
  <2> SUFFICES ASSUME NEW i \in 1 .. Len(Tail(s)), NEW j \in 1 .. Len(Tail(s)), i < j
               PROVE  key[Tail(s)[i]] <= key[Tail(s)[j]]
    BY DEF Rising
  <2>2. /\ i + 1 \in 1 .. Len(s) /\ j + 1 \in 1 .. Len(s) /\ i + 1 < j + 1
        /\ Tail(s)[i] = s[i + 1] /\ Tail(s)[j] = s[j + 1]
    BY <2>1
  <2> QED BY <2>2 DEF Rising
<1> QED BY <1>1, <1>2, <1>3

(* Every non-empty set of numbers has a least one.                          *)
LEMMA LeastNat ==
    ASSUME NEW T, T \subseteq Nat, T # {}
    PROVE  \E x \in T : \A y \in T : x <= y
<1> DEFINE R == OpToRel(<, Nat)
<1>1. IsWellFoundedOn(R, Nat)
  BY NatLessThanWellFounded, Zenon
<1>2. \A x, y \in Nat : x < y => <<x, y>> \in R
  BY DEF OpToRel
<1> HIDE DEF R
<1>3. PICK x \in T : \A y \in T : ~ (<<y, x>> \in R)
  BY <1>1, WFMin
<1>4. ASSUME NEW y \in T PROVE x <= y
  <2>1. x \in Nat /\ y \in Nat
    OBVIOUS
  <2>2. ~ (y < x)
    BY <1>2, <1>3, <2>1
  <2> QED BY <2>1, <2>2
<1> QED BY <1>4

(* UniversalInsertNode finds a place: the first node of the set later, or   *)
(* the end of the list.                                                     *)
LEMMA InsertionPlace ==
    ASSUME NEW S, NEW s \in Seq(S), NEW n, NEW later
    PROVE  \E k \in 0 .. Len(s) :
              /\ UniversalInsertNode(s, n, later) = InsertAfter(s, k, n)
              /\ k < Len(s) => s[k + 1] \in later
              /\ \A i \in 1 .. k : s[i] \notin later
<1> DEFINE Fits(k) == /\ k < Len(s) => s[k + 1] \in later
                      /\ \A i \in 1 .. k : s[i] \notin later
           T == {i \in 1 .. Len(s) : s[i] \in later}
<1>1. Len(s) \in Nat
  OBVIOUS
<1>2. \E k \in 0 .. Len(s) : Fits(k)
  <2>1. CASE T = {}
    <3>1. Fits(Len(s)) /\ Len(s) \in 0 .. Len(s)
      BY <1>1, <2>1
    <3> QED BY <3>1
  <2>2. CASE T # {}
    <3> HIDE DEF T
    <3>0. T \subseteq Nat
      BY <1>1 DEF T
    <3>1. PICK x \in T : \A y \in T : x <= y
      BY <2>2, <3>0, LeastNat
    <3> USE DEF T
    <3>2. x - 1 \in 0 .. Len(s) /\ Fits(x - 1)
      BY <1>1, <3>1
    <3> QED BY <3>2
  <2> QED BY <2>1, <2>2
<1>3. PICK k : k = CHOOSE j \in 0 .. Len(s) : Fits(j)
  OBVIOUS
<1>4. k \in 0 .. Len(s) /\ Fits(k)
  BY <1>2, <1>3
<1>5. UniversalInsertNode(s, n, later) = InsertAfter(s, k, n)
  BY <1>3 DEF UniversalInsertNode
<1> QED BY <1>4, <1>5

(* UniversalInsertNode adds exactly one node.                               *)
LEMMA UniversalInsertList ==
    ASSUME NEW S, NEW s \in Seq(S), Distinct(s), NEW n \in S, n \notin Nodes(s), NEW later
    PROVE  /\ UniversalInsertNode(s, n, later) \in Seq(S)
           /\ UniversalInsertNode(s, n, later) # << >>
           /\ Distinct(UniversalInsertNode(s, n, later))
           /\ Nodes(UniversalInsertNode(s, n, later)) = Nodes(s) \cup {n}
<1>1. PICK k \in 0 .. Len(s) : UniversalInsertNode(s, n, later) = InsertAfter(s, k, n)
  BY InsertionPlace
<1>2. Len(s) \in Nat /\ Len(InsertAfter(s, k, n)) = Len(s) + 1
  BY InsertSeq
<1>3. InsertAfter(s, k, n) \in Seq(S) /\ InsertAfter(s, k, n) # << >>
  BY <1>2, InsertSeq
<1> QED BY <1>1, <1>3, InsertNodes

(* UniversalInsertNode keeps a list in rising order, whether the node goes  *)
(* before its equals (CmpTicks) or behind them (CmpWakeTimes).              *)
LEMMA UniversalInsertRising ==
    ASSUME NEW S, NEW s \in Seq(S), NEW n \in S, NEW key \in [S -> Int], Rising(key, s),
           NEW later, \/ later = {x \in Nodes(s) : key[n] < key[x]}
                      \/ later = {x \in Nodes(s) : key[n] <= key[x]}
    PROVE  Rising(key, UniversalInsertNode(s, n, later))
<1>0. PICK k \in 0 .. Len(s) :
         /\ UniversalInsertNode(s, n, later) = InsertAfter(s, k, n)
         /\ k < Len(s) => s[k + 1] \in later
         /\ \A i \in 1 .. k : s[i] \notin later
  BY InsertionPlace
<1> PICK w : w = InsertAfter(s, k, n)
  OBVIOUS
<1>1. /\ Len(s) \in Nat
      /\ Len(w) = Len(s) + 1
      /\ \A j \in 1 .. Len(w) :
            w[j] = IF j <= k THEN s[j] ELSE IF j = k + 1 THEN n ELSE s[j - 1]
  BY DEF InsertAfter
<1>2. /\ key[n] \in Int
      /\ \A j \in 1 .. Len(s) : key[s[j]] \in Int
  OBVIOUS
<1>3. \A j \in 1 .. Len(s) : j <= k => key[s[j]] <= key[n]
  BY <1>0, <1>1, <1>2 DEF Nodes
<1>4. \A j \in 1 .. Len(s) : j > k => key[n] <= key[s[j]]
  <2> SUFFICES ASSUME NEW j \in 1 .. Len(s), j > k
               PROVE  key[n] <= key[s[j]]
    OBVIOUS
  <2>1. k + 1 \in 1 .. Len(s) /\ key[n] <= key[s[k + 1]]
    BY <1>0, <1>1, <1>2
  <2>2. key[s[k + 1]] <= key[s[j]]
    <3>1. CASE j = k + 1
      BY <1>2, <2>1, <3>1
    <3>2. CASE j > k + 1
      BY <2>1, <3>2 DEF Rising
    <3> QED BY <2>1, <3>1, <3>2
  <2> QED BY <1>2, <2>1, <2>2
<1>5. SUFFICES ASSUME NEW i \in 1 .. Len(w), NEW j \in 1 .. Len(w), i < j
               PROVE  key[w[i]] <= key[w[j]]
  BY <1>0 DEF Rising
<1>6. CASE j <= k
  <2>1. i \in 1 .. Len(s) /\ j \in 1 .. Len(s) /\ w[i] = s[i] /\ w[j] = s[j]
    BY <1>1, <1>5, <1>6
  <2> QED BY <1>5, <2>1 DEF Rising
<1>7. CASE j = k + 1
  <2>1. i \in 1 .. Len(s) /\ i <= k /\ w[i] = s[i] /\ w[j] = n
    BY <1>1, <1>5, <1>7
  <2> QED BY <1>3, <2>1
<1>8. CASE j > k + 1
  <2>1. j - 1 \in 1 .. Len(s) /\ w[j] = s[j - 1]
    BY <1>0, <1>1, <1>8
  <2>2. CASE i <= k
    <3>1. i \in 1 .. Len(s) /\ i < j - 1 /\ w[i] = s[i]
      BY <1>0, <1>1, <1>8, <2>2
    <3> QED BY <2>1, <3>1 DEF Rising
  <2>3. CASE i = k + 1
    <3>1. w[i] = n /\ j - 1 > k
      BY <1>0, <1>1, <1>8, <2>3
    <3> QED BY <1>4, <2>1, <3>1
  <2>4. CASE i > k + 1
    <3>1. i - 1 \in 1 .. Len(s) /\ i - 1 < j - 1 /\ w[i] = s[i - 1]
      BY <1>1, <1>5, <2>4
    <3> QED BY <2>1, <3>1 DEF Rising
  <2> QED BY <1>0, <2>2, <2>3, <2>4
<1> QED BY <1>0, <1>6, <1>7, <1>8

===============================================================================
