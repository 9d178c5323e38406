--------------------------- MODULE ItemTableProofs ---------------------------
(***************************************************************************)
(* Proofs about ItemTable.  First lemmas about tables: what AllocItemSlot, *)
(* FreeItemSlot, internalIncreaseResourceTable, RemoveItem and             *)
(* RemoveItemReferences do to the chain of free slots and to the entries.  *)
(* Then the invariants:                                                    *)
(*                                                                         *)
(*   - Inv: tables and their chains (TableOK), the free entries of the     *)
(*     item table, closes under way (CallInv: the item is still in its     *)
(*     slot) and owners (OwnInv: an owned number is that of a live item of *)
(*     the task, in one slot); by it ChainsAndOwners.                      *)
(*   - OpenInv: an open number of a deleted item has an earlier generation *)
(*     than the entry, any other is the number of the item.  CountInv: the *)
(*     count of an item is the number of slots that count for it, and of   *)
(*     those lost with a dead task.                                        *)
(*                                                                         *)
(* What is open is looked at through two views of a slot, whichever call   *)
(* is under way: Has, the numbers it has, and Counts, those it counts for  *)
(* (a slot that is being closed has its number and does not count).        *)
(*                                                                         *)
(* The theorems assume ~WrapInCalls: no entry's last generation ends during*)
(* an open or close of its item.  Without it ir_Close may delete the item, *)
(* RemoveItemReferences free the slot that is being closed, and            *)
(* internalCloseItemSlot free it again.                                    *)
(*                                                                         *)
(* ItemTable has no RECURSIVE operator: what a step does to a chain follows*)
(* from ChainOf, the closure of the first free slot under the links.       *)
(***************************************************************************)
EXTENDS ItemTable, ListProofs, FiniteSetTheorems

-----------------------------------------------------------------------------
(* Resource tables.                                                        *)

\* The entries that are the number of an item.
Refs == [free : {FALSE}, item : Numbers, opened : BOOLEAN, gone : BOOLEAN]

\* The slots with the number of an item; the free ones that are not set aside.
Used(tab)      == {s \in DOMAIN tab.slots : ~tab.slots[s].free}
Unused(tab, R) == {s \in DOMAIN tab.slots : tab.slots[s].free} \ R

\* The chain of tab has the free slots but those set aside in R.
ChainOf(tab, R) ==
    /\ tab.free \in Unused(tab, R) \cup {Nil}
    /\ \A s \in Unused(tab, R) :
           tab.slots[s].to \in (Unused(tab, R) \ {tab.free}) \cup {Nil}
    /\ \A s, r \in Unused(tab, R) :
           tab.slots[s].to = tab.slots[r].to /\ tab.slots[s].to # Nil => s = r
    /\ \A S \in SUBSET Unused(tab, R) :
           tab.free \in S \cup {Nil} /\ (\A s \in S : tab.slots[s].to \in S \cup {Nil}) =>
               S = Unused(tab, R)

\* A table of a task that has set aside the slots R.
TableOK(tab, R) ==
    /\ tab \in Tables /\ DOMAIN tab.slots = 0 .. tab.size - 1
    /\ \A s \in R : s \in DOMAIN tab.slots /\ tab.slots[s].free
    /\ ChainOf(tab, R)

\* The table q has the entries of tab.
SameUsed(tab, q) ==
    /\ Used(q) = Used(tab)
    /\ \A s \in Used(tab) : q.slots[s] = tab.slots[s]

\* The table q has the entries of tab and, in slot s, e; those of tab but slot s.
Plus(tab, q, s, e) ==
    /\ s \notin Used(tab) /\ Used(q) = Used(tab) \cup {s} /\ q.slots[s] = e
    /\ \A r \in Used(tab) : q.slots[r] = tab.slots[r]
Minus(tab, q, s) ==
    /\ s \in Used(tab) /\ Used(q) = Used(tab) \ {s}
    /\ \A r \in Used(q) : q.slots[r] = tab.slots[r]

(* What an entry is.                                                        *)
LEMMA EntryIs ==
    ASSUME NEW tab \in Tables, NEW s \in DOMAIN tab.slots
    PROVE  /\ tab.slots[s] \in Entries
           /\ tab.slots[s].free \in BOOLEAN
           /\ tab.slots[s].free =>
                /\ tab.slots[s].to \in SlotNos \cup {Nil}
                /\ tab.slots[s] = Link(tab.slots[s].to)
           /\ ~tab.slots[s].free =>
                tab.slots[s] \in Refs
<1>0. tab.slots \in UNION {[0 .. n - 1 -> Entries] : n \in 0 .. MaxSlots}
  BY DEF Tables
<1>1. PICK n \in 0 .. MaxSlots : tab.slots \in [0 .. n - 1 -> Entries]
  BY <1>0
<1>2. tab.slots[s] \in Entries
  BY <1>1
<1>3. CASE tab.slots[s] \in {Link(r) : r \in SlotNos \cup {Nil}}
  <2>1. PICK r \in SlotNos \cup {Nil} : tab.slots[s] = Link(r)
    BY <1>3
  <2>2. tab.slots[s].free = TRUE /\ tab.slots[s].to = r
    BY <2>1 DEF Link
  <2> QED BY <1>2, <2>1, <2>2
<1>4. CASE tab.slots[s] \in Refs
  BY <1>2, <1>4 DEF Refs
<1> QED BY <1>2, <1>3, <1>4 DEF Entries, Refs

(* A table is one whose slots are numbered from 0 and hold entries.         *)
LEMMA IsTable ==
    ASSUME NEW sl, NEW f \in SlotNos \cup {Nil}, NEW n \in 0 .. MaxSlots,
           sl \in [0 .. n - 1 -> Entries]
    PROVE  [slots |-> sl, free |-> f, size |-> n] \in Tables
BY DEF Tables

(* A table is what its fields are.                                          *)
LEMMA TableIs ==
    ASSUME NEW tab \in Tables, DOMAIN tab.slots = 0 .. tab.size - 1
    PROVE  /\ tab = [slots |-> tab.slots, free |-> tab.free, size |-> tab.size]
           /\ tab.slots \in [0 .. tab.size - 1 -> Entries]
           /\ tab.size \in 0 .. MaxSlots /\ tab.free \in SlotNos \cup {Nil}
<1>1. /\ tab = [slots |-> tab.slots, free |-> tab.free, size |-> tab.size]
      /\ tab.size \in 0 .. MaxSlots /\ tab.free \in SlotNos \cup {Nil}
      /\ tab.slots \in UNION {[0 .. n - 1 -> Entries] : n \in 0 .. MaxSlots}
  BY DEF Tables
<1> QED BY <1>1

(* A chain depends on the first slot, the free slots and their links.       *)
LEMMA SameChain ==
    ASSUME NEW tab, NEW q, NEW R, NEW T, ChainOf(tab, R), Unused(q, T) = Unused(tab, R),
           q.free = tab.free,
           \A s \in Unused(tab, R) : q.slots[s].to = tab.slots[s].to
    PROVE  ChainOf(q, T)
<1> DEFINE U == Unused(tab, R)
<1>1. /\ tab.free \in U \cup {Nil}
      /\ \A s \in U : tab.slots[s].to \in (U \ {tab.free}) \cup {Nil}
  BY DEF ChainOf
<1>2. ASSUME NEW s \in U, NEW r \in U, tab.slots[s].to = tab.slots[r].to,
             tab.slots[s].to # Nil
      PROVE  s = r
  BY <1>2 DEF ChainOf
<1>3. ASSUME NEW S \in SUBSET U, tab.free \in S \cup {Nil},
             \A s \in S : tab.slots[s].to \in S \cup {Nil}
      PROVE  S = U
  BY <1>3 DEF ChainOf
<1> HIDE DEF U
<1>4. \A s \in U : q.slots[s].to = tab.slots[s].to
  BY DEF U
<1>5. Unused(q, T) = U
  BY DEF U
<1>6. \A s, r \in U : q.slots[s].to = q.slots[r].to /\ q.slots[s].to # Nil => s = r
  BY <1>2, <1>4
<1>7. ASSUME NEW S \in SUBSET U, tab.free \in S \cup {Nil},
             \A s \in S : q.slots[s].to \in S \cup {Nil}
      PROVE  S = U
  <2>1. \A s \in S : tab.slots[s].to \in S \cup {Nil}
    BY <1>4, <1>7
  <2> QED BY <1>3, <1>7, <2>1
<1> QED BY <1>1, <1>4, <1>5, <1>6, <1>7 DEF ChainOf

(* AllocItemSlot of a table with a free slot.                               *)
LEMMA Taking ==
    ASSUME NEW tab, NEW R, TableOK(tab, R), tab.free # Nil,
           NEW q, q = [tab EXCEPT !.free = tab.slots[tab.free].to]
    PROVE  /\ tab.free \in Unused(tab, R)
           /\ TableOK(q, R \cup {tab.free}) /\ SameUsed(tab, q)
<1> DEFINE f == tab.free
<1>1. f \in Unused(tab, R) /\ f \in DOMAIN tab.slots /\ tab.slots[f].free
  BY DEF TableOK, ChainOf, Unused
<1>2. tab.slots[f].to \in SlotNos \cup {Nil}
  BY <1>1, EntryIs DEF TableOK
<1>3. q = [slots |-> tab.slots, free |-> tab.slots[f].to, size |-> tab.size]
  BY TableIs DEF TableOK
<1>4. q \in Tables /\ DOMAIN q.slots = 0 .. q.size - 1
  <2>1. /\ tab.slots \in [0 .. tab.size - 1 -> Entries] /\ tab.size \in 0 .. MaxSlots
        /\ DOMAIN tab.slots = 0 .. tab.size - 1
    BY TableIs DEF TableOK
  <2>2. q \in Tables
    BY <1>2, <1>3, <2>1 DEF Tables
  <2> QED BY <1>3, <2>1, <2>2
<1>5. Unused(q, R \cup {f}) = Unused(tab, R) \ {f}
  BY <1>3 DEF Unused
<1>6. ChainOf(q, R \cup {f})
  <2>1. q.free \in Unused(q, R \cup {f}) \cup {Nil}
    BY <1>1, <1>3, <1>5 DEF TableOK, ChainOf
  <2>2. ASSUME NEW s \in Unused(q, R \cup {f})
        PROVE  q.slots[s].to \in (Unused(q, R \cup {f}) \ {q.free}) \cup {Nil}
    BY <1>1, <1>3, <1>5 DEF TableOK, ChainOf
  <2>3. ASSUME NEW s \in Unused(q, R \cup {f}), NEW r \in Unused(q, R \cup {f}),
               q.slots[s].to = q.slots[r].to, q.slots[s].to # Nil
        PROVE  s = r
    <3>1. s \in Unused(tab, R) /\ r \in Unused(tab, R)
      BY <1>5
    <3>2. tab.slots[s].to = tab.slots[r].to /\ tab.slots[s].to # Nil
      BY <1>3, <2>3
    <3> QED BY <3>1, <3>2 DEF TableOK, ChainOf
  <2>4. ASSUME NEW S \in SUBSET Unused(q, R \cup {f}), q.free \in S \cup {Nil},
               \A s \in S : q.slots[s].to \in S \cup {Nil}
        PROVE  S = Unused(q, R \cup {f})
    <3>1. S \cup {f} \in SUBSET Unused(tab, R) /\ f \in S \cup {f}
      BY <1>1, <1>5
    <3>2. \A s \in S \cup {f} : tab.slots[s].to \in (S \cup {f}) \cup {Nil}
      BY <1>3, <2>4
    <3>3. S \cup {f} = Unused(tab, R)
      BY <3>1, <3>2 DEF TableOK, ChainOf
    <3> QED BY <3>3, <1>5
  <2> QED BY <2>1, <2>2, <2>3, <2>4 DEF ChainOf
<1>7. SameUsed(tab, q)
  BY <1>3 DEF SameUsed, Used
<1>8. \A r \in R \cup {f} : r \in DOMAIN q.slots /\ q.slots[r].free
  BY <1>1, <1>3 DEF TableOK
<1> QED BY <1>1, <1>4, <1>6, <1>7, <1>8 DEF TableOK

(* FreeItemSlot of a slot in use or set aside.                              *)
LEMMA Freeing ==
    ASSUME NEW tab, NEW R, TableOK(tab, R), NEW s \in DOMAIN tab.slots,
           s \notin Unused(tab, R)
    PROVE  LET q == FreeItemSlot(tab, s)
           IN  /\ TableOK(q, R \ {s})
               /\ Used(q) = Used(tab) \ {s}
               /\ \A r \in Used(q) : q.slots[r] = tab.slots[r]
<1> DEFINE q == FreeItemSlot(tab, s)
           U == Unused(tab, R)
<1>0. s \in SlotNos /\ s # Nil
  BY TableIs, ItemTableAssumption DEF TableOK, SlotNos
<1>1. /\ q = [slots |-> [tab.slots EXCEPT ![s] = Link(tab.free)], free |-> s,
              size |-> tab.size]
      /\ Link(tab.free) \in Entries
  <2>1. /\ tab = [slots |-> tab.slots, free |-> tab.free, size |-> tab.size]
        /\ tab.free \in SlotNos \cup {Nil}
    BY TableIs DEF TableOK
  <2>2. Link(tab.free) \in Entries
    BY <2>1 DEF Entries
  <2>3. Put(tab, s, Link(tab.free)) =
            [slots |-> [tab.slots EXCEPT ![s] = Link(tab.free)], free |-> tab.free,
             size |-> tab.size]
    BY <2>1 DEF Put
  <2> QED BY <2>2, <2>3 DEF FreeItemSlot
<1>2. q \in Tables /\ DOMAIN q.slots = 0 .. q.size - 1 /\ DOMAIN q.slots = DOMAIN tab.slots
  <2>1. [tab.slots EXCEPT ![s] = Link(tab.free)] \in [0 .. tab.size - 1 -> Entries]
    BY <1>1, TableIs DEF TableOK
  <2> QED BY <1>0, <1>1, <2>1, TableIs, IsTable DEF TableOK
<1>3. /\ q.slots[s].free = TRUE /\ q.slots[s].to = tab.free /\ q.free = s
      /\ \A r \in DOMAIN tab.slots : r # s => q.slots[r] = tab.slots[r]
  BY <1>1 DEF Link
<1>4. Unused(q, R \ {s}) = U \cup {s}
  BY <1>2, <1>3 DEF Unused
<1> HIDE DEF q
<1>5. ChainOf(q, R \ {s})
  <2>0. \A r \in U : r \in DOMAIN tab.slots /\ r # s
    BY DEF Unused
  <2>1. q.free \in Unused(q, R \ {s}) \cup {Nil}
    BY <1>3, <1>4
  <2>2. ASSUME NEW r \in Unused(q, R \ {s})
        PROVE  q.slots[r].to \in (Unused(q, R \ {s}) \ {q.free}) \cup {Nil}
    <3>1. /\ tab.free \in U \cup {Nil}
          /\ \A x \in U : tab.slots[x].to \in (U \ {tab.free}) \cup {Nil}
      BY DEF TableOK, ChainOf
    <3>2. CASE r = s
      BY <1>3, <1>4, <2>0, <3>1, <3>2
    <3>3. CASE r \in U
      <4>1. q.slots[r].to = tab.slots[r].to
        BY <1>3, <2>0, <3>3
      <4> QED BY <1>3, <1>4, <2>0, <3>1, <3>3, <4>1
    <3> QED BY <1>4, <3>2, <3>3
  <2>3. ASSUME NEW r \in Unused(q, R \ {s}), NEW p \in Unused(q, R \ {s}),
               q.slots[r].to = q.slots[p].to, q.slots[r].to # Nil
        PROVE  r = p
    <3>1. \A x \in U : q.slots[x].to = tab.slots[x].to
      BY <1>3, <2>0
    <3>5. \A x \in U : tab.slots[x].to \in (U \ {tab.free}) \cup {Nil}
      BY DEF TableOK, ChainOf
    <3>2. r \in U \cup {s} /\ p \in U \cup {s} /\ q.slots[s].to = tab.free
      BY <1>3, <1>4
    <3>4. CASE r = s \/ p = s
      BY <2>3, <3>1, <3>2, <3>4, <3>5
    <3>3. CASE r # s /\ p # s
      <4>1. r \in U /\ p \in U
        BY <3>2, <3>3
      <4>2. tab.slots[r].to = tab.slots[p].to /\ tab.slots[r].to # Nil
        BY <2>3, <3>1, <4>1
      <4> QED BY <4>1, <4>2 DEF TableOK, ChainOf
    <3> QED BY <3>3, <3>4
  <2>4. ASSUME NEW S \in SUBSET Unused(q, R \ {s}), q.free \in S \cup {Nil},
               \A r \in S : q.slots[r].to \in S \cup {Nil}
        PROVE  S = Unused(q, R \ {s})
    <3>1. s \in S /\ S \ {s} \in SUBSET U
      BY <1>0, <1>3, <1>4, <2>4
    <3>2. tab.free \in (S \ {s}) \cup {Nil}
      BY <1>3, <2>0, <2>4, <3>1 DEF TableOK, ChainOf
    <3>3. \A r \in S \ {s} : tab.slots[r].to \in (S \ {s}) \cup {Nil}
      BY <1>3, <2>0, <2>4, <3>1 DEF TableOK, ChainOf
    <3>4. S \ {s} = U
      BY <3>1, <3>2, <3>3 DEF TableOK, ChainOf
    <3> QED BY <3>1, <3>4, <1>4
  <2> QED BY <2>1, <2>2, <2>3, <2>4 DEF ChainOf
<1>6. Used(q) = Used(tab) \ {s} /\ \A r \in Used(q) : q.slots[r] = tab.slots[r]
  BY <1>2, <1>3 DEF Used
<1>7. \A r \in R \ {s} : r \in DOMAIN q.slots /\ q.slots[r].free
  BY <1>2, <1>3 DEF TableOK
<1> QED BY <1>2, <1>5, <1>6, <1>7 DEF TableOK, q

(* The entry of an item in a slot set aside.                                *)
LEMMA Putting ==
    ASSUME NEW tab, NEW R, TableOK(tab, R), NEW s \in R,
           NEW e \in Refs, NEW q, q = Put(tab, s, e)
    PROVE  TableOK(q, R \ {s}) /\ Plus(tab, q, s, e)
<1> DEFINE U == Unused(tab, R)
<1>0. s \in DOMAIN tab.slots /\ tab.slots[s].free
  BY DEF TableOK
<1>1. q = [slots |-> [tab.slots EXCEPT ![s] = e], free |-> tab.free, size |-> tab.size]
  <2>1. tab = [slots |-> tab.slots, free |-> tab.free, size |-> tab.size]
    BY TableIs DEF TableOK
  <2> QED BY <2>1 DEF Put
<1>2. q \in Tables /\ DOMAIN q.slots = 0 .. q.size - 1 /\ DOMAIN q.slots = DOMAIN tab.slots
  <2>1. [tab.slots EXCEPT ![s] = e] \in [0 .. tab.size - 1 -> Entries]
    BY <1>0, TableIs DEF TableOK, Entries, Refs
  <2>2. /\ tab.size \in 0 .. MaxSlots /\ tab.free \in SlotNos \cup {Nil}
        /\ DOMAIN tab.slots = 0 .. tab.size - 1
    BY TableIs DEF TableOK
  <2>3. q \in Tables
    BY <1>1, <2>1, <2>2 DEF Tables
  <2> QED BY <1>1, <2>2, <2>3
<1>3. /\ q.slots[s] = e /\ ~e.free /\ q.free = tab.free
      /\ \A r \in DOMAIN tab.slots : r # s => q.slots[r] = tab.slots[r]
  <2>1. ~e.free
    BY DEF Refs
  <2> QED BY <1>0, <1>1, <2>1
<1>4. Unused(q, R \ {s}) = U
  BY <1>2, <1>3 DEF Unused
<1>5. \A r \in U : q.slots[r] = tab.slots[r]
  BY <1>3 DEF Unused
<1>6. ChainOf(q, R \ {s})
  <2> HIDE DEF U
  <2>1. ChainOf(tab, R) /\ U = Unused(tab, R)
    BY DEF TableOK, U
  <2> QED BY <1>3, <1>4, <1>5, <2>1, SameChain
<1>7. /\ s \notin Used(tab) /\ Used(q) = Used(tab) \cup {s}
      /\ \A r \in Used(tab) : q.slots[r] = tab.slots[r]
  BY <1>0, <1>2, <1>3 DEF Used
<1>8. \A r \in R \ {s} : r \in DOMAIN q.slots /\ q.slots[r].free
  BY <1>2, <1>3 DEF TableOK
<1> QED BY <1>2, <1>3, <1>6, <1>7, <1>8 DEF TableOK, Plus

(* internalIncreaseResourceTable.                                           *)
LEMMA Growing ==
    ASSUME NEW tab, NEW R, TableOK(tab, R), NEW n \in Nat \ {0}, tab.size + n <= MaxSlots
    PROVE  LET q == Grown(tab, n)
           IN  TableOK(q, R) /\ SameUsed(tab, q) /\ q.free # Nil
<1> DEFINE q    == Grown(tab, n)
           m    == tab.size
           last == m + n - 1
           N    == m .. last
           U    == Unused(tab, R)
<1>1. /\ m \in Nat /\ last \in Nat /\ m <= last /\ last < MaxSlots /\ MaxSlots \in Nat
      /\ Nil \notin Nat /\ DOMAIN tab.slots = 0 .. m - 1 /\ tab.slots \in [0 .. m - 1 -> Entries]
      /\ tab.free \in SlotNos \cup {Nil}
  BY TableIs, ItemTableAssumption DEF TableOK
<1>2. /\ q.free = m /\ q.size = m + n /\ DOMAIN q.slots = 0 .. last
      /\ \A s \in 0 .. m - 1 : q.slots[s] = tab.slots[s]
      /\ \A s \in N : q.slots[s] = Link(IF s = last THEN tab.free ELSE s + 1)
  BY <1>1 DEF Grown
<1>3. \A s \in N : q.slots[s] \in Entries
  <2>1. ASSUME NEW s \in N
        PROVE  (IF s = last THEN tab.free ELSE s + 1) \in SlotNos \cup {Nil}
    BY <1>1 DEF SlotNos
  <2> QED BY <1>2, <2>1 DEF Entries
<1>4. q \in Tables
  <2>1. q.slots \in [0 .. last -> Entries]
    <3>1. \A s \in 0 .. last : s \in 0 .. m - 1 \/ s \in N
      BY <1>1
    <3>2. \A s \in 0 .. last : q.slots[s] \in Entries
      BY <1>1, <1>2, <1>3, <3>1
    <3>3. q.slots = [s \in 0 .. last |-> q.slots[s]]
      BY DEF Grown
    <3> QED BY <3>2, <3>3
  <2>6. last = (m + n) - 1
    BY <1>1
  <2>2. q.slots \in [0 .. (m + n) - 1 -> Entries]
    BY <2>1, <2>6
  <2>5. m + n \in 0 .. MaxSlots
    BY <1>1
  <2>3. q = [slots |-> q.slots, free |-> q.free, size |-> q.size]
    BY DEF Grown
  <2>4. m \in SlotNos \cup {Nil}
    BY <1>1 DEF SlotNos
  <2> HIDE DEF q
  <2> QED BY <1>2, <2>2, <2>3, <2>4, <2>5 DEF Tables
<1> HIDE DEF q
<1>5. \A s \in N : q.slots[s].free = TRUE /\ s \notin DOMAIN tab.slots /\ s \in DOMAIN q.slots
  <2>1. \A x : Link(x).free = TRUE
    BY DEF Link
  <2>2. \A s \in N : s \notin 0 .. m - 1 /\ s \in 0 .. last
    BY <1>1
  <2> QED BY <1>1, <1>2, <2>1, <2>2
<1>6. /\ \A s \in N : s # last => q.slots[s].to = s + 1
      /\ q.slots[last].to = tab.free
  <2>1. \A x : Link(x).to = x
    BY DEF Link
  <2>2. last \in N
    BY <1>1
  <2> HIDE DEF last, N
  <2> QED BY <1>2, <2>1, <2>2
<1>7. \A s : s \in DOMAIN q.slots <=> s \in DOMAIN tab.slots \/ s \in N
  BY <1>1, <1>2
<1>8. R \subseteq DOMAIN tab.slots /\ \A s \in R : tab.slots[s].free
  BY DEF TableOK
<1>9. Unused(q, R) = U \cup N
  BY <1>1, <1>2, <1>5, <1>7, <1>8 DEF Unused
<1>10. \A s \in U : s \notin N /\ q.slots[s].to = tab.slots[s].to
  BY <1>1, <1>2, <1>5 DEF Unused
<1> USE DEF TableOK
<1>11. /\ tab.free \in U \cup {Nil}
       /\ \A s \in U : tab.slots[s].to \in (U \ {tab.free}) \cup {Nil}
       /\ \A s, r \in U : tab.slots[s].to = tab.slots[r].to /\ tab.slots[s].to # Nil => s = r
  BY DEF ChainOf
<1>12. ASSUME NEW S \in SUBSET U, tab.free \in S \cup {Nil},
              \A s \in S : tab.slots[s].to \in S \cup {Nil}
       PROVE  S = U
  BY <1>12 DEF ChainOf
<1> HIDE DEF U, TableOK
<1>13. ChainOf(q, R)
  <2>1. q.free \in Unused(q, R) \cup {Nil} /\ q.free # Nil
    BY <1>1, <1>2, <1>9
  <2>2. ASSUME NEW s \in Unused(q, R)
        PROVE  q.slots[s].to \in (Unused(q, R) \ {q.free}) \cup {Nil}
    <3>1. CASE s \in U
      <4>1. m \notin U
        BY <1>1, <1>10
      <4> QED BY <1>2, <1>9, <1>10, <1>11, <3>1, <4>1
    <3>2. CASE s \in N /\ s # last
      <4>1. s + 1 \in N /\ s + 1 # m
        BY <1>1, <3>2
      <4> QED BY <1>2, <1>6, <1>9, <3>2, <4>1
    <3>3. CASE s = last
      BY <1>1, <1>2, <1>6, <1>9, <1>10, <1>11, <3>3
    <3> QED BY <1>9, <3>1, <3>2, <3>3
  <2>3. ASSUME NEW s \in Unused(q, R), NEW r \in Unused(q, R),
               q.slots[s].to = q.slots[r].to, q.slots[s].to # Nil
        PROVE  s = r
    <3>1. CASE s \in U /\ r \in U
      BY <1>10, <1>11, <2>3, <3>1
    <3>2. \A x \in N : x # last => q.slots[x].to \in N /\ q.slots[x].to \notin U
      BY <1>1, <1>6, <1>10
    <3>3. \A x \in U : q.slots[x].to \in (U \ {tab.free}) \cup {Nil}
      BY <1>10, <1>11
    <3>7. ASSUME NEW x \in Unused(q, R), NEW y \in Unused(q, R), x \in N, x # last,
                 q.slots[x].to = q.slots[y].to, q.slots[x].to # Nil
          PROVE  x = y
      <4>6. q.slots[x].to = x + 1
        BY <1>6, <3>7
      <4>7. x + 1 \in N
        BY <1>1, <3>7
      <4>1. q.slots[x].to = x + 1 /\ x + 1 \in N /\ x + 1 \notin U
        BY <1>10, <4>6, <4>7
      <4>2. y \in N /\ y # last
        BY <1>6, <1>9, <1>11, <3>3, <3>7, <4>1
      <4>3. q.slots[y].to = y + 1
        BY <1>6, <4>2
      <4>4. x \in Nat /\ y \in Nat
        BY <1>1, <3>7, <4>2
      <4>5. x + 1 = y + 1
        BY <3>7, <4>1, <4>3
      <4> QED BY <4>4, <4>5
    <3>4. CASE s \in N /\ s # last
      BY <2>3, <3>4, <3>7
    <3>5. CASE r \in N /\ r # last
      BY <2>3, <3>5, <3>7
    <3>6. CASE s = last \/ r = last
      BY <1>6, <1>9, <1>11, <2>3, <3>2, <3>3, <3>4, <3>5, <3>6
    <3> QED BY <1>9, <3>1, <3>4, <3>5, <3>6
  <2>4. ASSUME NEW S \in SUBSET Unused(q, R), q.free \in S \cup {Nil},
               \A s \in S : q.slots[s].to \in S \cup {Nil}
        PROVE  S = Unused(q, R)
    <3>1. N \subseteq S
      <4> DEFINE T == N \ S
      <4>1. SUFFICES ASSUME T # {} PROVE FALSE
        OBVIOUS
      <4>2. T \subseteq Nat
        BY <1>1
      <4>3. PICK x \in T : \A y \in T : x <= y
        BY <4>1, <4>2, LeastNat
      <4>4. x # m /\ x \in N /\ x \notin S
        BY <1>1, <1>2, <2>4
      <4>5. x - 1 \in N /\ x - 1 # last /\ (x - 1) + 1 = x
        BY <1>1, <4>4
      <4>6. x - 1 \in S
        BY <4>2, <4>3, <4>5
      <4>7. q.slots[x - 1].to = x
        BY <1>6, <4>5
      <4> QED BY <1>1, <2>4, <4>4, <4>6, <4>7
    <3>2. S \ N \in SUBSET U /\ tab.free \in (S \ N) \cup {Nil}
      BY <1>1, <1>6, <1>9, <1>10, <1>11, <2>4, <3>1
    <3>3. \A s \in S \ N : tab.slots[s].to \in (S \ N) \cup {Nil}
      BY <1>9, <1>10, <1>11, <2>4
    <3>4. S \ N = U
      BY <1>12, <3>2, <3>3
    <3> QED BY <1>9, <3>1, <3>4
  <2> QED BY <2>1, <2>2, <2>3, <2>4 DEF ChainOf
<1>14. SameUsed(tab, q)
  BY <1>1, <1>2, <1>5, <1>7 DEF SameUsed, Used
<1>15. DOMAIN q.slots = 0 .. q.size - 1 /\ q.free # Nil
  BY <1>1, <1>2
<1>16. \A s \in R : s \in DOMAIN q.slots /\ q.slots[s].free
  BY <1>1, <1>2, <1>7, <1>8
<1> QED BY <1>4, <1>13, <1>14, <1>15, <1>16 DEF TableOK, q

(* AllocItemSlot: a new slot is set aside, the entries stay.                *)
LEMMA Allocating ==
    ASSUME NEW tab, NEW R, TableOK(tab, R), HasRoom(tab)
    PROVE  /\ TableOK(AllocItemSlot(tab), R \cup {SlotFor(tab)})
           /\ SameUsed(tab, AllocItemSlot(tab))
           /\ SlotFor(tab) \in SlotNos \ R /\ SlotFor(tab) \notin Used(tab)
<1> DEFINE w == WithRoom(tab)
<1>1. TableOK(w, R) /\ SameUsed(tab, w) /\ w.free # Nil
  <2>1. CASE tab.free = Nil
    <3>1. Grow \in Nat \ {0} /\ tab.size + Grow <= MaxSlots
      BY <2>1, ItemTableAssumption DEF HasRoom
    <3> QED BY <2>1, <3>1, Growing DEF WithRoom
  <2>2. CASE tab.free # Nil
    BY <2>2 DEF WithRoom, SameUsed
  <2> QED BY <2>1, <2>2
<1>2. AllocItemSlot(tab) = [w EXCEPT !.free = w.slots[w.free].to] /\ SlotFor(tab) = w.free
  BY DEF AllocItemSlot, SlotFor
<1> HIDE DEF w
<1>3. /\ w.free \in Unused(w, R)
      /\ TableOK(AllocItemSlot(tab), R \cup {w.free}) /\ SameUsed(w, AllocItemSlot(tab))
  BY <1>1, <1>2, Taking
<1>4. w.free \in SlotNos
  BY <1>1, TableIs DEF TableOK
<1>5. w.free \notin R /\ w.free \notin Used(w)
  BY <1>3 DEF Unused, Used
<1> QED BY <1>1, <1>2, <1>3, <1>4, <1>5 DEF SameUsed

-----------------------------------------------------------------------------
(* What is removed from a table.                                           *)

\* No entry whose index is also the number of a slot is in its last generation.
LowEntriesAreYoung == \A i \in Indices \cap SlotNos : NextGen(gen[i]) # 0

\* The table q has the entries of tab but some of those in the slots S; and none of
\* these if they are not more than one.
Less(tab, q, S) ==
    /\ Used(q) \subseteq Used(tab) /\ Used(tab) \ Used(q) \subseteq S
    /\ \A s \in Used(q) : q.slots[s] = tab.slots[s]
Without(tab, q, S) ==
    /\ Less(tab, q, S)
    /\ (\A s, r \in S : s = r) => Used(q) = Used(tab) \ S

(* The first and the last of some slots.                                    *)
LEMMA MinMax ==
    ASSUME NEW n \in Nat, NEW S, S \subseteq 0 .. n - 1, S # {}
    PROVE  Min(S) \in S /\ Max(S) \in S
<1>1. \E x \in S : \A y \in S : x <= y
  <2>1. S \subseteq Nat
    OBVIOUS
  <2> QED BY <2>1, LeastNat
<1>2. \E x \in S : \A y \in S : x >= y
  <2> DEFINE T == {k \in Nat : \A y \in S : y <= k}
  <2>1. n \in T
    OBVIOUS
  <2>2. PICK k \in T : \A j \in T : k <= j
    BY <2>1, LeastNat
  <2>3. k \in S
    <3>1. SUFFICES ASSUME k \notin S PROVE FALSE
      OBVIOUS
    <3>2. PICK z : z \in S
      OBVIOUS
    <3>3. \A y \in S : y \in Nat /\ y <= k /\ y # k
      BY <3>1
    <3>4. k - 1 \in Nat /\ \A y \in S : y <= k - 1
      BY <3>2, <3>3
    <3> QED BY <2>2, <3>4
  <2> QED BY <2>2, <2>3
<1> QED BY <1>1, <1>2 DEF Min, Max

(* FreeItemSlot of a slot in use.                                           *)
LEMMA FreeingUsed ==
    ASSUME NEW tab, NEW R, TableOK(tab, R), NEW S, S \subseteq Used(tab), NEW s \in S
    PROVE  LET q == FreeItemSlot(tab, s)
           IN  TableOK(q, R) /\ Without(tab, q, S) /\ Used(q) = Used(tab) \ {s}
<1>1. s \in DOMAIN tab.slots /\ s \notin Unused(tab, R) /\ s \notin R
  BY DEF Used, Unused, TableOK
<1>2. R \ {s} = R
  BY <1>1
<1>3. LET q == FreeItemSlot(tab, s)
      IN  /\ TableOK(q, R \ {s})
          /\ Used(q) = Used(tab) \ {s}
          /\ \A r \in Used(q) : q.slots[r] = tab.slots[r]
  BY <1>1, Freeing
<1> QED BY <1>2, <1>3 DEF Without, Less

(* RemoveItem.                                                              *)
LEMMA Removing ==
    ASSUME NEW tab, NEW R, TableOK(tab, R), NEW it
    PROVE  LET q == RemoveItem(tab, it)
           IN  TableOK(q, R) /\ Without(tab, q, SlotsOf(tab, it, FALSE))
<1> DEFINE S == SlotsOf(tab, it, FALSE)
<1>1. S \subseteq Used(tab)
  BY DEF SlotsOf, Used
<1>2. CASE S = {}
  BY <1>1, <1>2 DEF RemoveItem, Without, Less
<1>3. CASE S # {}
  <2>1. tab.size \in Nat /\ S \subseteq 0 .. tab.size - 1
    BY TableIs, ItemTableAssumption DEF TableOK, SlotsOf
  <2>2. Min(S) \in S
    BY <1>3, <2>1, MinMax
  <2>3. RemoveItem(tab, it) = FreeItemSlot(tab, Min(S))
    BY <1>3 DEF RemoveItem, FindItemSlot
  <2> HIDE DEF S
  <2>4. TableOK(FreeItemSlot(tab, Min(S)), R) /\ Without(tab, FreeItemSlot(tab, Min(S)), S)
    BY <1>1, <2>2, FreeingUsed
  <2> QED BY <2>3, <2>4 DEF S
<1> QED BY <1>2, <1>3

\* The slots with a number of index i.
SlotsAt(tab, i) == {s \in Used(tab) : tab.slots[s].item[1] = i}

(* RemoveItemReferences, when links are no indices.                         *)
LEMMA Cleaning ==
    ASSUME NEW tab, NEW R, TableOK(tab, R), NEW i \in Indices \ SlotNos
    PROVE  LET q == RemoveItemReferences(tab, i)
           IN  TableOK(q, R) /\ Without(tab, q, SlotsAt(tab, i))
<1> DEFINE S == SlotsNoGen(tab, i)
<1>0. i \in Nat
  <2>1. PICK b \in DOMAIN Blocks : i \in Range(Blocks[b])
    BY DEF Indices
  <2>2. PICK k \in DOMAIN Blocks[b] : i = Blocks[b][k]
    BY <2>1 DEF Range
  <2>3. Blocks[b] \in Seq(Nat)
    BY ItemTableAssumption
  <2> QED BY <2>2, <2>3
<1>1. S = SlotsAt(tab, i)
  <2>1. ASSUME NEW s \in DOMAIN tab.slots, tab.slots[s].free PROVE tab.slots[s].to # i
    <3>1. tab.slots[s].to \in SlotNos \cup {Nil}
      BY <2>1, EntryIs DEF TableOK
    <3> QED BY <1>0, <3>1, ItemTableAssumption
  <2> QED BY <2>1 DEF SlotsNoGen, SlotsAt, Used
<1>2. S \subseteq Used(tab) /\ S \subseteq DOMAIN tab.slots
  BY <1>1 DEF SlotsAt, Used
<1>3. CASE S = {}
  BY <1>1, <1>3 DEF RemoveItemReferences, Without, Less
<1>4. CASE S # {}
  <2>1. tab.size \in Nat /\ S \subseteq 0 .. tab.size - 1
    BY <1>2, TableIs, ItemTableAssumption DEF TableOK
  <2>2. Min(S) \in S
    BY <1>4, <2>1, MinMax
  <2>3. RemoveItemReferences(tab, i) = FreeItemSlot(tab, Min(S))
    BY <1>4 DEF RemoveItemReferences
  <2> HIDE DEF S
  <2>4. TableOK(FreeItemSlot(tab, Min(S)), R) /\ Without(tab, FreeItemSlot(tab, Min(S)), S)
    BY <1>2, <2>2, FreeingUsed
  <2> QED BY <1>1, <2>3, <2>4
<1> QED BY <1>3, <1>4

(* The bookkeeping of a deletion.                                           *)
LEMMA Bereaving ==
    ASSUME NEW tab, NEW R, TableOK(tab, R), NEW it
    PROVE  LET q == Bereaved(tab, it)
           IN  /\ TableOK(q, R) /\ Used(q) = Used(tab)
               /\ \A s \in Used(tab) :
                      /\ tab.slots[s].item = it =>
                             q.slots[s] = [tab.slots[s] EXCEPT !.gone = TRUE]
                      /\ tab.slots[s].item # it => q.slots[s] = tab.slots[s]
<1> DEFINE q == Bereaved(tab, it)
<1>1. /\ tab = [slots |-> tab.slots, free |-> tab.free, size |-> tab.size]
      /\ tab.slots \in [0 .. tab.size - 1 -> Entries]
      /\ tab.size \in 0 .. MaxSlots /\ tab.free \in SlotNos \cup {Nil}
  BY TableIs DEF TableOK
<1>2. /\ q.free = tab.free /\ q.size = tab.size
      /\ q = [slots |-> q.slots, free |-> q.free, size |-> q.size]
      /\ q.slots = [s \in DOMAIN tab.slots |->
            IF ~tab.slots[s].free /\ tab.slots[s].item = it
            THEN [tab.slots[s] EXCEPT !.gone = TRUE] ELSE tab.slots[s]]
  <2> DEFINE F == [s \in DOMAIN tab.slots |->
            IF ~tab.slots[s].free /\ tab.slots[s].item = it
            THEN [tab.slots[s] EXCEPT !.gone = TRUE] ELSE tab.slots[s]]
  <2>1. q = [tab EXCEPT !.slots = F]
    BY DEF Bereaved
  <2> HIDE DEF F, q
  <2>2. q = [slots |-> F, free |-> tab.free, size |-> tab.size]
    BY <1>1, <2>1
  <2>3. q.slots = F /\ q.free = tab.free /\ q.size = tab.size
    BY <2>2
  <2>4. q = [slots |-> q.slots, free |-> q.free, size |-> q.size]
    BY <2>2, <2>3
  <2> QED BY <2>3, <2>4 DEF F
<1> HIDE DEF q
<1>3. \A s \in DOMAIN tab.slots : q.slots[s] \in Entries
  <2>1. ASSUME NEW s \in DOMAIN tab.slots, ~tab.slots[s].free
        PROVE  [tab.slots[s] EXCEPT !.gone = TRUE] \in Entries
    <3>1. tab.slots[s] \in Refs
      BY <2>1, EntryIs DEF TableOK
    <3> QED BY <3>1 DEF Entries, Refs
  <2> QED BY <1>1, <1>2, <2>1
<1>4. q \in Tables /\ DOMAIN q.slots = DOMAIN tab.slots /\ DOMAIN q.slots = 0 .. q.size - 1
  <2>1. q.slots \in [0 .. tab.size - 1 -> Entries]
    BY <1>1, <1>2, <1>3
  <2> QED BY <1>1, <1>2, <2>1 DEF Tables
<1>5. ASSUME NEW s \in DOMAIN tab.slots
      PROVE  /\ tab.slots[s].free => q.slots[s] = tab.slots[s]
             /\ ~tab.slots[s].free => q.slots[s].free = FALSE
             /\ ~tab.slots[s].free /\ tab.slots[s].item = it =>
                    q.slots[s] = [tab.slots[s] EXCEPT !.gone = TRUE]
             /\ tab.slots[s].item # it => q.slots[s] = tab.slots[s]
  <2>1. CASE ~tab.slots[s].free
    <3>1. tab.slots[s] \in Refs
      BY <2>1, EntryIs DEF TableOK
    <3> QED BY <1>2, <2>1, <3>1 DEF Refs
  <2>2. CASE tab.slots[s].free
    BY <1>2, <2>2
  <2> QED BY <2>1, <2>2
<1>6. Used(q) = Used(tab) /\ Unused(q, R) = Unused(tab, R)
  BY <1>4, <1>5 DEF Used, Unused
<1>7. ChainOf(q, R)
  <2>1. ChainOf(tab, R) /\ \A s \in Unused(tab, R) : q.slots[s].to = tab.slots[s].to
    <3>1. \A s \in Unused(tab, R) : s \in DOMAIN tab.slots /\ tab.slots[s].free
      BY DEF Unused
    <3>2. \A s \in Unused(tab, R) : q.slots[s] = tab.slots[s]
      BY <1>5, <3>1
    <3> QED BY <3>2 DEF TableOK
  <2>2. q.free = tab.free /\ Unused(q, R) = Unused(tab, R)
    BY <1>2, <1>6
  <2> QED BY <2>1, <2>2, SameChain
<1>8. \A s \in R : s \in DOMAIN q.slots /\ q.slots[s].free
  BY <1>4, <1>5 DEF TableOK
<1>9. \A s \in Used(tab) : s \in DOMAIN tab.slots /\ ~tab.slots[s].free
  BY DEF Used
<1> QED BY <1>4, <1>5, <1>6, <1>7, <1>8, <1>9 DEF TableOK, q

-----------------------------------------------------------------------------
(* The invariant.                                                          *)

\* The slots of t that are set aside for opens; slot s of t is being closed.
Aside(t) == {s \in SlotNos : call[t][s] # NoCall /\ ~call[t][s].closing}
Closing(t, s) == call[t][s] # NoCall /\ call[t][s].closing

\* The chain list has free entries of the first n blocks, each once; those of L are
\* in use.
FreeOK(list, n, L) ==
    /\ list \in Seq(Indices) /\ Distinct(list) /\ n \in BootBlocks .. Len(Blocks)
    /\ \A j \in 1 .. Len(list) : list[j] \notin L
    /\ \A b \in n + 1 .. Len(Blocks) : \A k \in DOMAIN Blocks[b] :
           Blocks[b][k] \notin L /\ \A j \in 1 .. Len(list) : list[j] # Blocks[b][k]

FreeInv == FreeOK(freeList, blocks, live)

TypeInv ==
    /\ live \subseteq Indices /\ gen \in [Indices -> 0 .. Gens - 1]
    /\ n_Owner \in [Indices -> Tasks \cup {NoTask}] /\ n_OpenCount \in [Indices -> Int]
    /\ rt \in [Tasks -> Tables] /\ call \in [Tasks -> [SlotNos -> CallsOfSlots]]
    /\ lost \in [Indices -> Nat]
    /\ state \in [Tasks -> {"alive", "exiting", "dead"}]

TablesInv == \A t \in Tasks : TableOK(rt[t], Aside(t))

\* What is being closed is in its slot until ir_Close has returned.
CallInv ==
    \A t \in Tasks : \A s \in SlotNos : Closing(t, s) =>
        /\ s \in Used(rt[t]) /\ rt[t].slots[s].opened = TRUE
        /\ rt[t].slots[s].item = call[t][s].item

\* A dead task is inside of no call, and its table is freed.
StateInv ==
    \A t \in Tasks : state[t] = "dead" =>
        Used(rt[t]) = {} /\ \A s \in SlotNos : call[t][s] = NoCall

\* Slot s of t has the item at i as its own.
Owns(t, s, i) ==
    /\ s \in Used(rt[t]) /\ ~rt[t].slots[s].opened
    /\ rt[t].slots[s].item[1] = i

\* What a task has as its own is alive and known to be its own, and in one slot.  What
\* is alive is in its owner's table, unless the owner is dead.
OwnInv ==
    /\ \A t \in Tasks : \A s : \A i : Owns(t, s, i) =>
           /\ i \in live /\ n_Owner[i] = t
           /\ rt[t].slots[s].item = Item(i) /\ ~rt[t].slots[s].gone
    /\ \A t \in Tasks : \A s, r : \A i : Owns(t, s, i) /\ Owns(t, r, i) => s = r
    /\ \A i \in live : /\ n_Owner[i] \in Tasks
                       /\ state[n_Owner[i]] # "dead" => \E s : Owns(n_Owner[i], s, i)

Inv == TypeInv /\ FreeInv /\ TablesInv /\ CallInv /\ StateInv /\ OwnInv

(* The chain of free entries.                                               *)
LEMMA IndexIs ==
    /\ Len(Blocks) \in Nat /\ BootBlocks \in Nat \ {0} /\ BootBlocks <= Len(Blocks)
    /\ \A b \in 1 .. Len(Blocks) :
        /\ Blocks[b] \in Seq(Indices) /\ Len(Blocks[b]) \in Nat \ {0} /\ Distinct(Blocks[b])
        /\ DOMAIN Blocks[b] = 1 .. Len(Blocks[b])
        /\ \A c \in 1 .. Len(Blocks) : b # c =>
             \A j \in 1 .. Len(Blocks[b]) : \A k \in 1 .. Len(Blocks[c]) :
                Blocks[b][j] # Blocks[c][k]
<1>1. /\ Len(Blocks) \in Nat /\ BootBlocks \in Nat \ {0} /\ BootBlocks <= Len(Blocks)
      /\ DOMAIN Blocks = 1 .. Len(Blocks)
      /\ \A b \in 1 .. Len(Blocks) : Blocks[b] \in Seq(Nat) /\ Blocks[b] # <<>>
  BY ItemTableAssumption
<1>2. ASSUME NEW b \in 1 .. Len(Blocks)
      PROVE  /\ Len(Blocks[b]) \in Nat \ {0} /\ DOMAIN Blocks[b] = 1 .. Len(Blocks[b])
             /\ Blocks[b] \in Seq(Indices)
  <2>1. Blocks[b] \in Seq(Nat) /\ Blocks[b] # <<>>
    BY <1>1
  <2>2. Len(Blocks[b]) \in Nat \ {0} /\ DOMAIN Blocks[b] = 1 .. Len(Blocks[b])
    BY <2>1
  <2>3. \A k \in 1 .. Len(Blocks[b]) : Blocks[b][k] \in Indices
    <3>1. ASSUME NEW k \in 1 .. Len(Blocks[b]) PROVE Blocks[b][k] \in Range(Blocks[b])
      BY <2>2 DEF Range
    <3>2. Range(Blocks[b]) \subseteq Indices
      BY <1>1 DEF Indices
    <3> QED BY <3>1, <3>2
  <2>4. Blocks[b] \in [1 .. Len(Blocks[b]) -> Indices]
    BY <2>1, <2>2, <2>3
  <2>5. Blocks[b] \in Seq(Indices)
    BY <2>2, <2>4
  <2> QED BY <2>2, <2>5
<1>3. ASSUME NEW b \in 1 .. Len(Blocks), NEW c \in 1 .. Len(Blocks),
             NEW j \in 1 .. Len(Blocks[b]), NEW k \in 1 .. Len(Blocks[c]),
             Blocks[b][j] = Blocks[c][k]
      PROVE  b = c /\ j = k
  <2>1. /\ b \in DOMAIN Blocks /\ c \in DOMAIN Blocks
        /\ j \in DOMAIN Blocks[b] /\ k \in DOMAIN Blocks[c]
    BY <1>1, <1>2
  <2>2. \A x, y \in DOMAIN Blocks : \A l \in DOMAIN Blocks[x] : \A m \in DOMAIN Blocks[y] :
            Blocks[x][l] = Blocks[y][m] => x = y /\ l = m
    BY ItemTableAssumption
  <2> QED BY <1>3, <2>1, <2>2, Zenon
<1>4. \A b \in 1 .. Len(Blocks) : Distinct(Blocks[b])
  BY <1>3 DEF Distinct
<1> QED BY <1>1, <1>2, <1>3, <1>4

\* How many blocks there are when GetItem has returned.
NewBlocks == IF freeList # <<>> THEN blocks ELSE blocks + 1

(* Free is a chain of free entries, and is not empty when GetItem runs.     *)
LEMMA FreeHasEntries ==
    ASSUME FreeInv, HasItem
    PROVE  FreeOK(Free, NewBlocks, live) /\ Free # <<>>
<1>1. CASE freeList # <<>>
  BY <1>1 DEF FreeInv, Free, NewBlocks
<1>2. CASE freeList = <<>>
  <2>1. blocks \in Nat /\ blocks + 1 \in 1 .. Len(Blocks) /\ blocks >= BootBlocks
    BY <1>2, IndexIs DEF FreeInv, FreeOK, HasItem
  <2>2. Free = Blocks[blocks + 1] /\ NewBlocks = blocks + 1
    BY <1>2 DEF Free, NewBlocks
  <2>3. /\ Free \in Seq(Indices) /\ Distinct(Free) /\ Free # <<>>
        /\ NewBlocks \in BootBlocks .. Len(Blocks) /\ DOMAIN Free = 1 .. Len(Free)
    BY <2>1, <2>2, IndexIs
  <2>4. \A j \in 1 .. Len(Free) : Free[j] \notin live
    BY <2>1, <2>2, <2>3 DEF FreeInv, FreeOK
  <2>5. ASSUME NEW b \in NewBlocks + 1 .. Len(Blocks), NEW k \in DOMAIN Blocks[b]
        PROVE  Blocks[b][k] \notin live /\ \A j \in 1 .. Len(Free) : Free[j] # Blocks[b][k]
    <3>1. b \in 1 .. Len(Blocks) /\ b \in blocks + 1 .. Len(Blocks) /\ b # blocks + 1
      BY <2>1, <2>2, IndexIs
    <3>2. DOMAIN Blocks[b] = 1 .. Len(Blocks[b])
      BY <3>1, IndexIs
    <3> QED BY <2>1, <2>2, <3>1, <3>2, IndexIs DEF FreeInv, FreeOK
  <2> QED BY <2>3, <2>4, <2>5 DEF FreeOK
<1> QED BY <1>1, <1>2

(* The first entry leaves the chain and is in use.                          *)
LEMMA TakingEntry ==
    ASSUME NEW list, NEW n, NEW L, FreeOK(list, n, L), list # <<>>
    PROVE  /\ Head(list) \in Indices \ L
           /\ FreeOK(Tail(list), n, L \cup {Head(list)})
<1>1. /\ list \in Seq(Indices) /\ Len(list) \in Nat \ {0} /\ Head(list) = list[1]
      /\ Tail(list) \in Seq(Indices) /\ Len(Tail(list)) = Len(list) - 1
      /\ \A j \in 1 .. Len(Tail(list)) : Tail(list)[j] = list[j + 1]
  BY DEF FreeOK
<1>2. \A j \in 1 .. Len(Tail(list)) : j + 1 \in 1 .. Len(list) /\ j + 1 # 1
  BY <1>1
<1>3. 1 \in 1 .. Len(list) /\ Head(list) \in Indices \ L
  BY <1>1 DEF FreeOK
<1>4. Distinct(Tail(list))
  <2> SUFFICES ASSUME NEW j \in 1 .. Len(Tail(list)), NEW k \in 1 .. Len(Tail(list)),
                      Tail(list)[j] = Tail(list)[k]
               PROVE  j = k
    BY DEF Distinct
  <2>1. j + 1 = k + 1
    BY <1>1, <1>2 DEF FreeOK, Distinct
  <2> QED BY <2>1
<1>5. \A j \in 1 .. Len(Tail(list)) : Tail(list)[j] \notin L \cup {Head(list)}
  BY <1>1, <1>2, <1>3 DEF FreeOK, Distinct
<1>6. ASSUME NEW b \in n + 1 .. Len(Blocks), NEW k \in DOMAIN Blocks[b]
      PROVE  /\ Blocks[b][k] \notin L \cup {Head(list)}
             /\ \A j \in 1 .. Len(Tail(list)) : Tail(list)[j] # Blocks[b][k]
  BY <1>1, <1>2, <1>3 DEF FreeOK
<1> QED BY <1>1, <1>3, <1>4, <1>5, <1>6 DEF FreeOK

(* An entry is appended to the chain and is no more in use.                 *)
LEMMA ReturningEntry ==
    ASSUME NEW list, NEW n, NEW L, FreeOK(list, n, L), NEW i \in L, i \in Indices
    PROVE  FreeOK(Append(list, i), n, L \ {i})
<1>1. /\ list \in Seq(Indices) /\ Len(list) \in Nat
      /\ Append(list, i) \in Seq(Indices) /\ Len(Append(list, i)) = Len(list) + 1
      /\ \A j \in 1 .. Len(list) : Append(list, i)[j] = list[j] /\ list[j] \notin L
      /\ Append(list, i)[Len(list) + 1] = i
  BY DEF FreeOK
<1>2. \A j \in 1 .. Len(list) + 1 : j \in 1 .. Len(list) \/ j = Len(list) + 1
  BY <1>1
<1>3. Distinct(Append(list, i))
  BY <1>1, <1>2 DEF FreeOK, Distinct
<1>4. \A j \in 1 .. Len(list) + 1 : Append(list, i)[j] \notin L \ {i}
  BY <1>1, <1>2
<1>5. ASSUME NEW b \in n + 1 .. Len(Blocks), NEW k \in DOMAIN Blocks[b]
      PROVE  /\ Blocks[b][k] \notin L \ {i}
             /\ \A j \in 1 .. Len(list) + 1 : Append(list, i)[j] # Blocks[b][k]
  BY <1>1, <1>2 DEF FreeOK
<1> QED BY <1>1, <1>3, <1>4, <1>5 DEF FreeOK

(* The table of a task that has none.                                       *)
LEMMA EmptyTableOK ==
    TableOK(EmptyTable, {}) /\ Used(EmptyTable) = {}
<1>1. EmptyTable \in Tables /\ DOMAIN EmptyTable.slots = {} /\ EmptyTable.size = 0
  <2>1. DOMAIN EmptyTable.slots = {} /\ EmptyTable.free = Nil /\ EmptyTable.size = 0
    BY DEF EmptyTable
  <2>2. EmptyTable = [slots |-> EmptyTable.slots, free |-> Nil, size |-> 0]
    BY DEF EmptyTable
  <2>3. EmptyTable.slots \in [0 .. 0 - 1 -> Entries]
    BY DEF EmptyTable
  <2>4. 0 \in 0 .. MaxSlots
    BY ItemTableAssumption
  <2> QED BY <2>1, <2>2, <2>3, <2>4 DEF Tables
<1>2. Unused(EmptyTable, {}) = {} /\ Used(EmptyTable) = {}
  BY <1>1 DEF Unused, Used
<1>3. ChainOf(EmptyTable, {})
  BY <1>2 DEF ChainOf, EmptyTable
<1>4. DOMAIN EmptyTable.slots = 0 .. EmptyTable.size - 1
  BY <1>1
<1> QED BY <1>1, <1>2, <1>3, <1>4 DEF TableOK

(* Boot.                                                                    *)
LEMMA InitInv ==
    ASSUME Init
    PROVE  Inv
<1>1. FreeInv
  <2> DEFINE first == IF BootBlocks = 2 THEN Blocks[2] ELSE <<>>
  <2>1. /\ Blocks[1] \in Seq(Indices) /\ Distinct(Blocks[1])
        /\ first \in Seq(Indices) /\ Distinct(first)
        /\ \A j \in 1 .. Len(first) : \A k \in 1 .. Len(Blocks[1]) : first[j] # Blocks[1][k]
    <3>1. Len(Blocks) \in Nat /\ BootBlocks \in {1, 2} /\ BootBlocks <= Len(Blocks)
      BY IndexIs, ItemTableAssumption
    <3>2. 1 \in 1 .. Len(Blocks) /\ (BootBlocks = 2 => 2 \in 1 .. Len(Blocks))
      BY <3>1
    <3>3. Blocks[1] \in Seq(Indices) /\ Distinct(Blocks[1])
      BY <3>2, IndexIs
    <3>4. CASE BootBlocks = 2
      <4>1. /\ Blocks[2] \in Seq(Indices) /\ Distinct(Blocks[2])
            /\ \A j \in 1 .. Len(Blocks[2]) : \A k \in 1 .. Len(Blocks[1]) :
                   Blocks[2][j] # Blocks[1][k]
        BY <3>2, <3>4, IndexIs
      <4> QED BY <3>3, <3>4, <4>1
    <3>5. CASE BootBlocks # 2
      <4>1. first = <<>> /\ first \in Seq(Indices) /\ 1 .. Len(first) = {}
        BY <3>5
      <4> HIDE DEF first
      <4>2. Distinct(first)
        BY <4>1 DEF Distinct
      <4> QED BY <3>3, <4>1, <4>2
    <3> QED BY <3>4, <3>5
  <2>2. /\ freeList = first \o Blocks[1] /\ blocks = BootBlocks /\ live = {}
        /\ BootBlocks \in {1, 2}
    BY ItemTableAssumption DEF Init
  <2>3. ASSUME NEW b \in BootBlocks + 1 .. Len(Blocks), NEW k \in DOMAIN Blocks[b]
        PROVE  /\ \A j \in 1 .. Len(first) : first[j] # Blocks[b][k]
               /\ \A j \in 1 .. Len(Blocks[1]) : Blocks[1][j] # Blocks[b][k]
    <3>1. b \in 1 .. Len(Blocks) /\ 1 \in 1 .. Len(Blocks) /\ b # 1 /\ b > BootBlocks
      BY IndexIs
    <3>2. DOMAIN Blocks[b] = 1 .. Len(Blocks[b])
      BY <3>1, IndexIs
    <3>3. \A j \in 1 .. Len(Blocks[1]) : Blocks[1][j] # Blocks[b][k]
      BY <3>1, <3>2, IndexIs
    <3>4. CASE BootBlocks = 2
      <4>1. 2 \in 1 .. Len(Blocks) /\ b # 2
        BY <3>1, <3>4, IndexIs
      <4> QED BY <3>1, <3>2, <3>3, <3>4, <4>1, IndexIs
    <3>5. CASE BootBlocks # 2
      BY <3>3, <3>5
    <3> QED BY <3>4, <3>5
  <2>4. BootBlocks \in BootBlocks .. Len(Blocks)
    BY IndexIs
  <2> HIDE DEF first
  <2>5. /\ freeList \in Seq(Indices) /\ Len(freeList) = Len(first) + Len(Blocks[1])
        /\ \A j \in 1 .. Len(first) : freeList[j] = first[j]
        /\ \A j \in Len(first) + 1 .. Len(first) + Len(Blocks[1]) :
               freeList[j] = Blocks[1][j - Len(first)]
    BY <2>1, <2>2
  <2>6. Len(first) \in Nat /\ Len(Blocks[1]) \in Nat
    BY <2>1
  <2>7. \A j \in 1 .. Len(freeList) :
            \/ j \in 1 .. Len(first)
            \/ /\ j \in Len(first) + 1 .. Len(first) + Len(Blocks[1])
               /\ j - Len(first) \in 1 .. Len(Blocks[1])
    BY <2>5, <2>6
  <2>8. Distinct(freeList)
    <3> SUFFICES ASSUME NEW j \in 1 .. Len(freeList), NEW k \in 1 .. Len(freeList),
                        freeList[j] = freeList[k]
                 PROVE  j = k
      BY DEF Distinct
    <3>1. CASE j \in 1 .. Len(first) /\ k \in 1 .. Len(first)
      BY <2>1, <2>5, <3>1 DEF Distinct
    <3>2. CASE j \notin 1 .. Len(first) /\ k \notin 1 .. Len(first)
      <4>1. /\ j - Len(first) \in 1 .. Len(Blocks[1]) /\ k - Len(first) \in 1 .. Len(Blocks[1])
            /\ freeList[j] = Blocks[1][j - Len(first)]
            /\ freeList[k] = Blocks[1][k - Len(first)]
        BY <2>5, <2>7, <3>2
      <4>2. j - Len(first) = k - Len(first)
        BY <2>1, <4>1 DEF Distinct
      <4> QED BY <2>6, <4>2
    <3>3. CASE (j \in 1 .. Len(first)) # (k \in 1 .. Len(first))
      BY <2>1, <2>5, <2>7, <3>3
    <3> QED BY <3>1, <3>2, <3>3
  <2>9. ASSUME NEW b \in BootBlocks + 1 .. Len(Blocks), NEW k \in DOMAIN Blocks[b],
               NEW j \in 1 .. Len(freeList)
        PROVE  freeList[j] # Blocks[b][k]
    BY <2>3, <2>5, <2>7
  <2> QED BY <2>2, <2>4, <2>5, <2>8, <2>9 DEF FreeInv, FreeOK
<1>2. EmptyTable \in Tables
  BY EmptyTableOK DEF TableOK
<1>3. TableOK(EmptyTable, {}) /\ Used(EmptyTable) = {}
  BY EmptyTableOK
<1>4. TypeInv
  <2>1. \A i \in Indices : 0 \in 0 .. Gens - 1
    BY ItemTableAssumption
  <2>2. rt \in [Tasks -> Tables]
    BY <1>2 DEF Init
  <2>3. call \in [Tasks -> [SlotNos -> CallsOfSlots]]
    BY DEF Init, CallsOfSlots
  <2> QED BY <2>1, <2>2, <2>3 DEF Init, TypeInv
<1>5. \A t \in Tasks : /\ rt[t] = EmptyTable /\ Aside(t) = {}
                        /\ \A s \in SlotNos : call[t][s] = NoCall
  BY DEF Init, Aside
<1>6. TablesInv
  BY <1>3, <1>5 DEF TablesInv
<1>7. StateInv
  BY <1>3, <1>5 DEF StateInv
<1>8. OwnInv
  BY <1>3, <1>5 DEF OwnInv, Owns, Init
<1>9. CallInv
  BY <1>5 DEF CallInv, Closing
<1> QED BY <1>1, <1>4, <1>6, <1>7, <1>8, <1>9 DEF Inv

(* What the invariant says of chains and owners.                            *)
LEMMA InvChains ==
    ASSUME Inv
    PROVE  ChainsHoldTheFreeSlots
<1> SUFFICES ASSUME NEW t \in Tasks
             PROVE  LET tab == rt[t]
                        unused == {s \in DOMAIN tab.slots : tab.slots[s].free} \ UnderWay(t)
                        next(s) == tab.slots[s].to
                    IN /\ tab.free \in unused \cup {Nil}
                       /\ \A s \in unused : next(s) \in (unused \ {tab.free}) \cup {Nil}
                       /\ \A s, r \in unused : next(s) = next(r) /\ next(s) # Nil => s = r
                       /\ \A S \in SUBSET unused :
                              /\ tab.free \in S \cup {Nil}
                              /\ \A s \in S : next(s) \in S \cup {Nil}
                              => S = unused
  BY DEF ChainsHoldTheFreeSlots
<1>1. TableOK(rt[t], Aside(t))
  BY DEF Inv, TablesInv
<1>2. Unused(rt[t], Aside(t)) =
          {s \in DOMAIN rt[t].slots : rt[t].slots[s].free} \ UnderWay(t)
  <2>1. ASSUME NEW s \in UnderWay(t), s \notin Aside(t) PROVE s \in Used(rt[t])
    <3>1. s \in SlotNos /\ Closing(t, s)
      BY <2>1 DEF UnderWay, Aside, Closing
    <3> QED BY <3>1 DEF Inv, CallInv
  <2>2. Aside(t) \subseteq UnderWay(t)
    BY DEF Aside, UnderWay
  <2> QED BY <2>1, <2>2 DEF Unused, Used
<1> QED BY <1>1, <1>2 DEF TableOK, ChainOf

(* What is owned is in the table of the owner, once, and in no other.       *)
LEMMA InvOwned ==
    ASSUME Inv
    PROVE  ItemsAreOwnedOnce
<1> SUFFICES ASSUME NEW i \in live, NEW t \in Tasks
             PROVE  LET slots == SlotsOf(rt[t], Item(i), FALSE)
                    IN IF t = n_Owner[i] /\ state[t] # "dead" THEN \E s \in slots : slots = {s}
                                                              ELSE slots = {}
  BY DEF ItemsAreOwnedOnce
<1> DEFINE slots == SlotsOf(rt[t], Item(i), FALSE)
<1>1. \A s : s \in slots => Owns(t, s, i)
  BY DEF SlotsOf, Owns, Used, Item
<1>2. ASSUME NEW s, Owns(t, s, i) PROVE s \in slots
  <2>1. rt[t].slots[s].item = Item(i)
    BY <1>2 DEF Inv, OwnInv
  <2>2. rt[t].slots[s].opened = FALSE
    <3>1. rt[t].slots[s].opened \in BOOLEAN
      BY <1>2, EntryIs DEF Inv, TablesInv, TableOK, Owns, Used, Refs
    <3> QED BY <1>2, <3>1 DEF Owns
  <2> QED BY <1>2, <2>1, <2>2 DEF SlotsOf, Owns, Used
<1>3. CASE t = n_Owner[i] /\ state[t] # "dead"
  <2>1. PICK s : Owns(t, s, i)
    BY <1>3 DEF Inv, OwnInv
  <2>2. s \in slots /\ \A r \in slots : r = s
    BY <1>1, <1>2, <2>1 DEF Inv, OwnInv
  <2> QED BY <1>3, <2>2
<1>4. CASE ~(t = n_Owner[i] /\ state[t] # "dead")
  <2>1. \A s : ~ Owns(t, s, i)
    BY <1>4 DEF Inv, OwnInv, StateInv, Owns
  <2> QED BY <1>1, <1>4, <2>1
<1> QED BY <1>3, <1>4

(* Generations come round.                                                  *)
LEMMA NextGenIs ==
    ASSUME NEW g \in 0 .. Gens - 1
    PROVE  /\ NextGen(g) \in 0 .. Gens - 1
           /\ NextGen(g) # 0 => NextGen(g) = g + 1
<1>1. Gens \in Nat \ {0}
  BY ItemTableAssumption
<1>2. CASE g + 1 < Gens
  BY <1>1, <1>2 DEF NextGen
<1>3. CASE g + 1 = Gens
  BY <1>1, <1>3 DEF NextGen
<1> QED BY <1>1, <1>2, <1>3

-----------------------------------------------------------------------------
(* What each call does to the tables.                                      *)

\* The calls that are under way.
CallRecords == [closing : BOOLEAN, item : Numbers, gone : BOOLEAN]

(* A call is NoCall or has the fields of one.                               *)
LEMMA CallIs ==
    ASSUME TypeInv, NEW t \in Tasks, NEW s \in SlotNos
    PROVE  /\ call[t][s] \in CallsOfSlots
           /\ call[t][s] # NoCall => call[t][s] \in CallRecords
BY DEF TypeInv, CallsOfSlots, CallRecords

(* What has the fields of a call is not NoCall.                             *)
LEMMA RecordIsCall ==
    ASSUME NEW c \in CallRecords
    PROVE  c # NoCall /\ c \in CallsOfSlots
<1>1. c \in CallsOfSlots
  BY DEF CallsOfSlots, CallRecords
<1>2. "closing" \in DOMAIN c /\ "closing" \notin DOMAIN NoCall
  BY DEF CallRecords, NoCall
<1> QED BY <1>1, <1>2

(* The record that Call makes.                                              *)
LEMMA NewCallIs ==
    ASSUME NEW it \in Numbers, NEW o \in BOOLEAN
    PROVE  /\ Call(it, o) \in CallRecords
           /\ Call(it, o).item = it /\ Call(it, o).closing = o /\ Call(it, o).gone = FALSE
BY DEF Call, CallRecords

\* Slot s of t enters a call or leaves one, and no other slot does.
OneCall(t, s, c) ==
    /\ call'[t][s] = c
    /\ \A x \in Tasks : \A r \in SlotNos : x # t \/ r # s => call'[x][r] = call[x][r]

(* A call of one slot.                                                      *)
LEMMA CallChanges ==
    ASSUME TypeInv, NEW t \in Tasks, NEW s \in SlotNos, NEW c \in CallsOfSlots,
           call' = [call EXCEPT ![t][s] = c]
    PROVE  /\ call' \in [Tasks -> [SlotNos -> CallsOfSlots]] /\ OneCall(t, s, c)
           /\ \A x \in Tasks : x # t => call'[x] = call[x]
BY DEF TypeInv, OneCall

(* The entry that Ref makes.                                                *)
LEMMA RefIs ==
    ASSUME NEW it \in Numbers, NEW o \in BOOLEAN
    PROVE  /\ Ref(it, o) \in Refs
           /\ Ref(it, o).item = it /\ Ref(it, o).opened = o /\ Ref(it, o).gone = FALSE
BY DEF Ref, Refs

(* The number of the item at an index.                                      *)
LEMMA ItemIs ==
    ASSUME TypeInv, NEW i \in Indices
    PROVE  Item(i) \in Numbers /\ Item(i)[1] = i /\ Item(i)[2] = gen[i]
BY DEF TypeInv, Item, Numbers

(* AllocItemSlot and the entry of an item.                                  *)
LEMMA AllocPut ==
    ASSUME NEW tab, NEW R, TableOK(tab, R), HasRoom(tab),
           NEW e \in Refs
    PROVE  LET s == SlotFor(tab)
               q == Put(AllocItemSlot(tab), s, e)
           IN  TableOK(q, R) /\ Plus(tab, q, s, e)
<1> DEFINE s == SlotFor(tab)
           a == AllocItemSlot(tab)
<1>1. /\ TableOK(a, R \cup {s}) /\ SameUsed(tab, a) /\ s \in SlotNos \ R /\ s \notin Used(tab)
  BY Allocating
<1> HIDE DEF s, a
<1>2. PICK q : q = Put(a, s, e)
  OBVIOUS
<1>3. TableOK(q, (R \cup {s}) \ {s}) /\ Plus(a, q, s, e)
  BY <1>1, <1>2, Putting
<1>4. (R \cup {s}) \ {s} = R
  BY <1>1
<1> QED BY <1>1, <1>2, <1>3, <1>4 DEF Plus, SameUsed, s, a

(* AllocItemSlot and FreeItemSlot.                                          *)
LEMMA AllocFree ==
    ASSUME NEW tab, NEW R, TableOK(tab, R), HasRoom(tab)
    PROVE  LET q == FreeItemSlot(AllocItemSlot(tab), SlotFor(tab))
           IN  TableOK(q, R) /\ SameUsed(tab, q)
<1> DEFINE s == SlotFor(tab)
           a == AllocItemSlot(tab)
<1>1. /\ TableOK(a, R \cup {s}) /\ SameUsed(tab, a) /\ s \in SlotNos \ R /\ s \notin Used(tab)
  BY Allocating
<1> HIDE DEF s, a
<1>2. s \in DOMAIN a.slots /\ s \notin Unused(a, R \cup {s})
  BY <1>1 DEF TableOK, Unused
<1>3. LET q == FreeItemSlot(a, s)
      IN  /\ TableOK(q, (R \cup {s}) \ {s})
          /\ Used(q) = Used(a) \ {s}
          /\ \A r \in Used(q) : q.slots[r] = a.slots[r]
  BY <1>1, <1>2, Freeing
<1>4. (R \cup {s}) \ {s} = R
  BY <1>1
<1> QED BY <1>1, <1>3, <1>4 DEF SameUsed, s, a

(* CreateItem adds an entry to one table.                                   *)
LEMMA CreateItemEffect ==
    ASSUME Inv, NEW t \in Tasks, CreateItem(t)
    PROVE  LET i == Head(Free)
           IN  /\ i \in Indices \ live /\ FreeInv' /\ TypeInv' /\ TablesInv'
               /\ Plus(rt[t], rt'[t], SlotFor(rt[t]), Ref(Item(i), FALSE))
               /\ \A x \in Tasks : x # t => rt'[x] = rt[x]
<1> DEFINE i == Head(Free)
           e == Ref(Item(i), FALSE)
<1>1. i \in Indices \ live /\ FreeInv'
  <2>1. FreeOK(Free, NewBlocks, live) /\ Free # <<>>
    BY FreeHasEntries DEF Inv, CreateItem, GetItem
  <2>2. i \in Indices \ live /\ FreeOK(Tail(Free), NewBlocks, live \cup {i})
    BY <2>1, TakingEntry
  <2>3. freeList' = Tail(Free) /\ blocks' = NewBlocks /\ live' = live \cup {i}
    BY DEF CreateItem, GetItem, NewBlocks
  <2> QED BY <2>2, <2>3 DEF FreeInv
<1>2. e \in Refs
  BY <1>1, ItemIs, RefIs DEF Inv
<1>3. /\ HasRoom(rt[t])
      /\ rt' = [rt EXCEPT ![t] = Put(AllocItemSlot(rt[t]), SlotFor(rt[t]), e)]
      /\ call' = call /\ lost' = lost /\ live' = live \cup {i}
      /\ n_Owner' = [n_Owner EXCEPT ![i] = t] /\ n_OpenCount' = [n_OpenCount EXCEPT ![i] = 0]
      /\ gen' = gen /\ state' = state
  BY DEF CreateItem, Calls
<1> HIDE DEF i, e
<1>4. TableOK(rt[t], Aside(t)) /\ rt \in [Tasks -> Tables]
  BY DEF Inv, TablesInv, TypeInv
<1>5. /\ TableOK(rt'[t], Aside(t)) /\ Plus(rt[t], rt'[t], SlotFor(rt[t]), e)
      /\ \A x \in Tasks : x # t => rt'[x] = rt[x]
      /\ rt' = [x \in Tasks |-> rt'[x]]
  BY <1>2, <1>3, <1>4, AllocPut
<1>6. \A x \in Tasks : Aside(x)' = Aside(x)
  BY <1>3 DEF Aside
<1>7. TablesInv'
  BY <1>5, <1>6 DEF Inv, TablesInv
<1>8. rt' \in [Tasks -> Tables]
  BY <1>5, <1>7 DEF TablesInv, TableOK
<1>9. TypeInv'
  BY <1>1, <1>3, <1>8 DEF Inv, TypeInv
<1> QED BY <1>1, <1>5, <1>7, <1>9 DEF i, e

(* A step after which slot s of u has the item at i as its own, and no     *)
(* other slot.                                                              *)
LEMMA OwnersMove ==
    ASSUME OwnInv, NEW i, NEW u \in Tasks, NEW s, live' = live \cup {i}, state' = state,
           \A j \in live' : Item(j)' = Item(j),
           n_Owner'[i] = u, \A j \in live : j # i => n_Owner'[j] = n_Owner[j],
           rt'[u].slots[s].item = Item(i), ~rt'[u].slots[s].gone,
           \A x \in Tasks : \A r, j : Owns(x, r, j)' <=>
               (Owns(x, r, j) /\ j # i) \/ (x = u /\ r = s /\ j = i),
           \A x \in Tasks : \A r, j :
               Owns(x, r, j) /\ j # i => rt'[x].slots[r] = rt[x].slots[r]
    PROVE  OwnInv'
<1>1. ASSUME NEW x \in Tasks, NEW r, NEW j, Owns(x, r, j)'
      PROVE  /\ j \in live' /\ n_Owner'[j] = x
             /\ rt'[x].slots[r].item = Item(j)' /\ ~rt'[x].slots[r].gone
  <2>1. CASE Owns(x, r, j) /\ j # i
    <3>1. /\ j \in live /\ n_Owner[j] = x
          /\ rt[x].slots[r].item = Item(j) /\ ~rt[x].slots[r].gone
      BY <2>1 DEF OwnInv
    <3> QED BY <2>1, <3>1
  <2>2. CASE x = u /\ r = s /\ j = i
    BY <2>2
  <2> QED BY <1>1, <2>1, <2>2
<1>2. ASSUME NEW x \in Tasks, NEW r, NEW q, NEW j, Owns(x, r, j)', Owns(x, q, j)'
      PROVE  r = q
  <2>1. /\ (Owns(x, r, j) /\ j # i) \/ (r = s /\ j = i)
        /\ (Owns(x, q, j) /\ j # i) \/ (q = s /\ j = i)
    BY <1>2
  <2> QED BY <2>1 DEF OwnInv
<1>3. ASSUME NEW j \in live'
      PROVE  /\ n_Owner'[j] \in Tasks
             /\ state'[n_Owner'[j]] # "dead" => \E r : Owns(n_Owner[j], r, j)'
  <2>1. CASE j = i
    <3>1. Owns(u, s, i)'
      OBVIOUS
    <3> QED BY <2>1, <3>1 DEF Owns
  <2>2. CASE j # i
    <3>1. j \in live /\ n_Owner'[j] = n_Owner[j] /\ n_Owner[j] \in Tasks
      BY <1>3, <2>2 DEF OwnInv
    <3>2. ASSUME state'[n_Owner'[j]] # "dead" PROVE \E r : Owns(n_Owner[j], r, j)'
      <4>1. PICK x, r : x \in Tasks /\ x = n_Owner[j] /\ Owns(x, r, j)
        BY <3>1, <3>2 DEF OwnInv
      <4>2. Owns(x, r, j)'
        BY <2>2, <4>1
      <4> QED BY <3>1, <4>1, <4>2 DEF Owns
    <3> QED BY <3>1, <3>2
  <2> QED BY <2>1, <2>2
<1>4. \A x \in Tasks : \A r : \A j : Owns(x, r, j)' =>
          /\ j \in live' /\ n_Owner'[j] = x
          /\ rt'[x].slots[r].item = Item(j)' /\ ~rt'[x].slots[r].gone
  BY <1>1
<1>5. \A x \in Tasks : \A r, q : \A j : Owns(x, r, j)' /\ Owns(x, q, j)' => r = q
  BY <1>2
<1> QED BY <1>3, <1>4, <1>5 DEF OwnInv

(* What is still being closed stays in its slot.                            *)
LEMMA ClosesStay ==
    ASSUME CallInv,
           \A x \in Tasks : \A s \in SlotNos : Closing(x, s)' =>
               /\ Closing(x, s) /\ call'[x][s] = call[x][s]
               /\ s \in Used(rt[x]) /\ rt[x].slots[s].opened = TRUE =>
                     s \in Used(rt'[x]) /\ rt'[x].slots[s] = rt[x].slots[s]
    PROVE  CallInv'
<1> SUFFICES ASSUME NEW x \in Tasks, NEW s \in SlotNos, Closing(x, s)'
             PROVE  /\ s \in Used(rt'[x]) /\ rt'[x].slots[s].opened = TRUE
                    /\ rt'[x].slots[s].item = call'[x][s].item
  BY DEF CallInv
<1> QED BY DEF CallInv

(* CreateItem keeps the invariant.                                          *)
LEMMA CreateItemInv ==
    ASSUME Inv, NEW t \in Tasks, CreateItem(t)
    PROVE  Inv'
<1>0. PICK i, s, e : i = Head(Free) /\ s = SlotFor(rt[t]) /\ e = Ref(Item(i), FALSE)
  OBVIOUS
<1>1. /\ i \in Indices \ live /\ FreeInv' /\ TypeInv' /\ TablesInv'
      /\ Plus(rt[t], rt'[t], s, e)
      /\ \A x \in Tasks : x # t => rt'[x] = rt[x]
  BY <1>0, CreateItemEffect
<1>2. /\ live' = live \cup {i} /\ n_Owner' = [n_Owner EXCEPT ![i] = t] /\ gen' = gen
      /\ call' = call /\ state' = state /\ state[t] # "dead"
  BY <1>0 DEF CreateItem, Calls
<1>3. e.item = Item(i) /\ e.opened = FALSE /\ e.gone = FALSE /\ Item(i)[1] = i
  BY <1>0, <1>1, ItemIs, RefIs DEF Inv
<1>4. \A j : Item(j)' = Item(j)
  BY <1>2 DEF Item
<1>5. StateInv'
  BY <1>1, <1>2 DEF Inv, StateInv
<1>6. /\ \A x \in Tasks : \A r, j : Owns(x, r, j)' <=>
             Owns(x, r, j) \/ (x = t /\ r = s /\ j = i)
      /\ \A x \in Tasks : \A r, j : Owns(x, r, j) => rt'[x].slots[r] = rt[x].slots[r]
  BY <1>1, <1>3 DEF Owns, Plus
<1>7. rt'[t].slots[s] = e
  BY <1>1 DEF Plus
<1>8. n_Owner'[i] = t /\ \A j \in Indices : j # i => n_Owner'[j] = n_Owner[j]
  BY <1>1, <1>2 DEF Inv, TypeInv
<1>9. OwnInv'
  <2>1. OwnInv /\ live \subseteq Indices
    BY DEF Inv, TypeInv
  <2>2. \A x \in Tasks : \A r, j : Owns(x, r, j) => j # i
    BY <1>1, <2>1 DEF OwnInv
  <2>3. \A x \in Tasks : \A r, j : Owns(x, r, j)' <=>
            (Owns(x, r, j) /\ j # i) \/ (x = t /\ r = s /\ j = i)
    BY <1>6, <2>2
  <2> QED BY <1>2, <1>3, <1>4, <1>6, <1>7, <1>8, <2>1, <2>3, OwnersMove
<1>10. CallInv'
  <2>1. \A x \in Tasks : \A r \in SlotNos : Closing(x, r)' => Closing(x, r)
    BY <1>2 DEF Closing
  <2> QED BY <1>1, <1>2, <2>1, ClosesStay DEF Inv, Plus
<1> QED BY <1>1, <1>5, <1>9, <1>10 DEF Inv

(* A step that leaves the items as they are, and all that the living own.   *)
LEMMA OwnersStay ==
    ASSUME OwnInv, UNCHANGED <<live, gen, n_Owner>>,
           \A x \in Tasks : state'[x] # "dead" => state[x] # "dead",
           \A x \in Tasks : \A r, j : Owns(x, r, j)' =>
               Owns(x, r, j) /\ rt'[x].slots[r] = rt[x].slots[r],
           \A x \in Tasks : \A r, j : Owns(x, r, j) /\ state'[x] # "dead" => Owns(x, r, j)'
    PROVE  OwnInv'
<1>1. \A j : Item(j)' = Item(j)
  BY DEF Item
<1>2. ASSUME NEW i \in live', state'[n_Owner'[i]] # "dead", n_Owner[i] \in Tasks
      PROVE  \E s : Owns(n_Owner[i], s, i)'
  <2>1. PICK s : Owns(n_Owner[i], s, i)
    BY <1>2 DEF OwnInv
  <2>2. PICK x \in Tasks : x = n_Owner[i]
    BY <1>2
  <2>3. Owns(x, s, i)'
    BY <1>2, <2>1, <2>2
  <2> QED BY <2>2, <2>3 DEF Owns
<1>3. \A i \in live' : n_Owner'[i] \in Tasks
  BY DEF OwnInv
<1>4. \A i \in live' : state'[n_Owner'[i]] # "dead" => \E s : Owns(n_Owner[i], s, i)'
  BY <1>2, <1>3
<1> QED BY <1>1, <1>3, <1>4 DEF OwnInv

(* A step that changes the table of t alone.                                *)
LEMMA OneTable ==
    ASSUME TypeInv, TablesInv, NEW t \in Tasks, NEW q, rt' = [rt EXCEPT ![t] = q],
           TableOK(q, Aside(t)'), \A x \in Tasks : x # t => call'[x] = call[x]
    PROVE  /\ TablesInv' /\ rt' \in [Tasks -> Tables] /\ rt'[t] = q
           /\ \A x \in Tasks : x # t => rt'[x] = rt[x]
<1>1. rt \in [Tasks -> Tables] /\ q \in Tables
  BY DEF TypeInv, TableOK
<1>2. /\ rt' \in [Tasks -> Tables] /\ rt'[t] = q
      /\ \A x \in Tasks : x # t => rt'[x] = rt[x]
  BY <1>1
<1>3. \A x \in Tasks : x # t => Aside(x)' = Aside(x)
  BY DEF Aside
<1> QED BY <1>2, <1>3 DEF TablesInv

(* OpenItem sets a slot aside and enters nothing.                           *)
LEMMA OpenItemEffect ==
    ASSUME Inv, NEW t \in Tasks, NEW i \in Indices, OpenItem(t, i)
    PROVE  LET s == SlotFor(rt[t])
               c == Call(Item(i), FALSE)
           IN  /\ TypeInv' /\ TablesInv' /\ SameUsed(rt[t], rt'[t])
               /\ \A x \in Tasks : x # t => rt'[x] = rt[x]
               /\ s \in SlotNos /\ s \notin Used(rt[t]) /\ call[t][s] = NoCall
               /\ OneCall(t, s, c) /\ c \in CallRecords /\ c # NoCall
               /\ c.item = Item(i) /\ c.closing = FALSE /\ c.gone = FALSE
<1> DEFINE s == SlotFor(rt[t])
           q == AllocItemSlot(rt[t])
           c == Call(Item(i), FALSE)
<1>1. /\ HasRoom(rt[t]) /\ rt' = [rt EXCEPT ![t] = q]
      /\ call' = [call EXCEPT ![t][s] = c]
      /\ n_OpenCount' = [n_OpenCount EXCEPT ![i] = n_OpenCount[i] + 1]
      /\ live' = live /\ gen' = gen /\ n_Owner' = n_Owner /\ lost' = lost /\ state' = state
  BY DEF OpenItem
<1>2. TableOK(rt[t], Aside(t))
  BY DEF Inv, TablesInv
<1>3. /\ TableOK(q, Aside(t) \cup {s}) /\ SameUsed(rt[t], q)
      /\ s \in SlotNos \ Aside(t) /\ s \notin Used(rt[t])
  BY <1>1, <1>2, Allocating
<1>4. Item(i) \in Numbers
  BY ItemIs DEF Inv
<1>5. /\ c \in CallRecords /\ c # NoCall /\ c \in CallsOfSlots
      /\ c.item = Item(i) /\ c.closing = FALSE /\ c.gone = FALSE
  BY <1>4, NewCallIs, RecordIsCall
<1> HIDE DEF q, s, c
<1>6. /\ call' \in [Tasks -> [SlotNos -> CallsOfSlots]] /\ OneCall(t, s, c)
      /\ \A x \in Tasks : x # t => call'[x] = call[x]
  BY <1>1, <1>3, <1>5, CallChanges DEF Inv
<1>7. TableOK(q, Aside(t)')
  <2>1. Aside(t)' = Aside(t) \cup {s}
    BY <1>3, <1>5, <1>6 DEF Aside, OneCall
  <2> QED BY <1>3, <2>1
<1>8. /\ TablesInv' /\ rt' \in [Tasks -> Tables] /\ rt'[t] = q
      /\ \A x \in Tasks : x # t => rt'[x] = rt[x]
  BY <1>1, <1>6, <1>7, OneTable DEF Inv
<1>9. TypeInv'
  BY <1>1, <1>6, <1>8 DEF Inv, TypeInv
<1>10. call[t][s] = NoCall
  <2>1. ~Closing(t, s)
    BY <1>3 DEF Inv, CallInv
  <2> QED BY <1>3, <2>1 DEF Aside, Closing
<1> QED BY <1>3, <1>5, <1>6, <1>8, <1>9, <1>10 DEF s, c

(* OpenItem keeps the invariant.                                            *)
LEMMA OpenItemInv ==
    ASSUME Inv, NEW t \in Tasks, NEW i \in Indices, OpenItem(t, i)
    PROVE  Inv'
<1>0. PICK s, c : s = SlotFor(rt[t]) /\ c = Call(Item(i), FALSE)
  OBVIOUS
<1>1. /\ TypeInv' /\ TablesInv' /\ SameUsed(rt[t], rt'[t])
      /\ \A x \in Tasks : x # t => rt'[x] = rt[x]
      /\ OneCall(t, s, c) /\ c.closing = FALSE
  BY <1>0, OpenItemEffect
<1>2. UNCHANGED <<freeList, blocks, live, gen, n_Owner, state>> /\ state[t] # "dead"
  BY DEF OpenItem, Calls
<1>3. FreeInv'
  BY <1>2 DEF Inv, FreeInv
<1>4. StateInv'
  BY <1>1, <1>2 DEF Inv, StateInv, OneCall
<1>5. /\ \A x \in Tasks : \A r, j : Owns(x, r, j)' <=> Owns(x, r, j)
      /\ \A x \in Tasks : \A r, j : Owns(x, r, j) => rt'[x].slots[r] = rt[x].slots[r]
  BY <1>1 DEF Owns, SameUsed
<1>6. OwnInv'
  BY <1>2, <1>5, OwnersStay DEF Inv
<1>7. CallInv'
  <2>1. \A x \in Tasks : \A r \in SlotNos : Closing(x, r)' =>
            Closing(x, r) /\ call'[x][r] = call[x][r]
    BY <1>1 DEF Closing, OneCall
  <2> QED BY <1>1, <2>1, ClosesStay DEF Inv, SameUsed
<1> QED BY <1>1, <1>3, <1>4, <1>6, <1>7 DEF Inv

(* A step of slot s of t alone that enters a number that is open, or none, or takes *)
(* one: who owns what stays.                                                *)
LEMMA OpensOwnNothing ==
    ASSUME OwnInv, NEW t \in Tasks, NEW s, UNCHANGED <<live, gen, n_Owner, state>>,
           \A x \in Tasks : x # t => rt'[x] = rt[x],
           \A r \in Used(rt[t]) : r # s => r \in Used(rt'[t]) /\ rt'[t].slots[r] = rt[t].slots[r],
           \A r \in Used(rt'[t]) : r # s => r \in Used(rt[t]),
           s \in Used(rt[t]) => rt[t].slots[s].opened,
           s \in Used(rt'[t]) => rt'[t].slots[s].opened
    PROVE  OwnInv'
<1>1. \A x \in Tasks : \A r, j : Owns(x, r, j)' =>
          Owns(x, r, j) /\ rt'[x].slots[r] = rt[x].slots[r]
  BY DEF Owns
<1>2. \A x \in Tasks : \A r, j : Owns(x, r, j) => Owns(x, r, j)'
  BY DEF Owns
<1> QED BY <1>1, <1>2, OwnersStay

(* The return of ir_Open fills the slot set aside or frees it.              *)
LEMMA OpenItemReturnsEffect ==
    ASSUME Inv, NEW t \in Tasks, NEW s \in SlotNos, OpenItemReturns(t, s)
    PROVE  LET c == call[t][s]
               e == [Ref(c.item, TRUE) EXCEPT !.gone = c.gone]
           IN  /\ TypeInv' /\ TablesInv' /\ OneCall(t, s, NoCall)
               /\ c # NoCall /\ c.closing = FALSE /\ c \in CallRecords
               /\ \A x \in Tasks : x # t => rt'[x] = rt[x]
               /\ e.item = c.item /\ e.opened = TRUE /\ e.gone = c.gone
               /\ s \notin Used(rt[t])
               /\ \/ Plus(rt[t], rt'[t], s, e) /\ UNCHANGED n_OpenCount
                  \/ SameUsed(rt[t], rt'[t]) /\ n_OpenCount' = CountBack(c, -1)
<1> DEFINE c == call[t][s]
           e == [Ref(c.item, TRUE) EXCEPT !.gone = c.gone]
<1>1. /\ c # NoCall /\ ~c.closing /\ call' = [call EXCEPT ![t][s] = NoCall]
      /\ live' = live /\ gen' = gen /\ n_Owner' = n_Owner /\ lost' = lost /\ state' = state
  BY DEF OpenItemReturns
<1>2. c \in CallRecords /\ TableOK(rt[t], Aside(t)) /\ s \in Aside(t)
  BY <1>1, CallIs DEF Inv, TablesInv, Aside
<1>3. /\ e \in Refs /\ e.item = c.item /\ e.opened = TRUE /\ e.gone = c.gone
      /\ c.item \in Numbers /\ c.item[1] \in Indices /\ c.gone \in BOOLEAN /\ c.closing = FALSE
  <2>1. c.item \in Numbers /\ c.gone \in BOOLEAN /\ c.closing = FALSE
    BY <1>1, <1>2 DEF CallRecords
  <2>2. PICK it \in Numbers, g \in BOOLEAN : it = c.item /\ g = c.gone
    BY <2>1
  <2>3. PICK f : f = [Ref(it, TRUE) EXCEPT !.gone = g]
    OBVIOUS
  <2>4. f \in Refs /\ f.item = it /\ f.opened = TRUE /\ f.gone = g
    BY <2>3 DEF Ref, Refs
  <2>5. e = f
    BY <2>2, <2>3
  <2> HIDE DEF e
  <2> QED BY <1>2, <2>1, <2>2, <2>4, <2>5 DEF Numbers
<1>4. s \in DOMAIN rt[t].slots /\ rt[t].slots[s].free /\ s \notin Used(rt[t])
      /\ s \notin Unused(rt[t], Aside(t))
  BY <1>2 DEF TableOK, Used, Unused
<1>5. /\ call' \in [Tasks -> [SlotNos -> CallsOfSlots]] /\ OneCall(t, s, NoCall)
      /\ \A x \in Tasks : x # t => call'[x] = call[x]
  <2>1. NoCall \in CallsOfSlots
    BY DEF CallsOfSlots
  <2> QED BY <1>1, <2>1, CallChanges DEF Inv
<1>6. Aside(t)' = Aside(t) \ {s}
  BY <1>5 DEF Aside, OneCall
<1>7. CASE rt' = [rt EXCEPT ![t] = Put(rt[t], s, e)] /\ UNCHANGED n_OpenCount
  <2>1. PICK q : q = Put(rt[t], s, e)
    OBVIOUS
  <2> HIDE DEF c, e
  <2>2. TableOK(q, Aside(t) \ {s}) /\ Plus(rt[t], q, s, e)
    BY <1>2, <1>3, <2>1, Putting
  <2>3. TableOK(q, Aside(t)')
    BY <1>6, <2>2
  <2>4. /\ TablesInv' /\ rt' \in [Tasks -> Tables] /\ rt'[t] = q
        /\ \A x \in Tasks : x # t => rt'[x] = rt[x]
    BY <1>5, <1>7, <2>1, <2>3, OneTable DEF Inv
  <2>5. TypeInv'
    BY <1>1, <1>5, <1>7, <2>4 DEF Inv, TypeInv
  <2> QED BY <1>1, <1>2, <1>3, <1>4, <1>5, <1>7, <2>2, <2>4, <2>5 DEF c, e
<1>8. CASE rt' = [rt EXCEPT ![t] = FreeItemSlot(rt[t], s)] /\ n_OpenCount' = CountBack(c, -1)
  <2>1. PICK q : q = FreeItemSlot(rt[t], s)
    OBVIOUS
  <2> HIDE DEF c, e
  <2>2. TableOK(q, Aside(t) \ {s}) /\ SameUsed(rt[t], q)
    <3>1. /\ TableOK(q, Aside(t) \ {s}) /\ Used(q) = Used(rt[t]) \ {s}
          /\ \A r \in Used(q) : q.slots[r] = rt[t].slots[r]
      BY <1>2, <1>4, <2>1, Freeing
    <3> QED BY <1>4, <3>1 DEF SameUsed
  <2>3. TableOK(q, Aside(t)')
    BY <1>6, <2>2
  <2>4. /\ TablesInv' /\ rt' \in [Tasks -> Tables] /\ rt'[t] = q
        /\ \A x \in Tasks : x # t => rt'[x] = rt[x]
    BY <1>5, <1>8, <2>1, <2>3, OneTable DEF Inv
  <2>5. n_OpenCount' \in [Indices -> Int]
    BY <1>3, <1>8 DEF Inv, TypeInv, CountBack
  <2>6. TypeInv'
    BY <1>1, <1>5, <2>4, <2>5 DEF Inv, TypeInv
  <2> QED BY <1>1, <1>2, <1>3, <1>4, <1>5, <1>8, <2>2, <2>4, <2>6 DEF c, e
<1> QED BY <1>7, <1>8 DEF OpenItemReturns

(* OpenItemReturns keeps the invariant.                                     *)
LEMMA OpenItemReturnsInv ==
    ASSUME Inv, NEW t \in Tasks, NEW s \in SlotNos, OpenItemReturns(t, s)
    PROVE  Inv'
<1>0. PICK c, e : c = call[t][s] /\ e = [Ref(c.item, TRUE) EXCEPT !.gone = c.gone]
  OBVIOUS
<1>1. /\ TypeInv' /\ TablesInv' /\ c # NoCall /\ e.opened = TRUE /\ OneCall(t, s, NoCall)
      /\ \A x \in Tasks : x # t => rt'[x] = rt[x]
      /\ s \notin Used(rt[t]) /\ (Plus(rt[t], rt'[t], s, e) \/ SameUsed(rt[t], rt'[t]))
  BY <1>0, OpenItemReturnsEffect
<1>2. UNCHANGED <<freeList, blocks, live, gen, n_Owner, state>>
  BY DEF OpenItemReturns
<1>3. FreeInv'
  BY <1>2 DEF Inv, FreeInv
<1>4. StateInv'
  <2>1. state[t] # "dead"
    BY <1>0, <1>1 DEF Inv, StateInv
  <2> QED BY <1>1, <1>2, <2>1 DEF Inv, StateInv, OneCall
<1>5. /\ \A r \in Used(rt[t]) : r # s /\ r \in Used(rt'[t]) /\ rt'[t].slots[r] = rt[t].slots[r]
      /\ \A r \in Used(rt'[t]) : r # s => r \in Used(rt[t])
      /\ s \in Used(rt'[t]) => rt'[t].slots[s].opened
  BY <1>1 DEF SameUsed, Plus
<1>6. OwnInv'
  BY <1>1, <1>2, <1>5, OpensOwnNothing DEF Inv
<1>7. CallInv'
  <2>1. \A x \in Tasks : \A r \in SlotNos : Closing(x, r)' =>
            Closing(x, r) /\ call'[x][r] = call[x][r]
    BY <1>1 DEF Closing, OneCall
  <2> QED BY <1>1, <1>5, <2>1, ClosesStay DEF Inv
<1> QED BY <1>1, <1>3, <1>4, <1>6, <1>7 DEF Inv

\* Slot s of t has the item number it open.
HasOpen(t, s, it) ==
    s \in Used(rt[t]) /\ rt[t].slots[s].opened /\ rt[t].slots[s].item = it

(* What is in a slot that is in use.                                        *)
LEMMA UsedIs ==
    ASSUME TablesInv, NEW t \in Tasks, NEW s \in Used(rt[t])
    PROVE  /\ rt[t].slots[s] \in Refs /\ s \in DOMAIN rt[t].slots /\ s \in SlotNos
           /\ rt[t].slots[s].item \in Numbers /\ rt[t].slots[s].item[1] \in Indices
           /\ rt[t].slots[s].opened \in BOOLEAN /\ rt[t].slots[s].gone \in BOOLEAN
<1>1. TableOK(rt[t], Aside(t)) /\ s \in DOMAIN rt[t].slots /\ ~rt[t].slots[s].free
  BY DEF TablesInv, Used
<1>2. rt[t].slots[s] \in Refs
  BY <1>1, EntryIs DEF TableOK
<1>3. s \in SlotNos
  <2>1. rt[t].size \in 0 .. MaxSlots /\ s \in 0 .. rt[t].size - 1
    BY <1>1, TableIs DEF TableOK
  <2> QED BY <2>1, ItemTableAssumption DEF SlotNos
<1> QED BY <1>1, <1>2, <1>3 DEF Refs, Numbers

(* The slot of a closed item is freed.                                      *)
LEMMA SlotFreed ==
    ASSUME Inv, NEW t \in Tasks, NEW s \in Used(rt[t]),
           rt' = [rt EXCEPT ![t] = FreeItemSlot(@, s)], Aside(t)' = Aside(t),
           \A x \in Tasks : x # t => call'[x] = call[x]
    PROVE  /\ TablesInv' /\ rt' \in [Tasks -> Tables] /\ Minus(rt[t], rt'[t], s)
           /\ \A x \in Tasks : x # t => rt'[x] = rt[x]
<1>1. PICK q : q = FreeItemSlot(rt[t], s)
  OBVIOUS
<1>2. TableOK(rt[t], Aside(t))
  BY DEF Inv, TablesInv
<1>3. TableOK(q, Aside(t)) /\ Minus(rt[t], q, s)
  <2>1. TableOK(q, Aside(t)) /\ Without(rt[t], q, Used(rt[t])) /\ Used(q) = Used(rt[t]) \ {s}
    BY <1>1, <1>2, FreeingUsed
  <2> QED BY <2>1 DEF Minus, Without, Less
<1>4. TableOK(q, Aside(t)')
  BY <1>3
<1>5. /\ TablesInv' /\ rt' \in [Tasks -> Tables] /\ rt'[t] = q
      /\ \A x \in Tasks : x # t => rt'[x] = rt[x]
  BY <1>1, <1>4, OneTable DEF Inv
<1> QED BY <1>3, <1>5

(* A close starts, or frees the slot of a number that finds nothing.        *)
LEMMA CloseEffect ==
    ASSUME Inv, NEW t \in Tasks, NEW it, NEW s, HasOpen(t, s, it),
           internalCloseItemSlot(t, it, s)
    PROVE  /\ TypeInv' /\ TablesInv' /\ \A x \in Tasks : x # t => rt'[x] = rt[x]
           /\ it \in Numbers /\ it[1] \in Indices /\ s \in SlotNos /\ call[t][s] = NoCall
           /\ \/ /\ ~LookupItem(it) /\ Minus(rt[t], rt'[t], s)
                 /\ UNCHANGED <<call, n_OpenCount>>
              \/ /\ LookupItem(it) /\ rt' = rt
                 /\ OneCall(t, s, Call(it, TRUE)) /\ Call(it, TRUE) # NoCall
                 /\ n_OpenCount' = [n_OpenCount EXCEPT ![it[1]] = n_OpenCount[it[1]] - 1]
<1>1. /\ call[t][s] = NoCall
      /\ live' = live /\ gen' = gen /\ n_Owner' = n_Owner /\ lost' = lost /\ state' = state
  BY DEF internalCloseItemSlot
<1>2. s \in Used(rt[t]) /\ s \in SlotNos /\ it \in Numbers /\ it[1] \in Indices
  BY UsedIs DEF Inv, HasOpen
<1>3. CASE /\ ~LookupItem(it) /\ rt' = [rt EXCEPT ![t] = FreeItemSlot(@, s)]
           /\ UNCHANGED <<n_OpenCount, call>>
  <2>1. Aside(t)' = Aside(t)
    BY <1>3 DEF Aside
  <2>2. /\ TablesInv' /\ rt' \in [Tasks -> Tables] /\ Minus(rt[t], rt'[t], s)
        /\ \A x \in Tasks : x # t => rt'[x] = rt[x]
    BY <1>2, <1>3, <2>1, SlotFreed
  <2>3. TypeInv'
    BY <1>1, <1>3, <2>2 DEF Inv, TypeInv
  <2> QED BY <1>1, <1>2, <1>3, <2>2, <2>3
<1>4. CASE /\ LookupItem(it) /\ call' = [call EXCEPT ![t][s] = Call(it, TRUE)]
           /\ n_OpenCount' = [n_OpenCount EXCEPT ![it[1]] = @ - 1] /\ UNCHANGED rt
  <2>1. PICK c : c = Call(it, TRUE)
    OBVIOUS
  <2>2. c \in CallRecords /\ c.closing = TRUE
    BY <1>2, <2>1, NewCallIs
  <2>3. c # NoCall /\ c \in CallsOfSlots
    BY <2>2, RecordIsCall
  <2>4. call' \in [Tasks -> [SlotNos -> CallsOfSlots]] /\ OneCall(t, s, c)
    BY <1>2, <1>4, <2>1, <2>3, CallChanges DEF Inv
  <2>5. \A x \in Tasks : Aside(x)' = Aside(x)
    BY <1>1, <2>2, <2>4 DEF Aside, OneCall
  <2>6. TablesInv'
    BY <1>4, <2>5 DEF Inv, TablesInv
  <2>7. n_OpenCount' \in [Indices -> Int]
    BY <1>2, <1>4 DEF Inv, TypeInv
  <2>8. TypeInv'
    BY <1>1, <1>4, <2>4, <2>7 DEF Inv, TypeInv
  <2> QED BY <1>1, <1>2, <1>4, <2>1, <2>3, <2>4, <2>6, <2>8
<1> QED BY <1>3, <1>4 DEF internalCloseItemSlot

(* Close keeps the invariant.                                               *)
LEMMA CloseInv ==
    ASSUME Inv, NEW t \in Tasks, NEW it, NEW s, HasOpen(t, s, it),
           internalCloseItemSlot(t, it, s)
    PROVE  Inv'
<1>1. /\ TypeInv' /\ TablesInv' /\ \A x \in Tasks : x # t => rt'[x] = rt[x]
      /\ it \in Numbers /\ s \in SlotNos /\ call[t][s] = NoCall
      /\ \/ Minus(rt[t], rt'[t], s) /\ call' = call
         \/ rt' = rt /\ OneCall(t, s, Call(it, TRUE))
  BY CloseEffect
<1>2. /\ UNCHANGED <<freeList, blocks, live, gen, n_Owner, state>>
      /\ s \in Used(rt[t]) /\ rt[t].slots[s].opened /\ rt[t].slots[s].item = it
      /\ rt[t].slots[s].opened \in BOOLEAN
  BY UsedIs DEF internalCloseItemSlot, HasOpen, Inv
<1>3. FreeInv'
  BY <1>2 DEF Inv, FreeInv
<1>4. StateInv'
  <2>1. state[t] # "dead"
    BY <1>2 DEF Inv, StateInv
  <2>2. CASE Minus(rt[t], rt'[t], s) /\ call' = call
    BY <1>1, <1>2, <2>1, <2>2 DEF Inv, StateInv
  <2>3. CASE rt' = rt /\ OneCall(t, s, Call(it, TRUE))
    BY <1>2, <2>1, <2>3 DEF Inv, StateInv, OneCall
  <2> QED BY <1>1, <2>2, <2>3
<1>5. /\ \A r \in Used(rt[t]) : r # s => r \in Used(rt'[t]) /\ rt'[t].slots[r] = rt[t].slots[r]
      /\ \A r \in Used(rt'[t]) : r # s => r \in Used(rt[t])
      /\ s \in Used(rt'[t]) => rt'[t].slots[s].opened
  BY <1>1, <1>2 DEF Minus
<1>6. OwnInv'
  BY <1>1, <1>2, <1>5, OpensOwnNothing DEF Inv
<1>7. CallInv'
  <2>1. CASE Minus(rt[t], rt'[t], s) /\ call' = call
    <3>1. \A x \in Tasks : \A r \in SlotNos : Closing(x, r)' =>
              Closing(x, r) /\ ~(x = t /\ r = s)
      BY <1>1, <2>1 DEF Closing
    <3> QED BY <1>1, <1>5, <2>1, <3>1, ClosesStay DEF Inv
  <2>2. CASE rt' = rt /\ OneCall(t, s, Call(it, TRUE))
    <3>1. Call(it, TRUE).item = it
      BY DEF Call
    <3>2. CallInv /\ rt[t].slots[s].opened = TRUE
      BY <1>2 DEF Inv
    <3>3. ASSUME NEW x \in Tasks, NEW r \in SlotNos, Closing(x, r)'
          PROVE  /\ r \in Used(rt'[x]) /\ rt'[x].slots[r].opened = TRUE
                 /\ rt'[x].slots[r].item = call'[x][r].item
      <4>1. CASE x = t /\ r = s
        BY <1>2, <2>2, <3>1, <3>2, <4>1 DEF OneCall
      <4>2. CASE x # t \/ r # s
        <5>1. Closing(x, r) /\ call'[x][r] = call[x][r]
          BY <2>2, <3>3, <4>2 DEF OneCall, Closing
        <5> QED BY <2>2, <3>2, <5>1 DEF CallInv
      <4> QED BY <4>1, <4>2
    <3> QED BY <3>3 DEF CallInv
  <2> QED BY <1>1, <2>1, <2>2
<1> QED BY <1>1, <1>3, <1>4, <1>6, <1>7 DEF Inv

(* CloseItem closes a slot that has the item number open.                   *)
LEMMA CloseItemCloses ==
    ASSUME Inv, NEW t \in Tasks, NEW it \in Numbers, CloseItem(t, it)
    PROVE  \E s : HasOpen(t, s, it) /\ internalCloseItemSlot(t, it, s)
<1> DEFINE S == SlotsOf(rt[t], it, TRUE)
<1>1. S # {} /\ internalCloseItemSlot(t, it, Min(S))
  BY DEF CloseItem, FindItemSlot
<1>2. rt[t].size \in Nat /\ S \subseteq 0 .. rt[t].size - 1
  <2>1. rt[t].size \in 0 .. MaxSlots /\ DOMAIN rt[t].slots = 0 .. rt[t].size - 1
    BY TableIs DEF Inv, TablesInv, TableOK
  <2>2. MaxSlots \in Nat
    BY ItemTableAssumption
  <2> QED BY <2>1, <2>2 DEF SlotsOf
<1>3. Min(S) \in S
  BY <1>1, <1>2, MinMax
<1>4. HasOpen(t, Min(S), it)
  <2>1. PICK s \in S : s = Min(S)
    BY <1>3
  <2>2. HasOpen(t, s, it)
    BY DEF HasOpen, SlotsOf, Used
  <2> QED BY <2>1, <2>2
<1> QED BY <1>1, <1>4

(* The return of ir_Close frees the slot or leaves it.                      *)
LEMMA CloseItemReturnsEffect ==
    ASSUME Inv, NEW t \in Tasks, NEW s \in SlotNos, CloseItemReturns(t, s)
    PROVE  LET c == call[t][s]
           IN  /\ TypeInv' /\ TablesInv' /\ OneCall(t, s, NoCall)
               /\ c # NoCall /\ c.closing = TRUE /\ c \in CallRecords
               /\ HasOpen(t, s, c.item)
               /\ \A x \in Tasks : x # t => rt'[x] = rt[x]
               /\ \/ Minus(rt[t], rt'[t], s) /\ UNCHANGED n_OpenCount
                  \/ rt' = rt /\ n_OpenCount' = CountBack(c, 1)
<1> DEFINE c == call[t][s]
<1>1. /\ c # NoCall /\ c.closing /\ call' = [call EXCEPT ![t][s] = NoCall]
      /\ live' = live /\ gen' = gen /\ n_Owner' = n_Owner /\ lost' = lost /\ state' = state
  BY DEF CloseItemReturns
<1>2. /\ c \in CallRecords /\ c.closing = TRUE /\ c.item[1] \in Indices
      /\ HasOpen(t, s, c.item)
  <2>1. c \in CallRecords
    BY <1>1, CallIs DEF Inv
  <2>2. HasOpen(t, s, c.item)
    BY <1>1 DEF Inv, CallInv, Closing, HasOpen
  <2> QED BY <1>1, <2>1, <2>2 DEF CallRecords, Numbers
<1>3. /\ call' \in [Tasks -> [SlotNos -> CallsOfSlots]] /\ OneCall(t, s, NoCall)
      /\ \A x \in Tasks : x # t => call'[x] = call[x]
  <2>1. NoCall \in CallsOfSlots
    BY DEF CallsOfSlots
  <2> QED BY <1>1, <2>1, CallChanges DEF Inv
<1>4. \A x \in Tasks : Aside(x)' = Aside(x)
  BY <1>2, <1>3 DEF Aside, OneCall
<1>5. CASE rt' = [rt EXCEPT ![t] = FreeItemSlot(@, s)] /\ UNCHANGED n_OpenCount
  <2>1. s \in Used(rt[t])
    BY <1>2 DEF HasOpen
  <2>2. /\ TablesInv' /\ rt' \in [Tasks -> Tables] /\ Minus(rt[t], rt'[t], s)
        /\ \A x \in Tasks : x # t => rt'[x] = rt[x]
    BY <1>3, <1>4, <1>5, <2>1, SlotFreed
  <2>3. TypeInv'
    BY <1>1, <1>3, <1>5, <2>2 DEF Inv, TypeInv
  <2> QED BY <1>1, <1>2, <1>3, <1>5, <2>2, <2>3
<1>6. CASE n_OpenCount' = CountBack(c, 1) /\ UNCHANGED rt
  <2>1. TablesInv'
    BY <1>4, <1>6 DEF Inv, TablesInv
  <2>2. n_OpenCount' \in [Indices -> Int]
    BY <1>2, <1>6 DEF Inv, TypeInv, CountBack
  <2>3. TypeInv'
    BY <1>1, <1>3, <1>6, <2>2 DEF Inv, TypeInv
  <2> QED BY <1>1, <1>2, <1>3, <1>6, <2>1, <2>3
<1> QED BY <1>5, <1>6 DEF CloseItemReturns

(* CloseItemReturns keeps the invariant.                                    *)
LEMMA CloseItemReturnsInv ==
    ASSUME Inv, NEW t \in Tasks, NEW s \in SlotNos, CloseItemReturns(t, s)
    PROVE  Inv'
<1>1. /\ TypeInv' /\ TablesInv' /\ OneCall(t, s, NoCall) /\ call[t][s] # NoCall
      /\ HasOpen(t, s, call[t][s].item) /\ \A x \in Tasks : x # t => rt'[x] = rt[x]
      /\ Minus(rt[t], rt'[t], s) \/ rt' = rt
  BY CloseItemReturnsEffect
<1>2. /\ UNCHANGED <<freeList, blocks, live, gen, n_Owner, state>>
      /\ s \in Used(rt[t]) /\ rt[t].slots[s].opened
  BY <1>1 DEF CloseItemReturns, HasOpen
<1>3. FreeInv'
  BY <1>2 DEF Inv, FreeInv
<1>4. StateInv'
  <2>1. state[t] # "dead"
    BY <1>1 DEF Inv, StateInv
  <2> QED BY <1>1, <1>2, <2>1 DEF Inv, StateInv, OneCall
<1>5. /\ \A r \in Used(rt[t]) : r # s => r \in Used(rt'[t]) /\ rt'[t].slots[r] = rt[t].slots[r]
      /\ \A r \in Used(rt'[t]) : r # s => r \in Used(rt[t])
      /\ s \in Used(rt'[t]) => rt'[t].slots[s].opened
  BY <1>1, <1>2 DEF Minus
<1>6. OwnInv'
  BY <1>1, <1>2, <1>5, OpensOwnNothing DEF Inv
<1>7. CallInv'
  <2>1. \A x \in Tasks : \A r \in SlotNos : Closing(x, r)' =>
            Closing(x, r) /\ call'[x][r] = call[x][r] /\ ~(x = t /\ r = s)
    BY <1>1 DEF Closing, OneCall
  <2> QED BY <1>1, <1>5, <2>1, ClosesStay DEF Inv
<1> QED BY <1>1, <1>3, <1>4, <1>6, <1>7 DEF Inv

\* The two steps of FreeResources.
FreeResourcesCloses(t) == \E s, it : HasOpen(t, s, it) /\ internalCloseItemSlot(t, it, s)
FreeResourcesDeletes(t) == \E i \in live : realDeleteItem(i)

(* FreeResources closes a slot or deletes an item.                          *)
LEMMA FreeResourcesSteps ==
    ASSUME NEW t \in Tasks, NEW s \in SlotNos, FreeResources(t, s)
    PROVE  FreeResourcesCloses(t) \/ FreeResourcesDeletes(t)
<1>1. PICK it : it = rt[t].slots[s].item
  OBVIOUS
<1>2. /\ s \in Used(rt[t])
      /\ IF rt[t].slots[s].opened THEN internalCloseItemSlot(t, it, s)
                                  ELSE realDeleteItem(it[1])
  BY <1>1 DEF FreeResources, Used
<1>3. rt[t].slots[s].opened => FreeResourcesCloses(t)
  <2>1. rt[t].slots[s].opened => HasOpen(t, s, it) /\ internalCloseItemSlot(t, it, s)
    BY <1>1, <1>2 DEF HasOpen
  <2> QED BY <2>1 DEF FreeResourcesCloses
<1>4. realDeleteItem(it[1]) => FreeResourcesDeletes(t)
  <2>1. realDeleteItem(it[1]) => it[1] \in live
    BY DEF realDeleteItem
  <2> QED BY <2>1 DEF FreeResourcesDeletes
<1> HIDE DEF FreeResourcesCloses, FreeResourcesDeletes, internalCloseItemSlot, realDeleteItem
<1> QED BY <1>2, <1>3, <1>4

(* A larger table has the same entries.                                     *)
LEMMA IncreaseEffect ==
    ASSUME Inv, NEW t \in Tasks, NEW n \in 1 .. MaxSlots, IncreaseResourceTable(t, n)
    PROVE  /\ TypeInv' /\ TablesInv' /\ SameUsed(rt[t], rt'[t])
           /\ \A x \in Tasks : x # t => rt'[x] = rt[x]
<1> DEFINE q == Grown(rt[t], n)
<1>1. /\ rt' = [rt EXCEPT ![t] = q] /\ n \in 1 .. MaxSlots - rt[t].size
      /\ UNCHANGED <<freeList, blocks, live, gen, n_Owner, n_OpenCount, call, lost, state>>
  BY DEF IncreaseResourceTable
<1>2. TableOK(rt[t], Aside(t))
  BY DEF Inv, TablesInv
<1>3. n \in Nat \ {0} /\ rt[t].size + n <= MaxSlots
  <2>1. rt[t].size \in 0 .. MaxSlots
    BY <1>2, TableIs DEF TableOK
  <2>2. MaxSlots \in Nat
    BY ItemTableAssumption
  <2> QED BY <1>1, <2>1, <2>2
<1>4. TableOK(q, Aside(t)) /\ SameUsed(rt[t], q)
  BY <1>2, <1>3, Growing
<1> HIDE DEF q
<1>5. Aside(t)' = Aside(t)
  BY <1>1 DEF Aside
<1>6. /\ TablesInv' /\ rt' \in [Tasks -> Tables] /\ rt'[t] = q
      /\ \A x \in Tasks : x # t => rt'[x] = rt[x]
  BY <1>1, <1>4, <1>5, OneTable DEF Inv
<1>7. TypeInv'
  BY <1>1, <1>6 DEF Inv, TypeInv
<1> QED BY <1>4, <1>6, <1>7

(* Increase keeps the invariant.                                            *)
LEMMA IncreaseInv ==
    ASSUME Inv, NEW t \in Tasks, NEW n \in 1 .. MaxSlots, IncreaseResourceTable(t, n)
    PROVE  Inv'
<1>1. /\ TypeInv' /\ TablesInv' /\ SameUsed(rt[t], rt'[t])
      /\ \A x \in Tasks : x # t => rt'[x] = rt[x]
  BY IncreaseEffect
<1>2. UNCHANGED <<freeList, blocks, live, gen, n_Owner, call, state>>
  BY DEF IncreaseResourceTable
<1>3. FreeInv' /\ StateInv'
  BY <1>1, <1>2 DEF Inv, FreeInv, StateInv, SameUsed
<1>4. /\ \A x \in Tasks : \A r, j : Owns(x, r, j)' <=> Owns(x, r, j)
      /\ \A x \in Tasks : \A r, j : Owns(x, r, j) => rt'[x].slots[r] = rt[x].slots[r]
  BY <1>1 DEF Owns, SameUsed
<1>5. OwnInv'
  BY <1>2, <1>4, OwnersStay DEF Inv
<1>6. CallInv'
  <2>1. \A x \in Tasks : \A r \in SlotNos : Closing(x, r)' => Closing(x, r)
    BY <1>2 DEF Closing
  <2> QED BY <1>1, <1>2, <2>1, ClosesStay DEF Inv, SameUsed
<1> QED BY <1>1, <1>3, <1>5, <1>6 DEF Inv

(* Exits keeps the invariant.                                               *)
LEMMA ExitsInv ==
    ASSUME Inv, NEW t \in Tasks, Exits(t)
    PROVE  Inv'
<1>1. /\ state[t] = "alive" /\ state' = [state EXCEPT ![t] = "exiting"]
      /\ UNCHANGED <<freeList, blocks, live, gen, n_Owner, n_OpenCount, rt, call, lost>>
  BY DEF Exits
<1>2. TypeInv' /\ FreeInv' /\ TablesInv' /\ CallInv'
  BY <1>1 DEF Inv, TypeInv, FreeInv, TablesInv, CallInv, Closing, Aside
<1>3. \A x \in Tasks : state'[x] = "dead" <=> state[x] = "dead"
  BY <1>1 DEF Inv, TypeInv
<1>4. StateInv'
  BY <1>1, <1>3 DEF Inv, StateInv
<1>5. OwnInv'
  BY <1>1, <1>3, OwnersStay DEF Inv, Owns
<1> QED BY <1>2, <1>4, <1>5 DEF Inv

(* The slots in which something is open are finitely many.                  *)
LEMMA SlotsFinite ==
    /\ IsFiniteSet(SlotNos)
    /\ \A t : \A i : /\ IsFiniteSet(OpenSlots(t, i))
                     /\ Cardinality(OpenSlots(t, i)) \in Nat
<1>1. IsFiniteSet(SlotNos)
  <2>1. MaxSlots - 1 \in Int /\ 0 \in Int
    BY ItemTableAssumption
  <2> QED BY <2>1, FS_Interval DEF SlotNos
<1>2. \A t : \A i : OpenSlots(t, i) \subseteq SlotNos
  BY Zenon DEF OpenSlots
<1>3. \A t : \A i : IsFiniteSet(OpenSlots(t, i))
  BY <1>1, <1>2, FS_Subset
<1> QED BY <1>1, <1>3, FS_CardinalityType

(* The table of an exiting task is freed, whatever is in it.                *)
LEMMA FreeTaskEffect ==
    ASSUME Inv, NEW t \in Tasks, FreeTask(t)
    PROVE  /\ TypeInv' /\ TablesInv' /\ Used(rt'[t]) = {}
           /\ \A s \in SlotNos : call[t][s] = NoCall
           /\ \A x \in Tasks : x # t => rt'[x] = rt[x]
<1>1. /\ state[t] = "exiting" /\ state' = [state EXCEPT ![t] = "dead"]
      /\ rt' = [rt EXCEPT ![t] = EmptyTable]
      /\ lost' = [i \in Indices |->
                     IF i \in live THEN lost[i] + Cardinality(OpenSlots(t, i)) ELSE lost[i]]
      /\ UNCHANGED <<freeList, blocks, live, gen, n_Owner, n_OpenCount, call>>
  BY DEF FreeTask
<1>2. \A s \in SlotNos : call[t][s] = NoCall
  BY DEF FreeTask, UnderWay
<1>3. Aside(t)' = {}
  BY <1>1, <1>2 DEF Aside
<1>4. /\ TablesInv' /\ rt' \in [Tasks -> Tables] /\ rt'[t] = EmptyTable
      /\ \A x \in Tasks : x # t => rt'[x] = rt[x]
  BY <1>1, <1>3, EmptyTableOK, OneTable DEF Inv
<1>5. lost' \in [Indices -> Nat]
  <2>1. \A i \in Indices : lost[i] \in Nat /\ Cardinality(OpenSlots(t, i)) \in Nat
    BY SlotsFinite DEF Inv, TypeInv
  <2> QED BY <1>1, <2>1
<1>6. TypeInv'
  BY <1>1, <1>4, <1>5 DEF Inv, TypeInv
<1> QED BY <1>2, <1>4, <1>6, EmptyTableOK

(* FreeTask keeps the invariant.                                            *)
LEMMA FreeTaskInv ==
    ASSUME Inv, NEW t \in Tasks, FreeTask(t)
    PROVE  Inv'
<1>1. /\ TypeInv' /\ TablesInv' /\ Used(rt'[t]) = {}
      /\ \A s \in SlotNos : call[t][s] = NoCall
      /\ \A x \in Tasks : x # t => rt'[x] = rt[x]
  BY FreeTaskEffect
<1>2. /\ UNCHANGED <<freeList, blocks, live, gen, n_Owner, call>>
      /\ state' = [state EXCEPT ![t] = "dead"]
  BY DEF FreeTask
<1>3. /\ state'[t] = "dead"
      /\ \A x \in Tasks : x # t => state'[x] = state[x]
  BY <1>2 DEF Inv, TypeInv
<1>4. FreeInv' /\ StateInv'
  BY <1>1, <1>2, <1>3 DEF Inv, FreeInv, StateInv
<1>5. /\ \A x \in Tasks : \A r, j : Owns(x, r, j)' => x # t /\ Owns(x, r, j)
      /\ \A x \in Tasks : \A r, j : Owns(x, r, j) /\ x # t => Owns(x, r, j)'
  BY <1>1 DEF Owns
<1>6. OwnInv'
  BY <1>1, <1>2, <1>3, <1>5, OwnersStay DEF Inv
<1>7. CallInv'
  <2>1. \A x \in Tasks : \A r \in SlotNos : Closing(x, r)' => Closing(x, r) /\ x # t
    BY <1>1, <1>2 DEF Closing
  <2> QED BY <1>1, <1>2, <2>1, ClosesStay DEF Inv
<1> QED BY <1>1, <1>4, <1>6, <1>7 DEF Inv

(* FreeItem.  When the generations start again, it leaves no number of the  *)
(* entry in a table that has at most one.                                   *)
LEMMA FreeItemEffect ==
    ASSUME LowEntriesAreYoung, TypeInv, NEW i \in Indices, NEW tabs, NEW list,
           FreeItem(i, tabs, list), tabs = [x \in Tasks |-> tabs[x]],
           \A x \in Tasks : TableOK(tabs[x], Aside(x))
    PROVE  /\ gen' \in [Indices -> 0 .. Gens - 1] /\ gen'[i] = NextGen(gen[i])
           /\ \A j \in Indices : j # i => gen'[j] = gen[j]
           /\ freeList' = Append(list, i)
           /\ rt' = [x \in Tasks |-> rt'[x]]
           /\ \A x \in Tasks : /\ TableOK(rt'[x], Aside(x))
                               /\ Less(tabs[x], rt'[x], SlotsAt(tabs[x], i))
           /\ NextGen(gen[i]) = 0 => \A x \in Tasks :
                  state[x] # "dead" /\ (\A s, r \in SlotsAt(tabs[x], i) : s = r) =>
                      Used(rt'[x]) = Used(tabs[x]) \ SlotsAt(tabs[x], i)
           /\ NextGen(gen[i]) # 0 => rt' = tabs
           /\ CallsAreShort(i)
<1>1. /\ gen' = [gen EXCEPT ![i] = NextGen(gen[i])] /\ freeList' = Append(list, i)
      /\ rt' = Cleaned(tabs, i) /\ CallsAreShort(i)
  BY DEF FreeItem
<1>2. gen \in [Indices -> 0 .. Gens - 1] /\ NextGen(gen[i]) \in 0 .. Gens - 1
  BY NextGenIs DEF TypeInv
<1>3. \A x \in Tasks : Less(tabs[x], tabs[x], SlotsAt(tabs[x], i))
  BY DEF Less
<1>4. CASE NextGen(gen[i]) # 0
  <2>1. rt' = tabs
    BY <1>1, <1>4 DEF Cleaned
  <2> QED BY <1>1, <1>2, <1>3, <1>4, <2>1
<1>5. CASE NextGen(gen[i]) = 0
  <2>1. rt' = [x \in Tasks |-> IF state[x] = "dead" THEN tabs[x]
                                                   ELSE RemoveItemReferences(tabs[x], i)]
    BY <1>1, <1>5 DEF Cleaned
  <2>2. ASSUME NEW x \in Tasks
        PROVE  /\ TableOK(rt'[x], Aside(x))
               /\ Less(tabs[x], rt'[x], SlotsAt(tabs[x], i))
               /\ state[x] # "dead" /\ (\A s, r \in SlotsAt(tabs[x], i) : s = r) =>
                      Used(rt'[x]) = Used(tabs[x]) \ SlotsAt(tabs[x], i)
    <3>1. CASE state[x] = "dead"
      BY <1>3, <2>1, <3>1
    <3>2. CASE state[x] # "dead"
      <4>1. rt'[x] = RemoveItemReferences(tabs[x], i)
        BY <2>1, <3>2
      <4>2. i \in Indices \ SlotNos
        BY <1>5 DEF LowEntriesAreYoung
      <4>3. TableOK(rt'[x], Aside(x)) /\ Without(tabs[x], rt'[x], SlotsAt(tabs[x], i))
        BY <4>1, <4>2, Cleaning
      <4> QED BY <4>3 DEF Without
    <3> QED BY <3>1, <3>2
  <2> QED BY <1>1, <1>2, <1>5, <2>1, <2>2
<1> QED BY <1>4, <1>5

(* A failed CreateItem removes at most what is left of the index.           *)
LEMMA CreateItemFailsEffect ==
    ASSUME LowEntriesAreYoung, Inv, NEW t \in Tasks, CreateItemFails(t)
    PROVE  LET i == Head(Free)
           IN  /\ i \in Indices \ live /\ FreeInv' /\ TypeInv' /\ TablesInv'
               /\ gen'[i] = NextGen(gen[i])
               /\ \A j \in Indices : j # i => gen'[j] = gen[j]
               /\ \A x \in Tasks : Less(rt[x], rt'[x], SlotsAt(rt[x], i))
               /\ NextGen(gen[i]) = 0 => \A x \in Tasks :
                      state[x] # "dead" /\ (\A s, r \in SlotsAt(rt[x], i) : s = r) =>
                          Used(rt'[x]) = Used(rt[x]) \ SlotsAt(rt[x], i)
               /\ NextGen(gen[i]) # 0 => \A x \in Tasks : Used(rt'[x]) = Used(rt[x])
               /\ CallsAreShort(i)
<1> DEFINE i == Head(Free)
<1>1. /\ UNCHANGED <<live, n_Owner, n_OpenCount, call, lost, state>> /\ blocks' = NewBlocks
      /\ HasItem
  BY DEF CreateItemFails, NewBlocks, Calls
<1>2. FreeOK(Free, NewBlocks, live) /\ Free # <<>>
  BY <1>1, FreeHasEntries DEF Inv
<1>3. i \in Indices \ live /\ FreeOK(Tail(Free), NewBlocks, live \cup {i})
  BY <1>2, TakingEntry
<1>4. FreeOK(Append(Tail(Free), i), NewBlocks, live)
  <2>1. FreeOK(Append(Tail(Free), i), NewBlocks, (live \cup {i}) \ {i})
    BY <1>3, ReturningEntry
  <2>2. (live \cup {i}) \ {i} = live
    BY <1>3
  <2> QED BY <2>1, <2>2
<1>5. /\ rt = [x \in Tasks |-> rt[x]] /\ rt[t] \in Tables
      /\ \A x \in Tasks : TableOK(rt[x], Aside(x))
  BY DEF Inv, TypeInv, TablesInv
<1>6. PICK tabs : /\ FreeItem(i, tabs, Tail(Free))
                  /\ tabs = [x \in Tasks |-> tabs[x]]
                  /\ \A x \in Tasks : TableOK(tabs[x], Aside(x)) /\ SameUsed(rt[x], tabs[x])
  <2>0. \A x \in Tasks : SameUsed(rt[x], rt[x])
    BY DEF SameUsed
  <2>1. CASE FreeItem(i, rt, Tail(Free))
    BY <1>5, <2>0, <2>1
  <2>2. CASE /\ HasRoom(rt[t])
             /\ FreeItem(i, [rt EXCEPT ![t] = FreeItemSlot(AllocItemSlot(@), SlotFor(@))],
                         Tail(Free))
    <3> DEFINE q == FreeItemSlot(AllocItemSlot(rt[t]), SlotFor(rt[t]))
    <3>1. TableOK(q, Aside(t)) /\ SameUsed(rt[t], q)
      BY <1>5, <2>2, AllocFree
    <3>2. PICK tabs : tabs = [rt EXCEPT ![t] = q]
      OBVIOUS
    <3>3. FreeItem(i, tabs, Tail(Free))
      BY <2>2, <3>2
    <3> HIDE DEF q, i
    <3>4. /\ tabs = [x \in Tasks |-> tabs[x]]
          /\ \A x \in Tasks : TableOK(tabs[x], Aside(x)) /\ SameUsed(rt[x], tabs[x])
      BY <1>5, <2>0, <3>1, <3>2
    <3> QED BY <3>3, <3>4
  <2> QED BY <2>1, <2>2 DEF CreateItemFails
<1> HIDE DEF i
<1>7. /\ gen' \in [Indices -> 0 .. Gens - 1] /\ gen'[i] = NextGen(gen[i])
      /\ \A j \in Indices : j # i => gen'[j] = gen[j]
      /\ freeList' = Append(Tail(Free), i)
      /\ rt' = [x \in Tasks |-> rt'[x]]
      /\ \A x \in Tasks : /\ TableOK(rt'[x], Aside(x))
                          /\ Less(tabs[x], rt'[x], SlotsAt(tabs[x], i))
      /\ NextGen(gen[i]) = 0 => \A x \in Tasks :
             state[x] # "dead" /\ (\A s, r \in SlotsAt(tabs[x], i) : s = r) =>
                 Used(rt'[x]) = Used(tabs[x]) \ SlotsAt(tabs[x], i)
      /\ (NextGen(gen[i]) # 0 => rt' = tabs) /\ CallsAreShort(i)
  BY <1>3, <1>6, FreeItemEffect DEF Inv
<1>8. \A x \in Tasks : /\ Used(tabs[x]) = Used(rt[x])
                       /\ SlotsAt(tabs[x], i) = SlotsAt(rt[x], i)
                       /\ Less(rt[x], rt'[x], SlotsAt(rt[x], i))
  <2> SUFFICES ASSUME NEW x \in Tasks
               PROVE  /\ Used(tabs[x]) = Used(rt[x])
                      /\ SlotsAt(tabs[x], i) = SlotsAt(rt[x], i)
                      /\ Less(rt[x], rt'[x], SlotsAt(rt[x], i))
    OBVIOUS
  <2>1. SameUsed(rt[x], tabs[x]) /\ Less(tabs[x], rt'[x], SlotsAt(tabs[x], i))
    BY <1>6, <1>7
  <2>2. SlotsAt(tabs[x], i) = SlotsAt(rt[x], i)
    BY <2>1 DEF SlotsAt, SameUsed
  <2> QED BY <2>1, <2>2 DEF Less, SameUsed
<1>9. TablesInv' /\ rt' \in [Tasks -> Tables]
  BY <1>1, <1>7 DEF TablesInv, TableOK, Aside
<1>10. TypeInv'
  BY <1>1, <1>7, <1>9 DEF Inv, TypeInv
<1>11. FreeInv'
  BY <1>1, <1>4, <1>7 DEF FreeInv
<1> QED BY <1>3, <1>7, <1>8, <1>9, <1>10, <1>11 DEF i

(* CreateItemFails keeps the invariant.                                     *)
LEMMA CreateItemFailsInv ==
    ASSUME LowEntriesAreYoung, ~WrapInCalls, Inv, NEW t \in Tasks, CreateItemFails(t)
    PROVE  Inv'
<1> DEFINE i == Head(Free)
<1>1. /\ i \in Indices \ live /\ FreeInv' /\ TypeInv' /\ TablesInv'
      /\ \A j \in Indices : j # i => gen'[j] = gen[j]
      /\ \A x \in Tasks : Less(rt[x], rt'[x], SlotsAt(rt[x], i))
      /\ NextGen(gen[i]) # 0 => \A x \in Tasks : Used(rt'[x]) = Used(rt[x])
      /\ CallsAreShort(i)
  BY CreateItemFailsEffect
<1>2. UNCHANGED <<live, n_Owner, n_OpenCount, call, lost, state>>
  BY DEF CreateItemFails
<1> HIDE DEF i
<1>3. StateInv'
  BY <1>1, <1>2 DEF Inv, StateInv, Less
<1>4. /\ \A x \in Tasks : \A r, j : Owns(x, r, j)' => Owns(x, r, j)
      /\ \A x \in Tasks : \A r, j : Owns(x, r, j) /\ j # i => Owns(x, r, j)'
      /\ \A x \in Tasks : \A r, j : Owns(x, r, j)' => rt'[x].slots[r] = rt[x].slots[r]
  BY <1>1 DEF Owns, Less, SlotsAt
<1>5. \A j \in live : Item(j)' = Item(j) /\ j # i
  BY <1>1 DEF Item, Inv, TypeInv
<1>6. OwnInv'
  <2>1. OwnInv
    BY DEF Inv
  <2> QED BY <1>2, <1>4, <1>5, <2>1 DEF OwnInv
<1>7. CallInv'
  <2>1. ASSUME NEW x \in Tasks, NEW s \in SlotNos, Closing(x, s)'
        PROVE  Closing(x, s) /\ s \in Used(rt'[x]) /\ rt'[x].slots[s] = rt[x].slots[s]
    <3>1. /\ Closing(x, s) /\ s \in Used(rt[x])
          /\ rt[x].slots[s].item = call[x][s].item
      BY <1>2, <2>1 DEF Closing, Inv, CallInv
    <3>2. CASE NextGen(gen[i]) # 0
      BY <1>1, <3>1, <3>2 DEF Less
    <3>3. CASE NextGen(gen[i]) = 0
      <4>1. rt[x].slots[s].item[1] # i
        BY <3>1, <3>3, <1>1 DEF CallsAreShort, Closing
      <4> QED BY <1>1, <3>1, <4>1 DEF Less, SlotsAt
    <3> QED BY <3>2, <3>3
  <2> QED BY <1>2, <2>1, ClosesStay DEF Inv
<1> QED BY <1>1, <1>3, <1>6, <1>7 DEF Inv

\* The slots of t that have the item at i as its own.
OwnSlots(t, i) == {s \in Used(rt[t]) : Owns(t, s, i)}

(* RemoveItem removes what is owned.                                        *)
LEMMA RemovingOwned ==
    ASSUME Inv, NEW t \in Tasks, NEW i \in live, NEW tab, NEW R, TableOK(tab, R),
           SameUsed(rt[t], tab), NEW q, q = RemoveItem(tab, Item(i))
    PROVE  /\ TableOK(q, R) /\ Less(rt[t], q, OwnSlots(t, i))
           /\ Used(q) = Used(rt[t]) \ OwnSlots(t, i)
<1> DEFINE S == SlotsOf(tab, Item(i), FALSE)
<1>1. TableOK(q, R) /\ Without(tab, q, S)
  BY Removing
<1>2. i \in Indices /\ Item(i)[1] = i
  BY ItemIs DEF Inv, TypeInv
<1>3. S = OwnSlots(t, i)
  <2>1. ASSUME NEW s, s \in S PROVE s \in OwnSlots(t, i)
    <3>1. s \in Used(tab) /\ tab.slots[s].item = Item(i) /\ tab.slots[s].opened = FALSE
      BY <2>1 DEF SlotsOf, Used
    <3>2. s \in Used(rt[t]) /\ rt[t].slots[s].item = Item(i) /\ rt[t].slots[s].opened = FALSE
      BY <3>1 DEF SameUsed
    <3> QED BY <1>2, <3>2 DEF OwnSlots, Owns
  <2>2. ASSUME NEW s, s \in OwnSlots(t, i) PROVE s \in S
    <3>1. s \in Used(rt[t]) /\ Owns(t, s, i)
      BY <2>2 DEF OwnSlots
    <3>2. rt[t].slots[s].item = Item(i)
      BY <3>1 DEF Inv, OwnInv
    <3>3. rt[t].slots[s].opened = FALSE
      BY <3>1, UsedIs DEF Inv, Owns
    <3>4. s \in Used(tab) /\ tab.slots[s].item = Item(i) /\ tab.slots[s].opened = FALSE
      BY <3>1, <3>2, <3>3 DEF SameUsed
    <3> QED BY <3>4 DEF SlotsOf, Used
  <2> QED BY <2>1, <2>2
<1> HIDE DEF S
<1>4. \A s, r \in S : s = r
  BY <1>3 DEF Inv, OwnInv, OwnSlots
<1>5. Used(q) = Used(tab) \ S /\ \A s \in Used(q) : q.slots[s] = tab.slots[s]
  BY <1>1, <1>4 DEF Without, Less
<1> QED BY <1>1, <1>3, <1>5 DEF SameUsed, Less

\* The call c after the deletion of the item number it.
Bereft(c, d, it) ==
    /\ d = NoCall <=> c = NoCall
    /\ c # NoCall => d.closing = c.closing /\ d.item = c.item
    /\ c # NoCall /\ c.item = it => d.gone = TRUE
    /\ c # NoCall /\ c.item # it => d = c

(* Deletion removes the owned entry and marks the others.                   *)
LEMMA DeleteEffect ==
    ASSUME LowEntriesAreYoung, Inv, NEW i \in live, realDeleteItem(i)
    PROVE  /\ FreeInv' /\ TypeInv' /\ TablesInv'
           /\ gen'[i] = NextGen(gen[i]) /\ \A j \in Indices : j # i => gen'[j] = gen[j]
           /\ \A x \in Tasks :
                /\ Used(rt'[x]) \subseteq Used(rt[x]) \ OwnSlots(x, i)
                /\ \A s \in Used(rt[x]) \ Used(rt'[x]) : rt[x].slots[s].item[1] = i
                /\ \A s \in Used(rt'[x]) :
                     /\ rt[x].slots[s].item = Item(i) =>
                            rt'[x].slots[s] = [rt[x].slots[s] EXCEPT !.gone = TRUE]
                     /\ rt[x].slots[s].item # Item(i) => rt'[x].slots[s] = rt[x].slots[s]
           /\ NextGen(gen[i]) = 0 => \A x \in Tasks :
                  /\ state[x] # "dead"
                  /\ \A s, r \in SlotsAt(rt[x], i) \ OwnSlots(x, i) : s = r
                  => \A s \in Used(rt'[x]) : rt[x].slots[s].item[1] # i
           /\ NextGen(gen[i]) # 0 => \A x \in Tasks :
                  Used(rt'[x]) = Used(rt[x]) \ OwnSlots(x, i)
           /\ CallsAreShort(i)
           /\ \A x \in Tasks : \A s \in SlotNos : Bereft(call[x][s], call'[x][s], Item(i))
<1> DEFINE it == Item(i)
           p  == n_Owner[i]
           t0 == [rt EXCEPT ![p] = RemoveItem(rt[p], it)]
           t1 == [x \in Tasks |-> Bereaved(t0[x], it)]
<1>1. /\ FreeItem(i, t1, freeList) /\ live' = live \ {i}
      /\ n_Owner' = [n_Owner EXCEPT ![i] = NoTask]
      /\ n_OpenCount' = [n_OpenCount EXCEPT ![i] = 0]
      /\ call' = CallsBereaved(it) /\ lost' = [lost EXCEPT ![i] = 0]
      /\ blocks' = blocks /\ state' = state
  BY DEF realDeleteItem
<1>2. i \in Indices /\ it \in Numbers /\ it[1] = i /\ p \in Tasks
  BY ItemIs DEF Inv, TypeInv, OwnInv
<1>3. /\ rt \in [Tasks -> Tables]
      /\ \A x \in Tasks : TableOK(rt[x], Aside(x)) /\ SameUsed(rt[x], rt[x])
  BY DEF Inv, TypeInv, TablesInv, SameUsed
<1>4. ASSUME NEW x \in Tasks
      PROVE  /\ TableOK(t0[x], Aside(x)) /\ Used(t0[x]) = Used(rt[x]) \ OwnSlots(x, i)
             /\ \A s \in Used(t0[x]) : t0[x].slots[s] = rt[x].slots[s]
  <2>1. CASE x = p
    <3>1. t0[x] = RemoveItem(rt[x], Item(i))
      BY <1>3, <2>1
    <3> HIDE DEF t0
    <3>2. /\ TableOK(t0[x], Aside(x)) /\ Less(rt[x], t0[x], OwnSlots(x, i))
          /\ Used(t0[x]) = Used(rt[x]) \ OwnSlots(x, i)
      BY <1>3, <3>1, RemovingOwned
    <3> QED BY <3>2 DEF Less
  <2>2. CASE x # p
    <3>1. t0[x] = rt[x]
      BY <1>3, <2>2
    <3> HIDE DEF t0
    <3>2. OwnSlots(x, i) = {}
      BY <2>2 DEF Inv, OwnInv, OwnSlots
    <3> QED BY <1>3, <3>1, <3>2
  <2> QED BY <2>1, <2>2
<1> HIDE DEF t0, p
<1>5. ASSUME NEW x \in Tasks
      PROVE  /\ TableOK(t1[x], Aside(x)) /\ Used(t1[x]) = Used(rt[x]) \ OwnSlots(x, i)
             /\ \A s \in Used(t1[x]) :
                  /\ rt[x].slots[s].item = it =>
                         t1[x].slots[s] = [rt[x].slots[s] EXCEPT !.gone = TRUE]
                  /\ rt[x].slots[s].item # it => t1[x].slots[s] = rt[x].slots[s]
  <2>1. t1[x] = Bereaved(t0[x], it)
    OBVIOUS
  <2> HIDE DEF t1, it
  <2>2. /\ TableOK(t1[x], Aside(x)) /\ Used(t1[x]) = Used(t0[x])
        /\ \A s \in Used(t0[x]) :
             /\ t0[x].slots[s].item = it =>
                    t1[x].slots[s] = [t0[x].slots[s] EXCEPT !.gone = TRUE]
             /\ t0[x].slots[s].item # it => t1[x].slots[s] = t0[x].slots[s]
    BY <1>4, <2>1, Bereaving
  <2> QED BY <1>4, <2>2
<1>6. t1 = [x \in Tasks |-> t1[x]]
  OBVIOUS
<1> HIDE DEF t1, it
<1>7. /\ gen' \in [Indices -> 0 .. Gens - 1] /\ gen'[i] = NextGen(gen[i])
      /\ \A j \in Indices : j # i => gen'[j] = gen[j]
      /\ freeList' = Append(freeList, i)
      /\ rt' = [x \in Tasks |-> rt'[x]]
      /\ \A x \in Tasks : /\ TableOK(rt'[x], Aside(x))
                          /\ Less(t1[x], rt'[x], SlotsAt(t1[x], i))
      /\ NextGen(gen[i]) = 0 => \A x \in Tasks :
             state[x] # "dead" /\ (\A s, r \in SlotsAt(t1[x], i) : s = r) =>
                 Used(rt'[x]) = Used(t1[x]) \ SlotsAt(t1[x], i)
      /\ (NextGen(gen[i]) # 0 => rt' = t1) /\ CallsAreShort(i)
  <2>1. TypeInv /\ FreeItem(i, t1, freeList) /\ i \in Indices
    BY <1>1, <1>2 DEF Inv
  <2>2. \A x \in Tasks : TableOK(t1[x], Aside(x))
    BY <1>5
  <2>3. PICK tabs : tabs = t1
    OBVIOUS
  <2>4. /\ FreeItem(i, tabs, freeList) /\ tabs = [x \in Tasks |-> tabs[x]]
        /\ \A x \in Tasks : TableOK(tabs[x], Aside(x))
    BY <1>6, <2>1, <2>2, <2>3
  <2>5. /\ gen' \in [Indices -> 0 .. Gens - 1] /\ gen'[i] = NextGen(gen[i])
        /\ \A j \in Indices : j # i => gen'[j] = gen[j]
        /\ freeList' = Append(freeList, i)
        /\ rt' = [x \in Tasks |-> rt'[x]]
        /\ \A x \in Tasks : /\ TableOK(rt'[x], Aside(x))
                            /\ Less(tabs[x], rt'[x], SlotsAt(tabs[x], i))
        /\ NextGen(gen[i]) = 0 => \A x \in Tasks :
               state[x] # "dead" /\ (\A s, r \in SlotsAt(tabs[x], i) : s = r) =>
                   Used(rt'[x]) = Used(tabs[x]) \ SlotsAt(tabs[x], i)
        /\ (NextGen(gen[i]) # 0 => rt' = tabs) /\ CallsAreShort(i)
    BY <2>1, <2>4, FreeItemEffect
  <2> QED BY <2>3, <2>5
<1>8. ASSUME NEW x \in Tasks
      PROVE  /\ SlotsAt(t1[x], i) = SlotsAt(rt[x], i) \ OwnSlots(x, i)
             /\ Used(rt'[x]) \subseteq Used(rt[x]) \ OwnSlots(x, i)
             /\ \A s \in Used(rt[x]) \ Used(rt'[x]) : rt[x].slots[s].item[1] = i
             /\ \A s \in Used(rt'[x]) : rt'[x].slots[s] = t1[x].slots[s]
  <2>1. \A s \in Used(t1[x]) : t1[x].slots[s].item = rt[x].slots[s].item
    <3> SUFFICES ASSUME NEW s \in Used(t1[x]), rt[x].slots[s].item = it
                 PROVE  t1[x].slots[s].item = rt[x].slots[s].item
      BY <1>5
    <3>1. rt[x].slots[s] \in Refs
      BY <1>5, UsedIs DEF Inv
    <3> QED BY <1>5, <3>1 DEF Refs
  <2>2. SlotsAt(t1[x], i) = SlotsAt(rt[x], i) \ OwnSlots(x, i)
    BY <1>5, <2>1 DEF SlotsAt
  <2>3. \A s \in OwnSlots(x, i) : rt[x].slots[s].item[1] = i
    BY DEF OwnSlots, Owns
  <2>4. Less(t1[x], rt'[x], SlotsAt(t1[x], i))
    BY <1>7
  <2> QED BY <1>5, <2>2, <2>3, <2>4 DEF Less, SlotsAt
<1>9. ASSUME NEW x \in Tasks, NEW s \in SlotNos
      PROVE  call'[x][s] \in CallsOfSlots /\ Bereft(call[x][s], call'[x][s], it)
  <2>1. call'[x][s] = IF call[x][s] # NoCall /\ call[x][s].item = it
                      THEN [call[x][s] EXCEPT !.gone = TRUE] ELSE call[x][s]
    BY <1>1 DEF CallsBereaved
  <2>2. PICK c, d : c = call[x][s] /\ d = call'[x][s]
    OBVIOUS
  <2>3. CASE c # NoCall /\ c.item = it
    <3>1. c \in CallRecords /\ d = [c EXCEPT !.gone = TRUE]
      BY <2>1, <2>2, <2>3, CallIs DEF Inv
    <3>2. /\ d \in CallRecords /\ d.closing = c.closing /\ d.item = c.item
          /\ d.gone = TRUE
      BY <3>1 DEF CallRecords
    <3>3. d # NoCall /\ d \in CallsOfSlots
      BY <3>2, RecordIsCall
    <3> QED BY <2>2, <2>3, <3>2, <3>3 DEF Bereft
  <2>4. CASE ~(c # NoCall /\ c.item = it)
    <3>1. d = c /\ d \in CallsOfSlots
      BY <2>1, <2>2, <2>4, CallIs DEF Inv
    <3> QED BY <2>2, <2>4, <3>1 DEF Bereft
  <2> QED BY <2>3, <2>4
<1>10. TablesInv' /\ rt' \in [Tasks -> Tables] /\ call' \in [Tasks -> [SlotNos -> CallsOfSlots]]
  <2>1. rt' \in [Tasks -> Tables]
    BY <1>7 DEF TableOK
  <2>2. call' \in [Tasks -> [SlotNos -> CallsOfSlots]]
    BY <1>1, <1>9 DEF CallsBereaved
  <2>3. \A x \in Tasks : Aside(x)' = Aside(x)
    BY <1>9 DEF Aside, Bereft
  <2> QED BY <1>7, <2>1, <2>2, <2>3 DEF TablesInv
<1>11. TypeInv'
  <2>1. TypeInv /\ 0 \in Int /\ 0 \in Nat
    BY DEF Inv
  <2>2. n_Owner' \in [Indices -> Tasks \cup {NoTask}] /\ n_OpenCount' \in [Indices -> Int]
    BY <1>1, <2>1 DEF TypeInv
  <2>3. /\ live' \subseteq Indices /\ state' \in [Tasks -> {"alive", "exiting", "dead"}]
        /\ lost' \in [Indices -> Nat]
    BY <1>1, <2>1 DEF TypeInv
  <2> QED BY <1>7, <1>10, <2>2, <2>3 DEF TypeInv
<1>12. FreeInv'
  BY <1>1, <1>2, <1>7, ReturningEntry DEF Inv, FreeInv
<1>13. ASSUME NextGen(gen[i]) = 0, NEW x \in Tasks, state[x] # "dead",
              \A s, r \in SlotsAt(rt[x], i) \ OwnSlots(x, i) : s = r,
              NEW s \in Used(rt'[x])
       PROVE  rt[x].slots[s].item[1] # i
  <2>1. s \in Used(rt[x]) \ OwnSlots(x, i) /\ s \notin SlotsAt(rt[x], i) \ OwnSlots(x, i)
    BY <1>7, <1>8, <1>13
  <2> QED BY <2>1 DEF SlotsAt
<1>14. NextGen(gen[i]) # 0 => \A x \in Tasks : Used(rt'[x]) = Used(rt[x]) \ OwnSlots(x, i)
  BY <1>5, <1>7
<1>15. /\ gen'[i] = NextGen(gen[i]) /\ \A j \in Indices : j # i => gen'[j] = gen[j]
       /\ CallsAreShort(i) /\ it = Item(i)
  BY <1>7 DEF it
<1>16. \A x \in Tasks :
          /\ Used(rt'[x]) \subseteq Used(rt[x]) \ OwnSlots(x, i)
          /\ \A s \in Used(rt[x]) \ Used(rt'[x]) : rt[x].slots[s].item[1] = i
          /\ \A s \in Used(rt'[x]) :
               /\ rt[x].slots[s].item = Item(i) =>
                      rt'[x].slots[s] = [rt[x].slots[s] EXCEPT !.gone = TRUE]
               /\ rt[x].slots[s].item # Item(i) => rt'[x].slots[s] = rt[x].slots[s]
  BY <1>5, <1>8, <1>15
<1>17. \A x \in Tasks : \A s \in SlotNos : Bereft(call[x][s], call'[x][s], Item(i))
  BY <1>9, <1>15
<1>18. NextGen(gen[i]) = 0 => \A x \in Tasks :
           /\ state[x] # "dead"
           /\ \A s, r \in SlotsAt(rt[x], i) \ OwnSlots(x, i) : s = r
           => \A s \in Used(rt'[x]) : rt[x].slots[s].item[1] # i
  BY <1>13
<1> QED BY <1>10, <1>11, <1>12, <1>14, <1>15, <1>16, <1>17, <1>18

(* Delete keeps the invariant.                                              *)
LEMMA DeleteInv ==
    ASSUME LowEntriesAreYoung, ~WrapInCalls, Inv, NEW i \in live, realDeleteItem(i)
    PROVE  Inv'
<1>1. /\ FreeInv' /\ TypeInv' /\ TablesInv'
      /\ \A j \in Indices : j # i => gen'[j] = gen[j]
      /\ \A x \in Tasks :
           /\ Used(rt'[x]) \subseteq Used(rt[x]) \ OwnSlots(x, i)
           /\ \A s \in Used(rt[x]) \ Used(rt'[x]) : rt[x].slots[s].item[1] = i
           /\ \A s \in Used(rt'[x]) :
                /\ rt[x].slots[s].item = Item(i) =>
                       rt'[x].slots[s] = [rt[x].slots[s] EXCEPT !.gone = TRUE]
                /\ rt[x].slots[s].item # Item(i) => rt'[x].slots[s] = rt[x].slots[s]
      /\ NextGen(gen[i]) # 0 => \A x \in Tasks :
             Used(rt'[x]) = Used(rt[x]) \ OwnSlots(x, i)
      /\ CallsAreShort(i)
      /\ \A x \in Tasks : \A s \in SlotNos : Bereft(call[x][s], call'[x][s], Item(i))
  BY DeleteEffect
<1>2. /\ live' = live \ {i} /\ n_Owner' = [n_Owner EXCEPT ![i] = NoTask] /\ state' = state
      /\ i \in Indices
  BY DEF realDeleteItem, Inv, TypeInv
<1>3. StateInv'
  BY <1>1, <1>2 DEF Inv, StateInv, Bereft
<1>4. Item(i)[1] = i
  BY <1>2, ItemIs DEF Inv
<1>5. ASSUME NEW x \in Tasks, NEW s \in Used(rt'[x])
      PROVE  /\ rt'[x].slots[s].item = rt[x].slots[s].item
             /\ rt'[x].slots[s].opened = rt[x].slots[s].opened
             /\ s \in Used(rt[x])
             /\ rt[x].slots[s].item[1] # i => rt'[x].slots[s] = rt[x].slots[s]
  <2>1. s \in Used(rt[x])
    BY <1>1
  <2>2. rt[x].slots[s] \in Refs
    BY <2>1, UsedIs DEF Inv
  <2>3. CASE rt[x].slots[s].item = Item(i)
    <3>1. rt'[x].slots[s] = [rt[x].slots[s] EXCEPT !.gone = TRUE]
      BY <1>1, <2>3
    <3> QED BY <1>4, <2>1, <2>2, <2>3, <3>1 DEF Refs
  <2>4. CASE rt[x].slots[s].item # Item(i)
    BY <1>1, <2>1, <2>4
  <2> QED BY <2>3, <2>4
<1>6. /\ \A x \in Tasks : \A r, j : Owns(x, r, j)' <=> Owns(x, r, j) /\ j # i
      /\ \A x \in Tasks : \A r, j : Owns(x, r, j)' => rt'[x].slots[r] = rt[x].slots[r]
  <2>1. ASSUME NEW x \in Tasks, NEW r, NEW j, Owns(x, r, j)'
        PROVE  Owns(x, r, j) /\ j # i /\ rt'[x].slots[r] = rt[x].slots[r]
    <3>1. r \in Used(rt'[x]) /\ Owns(x, r, j)
      BY <1>5, <2>1 DEF Owns
    <3>2. j # i
      BY <1>1, <3>1 DEF OwnSlots
    <3> QED BY <1>5, <3>1, <3>2 DEF Owns
  <2>2. ASSUME NEW x \in Tasks, NEW r, NEW j, Owns(x, r, j), j # i
        PROVE  Owns(x, r, j)'
    <3>1. r \in Used(rt'[x])
      BY <1>1, <2>2 DEF Owns
    <3> QED BY <1>5, <2>2, <3>1 DEF Owns
  <2> QED BY <2>1, <2>2
<1>7. \A j \in live : j # i => Item(j)' = Item(j) /\ n_Owner'[j] = n_Owner[j]
  BY <1>1, <1>2 DEF Item, Inv, TypeInv
<1>8. OwnInv'
  <2>1. OwnInv
    BY DEF Inv
  <2> QED BY <1>2, <1>6, <1>7, <2>1 DEF OwnInv
<1>9. ASSUME NEW x \in Tasks, NEW s \in SlotNos, Closing(x, s)'
      PROVE  /\ s \in Used(rt'[x]) /\ rt'[x].slots[s].opened = TRUE
             /\ rt'[x].slots[s].item = call'[x][s].item
  <2>1. Closing(x, s) /\ call'[x][s].item = call[x][s].item
    BY <1>1, <1>9 DEF Closing, Bereft
  <2>2. /\ s \in Used(rt[x]) /\ rt[x].slots[s].opened = TRUE
        /\ rt[x].slots[s].item = call[x][s].item
    BY <2>1 DEF Inv, CallInv
  <2>3. s \in Used(rt'[x])
    <3>1. CASE NextGen(gen[i]) # 0
      BY <1>1, <2>2, <3>1 DEF OwnSlots, Owns
    <3>2. CASE NextGen(gen[i]) = 0
      <4>1. rt[x].slots[s].item[1] # i
        BY <1>1, <2>1, <2>2, <3>2 DEF CallsAreShort, Closing
      <4> QED BY <1>1, <2>2, <4>1
    <3> QED BY <3>1, <3>2
  <2> QED BY <1>5, <2>1, <2>2, <2>3
<1> QED BY <1>1, <1>3, <1>8, <1>9 DEF Inv, CallInv

\* Slot s of u is new and has the item at i as its own; it left the table it was in.
Moved(i, u, s) ==
    /\ s \notin Used(rt[u]) /\ s \in Used(rt'[u]) /\ rt'[u].slots[s] = Ref(Item(i), FALSE)
    /\ \A x \in Tasks : \A r \in Used(rt[x]) \ OwnSlots(x, i) :
           r \in Used(rt'[x]) /\ rt'[x].slots[r] = rt[x].slots[r]
    /\ \A x \in Tasks : \A r \in Used(rt'[x]) :
           r \in Used(rt[x]) \ OwnSlots(x, i) \/ (x = u /\ r = s)

(* The entry moves from the table of the old owner to that of the new.      *)
LEMMA SetItemOwnerEffect ==
    ASSUME Inv, NEW t \in Tasks, NEW i \in Indices, NEW u \in Tasks, SetItemOwner(t, i, u)
    PROVE  /\ TypeInv' /\ TablesInv' /\ i \in live /\ state[u] # "dead"
           /\ \/ /\ n_Owner' = [n_Owner EXCEPT ![i] = u]
                 /\ Moved(i, u, SlotFor(rt[u]))
              \/ n_Owner' = n_Owner /\ \A x \in Tasks : SameUsed(rt[x], rt'[x])
<1> DEFINE tab == AllocItemSlot(rt[u])
           s   == SlotFor(rt[u])
           e   == Ref(Item(i), FALSE)
           p   == n_Owner[i]
           t0  == [rt EXCEPT ![u] = tab]
           f   == [t0 EXCEPT ![p] = RemoveItem(t0[p], Item(i))]
<1>1. /\ i \in live /\ state[u] # "dead" /\ HasRoom(rt[u])
      /\ UNCHANGED <<freeList, blocks, live, gen, n_OpenCount, call, lost, state>>
  BY DEF SetItemOwner
<1>2. /\ rt \in [Tasks -> Tables] /\ p \in Tasks
      /\ \A x \in Tasks : TableOK(rt[x], Aside(x)) /\ SameUsed(rt[x], rt[x])
  BY <1>1 DEF Inv, TypeInv, TablesInv, OwnInv, SameUsed
<1>3. \A x \in Tasks : Aside(x)' = Aside(x)
  BY <1>1 DEF Aside
<1>4. /\ TableOK(tab, Aside(u) \cup {s}) /\ SameUsed(rt[u], tab)
      /\ s \in SlotNos \ Aside(u) /\ s \notin Used(rt[u])
  BY <1>1, <1>2, Allocating
<1>5. e \in Refs
  BY ItemIs, RefIs DEF Inv
<1>6. CASE /\ rt' = [f EXCEPT ![u] = Put(f[u], s, e)]
           /\ n_Owner' = [n_Owner EXCEPT ![i] = u]
  <2> HIDE DEF tab, s, e
  <2>1. /\ t0 = [x \in Tasks |-> t0[x]] /\ t0[u] = tab
        /\ \A x \in Tasks : x # u => t0[x] = rt[x]
    BY <1>2
  <2> DEFINE A(x) == Aside(x) \cup (IF x = u THEN {s} ELSE {})
  <2>2. ASSUME NEW x \in Tasks
        PROVE  TableOK(t0[x], A(x)) /\ SameUsed(rt[x], t0[x])
    <3>1. CASE x = u
      BY <1>4, <2>1, <3>1
    <3>2. CASE x # u
      <4>1. A(x) = Aside(x)
        BY <3>2
      <4> QED BY <1>2, <2>1, <3>2, <4>1
    <3> QED BY <3>1, <3>2
  <2> HIDE DEF t0
  <2>3. /\ f = [x \in Tasks |-> f[x]] /\ f[p] = RemoveItem(t0[p], Item(i))
        /\ \A x \in Tasks : x # p => f[x] = t0[x]
    BY <1>2, <2>1
  <2> HIDE DEF f
  <2>4. ASSUME NEW x \in Tasks
        PROVE  /\ TableOK(f[x], A(x)) /\ Less(rt[x], f[x], OwnSlots(x, i))
               /\ Used(f[x]) = Used(rt[x]) \ OwnSlots(x, i)
    <3> HIDE DEF A
    <3>1. CASE x = p
      <4>1. f[x] = RemoveItem(t0[x], Item(i))
        BY <2>3, <3>1
      <4> QED BY <1>1, <2>2, <4>1, RemovingOwned
    <3>2. CASE x # p
      <4>1. f[x] = t0[x]
        BY <2>3, <3>2
      <4>2. OwnSlots(x, i) = {}
        BY <3>2 DEF Inv, OwnInv, OwnSlots
      <4> QED BY <2>2, <4>1, <4>2 DEF SameUsed, Less
    <3> QED BY <3>1, <3>2
  <2>5. PICK q : q = Put(f[u], s, e)
    OBVIOUS
  <2>6. TableOK(q, Aside(u)) /\ Plus(f[u], q, s, e)
    <3>1. TableOK(f[u], Aside(u) \cup {s})
      BY <2>4
    <3>2. TableOK(q, (Aside(u) \cup {s}) \ {s}) /\ Plus(f[u], q, s, e)
      BY <1>5, <2>5, <3>1, Putting
    <3>3. (Aside(u) \cup {s}) \ {s} = Aside(u)
      BY <1>4
    <3> QED BY <3>2, <3>3
  <2>7. /\ rt' = [x \in Tasks |-> rt'[x]] /\ rt'[u] = q
        /\ \A x \in Tasks : x # u => rt'[x] = f[x]
    BY <1>6, <2>3, <2>5
  <2>8. ASSUME NEW x \in Tasks PROVE TableOK(rt'[x], Aside(x))
    <3>1. CASE x = u
      BY <2>6, <2>7, <3>1
    <3>2. CASE x # u
      <4>1. A(x) = Aside(x)
        BY <3>2
      <4> QED BY <2>4, <2>7, <3>2, <4>1
    <3> QED BY <3>1, <3>2
  <2>9. TablesInv' /\ rt' \in [Tasks -> Tables]
    BY <1>3, <2>7, <2>8 DEF TablesInv, TableOK
  <2>10. n_Owner' \in [Indices -> Tasks \cup {NoTask}]
    BY <1>6 DEF Inv, TypeInv
  <2>11. TypeInv'
    BY <1>1, <2>9, <2>10 DEF Inv, TypeInv
  <2>12. Moved(i, u, s)
    <3>1. \A x \in Tasks : \A r \in Used(f[x]) : f[x].slots[r] = rt[x].slots[r]
      BY <2>4 DEF Less
    <3>2. /\ s \in Used(rt'[u]) /\ rt'[u].slots[s] = e
          /\ Used(rt'[u]) = Used(f[u]) \cup {s}
          /\ \A r \in Used(f[u]) : rt'[u].slots[r] = f[u].slots[r]
      BY <2>6, <2>7 DEF Plus
    <3>3. \A x \in Tasks : \A r \in Used(rt[x]) \ OwnSlots(x, i) :
              r \in Used(rt'[x]) /\ rt'[x].slots[r] = rt[x].slots[r]
      <4> SUFFICES ASSUME NEW x \in Tasks, NEW r \in Used(rt[x]) \ OwnSlots(x, i)
                   PROVE  r \in Used(rt'[x]) /\ rt'[x].slots[r] = rt[x].slots[r]
        OBVIOUS
      <4>1. r \in Used(f[x]) /\ f[x].slots[r] = rt[x].slots[r]
        BY <2>4, <3>1
      <4>2. CASE x = u
        BY <3>2, <4>1, <4>2
      <4>3. CASE x # u
        BY <2>7, <4>1, <4>3
      <4> QED BY <4>2, <4>3
    <3>4. \A x \in Tasks : \A r \in Used(rt'[x]) :
              r \in Used(rt[x]) \ OwnSlots(x, i) \/ (x = u /\ r = s)
      BY <2>4, <2>7, <3>2
    <3> QED BY <1>4, <3>2, <3>3, <3>4 DEF Moved, e
  <2> QED BY <1>1, <1>6, <2>9, <2>11, <2>12 DEF s
<1>7. CASE rt' = [rt EXCEPT ![u] = FreeItemSlot(tab, s)] /\ n_Owner' = n_Owner
  <2> DEFINE q == FreeItemSlot(tab, s)
  <2>1. TableOK(q, Aside(u)) /\ SameUsed(rt[u], q)
    BY <1>1, <1>2, AllocFree
  <2>2. rt' = [rt EXCEPT ![u] = q]
    BY <1>7
  <2> HIDE DEF q, tab, s
  <2>3. /\ TablesInv' /\ rt' \in [Tasks -> Tables] /\ rt'[u] = q
        /\ \A x \in Tasks : x # u => rt'[x] = rt[x]
    BY <1>1, <1>3, <2>1, <2>2, OneTable DEF Inv
  <2>4. TypeInv'
    BY <1>1, <1>7, <2>3 DEF Inv, TypeInv
  <2>5. \A x \in Tasks : SameUsed(rt[x], rt'[x])
    BY <1>2, <2>1, <2>3
  <2> QED BY <1>1, <1>7, <2>3, <2>4, <2>5
<1> QED BY <1>6, <1>7 DEF SetItemOwner

(* SetItemOwner keeps the invariant.                                        *)
LEMMA SetItemOwnerInv ==
    ASSUME Inv, NEW t \in Tasks, NEW i \in Indices, NEW u \in Tasks, SetItemOwner(t, i, u)
    PROVE  Inv'
<1> DEFINE s == SlotFor(rt[u])
           e == Ref(Item(i), FALSE)
<1>1. /\ TypeInv' /\ TablesInv' /\ i \in live /\ state[u] # "dead"
      /\ \/ n_Owner' = [n_Owner EXCEPT ![i] = u] /\ Moved(i, u, s)
         \/ n_Owner' = n_Owner /\ \A x \in Tasks : SameUsed(rt[x], rt'[x])
  BY SetItemOwnerEffect
<1>2. UNCHANGED <<freeList, blocks, live, gen, n_OpenCount, call, lost, state>>
  BY DEF SetItemOwner
<1>3. FreeInv'
  BY <1>2 DEF Inv, FreeInv
<1> HIDE DEF s
<1>6. \A x \in Tasks : \A r \in SlotNos : Closing(x, r)' => Closing(x, r)
  BY <1>2 DEF Closing
<1>4. CASE n_Owner' = n_Owner /\ \A x \in Tasks : SameUsed(rt[x], rt'[x])
  <2>1. StateInv'
    BY <1>2, <1>4 DEF Inv, StateInv, SameUsed
  <2>2. /\ \A x \in Tasks : \A r, j : Owns(x, r, j)' <=> Owns(x, r, j)
        /\ \A x \in Tasks : \A r, j : Owns(x, r, j) => rt'[x].slots[r] = rt[x].slots[r]
    BY <1>4 DEF Owns, SameUsed
  <2>3. OwnInv'
    BY <1>2, <1>4, <2>2, OwnersStay DEF Inv
  <2>4. CallInv'
    BY <1>2, <1>4, <1>6, ClosesStay DEF Inv, SameUsed
  <2> QED BY <1>1, <1>3, <2>1, <2>3, <2>4 DEF Inv
<1>5. CASE n_Owner' = [n_Owner EXCEPT ![i] = u] /\ Moved(i, u, s)
  <2>1. StateInv'
    BY <1>1, <1>2, <1>5 DEF Inv, StateInv, Moved
  <2>2. e.item = Item(i) /\ e.opened = FALSE /\ e.gone = FALSE /\ Item(i)[1] = i
    BY ItemIs, RefIs DEF Inv
  <2>3. rt'[u].slots[s] = e
    BY <1>5 DEF Moved
  <2> HIDE DEF e
  <2>4. ASSUME NEW x \in Tasks, NEW r, NEW j
        PROVE  /\ Owns(x, r, j)' <=> \/ Owns(x, r, j) /\ j # i
                                     \/ x = u /\ r = s /\ j = i
               /\ Owns(x, r, j) /\ j # i => rt'[x].slots[r] = rt[x].slots[r]
    <3>1. ASSUME Owns(x, r, j), j # i
          PROVE  Owns(x, r, j)' /\ rt'[x].slots[r] = rt[x].slots[r]
      <4>1. r \in Used(rt[x]) \ OwnSlots(x, i)
        BY <3>1 DEF Owns, OwnSlots
      <4>2. r \in Used(rt'[x]) /\ rt'[x].slots[r] = rt[x].slots[r]
        BY <1>5, <4>1 DEF Moved
      <4> QED BY <3>1, <4>2 DEF Owns
    <3>2. ASSUME x = u, r = s, j = i PROVE Owns(x, r, j)'
      BY <1>5, <2>2, <2>3, <3>2 DEF Owns, Moved
    <3>3. ASSUME Owns(x, r, j)'
          PROVE  (Owns(x, r, j) /\ j # i) \/ (x = u /\ r = s /\ j = i)
      <4>1. r \in Used(rt[x]) \ OwnSlots(x, i) \/ (x = u /\ r = s)
        BY <1>5, <3>3 DEF Moved, Owns
      <4>2. CASE x = u /\ r = s
        BY <2>2, <2>3, <3>3, <4>2 DEF Owns
      <4>3. CASE r \in Used(rt[x]) \ OwnSlots(x, i)
        <5>1. rt'[x].slots[r] = rt[x].slots[r]
          BY <1>5, <4>3 DEF Moved
        <5>2. Owns(x, r, j)
          BY <3>3, <4>3, <5>1 DEF Owns
        <5> QED BY <4>3, <5>2 DEF OwnSlots
      <4> QED BY <4>1, <4>2, <4>3
    <3> QED BY <3>1, <3>2, <3>3
  <2>5. n_Owner'[i] = u /\ \A j \in Indices : j # i => n_Owner'[j] = n_Owner[j]
    BY <1>5 DEF Inv, TypeInv
  <2>6. /\ \A j : Item(j)' = Item(j)
        /\ live' = live /\ live \subseteq Indices /\ state' = state
    BY <1>2 DEF Item, Inv, TypeInv
  <2>7. OwnInv'
    <3>1. OwnInv
      BY DEF Inv
    <3>2. live' = live \cup {i}
      BY <1>1, <2>6
    <3> QED BY <2>2, <2>3, <2>4, <2>5, <2>6, <3>1, <3>2, OwnersMove
  <2>8. CallInv'
    <3>1. \A x \in Tasks : \A r \in Used(rt[x]) : rt[x].slots[r].opened = TRUE =>
              r \in Used(rt'[x]) /\ rt'[x].slots[r] = rt[x].slots[r]
      BY <1>5 DEF Moved, OwnSlots, Owns
    <3> QED BY <1>2, <1>6, <3>1, ClosesStay DEF Inv
  <2> QED BY <1>1, <1>3, <2>1, <2>7, <2>8 DEF Inv
<1> QED BY <1>1, <1>4, <1>5

-----------------------------------------------------------------------------
(* The actions of Next.                                                     *)
LEMMA NextInv ==
    ASSUME LowEntriesAreYoung, ~WrapInCalls, Inv, [Next]_vars
    PROVE  Inv'
<1>1. ASSUME NEW t \in Tasks, CreateItem(t) PROVE Inv'
  BY <1>1, CreateItemInv
<1>2. ASSUME NEW t \in Tasks, CreateItemFails(t) PROVE Inv'
  BY <1>2, CreateItemFailsInv
<1>3. ASSUME NEW t \in Tasks, NEW s \in SlotNos, OpenItemReturns(t, s) PROVE Inv'
  BY <1>3, OpenItemReturnsInv
<1>13. ASSUME NEW t \in Tasks, NEW s \in SlotNos, CloseItemReturns(t, s) PROVE Inv'
  BY <1>13, CloseItemReturnsInv
<1>4. ASSUME NEW t \in Tasks, Exits(t) PROVE Inv'
  BY <1>4, ExitsInv
<1>5. ASSUME NEW t \in Tasks, NEW s \in SlotNos, FreeResources(t, s) PROVE Inv'
  BY <1>5, FreeResourcesSteps, CloseInv, DeleteInv
     DEF FreeResourcesCloses, FreeResourcesDeletes
<1>6. ASSUME NEW t \in Tasks, FreeTask(t) PROVE Inv'
  BY <1>6, FreeTaskInv
<1>7. ASSUME NEW t \in Tasks, NEW n \in 1 .. MaxSlots, IncreaseResourceTable(t, n)
      PROVE  Inv'
  BY <1>7, IncreaseInv
<1>8. ASSUME NEW t \in Tasks, NEW it \in Numbers, CloseItem(t, it) PROVE Inv'
  BY <1>8, CloseItemCloses, CloseInv
<1>9. ASSUME NEW t \in Tasks, NEW i \in Indices, OpenItem(t, i) PROVE Inv'
  BY <1>9, OpenItemInv
<1>10. ASSUME NEW t \in Tasks, NEW i \in Indices, DeleteItem(t, i) PROVE Inv'
  BY <1>10, DeleteInv DEF DeleteItem, realDeleteItem
<1>11. ASSUME NEW t \in Tasks, NEW i \in Indices, NEW u \in Tasks, SetItemOwner(t, i, u)
       PROVE  Inv'
  BY <1>11, SetItemOwnerInv
<1>12. CASE UNCHANGED vars
  <2>1. TypeInv' /\ FreeInv' /\ StateInv'
    BY <1>12 DEF vars, Inv, TypeInv, FreeInv, StateInv
  <2>2. TablesInv'
    BY <1>12 DEF vars, Inv, TablesInv, Aside
  <2>3. OwnInv'
    BY <1>12, OwnersStay DEF vars, Inv, Owns
  <2>4. CallInv'
    BY <1>12 DEF vars, Inv, CallInv, Closing
  <2> QED BY <2>1, <2>2, <2>3, <2>4 DEF Inv
<1> QED BY <1>1, <1>2, <1>3, <1>4, <1>5, <1>6, <1>7, <1>8, <1>9, <1>10, <1>11, <1>12, <1>13
        DEF Next

\* PROPERTY.  If no entry's last generation ends during an open or close of its item
\* (~WrapInCalls), then, while no entry whose index is also the number of a slot is in
\* its last generation, the chain of free slots of every table is intact, and what is
\* owned is in the table of its owner, until that is dead, once, and in no
\* other, whatever programs open and whatever is refused at a death (AllocItemSlot,
\* FreeItemSlot, internalCloseItemSlot, RemoveItem, RemoveItemReferences, FreeTask).
THEOREM ChainsAndOwners ==
    ~WrapInCalls =>
        (Spec /\ []LowEntriesAreYoung => [](ChainsHoldTheFreeSlots /\ ItemsAreOwnedOnce))
<1> SUFFICES ASSUME ~WrapInCalls
             PROVE  Spec /\ []LowEntriesAreYoung =>
                        [](ChainsHoldTheFreeSlots /\ ItemsAreOwnedOnce)
  OBVIOUS
<1>1. Init => Inv
  BY InitInv
<1>2. Inv /\ LowEntriesAreYoung /\ [Next]_vars => Inv'
  BY NextInv
<1>3. Inv => ChainsHoldTheFreeSlots /\ ItemsAreOwnedOnce
  BY InvChains, InvOwned
<1> QED BY <1>1, <1>2, <1>3, PTL DEF Spec

-----------------------------------------------------------------------------
(* What is open.                                                           *)

\* Slot s has the number it open, or is in a call on it; g: the item is gone.
HasIn(tab, c, s, it, g) ==
    \/ /\ s \in Used(tab) /\ tab.slots[s].opened = TRUE
       /\ tab.slots[s].item = it /\ tab.slots[s].gone = g
    \/ s \in SlotNos /\ c # NoCall /\ c.item = it /\ c.gone = g
Has(t, s, it, g) == HasIn(rt[t], call[t][s], s, it, g)

\* Slot s counts as an open of the number it: not while it is closed.
CountsIn(tab, c, s, it) ==
    IF c # NoCall THEN ~c.closing /\ c.item = it
    ELSE s \in Used(tab) /\ tab.slots[s].opened = TRUE /\ tab.slots[s].item = it
Counts(t, s, it) == CountsIn(rt[t], call[t][s], s, it)
Counted(it)      == {x \in Tasks \X SlotNos : Counts(x[1], x[2], it)}

\* The number of a deleted item is older than the entry, that of another is the
\* entry's own.
OpenInv ==
    \A t \in Tasks : \A s, it, g : Has(t, s, it, g) =>
        /\ g = TRUE => it[2] < gen[it[1]]
        /\ g = FALSE => it[1] \in live /\ it = Item(it[1])

\* A task has one number of an entry open.
OnceInv ==
    \A t \in Tasks : \A s, r, it, jt, g, h :
        Has(t, s, it, g) /\ Has(t, r, jt, h) /\ it[1] = jt[1] => s = r

\* The opens of a live item are counted, or were lost with a task; those of no other.
CountInv ==
    /\ n_OpenCount \in [Indices -> Nat]
    /\ \A i \in Indices \ live : lost[i] = 0
    /\ \A i \in live : n_OpenCount[i] = Cardinality(OpensOf(i)) + lost[i]

\* The whole invariant.
FullInv == Inv /\ OpenInv /\ CountInv

\* A step keeps it, and that a task has one number of an entry open if it opens no more.
Kept == FullInv' /\ (OnceInv /\ ~OpensTwice => OnceInv')

(* What is open has a slot, a number and a mark.                            *)
LEMMA HasIs ==
    ASSUME Inv, NEW t \in Tasks, NEW s, NEW it, NEW g, Has(t, s, it, g)
    PROVE  s \in SlotNos /\ it \in Numbers /\ it[1] \in Indices /\ g \in BOOLEAN
<1>1. CASE s \in Used(rt[t]) /\ rt[t].slots[s].item = it /\ rt[t].slots[s].gone = g
  BY <1>1, UsedIs DEF Inv
<1>2. CASE s \in SlotNos /\ call[t][s] # NoCall /\ call[t][s].item = it /\ call[t][s].gone = g
  <2>1. call[t][s] \in CallRecords
    BY <1>2, CallIs DEF Inv
  <2> QED BY <1>2, <2>1 DEF CallRecords, Numbers
<1> QED BY <1>1, <1>2 DEF Has, HasIn

(* The number of a live item finds it, and is not the number of a dead one. *)
LEMMA LiveNumbers ==
    ASSUME Inv, OpenInv, NEW t \in Tasks, NEW s, NEW it, NEW g, Has(t, s, it, g)
    PROVE  /\ g = TRUE => ~LookupItem(it) /\ \A j \in Indices : it # Item(j)
           /\ g = FALSE => LookupItem(it)
<1>1. it \in Numbers /\ it[1] \in Indices /\ g \in BOOLEAN
  BY HasIs
<1>2. Item(it[1]) = <<it[1], gen[it[1]]>> /\ gen[it[1]] \in Nat
  BY <1>1, ItemTableAssumption DEF Item, Inv, TypeInv
<1>3. ASSUME g = TRUE, NEW j \in Indices PROVE it # Item(j)
  <2>1. it[2] < gen[it[1]]
    BY <1>3 DEF OpenInv
  <2>2. Item(j)[1] = j /\ Item(j)[2] = gen[j]
    BY DEF Item
  <2> QED BY <1>2, <2>1, <2>2
<1> QED BY <1>1, <1>3 DEF LookupItem, OpenInv

(* A step that opens nothing.                                               *)
LEMMA NothingOpened ==
    ASSUME Inv, OpenInv, UNCHANGED gen, live \subseteq live',
           \A x \in Tasks : \A s, it, g : Has(x, s, it, g)' => Has(x, s, it, g)
    PROVE  OpenInv' /\ (OnceInv => OnceInv')
<1>1. \A j : Item(j)' = Item(j)
  BY DEF Item
<1>2. OpenInv'
  BY <1>1 DEF OpenInv
<1>3. OnceInv => OnceInv'
  BY DEF OnceInv
<1> QED BY <1>2, <1>3

(* The slots counted are finitely many.                                     *)
LEMMA CountedFinite ==
    ASSUME NEW S, S \subseteq Tasks \X SlotNos
    PROVE  IsFiniteSet(S) /\ Cardinality(S) \in Nat
<1>1. IsFiniteSet(Tasks \X SlotNos)
  BY SlotsFinite, FS_Product, ItemTableAssumption
<1>2. IsFiniteSet(S)
  BY <1>1, FS_Subset
<1> QED BY <1>2, FS_CardinalityType

(* The count of the model, before and after a step.                         *)
LEMMA OpensOfIs ==
    ASSUME NEW i, NEW it
    PROVE  /\ Counted(it) \subseteq Tasks \X SlotNos /\ Counted(it)' \subseteq Tasks \X SlotNos
           /\ it = Item(i) => OpensOf(i) = Counted(it)
           /\ it = Item(i)' => OpensOf(i)' = Counted(it)'
<1>1. ASSUME it = Item(i) PROVE OpensOf(i) = Counted(it)
  BY <1>1 DEF OpensOf, OpenSlots, Counted, Counts, CountsIn, SlotsOf, Used
<1>2. ASSUME it = Item(i)' PROVE OpensOf(i)' = Counted(it)'
  BY <1>2 DEF OpensOf, OpenSlots, Counted, Counts, CountsIn, SlotsOf, Used
<1>3. Counted(it) \subseteq Tasks \X SlotNos /\ Counted(it)' \subseteq Tasks \X SlotNos
  BY DEF Counted
<1> QED BY <1>1, <1>2, <1>3

(* The count of an item that the step does not concern.                     *)
LEMMA CountStays ==
    ASSUME CountInv, NEW j \in live, gen'[j] = gen[j],
           n_OpenCount'[j] = n_OpenCount[j], lost'[j] = lost[j],
           NEW it, it = Item(j),
           \A x \in Tasks : \A s \in SlotNos : Counts(x, s, it)' <=> Counts(x, s, it)
    PROVE  n_OpenCount'[j] = Cardinality(OpensOf(j)') + lost'[j]
<1>1. it = Item(j)'
  BY DEF Item
<1>2. Counted(it)' = Counted(it)
  BY DEF Counted
<1>3. OpensOf(j)' = Counted(it)' /\ OpensOf(j) = Counted(it)
  BY <1>1, OpensOfIs
<1>4. Cardinality(OpensOf(j)') = Cardinality(OpensOf(j))
  BY <1>2, <1>3
<1>5. n_OpenCount[j] = Cardinality(OpensOf(j)) + lost[j]
  BY DEF CountInv
<1> QED BY <1>4, <1>5

(* The counts of all items are right after a step.                          *)
LEMMA CountsRight ==
    ASSUME TypeInv', live' \subseteq Indices,
           \A j \in live' : n_OpenCount'[j] = Cardinality(OpensOf(j)') + lost'[j],
           \A j \in Indices \ live' : n_OpenCount'[j] \in Nat /\ lost'[j] = 0
    PROVE  CountInv'
<1>1. ASSUME NEW j \in live' PROVE n_OpenCount'[j] \in Nat
  <2>1. PICK it : it = Item(j)'
    OBVIOUS
  <2>2. Cardinality(Counted(it)') \in Nat
    BY OpensOfIs, CountedFinite
  <2>3. OpensOf(j)' = Counted(it)'
    BY <2>1, OpensOfIs
  <2>4. lost'[j] \in Nat
    BY DEF TypeInv
  <2> QED BY <2>2, <2>3, <2>4
<1>2. n_OpenCount' \in [Indices -> Nat]
  <2>1. n_OpenCount' = [j \in Indices |-> n_OpenCount'[j]]
    BY DEF TypeInv
  <2>2. \A j \in Indices : n_OpenCount'[j] \in Nat
    BY <1>1
  <2> QED BY <2>1, <2>2
<1> QED BY <1>2 DEF CountInv

(* A step that leaves all counts as they are.                               *)
LEMMA CountsKept ==
    ASSUME Inv, CountInv, Inv', UNCHANGED <<gen, live, lost, n_OpenCount>>,
           \A it : LookupItem(it) =>
               \A x \in Tasks : \A s \in SlotNos : Counts(x, s, it)' <=> Counts(x, s, it)
    PROVE  CountInv'
<1>1. ASSUME NEW j \in live
      PROVE  n_OpenCount'[j] = Cardinality(OpensOf(j)') + lost'[j]
  <2>1. PICK it : it = Item(j)
    OBVIOUS
  <2>2. LookupItem(it)
    BY <2>1 DEF Item, LookupItem
  <2> QED BY <2>1, <2>2, CountStays
<1>2. \A j \in Indices \ live' : n_OpenCount'[j] \in Nat /\ lost'[j] = 0
  BY DEF CountInv
<1> QED BY <1>1, <1>2, CountsRight DEF Inv, TypeInv

\* Nothing but slot r of u changes.
OnlySlot(u, r) ==
    /\ u \in Tasks /\ r \in SlotNos
    /\ \A x \in Tasks : x # u => rt'[x] = rt[x]
    /\ \A x \in Tasks : \A s \in SlotNos : x # u \/ s # r => call'[x][s] = call[x][s]
    /\ \A s : s # r => (s \in Used(rt'[u]) <=> s \in Used(rt[u]))
    /\ \A s \in Used(rt[u]) : s # r => rt'[u].slots[s] = rt[u].slots[s]

(* The other slots have and count what they did.                            *)
LEMMA OtherSlots ==
    ASSUME NEW u, NEW r, OnlySlot(u, r), NEW x \in Tasks, NEW s, x # u \/ s # r, NEW it
    PROVE  /\ \A g : Has(x, s, it, g)' <=> Has(x, s, it, g)
           /\ s \in SlotNos => (Counts(x, s, it)' <=> Counts(x, s, it))
<1>1. s \in SlotNos => call'[x][s] = call[x][s]
  BY DEF OnlySlot
<1>2. /\ s \in Used(rt'[x]) <=> s \in Used(rt[x])
      /\ s \in Used(rt[x]) => rt'[x].slots[s] = rt[x].slots[s]
  <2>1. CASE x # u
    BY <2>1 DEF OnlySlot
  <2>2. CASE x = u
    BY <2>2 DEF OnlySlot
  <2> QED BY <2>1, <2>2
<1>3. \A g : Has(x, s, it, g)' <=> Has(x, s, it, g)
  BY <1>1, <1>2 DEF Has, HasIn
<1>4. s \in SlotNos => (Counts(x, s, it)' <=> Counts(x, s, it))
  BY <1>1, <1>2 DEF Counts, CountsIn
<1> QED BY <1>3, <1>4

(* A slot that has no more open than before.                                *)
LEMMA SlotOpensNothing ==
    ASSUME FullInv, UNCHANGED <<gen, live>>, NEW u, NEW r, OnlySlot(u, r),
           \A it, g : Has(u, r, it, g)' => Has(u, r, it, g)
    PROVE  OpenInv' /\ (OnceInv => OnceInv')
<1>1. \A x \in Tasks : \A s, it, g : Has(x, s, it, g)' => Has(x, s, it, g)
  BY OtherSlots
<1> QED BY <1>1, NothingOpened DEF FullInv

(* A slot that counts for the item number k as before, or for a dead one.   *)
LEMMA SlotCountsSame ==
    ASSUME FullInv, Inv', UNCHANGED <<gen, live, lost, n_OpenCount>>,
           NEW u, NEW r, OnlySlot(u, r),
           \A it : LookupItem(it) => (Counts(u, r, it)' <=> Counts(u, r, it))
    PROVE  CountInv'
<1>1. \A it : LookupItem(it) =>
          \A x \in Tasks : \A s \in SlotNos : Counts(x, s, it)' <=> Counts(x, s, it)
  BY OtherSlots
<1> QED BY <1>1, CountsKept DEF FullInv

\* Slot r of u comes to count for the number k, or counts for it no longer.
Comes(u, r, k) ==
    /\ ~Counts(u, r, k) /\ Counts(u, r, k)'
    /\ \A it : it # k => (Counts(u, r, it)' <=> Counts(u, r, it))
Goes(u, r, k) ==
    /\ Counts(u, r, k) /\ ~Counts(u, r, k)'
    /\ \A it : it # k => (Counts(u, r, it)' <=> Counts(u, r, it))

(* One slot comes or goes, and the item counts one open more or less.       *)
LEMMA SlotCounted ==
    ASSUME FullInv, Inv', UNCHANGED <<gen, live, lost>>, NEW u, NEW r, OnlySlot(u, r),
           NEW k, LookupItem(k),
           \/ /\ Comes(u, r, k)
              /\ n_OpenCount' = [n_OpenCount EXCEPT ![k[1]] = n_OpenCount[k[1]] + 1]
           \/ /\ Goes(u, r, k)
              /\ n_OpenCount' = [n_OpenCount EXCEPT ![k[1]] = n_OpenCount[k[1]] - 1]
    PROVE  CountInv'
<1> DEFINE i == k[1]
<1>1. /\ Inv /\ TypeInv /\ CountInv /\ i \in live /\ i \in Indices /\ k = Item(i)
      /\ \A j : Item(j)[1] = j
  BY DEF FullInv, Inv, TypeInv, LookupItem, Item
<1>2. n_OpenCount[i] \in Int /\ n_OpenCount \in [Indices -> Int] /\ lost[i] \in Nat
  BY <1>1 DEF TypeInv
<1> HIDE DEF i
<1>3. \A j \in Indices : j # i => n_OpenCount'[j] = n_OpenCount[j]
  BY <1>1, <1>2 DEF i
<1>4. ASSUME NEW j \in live, j # i
      PROVE  n_OpenCount'[j] = Cardinality(OpensOf(j)') + lost'[j]
  <2>1. PICK it : it = Item(j)
    OBVIOUS
  <2>2. it # k
    BY <1>1, <1>4, <2>1
  <2>3. \A x \in Tasks : \A s \in SlotNos : Counts(x, s, it)' <=> Counts(x, s, it)
    BY <2>2, OtherSlots DEF Comes, Goes
  <2>4. n_OpenCount'[j] = n_OpenCount[j]
    BY <1>1, <1>3, <1>4 DEF TypeInv
  <2> QED BY <1>1, <2>1, <2>3, <2>4, CountStays
<1>5. k = Item(i)'
  BY <1>1 DEF Item
<1>6. /\ OpensOf(i) = Counted(k) /\ OpensOf(i)' = Counted(k)'
      /\ IsFiniteSet(Counted(k)) /\ IsFiniteSet(Counted(k)')
      /\ Cardinality(Counted(k)) \in Nat /\ Cardinality(Counted(k)') \in Nat
  BY <1>1, <1>5, OpensOfIs, CountedFinite
<1>7. <<u, r>> \in Tasks \X SlotNos
  BY DEF OnlySlot
<1>8. \A x \in Tasks \X SlotNos : x # <<u, r>> => (x \in Counted(k)' <=> x \in Counted(k))
  <2> SUFFICES ASSUME NEW x \in Tasks \X SlotNos, x # <<u, r>>
               PROVE  Counts(x[1], x[2], k)' <=> Counts(x[1], x[2], k)
    BY DEF Counted
  <2>1. x[1] \in Tasks /\ x[2] \in SlotNos /\ (x[1] # u \/ x[2] # r)
    BY <1>7
  <2> QED BY <2>1, OtherSlots
<1>9. n_OpenCount'[i] = Cardinality(OpensOf(i)') + lost'[i]
  <2>1. CASE /\ Comes(u, r, k)
             /\ n_OpenCount' = [n_OpenCount EXCEPT ![k[1]] = n_OpenCount[k[1]] + 1]
    <3>1. <<u, r>> \notin Counted(k) /\ <<u, r>> \in Counted(k)'
      BY <1>7, <2>1 DEF Counted, Comes
    <3>2. Counted(k)' = Counted(k) \cup {<<u, r>>}
      BY <1>7, <1>8, <3>1, OpensOfIs
    <3>3. Cardinality(Counted(k)') = Cardinality(Counted(k)) + 1
      BY <1>6, <3>1, <3>2, FS_AddElement
    <3>4. n_OpenCount'[i] = n_OpenCount[i] + 1
      BY <1>1, <1>2, <2>1 DEF i
    <3> QED BY <1>1, <1>2, <1>6, <3>3, <3>4 DEF CountInv
  <2>2. CASE /\ Goes(u, r, k)
             /\ n_OpenCount' = [n_OpenCount EXCEPT ![k[1]] = n_OpenCount[k[1]] - 1]
    <3>1. <<u, r>> \in Counted(k) /\ <<u, r>> \notin Counted(k)'
      BY <1>7, <2>2 DEF Counted, Goes
    <3>2. Counted(k)' = Counted(k) \ {<<u, r>>}
      BY <1>7, <1>8, <3>1, OpensOfIs
    <3>3. Cardinality(Counted(k)') = Cardinality(Counted(k)) - 1
      BY <1>6, <3>1, <3>2, FS_RemoveElement
    <3>4. n_OpenCount'[i] = n_OpenCount[i] - 1
      BY <1>1, <1>2, <2>2 DEF i
    <3> QED BY <1>1, <1>2, <1>6, <3>3, <3>4 DEF CountInv
  <2> QED BY <2>1, <2>2
<1>10. \A j \in live' : n_OpenCount'[j] = Cardinality(OpensOf(j)') + lost'[j]
  BY <1>4, <1>9
<1>11. \A j \in Indices \ live' : n_OpenCount'[j] \in Nat /\ lost'[j] = 0
  BY <1>1, <1>3 DEF CountInv
<1> QED BY <1>1, <1>10, <1>11, CountsRight DEF Inv, TypeInv

(* A step that leaves the items, the calls and what is open as they are.    *)
LEMMA OpensStay ==
    ASSUME FullInv, Inv', UNCHANGED <<gen, live, n_OpenCount, lost, call>>,
           \A x \in Tasks : \A r :
               /\ r \in Used(rt[x]) /\ rt[x].slots[r].opened = TRUE =>
                      r \in Used(rt'[x]) /\ rt'[x].slots[r] = rt[x].slots[r]
               /\ r \in Used(rt'[x]) /\ rt'[x].slots[r].opened = TRUE =>
                      r \in Used(rt[x]) /\ rt'[x].slots[r] = rt[x].slots[r]
    PROVE  Kept
<1>1. \A x \in Tasks : \A s, it, g : Has(x, s, it, g)' => Has(x, s, it, g)
  BY DEF Has, HasIn
<1>2. \A it : \A x \in Tasks : \A s \in SlotNos : Counts(x, s, it)' <=> Counts(x, s, it)
  BY DEF Counts, CountsIn
<1>3. OpenInv' /\ (OnceInv => OnceInv')
  BY <1>1, NothingOpened DEF FullInv
<1>4. CountInv'
  BY <1>2, CountsKept DEF FullInv
<1> QED BY <1>3, <1>4 DEF FullInv, Kept

(* Increase keeps what is said of opens and their count.                    *)
LEMMA IncreaseFull ==
    ASSUME FullInv, NEW t \in Tasks, NEW n \in 1 .. MaxSlots, IncreaseResourceTable(t, n)
    PROVE  Kept
<1>1. Inv' /\ SameUsed(rt[t], rt'[t]) /\ \A x \in Tasks : x # t => rt'[x] = rt[x]
  BY IncreaseInv, IncreaseEffect DEF FullInv
<1>2. UNCHANGED <<gen, live, n_OpenCount, lost, call>>
  BY DEF IncreaseResourceTable
<1>3. \A x \in Tasks : SameUsed(rt[x], rt'[x])
  BY <1>1 DEF SameUsed
<1> QED BY <1>1, <1>2, <1>3, OpensStay DEF SameUsed

(* Exits keeps what is said of opens and their count.                       *)
LEMMA ExitsFull ==
    ASSUME FullInv, NEW t \in Tasks, Exits(t)
    PROVE  Kept
<1>1. UNCHANGED <<gen, live, n_OpenCount, lost, call, rt>> /\ Inv'
  BY ExitsInv DEF Exits, FullInv
<1> QED BY <1>1, OpensStay

(* SetItemOwner keeps what is said of opens and their count.                *)
LEMMA SetItemOwnerFull ==
    ASSUME FullInv, NEW t \in Tasks, NEW i \in Indices, NEW u \in Tasks,
           SetItemOwner(t, i, u)
    PROVE  Kept
<1>1. /\ Inv' /\ \/ Moved(i, u, SlotFor(rt[u]))
                 \/ \A x \in Tasks : SameUsed(rt[x], rt'[x])
  BY SetItemOwnerInv, SetItemOwnerEffect DEF FullInv
<1>2. UNCHANGED <<gen, live, n_OpenCount, lost, call>>
  BY DEF SetItemOwner
<1>3. CASE \A x \in Tasks : SameUsed(rt[x], rt'[x])
  BY <1>1, <1>2, <1>3, OpensStay DEF SameUsed
<1>4. CASE Moved(i, u, SlotFor(rt[u]))
  <2>1. Ref(Item(i), FALSE).opened = FALSE
    BY DEF Ref
  <2>2. ASSUME NEW x \in Tasks, NEW r
        PROVE  /\ r \in Used(rt[x]) /\ rt[x].slots[r].opened = TRUE =>
                      r \in Used(rt'[x]) /\ rt'[x].slots[r] = rt[x].slots[r]
               /\ r \in Used(rt'[x]) /\ rt'[x].slots[r].opened = TRUE =>
                      r \in Used(rt[x]) /\ rt'[x].slots[r] = rt[x].slots[r]
    <3>1. rt[x].slots[r].opened = TRUE => r \notin OwnSlots(x, i)
      BY DEF OwnSlots, Owns
    <3> QED BY <1>4, <2>1, <3>1 DEF Moved
  <2> QED BY <1>1, <1>2, <2>2, OpensStay
<1> QED BY <1>1, <1>3, <1>4

(* CreateItem keeps what is said of opens and their count.                  *)
LEMMA CreateItemFull ==
    ASSUME FullInv, NEW t \in Tasks, CreateItem(t)
    PROVE  Kept
<1>0. PICK i, s, e, k : /\ i = Head(Free) /\ s = SlotFor(rt[t])
                        /\ e = Ref(Item(i), FALSE) /\ k = Item(i)
  OBVIOUS
<1>1. /\ Inv /\ Inv' /\ i \in Indices \ live /\ Plus(rt[t], rt'[t], s, e)
      /\ \A x \in Tasks : x # t => rt'[x] = rt[x]
  BY <1>0, CreateItemInv, CreateItemEffect DEF FullInv
<1>2. /\ gen' = gen /\ call' = call /\ lost' = lost /\ live' = live \cup {i}
      /\ n_OpenCount' = [n_OpenCount EXCEPT ![i] = 0]
  BY <1>0 DEF CreateItem
<1>3. e.opened = FALSE
  BY <1>0 DEF Ref
<1>4. /\ \A x \in Tasks : \A r, it, g : Has(x, r, it, g)' => Has(x, r, it, g)
      /\ \A x \in Tasks : \A r, it : Counts(x, r, it)' <=> Counts(x, r, it)
  BY <1>1, <1>2, <1>3 DEF Has, HasIn, Counts, CountsIn, Plus
<1>5. OpenInv' /\ (OnceInv => OnceInv')
  BY <1>2, <1>4, NothingOpened DEF FullInv
<1>6. /\ \A j \in Indices : j # i => n_OpenCount'[j] = n_OpenCount[j]
      /\ n_OpenCount'[i] = 0 /\ lost[i] = 0 /\ live \subseteq Indices
  BY <1>1, <1>2 DEF Inv, TypeInv, FullInv, CountInv
<1>7. ASSUME NEW j \in live
      PROVE  n_OpenCount'[j] = Cardinality(OpensOf(j)') + lost'[j]
  <2>1. PICK it : it = Item(j)
    OBVIOUS
  <2>2. n_OpenCount'[j] = n_OpenCount[j] /\ gen'[j] = gen[j] /\ lost'[j] = lost[j]
    BY <1>1, <1>2, <1>6
  <2> QED BY <1>4, <2>1, <2>2, CountStays DEF FullInv
<1>8. n_OpenCount'[i] = Cardinality(OpensOf(i)') + lost'[i]
  <2>1. ASSUME NEW x \in Tasks, NEW r \in SlotNos PROVE ~Counts(x, r, k)
    <3>1. SUFFICES ASSUME Counts(x, r, k) PROVE FALSE
      OBVIOUS
    <3>2. PICK g : Has(x, r, k, g)
      BY <3>1 DEF Counts, CountsIn, Has, HasIn
    <3>3. g \in BOOLEAN /\ k[1] = i
      BY <1>0, <1>1, <3>2, HasIs DEF Item
    <3>4. g = FALSE
      BY <1>0, <1>1, <3>2, <3>3, LiveNumbers DEF FullInv
    <3> QED BY <1>1, <3>2, <3>3, <3>4 DEF FullInv, OpenInv
  <2>2. k = Item(i)'
    BY <1>0, <1>2 DEF Item
  <2>3. Counted(k)' = {}
    BY <1>4, <2>1 DEF Counted
  <2>4. Cardinality(OpensOf(i)') = 0
    <3>1. OpensOf(i)' = {}
      BY <2>2, <2>3, OpensOfIs
    <3> QED BY <3>1, FS_EmptySet
  <2> QED BY <1>2, <1>6, <2>4
<1>9. CountInv'
  <2>1. \A j \in live' : n_OpenCount'[j] = Cardinality(OpensOf(j)') + lost'[j]
    BY <1>2, <1>7, <1>8
  <2>2. \A j \in Indices \ live' : n_OpenCount'[j] \in Nat /\ lost'[j] = 0
    BY <1>1, <1>2, <1>6 DEF FullInv, CountInv
  <2> QED BY <1>1, <2>1, <2>2, CountsRight DEF Inv, TypeInv
<1> QED BY <1>1, <1>5, <1>9 DEF FullInv, Kept

(* The opens of the task are lost, and counted as lost.                     *)
LEMMA FreeTaskFull ==
    ASSUME FullInv, NEW t \in Tasks, FreeTask(t)
    PROVE  Kept
<1>1. /\ Inv /\ Inv' /\ Used(rt'[t]) = {} /\ \A s \in SlotNos : call[t][s] = NoCall
      /\ \A x \in Tasks : x # t => rt'[x] = rt[x]
  BY FreeTaskInv, FreeTaskEffect DEF FullInv
<1>2. /\ UNCHANGED <<gen, live, n_OpenCount, call>> /\ live \subseteq Indices
      /\ lost' = [i \in Indices |-> IF i \in live THEN lost[i] + Cardinality(OpenSlots(t, i))
                                                  ELSE lost[i]]
  BY <1>1 DEF FreeTask, Inv, TypeInv
<1>3. \A x \in Tasks : \A s, it, g : Has(x, s, it, g)' => Has(x, s, it, g)
  BY <1>1, <1>2 DEF Has, HasIn
<1>4. OpenInv' /\ (OnceInv => OnceInv')
  BY <1>2, <1>3, NothingOpened DEF FullInv
<1>5. ASSUME NEW j \in live
      PROVE  n_OpenCount'[j] = Cardinality(OpensOf(j)') + lost'[j]
  <2>1. PICK it, S : it = Item(j) /\ S = OpenSlots(t, j)
    OBVIOUS
  <2>2. S \subseteq SlotNos /\ IsFiniteSet(S) /\ Cardinality(S) \in Nat
    BY <2>1, SlotsFinite, Zenon DEF OpenSlots
  <2>3. /\ OpensOf(j) = Counted(it) /\ OpensOf(j)' = Counted(it)'
        /\ Counted(it)' \subseteq Tasks \X SlotNos /\ Counted(it) \subseteq Tasks \X SlotNos
    <3>1. it = Item(j)'
      BY <1>2, <2>1 DEF Item
    <3> QED BY <2>1, <3>1, OpensOfIs
  <2>4. \A x \in Tasks \X SlotNos : x \in Counted(it)' <=> x \in Counted(it) /\ x[1] # t
    <3>1. \A s \in SlotNos : ~Counts(t, s, it)'
      BY <1>1, <1>2 DEF Counts, CountsIn
    <3>2. \A x \in Tasks : x # t =>
              \A s \in SlotNos : Counts(x, s, it)' <=> Counts(x, s, it)
      BY <1>1, <1>2 DEF Counts, CountsIn
    <3> QED BY <3>1, <3>2 DEF Counted
  <2>5. \A s \in SlotNos : <<t, s>> \in Counted(it) <=> s \in S
    BY <2>1 DEF Counted, Counts, CountsIn, OpenSlots, SlotsOf, Used
  <2>6. Counted(it) = Counted(it)' \cup ({t} \X S) /\ Counted(it)' \cap ({t} \X S) = {}
    BY <2>2, <2>3, <2>4, <2>5
  <2>7. /\ IsFiniteSet({t} \X S) /\ Cardinality({t} \X S) = Cardinality(S)
    <3>1. IsFiniteSet({t}) /\ Cardinality({t}) = 1
      BY FS_Singleton
    <3> QED BY <2>2, <3>1, FS_Product
  <2>8. IsFiniteSet(Counted(it)') /\ Cardinality(Counted(it)') \in Nat
    BY <2>3, CountedFinite
  <2>9. Cardinality(Counted(it)) = Cardinality(Counted(it)') + Cardinality(S)
    <3>1. PICK A, B : A = Counted(it)' /\ B = {t} \X S
      OBVIOUS
    <3>2. Cardinality(A \cup B) = Cardinality(A) + Cardinality(B) - Cardinality(A \cap B)
      BY <2>7, <2>8, <3>1, FS_Union
    <3>3. Cardinality(A \cap B) = 0
      BY <2>6, <3>1, FS_EmptySet
    <3> QED BY <2>2, <2>6, <2>7, <2>8, <3>1, <3>2, <3>3
  <2>10. lost'[j] = lost[j] + Cardinality(S) /\ lost[j] \in Nat
    BY <1>1, <1>2, <2>1 DEF Inv, TypeInv
  <2>11. n_OpenCount'[j] = Cardinality(Counted(it)) + lost[j]
    BY <1>2, <2>3 DEF FullInv, CountInv
  <2> QED BY <2>2, <2>3, <2>8, <2>9, <2>10, <2>11
<1>6. \A j \in Indices \ live' : n_OpenCount'[j] \in Nat /\ lost'[j] = 0
  BY <1>2 DEF FullInv, CountInv
<1>7. CountInv'
  <2>1. live' \subseteq Indices /\ TypeInv'
    BY <1>1 DEF Inv, TypeInv
  <2> QED BY <1>2, <1>5, <1>6, <2>1, CountsRight
<1> QED BY <1>1, <1>4, <1>7 DEF FullInv, Kept

(* A call, or the entry, of one slot.                                       *)
LEMMA OneSlot ==
    ASSUME NEW t \in Tasks, NEW s \in SlotNos,
           UNCHANGED call \/ \E c : OneCall(t, s, c),
           \A x \in Tasks : x # t => rt'[x] = rt[x],
           \/ SameUsed(rt[t], rt'[t])
           \/ Minus(rt[t], rt'[t], s)
           \/ \E e : Plus(rt[t], rt'[t], s, e)
    PROVE  OnlySlot(t, s)
<1>1. /\ \A r : r # s => (r \in Used(rt'[t]) <=> r \in Used(rt[t]))
      /\ \A r \in Used(rt[t]) : r # s => rt'[t].slots[r] = rt[t].slots[r]
  BY DEF SameUsed, Minus, Plus
<1>2. \A x \in Tasks : \A r \in SlotNos : x # t \/ r # s => call'[x][r] = call[x][r]
  BY DEF OneCall
<1> QED BY <1>1, <1>2 DEF OnlySlot

(* OpenItem keeps what is said of opens and their count.                    *)
LEMMA OpenItemFull ==
    ASSUME FullInv, NEW t \in Tasks, NEW i \in Indices, OpenItem(t, i)
    PROVE  Kept
<1>0. PICK s, k, c : s = SlotFor(rt[t]) /\ k = Item(i) /\ c = Call(Item(i), FALSE)
  OBVIOUS
<1>1. /\ Inv /\ Inv' /\ SameUsed(rt[t], rt'[t]) /\ \A x \in Tasks : x # t => rt'[x] = rt[x]
      /\ s \in SlotNos /\ s \notin Used(rt[t]) /\ call[t][s] = NoCall
      /\ OneCall(t, s, c) /\ c # NoCall
      /\ c.item = k /\ c.closing = FALSE /\ c.gone = FALSE
  BY <1>0, OpenItemInv, OpenItemEffect DEF FullInv
<1>2. /\ i \in live /\ UNCHANGED <<gen, live, lost>>
      /\ n_OpenCount' = [n_OpenCount EXCEPT ![i] = n_OpenCount[i] + 1]
      /\ ~OpensTwice => i \notin Opened(t)
  BY DEF OpenItem
<1>3. /\ k[1] = i /\ Item(k[1]) = k /\ LookupItem(k)
      /\ \A j : Item(j)' = Item(j)
  BY <1>0, <1>2 DEF Item, LookupItem
<1>4. OnlySlot(t, s)
  BY <1>1, OneSlot
<1>5. s \notin Used(rt'[t]) /\ call'[t][s] = c
  BY <1>1 DEF SameUsed, OneCall
<1>6. ASSUME NEW it, NEW g
      PROVE  ~Has(t, s, it, g) /\ (Has(t, s, it, g)' <=> it = k /\ g = FALSE)
  BY <1>1, <1>5 DEF Has, HasIn
<1>7. Comes(t, s, k)
  BY <1>1, <1>5 DEF Counts, CountsIn, Comes
<1>8. CountInv'
  BY <1>1, <1>2, <1>3, <1>4, <1>7, SlotCounted
<1>9. ASSUME NEW x \in Tasks, NEW r, NEW it, NEW g
      PROVE  Has(x, r, it, g)' <=>
                 Has(x, r, it, g) \/ (x = t /\ r = s /\ it = k /\ g = FALSE)
  <2>1. CASE x # t \/ r # s
    BY <1>4, <2>1, OtherSlots
  <2>2. CASE x = t /\ r = s
    BY <1>6, <2>2
  <2> QED BY <2>1, <2>2
<1>10. OpenInv'
  <2>1. ASSUME NEW x \in Tasks, NEW r, NEW it, NEW g, Has(x, r, it, g)'
        PROVE  /\ g = TRUE => it[2] < gen'[it[1]]
               /\ g = FALSE => it[1] \in live' /\ it = Item(it[1])'
    <3>1. CASE Has(x, r, it, g)
      BY <1>2, <1>3, <3>1 DEF FullInv, OpenInv
    <3>2. CASE it = k /\ g = FALSE
      BY <1>2, <1>3, <3>2
    <3>3. Has(x, r, it, g) \/ (x = t /\ r = s /\ it = k /\ g = FALSE)
      BY <1>9, <2>1
    <3> QED BY <3>1, <3>2, <3>3
  <2>2. \A x \in Tasks : \A r, it, g : Has(x, r, it, g)' =>
            /\ g = TRUE => it[2] < gen'[it[1]]
            /\ g = FALSE => it[1] \in live' /\ it = Item(it[1])'
    BY <2>1
  <2> QED BY <2>2 DEF OpenInv
<1>11. ASSUME NEW r, NEW it, NEW g, Has(t, r, it, g), ~OpensTwice
       PROVE  it[1] # i
  <2>1. CASE /\ r \in Used(rt[t]) /\ rt[t].slots[r].opened = TRUE
             /\ rt[t].slots[r].item = it
    <3>1. rt[t].slots[r] \in {f \in Range(rt[t].slots) : ~f.free /\ f.opened}
      BY <2>1 DEF Used, Range
    <3> QED BY <1>2, <1>11, <2>1, <3>1 DEF Opened
  <2>2. CASE r \in SlotNos /\ call[t][r] # NoCall /\ call[t][r].item = it
    <3>1. r \in UnderWay(t)
      BY <2>2 DEF UnderWay
    <3> QED BY <1>2, <1>11, <2>2, <3>1 DEF Opened
  <2> QED BY <1>11, <2>1, <2>2 DEF Has, HasIn
<1>12. ASSUME OnceInv, ~OpensTwice PROVE OnceInv'
  <2>1. ASSUME NEW x \in Tasks, NEW r, NEW q, NEW it, NEW jt, NEW g, NEW h,
               Has(x, r, it, g)', Has(x, q, jt, h)', it[1] = jt[1]
        PROVE  r = q
    <3>1. Has(x, r, it, g) \/ (x = t /\ r = s /\ it = k /\ g = FALSE)
      BY <1>9, <2>1
    <3>5. Has(x, q, jt, h) \/ (x = t /\ q = s /\ jt = k /\ h = FALSE)
      BY <1>9, <2>1
    <3>2. CASE Has(x, r, it, g) /\ Has(x, q, jt, h)
      BY <1>12, <2>1, <3>2 DEF OnceInv
    <3>3. CASE x = t /\ r = s /\ it = k
      BY <1>3, <1>11, <1>12, <2>1, <3>5, <3>3
    <3>4. CASE x = t /\ q = s /\ jt = k
      BY <1>3, <1>11, <1>12, <2>1, <3>1, <3>4
    <3> QED BY <3>1, <3>2, <3>3, <3>4, <3>5
  <2>2. \A x \in Tasks : \A r, q, it, jt, g, h :
            Has(x, r, it, g)' /\ Has(x, q, jt, h)' /\ it[1] = jt[1] => r = q
    BY <2>1
  <2> QED BY <2>2 DEF OnceInv
<1> QED BY <1>1, <1>8, <1>10, <1>12 DEF FullInv, Kept

(* OpenItemReturns keeps what is said of opens and their count.             *)
LEMMA OpenItemReturnsFull ==
    ASSUME FullInv, NEW t \in Tasks, NEW s \in SlotNos, OpenItemReturns(t, s)
    PROVE  Kept
<1>0. PICK c, k, g, e :
          /\ c = call[t][s] /\ k = c.item /\ g = c.gone
          /\ e = [Ref(call[t][s].item, TRUE) EXCEPT !.gone = call[t][s].gone]
  OBVIOUS
<1>1. /\ Inv /\ Inv' /\ OneCall(t, s, NoCall) /\ s \notin Used(rt[t])
      /\ c # NoCall /\ c.closing = FALSE /\ c \in CallRecords
      /\ \A x \in Tasks : x # t => rt'[x] = rt[x]
      /\ e.item = k /\ e.opened = TRUE /\ e.gone = g
      /\ \/ Plus(rt[t], rt'[t], s, e) /\ UNCHANGED n_OpenCount
         \/ SameUsed(rt[t], rt'[t]) /\ n_OpenCount' = CountBack(c, -1)
  BY <1>0, OpenItemReturnsInv, OpenItemReturnsEffect DEF FullInv, Ref
<1>2. UNCHANGED <<gen, live, lost>>
  BY DEF OpenItemReturns
<1>3. OnlySlot(t, s) /\ call'[t][s] = NoCall
  BY <1>1, OneSlot DEF OneCall
<1>4. ASSUME NEW it, NEW h
      PROVE  /\ Has(t, s, it, h) <=> it = k /\ h = g
             /\ Counts(t, s, it) <=> it = k
  BY <1>0, <1>1 DEF Has, HasIn, Counts, CountsIn
<1>5. g \in BOOLEAN /\ (g = TRUE => ~LookupItem(k)) /\ (g = FALSE => LookupItem(k))
  BY <1>0, <1>1, <1>4, LiveNumbers DEF FullInv, CallRecords
<1>6. CASE Plus(rt[t], rt'[t], s, e) /\ UNCHANGED n_OpenCount
  <2>1. ASSUME NEW it, NEW h
        PROVE  /\ Has(t, s, it, h)' <=> it = k /\ h = g
               /\ Counts(t, s, it)' <=> it = k
    BY <1>1, <1>3, <1>6 DEF Has, HasIn, Counts, CountsIn, Plus
  <2>2. OpenInv' /\ (OnceInv => OnceInv')
    BY <1>2, <1>3, <1>4, <2>1, SlotOpensNothing
  <2>3. CountInv'
    BY <1>1, <1>2, <1>3, <1>4, <1>6, <2>1, SlotCountsSame
  <2> QED BY <1>1, <2>2, <2>3 DEF FullInv, Kept
<1>7. CASE SameUsed(rt[t], rt'[t]) /\ n_OpenCount' = CountBack(c, -1)
  <2>1. ASSUME NEW it, NEW h
        PROVE  ~Has(t, s, it, h)' /\ ~Counts(t, s, it)'
    BY <1>1, <1>3, <1>7 DEF Has, HasIn, Counts, CountsIn, SameUsed
  <2>2. OpenInv' /\ (OnceInv => OnceInv')
    BY <1>2, <1>3, <2>1, SlotOpensNothing
  <2>3. CASE g = TRUE
    <3>1. UNCHANGED n_OpenCount
      BY <1>0, <1>7, <2>3 DEF CountBack
    <3>2. \A it : LookupItem(it) => (Counts(t, s, it)' <=> Counts(t, s, it))
      BY <1>4, <1>5, <2>1, <2>3
    <3>3. CountInv'
      BY <1>1, <1>2, <1>3, <3>1, <3>2, SlotCountsSame
    <3> QED BY <1>1, <2>2, <3>3 DEF FullInv, Kept
  <2>4. CASE g = FALSE
    <3>1. n_OpenCount' = [n_OpenCount EXCEPT ![k[1]] = n_OpenCount[k[1]] - 1]
      <4>1. k[1] \in Indices /\ n_OpenCount \in [Indices -> Int]
        BY <1>1, <1>5, <2>4 DEF LookupItem, Inv, TypeInv
      <4> QED BY <1>0, <1>7, <2>4, <4>1 DEF CountBack
    <3>2. Goes(t, s, k)
      BY <1>4, <2>1 DEF Goes
    <3>3. CountInv'
      BY <1>1, <1>2, <1>3, <1>5, <2>4, <3>1, <3>2, SlotCounted
    <3> QED BY <1>1, <2>2, <3>3 DEF FullInv, Kept
  <2> QED BY <1>5, <2>3, <2>4
<1> QED BY <1>1, <1>6, <1>7

(* Close keeps what is said of opens and their count.                       *)
LEMMA CloseFull ==
    ASSUME FullInv, NEW t \in Tasks, NEW it, NEW s, HasOpen(t, s, it),
           internalCloseItemSlot(t, it, s)
    PROVE  Kept
<1>0. PICK g : g = rt[t].slots[s].gone
  OBVIOUS
<1>1. /\ Inv /\ Inv' /\ \A x \in Tasks : x # t => rt'[x] = rt[x]
      /\ it \in Numbers /\ it[1] \in Indices /\ s \in SlotNos /\ call[t][s] = NoCall
      /\ \/ /\ ~LookupItem(it) /\ Minus(rt[t], rt'[t], s)
            /\ UNCHANGED <<call, n_OpenCount>>
         \/ /\ LookupItem(it) /\ rt' = rt
            /\ OneCall(t, s, Call(it, TRUE)) /\ Call(it, TRUE) # NoCall
            /\ n_OpenCount' = [n_OpenCount EXCEPT ![it[1]] = n_OpenCount[it[1]] - 1]
  BY CloseInv, CloseEffect DEF FullInv
<1>2. UNCHANGED <<gen, live, lost>>
  BY DEF internalCloseItemSlot
<1>3. /\ s \in Used(rt[t]) /\ rt[t].slots[s].item = it
      /\ rt[t].slots[s].opened = TRUE /\ g \in BOOLEAN
  BY <1>0, <1>1, UsedIs DEF HasOpen, Inv
<1>4. ASSUME NEW jt, NEW h
      PROVE  /\ Has(t, s, jt, h) <=> jt = it /\ h = g
             /\ Counts(t, s, jt) <=> jt = it
  BY <1>0, <1>1, <1>3 DEF Has, HasIn, Counts, CountsIn
<1>5. LookupItem(it) <=> g = FALSE
  BY <1>1, <1>3, <1>4, LiveNumbers DEF FullInv
<1>6. CASE /\ ~LookupItem(it) /\ Minus(rt[t], rt'[t], s)
           /\ UNCHANGED <<call, n_OpenCount>>
  <2>1. OnlySlot(t, s)
    BY <1>1, <1>6, OneSlot
  <2>2. ASSUME NEW jt, NEW h
        PROVE  ~Has(t, s, jt, h)' /\ ~Counts(t, s, jt)'
    BY <1>1, <1>6 DEF Has, HasIn, Counts, CountsIn, Minus
  <2>3. OpenInv' /\ (OnceInv => OnceInv')
    BY <1>2, <2>1, <2>2, SlotOpensNothing
  <2>4. CountInv'
    BY <1>1, <1>2, <1>4, <1>6, <2>1, <2>2, SlotCountsSame
  <2> QED BY <1>1, <2>3, <2>4 DEF FullInv, Kept
<1>7. CASE /\ LookupItem(it) /\ rt' = rt
           /\ OneCall(t, s, Call(it, TRUE)) /\ Call(it, TRUE) # NoCall
           /\ n_OpenCount' = [n_OpenCount EXCEPT ![it[1]] = n_OpenCount[it[1]] - 1]
  <2>1. OnlySlot(t, s)
    BY <1>1, <1>7, OneSlot DEF SameUsed
  <2>2. PICK d : d = call'[t][s]
    OBVIOUS
  <2>3. d # NoCall /\ d.item = it /\ d.closing = TRUE /\ d.gone = FALSE
    BY <1>1, <1>7, <2>2, NewCallIs DEF OneCall
  <2>4. ASSUME NEW jt, NEW h
        PROVE  /\ Has(t, s, jt, h)' <=> jt = it /\ h = g
               /\ ~Counts(t, s, jt)'
    BY <1>0, <1>1, <1>3, <1>5, <1>7, <2>2, <2>3 DEF Has, HasIn, Counts, CountsIn
  <2>5. OpenInv' /\ (OnceInv => OnceInv')
    BY <1>2, <1>4, <2>1, <2>4, SlotOpensNothing
  <2>6. Goes(t, s, it)
    BY <1>4, <2>4 DEF Goes
  <2>7. CountInv'
    BY <1>1, <1>2, <1>7, <2>1, <2>6, SlotCounted
  <2> QED BY <1>1, <2>5, <2>7 DEF FullInv, Kept
<1> QED BY <1>1, <1>6, <1>7

(* CloseItemReturns keeps what is said of opens and their count.            *)
LEMMA CloseItemReturnsFull ==
    ASSUME FullInv, NEW t \in Tasks, NEW s \in SlotNos, CloseItemReturns(t, s)
    PROVE  Kept
<1>0. PICK c, k, g, h : /\ c = call[t][s] /\ k = c.item /\ g = c.gone
                        /\ h = rt[t].slots[s].gone
  OBVIOUS
<1>1. /\ Inv /\ Inv' /\ OneCall(t, s, NoCall)
      /\ c # NoCall /\ c.closing = TRUE /\ c \in CallRecords /\ HasOpen(t, s, k)
      /\ \A x \in Tasks : x # t => rt'[x] = rt[x]
      /\ \/ Minus(rt[t], rt'[t], s) /\ UNCHANGED n_OpenCount
         \/ rt' = rt /\ n_OpenCount' = CountBack(c, 1)
  BY <1>0, CloseItemReturnsInv, CloseItemReturnsEffect DEF FullInv
<1>2. UNCHANGED <<gen, live, lost>>
  BY DEF CloseItemReturns
<1>3. /\ s \in Used(rt[t]) /\ rt[t].slots[s].item = k /\ rt[t].slots[s].opened = TRUE
      /\ h \in BOOLEAN /\ g \in BOOLEAN
  BY <1>0, <1>1, UsedIs DEF HasOpen, Inv, CallRecords
<1>4. OnlySlot(t, s) /\ call'[t][s] = NoCall
  BY <1>1, OneSlot DEF OneCall, SameUsed
<1>5. ASSUME NEW it, NEW f
      PROVE  /\ Has(t, s, it, f) <=> it = k /\ (f = g \/ f = h)
             /\ ~Counts(t, s, it)
  BY <1>0, <1>1, <1>3 DEF Has, HasIn, Counts, CountsIn
<1>6. /\ g = TRUE => ~LookupItem(k)
      /\ g = FALSE => LookupItem(k)
  BY <1>1, <1>5, LiveNumbers DEF FullInv
<1>7. CASE Minus(rt[t], rt'[t], s) /\ UNCHANGED n_OpenCount
  <2>1. ASSUME NEW it, NEW f
        PROVE  ~Has(t, s, it, f)' /\ ~Counts(t, s, it)'
    BY <1>4, <1>7 DEF Has, HasIn, Counts, CountsIn, Minus
  <2>2. OpenInv' /\ (OnceInv => OnceInv')
    BY <1>2, <1>4, <2>1, SlotOpensNothing
  <2>3. CountInv'
    BY <1>1, <1>2, <1>4, <1>5, <1>7, <2>1, SlotCountsSame
  <2> QED BY <1>1, <2>2, <2>3 DEF FullInv, Kept
<1>8. CASE rt' = rt /\ n_OpenCount' = CountBack(c, 1)
  <2>1. ASSUME NEW it, NEW f
        PROVE  /\ Has(t, s, it, f)' <=> it = k /\ f = h
               /\ Counts(t, s, it)' <=> it = k
    BY <1>0, <1>3, <1>4, <1>8 DEF Has, HasIn, Counts, CountsIn
  <2>2. OpenInv' /\ (OnceInv => OnceInv')
    BY <1>2, <1>4, <1>5, <2>1, SlotOpensNothing
  <2>3. CASE g = TRUE
    <3>1. UNCHANGED n_OpenCount
      BY <1>0, <1>8, <2>3 DEF CountBack
    <3>2. \A it : LookupItem(it) => (Counts(t, s, it)' <=> Counts(t, s, it))
      BY <1>5, <1>6, <2>1, <2>3
    <3>3. CountInv'
      BY <1>1, <1>2, <1>4, <3>1, <3>2, SlotCountsSame
    <3> QED BY <1>1, <2>2, <3>3 DEF FullInv, Kept
  <2>4. CASE g = FALSE
    <3>1. n_OpenCount' = [n_OpenCount EXCEPT ![k[1]] = n_OpenCount[k[1]] + 1]
      BY <1>0, <1>8, <2>4 DEF CountBack
    <3>2. Comes(t, s, k)
      BY <1>5, <2>1 DEF Comes
    <3>3. CountInv'
      BY <1>1, <1>2, <1>4, <1>6, <2>4, <3>1, <3>2, SlotCounted
    <3> QED BY <1>1, <2>2, <3>3 DEF FullInv, Kept
  <2> QED BY <1>3, <2>3, <2>4
<1> QED BY <1>1, <1>7, <1>8

\* What a slot has it had before, and what has the number k knows that it is gone.
Inherits(k) ==
    \A x \in Tasks : \A s, it, g : Has(x, s, it, g)' => \E h :
        /\ Has(x, s, it, h)
        /\ it = k => g = TRUE
        /\ it # k => g = h

\* The slots count for the items of other entries as before.
CountsElsewhere(i) ==
    \A x \in Tasks : \A s \in SlotNos : \A it : it[1] # i =>
        (Counts(x, s, it)' <=> Counts(x, s, it))

\* If the generations start again, no slot has a number of the entry.
NothingStays(i) ==
    NextGen(gen[i]) = 0 =>
        \A x \in Tasks : \A s, it, g : Has(x, s, it, g)' => it[1] # i

(* A step after which the item at i is not what it was.                     *)
LEMMA EntryLeft ==
    ASSUME FullInv, Inv', NEW i \in Indices, NEW k, k = Item(i), live' = live \ {i},
           gen'[i] = NextGen(gen[i]), \A j \in Indices : j # i => gen'[j] = gen[j],
           n_OpenCount'[i] \in Nat, lost'[i] = 0,
           \A j \in Indices : j # i =>
               n_OpenCount'[j] = n_OpenCount[j] /\ lost'[j] = lost[j],
           Inherits(k), CountsElsewhere(i), NothingStays(i)
    PROVE  Kept
<1>1. /\ Inv /\ OpenInv /\ CountInv
      /\ \A j \in Indices : j # i => Item(j)' = Item(j)
      /\ \A j : Item(j) = <<j, gen[j]>> /\ Item(j)[1] = j /\ Item(j)[2] = gen[j]
  BY DEF FullInv, Item
<1>2. ASSUME NEW x \in Tasks, NEW s, NEW it, NEW g, Has(x, s, it, g)'
      PROVE  /\ g = TRUE => it[2] < gen'[it[1]]
             /\ g = FALSE => it[1] \in live' /\ it = Item(it[1])'
  <2>1. PICK h : /\ Has(x, s, it, h)
                 /\ it = k => g = TRUE
                 /\ it # k => g = h
    BY <1>2 DEF Inherits
  <2>2. it \in Numbers /\ it[1] \in Indices
    BY <1>1, <2>1, HasIs
  <2>3. it[2] \in Nat /\ gen[i] \in Nat
    BY <1>1, <2>2, ItemTableAssumption DEF Numbers, Inv, TypeInv
  <2>4. CASE it[1] # i
    <3>1. it # Item(i) /\ gen'[it[1]] = gen[it[1]] /\ Item(it[1])' = Item(it[1])
      BY <1>1, <2>2, <2>4
    <3>2. Has(x, s, it, g)
      BY <2>1, <3>1
    <3> QED BY <1>1, <2>4, <3>1, <3>2 DEF OpenInv
  <2>5. CASE it[1] = i
    <3>1. NextGen(gen[i]) # 0
      BY <1>2, <2>5 DEF NothingStays
    <3>2. gen'[i] = gen[i] + 1
      BY <1>1, <3>1, NextGenIs DEF Inv, TypeInv
    <3>3. CASE it = Item(i)
      BY <1>1, <2>1, <2>3, <2>5, <3>2, <3>3
    <3>4. CASE it # Item(i)
      <4>1. Has(x, s, it, g)
        BY <2>1, <3>4
      <4>2. /\ g = TRUE => it[2] < gen[it[1]]
            /\ g = FALSE => it[1] \in live /\ it = Item(it[1])
        BY <1>1, <4>1 DEF OpenInv
      <4>3. it[2] < gen[i] => it[2] < gen'[i]
        BY <2>3, <3>2
      <4> QED BY <2>5, <3>4, <4>2, <4>3
    <3> QED BY <3>3, <3>4
  <2> QED BY <2>4, <2>5
<1>3. ASSUME OnceInv PROVE OnceInv'
  <2>1. ASSUME NEW x \in Tasks, NEW s, NEW r, NEW it, NEW jt, NEW g, NEW h,
               Has(x, s, it, g)', Has(x, r, jt, h)', it[1] = jt[1]
        PROVE  s = r
    <3>1. (\E f : Has(x, s, it, f)) /\ \E f : Has(x, r, jt, f)
      BY <2>1 DEF Inherits
    <3> QED BY <1>3, <2>1, <3>1 DEF OnceInv
  <2>2. \A x \in Tasks : \A s, r, it, jt, g, h :
            Has(x, s, it, g)' /\ Has(x, r, jt, h)' /\ it[1] = jt[1] => s = r
    BY <2>1
  <2> QED BY <2>2 DEF OnceInv
<1>4. OpenInv'
  <2>1. \A x \in Tasks : \A s, it, g : Has(x, s, it, g)' =>
            /\ g = TRUE => it[2] < gen'[it[1]]
            /\ g = FALSE => it[1] \in live' /\ it = Item(it[1])'
    BY <1>2
  <2> QED BY <2>1 DEF OpenInv
<1>5. ASSUME NEW j \in live'
      PROVE  n_OpenCount'[j] = Cardinality(OpensOf(j)') + lost'[j]
  <2>1. j \in live /\ j \in Indices /\ j # i
    BY <1>1, <1>5 DEF Inv, TypeInv
  <2>2. PICK it : it = Item(j)
    OBVIOUS
  <2>3. \A x \in Tasks : \A s \in SlotNos : Counts(x, s, it)' <=> Counts(x, s, it)
    BY <1>1, <2>1, <2>2 DEF CountsElsewhere
  <2>4. gen'[j] = gen[j] /\ n_OpenCount'[j] = n_OpenCount[j] /\ lost'[j] = lost[j]
    BY <2>1
  <2> QED BY <1>1, <2>1, <2>2, <2>3, <2>4, CountStays
<1>6. CountInv'
  <2>1. \A j \in Indices \ live' : n_OpenCount'[j] \in Nat /\ lost'[j] = 0
    BY <1>1 DEF CountInv
  <2>2. TypeInv' /\ live' \subseteq Indices
    BY <1>1 DEF Inv, TypeInv
  <2> QED BY <1>5, <2>1, <2>2, CountsRight
<1> QED BY <1>3, <1>4, <1>6 DEF FullInv, Kept

\* The slots that have a number of index i open.
OpenAt(t, i) ==
    {s \in Used(rt[t]) : rt[t].slots[s].opened /\ rt[t].slots[s].item[1] = i}

\* No task has two numbers open of an entry in its last generation.
LastOpensAreSingle ==
    \A i \in Indices : NextGen(gen[i]) = 0 =>
        \A t \in Tasks : \A s, r \in OpenAt(t, i) : s = r

(* What is left of an index when its generations start again.               *)
LEMMA NothingLeft ==
    ASSUME Inv, LastOpensAreSingle, ~WrapInCalls, NEW i \in Indices, CallsAreShort(i),
           NextGen(gen[i]) = 0, NEW x \in Tasks
    PROVE  /\ \A s \in SlotNos : call[x][s] # NoCall => call[x][s].item[1] # i
           /\ state[x] = "dead" => Used(rt[x]) = {}
           /\ \A s, r \in SlotsAt(rt[x], i) \ OwnSlots(x, i) : s = r
<1>1. ASSUME NEW s \in SlotsAt(rt[x], i) \ OwnSlots(x, i)
      PROVE  s \in OpenAt(x, i)
  <2>1. s \in Used(rt[x]) /\ rt[x].slots[s].item[1] = i /\ ~Owns(x, s, i)
    BY DEF SlotsAt, OwnSlots
  <2>2. rt[x].slots[s].opened
    BY <2>1 DEF Owns
  <2> QED BY <2>1, <2>2 DEF OpenAt
<1> QED BY <1>1 DEF LastOpensAreSingle, CallsAreShort, Inv, StateInv

(* CreateItemFails keeps what is said of opens and their count.             *)
LEMMA CreateItemFailsFull ==
    ASSUME LowEntriesAreYoung, LastOpensAreSingle, ~WrapInCalls, FullInv,
           NEW t \in Tasks, CreateItemFails(t)
    PROVE  Kept
<1>0. PICK i : i = Head(Free)
  OBVIOUS
<1>1. /\ Inv /\ Inv' /\ i \in Indices \ live
      /\ gen'[i] = NextGen(gen[i])
      /\ \A j \in Indices : j # i => gen'[j] = gen[j]
      /\ \A x \in Tasks : Less(rt[x], rt'[x], SlotsAt(rt[x], i))
      /\ NextGen(gen[i]) = 0 => \A x \in Tasks :
             state[x] # "dead" /\ (\A s, r \in SlotsAt(rt[x], i) : s = r) =>
                 Used(rt'[x]) = Used(rt[x]) \ SlotsAt(rt[x], i)
      /\ CallsAreShort(i)
  BY <1>0, CreateItemFailsInv, CreateItemFailsEffect DEF FullInv
<1>2. UNCHANGED <<live, n_OpenCount, lost, call>>
  BY DEF CreateItemFails
<1>3. \A x \in Tasks : OwnSlots(x, i) = {}
  BY <1>1 DEF OwnSlots, Inv, OwnInv
<1>4. ASSUME NEW x \in Tasks, NEW s, NEW it, NEW g
      PROVE  Has(x, s, it, g)' => Has(x, s, it, g)
  <2>1. Less(rt[x], rt'[x], SlotsAt(rt[x], i))
    BY <1>1
  <2> QED BY <1>2, <2>1 DEF Has, HasIn, Less, SlotsAt
<1>5. ASSUME NEW x \in Tasks, NEW s \in SlotNos, NEW it, it[1] # i
      PROVE  Counts(x, s, it)' <=> Counts(x, s, it)
  <2>1. Less(rt[x], rt'[x], SlotsAt(rt[x], i))
    BY <1>1
  <2> QED BY <1>2, <1>5, <2>1 DEF Counts, CountsIn, Less, SlotsAt
<1>6. ASSUME NEW x \in Tasks, NEW s, NEW it, NEW g, Has(x, s, it, g)
      PROVE  it # Item(i)
  <2>1. Item(i)[1] = i
    BY DEF Item
  <2>2. g = TRUE => it # Item(i)
    BY <1>1, <1>6, LiveNumbers DEF FullInv
  <2>3. g = FALSE => it[1] \in live
    BY <1>6 DEF FullInv, OpenInv
  <2>4. g \in BOOLEAN
    BY <1>1, <1>6, HasIs
  <2> QED BY <1>1, <2>1, <2>2, <2>3, <2>4
<1>7. ASSUME NextGen(gen[i]) = 0, NEW x \in Tasks, NEW s, NEW it, NEW g
      PROVE  Has(x, s, it, g)' => it[1] # i
  <2>1. /\ \A r \in SlotNos : call[x][r] # NoCall => call[x][r].item[1] # i
        /\ state[x] = "dead" => Used(rt[x]) = {}
        /\ \A q, r \in SlotsAt(rt[x], i) : q = r
    BY <1>1, <1>3, <1>7, NothingLeft
  <2>2. ASSUME s \in Used(rt'[x]), rt'[x].slots[s].item = it
        PROVE  it[1] # i
    <3>1. /\ Used(rt'[x]) \subseteq Used(rt[x]) /\ rt'[x].slots[s] = rt[x].slots[s]
      BY <1>1, <2>2 DEF Less
    <3>2. Used(rt'[x]) = Used(rt[x]) \ SlotsAt(rt[x], i)
      BY <1>1, <1>7, <2>1, <2>2, <3>1
    <3> QED BY <2>2, <3>1, <3>2 DEF SlotsAt
  <2> QED BY <1>2, <2>1, <2>2 DEF Has, HasIn
<1>8. /\ live' = live \ {i} /\ n_OpenCount'[i] \in Nat /\ lost'[i] = 0
      /\ \A j \in Indices : j # i => n_OpenCount'[j] = n_OpenCount[j] /\ lost'[j] = lost[j]
  BY <1>1, <1>2 DEF FullInv, CountInv
<1>11. PICK k : k = Item(i)
  OBVIOUS
<1>9. Inherits(k)
  <2>1. \A x \in Tasks : \A s, it, g : Has(x, s, it, g) => it # k
    BY <1>6, <1>11
  <2> QED BY <1>4, <2>1 DEF Inherits
<1>10. NothingStays(i)
  BY <1>7 DEF NothingStays
<1>12. CountsElsewhere(i)
  BY <1>5 DEF CountsElsewhere
<1> QED BY <1>1, <1>8, <1>9, <1>10, <1>11, <1>12, EntryLeft

(* Delete keeps what is said of opens and their count.                      *)
LEMMA DeleteFull ==
    ASSUME LowEntriesAreYoung, LastOpensAreSingle, ~WrapInCalls, FullInv,
           NEW i \in live, realDeleteItem(i)
    PROVE  Kept
<1>1. /\ Inv /\ Inv' /\ i \in Indices
      /\ gen'[i] = NextGen(gen[i]) /\ \A j \in Indices : j # i => gen'[j] = gen[j]
      /\ \A x \in Tasks :
           /\ Used(rt'[x]) \subseteq Used(rt[x]) \ OwnSlots(x, i)
           /\ \A s \in Used(rt[x]) \ Used(rt'[x]) : rt[x].slots[s].item[1] = i
           /\ \A s \in Used(rt'[x]) :
                /\ rt[x].slots[s].item = Item(i) =>
                       rt'[x].slots[s] = [rt[x].slots[s] EXCEPT !.gone = TRUE]
                /\ rt[x].slots[s].item # Item(i) => rt'[x].slots[s] = rt[x].slots[s]
      /\ NextGen(gen[i]) = 0 => \A x \in Tasks :
             /\ state[x] # "dead"
             /\ \A s, r \in SlotsAt(rt[x], i) \ OwnSlots(x, i) : s = r
             => \A s \in Used(rt'[x]) : rt[x].slots[s].item[1] # i
      /\ CallsAreShort(i)
  <2>1. FullInv => Inv
    BY DEF FullInv
  <2>2. Inv => i \in Indices
    BY DEF Inv, TypeInv
  <2> QED BY <2>1, <2>2, DeleteInv, DeleteEffect
<1>2. /\ live' = live \ {i} /\ n_OpenCount' = [n_OpenCount EXCEPT ![i] = 0]
      /\ lost' = [lost EXCEPT ![i] = 0]
  BY DEF realDeleteItem
<1>3. PICK k : k = Item(i)
  OBVIOUS
<1>12. k[1] = i
  BY <1>3 DEF Item
<1>4. ASSUME NEW x \in Tasks, NEW s \in Used(rt'[x])
      PROVE  /\ s \in Used(rt[x])
             /\ rt'[x].slots[s].item = rt[x].slots[s].item
             /\ rt'[x].slots[s].opened = rt[x].slots[s].opened
             /\ rt'[x].slots[s].gone = IF rt[x].slots[s].item = k THEN TRUE
                                                                  ELSE rt[x].slots[s].gone
  <2>1. s \in Used(rt[x])
    BY <1>1
  <2>2. rt[x].slots[s] \in Refs
    BY <1>1, <2>1, UsedIs DEF Inv
  <2>3. CASE rt[x].slots[s].item = k
    <3>1. rt'[x].slots[s] = [rt[x].slots[s] EXCEPT !.gone = TRUE]
      BY <1>1, <1>3, <2>3
    <3> QED BY <2>1, <2>2, <2>3, <3>1 DEF Refs
  <2>4. CASE rt[x].slots[s].item # k
    BY <1>1, <1>3, <2>1, <2>4
  <2> QED BY <2>3, <2>4
<1>5. \A x \in Tasks : \A s \in SlotNos : Bereft(call[x][s], call'[x][s], k)
  <2>1. \A x \in Tasks : \A s \in SlotNos : Bereft(call[x][s], call'[x][s], Item(i))
    BY <1>1, DeleteEffect
  <2> QED BY <1>3, <2>1
<1>6. ASSUME NEW x \in Tasks, NEW s \in SlotNos, NEW it, it[1] # i
      PROVE  Counts(x, s, it)' <=> Counts(x, s, it)
  <2>1. Bereft(call[x][s], call'[x][s], k)
    BY <1>5
  <2>2. CASE call[x][s] # NoCall
    BY <1>6, <1>12, <2>1, <2>2 DEF Counts, CountsIn, Bereft
  <2>3. CASE call[x][s] = NoCall
    <3>1. call'[x][s] = NoCall
      BY <2>1, <2>3 DEF Bereft
    <3>2. Counts(x, s, it)' => Counts(x, s, it)
      BY <1>4, <2>3, <3>1 DEF Counts, CountsIn
    <3>3. Counts(x, s, it) => s \in Used(rt[x]) /\ rt[x].slots[s].item[1] # i
      BY <1>6, <2>3 DEF Counts, CountsIn
    <3>4. s \in Used(rt[x]) /\ rt[x].slots[s].item[1] # i => s \in Used(rt'[x])
      BY <1>1
    <3>5. Counts(x, s, it) => Counts(x, s, it)'
      BY <1>4, <2>3, <3>1, <3>3, <3>4 DEF Counts, CountsIn
    <3> QED BY <3>2, <3>5
  <2> QED BY <2>2, <2>3
<1>7. ASSUME NextGen(gen[i]) = 0, NEW x \in Tasks, NEW s, NEW it, NEW g
      PROVE  Has(x, s, it, g)' => it[1] # i
  <2>1. /\ \A r \in SlotNos : call[x][r] # NoCall => call[x][r].item[1] # i
        /\ state[x] = "dead" => Used(rt[x]) = {}
        /\ \A q, r \in SlotsAt(rt[x], i) \ OwnSlots(x, i) : q = r
    BY <1>1, <1>7, NothingLeft
  <2>2. ASSUME s \in Used(rt'[x]), rt'[x].slots[s].item = it
        PROVE  it[1] # i
    <3>1. s \in Used(rt[x]) /\ rt[x].slots[s].item = it
      BY <1>4, <2>2
    <3>2. state[x] # "dead"
      BY <2>1, <3>1
    <3> QED BY <1>1, <1>7, <2>1, <2>2, <3>1, <3>2
  <2>3. ASSUME s \in SlotNos, call'[x][s] # NoCall, call'[x][s].item = it
        PROVE  it[1] # i
    <3>1. Bereft(call[x][s], call'[x][s], k)
      BY <1>5, <2>3
    <3>2. call[x][s] # NoCall /\ call[x][s].item = it
      BY <2>3, <3>1 DEF Bereft
    <3> QED BY <2>1, <2>3, <3>2
  <2> QED BY <2>2, <2>3 DEF Has, HasIn
<1>8. /\ n_OpenCount'[i] \in Nat /\ lost'[i] = 0
      /\ \A j \in Indices : j # i => n_OpenCount'[j] = n_OpenCount[j] /\ lost'[j] = lost[j]
  <2>1. n_OpenCount \in [Indices -> Nat] /\ lost \in [Indices -> Nat]
    BY <1>1 DEF FullInv, CountInv, Inv, TypeInv
  <2> QED BY <1>1, <1>2, <2>1
<1>9. ASSUME NEW x \in Tasks, NEW s, NEW it, NEW g
      PROVE  Has(x, s, it, g)' => \E h : /\ Has(x, s, it, h)
                                         /\ it = k => g = TRUE
                                         /\ it # k => g = h
  <2>1. ASSUME s \in Used(rt'[x]), rt'[x].slots[s].opened = TRUE,
               rt'[x].slots[s].item = it, rt'[x].slots[s].gone = g
        PROVE  \E h : /\ Has(x, s, it, h)
                      /\ it = k => g = TRUE
                      /\ it # k => g = h
    <3>1. Has(x, s, it, rt[x].slots[s].gone)
      BY <1>4, <2>1 DEF Has, HasIn
    <3>2. g = IF it = k THEN TRUE ELSE rt[x].slots[s].gone
      BY <1>4, <2>1
    <3> QED BY <3>1, <3>2
  <2>2. ASSUME s \in SlotNos, call'[x][s] # NoCall, call'[x][s].item = it,
               call'[x][s].gone = g
        PROVE  \E h : /\ Has(x, s, it, h)
                      /\ it = k => g = TRUE
                      /\ it # k => g = h
    <3>1. Bereft(call[x][s], call'[x][s], k)
      BY <1>5, <2>2
    <3>2. call[x][s] # NoCall /\ call[x][s].item = it
      BY <2>2, <3>1 DEF Bereft
    <3>3. Has(x, s, it, call[x][s].gone)
      BY <2>2, <3>2 DEF Has, HasIn
    <3>4. g = IF it = k THEN TRUE ELSE call[x][s].gone
      BY <2>2, <3>1, <3>2 DEF Bereft
    <3> QED BY <3>3, <3>4
  <2> QED BY <2>1, <2>2 DEF Has, HasIn
<1>10. NothingStays(i)
  BY <1>7 DEF NothingStays
<1>11. Inherits(k)
  BY <1>9 DEF Inherits
<1>13. CountsElsewhere(i)
  BY <1>6 DEF CountsElsewhere
<1> QED BY <1>1, <1>2, <1>3, <1>8, <1>10, <1>11, <1>13, EntryLeft

(* Boot: nothing is live and nothing is open.                               *)
LEMMA InitFull ==
    ASSUME Init
    PROVE  FullInv /\ OnceInv
<1>1. Inv
  BY InitInv
<1>2. /\ live = {} /\ n_OpenCount = [j \in Indices |-> 0] /\ lost = [j \in Indices |-> 0]
      /\ \A x \in Tasks : rt[x] = EmptyTable /\ \A s \in SlotNos : call[x][s] = NoCall
  BY DEF Init
<1>3. \A x \in Tasks : \A s, it, g : ~Has(x, s, it, g)
  BY <1>2, EmptyTableOK DEF Has, HasIn
<1>4. OpenInv
  BY <1>3 DEF OpenInv
<1>5. OnceInv
  BY <1>3 DEF OnceInv
<1>6. CountInv
  BY <1>2 DEF CountInv
<1> QED BY <1>1, <1>4, <1>5, <1>6 DEF FullInv

(* Every step keeps the whole invariant.                                    *)
LEMMA NextFull ==
    ASSUME LowEntriesAreYoung, LastOpensAreSingle, ~WrapInCalls, FullInv, [Next]_vars
    PROVE  Kept
<1>1. ASSUME NEW t \in Tasks, CreateItem(t) PROVE Kept
  BY <1>1, CreateItemFull
<1>2. ASSUME NEW t \in Tasks, CreateItemFails(t) PROVE Kept
  BY <1>2, CreateItemFailsFull
<1>3. ASSUME NEW t \in Tasks, NEW s \in SlotNos, OpenItemReturns(t, s) PROVE Kept
  BY <1>3, OpenItemReturnsFull
<1>4. ASSUME NEW t \in Tasks, NEW s \in SlotNos, CloseItemReturns(t, s) PROVE Kept
  BY <1>4, CloseItemReturnsFull
<1>5. ASSUME NEW t \in Tasks, NEW s \in SlotNos, FreeResources(t, s) PROVE Kept
  BY <1>5, FreeResourcesSteps, CloseFull, DeleteFull
     DEF FreeResourcesCloses, FreeResourcesDeletes
<1>6. ASSUME NEW t \in Tasks, Exits(t) PROVE Kept
  BY <1>6, ExitsFull
<1>7. ASSUME NEW t \in Tasks, FreeTask(t) PROVE Kept
  BY <1>7, FreeTaskFull
<1>8. ASSUME NEW t \in Tasks, NEW n \in 1 .. MaxSlots, IncreaseResourceTable(t, n)
      PROVE  Kept
  BY <1>8, IncreaseFull
<1>9. ASSUME NEW t \in Tasks, NEW it \in Numbers, CloseItem(t, it) PROVE Kept
  <2>1. Inv
    BY DEF FullInv
  <2> QED BY <1>9, <2>1, CloseItemCloses, CloseFull
<1>10. ASSUME NEW t \in Tasks, NEW i \in Indices, OpenItem(t, i) PROVE Kept
  BY <1>10, OpenItemFull
<1>11. ASSUME NEW t \in Tasks, NEW i \in Indices, DeleteItem(t, i) PROVE Kept
  BY <1>11, DeleteFull DEF DeleteItem, realDeleteItem
<1>12. ASSUME NEW t \in Tasks, NEW i \in Indices, NEW u \in Tasks, SetItemOwner(t, i, u)
       PROVE  Kept
  BY <1>12, SetItemOwnerFull
<1>13. CASE UNCHANGED vars
  <2>1. Inv'
    BY <1>13, NextInv DEF FullInv
  <2>2. UNCHANGED <<gen, live, n_OpenCount, lost, rt, call>>
    BY <1>13 DEF vars
  <2> QED BY <2>1, <2>2, OpensStay
<1> QED BY <1>1, <1>2, <1>3, <1>4, <1>5, <1>6, <1>7, <1>8, <1>9, <1>10, <1>11, <1>12, <1>13
        DEF Next

(* What the invariant says of the properties.                               *)
LEMMA FullSound ==
    ASSUME FullInv
    PROVE  ReferencesAreSound
<1>1. Inv /\ OpenInv /\ CountInv
  BY DEF FullInv
<1>2. ASSUME NEW t \in Tasks, NEW s \in DOMAIN rt[t].slots,
             ~rt[t].slots[s].free, rt[t].slots[s].gone
      PROVE  ~LookupItem(rt[t].slots[s].item)
  <2>1. s \in Used(rt[t])
    BY <1>2 DEF Used
  <2>2. /\ rt[t].slots[s].opened \in BOOLEAN /\ rt[t].slots[s].gone \in BOOLEAN
    BY <1>1, <2>1, UsedIs DEF Inv
  <2>3. rt[t].slots[s].opened
    BY <1>1, <1>2, <2>1, <2>2 DEF Inv, OwnInv, Owns
  <2>4. Has(t, s, rt[t].slots[s].item, TRUE)
    BY <1>2, <2>1, <2>2, <2>3 DEF Has, HasIn
  <2> QED BY <1>1, <2>4, LiveNumbers
<1>3. NumbersOfTheDeadFindNothing
  BY <1>2 DEF NumbersOfTheDeadFindNothing
<1>4. OpensAreCounted
  BY <1>1 DEF CountInv, OpensAreCounted
<1> QED BY <1>1, <1>3, <1>4, InvChains, InvOwned DEF ReferencesAreSound

(* The invariant has the types.                                             *)
LEMMA FullType ==
    ASSUME FullInv
    PROVE  TypeOK
<1>1. TypeInv /\ FreeInv /\ TablesInv /\ CountInv
  BY DEF FullInv, Inv
<1>2. freeList \in Seq(Indices) /\ blocks \in BootBlocks .. Len(Blocks)
  BY <1>1 DEF FreeInv, FreeOK
<1>3. \A t \in Tasks : DOMAIN rt[t].slots = 0 .. rt[t].size - 1
  BY <1>1 DEF TablesInv, TableOK
<1>4. n_OpenCount \in [Indices -> Nat]
  BY <1>1 DEF CountInv
<1> QED BY <1>1, <1>2, <1>3, <1>4 DEF TypeInv, TypeOK

\* PROPERTY.  Unless the last generation of an entry ends during an open or close of
\* its item, and while no entry in its last generation has the number of a slot or is
\* open twice in a task, the references are sound after every step: the chains
\* of free slots, the numbers of deleted items, the owners and the counts of opens,
\* also of what a dead task leaves behind (CreateItem, internalOpenItem,
\* internalCloseItemSlot, realDeleteItem, internalSetItemOwner, FreeItem,
\* RemoveItemReferences, FreeResources, FreeTask).
THEOREM ReferencesSound ==
    ~WrapInCalls =>
        (Spec /\ []LowEntriesAreYoung /\ []LastOpensAreSingle => []ReferencesAreSound)
<1> SUFFICES ASSUME ~WrapInCalls
             PROVE  Spec /\ []LowEntriesAreYoung /\ []LastOpensAreSingle =>
                        []ReferencesAreSound
  OBVIOUS
<1>1. Init => FullInv
  BY InitFull
<1>2. FullInv /\ LowEntriesAreYoung /\ LastOpensAreSingle /\ [Next]_vars => FullInv'
  BY NextFull DEF Kept
<1>3. FullInv => ReferencesAreSound
  BY FullSound
<1> QED BY <1>1, <1>2, <1>3, PTL DEF Spec

\* PROPERTY.  Under the same hypotheses every variable has its type; the count of
\* opens in particular does not go below 0 (n_OpenCount in internalCloseItemSlot).
THEOREM TypeCorrect ==
    ~WrapInCalls => (Spec /\ []LowEntriesAreYoung /\ []LastOpensAreSingle => []TypeOK)
<1> SUFFICES ASSUME ~WrapInCalls
             PROVE  Spec /\ []LowEntriesAreYoung /\ []LastOpensAreSingle => []TypeOK
  OBVIOUS
<1>1. Init => FullInv
  BY InitFull
<1>2. FullInv /\ LowEntriesAreYoung /\ LastOpensAreSingle /\ [Next]_vars => FullInv'
  BY NextFull DEF Kept
<1>3. FullInv => TypeOK
  BY FullType
<1> QED BY <1>1, <1>2, <1>3, PTL DEF Spec

\* No slot number is the index of an item.
IndicesAboveSlots == Indices \cap SlotNos = {}

(* The two hypotheses on the constants.                                     *)
LEMMA OnceSingle ==
    ASSUME OnceInv
    PROVE  LastOpensAreSingle
<1>1. ASSUME NEW i \in Indices, NEW t \in Tasks, NEW s \in OpenAt(t, i), NEW r \in OpenAt(t, i)
      PROVE  s = r
  <2>1. /\ Has(t, s, rt[t].slots[s].item, rt[t].slots[s].gone)
        /\ Has(t, r, rt[t].slots[r].item, rt[t].slots[r].gone)
        /\ rt[t].slots[s].item[1] = rt[t].slots[r].item[1]
    BY DEF OpenAt, Has, HasIn
  <2> QED BY <2>1 DEF OnceInv
<1> QED BY <1>1 DEF LastOpensAreSingle

\* PROPERTY.  The hypotheses follow from three on the constants, those of the run
\* items_references: item indices are larger than slot numbers, no task opens two
\* items of an index at a time, and no entry's last generation ends during an open or
\* close of its item.  (RemoveItemReferences removes one reference, takes links
\* for numbers, and frees the slot that internalCloseItemSlot is about to free.)
THEOREM ReferencesSoundAboveSlots ==
    IndicesAboveSlots /\ ~OpensTwice /\ ~WrapInCalls =>
        (Spec => [](ReferencesAreSound /\ TypeOK))
<1> SUFFICES ASSUME IndicesAboveSlots, ~OpensTwice, ~WrapInCalls
             PROVE  Spec => [](ReferencesAreSound /\ TypeOK)
  OBVIOUS
<1>1. Init => FullInv /\ OnceInv
  BY InitFull
<1>2. FullInv /\ OnceInv /\ [Next]_vars => (FullInv /\ OnceInv)'
  <2> SUFFICES ASSUME FullInv, OnceInv, [Next]_vars
               PROVE  FullInv' /\ OnceInv'
    OBVIOUS
  <2>1. LowEntriesAreYoung
    BY DEF LowEntriesAreYoung, IndicesAboveSlots
  <2>2. LastOpensAreSingle
    BY OnceSingle
  <2> QED BY <2>1, <2>2, NextFull DEF Kept
<1>3. FullInv => ReferencesAreSound /\ TypeOK
  BY FullSound, FullType
<1> QED BY <1>1, <1>2, <1>3, PTL DEF Spec

=============================================================================
