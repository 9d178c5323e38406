------------------------------ MODULE ItemTable ------------------------------
(***************************************************************************)
(* Item numbers and resource tables (item.c).  An item number is an index  *)
(* into the item table and the generation of the entry, so that a number   *)
(* kept after the item was deleted does not find the next item with the    *)
(* same index.  Every task has a table with the numbers of the items it    *)
(* owns or has opened; its free slots are chained through the table.       *)
(*                                                                         *)
(* A call is one step, except OpenItem and CloseItem, whose ir_Open and    *)
(* ir_Close may sleep and make calls of their own: open or close a lower   *)
(* device, or delete the item on its last close.  So a table may have      *)
(* several such calls under way, each with a slot; that the inner ones     *)
(* return first is left out.                                               *)
(*                                                                         *)
(* The chain of free item entries is a sequence; that of the slots is      *)
(* modelled as the code stores it, since RemoveItemReferences reads links  *)
(* as numbers.                                                             *)
(***************************************************************************)
EXTENDS Integers, Sequences, FiniteSets, FiniteSetsExt, SequencesExt

CONSTANTS
    Tasks, NoTask,
    Blocks,     \* the blocks of the item table: sequences of item indices
    BootBlocks, \* how many of them there are at boot (2)
    Gens,       \* number of generations (32768)
    Grow,       \* slots by which a table grows (4)
    MaxSlots,   \* bound: no memory for a larger table
    Nil,        \* 0xffffffff, the end of a chain of slots
    MaxCalls,   \* bound: opens and closes under way on a table
    OpensTwice, \* a task may have more than one item of an index open, dead ones too
    WrapInCalls \* the last generation may end during an open or close of the item

Indices == UNION {Range(Blocks[b]) : b \in DOMAIN Blocks}

ASSUME ItemTableAssumption ==
    /\ NoTask \notin Tasks /\ IsFiniteSet(Tasks)
    /\ BootBlocks \in {1, 2} /\ BootBlocks <= Len(Blocks)
    /\ Blocks \in Seq(Seq(Nat) \ {<<>>})
    /\ \A b, c \in DOMAIN Blocks : \A j \in DOMAIN Blocks[b] : \A k \in DOMAIN Blocks[c] :
           Blocks[b][j] = Blocks[c][k] => b = c /\ j = k
    /\ {Gens, Grow} \subseteq Nat \ {0} /\ {MaxSlots, MaxCalls} \subseteq Nat
    /\ Nil \notin Nat /\ {OpensTwice, WrapInCalls} \subseteq BOOLEAN

VARIABLES
    freeList,   \* the free entries, from firstFreeIndex to lastFreeIndex
    blocks,     \* how many blocks the table has
    live,       \* entries whose ie_ItemAddr is set
    gen,        \* the generation in ie_ItemInfo
    n_Owner, n_OpenCount,
    rt,         \* t_ResourceTable and t_FreeResourceTableSlot
    call,       \* of a slot: the open it is set aside for, or the close of its item
    lost,       \* bookkeeping: opens of an item that a dead task did not give back
    state       \* of a task: alive, exiting, dead

vars == <<freeList, blocks, live, gen, n_Owner, n_OpenCount, rt, call, lost, state>>

Item(i) == <<i, gen[i]>>                        \* the number of the item at i
LookupItem(it) == it[1] \in live /\ Item(it[1]) = it

\* What a slot holds: the number of the next free slot, or an item number with
\* ITEM_WAS_OPENED.  gone is not in the code: the item meant was deleted.
Link(s)         == [free |-> TRUE, to |-> s]
Ref(it, opened) == [free |-> FALSE, item |-> it, opened |-> opened, gone |-> FALSE]
NoCall == [none |-> TRUE]
Call(it, closing) == [closing |-> closing, item |-> it, gone |-> FALSE]
EmptyTable == [slots |-> [s \in {} |-> Link(Nil)], free |-> Nil, size |-> 0]

Numbers == Indices \X (0 .. Gens - 1)
SlotNos == 0 .. MaxSlots - 1
Entries ==
    {Link(s) : s \in SlotNos \cup {Nil}}
        \cup [free : {FALSE}, item : Numbers, opened : BOOLEAN, gone : BOOLEAN]

Tables == [slots : UNION {[0 .. n - 1 -> Entries] : n \in 0 .. MaxSlots},
           free : SlotNos \cup {Nil}, size : 0 .. MaxSlots]
CallsOfSlots == {NoCall} \cup [closing : BOOLEAN, item : Numbers, gone : BOOLEAN]

TypeOK ==
    /\ freeList \in Seq(Indices) /\ blocks \in BootBlocks .. Len(Blocks)
    /\ live \subseteq Indices /\ gen \in [Indices -> 0 .. Gens - 1]
    /\ n_Owner \in [Indices -> Tasks \cup {NoTask}] /\ n_OpenCount \in [Indices -> Nat]
    /\ rt \in [Tasks -> Tables] /\ call \in [Tasks -> [SlotNos -> CallsOfSlots]]
    /\ lost \in [Indices -> Nat]
    /\ \A t \in Tasks : DOMAIN rt[t].slots = 0 .. rt[t].size - 1
    /\ state \in [Tasks -> {"alive", "exiting", "dead"}]

\* InitItemTable makes two blocks; a new block comes before the entries there are.
Init ==
    /\ freeList = (IF BootBlocks = 2 THEN Blocks[2] ELSE <<>>) \o Blocks[1]
    /\ blocks = BootBlocks
    /\ live = {} /\ gen = [i \in Indices |-> 0]
    /\ n_Owner = [i \in Indices |-> NoTask] /\ n_OpenCount = [i \in Indices |-> 0]
    /\ rt = [t \in Tasks |-> EmptyTable]
    /\ call = [t \in Tasks |-> [s \in SlotNos |-> NoCall]]
    /\ lost = [i \in Indices |-> 0]
    /\ state = [t \in Tasks |-> "alive"]

-----------------------------------------------------------------------------
(* Resource tables. *)

\* internalIncreaseResourceTable: the new slots are chained before the free ones.
Grown(tab, n) ==
    LET last == tab.size + n - 1
    IN [slots |-> [s \in 0 .. last |-> IF s < tab.size THEN tab.slots[s]
                                       ELSE Link(IF s = last THEN tab.free ELSE s + 1)],
        free |-> tab.size, size |-> tab.size + n]

\* AllocItemSlot: the slot is tab.free of WithRoom; it keeps its link for now.
HasRoom(tab)    == tab.free # Nil \/ tab.size + Grow <= MaxSlots
WithRoom(tab)   == IF tab.free = Nil THEN Grown(tab, Grow) ELSE tab
SlotFor(tab)    == WithRoom(tab).free
AllocItemSlot(tab) ==
    LET w == WithRoom(tab) IN [w EXCEPT !.free = w.slots[w.free].to]

Put(tab, s, entry)   == [tab EXCEPT !.slots[s] = entry]
FreeItemSlot(tab, s) == [Put(tab, s, Link(tab.free)) EXCEPT !.free = s]

SlotsOf(tab, it, opened) ==
    {s \in DOMAIN tab.slots : /\ ~tab.slots[s].free
                              /\ tab.slots[s].item = it /\ tab.slots[s].opened = opened}
FindItemSlot(tab, it, opened) == Min(SlotsOf(tab, it, opened))

RemoveItem(tab, it) ==
    IF SlotsOf(tab, it, FALSE) = {} THEN tab
    ELSE FreeItemSlot(tab, FindItemSlot(tab, it, FALSE))

\* FindItemSlotNoGen compares the index bits only, of links too.
SlotsNoGen(tab, i) ==
    {s \in DOMAIN tab.slots :
        LET e == tab.slots[s] IN IF e.free THEN e.to = i ELSE e.item[1] = i}
RemoveItemReferences(tab, i) ==
    IF SlotsNoGen(tab, i) = {} THEN tab ELSE FreeItemSlot(tab, Min(SlotsNoGen(tab, i)))

\* Bookkeeping of the property: who still has the number of the deleted item.
Bereaved(tab, it) ==
    [tab EXCEPT !.slots = [s \in DOMAIN @ |->
        IF ~@[s].free /\ @[s].item = it THEN [@[s] EXCEPT !.gone = TRUE] ELSE @[s]]]

-----------------------------------------------------------------------------
(* The item table. *)

\* GetItem, with NewItemTableBlock when there is no free entry.
HasItem == freeList # <<>> \/ blocks < Len(Blocks)
Free    == IF freeList # <<>> THEN freeList ELSE Blocks[blocks + 1]
GetItem ==
    /\ HasItem
    /\ freeList' = Tail(Free)
    /\ blocks' = IF freeList # <<>> THEN blocks ELSE blocks + 1

\* Mutant of NextGen: the generation is not masked.
NextGen_Unmasked(g) == g + 1
\* Mutant of Cleaned: the references stay when the generations start again.
Cleaned_Never(tabs, i) == tabs

\* FreeItem, on the tables tabs: the entry goes to the end of the chain, the next
\* generation begins, and if it is the first again, references are removed.
NextGen(g) == (g + 1) % Gens
Cleaned(tabs, i) ==
    IF NextGen(gen[i]) # 0 THEN tabs
    ELSE [t \in Tasks |-> IF state[t] = "dead" THEN tabs[t]
                                               ELSE RemoveItemReferences(tabs[t], i)]
\* Bound, without WrapInCalls: the last generation of an entry does not end during an
\* open or close of its item.  In the code ir_Close may end it by deleting the item, and
\* the slot is then freed twice, by RemoveItemReferences and by CloseItemReturns.
CallsAreShort(i) ==
    ~WrapInCalls /\ NextGen(gen[i]) = 0 =>
        \A t \in Tasks : \A s \in SlotNos : call[t][s] # NoCall => call[t][s].item[1] # i
FreeItem(i, tabs, list) ==
    /\ CallsAreShort(i)
    /\ gen' = [gen EXCEPT ![i] = NextGen(@)]
    /\ freeList' = Append(list, i)
    /\ rt' = Cleaned(tabs, i)

-----------------------------------------------------------------------------
(* The calls. *)

\* A task calls, or the code of an item that it opens or closes, until it is dead.
Calls(t) == state[t] # "dead"

\* CreateItem succeeds; or ir_Create fails and the slot and the node are freed; or
\* there is no slot.
CreateItem(t) ==
    LET i == Head(Free)
    IN /\ Calls(t) /\ HasRoom(rt[t])
       /\ GetItem
       /\ live' = live \cup {i}
       /\ n_Owner' = [n_Owner EXCEPT ![i] = t]
       /\ n_OpenCount' = [n_OpenCount EXCEPT ![i] = 0]
       /\ rt' = [rt EXCEPT ![t] = Put(AllocItemSlot(@), SlotFor(@), Ref(Item(i), FALSE))]
       /\ UNCHANGED <<gen, call, lost, state>>

CreateItemFails(t) ==
    LET i == Head(Free)
    IN /\ Calls(t) /\ HasItem
       /\ \/ /\ HasRoom(rt[t])
             /\ FreeItem(i, [rt EXCEPT ![t] = FreeItemSlot(AllocItemSlot(@), SlotFor(@))],
                         Tail(Free))
          \/ FreeItem(i, rt, Tail(Free))
       /\ blocks' = IF freeList # <<>> THEN blocks ELSE blocks + 1
       /\ UNCHANGED <<live, n_Owner, n_OpenCount, call, lost, state>>

UnderWay(t) == {s \in SlotNos : call[t][s] # NoCall}
MayStart(t) == Cardinality(UnderWay(t)) < MaxCalls
Opened(t) ==
    {e.item[1] : e \in {f \in Range(rt[t].slots) : ~f.free /\ f.opened}}
        \cup {call[t][s].item[1] : s \in UnderWay(t)}

\* internalOpenItem up to ir_Open.
OpenItem(t, i) ==
    /\ Calls(t) /\ MayStart(t) /\ i \in live /\ HasRoom(rt[t])
    /\ ~OpensTwice => i \notin Opened(t)
    /\ rt' = [rt EXCEPT ![t] = AllocItemSlot(@)]
    /\ call' = [call EXCEPT ![t][SlotFor(rt[t])] = Call(Item(i), FALSE)]
    /\ n_OpenCount' = [n_OpenCount EXCEPT ![i] = @ + 1]
    /\ UNCHANGED <<freeList, blocks, live, gen, n_Owner, lost, state>>

\* The count after ir_Open or ir_Close refused.  If the item is gone by then, the
\* count is in freed memory.
CountBack(c, n) ==
    IF c.gone THEN n_OpenCount ELSE [n_OpenCount EXCEPT ![c.item[1]] = @ + n]

\* ir_Open returns.
OpenItemReturns(t, s) ==
    LET c == call[t][s]
    IN /\ c # NoCall /\ ~c.closing
       /\ \/ /\ rt' = [rt EXCEPT ![t] =
                           Put(@, s, [Ref(c.item, TRUE) EXCEPT !.gone = c.gone])]
             /\ UNCHANGED n_OpenCount
          \/ /\ rt' = [rt EXCEPT ![t] = FreeItemSlot(@, s)]
             /\ n_OpenCount' = CountBack(c, -1)
       /\ call' = [call EXCEPT ![t][s] = NoCall]
       /\ UNCHANGED <<freeList, blocks, live, gen, n_Owner, lost, state>>

\* internalCloseItemSlot: the slot of a number that finds nothing is freed; or up to
\* ir_Close.  Bound: no slot is closed while it is being closed.
internalCloseItemSlot(t, it, s) ==
    /\ call[t][s] = NoCall
    /\ \/ /\ ~LookupItem(it)
          /\ rt' = [rt EXCEPT ![t] = FreeItemSlot(@, s)]
          /\ UNCHANGED <<n_OpenCount, call>>
       \/ /\ LookupItem(it) /\ MayStart(t)
          /\ n_OpenCount' = [n_OpenCount EXCEPT ![it[1]] = @ - 1]
          /\ call' = [call EXCEPT ![t][s] = Call(it, TRUE)]
          /\ UNCHANGED rt
    /\ UNCHANGED <<freeList, blocks, live, gen, n_Owner, lost, state>>

CloseItem(t, it) ==
    /\ Calls(t) /\ SlotsOf(rt[t], it, TRUE) # {}
    /\ internalCloseItemSlot(t, it, FindItemSlot(rt[t], it, TRUE))

\* ir_Close returns.  It may have deleted the item (DeleteItem); the slot is freed then
\* as well.
CloseItemReturns(t, s) ==
    LET c == call[t][s]
    IN /\ c # NoCall /\ c.closing
       /\ \/ rt' = [rt EXCEPT ![t] = FreeItemSlot(@, s)] /\ UNCHANGED n_OpenCount
          \/ n_OpenCount' = CountBack(c, 1) /\ UNCHANGED rt
       /\ call' = [call EXCEPT ![t][s] = NoCall]
       /\ UNCHANGED <<freeList, blocks, live, gen, n_Owner, lost, state>>

\* Who is inside of a call on the deleted item learns nothing; bookkeeping.
CallsBereaved(it) ==
    [t \in Tasks |-> [s \in SlotNos |->
        IF call[t][s] # NoCall /\ call[t][s].item = it
        THEN [call[t][s] EXCEPT !.gone = TRUE] ELSE call[t][s]]]

\* realDeleteItem by the owner, a privileged task, or ir_Close; refused if the owner
\* is dead; ir_Delete may refuse.
realDeleteItem(i) ==
    LET it   == Item(i)
        tabs == [rt EXCEPT ![n_Owner[i]] = RemoveItem(@, it)]
    IN /\ i \in live /\ state[n_Owner[i]] # "dead"
       /\ FreeItem(i, [t \in Tasks |-> Bereaved(tabs[t], it)], freeList)
       /\ live' = live \ {i}
       /\ n_Owner' = [n_Owner EXCEPT ![i] = NoTask]
       /\ n_OpenCount' = [n_OpenCount EXCEPT ![i] = 0]
       /\ call' = CallsBereaved(it)
       /\ lost' = [lost EXCEPT ![i] = 0]
       /\ UNCHANGED <<blocks, state>>

DeleteItem(t, i) == Calls(t) /\ realDeleteItem(i)

\* internalSetItemOwner: a slot of the new owner first, then ir_SetOwner, which may
\* refuse.
SetItemOwner(t, i, u) ==
    LET tab == AllocItemSlot(rt[u])
        s   == SlotFor(rt[u])
    IN /\ Calls(t) /\ i \in live /\ state[u] # "dead" /\ HasRoom(rt[u])
       /\ \/ /\ LET tabs == [rt EXCEPT ![u] = tab]
                    from == [tabs EXCEPT ![n_Owner[i]] = RemoveItem(@, Item(i))]
                IN rt' = [from EXCEPT ![u] = Put(@, s, Ref(Item(i), FALSE))]
             /\ n_Owner' = [n_Owner EXCEPT ![i] = u]
          \/ rt' = [rt EXCEPT ![u] = FreeItemSlot(tab, s)] /\ UNCHANGED n_Owner
    /\ UNCHANGED <<freeList, blocks, live, gen, n_OpenCount, call, lost, state>>

\* By any number of slots but 0, for which the code chains a slot that is not there.
IncreaseResourceTable(t, n) ==
    /\ Calls(t) /\ n \in 1 .. MaxSlots - rt[t].size
    /\ rt' = [rt EXCEPT ![t] = Grown(@, n)]
    /\ UNCHANGED <<freeList, blocks, live, gen, n_Owner, n_OpenCount, call, lost, state>>

-----------------------------------------------------------------------------
(* The death of a task. *)

Exits(t) ==
    /\ state[t] = "alive" /\ UnderWay(t) = {}
    /\ state' = [state EXCEPT ![t] = "exiting"]
    /\ UNCHANGED <<freeList, blocks, live, gen, n_Owner, n_OpenCount, rt, call, lost>>

\* FreeResources at slot s: the item is closed or deleted.  Which slots the passes of
\* internalKill take, in which order, depends on the types of the items.
FreeResources(t, s) ==
    LET e == rt[t].slots[s]
    IN /\ state[t] = "exiting" /\ s \in DOMAIN rt[t].slots
       /\ ~e.free /\ LookupItem(e.item)
       /\ IF e.opened THEN internalCloseItemSlot(t, e.item, s) ELSE realDeleteItem(e.item[1])

\* The slots in which a task has the item open, or is opening it, but not closing.
OpenSlots(t, i) ==
    {s \in SlotNos :
        IF call[t][s] # NoCall THEN ~call[t][s].closing /\ call[t][s].item = Item(i)
                               ELSE s \in SlotsOf(rt[t], Item(i), TRUE)}

\* FreeTask after the passes, with whatever was refused by ir_Close or ir_Delete, or
\* came into slots that the passes were through with.
FreeTask(t) ==
    /\ state[t] = "exiting" /\ UnderWay(t) = {}
    /\ state' = [state EXCEPT ![t] = "dead"]
    /\ rt' = [rt EXCEPT ![t] = EmptyTable]
    /\ lost' = [i \in Indices |->
                   IF i \in live THEN lost[i] + Cardinality(OpenSlots(t, i)) ELSE lost[i]]
    /\ UNCHANGED <<freeList, blocks, live, gen, n_Owner, n_OpenCount, call>>

-----------------------------------------------------------------------------
Next ==
    \/ \E t \in Tasks :
        \/ CreateItem(t) \/ CreateItemFails(t) \/ Exits(t) \/ FreeTask(t)
        \/ \E s \in SlotNos :
               OpenItemReturns(t, s) \/ CloseItemReturns(t, s) \/ FreeResources(t, s)
        \/ \E n \in 1 .. MaxSlots : IncreaseResourceTable(t, n)
        \/ \E it \in Numbers : CloseItem(t, it)
        \/ \E i \in Indices : \/ OpenItem(t, i) \/ DeleteItem(t, i)
                              \/ \E u \in Tasks : SetItemOwner(t, i, u)

Spec == Init /\ [][Next]_vars

-----------------------------------------------------------------------------
\* PROPERTY.  The comment in AllocItemSlot: t_FreeResourceTableSlot is the index of a
\* free entry, which contains the index of another free entry, or 0xffffffff.  The
\* chain visits no slot twice, and every slot that is not in use or set aside for an
\* open: no smaller set has the first slot and, with a slot, the next one.
ChainsHoldTheFreeSlots ==
    \A t \in Tasks :
        LET tab == rt[t]
            unused == {s \in DOMAIN tab.slots : tab.slots[s].free} \ UnderWay(t)
            next(s) == tab.slots[s].to
        IN /\ tab.free \in unused \cup {Nil}
           /\ \A s \in unused : next(s) \in (unused \ {tab.free}) \cup {Nil}
           /\ \A s, r \in unused : next(s) = next(r) /\ next(s) # Nil => s = r
           /\ \A S \in SUBSET unused :
                  tab.free \in S \cup {Nil} /\ (\A s \in S : next(s) \in S \cup {Nil}) =>
                      S = unused

\* A number kept after its item was deleted does not find a later item.
NumbersOfTheDeadFindNothing ==
    \A t \in Tasks : \A s \in DOMAIN rt[t].slots :
        LET e == rt[t].slots[s] IN ~e.free /\ e.gone => ~LookupItem(e.item)

\* An item is in the table of its owner, once, and in no other as owned, until the
\* owner is dead.
ItemsAreOwnedOnce ==
    \A i \in live : \A t \in Tasks :
        LET slots == SlotsOf(rt[t], Item(i), FALSE)
        IN IF t = n_Owner[i] /\ state[t] # "dead" THEN \E s \in slots : slots = {s}
                                                  ELSE slots = {}

\* n_OpenCount is the number of slots that have the item open or are about to, and of
\* those that died so.
OpensOf(i) == {x \in Tasks \X SlotNos : x[2] \in OpenSlots(x[1], i)}
OpensAreCounted == \A i \in live : n_OpenCount[i] = Cardinality(OpensOf(i)) + lost[i]

\* PROPERTY.  The tables agree, whatever is deleted while others have it open, are
\* opening or closing it, whoever dies, and however often an entry was used: the
\* number of a deleted item finds nothing, each item is in its owner's table once
\* while the owner lives and is counted open as often as it is in the tables or died
\* with one, and the chain of free slots is intact (FreeItem, RemoveItemReferences,
\* internalOpenItem, internalCloseItemSlot, realDeleteItem, FreeResources, FreeTask).
\* It does not hold with OpensTwice, WrapInCalls, or indices as small as slot numbers,
\* since RemoveItemReferences frees one slot of a table, and whatever is in it.
ReferencesAreSound ==
    /\ ChainsHoldTheFreeSlots
    /\ NumbersOfTheDeadFindNothing
    /\ ItemsAreOwnedOnce
    /\ OpensAreCounted

=============================================================================
