--------------------------- MODULE ProducerProofs ---------------------------
(***************************************************************************)
(* Proofs about what the event queue keeps for each producer thread: its   *)
(* entry in the table, for any finite set of threads, any event queues and *)
(* any table sizes, and the payloads of its actions, for any number of     *)
(* producers, objects and posts and rings of any size.                     *)
(*                                                                         *)
(* The argument about the table: the claimed entries are always an initial *)
(* segment of it, and a claim can only be in the course of being undone    *)
(* when that segment is the whole table.  So fetch_sub never gives back an *)
(* index a later fetch_add could hand out a second time.                   *)
(*                                                                         *)
(* The argument about the payloads: the objects of a ring that are still   *)
(* to be destroyed are its youngest, and the queue destroys the oldest of  *)
(* them first.  As long as there are fewer of them than places, the next   *)
(* place holds none.                                                       *)
(***************************************************************************)
EXTENDS ProducerRegistry, PayloadStore, FiniteSetTheorems, SequenceTheorems, TLAPS

-----------------------------------------------------------------------------
(* The table of producers. *)

(* The number of entries of q that are claimed. *)
NumClaimed(q) == activeProducers[q] - Cardinality(Undoing(q))

(* The threads a table knows of: owners and threads with a claim in flight. *)
Known(q) ==
    Assigning(q) \union Undoing(q) \union {t \in Threads : OwnSlots(q, t) # {}}

(* A step that is about to claim, or has claimed, belongs to a thread that  *)
(* owns no entry of the queue it calls.                                     *)
InFlight ==
    \A t \in Threads :
        /\ pc[t] = "check" => cachedIndex[t] \in Nat
        /\ pc[t] \in {"full", "claim", "undo", "assign"} => OwnSlots(callee[t], t) = {}
        /\ pc[t] # "idle" => returned[t] = NoIndex /\ t \in callers[callee[t]]

(* The entries that await their id are inside the table, free and distinct. *)
Targets ==
    \A t \in Threads : pc[t] = "assign" =>
        /\ target[t] \in Slots(callee[t])
        /\ slotThread[callee[t]][target[t]] = NoThread
        /\ \A u \in Threads \ {t} :
              pc[u] = "assign" /\ callee[u] = callee[t] => target[u] # target[t]

(* The claimed entries are the first NumClaimed(q) ones, all of them when a *)
(* claim is being undone.                                                   *)
Segment ==
    \A q \in Queues :
        /\ NumClaimed(q) \in 0 .. MaxProducers[q]
        /\ Claimed(q) = 0 .. (NumClaimed(q) - 1)
        /\ Undoing(q) # {} => NumClaimed(q) = MaxProducers[q]

RegistryInv ==
    /\ RegistryTypeOK
    /\ InFlight
    /\ Targets
    /\ Segment
    /\ SlotUnique
    /\ EntryIsOwn
    /\ RefusedOnlyWhenFull

-----------------------------------------------------------------------------
(* The claims being undone are counted: finitely many, none only if none.   *)
LEMMA UndoingFinite ==
    ASSUME NEW q
    PROVE  /\ IsFiniteSet(Undoing(q))
           /\ Cardinality(Undoing(q)) \in Nat
           /\ Undoing(q) # {} => Cardinality(Undoing(q)) >= 1
<1>1. Undoing(q) \in SUBSET Threads
  BY DEF Undoing
<1>2. IsFiniteSet(Undoing(q))
  BY <1>1, FS_Subset, RegistryAssumption
<1>3. QED
  BY <1>2, FS_CardinalityType, FS_EmptySet

(* Nothing is claimed in the table the constructor leaves.                  *)
LEMMA InitInv == RegistryInit => RegistryInv
<1> SUFFICES ASSUME RegistryInit PROVE RegistryInv
  OBVIOUS
<1> USE RegistryAssumption DEF RegistryInit
<1>1. ASSUME NEW q \in Queues
      PROVE  /\ Undoing(q) = {}
             /\ Claimed(q) = {}
             /\ slotThread[q] \in [Slots(q) -> Threads \union {NoThread}]
  <2>1. Undoing(q) = {} /\ Assigning(q) = {}
    BY DEF Undoing, Assigning
  <2>2. slotThread[q] = [i \in Slots(q) |-> NoThread]
    OBVIOUS
  <2>3. Owned(q) = {}
    BY <2>2 DEF Owned
  <2>4. QED
    BY <2>1, <2>2, <2>3 DEF Claimed
<1>2. ASSUME NEW q \in Queues
      PROVE  NumClaimed(q) = 0
  <2>1. Cardinality(Undoing(q)) = 0
    BY <1>1, FS_EmptySet
  <2>2. QED
    BY <2>1 DEF NumClaimed
<1>3. RegistryTypeOK
  BY <1>1 DEF RegistryTypeOK, Steps
<1>4. Segment
  <2>1. \A q \in Queues : NumClaimed(q) \in 0 .. MaxProducers[q]
    BY <1>2
  <2>2. \A q \in Queues : Claimed(q) = 0 .. (NumClaimed(q) - 1)
    <3>1. ASSUME NEW q \in Queues
          PROVE  Claimed(q) = 0 .. (NumClaimed(q) - 1)
      <4>1. NumClaimed(q) - 1 = -1
        BY <1>2
      <4>2. 0 .. (-1) = {}
        OBVIOUS
      <4>3. QED
        BY <1>1, <4>1, <4>2
    <3>2. QED
      BY <3>1
  <2>3. QED
    BY <1>1, <2>1, <2>2 DEF Segment
<1>5. InFlight /\ Targets /\ EntryIsOwn /\ RefusedOnlyWhenFull
  BY DEF InFlight, Targets, EntryIsOwn, RefusedOnlyWhenFull
<1>6. SlotUnique
  BY DEF SlotUnique
<1>7. QED
  BY <1>3, <1>4, <1>5, <1>6 DEF RegistryInv

(* What a step that touches neither the table nor the claims in flight      *)
(* leaves as it was.                                                        *)
LEMMA TableUntouched ==
    ASSUME UNCHANGED tableVars,
           \A t \in Threads :
               pc'[t] \in {"assign", "undo"} \/ pc[t] \in {"assign", "undo"} =>
                   pc'[t] = pc[t] /\ callee'[t] = callee[t] /\ target'[t] = target[t]
    PROVE  \A q \in Queues :
             /\ Undoing(q)' = Undoing(q)
             /\ Assigning(q)' = Assigning(q)
             /\ Claimed(q)' = Claimed(q)
             /\ NumClaimed(q)' = NumClaimed(q)
             /\ \A t \in Threads : OwnSlots(q, t)' = OwnSlots(q, t)
<1> TAKE q \in Queues
<1>1. Undoing(q)' = Undoing(q) /\ Assigning(q)' = Assigning(q)
  BY DEF Undoing, Assigning
<1>2. Claimed(q)' = Claimed(q)
  <2>1. \A t \in Assigning(q) : target'[t] = target[t]
    BY DEF Assigning
  <2>2. Owned(q)' = Owned(q)
    BY DEF Owned, tableVars
  <2>3. QED
    BY <1>1, <2>1, <2>2 DEF Claimed
<1>3. NumClaimed(q)' = NumClaimed(q)
  BY <1>1 DEF NumClaimed, tableVars
<1>4. \A t \in Threads : OwnSlots(q, t)' = OwnSlots(q, t)
  BY DEF OwnSlots, tableVars
<1>5. QED
  BY <1>1, <1>2, <1>3, <1>4

(* Such a step keeps everything that is said of the table and its claims.   *)
LEMMA QuietStep ==
    ASSUME RegistryInv,
           UNCHANGED tableVars,
           \A t \in Threads :
               pc'[t] \in {"assign", "undo"} \/ pc[t] \in {"assign", "undo"} =>
                   pc'[t] = pc[t] /\ callee'[t] = callee[t] /\ target'[t] = target[t]
    PROVE  Segment' /\ SlotUnique' /\ Targets'
<1> USE DEF RegistryInv
<1>1. Segment'
  BY TableUntouched DEF Segment
<1>2. SlotUnique'
  BY DEF SlotUnique, tableVars
<1>3. Targets'
  BY DEF Targets, tableVars
<1>4. QED
  BY <1>1, <1>2, <1>3

(* Entries are numbered from zero, and there is at least one.               *)
LEMMA SlotsNat ==
    ASSUME NEW q \in Queues
    PROVE  MaxProducers[q] \in Nat /\ MaxProducers[q] >= 1 /\ Slots(q) \subseteq Nat
<1>1. MaxProducers[q] \in Nat \ {0}
  BY RegistryAssumption
<1>2. QED
  BY <1>1 DEF Slots

(* What a thread in the middle of a call can count on.                      *)
LEMMA InCall ==
    ASSUME RegistryInv, NEW t \in Threads
    PROVE  /\ callee[t] \in Queues
           /\ Slots(callee[t]) \subseteq Nat
           /\ pc[t] # "idle" => returned[t] = NoIndex
           /\ pc[t] = "check" => cachedIndex[t] \in Nat
<1>1. callee[t] \in Queues
  BY DEF RegistryInv, RegistryTypeOK
<1>2. QED
  BY <1>1, SlotsNat DEF RegistryInv, InFlight

(* A call, and the comparison of the cached index with the counter.         *)
LEMMA EnterInv ==
    ASSUME RegistryInv, NEW t \in Threads, NEW q \in Queues, Enter(t, q)
    PROVE  RegistryInv'
<1> USE RegistryAssumption DEF RegistryInv, Enter, Goto
<1>1. RegistryTypeOK'
  BY DEF RegistryTypeOK, tableVars, scanVars, Steps
<1>2. \A u \in Threads : u # t => pc'[u] = pc[u] /\ callee'[u] = callee[u] /\ target'[u] = target[u]
                                  /\ returned'[u] = returned[u] /\ cachedIndex'[u] = cachedIndex[u]
  BY DEF RegistryTypeOK
<1>3. pc'[t] \in {"check", "search"} /\ returned'[t] = NoIndex /\ callee'[t] = q
  BY DEF RegistryTypeOK
<1>4. Segment' /\ SlotUnique' /\ Targets'
  BY <1>2, <1>3, QuietStep DEF tableVars
<1>5. \A r \in Queues : Claimed(r)' = Claimed(r) /\ \A u \in Threads : OwnSlots(r, u)' = OwnSlots(r, u)
  BY <1>2, <1>3, TableUntouched
<1>6. InFlight'
  <2>1. pc'[t] = "check" => cachedIndex'[t] \in Nat
    BY DEF RegistryTypeOK
  <2>2. t \in callers'[q] /\ \A r \in Queues : callers[r] \subseteq callers'[r]
    BY DEF RegistryTypeOK
  <2>3. QED
    BY <1>2, <1>3, <1>5, <2>1, <2>2 DEF InFlight, RegistryTypeOK
<1>7. EntryIsOwn'
  BY <1>2, <1>3, RegistryAssumption DEF EntryIsOwn, tableVars
<1>8. RefusedOnlyWhenFull'
  BY <1>2, <1>3, <1>5 DEF RefusedOnlyWhenFull, RegistryTypeOK
<1>9. QED
  BY <1>1, <1>4, <1>6, <1>7, <1>8

(* The comparison of the cached entry with the caller: it returns only an   *)
(* entry that bears the caller's id.                                        *)
LEMMA CheckCacheInv ==
    ASSUME RegistryInv, NEW t \in Threads, CheckCache(t)
    PROVE  RegistryInv'
<1> USE RegistryAssumption DEF RegistryInv, CheckCache, Goto, Return
<1>0. /\ callee[t] \in Queues /\ Slots(callee[t]) \subseteq Nat
      /\ returned[t] = NoIndex /\ cachedIndex[t] \in Nat
  BY InCall
<1>1. RegistryTypeOK'
  <2>1. /\ returned' \in {returned, [returned EXCEPT ![t] = cachedIndex[t]]}
        /\ cachedIndex' \in {cachedIndex, [cachedIndex EXCEPT ![t] = NoIndex]}
        /\ overrun' \in {overrun, overrun \union {callee[t]}}
        /\ UNCHANGED <<tableVars, callee, target, scanVars, callers>>
    OBVIOUS
  <2>2. RegistryTypeOK /\ \E s \in Steps : pc' = [pc EXCEPT ![t] = s]
    BY DEF Steps
  <2> HIDE DEF RegistryInv, CheckCache, Goto, Return
  <2>3. returned' \in [Threads -> Nat \union {NoIndex, Refused}]
    BY <1>0, <2>1, <2>2 DEF RegistryTypeOK
  <2>4. pc' \in [Threads -> Steps]
    BY <2>2 DEF RegistryTypeOK
  <2>5. cachedIndex' \in [Threads -> Nat \union {NoIndex}] /\ overrun' \subseteq Queues
    BY <1>0, <2>1, <2>2 DEF RegistryTypeOK
  <2>6. QED
    BY <2>1, <2>2, <2>3, <2>4, <2>5 DEF RegistryTypeOK, tableVars, scanVars
<1>2. \A u \in Threads : u # t => pc'[u] = pc[u] /\ returned'[u] = returned[u]
                                  /\ cachedIndex'[u] = cachedIndex[u]
  BY DEF RegistryTypeOK
<1>3. pc'[t] \in {"idle", "search", "undefined"} /\ callee' = callee /\ target' = target
  BY DEF RegistryTypeOK
<1>4. Segment' /\ SlotUnique' /\ Targets'
  BY <1>2, <1>3, QuietStep DEF tableVars
<1>5. \A r \in Queues : Claimed(r)' = Claimed(r) /\ \A u \in Threads : OwnSlots(r, u)' = OwnSlots(r, u)
  BY <1>2, <1>3, TableUntouched
<1>6. InFlight'
  BY <1>2, <1>3, <1>5 DEF InFlight, RegistryTypeOK
<1>7. EntryIsOwn'
  <2>1. returned'[t] \in Nat => returned'[t] \in Slots(callee[t]) /\ slotThread[callee[t]][returned'[t]] = t
    BY <1>0 DEF RegistryTypeOK
  <2>2. QED
    BY <1>2, <1>3, <2>1 DEF EntryIsOwn, tableVars
<1>8. RefusedOnlyWhenFull'
  <2>1. returned'[t] # Refused
    BY <1>0 DEF RegistryTypeOK
  <2>2. QED
    BY <1>2, <1>3, <1>5, <2>1 DEF RefusedOnlyWhenFull, RegistryTypeOK
<1>9. QED
  BY <1>1, <1>4, <1>6, <1>7, <1>8

(* The search: the entry it returns is the only one of the caller.          *)
LEMMA SearchInv ==
    ASSUME RegistryInv, NEW t \in Threads, Search(t)
    PROVE  RegistryInv'
<1> USE RegistryAssumption DEF RegistryInv, Search, Goto, Return
<1> DEFINE own == OwnSlots(callee[t], t)
           first == CHOOSE i \in own : \A j \in own : i <= j
<1>1. own # {} => first \in own
  <2>1. own \subseteq Slots(callee[t]) /\ Slots(callee[t]) \subseteq Nat /\ callee[t] \in Queues
    BY InCall DEF OwnSlots
  <2>2. \A i, j \in own : i = j
    BY <2>1 DEF SlotUnique, OwnSlots
  <2>3. ASSUME own # {}
        PROVE  \E i \in own : \A j \in own : i <= j
    BY <2>1, <2>2, <2>3
  <2>4. QED
    BY <2>3
<1>2. own # {} => first \in Slots(callee[t]) /\ first \in Nat /\ slotThread[callee[t]][first] = t
  BY <1>1, InCall DEF OwnSlots
<1>3. RegistryTypeOK'
  <2>1. \/ /\ own # {}
           /\ cachedIndex' = [cachedIndex EXCEPT ![t] = first]
           /\ returned' = [returned EXCEPT ![t] = first]
           /\ pc' = [pc EXCEPT ![t] = "idle"]
        \/ cachedIndex' = cachedIndex /\ returned' = returned /\ pc' = [pc EXCEPT ![t] = "full"]
    OBVIOUS
  <2>2. RegistryTypeOK /\ UNCHANGED <<tableVars, callee, target, scanVars, overrun, callers>>
    OBVIOUS
  <2> HIDE DEF first, own, RegistryInv, Search, Goto, Return
  <2>3. cachedIndex' \in [Threads -> Nat \union {NoIndex}]
    BY <1>2, <2>1, <2>2 DEF RegistryTypeOK
  <2>4. returned' \in [Threads -> Nat \union {NoIndex, Refused}]
    BY <1>2, <2>1, <2>2 DEF RegistryTypeOK
  <2>5. pc' \in [Threads -> Steps]
    <3>1. "idle" \in Steps /\ "full" \in Steps
      BY DEF Steps
    <3>2. QED
      BY <2>1, <2>2, <3>1 DEF RegistryTypeOK
  <2>6. QED
    BY <2>2, <2>3, <2>4, <2>5 DEF RegistryTypeOK, tableVars, scanVars
<1> HIDE DEF first
<1>4. \A u \in Threads : u # t => pc'[u] = pc[u] /\ returned'[u] = returned[u]
                                  /\ cachedIndex'[u] = cachedIndex[u]
  BY DEF RegistryTypeOK
<1>5. /\ callee' = callee /\ target' = target
      /\ \/ pc'[t] = "idle" /\ own # {} /\ returned'[t] = first
         \/ pc'[t] = "full" /\ own = {} /\ returned'[t] = NoIndex
  BY DEF RegistryTypeOK, InFlight, first
<1>6. Segment' /\ SlotUnique' /\ Targets'
  BY <1>4, <1>5, QuietStep DEF tableVars
<1>7. \A r \in Queues : Claimed(r)' = Claimed(r) /\ \A u \in Threads : OwnSlots(r, u)' = OwnSlots(r, u)
  BY <1>4, <1>5, TableUntouched
<1>8. InFlight'
  BY <1>4, <1>5, <1>7 DEF InFlight, RegistryTypeOK
<1>9. EntryIsOwn'
  BY <1>2, <1>4, <1>5 DEF EntryIsOwn, tableVars
<1>10. RefusedOnlyWhenFull'
  BY <1>2, <1>4, <1>5, <1>7 DEF RefusedOnlyWhenFull, RegistryTypeOK
<1>11. QED
  BY <1>3, <1>6, <1>8, <1>9, <1>10

(* The test for a full table: with as many claims as entries and none in    *)
(* excess, every entry is claimed.                                          *)
LEMMA CheckFullInv ==
    ASSUME RegistryInv, NEW t \in Threads, CheckFull(t)
    PROVE  RegistryInv'
<1> USE RegistryAssumption DEF RegistryInv, CheckFull, Goto, Return
<1>1. RegistryTypeOK'
  <2>1. /\ RegistryTypeOK /\ UNCHANGED <<tableVars, cachedIndex, callee, target, scanVars, overrun, callers>>
        /\ \E s \in Steps : pc' = [pc EXCEPT ![t] = s]
        /\ returned' = returned \/ returned' = [returned EXCEPT ![t] = Refused]
    BY DEF Steps
  <2> HIDE DEF RegistryInv, CheckFull, Goto, Return
  <2>2. pc' \in [Threads -> Steps]
    BY <2>1 DEF RegistryTypeOK
  <2>3. returned' \in [Threads -> Nat \union {NoIndex, Refused}]
    BY <2>1 DEF RegistryTypeOK
  <2>4. QED
    BY <2>1, <2>2, <2>3 DEF RegistryTypeOK, tableVars, scanVars
<1>2. \A u \in Threads : u # t => pc'[u] = pc[u] /\ returned'[u] = returned[u]
  BY DEF RegistryTypeOK
<1>3. /\ callee' = callee /\ target' = target /\ cachedIndex' = cachedIndex
      /\ \/ pc'[t] = "idle" /\ activeProducers[callee[t]] = MaxProducers[callee[t]] /\ returned'[t] = Refused
         \/ pc'[t] = "claim" /\ returned'[t] = NoIndex
  BY DEF RegistryTypeOK, InFlight
<1>4. Segment' /\ SlotUnique' /\ Targets'
  BY <1>2, <1>3, QuietStep DEF tableVars
<1>5. \A r \in Queues : Claimed(r)' = Claimed(r) /\ \A u \in Threads : OwnSlots(r, u)' = OwnSlots(r, u)
  BY <1>2, <1>3, TableUntouched
<1>6. InFlight'
  BY <1>2, <1>3, <1>5 DEF InFlight, RegistryTypeOK
<1>7. EntryIsOwn'
  BY <1>2, <1>3 DEF EntryIsOwn, tableVars
<1>8. RefusedOnlyWhenFull'
  <2>1. ASSUME activeProducers[callee[t]] = MaxProducers[callee[t]]
        PROVE  Claimed(callee[t]) = Slots(callee[t])
    <3>1. callee[t] \in Queues
      BY DEF RegistryTypeOK
    <3>2. NumClaimed(callee[t]) = MaxProducers[callee[t]]
      <4>1. CASE Undoing(callee[t]) # {}
        BY <3>1, <4>1 DEF Segment
      <4>2. CASE Undoing(callee[t]) = {}
        <5>1. Cardinality(Undoing(callee[t])) = 0
          BY <4>2, FS_EmptySet
        <5>2. QED
          BY <2>1, <3>1, <5>1 DEF NumClaimed, RegistryTypeOK
      <4>3. QED
        BY <4>1, <4>2
    <3>3. QED
      BY <3>1, <3>2 DEF Segment, Slots
  <2>2. OwnSlots(callee[t], t) = {}
    BY DEF InFlight
  <2>3. returned'[t] = Refused => activeProducers[callee[t]] = MaxProducers[callee[t]]
    BY <1>3
  <2>4. QED
    BY <1>2, <1>3, <1>5, <2>1, <2>2, <2>3 DEF RefusedOnlyWhenFull, RegistryTypeOK
<1>9. QED
  BY <1>1, <1>4, <1>6, <1>7, <1>8

(* The fetch_add takes the first unclaimed entry, or the table is full.     *)
LEMMA ClaimInv ==
    ASSUME RegistryInv, NEW t \in Threads, Claim(t)
    PROVE  RegistryInv'
<1> USE RegistryAssumption DEF RegistryInv, Claim, Goto
<1> DEFINE q == callee[t]
<1>0. q \in Queues /\ MaxProducers[q] \in Nat /\ returned[t] = NoIndex /\ activeProducers[q] \in Nat
  BY InCall, SlotsNat DEF RegistryTypeOK
<1>1. RegistryTypeOK'
  BY <1>0 DEF RegistryTypeOK, tableVars, scanVars, Steps
<1>2. \A u \in Threads : u # t => pc'[u] = pc[u] /\ target'[u] = target[u]
  BY DEF RegistryTypeOK
<1>3. target'[t] = activeProducers[q] /\ pc'[t] \in {"undo", "assign"}
  BY DEF RegistryTypeOK
<1>4. pc'[t] = "undo" <=> activeProducers[q] >= MaxProducers[q]
  BY DEF RegistryTypeOK
<1>5. activeProducers'[q] = activeProducers[q] + 1
  BY <1>0 DEF RegistryTypeOK
<1>6. \A r \in Queues : r # q => activeProducers'[r] = activeProducers[r]
  BY DEF RegistryTypeOK
<1>7. NumClaimed(q) = IF activeProducers[q] >= MaxProducers[q] THEN MaxProducers[q] ELSE activeProducers[q]
  <2>1. Cardinality(Undoing(q)) \in Nat /\ (Undoing(q) # {} => Cardinality(Undoing(q)) >= 1)
    BY UndoingFinite
  <2>2. NumClaimed(q) \in 0 .. MaxProducers[q] /\ (Undoing(q) # {} => NumClaimed(q) = MaxProducers[q])
    BY <1>0 DEF Segment
  <2>3. CASE Undoing(q) # {}
    BY <1>0, <2>1, <2>2, <2>3 DEF NumClaimed
  <2>4. CASE Undoing(q) = {}
    <3>1. Cardinality(Undoing(q)) = 0
      BY <2>4, FS_EmptySet
    <3>2. QED
      BY <1>0, <2>2, <3>1 DEF NumClaimed
  <2>5. QED
    BY <2>3, <2>4
<1>8. Segment'
  <2>1. ASSUME NEW r \in Queues, r # q
        PROVE  /\ Claimed(r)' = Claimed(r) /\ NumClaimed(r)' = NumClaimed(r)
               /\ Undoing(r)' = Undoing(r)
    <3>1. Undoing(r)' = Undoing(r) /\ Assigning(r)' = Assigning(r) /\ t \notin Assigning(r)
      BY <1>2, <2>1 DEF Undoing, Assigning
    <3>2. \A u \in Assigning(r) : target'[u] = target[u]
      BY <1>2, <3>1 DEF Assigning
    <3>3. Owned(r)' = Owned(r)
      BY DEF Owned
    <3>4. QED
      BY <1>6, <2>1, <3>1, <3>2, <3>3 DEF Claimed, NumClaimed
  <2>2. Owned(q)' = Owned(q)
    BY DEF Owned
  <2>3. CASE activeProducers[q] >= MaxProducers[q]
    <3>1. Undoing(q)' = Undoing(q) \union {t} /\ t \notin Undoing(q)
      BY <1>2, <1>4, <2>3 DEF Undoing
    <3>2. Assigning(q)' = Assigning(q) /\ t \notin Assigning(q)
      BY <1>2, <1>4, <2>3 DEF Assigning
    <3>3. Claimed(q)' = Claimed(q)
      <4>1. \A u \in Assigning(q) : target'[u] = target[u]
        BY <1>2, <3>2 DEF Assigning
      <4>2. QED
        BY <2>2, <3>2, <4>1 DEF Claimed
    <3>4. Cardinality(Undoing(q))' = Cardinality(Undoing(q)) + 1
      BY <3>1, UndoingFinite, FS_AddElement
    <3>5. NumClaimed(q)' = NumClaimed(q)
      BY <1>0, <1>5, <3>4, UndoingFinite DEF NumClaimed
    <3>6. QED
      BY <1>7, <2>1, <2>3, <3>3, <3>5 DEF Segment
  <2>4. CASE ~(activeProducers[q] >= MaxProducers[q])
    <3>1. Undoing(q)' = Undoing(q)
      BY <1>2, <1>3, <1>4, <2>4 DEF Undoing
    <3>2. Assigning(q)' = Assigning(q) \union {t} /\ t \notin Assigning(q)
      BY <1>2, <1>3, <1>4, <2>4 DEF Assigning
    <3>3. Claimed(q)' = Claimed(q) \union {activeProducers[q]}
      <4>1. \A u \in Assigning(q) : target'[u] = target[u]
        BY <1>2, <3>2 DEF Assigning
      <4>2. QED
        BY <1>3, <2>2, <3>2, <4>1 DEF Claimed
    <3>4. NumClaimed(q)' = NumClaimed(q) + 1
      BY <1>0, <1>5, <3>1, UndoingFinite DEF NumClaimed
    <3>5. NumClaimed(q) = activeProducers[q] /\ Undoing(q) = {}
      <4>1. Undoing(q) # {} => NumClaimed(q) = MaxProducers[q]
        BY <1>0 DEF Segment
      <4>2. QED
        BY <1>0, <1>7, <2>4, <4>1
    <3>6. Claimed(q)' = 0 .. (NumClaimed(q)' - 1)
      <4>1. Claimed(q) = 0 .. (activeProducers[q] - 1)
        BY <1>0, <3>5 DEF Segment
      <4>2. QED
        BY <1>0, <3>3, <3>4, <3>5, <4>1
    <3>7. NumClaimed(q)' \in 0 .. MaxProducers[q]
      BY <1>0, <2>4, <3>4, <3>5
    <3>8. QED
      BY <2>1, <3>1, <3>5, <3>6, <3>7 DEF Segment
  <2>5. QED
    BY <2>3, <2>4
<1>9. Targets'
  <2>1. ASSUME pc'[t] = "assign"
        PROVE  /\ target'[t] \in Slots(q)
               /\ slotThread[q][target'[t]] = NoThread
               /\ \A u \in Threads \ {t} :
                     pc[u] = "assign" /\ callee[u] = q => target[u] # target'[t]
    <3>1. target'[t] = NumClaimed(q) /\ NumClaimed(q) < MaxProducers[q]
      BY <1>0, <1>3, <1>4, <1>7, <2>1
    <3>2. Claimed(q) = 0 .. (NumClaimed(q) - 1) /\ NumClaimed(q) \in Nat
      BY <1>0 DEF Segment
    <3>3. target'[t] \in Slots(q) /\ target'[t] \notin Claimed(q)
      BY <1>0, <3>1, <3>2 DEF Slots
    <3>4. QED
      BY <1>0, <3>3 DEF Claimed, Owned, Assigning
  <2>2. QED
    BY <1>2, <2>1 DEF Targets
<1>10. InFlight'
  <2>1. \A r \in Queues : \A u \in Threads : OwnSlots(r, u)' = OwnSlots(r, u)
    BY DEF OwnSlots
  <2>2. QED
    BY <1>2, <1>3, <2>1 DEF InFlight, RegistryTypeOK
<1>11. SlotUnique' /\ EntryIsOwn'
  BY DEF SlotUnique, EntryIsOwn
<1>12. RefusedOnlyWhenFull'
  <2>1. \A u \in Threads : returned[u] = Refused => u # t
    BY <1>0
  <2>2. \A r \in Queues : Claimed(r) = Slots(r) => Claimed(r)' = Slots(r)
    <3>1. ASSUME NEW r \in Queues, Claimed(r) = Slots(r)
          PROVE  Claimed(r)' = Slots(r)
      <4>1. Claimed(r)' = 0 .. (NumClaimed(r)' - 1) /\ NumClaimed(r)' \in 0 .. MaxProducers[r]
        BY <1>8 DEF Segment
      <4>2. Claimed(r) \subseteq Claimed(r)'
        <5>1. Assigning(r) \subseteq Assigning(r)' /\ \A u \in Assigning(r) : target'[u] = target[u]
          BY <1>2 DEF Assigning
        <5>2. Owned(r)' = Owned(r)
          BY DEF Owned
        <5>3. QED
          BY <5>1, <5>2 DEF Claimed
      <4>3. MaxProducers[r] \in Nat /\ MaxProducers[r] >= 1
        BY SlotsNat
      <4>4. QED
        BY <3>1, <4>1, <4>2, <4>3 DEF Slots
    <3>2. QED
      BY <3>1
  <2>3. \A r \in Queues : \A u \in Threads : OwnSlots(r, u)' = OwnSlots(r, u)
    BY DEF OwnSlots
  <2>4. QED
    BY <2>1, <2>2, <2>3 DEF RefusedOnlyWhenFull, RegistryTypeOK
<1>13. QED
  BY <1>1, <1>8, <1>9, <1>10, <1>11, <1>12

(* The fetch_sub returns the counter to the size of the table at the least. *)
LEMMA UndoInv ==
    ASSUME RegistryInv, NEW t \in Threads, Undo(t)
    PROVE  RegistryInv'
<1> USE RegistryAssumption DEF RegistryInv, Undo, Goto, Return
<1> DEFINE q == callee[t]
<1>0. q \in Queues /\ MaxProducers[q] \in Nat /\ activeProducers[q] \in Nat
  BY InCall, SlotsNat DEF RegistryTypeOK
<1>1. \A u \in Threads : u # t => pc'[u] = pc[u] /\ returned'[u] = returned[u]
  BY DEF RegistryTypeOK
<1>2. pc'[t] = "idle" /\ returned'[t] = Refused /\ OwnSlots(q, t) = {}
  BY DEF RegistryTypeOK, InFlight
<1>3. activeProducers'[q] = activeProducers[q] - 1
  BY <1>0 DEF RegistryTypeOK
<1>4. \A r \in Queues : r # q => activeProducers'[r] = activeProducers[r]
  BY DEF RegistryTypeOK
<1>5. Undoing(q)' = Undoing(q) \ {t} /\ t \in Undoing(q)
  BY <1>1, <1>2 DEF Undoing
<1>6. \A r \in Queues : r # q => Undoing(r)' = Undoing(r)
  BY <1>1 DEF Undoing
<1>7. \A r \in Queues : Claimed(r)' = Claimed(r) /\ \A u \in Threads : OwnSlots(r, u)' = OwnSlots(r, u)
  <2> TAKE r \in Queues
  <2>1. Assigning(r)' = Assigning(r)
    BY <1>1, <1>2 DEF Assigning
  <2>2. Owned(r)' = Owned(r)
    BY DEF Owned
  <2>3. QED
    BY <2>1, <2>2 DEF Claimed, OwnSlots
<1>8. NumClaimed(q)' = NumClaimed(q)
  <2>1. Cardinality(Undoing(q))' = Cardinality(Undoing(q)) - 1
    BY <1>5, UndoingFinite, FS_RemoveElement
  <2>2. QED
    BY <1>0, <1>3, <2>1, UndoingFinite DEF NumClaimed
<1>9. \A r \in Queues : NumClaimed(r)' = NumClaimed(r)
  BY <1>4, <1>6, <1>8 DEF NumClaimed
<1>10. Segment'
  BY <1>5, <1>6, <1>7, <1>9 DEF Segment
<1>11. RegistryTypeOK'
  <2>1. activeProducers[q] >= 1
    <3>1. NumClaimed(q) \in 0 .. MaxProducers[q]
      BY <1>0 DEF Segment
    <3>2. Cardinality(Undoing(q)) \in Nat /\ Cardinality(Undoing(q)) >= 1
      BY <1>5, UndoingFinite
    <3>3. QED
      BY <1>0, <3>1, <3>2 DEF NumClaimed
  <2>2. activeProducers' \in [Queues -> Nat]
    BY <1>0, <2>1 DEF RegistryTypeOK
  <2>3. QED
    BY <2>2 DEF RegistryTypeOK, scanVars, Steps
<1>12. Targets' /\ SlotUnique'
  BY <1>1, <1>2 DEF Targets, SlotUnique
<1>13. InFlight'
  BY <1>1, <1>2, <1>7 DEF InFlight, RegistryTypeOK
<1>14. EntryIsOwn'
  BY <1>1, <1>2 DEF EntryIsOwn
<1>15. RefusedOnlyWhenFull'
  <2>1. Claimed(q) = Slots(q)
    BY <1>0, <1>5 DEF Segment, Slots
  <2>2. QED
    BY <1>1, <1>2, <1>7, <2>1 DEF RefusedOnlyWhenFull, RegistryTypeOK
<1>16. QED
  BY <1>10, <1>11, <1>12, <1>13, <1>14, <1>15

(* The id goes into an entry that no thread owns and no other awaits.       *)
LEMMA AssignInv ==
    ASSUME RegistryInv, NEW t \in Threads, Assign(t)
    PROVE  /\ RegistryInv'
           /\ \A q \in Queues : \A i \in Owned(q) : slotThread'[q][i] = slotThread[q][i]
<1> USE RegistryAssumption DEF RegistryInv, Assign, Goto, Return
<1> DEFINE q == callee[t]
           n == target[t]
<1>0. q \in Queues /\ Slots(q) \subseteq Nat /\ returned[t] = NoIndex
  BY InCall
<1>1. /\ n \in Slots(q) /\ n \in Nat
      /\ slotThread[q][n] = NoThread
      /\ OwnSlots(q, t) = {}
      /\ \A u \in Threads \ {t} : pc[u] = "assign" /\ callee[u] = q => target[u] # n
  BY <1>0 DEF Targets, InFlight
<1>2. /\ \A r \in Queues : slotThread[r] \in [Slots(r) -> Threads \union {NoThread}]
      /\ slotThread \in [Queues -> UNION {[Slots(r) -> Threads \union {NoThread}] : r \in Queues}]
  BY DEF RegistryTypeOK
<1>3. \A r \in Queues : \A i \in Slots(r) :
          slotThread'[r][i] = IF r = q /\ i = n THEN t ELSE slotThread[r][i]
  BY <1>0, <1>1, <1>2
<1>4. \A r \in Queues : slotThread'[r] \in [Slots(r) -> Threads \union {NoThread}]
  <2> TAKE r \in Queues
  <2>1. CASE r = q
    BY <1>0, <1>1, <1>2, <2>1
  <2>2. CASE r # q
    BY <1>0, <1>2, <2>2
  <2>3. QED
    BY <2>1, <2>2
<1>5. slotThread' \in [Queues -> UNION {[Slots(r) -> Threads \union {NoThread}] : r \in Queues}]
  <2>1. slotThread' = [r \in Queues |-> slotThread'[r]]
    BY <1>2
  <2>2. QED
    BY <1>4, <2>1
<1>6. RegistryTypeOK'
  BY <1>1, <1>4, <1>5 DEF RegistryTypeOK, scanVars, Steps
<1>7. \A u \in Threads : u # t => pc'[u] = pc[u] /\ returned'[u] = returned[u] /\ cachedIndex'[u] = cachedIndex[u]
  BY DEF RegistryTypeOK
<1>8. pc'[t] = "idle" /\ returned'[t] = n
  BY DEF RegistryTypeOK
<1>9. \A r \in Queues : \A i \in Owned(r) : slotThread'[r][i] = slotThread[r][i]
  BY <1>1, <1>3 DEF Owned
<1>10. \A r \in Queues : Claimed(r)' = Claimed(r) /\ Undoing(r)' = Undoing(r)
  <2> TAKE r \in Queues
  <2>1. Undoing(r)' = Undoing(r)
    BY <1>7, <1>8 DEF Undoing
  <2>2. CASE r = q
    <3>1. Owned(q)' = Owned(q) \union {n}
      BY <1>0, <1>1, <1>3 DEF Owned
    <3>2. Assigning(q)' = Assigning(q) \ {t} /\ t \in Assigning(q)
      BY <1>7, <1>8 DEF Assigning
    <3>3. QED
      BY <2>1, <2>2, <3>1, <3>2 DEF Claimed
  <2>3. CASE r # q
    <3>1. Owned(r)' = Owned(r)
      BY <1>3, <2>3 DEF Owned
    <3>2. Assigning(r)' = Assigning(r)
      BY <1>7, <1>8, <2>3 DEF Assigning
    <3>3. QED
      BY <2>1, <3>1, <3>2 DEF Claimed
  <2>4. QED
    BY <2>2, <2>3
<1>11. Segment'
  BY <1>10 DEF Segment, NumClaimed
<1>12. \A r \in Queues : \A u \in Threads :
          OwnSlots(r, u)' = IF u = t /\ r = q THEN {n} ELSE OwnSlots(r, u)
  <2>1. ASSUME NEW r \in Queues, NEW u \in Threads
        PROVE  OwnSlots(r, u)' = IF u = t /\ r = q THEN {n} ELSE OwnSlots(r, u)
    <3>1. OwnSlots(r, u)' = {i \in Slots(r) : slotThread'[r][i] = u}
      BY DEF OwnSlots
    <3>2. CASE u = t /\ r = q
      BY <1>1, <1>3, <3>1, <3>2 DEF OwnSlots
    <3>3. CASE ~(u = t /\ r = q)
      BY <1>1, <1>3, <3>1, <3>3 DEF OwnSlots
    <3>4. QED
      BY <3>2, <3>3
  <2>2. QED
    BY <2>1
<1>13. Targets'
  <2>1. ASSUME NEW u \in Threads, pc'[u] = "assign"
        PROVE  /\ u # t /\ pc[u] = "assign" /\ target[u] \in Slots(callee[u]) /\ callee[u] \in Queues
               /\ slotThread[callee[u]][target[u]] = NoThread
               /\ ~(callee[u] = q /\ target[u] = n)
    BY <1>1, <1>7, <1>8, <2>1, InCall DEF Targets
  <2>2. \A u \in Threads : pc'[u] = "assign" => slotThread'[callee[u]][target[u]] = NoThread
    BY <1>3, <2>1
  <2>3. QED
    BY <1>7, <2>1, <2>2 DEF Targets
<1>14. SlotUnique'
  BY <1>1, <1>2, <1>3 DEF SlotUnique, OwnSlots
<1>15. InFlight'
  BY <1>7, <1>8, <1>12 DEF InFlight, RegistryTypeOK
<1>16. EntryIsOwn'
  <2>1. \A u \in Threads : u # t /\ returned[u] \in Nat => slotThread'[callee[u]][returned[u]] = u
    BY <1>1, <1>3, InCall DEF EntryIsOwn
  <2>2. slotThread'[q][n] = t
    BY <1>0, <1>1, <1>3
  <2>3. QED
    BY <1>1, <1>7, <1>8, <2>1, <2>2 DEF EntryIsOwn
<1>17. RefusedOnlyWhenFull'
  BY <1>1, <1>7, <1>8, <1>10, <1>12 DEF RefusedOnlyWhenFull, RegistryTypeOK
<1>18. QED
  BY <1>6, <1>9, <1>11, <1>13, <1>14, <1>15, <1>16, <1>17

(* The walk of the loop thread reads the table and changes nothing of it.   *)
LEMMA ScanInv ==
    ASSUME RegistryInv, NEW q \in Queues, Scan(q)
    PROVE  RegistryInv' /\ UNCHANGED slotThread
<1>1. UNCHANGED <<tableVars, threadVars, callers>>
  BY DEF Scan
<1>2. RegistryTypeOK'
  <2>1. scanIndex[q] \in Nat /\ scanIndex \in [Queues -> Nat] /\ overrun \subseteq Queues
    BY DEF RegistryInv, RegistryTypeOK
  <2>2. \/ scanIndex' = [scanIndex EXCEPT ![q] = scanIndex[q] + 1]
        \/ scanIndex' = [scanIndex EXCEPT ![q] = 0]
        \/ scanIndex' = scanIndex
    BY DEF Scan
  <2>3. scanIndex' \in [Queues -> Nat]
    <3>1. scanIndex[q] + 1 \in Nat /\ 0 \in Nat
      BY <2>1
    <3>2. QED
      BY <2>1, <2>2, <3>1
  <2>4. overrun' \subseteq Queues
    BY <2>1 DEF Scan
  <2>5. QED
    BY <1>1, <2>3, <2>4 DEF RegistryInv, RegistryTypeOK, tableVars, threadVars
<1>3. Segment' /\ SlotUnique' /\ Targets'
  BY <1>1, QuietStep DEF RegistryInv, threadVars, tableVars
<1>4. \A r \in Queues : Claimed(r)' = Claimed(r) /\ \A u \in Threads : OwnSlots(r, u)' = OwnSlots(r, u)
  BY <1>1, TableUntouched DEF threadVars, tableVars
<1>5. InFlight' /\ EntryIsOwn' /\ RefusedOnlyWhenFull'
  BY <1>1, <1>4 DEF RegistryInv, InFlight, EntryIsOwn, RefusedOnlyWhenFull, RegistryTypeOK, threadVars, tableVars
<1>6. QED
  BY <1>1, <1>2, <1>3, <1>5 DEF RegistryInv, tableVars

(* Every step keeps the invariant, and no entry loses its owner.            *)
LEMMA StepInv ==
    ASSUME RegistryInv, [RegistryNext]_registryVars
    PROVE  /\ RegistryInv'
           /\ \A q \in Queues : \A i \in Owned(q) : slotThread'[q][i] = slotThread[q][i]
<1>1. CASE UNCHANGED registryVars
  <2>1. RegistryInv'
    <3>1. UNCHANGED <<tableVars, threadVars, scanIndex, overrun, callers>>
      BY <1>1 DEF registryVars, scanVars
    <3>2. Segment' /\ SlotUnique' /\ Targets'
      BY <3>1, QuietStep DEF threadVars
    <3>3. \A r \in Queues : Claimed(r)' = Claimed(r) /\ \A u \in Threads : OwnSlots(r, u)' = OwnSlots(r, u)
      BY <3>1, TableUntouched DEF threadVars
    <3>4. InFlight' /\ EntryIsOwn' /\ RefusedOnlyWhenFull'
      BY <3>1, <3>3 DEF RegistryInv, InFlight, EntryIsOwn, RefusedOnlyWhenFull, RegistryTypeOK, threadVars, tableVars
    <3>5. RegistryTypeOK'
      BY <3>1 DEF RegistryInv, RegistryTypeOK, threadVars, tableVars
    <3>6. QED
      BY <3>2, <3>4, <3>5 DEF RegistryInv
  <2>2. QED
    BY <1>1, <2>1 DEF registryVars, tableVars
<1>2. ASSUME NEW t \in Threads, NEW q \in Queues, Enter(t, q)
      PROVE  RegistryInv' /\ UNCHANGED slotThread
  BY <1>2, EnterInv DEF Enter, tableVars
<1>3. ASSUME NEW t \in Threads, CheckCache(t)
      PROVE  RegistryInv' /\ UNCHANGED slotThread
  BY <1>3, CheckCacheInv DEF CheckCache, tableVars
<1>4. ASSUME NEW t \in Threads, Search(t)
      PROVE  RegistryInv' /\ UNCHANGED slotThread
  BY <1>4, SearchInv DEF Search, tableVars
<1>5. ASSUME NEW t \in Threads, CheckFull(t)
      PROVE  RegistryInv' /\ UNCHANGED slotThread
  BY <1>5, CheckFullInv DEF CheckFull, tableVars
<1>6. ASSUME NEW t \in Threads, Claim(t)
      PROVE  RegistryInv' /\ UNCHANGED slotThread
  BY <1>6, ClaimInv DEF Claim
<1>7. ASSUME NEW t \in Threads, Undo(t)
      PROVE  RegistryInv' /\ UNCHANGED slotThread
  BY <1>7, UndoInv DEF Undo
<1>8. QED
  BY <1>1, <1>2, <1>3, <1>4, <1>5, <1>6, <1>7, AssignInv, ScanInv DEF RegistryNext

(* The invariant, for every reachable state.                                *)
LEMMA RegistryCorrect == RegistrySpec => []RegistryInv
<1>1. RegistryInit => RegistryInv
  BY InitInv
<1>2. RegistryInv /\ [RegistryNext]_registryVars => RegistryInv'
  BY StepInv
<1>3. QED
  BY <1>1, <1>2, PTL DEF RegistrySpec

(* Type correctness; in particular fetch_sub never takes the counter below  *)
(* zero.                                                                    *)
THEOREM TypeCorrect == RegistrySpec => []RegistryTypeOK
<1>1. RegistryInv => RegistryTypeOK
  BY DEF RegistryInv
<1>2. QED
  BY <1>1, RegistryCorrect, PTL

(* Whatever the threads and queues, a thread owns at most one producer      *)
(* queue of an event queue (lines 452-494).                                 *)
THEOREM OneQueuePerThread == RegistrySpec => []SlotUnique
<1>1. RegistryInv => SlotUnique
  BY DEF RegistryInv
<1>2. QED
  BY <1>1, RegistryCorrect, PTL

(* The entry a call returns is inside the table and the caller's own,       *)
(* wherever the cached index came from.                                     *)
THEOREM ReturnedEntryIsOwn == RegistrySpec => []EntryIsOwn
<1>1. RegistryInv => EntryIsOwn
  BY DEF RegistryInv
<1>2. QED
  BY <1>1, RegistryCorrect, PTL

(* A thread is refused only by a table all of whose entries are claimed by  *)
(* other threads, although the counter passes the size of the table for a   *)
(* while when several threads find it almost full.                          *)
THEOREM RefusalJustified == RegistrySpec => []RefusedOnlyWhenFull
<1>1. RegistryInv => RefusedOnlyWhenFull
  BY DEF RegistryInv
<1>2. QED
  BY <1>1, RegistryCorrect, PTL

(* The counter counts the claimed entries, which are the first ones, and    *)
(* the claims that are about to be taken back.                              *)
THEOREM CounterAccounts == RegistrySpec => []CountAccounting
<1>1. ASSUME RegistryInv
      PROVE  CountAccounting
  <2> SUFFICES ASSUME NEW q \in Queues
               PROVE  /\ activeProducers[q] = Cardinality(Claimed(q)) + Cardinality(Undoing(q))
                      /\ \E n \in 0 .. MaxProducers[q] : Claimed(q) = 0 .. (n - 1)
    BY DEF CountAccounting
  <2> DEFINE n == NumClaimed(q)
  <2>1. n \in 0 .. MaxProducers[q] /\ Claimed(q) = 0 .. (n - 1) /\ n \in Nat
    BY <1>1, SlotsNat DEF RegistryInv, Segment
  <2>2. activeProducers[q] \in Nat /\ Cardinality(Undoing(q)) \in Nat
    BY <1>1, UndoingFinite DEF RegistryInv, RegistryTypeOK
  <2>3. Cardinality(0 .. (n - 1)) = n
    <3> HIDE DEF n
    <3>1. CASE n = 0
      <4>1. 0 .. (n - 1) = {}
        BY <3>1
      <4>2. QED
        BY <3>1, <4>1, FS_EmptySet
    <3>2. CASE n # 0
      <4>1. 0 <= n - 1 /\ n - 1 \in Int /\ (n - 1) - 0 + 1 = n
        BY <2>1, <3>2
      <4>2. QED
        BY <4>1, FS_Interval
    <3>3. QED
      BY <3>1, <3>2
  <2>4. activeProducers[q] = n + Cardinality(Undoing(q))
    BY <2>2 DEF NumClaimed
  <2>5. QED
    BY <2>1, <2>3, <2>4
<1>2. QED
  BY <1>1, RegistryCorrect, PTL

(* No step of any thread takes an entry from its owner.                     *)
THEOREM OwnersKeepEntries == RegistrySpec => SlotOwnerStable
<1>1. RegistryInv /\ [RegistryNext]_registryVars =>
        [\A q \in Queues : \A i \in Owned(q) : slotThread'[q][i] = slotThread[q][i]]_registryVars
  BY StepInv
<1>2. QED
  BY <1>1, RegistryCorrect, PTL DEF RegistrySpec, SlotOwnerStable

-----------------------------------------------------------------------------
(* The counter never exceeds the number of threads that have called: it     *)
(* counts the threads the table knows of.  An index that the counter covers *)
(* is therefore inside the table unless too many threads have called.       *)
Crowded(q) == Cardinality(callers[q]) > MaxProducers[q]
KnownCount ==
    \A q \in Queues :
        /\ Known(q) \subseteq callers[q]
        /\ Cardinality(Known(q)) = activeProducers[q]
CheckInside ==
    \A t \in Threads : pc[t] = "check" =>
        cachedIndex[t] \in Slots(callee[t]) \/ Crowded(callee[t])
OverrunInv == KnownCount /\ CheckInside /\ NoOverrunWithinLimit

(* What the counter covers but the table does not hold is a sign of more    *)
(* callers than entries.                                                    *)
LEMMA CoveredIndex ==
    ASSUME RegistryInv, KnownCount, NEW q \in Queues, NEW i \in Nat, i < activeProducers[q]
    PROVE  i \in Slots(q) \/ Crowded(q)
<1>1. callers[q] \subseteq Threads /\ activeProducers[q] \in Nat /\ MaxProducers[q] \in Nat
  BY SlotsNat DEF RegistryInv, RegistryTypeOK
<1>2. IsFiniteSet(callers[q])
  BY <1>1, FS_Subset, RegistryAssumption
<1>3. /\ Cardinality(callers[q]) \in Nat
      /\ activeProducers[q] <= Cardinality(callers[q])
  BY <1>2, FS_Subset, FS_CardinalityType DEF KnownCount
<1>4. QED
  BY <1>1, <1>3 DEF Crowded, Slots

(* A queue stays crowded: no caller is forgotten.                           *)
LEMMA CrowdedStable ==
    ASSUME RegistryInv, RegistryInv', NEW q \in Queues, callers[q] \subseteq callers'[q], Crowded(q)
    PROVE  Crowded(q)'
<1>1. callers'[q] \subseteq Threads /\ MaxProducers[q] \in Nat
  BY SlotsNat DEF RegistryInv, RegistryTypeOK
<1>2. IsFiniteSet(callers'[q]) /\ IsFiniteSet(callers[q])
  BY <1>1, FS_Subset, RegistryAssumption
<1>3. /\ Cardinality(callers[q]) <= Cardinality(callers'[q])
      /\ Cardinality(callers[q]) \in Nat /\ Cardinality(callers'[q]) \in Nat
  BY <1>2, FS_Subset, FS_CardinalityType
<1>4. QED
  BY <1>1, <1>3 DEF Crowded

(* Threads are known from their fetch_add on; a fetch_sub forgets one.      *)
LEMMA KnownStep ==
    ASSUME RegistryInv, [RegistryNext]_registryVars, KnownCount
    PROVE  KnownCount' /\ \A q \in Queues : callers[q] \subseteq callers'[q]
<1>0. RegistryInv'
  BY StepInv
<1>1. ASSUME callers' = callers \/ \E u \in Threads : \E r \in Queues : callers' = [callers EXCEPT ![r] = @ \union {u}]
      PROVE  \A q \in Queues : callers[q] \subseteq callers'[q]
  BY <1>1 DEF RegistryInv, RegistryTypeOK
<1>2. ASSUME UNCHANGED tableVars,
             \A q \in Queues : callers[q] \subseteq callers'[q],
             \A t \in Threads :
               pc'[t] \in {"assign", "undo"} \/ pc[t] \in {"assign", "undo"} =>
                   pc'[t] = pc[t] /\ callee'[t] = callee[t] /\ target'[t] = target[t]
      PROVE  KnownCount'
  <2>1. \A q \in Queues : Known(q)' = Known(q)
    BY <1>2, TableUntouched DEF Known
  <2>2. QED
    BY <1>2, <2>1 DEF KnownCount, tableVars
<1>3. ASSUME NEW q \in Queues
      PROVE  IsFiniteSet(Known(q)) /\ Known(q) \subseteq Threads
  <2>1. Known(q) \subseteq Threads
    BY DEF Known, Assigning, Undoing
  <2>2. QED
    BY <2>1, FS_Subset, RegistryAssumption
<1>4. CASE UNCHANGED registryVars
  BY <1>1, <1>2, <1>4 DEF registryVars, tableVars, threadVars
<1>5. ASSUME NEW t \in Threads, NEW q \in Queues, Enter(t, q)
      PROVE  KnownCount' /\ \A r \in Queues : callers[r] \subseteq callers'[r]
  BY <1>1, <1>2, <1>5 DEF Enter, Goto, RegistryInv, RegistryTypeOK
<1>6. ASSUME NEW t \in Threads, CheckCache(t) \/ Search(t) \/ CheckFull(t)
      PROVE  KnownCount' /\ \A r \in Queues : callers[r] \subseteq callers'[r]
  <2>1. CASE CheckCache(t)
    BY <1>1, <1>2, <2>1 DEF CheckCache, Goto, Return, RegistryInv, RegistryTypeOK
  <2>2. CASE Search(t)
    BY <1>1, <1>2, <2>2 DEF Search, Goto, Return, RegistryInv, RegistryTypeOK
  <2>3. CASE CheckFull(t)
    BY <1>1, <1>2, <2>3 DEF CheckFull, Goto, Return, RegistryInv, RegistryTypeOK
  <2>4. QED
    BY <1>6, <2>1, <2>2, <2>3
<1>7. ASSUME NEW t \in Threads, Claim(t)
      PROVE  KnownCount' /\ \A r \in Queues : callers[r] \subseteq callers'[r]
  <2> DEFINE q == callee[t]
  <2>0. /\ q \in Queues /\ pc[t] = "claim" /\ callers' = callers
        /\ slotThread' = slotThread /\ callee' = callee
    BY <1>7, InCall DEF Claim
  <2>1. /\ pc'[t] \in {"undo", "assign"} /\ \A u \in Threads : u # t => pc'[u] = pc[u]
        /\ activeProducers'[q] = activeProducers[q] + 1
        /\ \A r \in Queues : r # q => activeProducers'[r] = activeProducers[r]
    BY <1>7, <2>0 DEF Claim, Goto, RegistryInv, RegistryTypeOK
  <2>2. \A r \in Queues : \A u \in Threads : OwnSlots(r, u)' = OwnSlots(r, u)
    BY <2>0 DEF OwnSlots
  <2>3. t \notin Known(q) /\ t \in callers[q]
    BY <2>0 DEF RegistryInv, InFlight, Known, Assigning, Undoing
  <2>4. Known(q)' = Known(q) \union {t}
    BY <2>0, <2>1, <2>2 DEF Known, Assigning, Undoing
  <2>5. \A r \in Queues : r # q => Known(r)' = Known(r)
    BY <2>0, <2>1, <2>2 DEF Known, Assigning, Undoing
  <2>6. Cardinality(Known(q) \union {t}) = Cardinality(Known(q)) + 1
    BY <1>3, <2>0, <2>3, FS_AddElement
  <2>7. QED
    BY <2>0, <2>1, <2>3, <2>4, <2>5, <2>6 DEF KnownCount
<1>8. ASSUME NEW t \in Threads, Undo(t)
      PROVE  KnownCount' /\ \A r \in Queues : callers[r] \subseteq callers'[r]
  <2> DEFINE q == callee[t]
  <2>0. /\ q \in Queues /\ pc[t] = "undo" /\ callers' = callers
        /\ slotThread' = slotThread /\ callee' = callee
    BY <1>8, InCall DEF Undo
  <2>1. /\ pc'[t] = "idle" /\ \A u \in Threads : u # t => pc'[u] = pc[u]
        /\ activeProducers'[q] = activeProducers[q] - 1
        /\ \A r \in Queues : r # q => activeProducers'[r] = activeProducers[r]
    BY <1>8, <2>0 DEF Undo, Return, Goto, RegistryInv, RegistryTypeOK
  <2>2. \A r \in Queues : \A u \in Threads : OwnSlots(r, u)' = OwnSlots(r, u)
    BY <2>0 DEF OwnSlots
  <2>3. t \in Known(q) /\ OwnSlots(q, t) = {}
    BY <2>0 DEF RegistryInv, InFlight, Known, Undoing
  <2>4. Known(q)' = Known(q) \ {t}
    BY <2>0, <2>1, <2>2, <2>3 DEF Known, Assigning, Undoing
  <2>5. \A r \in Queues : r # q => Known(r)' = Known(r)
    BY <2>0, <2>1, <2>2 DEF Known, Assigning, Undoing
  <2>6. Cardinality(Known(q) \ {t}) = Cardinality(Known(q)) - 1
    BY <1>3, <2>0, <2>3, FS_RemoveElement
  <2>7. QED
    BY <2>0, <2>1, <2>4, <2>5, <2>6 DEF KnownCount
<1>9. ASSUME NEW t \in Threads, Assign(t)
      PROVE  KnownCount' /\ \A r \in Queues : callers[r] \subseteq callers'[r]
  <2> DEFINE q == callee[t]
             n == target[t]
  <2>0. /\ q \in Queues /\ pc[t] = "assign" /\ callers' = callers
        /\ activeProducers' = activeProducers /\ callee' = callee
        /\ slotThread' = [slotThread EXCEPT ![q][n] = t]
    BY <1>9, InCall DEF Assign
  <2>1. pc'[t] = "idle" /\ \A u \in Threads : u # t => pc'[u] = pc[u]
    BY <1>9 DEF Assign, Return, Goto, RegistryInv, RegistryTypeOK
  <2>2. n \in Slots(q) /\ slotThread[q][n] = NoThread /\ t # NoThread
    BY <2>0, RegistryAssumption DEF RegistryInv, Targets
  <2>3. \A r \in Queues : slotThread[r] \in [Slots(r) -> Threads \union {NoThread}]
    BY DEF RegistryInv, RegistryTypeOK
  <2>4. slotThread \in [Queues -> UNION {[Slots(r) -> Threads \union {NoThread}] : r \in Queues}]
    BY DEF RegistryInv, RegistryTypeOK
  <2>5. \A r \in Queues : \A i \in Slots(r) :
           slotThread'[r][i] = IF r = q /\ i = n THEN t ELSE slotThread[r][i]
    BY <2>0, <2>2, <2>3, <2>4
  <2>6. ASSUME NEW r \in Queues, NEW u \in Threads
        PROVE  (OwnSlots(r, u)' # {}) <=> (OwnSlots(r, u) # {} \/ (u = t /\ r = q))
    BY <2>2, <2>5, RegistryAssumption DEF OwnSlots
  <2>7. \A r \in Queues : Known(r)' = Known(r)
    BY <2>0, <2>1, <2>6 DEF Known, Assigning, Undoing
  <2>8. QED
    BY <2>0, <2>7 DEF KnownCount
<1>10. ASSUME NEW q \in Queues, Scan(q)
       PROVE  KnownCount' /\ \A r \in Queues : callers[r] \subseteq callers'[r]
  BY <1>1, <1>2, <1>10 DEF Scan, tableVars, threadVars
<1>11. QED
  BY <1>4, <1>5, <1>6, <1>7, <1>8, <1>9, <1>10 DEF RegistryNext

(* The cached index is compared with the counter before it is used, and the *)
(* loop compares its index with the counter before every access.            *)
LEMMA OverrunStep ==
    ASSUME RegistryInv, [RegistryNext]_registryVars, OverrunInv
    PROVE  OverrunInv'
<1>1. RegistryInv' /\ KnownCount' /\ KnownCount
  BY StepInv, KnownStep DEF OverrunInv
<1>2. \A q \in Queues : Crowded(q) => Crowded(q)'
  BY <1>1, KnownStep, CrowdedStable
<1>3. CheckInside'
  <2> SUFFICES ASSUME NEW t \in Threads, pc'[t] = "check"
               PROVE  cachedIndex'[t] \in Slots(callee'[t]) \/ Crowded(callee[t])'
    BY DEF CheckInside
  <2>0. callee[t] \in Queues
    BY InCall
  <2>1. CASE \E q \in Queues : Enter(t, q)
    <3>1. PICK q \in Queues : Enter(t, q)
      BY <2>1
    <3>2. callee'[t] = q /\ cachedIndex' = cachedIndex /\ cachedIndex[t] \in Nat /\ cachedIndex[t] < activeProducers[q]
      BY <3>1 DEF Enter, Goto, RegistryInv, RegistryTypeOK
    <3>3. QED
      BY <1>1, <1>2, <3>2, CoveredIndex DEF Crowded
  <2>2. CASE ~ \E q \in Queues : Enter(t, q)
    <3>1. pc[t] = "check" /\ callee'[t] = callee[t] /\ cachedIndex'[t] = cachedIndex[t]
      <4>1. pc \in [Threads -> Steps] /\ callee \in [Threads -> Queues]
            /\ cachedIndex \in [Threads -> Nat \union {NoIndex}]
        BY DEF RegistryInv, RegistryTypeOK
      <4>2. CASE UNCHANGED registryVars
        BY <4>2 DEF registryVars, threadVars
      <4>3. CASE \E u \in Threads : \E q \in Queues : Enter(u, q)
        <5>1. PICK u \in Threads, r \in Queues : Enter(u, r)
          BY <4>3
        <5>2. u # t
          BY <2>2, <5>1
        <5>3. QED
          BY <4>1, <5>1, <5>2 DEF Enter, Goto
      <4>4. CASE \E u \in Threads : CheckCache(u)
        BY <4>1, <4>4 DEF CheckCache, Goto, Return
      <4>5. CASE \E u \in Threads : Search(u)
        BY <4>1, <4>5 DEF Search, Goto, Return
      <4>6. CASE \E u \in Threads : CheckFull(u) \/ Claim(u)
        BY <4>1, <4>6 DEF CheckFull, Claim, Goto, Return
      <4>7. CASE \E u \in Threads : Undo(u) \/ Assign(u)
        BY <4>1, <4>7 DEF Undo, Assign, Goto, Return
      <4>8. CASE \E q \in Queues : Scan(q)
        BY <4>8 DEF Scan, threadVars
      <4>9. QED
        BY <4>2, <4>3, <4>4, <4>5, <4>6, <4>7, <4>8 DEF RegistryNext
    <3>2. QED
      BY <1>2, <2>0, <3>1 DEF OverrunInv, CheckInside, Crowded
  <2>3. QED
    BY <2>1, <2>2
<1>4. \A q \in overrun' : q \in Queues /\ Crowded(q)'
  <2>1. \A q \in overrun : q \in Queues /\ Crowded(q)
    BY DEF OverrunInv, NoOverrunWithinLimit, RegistryInv, RegistryTypeOK, Crowded
  <2>2. CASE overrun' = overrun
    BY <1>2, <2>1, <2>2
  <2>3. ASSUME NEW t \in Threads, CheckCache(t)
        PROVE  overrun' = overrun \/ (overrun' = overrun \union {callee[t]} /\ Crowded(callee[t]))
    BY <2>3 DEF CheckCache, OverrunInv, CheckInside
  <2>4. ASSUME NEW q \in Queues, Scan(q)
        PROVE  overrun' = overrun \/ (overrun' = overrun \union {q} /\ Crowded(q))
    <3>1. scanIndex[q] \in Nat
      BY DEF RegistryInv, RegistryTypeOK
    <3>2. QED
      BY <1>1, <2>4, <3>1, CoveredIndex DEF Scan
  <2>5. overrun' = overrun \/ (\E t \in Threads : CheckCache(t)) \/ (\E q \in Queues : Scan(q))
    BY DEF RegistryNext, Enter, Search, CheckFull, Claim, Undo, Assign, registryVars
  <2>6. QED
    BY <1>2, <2>1, <2>2, <2>3, <2>4, <2>5, InCall
<1>5. NoOverrunWithinLimit'
  BY <1>4 DEF NoOverrunWithinLimit, Crowded
<1>6. QED
  BY <1>1, <1>3, <1>5 DEF OverrunInv

(* Neither the posting threads nor the loop thread access the table out of  *)
(* bounds as long as no more threads post to the queue than it has entries. *)
THEOREM NoOverrun == RegistrySpec => []NoOverrunWithinLimit
<1>1. RegistryInit => OverrunInv
  <2> SUFFICES ASSUME RegistryInit PROVE OverrunInv
    OBVIOUS
  <2>1. \A q \in Queues : Known(q) = {} /\ activeProducers[q] = 0
    BY RegistryAssumption DEF RegistryInit, Known, Assigning, Undoing, OwnSlots
  <2>2. KnownCount
    BY <2>1, FS_EmptySet DEF KnownCount
  <2>3. CheckInside /\ NoOverrunWithinLimit
    BY DEF RegistryInit, CheckInside, NoOverrunWithinLimit
  <2>4. QED
    BY <2>2, <2>3 DEF OverrunInv
<1>2. RegistryInv /\ OverrunInv /\ [RegistryNext]_registryVars => OverrunInv'
  BY OverrunStep
<1>3. OverrunInv => NoOverrunWithinLimit
  BY DEF OverrunInv
<1>4. QED
  BY <1>1, <1>2, <1>3, RegistryCorrect, PTL DEF RegistrySpec

-----------------------------------------------------------------------------
(* The payloads. *)

Maybe(S) == S \union {None}

-----------------------------------------------------------------------------
(* The age of a place: how many allocations ago it was given out. *)

Age(c, k) == IF k < c THEN c - 1 - k ELSE c - 1 - k + N

LEMMA AgeRange ==
    ASSUME NEW c \in Places, NEW k \in Places
    PROVE  Age(c, k) \in 0 .. (N - 1)
BY PayloadAssumption DEF Places, Age

LEMMA AgeDistinct ==
    ASSUME NEW c \in Places, NEW k \in Places, NEW l \in Places, k # l
    PROVE  Age(c, k) # Age(c, l)
BY PayloadAssumption DEF Places, Age

LEMMA NextPlace ==
    ASSUME NEW c \in Places
    PROVE  (c + 1) % N \in Places /\ (c + 1) % N = IF c + 1 = N THEN 0 ELSE c + 1
<1>1. N \in Nat \ {0} /\ c \in Nat /\ c + 1 <= N
  BY PayloadAssumption DEF Places
<1>2. CASE c + 1 = N
  <2>1. N % N = 0
    BY <1>1
  <2> QED BY <1>1, <1>2, <2>1 DEF Places
<1>3. CASE c + 1 < N
  BY <1>1, <1>3 DEF Places
<1> QED BY <1>1, <1>2, <1>3

LEMMA AllocationAges ==
    ASSUME NEW c \in Places
    PROVE  /\ Age((c + 1) % N, c) = 0
           /\ \A k \in Places : Age(c, k) < N - 1 =>
                  k # c /\ Age((c + 1) % N, k) = Age(c, k) + 1
BY NextPlace, PayloadAssumption DEF Places, Age

-----------------------------------------------------------------------------
(* The objects that the entries of a queue and a prepared entry are to      *)
(* destroy, and their order: the later the entry, the younger the object.   *)

Freed(q) == {q[n].frees : n \in DOMAIN q} \ {None}
Pending(q, p) == Freed(q) \union ({p} \ {None})

Ordered(q, p, age) ==
    /\ \A m, n \in DOMAIN q :
          m < n /\ q[m].frees # None /\ q[n].frees # None => age[q[n].frees] < age[q[m].frees]
    /\ \A n \in DOMAIN q :
          p # None /\ q[n].frees # None => age[p] < age[q[n].frees]

LEMMA EntryFields ==
    ASSUME NEW e \in EntryType
    PROVE  e.frees \in Maybe(Objects) /\ e.uses \in Maybe(Objects)
BY DEF EntryType, Maybe

LEMMA OutstandingPending ==
    ASSUME NEW o \in Owners, queue[o] \in Seq(EntryType), prepared[o] \in Maybe(Objects)
    PROVE  Outstanding(o) = Pending(queue[o], prepared[o])
<1>1. \A n \in DOMAIN queue[o] : queue[o][n].frees \in Maybe(Objects)
  <2>1. \A n \in DOMAIN queue[o] : queue[o][n] \in EntryType
    OBVIOUS
  <2> QED BY <2>1, EntryFields
<1>2. None \notin Objects
  BY PayloadAssumption
<1> QED BY <1>1, <1>2 DEF Outstanding, Pending, Freed, Maybe

LEMMA PendingObjects ==
    ASSUME NEW q \in Seq(EntryType), NEW p \in Maybe(Objects)
    PROVE  /\ Pending(q, p) \subseteq Objects
           /\ IsFiniteSet(Pending(q, p)) /\ Cardinality(Pending(q, p)) \in Nat
<1>1. \A n \in DOMAIN q : q[n].frees \in Maybe(Objects)
  <2>1. \A n \in DOMAIN q : q[n] \in EntryType
    OBVIOUS
  <2> QED BY <2>1, EntryFields
<1>2. Pending(q, p) \subseteq Objects
  BY <1>1 DEF Pending, Freed, Maybe
<1>3. IsFiniteSet(Objects)
  BY PayloadAssumption, FS_Interval DEF Objects
<1> QED BY <1>2, <1>3, FS_Subset, FS_CardinalityType

(* A change of ages that keeps their order. *)
LEMMA OrderKept ==
    ASSUME NEW q, NEW p, NEW a, NEW b, Ordered(q, p, a),
           \A i, j \in Pending(q, p) : a[i] < a[j] => b[i] < b[j]
    PROVE  Ordered(q, p, b)
BY DEF Ordered, Pending, Freed

(* A post: the prepared entry, if there is one, becomes the last. *)
LEMMA PostKeeps ==
    ASSUME NEW q \in Seq(EntryType), NEW p \in Maybe(Objects), NEW e \in EntryType, e.frees = p
    PROVE  /\ Pending(Append(q, e), None) = Pending(q, p)
           /\ \A a : Ordered(q, p, a) => Ordered(Append(q, e), None, a)
<1> DEFINE r == Append(q, e)
<1>1. /\ Len(q) \in Nat /\ DOMAIN q = 1 .. Len(q) /\ DOMAIN r = 1 .. (Len(q) + 1)
      /\ \A n \in 1 .. Len(q) : r[n] = q[n]
      /\ r[Len(q) + 1] = e
  BY AppendProperties
<1> HIDE DEF r
<1>2. /\ \A n : n \in DOMAIN r <=> n \in DOMAIN q \/ n = Len(q) + 1
      /\ \A n \in DOMAIN q : n < Len(q) + 1 /\ ~(Len(q) + 1 < n)
      /\ \A n \in DOMAIN q : r[n] = q[n]
  BY <1>1
<1>3. Pending(r, None) = Pending(q, p)
  BY <1>1, <1>2 DEF Pending, Freed
<1>4. ASSUME NEW a, Ordered(q, p, a) PROVE Ordered(r, None, a)
  <2>1. ASSUME NEW m \in DOMAIN r, NEW n \in DOMAIN r, m < n, r[m].frees # None, r[n].frees # None
        PROVE  a[r[n].frees] < a[r[m].frees]
    <3>1. m \in DOMAIN q
      BY <1>1, <1>2, <2>1
    <3>2. CASE n \in DOMAIN q
      BY <1>2, <1>4, <2>1, <3>1, <3>2 DEF Ordered
    <3>3. CASE n = Len(q) + 1
      BY <1>1, <1>2, <1>4, <2>1, <3>1, <3>3 DEF Ordered
    <3> QED BY <1>2, <3>2, <3>3
  <2> QED BY <2>1 DEF Ordered
<1> QED BY <1>3, <1>4 DEF r

(* An entry without an object changes nothing. *)
LEMMA RetryKeeps ==
    ASSUME NEW q \in Seq(EntryType), NEW p \in Maybe(Objects), NEW e \in EntryType, e.frees = None
    PROVE  /\ Pending(Append(q, e), p) = Pending(q, p)
           /\ \A a : Ordered(q, p, a) => Ordered(Append(q, e), p, a)
<1> DEFINE r == Append(q, e)
<1>1. /\ Len(q) \in Nat /\ DOMAIN q = 1 .. Len(q) /\ DOMAIN r = 1 .. (Len(q) + 1)
      /\ \A n \in 1 .. Len(q) : r[n] = q[n]
      /\ r[Len(q) + 1] = e
  BY AppendProperties
<1> HIDE DEF r
<1>2. /\ \A n : n \in DOMAIN r <=> n \in DOMAIN q \/ n = Len(q) + 1
      /\ \A n \in DOMAIN q : r[n] = q[n]
  BY <1>1
<1>3. r[Len(q) + 1].frees = None
  BY <1>1
<1>4. Pending(r, p) = Pending(q, p)
  BY <1>2, <1>3 DEF Pending, Freed
<1>5. ASSUME NEW a, Ordered(q, p, a) PROVE Ordered(r, p, a)
  BY <1>2, <1>3, <1>5 DEF Ordered
<1> QED BY <1>4, <1>5 DEF r

(* The first entry loses its object, the oldest. *)
LEMMA DisarmKeeps ==
    ASSUME NEW q \in Seq(EntryType), q # <<>>, NEW p \in Maybe(Objects)
    PROVE  LET r == [q EXCEPT ![1].frees = None] IN
           /\ r \in Seq(EntryType) /\ Len(r) = Len(q) /\ r[1].frees = None
           /\ \A n \in DOMAIN q \ {1} : r[n] = q[n]
           /\ Pending(r, p) \union ({q[1].frees} \ {None}) = Pending(q, p)
           /\ \A a : Ordered(q, p, a) =>
                 /\ Ordered(r, p, a)
                 /\ \A i \in Pending(r, p) : q[1].frees # None => a[i] < a[q[1].frees]
<1> DEFINE r == [q EXCEPT ![1].frees = None]
<1>1. Len(q) \in Nat /\ DOMAIN q = 1 .. Len(q) /\ 1 \in DOMAIN q /\ q[1] \in EntryType
  BY EmptySeq
<1>2. [q[1] EXCEPT !.frees = None] \in EntryType /\ [q[1] EXCEPT !.frees = None].frees = None
  BY <1>1 DEF EntryType
<1>3. /\ DOMAIN r = 1 .. Len(q) /\ r[1].frees = None /\ r[1] \in EntryType
      /\ \A n \in DOMAIN q \ {1} : r[n] = q[n]
  BY <1>1, <1>2
<1>4. r \in Seq(EntryType) /\ Len(r) = Len(q)
  <2>1. \A n \in 1 .. Len(q) : r[n] \in EntryType
    BY <1>1, <1>3
  <2>2. r = [n \in 1 .. Len(q) |-> r[n]]
    BY <1>3
  <2> HIDE DEF r
  <2>3. r \in [1 .. Len(q) -> EntryType]
    BY <2>1, <2>2
  <2> QED BY <1>1, <2>3, <1>3
<1> HIDE DEF r
<1>5. Pending(r, p) \union ({q[1].frees} \ {None}) = Pending(q, p)
  BY <1>1, <1>3 DEF Pending, Freed
<1>6. ASSUME NEW a, Ordered(q, p, a)
      PROVE  /\ Ordered(r, p, a)
             /\ \A i \in Pending(r, p) : q[1].frees # None => a[i] < a[q[1].frees]
  <2>1. \A n \in DOMAIN q \ {1} : 1 < n
    BY <1>1
  <2>2. Ordered(r, p, a)
    BY <1>1, <1>3, <1>6 DEF Ordered
  <2>3. \A i \in Pending(r, p) : q[1].frees # None => a[i] < a[q[1].frees]
    BY <1>1, <1>3, <1>6, <2>1 DEF Ordered, Pending, Freed
  <2> QED BY <2>2, <2>3
<1> QED BY <1>3, <1>4, <1>5, <1>6 DEF r

(* An entry without an object leaves the queue. *)
LEMMA PopKeeps ==
    ASSUME NEW q \in Seq(EntryType), q # <<>>, NEW p \in Maybe(Objects), q[1].frees = None
    PROVE  /\ Tail(q) \in Seq(EntryType)
           /\ \A n \in DOMAIN Tail(q) : n + 1 \in DOMAIN q /\ Tail(q)[n] = q[n + 1]
           /\ Pending(Tail(q), p) = Pending(q, p)
           /\ \A a : Ordered(q, p, a) => Ordered(Tail(q), p, a)
<1> DEFINE r == Tail(q)
<1>1. /\ r \in Seq(EntryType) /\ Len(r) = Len(q) - 1 /\ \A i \in 1 .. Len(r) : r[i] = q[i + 1]
  BY HeadTailProperties
<1>2. Len(q) \in Nat \ {0} /\ DOMAIN q = 1 .. Len(q) /\ DOMAIN r = 1 .. (Len(q) - 1)
  BY <1>1, EmptySeq
<1> HIDE DEF r
<1>3. /\ \A n \in DOMAIN r : n + 1 \in DOMAIN q /\ r[n] = q[n + 1] /\ n \in Nat
      /\ \A n \in DOMAIN q \ {1} : n - 1 \in DOMAIN r /\ r[n - 1] = q[n] /\ n \in Nat
      /\ 1 \in DOMAIN q
  BY <1>1, <1>2
<1>4. Pending(r, p) = Pending(q, p)
  BY <1>3 DEF Pending, Freed
<1>5. ASSUME NEW a, Ordered(q, p, a) PROVE Ordered(r, p, a)
  <2>1. \A m, n \in DOMAIN r : m < n => m + 1 < n + 1
    BY <1>3
  <2> QED BY <1>3, <1>5, <2>1 DEF Ordered
<1> QED BY <1>1, <1>3, <1>4, <1>5 DEF r

(* A producer's queue has no more objects to destroy than entries. *)
LEMMA PendingPosted ==
    ASSUME NEW q \in Seq(EntryType)
    PROVE  Cardinality(Pending(q, None)) <= Len(q)
<1> DEFINE S == Pending(q, None)
           f == [i \in S |-> CHOOSE n \in 1 .. Len(q) : q[n].frees = i]
<1>1. Len(q) \in Nat /\ DOMAIN q = 1 .. Len(q)
  OBVIOUS
<1>2. \A i \in S : \E n \in 1 .. Len(q) : q[n].frees = i
  BY <1>1 DEF Pending, Freed
<1> HIDE DEF S
<1>3. f \in [S -> 1 .. Len(q)] /\ \A i \in S : q[f[i]].frees = i
  BY <1>2
<1> HIDE DEF f
<1>4. f \in Injection(S, 1 .. Len(q))
  BY <1>3 DEF Injection, IsInjective
<1>5. IsFiniteSet(1 .. Len(q)) /\ Cardinality(1 .. Len(q)) = Len(q)
  BY <1>1, FS_Interval, SMTT(30)
<1> QED BY <1>4, <1>5, FS_Injection DEF S

-----------------------------------------------------------------------------
(* The inductive invariant. *)

PendingOf(o) == Pending(queue[o], prepared[o])
Ages(o) == [i \in Objects |-> Age(cursor[o], home[i][2])]

StoreTypes ==
    /\ cursor \in [Owners -> Places]
    /\ ring \in [Owners -> [Places -> Maybe(Objects)]]
    /\ home \in [Objects -> Maybe(Owners \X Places)]
    /\ prepared \in [Owners -> Maybe(Objects)]
    /\ holding \in [Owners -> Maybe(Objects)]
    /\ queue \in [Owners -> Seq(EntryType)]
    /\ allocated \in 0 .. MaxObjects
    /\ destroyed \in [Objects -> Nat]

(* The loop thread works at the first entry of a queue, which has lost its  *)
(* object when it is taken out.                                             *)
AtWork ==
    /\ step \in Stages
    /\ step \notin {"between", "ended"} => serving \in Owners /\ queue[serving] # <<>>
    /\ step \in {"pop", "abort"} => queue[serving][1].frees = None

(* What an owner is to destroy was built in its own ring. *)
OwnPlaces == \A o \in Owners : \A i \in PendingOf(o) : i <= allocated /\ home[i] \in {o} \X Places

(* What an entry destroys is what its action uses, and what a thread has    *)
(* prepared is what its next action will use.                               *)
Matched ==
    /\ \A o \in Owners : prepared[o] # None => prepared[o] = holding[o]
    /\ \A o \in Owners : \A n \in DOMAIN queue[o] : queue[o][n].frees \in {None, queue[o][n].uses}

(* An object is found in the place where it was built, and what has not     *)
(* been built was not destroyed.                                            *)
Inhabited ==
    /\ \A o \in Owners, k \in Places :
          ring[o][k] # None => ring[o][k] <= allocated /\ home[ring[o][k]] = <<o, k>>
    /\ \A i \in Objects : allocated < i => destroyed[i] = 0

(* The objects that are still to be destroyed are alive, queued by age, and *)
(* the youngest of their ring.                                              *)
Intact(o) ==
    /\ Ordered(queue[o], prepared[o], Ages(o))
    /\ \A i \in PendingOf(o) :
          /\ destroyed[i] = 0 /\ ring[o][home[i][2]] = i
          /\ Ages(o)[i] < Cardinality(PendingOf(o))

StoreInv ==
    /\ StoreTypes /\ AtWork /\ OwnPlaces /\ Matched /\ Inhabited
    /\ \A o \in Owners \ disturbed : Intact(o)

LEMMA StoreInit == Init => StoreInv
<1> SUFFICES ASSUME Init PROVE StoreInv
  OBVIOUS
<1>1. \A o \in Owners : queue[o] = <<>> /\ prepared[o] = None /\ PendingOf(o) = {}
  BY DEF Init, PendingOf, Pending, Freed
<1>2. StoreTypes
  BY PayloadAssumption DEF Init, StoreTypes, Maybe, Places
<1>3. AtWork /\ OwnPlaces /\ Matched /\ Inhabited
  BY <1>1 DEF Init, AtWork, OwnPlaces, Matched, Inhabited, Stages
<1>4. \A o \in Owners : Intact(o)
  BY <1>1 DEF Intact, Ordered
<1> QED BY <1>2, <1>3, <1>4 DEF StoreInv

(* What nothing happens to stays intact. *)
LEMMA IntactStill ==
    ASSUME StoreTypes, NEW o \in Owners, Intact(o),
           PendingOf(o)' = PendingOf(o),
           \A a : Ordered(queue[o], prepared[o], a) => Ordered(queue'[o], prepared'[o], a),
           cursor'[o] = cursor[o],
           \A i \in PendingOf(o) :
              home'[i] = home[i] /\ destroyed'[i] = destroyed[i] /\ (ring[o][home[i][2]] = i => ring'[o][home[i][2]] = i)
    PROVE  Intact(o)'
<1>1. PendingOf(o) \subseteq Objects
  BY PendingObjects DEF StoreTypes, PendingOf
<1>2. \A i \in PendingOf(o) : Ages(o)'[i] = Ages(o)[i]
  BY <1>1 DEF Ages
<1>3. Ordered(queue'[o], prepared'[o], Ages(o))
  BY DEF Intact
<1>4. Pending(queue'[o], prepared'[o]) = PendingOf(o)
  BY DEF PendingOf
<1> DEFINE b == Ages(o)'
<1>5. \A i, j \in PendingOf(o) : Ages(o)[i] < Ages(o)[j] => b[i] < b[j]
  BY <1>2
<1> HIDE DEF b
<1>6. Ordered(queue'[o], prepared'[o], b)
  BY <1>3, <1>4, <1>5, OrderKept
<1> QED BY <1>2, <1>6 DEF Intact, b

(* What the steps add to the objects that are still to be destroyed. *)

LEMMA TakePending ==
    ASSUME StoreTypes, NEW o \in Owners, TakePlace(o), prepared[o] = None
    PROVE  /\ allocated + 1 \in Objects
           /\ PendingOf(o)' = PendingOf(o) \union {allocated + 1}
           /\ \A w \in Owners \ {o} : PendingOf(w)' = PendingOf(w)
<1> DEFINE i == allocated + 1
<1>1. i \in Objects /\ None \notin Objects
  BY PayloadAssumption DEF StoreTypes, TakePlace, Objects
<1>2. prepared' = [prepared EXCEPT ![o] = i] /\ queue' = queue
  BY DEF TakePlace, workVars
<1> HIDE DEF i
<1>3. /\ PendingOf(o)' = PendingOf(o) \union {i}
      /\ \A w \in Owners \ {o} : PendingOf(w)' = PendingOf(w)
  BY <1>1, <1>2 DEF PendingOf, Pending, StoreTypes
<1> QED BY <1>1, <1>3 DEF i

LEMMA PushPending ==
    ASSUME StoreTypes, NEW o \in Owners, NEW op \in Ops, Push(o, op)
    PROVE  /\ \A w \in Owners : PendingOf(w)' = PendingOf(w)
           /\ \A w \in Owners : \A a :
                 Ordered(queue[w], prepared[w], a) => Ordered(queue'[w], prepared'[w], a)
<1> DEFINE e == EntryOf(o, op)
           q == queue[o]
           p == prepared[o]
<1>1. q \in Seq(EntryType) /\ p \in Maybe(Objects) /\ e \in EntryType /\ e.frees = p
  BY DEF StoreTypes, EntryOf, EntryType, Maybe
<1>2. /\ queue'[o] = Append(q, e) /\ prepared'[o] = None
      /\ \A w \in Owners \ {o} : queue'[w] = queue[w] /\ prepared'[w] = prepared[w]
  BY DEF Push, StoreTypes
<1>3. PendingOf(o)' = Pending(Append(q, e), None) /\ PendingOf(o) = Pending(q, p)
  BY <1>2 DEF PendingOf
<1>4. q = queue[o] /\ p = prepared[o]
  OBVIOUS
<1> HIDE DEF q, p, e
<1>5. /\ Pending(Append(q, e), None) = Pending(q, p)
      /\ \A a : Ordered(q, p, a) => Ordered(Append(q, e), None, a)
  BY <1>1, PostKeeps
<1>6. \A w \in Owners \ {o} : PendingOf(w)' = PendingOf(w)
  BY <1>2 DEF PendingOf
<1> QED BY <1>2, <1>3, <1>4, <1>5, <1>6

(* Allocation: everything that is still needed in the ring gets older, and  *)
(* none of it old enough to be in the place that is given out.              *)
LEMMA TakePlaceStep ==
    ASSUME StoreInv, NEW o \in Owners, TakePlace(o), prepared[o] = None,
           o \notin disturbed' => Cardinality(PendingOf(o)) < N
    PROVE  StoreInv'
<1> DEFINE i == allocated + 1
           c == cursor[o]
<1>1. /\ i \in Objects /\ i \in Nat /\ ~(i <= allocated) /\ allocated' = i /\ i \in 0 .. MaxObjects
      /\ c \in Places /\ None \notin Objects
  BY PayloadAssumption DEF StoreInv, StoreTypes, TakePlace, Objects
<1>2. /\ cursor' = [cursor EXCEPT ![o] = (c + 1) % N]
      /\ ring' = [ring EXCEPT ![o][c] = i] /\ home' = [home EXCEPT ![i] = <<o, c>>]
      /\ prepared' = [prepared EXCEPT ![o] = i] /\ holding' = [holding EXCEPT ![o] = i]
      /\ disturbed \subseteq disturbed' /\ UNCHANGED <<queue, serving, step, destroyed>>
  BY DEF TakePlace, workVars
<1>3. (c + 1) % N \in Places
  BY <1>1, NextPlace
<1> HIDE DEF i, c
<1>4. StoreTypes'
  BY <1>1, <1>2, <1>3 DEF StoreInv, StoreTypes, Maybe
<1>5. AtWork'
  BY <1>2 DEF StoreInv, AtWork
<1>6. \A w \in Owners : \A j \in PendingOf(w) : j \in Objects /\ j # i /\ home'[j] = home[j]
  <2>1. \A w \in Owners : PendingOf(w) \subseteq Objects
    BY PendingObjects DEF StoreInv, StoreTypes, PendingOf
  <2> QED BY <1>1, <1>2, <2>1 DEF StoreInv, OwnPlaces, StoreTypes
<1>7. /\ PendingOf(o)' = PendingOf(o) \union {i}
      /\ \A w \in Owners \ {o} : PendingOf(w)' = PendingOf(w)
  BY TakePending DEF StoreInv, i
<1>8. /\ home'[i] = <<o, c>> /\ ring'[o][c] = i
      /\ \A k \in Places \ {c} : ring'[o][k] = ring[o][k]
      /\ \A w \in Owners \ {o} : ring'[w] = ring[w]
  BY <1>1, <1>2 DEF StoreInv, StoreTypes
<1>9. OwnPlaces'
  <2>1. ASSUME NEW w \in Owners, NEW j \in PendingOf(w)' PROVE j <= allocated' /\ home'[j] \in {w} \X Places
    <3>1. CASE j \in PendingOf(w)
      <4>1. j <= allocated /\ home[j] \in {w} \X Places /\ j \in Objects
        BY <1>6, <3>1 DEF StoreInv, OwnPlaces
      <4>2. j <= allocated'
        BY <1>1, <4>1 DEF StoreInv, StoreTypes, Objects, i
      <4> QED BY <1>6, <3>1, <4>1, <4>2
    <3>2. CASE w = o /\ j = i
      BY <1>1, <1>8, <3>2
    <3> QED BY <1>7, <2>1, <3>1, <3>2
  <2> QED BY <2>1 DEF OwnPlaces
<1>10. Matched'
  BY <1>1, <1>2 DEF StoreInv, Matched, StoreTypes
<1>11. Inhabited'
  <2>1. ASSUME NEW w \in Owners, NEW k \in Places, ring'[w][k] # None
        PROVE  ring'[w][k] <= allocated' /\ home'[ring'[w][k]] = <<w, k>>
    <3>1. CASE w = o /\ k = c
      BY <1>1, <1>8, <3>1
    <3>2. CASE ~(w = o /\ k = c)
      <4>1. ring'[w][k] = ring[w][k] /\ ring[w][k] \in Maybe(Objects)
        BY <1>8, <3>2 DEF StoreInv, StoreTypes
      <4>2. ring[w][k] \in Objects /\ ring[w][k] <= allocated /\ home[ring[w][k]] = <<w, k>>
        BY <2>1, <4>1 DEF StoreInv, Inhabited, Maybe
      <4>3. ring[w][k] <= allocated' /\ ring[w][k] # i
        BY <1>1, <4>2 DEF StoreInv, StoreTypes, Objects, i
      <4>4. home'[ring[w][k]] = home[ring[w][k]]
        BY <1>2, <4>2, <4>3 DEF StoreInv, StoreTypes
      <4> QED BY <4>1, <4>2, <4>3, <4>4
    <3> QED BY <3>1, <3>2
  <2>2. ASSUME NEW j \in Objects, allocated' < j PROVE destroyed'[j] = 0
    <3>1. allocated < j
      BY <1>1, <2>2 DEF Objects, StoreInv, StoreTypes, i
    <3> QED BY <1>2, <3>1 DEF StoreInv, Inhabited
  <2> QED BY <2>1, <2>2 DEF Inhabited
<1>12. ASSUME NEW w \in Owners \ disturbed' PROVE Intact(w)'
  <2>1. Intact(w)
    BY <1>2 DEF StoreInv
  <2>2. CASE w # o
    <3>1. /\ queue'[w] = queue[w] /\ prepared'[w] = prepared[w] /\ cursor'[w] = cursor[w]
          /\ ring'[w] = ring[w] /\ destroyed' = destroyed
      BY <1>2, <1>8, <2>2 DEF StoreInv, StoreTypes
    <3> QED BY <1>6, <1>7, <2>1, <2>2, <3>1, IntactStill DEF StoreInv
  <2>3. CASE w = o
    <3> DEFINE S == PendingOf(o)
               a == Ages(o)
               b == Ages(o)'
               n == Cardinality(S)
    <3>1. n < N /\ n \in Nat /\ IsFiniteSet(S) /\ S \subseteq Objects /\ i \notin S
      BY <1>6, <2>3, PendingObjects DEF StoreInv, StoreTypes, PendingOf
    <3>2. \A j \in S : /\ destroyed[j] = 0 /\ ring[o][home[j][2]] = j
                        /\ a[j] = Age(c, home[j][2]) /\ a[j] < n /\ home[j][2] \in Places
                        /\ b[j] = Age((c + 1) % N, home[j][2])
      <4>1. cursor'[o] = (c + 1) % N
        BY <1>2 DEF StoreInv, StoreTypes
      <4> QED BY <1>6, <2>1, <2>3, <4>1 DEF Intact, Ages, StoreInv, OwnPlaces, c
    <3>3. b[i] = 0
      BY <1>1, <1>2, <1>8, AllocationAges DEF Ages, StoreInv, StoreTypes
    <3>4. Ordered(queue[o], None, a)
      BY <2>1, <2>3 DEF Intact
    <3>5. Pending(queue[o], None) = S
      BY DEF PendingOf
    <3>6. PendingOf(o)' = S \union {i} /\ queue'[o] = queue[o] /\ prepared'[o] = i
      BY <1>2, <1>7 DEF StoreInv, StoreTypes
    <3> HIDE DEF S, a, b, n
    <3>7. \A j \in S : /\ home[j][2] # c /\ b[j] = a[j] + 1 /\ a[j] \in Nat
      <4>1. ASSUME NEW j \in S PROVE home[j][2] # c /\ b[j] = a[j] + 1 /\ a[j] \in Nat
        <5>1. a[j] \in 0 .. (N - 1)
          BY <1>1, <3>2, AgeRange
        <5>2. a[j] < N - 1
          BY <3>1, <3>2, <5>1, PayloadAssumption
        <5> QED BY <1>1, <3>2, <5>1, <5>2, AllocationAges
      <4> QED BY <4>1
    <3>8. Cardinality(S \union {i}) = n + 1
      BY <3>1, FS_AddElement DEF n
    <3>9. Ordered(queue[o], None, b)
      <4>1. \A j, l \in S : a[j] < a[l] => b[j] < b[l]
        BY <3>7
      <4> QED BY <3>4, <3>5, <4>1, OrderKept
    <3>10. Ordered(queue[o], i, b)
      <4>1. \A m \in DOMAIN queue[o] : queue[o][m].frees # None => queue[o][m].frees \in S
        BY <3>5 DEF Pending, Freed
      <4>2. \A j \in S : b[i] < b[j]
        BY <3>3, <3>7
      <4> QED BY <3>9, <4>1, <4>2 DEF Ordered
    <3>11. ASSUME NEW j \in S \union {i}
           PROVE  destroyed'[j] = 0 /\ ring'[o][home'[j][2]] = j /\ b[j] < n + 1
      <4>1. CASE j = i
        <5>1. destroyed[i] = 0
          BY <1>1 DEF StoreInv, Inhabited, StoreTypes, i
        <5> QED BY <1>2, <1>8, <3>1, <3>3, <4>1, <5>1
      <4>2. CASE j \in S
        <5>1. home'[j] = home[j]
          BY <1>6, <4>2 DEF S
        <5> QED BY <1>2, <1>8, <3>1, <3>2, <3>7, <4>2, <5>1
      <4> QED BY <4>1, <4>2
    <3> QED BY <2>3, <3>6, <3>8, <3>10, <3>11 DEF Intact, b
  <2> QED BY <2>2, <2>3
<1> QED BY <1>4, <1>5, <1>9, <1>10, <1>11, <1>12 DEF StoreInv

(* A post moves the prepared entry to the queue. *)
LEMMA PushStep ==
    ASSUME StoreInv, NEW o \in Owners, NEW op \in Ops, Push(o, op),
           UNCHANGED <<historyVars, allocated>>
    PROVE  StoreInv'
<1> DEFINE e == EntryOf(o, op)
<1>1. /\ e \in EntryType /\ e.uses = holding[o] /\ e.frees = prepared[o]
      /\ queue[o] \in Seq(EntryType) /\ prepared[o] \in Maybe(Objects)
  BY DEF StoreInv, StoreTypes, EntryOf, EntryType, Maybe
<1>2. /\ queue' = [queue EXCEPT ![o] = Append(queue[o], e)]
      /\ prepared' = [prepared EXCEPT ![o] = None] /\ holding' = [holding EXCEPT ![o] = None]
      /\ UNCHANGED <<cursor, ring, home, serving, step, destroyed, disturbed, allocated>>
  BY DEF Push, historyVars
<1> HIDE DEF e
<1>3. /\ queue'[o] = Append(queue[o], e) /\ prepared'[o] = None
      /\ \A w \in Owners \ {o} : queue'[w] = queue[w] /\ prepared'[w] = prepared[w]
  BY <1>2 DEF StoreInv, StoreTypes
<1>4. /\ Append(queue[o], e) \in Seq(EntryType) /\ Len(queue[o]) \in Nat
      /\ DOMAIN queue[o] = 1 .. Len(queue[o]) /\ DOMAIN queue'[o] = 1 .. (Len(queue[o]) + 1)
      /\ \A n \in 1 .. Len(queue[o]) : queue'[o][n] = queue[o][n]
      /\ queue'[o][Len(queue[o]) + 1] = e
  BY <1>1, <1>3, AppendProperties
<1>5. StoreTypes'
  BY <1>2, <1>4 DEF StoreInv, StoreTypes, Maybe
<1>6. AtWork'
  <2>1. ASSUME step \notin {"between", "ended"} PROVE queue'[serving] # <<>> /\ queue'[serving][1] = queue[serving][1]
    <3>1. CASE serving = o
      <4>1. 1 \in 1 .. Len(queue[o]) /\ 1 \in DOMAIN queue'[o]
        BY <1>1, <1>4, <2>1, <3>1, EmptySeq DEF StoreInv, AtWork
      <4> QED BY <1>4, <3>1, <4>1
    <3>2. CASE serving # o
      BY <1>3, <2>1, <3>2 DEF StoreInv, AtWork
    <3> QED BY <3>1, <3>2
  <2> QED BY <1>2, <2>1 DEF StoreInv, AtWork
<1>7. /\ \A w \in Owners : PendingOf(w)' = PendingOf(w)
      /\ \A w \in Owners : \A a : Ordered(queue[w], prepared[w], a) => Ordered(queue'[w], prepared'[w], a)
  BY PushPending DEF StoreInv
<1>8. OwnPlaces'
  BY <1>2, <1>7 DEF StoreInv, OwnPlaces
<1>9. Matched'
  <2>1. ASSUME NEW w \in Owners, NEW n \in DOMAIN queue'[w]
        PROVE  queue'[w][n].frees \in {None, queue'[w][n].uses}
    <3>1. CASE w # o
      BY <1>3, <2>1, <3>1 DEF StoreInv, Matched
    <3>2. CASE w = o /\ n \in 1 .. Len(queue[o])
      BY <1>4, <3>2 DEF StoreInv, Matched
    <3>3. CASE w = o /\ n = Len(queue[o]) + 1
      BY <1>1, <1>4, <3>3 DEF StoreInv, Matched
    <3> QED BY <1>4, <2>1, <3>1, <3>2, <3>3
  <2> QED BY <1>2, <2>1 DEF StoreInv, Matched, StoreTypes
<1>10. Inhabited'
  BY <1>2 DEF StoreInv, Inhabited
<1>11. ASSUME NEW w \in Owners \ disturbed' PROVE Intact(w)'
  BY <1>2, <1>7, IntactStill DEF StoreInv
<1> QED BY <1>5, <1>6, <1>8, <1>9, <1>10, <1>11 DEF StoreInv

(* A dropped entry leaves its object behind; nothing is said of that ring   *)
(* any more.                                                                *)
LEMMA DropStep ==
    ASSUME StoreInv, NEW o \in Owners, DropPrepared(o),
           UNCHANGED <<cursor, ring, home, holding, queue, serving, step, destroyed, allocated>>
    PROVE  StoreInv'
<1>1. /\ prepared' = [prepared EXCEPT ![o] = None] /\ disturbed' = disturbed \union {o}
  BY DEF DropPrepared
<1>2. prepared'[o] = None /\ \A w \in Owners \ {o} : prepared'[w] = prepared[w]
  BY <1>1 DEF StoreInv, StoreTypes
<1>3. StoreTypes' /\ AtWork' /\ Matched' /\ Inhabited'
  <2>1. StoreTypes'
    BY <1>1 DEF StoreInv, StoreTypes, Maybe
  <2>2. AtWork'
    BY DEF StoreInv, AtWork
  <2>3. Matched'
    BY <1>2 DEF StoreInv, Matched
  <2>4. Inhabited'
    BY DEF StoreInv, Inhabited
  <2> QED BY <2>1, <2>2, <2>3, <2>4
<1>4. /\ \A w \in Owners : PendingOf(w)' \subseteq PendingOf(w)
      /\ \A w \in Owners \ {o} : PendingOf(w)' = PendingOf(w)
  BY <1>2 DEF PendingOf, Pending
<1>5. OwnPlaces'
  BY <1>4 DEF StoreInv, OwnPlaces
<1>6. ASSUME NEW w \in Owners \ disturbed' PROVE Intact(w)'
  BY <1>1, <1>2, <1>4, IntactStill DEF StoreInv
<1> QED BY <1>3, <1>5, <1>6 DEF StoreInv

-----------------------------------------------------------------------------
(* The loop thread. *)

(* What the end of an action does to the queues: the entry loses its        *)
(* object, and an entry without one may join the loop thread's queue.       *)
LEMMA FinishQueues ==
    ASSUME StoreInv, Finish, NEW o \in Owners, o = serving
    PROVE  LET done == queue[o][1].frees IN
           /\ Head(queue[o]) = queue[o][1]
           /\ queue' \in [Owners -> Seq(EntryType)]
           /\ queue'[o] # <<>> /\ queue'[o][1].frees = None
           /\ \A w \in Owners : \A n \in DOMAIN queue'[w] :
                 queue'[w][n].frees \in {None, queue'[w][n].uses}
           /\ \A w \in Owners \ {o} : PendingOf(w)' = PendingOf(w)
           /\ PendingOf(o)' \union ({done} \ {None}) = PendingOf(o)
           /\ \A w \in Owners : \A a : Ordered(queue[w], prepared[w], a) => Ordered(queue'[w], prepared[w], a)
           /\ \A a : Ordered(queue[o], prepared[o], a) =>
                 \A i \in PendingOf(o)' : done # None => a[i] < a[done]
<1> DEFINE q == queue[o]
           p == prepared[o]
           done == q[1].frees
           r == [q EXCEPT ![1].frees = None]
           rest == [queue EXCEPT ![o][1].frees = None]
           again == [op |-> "async", uses |-> Head(q).uses, frees |-> None]
<1>1. /\ o \in Owners /\ q \in Seq(EntryType) /\ q # <<>> /\ p \in Maybe(Objects)
      /\ queue \in [Owners -> Seq(EntryType)] /\ prepared' = prepared /\ serving' = serving
  BY DEF Finish, StoreInv, StoreTypes, AtWork
<1>2. Head(q) = q[1] /\ 1 \in DOMAIN q /\ q[1] \in EntryType /\ LoopThread \in Owners
  BY <1>1, EmptySeq DEF Owners
<1>3. again \in EntryType /\ again.frees = None
  BY <1>2, EntryFields DEF EntryType, Ops, Maybe
<1>4. /\ r \in Seq(EntryType) /\ Len(r) = Len(q) /\ r[1].frees = None
      /\ \A n \in DOMAIN q \ {1} : r[n] = q[n]
      /\ Pending(r, p) \union ({done} \ {None}) = Pending(q, p)
      /\ \A a : Ordered(q, p, a) =>
            /\ Ordered(r, p, a)
            /\ \A i \in Pending(r, p) : done # None => a[i] < a[done]
  <2> HIDE DEF q, p
  <2> QED BY <1>1, DisarmKeeps
<1>5. rest \in [Owners -> Seq(EntryType)] /\ rest[o] = r /\ \A w \in Owners \ {o} : rest[w] = queue[w]
  <2>1. rest = [queue EXCEPT ![o] = r]
    OBVIOUS
  <2> HIDE DEF rest, r
  <2> QED BY <1>1, <1>4, <2>1
<1>6. queue' = rest \/ queue' = [rest EXCEPT ![LoopThread] = Append(@, again)]
  BY DEF Finish
<1> HIDE DEF rest, again
<1>7. \A n \in DOMAIN r : r[n].frees \in {None, r[n].uses}
  <2>1. \A n \in DOMAIN q : q[n].frees \in {None, q[n].uses}
    BY <1>1 DEF StoreInv, Matched
  <2>2. DOMAIN r = DOMAIN q
    BY <1>1, <1>4
  <2> HIDE DEF q, r
  <2> QED BY <1>4, <2>1, <2>2
<1>8. \A w \in Owners : \A n \in DOMAIN rest[w] : rest[w][n].frees \in {None, rest[w][n].uses}
  BY <1>5, <1>7, ZenonT(40) DEF StoreInv, Matched
<1>9. ASSUME NEW w \in Owners
      PROVE  /\ Pending(rest[w], prepared[w]) = IF w = o THEN Pending(r, p) ELSE PendingOf(w)
             /\ \A a : Ordered(queue[w], prepared[w], a) => Ordered(rest[w], prepared[w], a)
  <2>1. CASE w = o
    <3>1. rest[w] = r /\ queue[w] = q /\ prepared[w] = p
      BY <1>5, <2>1
    <3> HIDE DEF r, q, p
    <3> QED BY <1>4, <2>1, <3>1
  <2>2. CASE w # o
    BY <1>5, <2>2 DEF PendingOf
  <2> QED BY <2>1, <2>2
<1>10. rest[o] # <<>> /\ rest[o][1].frees = None
  BY <1>1, <1>4, <1>5, EmptySeq
<1> HIDE DEF r
(* The entry that may join. *)
<1>11. ASSUME NEW w \in Owners
       PROVE  /\ queue'[w] \in Seq(EntryType)
              /\ w = o => queue'[w] # <<>> /\ queue'[w][1].frees = None
              /\ \A n \in DOMAIN queue'[w] : queue'[w][n].frees \in {None, queue'[w][n].uses}
              /\ Pending(queue'[w], prepared[w]) = Pending(rest[w], prepared[w])
              /\ \A a : Ordered(rest[w], prepared[w], a) => Ordered(queue'[w], prepared[w], a)
  <2>1. CASE queue'[w] = rest[w]
    BY <1>5, <1>8, <1>10, <2>1
  <2>2. CASE queue'[w] = Append(rest[w], again)
    <3> DEFINE s == rest[w]
               t == Append(s, again)
    <3>1. s \in Seq(EntryType) /\ prepared[w] \in Maybe(Objects)
      BY <1>5 DEF StoreInv, StoreTypes
    <3> HIDE DEF s
    <3>2. /\ t \in Seq(EntryType) /\ Len(s) \in Nat /\ DOMAIN s = 1 .. Len(s) /\ DOMAIN t = 1 .. (Len(s) + 1)
          /\ \A n \in 1 .. Len(s) : t[n] = s[n]
          /\ t[Len(s) + 1] = again
      BY <1>3, <3>1, AppendProperties
    <3>3. /\ Pending(t, prepared[w]) = Pending(s, prepared[w])
          /\ \A a : Ordered(s, prepared[w], a) => Ordered(t, prepared[w], a)
      BY <1>3, <3>1, RetryKeeps
    <3>4. \A n \in DOMAIN t : t[n].frees \in {None, t[n].uses}
      <4>1. \A n \in DOMAIN t : n \in DOMAIN s \/ n = Len(s) + 1
        BY <3>2
      <4>2. \A n \in DOMAIN s : s[n].frees \in {None, s[n].uses}
        BY <1>8 DEF s
      <4> HIDE DEF t
      <4> QED BY <1>3, <3>2, <4>1, <4>2
    <3>5. w = o => t # <<>> /\ t[1].frees = None
      <4>1. ASSUME w = o PROVE 1 \in 1 .. Len(s) /\ s[1].frees = None
        BY <1>10, <3>1, <4>1, EmptySeq DEF s
      <4> HIDE DEF t
      <4>2. ASSUME w = o PROVE t # <<>>
        BY <3>2, <4>1, <4>2, EmptySeq
      <4> QED BY <3>2, <4>1, <4>2
    <3> HIDE DEF t
    <3>6. queue'[w] = t /\ rest[w] = s
      BY <2>2 DEF s, t
    <3> QED BY <3>2, <3>3, <3>4, <3>5, <3>6
  <2> QED BY <1>2, <1>5, <1>6, <2>1, <2>2
<1>12. queue' \in [Owners -> Seq(EntryType)]
  <2>1. DOMAIN queue' = Owners /\ queue' = [w \in Owners |-> queue'[w]]
    BY <1>5, <1>6
  <2> QED BY <1>11, <2>1
<1>13. \A w \in Owners : /\ PendingOf(w)' = IF w = o THEN Pending(r, p) ELSE PendingOf(w)
                         /\ \A a : Ordered(queue[w], prepared[w], a) => Ordered(queue'[w], prepared[w], a)
  BY <1>1, <1>9, <1>11 DEF PendingOf
<1>14. PendingOf(o) = Pending(q, p)
  BY DEF PendingOf
<1> QED
  <2>1. /\ PendingOf(o)' = Pending(r, p)
        /\ \A w \in Owners \ {o} : PendingOf(w)' = PendingOf(w)
    BY <1>1, <1>13
  <2> HIDE DEF q, p, done
  <2>2. PendingOf(o)' \union ({done} \ {None}) = PendingOf(o)
    BY <1>4, <1>14, <2>1
  <2>3. \A a : Ordered(q, p, a) => \A i \in PendingOf(o)' : done # None => a[i] < a[done]
    BY <1>4, <2>1
  <2> USE DEF q, p, done
  <2> QED BY <1>1, <1>2, <1>11, <1>12, <1>13, <2>1, <2>2, <2>3

(* What is destroyed is the object of the entry, or, in a disturbed ring,   *)
(* one that was built in its place since.  No other ring has it.            *)
LEMMA ReleaseVictim ==
    ASSUME StoreInv, NEW o \in Owners, NEW i \in PendingOf(o), Destroy(i)
    PROVE  \E victim \in Objects, k \in Places :
             /\ home[i] = <<o, k>> /\ home[victim] = <<o, k>> /\ victim <= allocated
             /\ ring[o][k] \in {None, victim} /\ (ring[o][k] = None => victim = i)
             /\ destroyed' = [destroyed EXCEPT ![victim] = @ + 1]
             /\ ring' = [ring EXCEPT ![o][k] = None]
<1>1. i \in Objects /\ i <= allocated /\ home[i] \in {o} \X Places
  BY PendingObjects DEF StoreInv, StoreTypes, PendingOf, OwnPlaces
<1> DEFINE k == home[i][2]
           victim == IF ring[o][k] = None THEN i ELSE ring[o][k]
<1>2. k \in Places /\ home[i] = <<o, k>> /\ home[i][1] = o
  BY <1>1
<1>3. ring[o] \in [Places -> Maybe(Objects)]
  BY DEF StoreInv, StoreTypes
<1>4. destroyed' = [destroyed EXCEPT ![victim] = @ + 1] /\ ring' = [ring EXCEPT ![o][k] = None]
  BY <1>2 DEF Destroy
<1>5. victim \in Objects /\ victim <= allocated /\ home[victim] = <<o, k>>
  BY <1>1, <1>2, <1>3 DEF StoreInv, Inhabited, Maybe
<1>6. ring[o][k] \in {None, victim} /\ (ring[o][k] = None => victim = i)
  OBVIOUS
<1> HIDE DEF k, victim
<1> QED BY <1>2, <1>4, <1>5, <1>6

LEMMA FinishStep == StoreInv /\ Finish => StoreInv'
<1> SUFFICES ASSUME StoreInv, Finish, NEW o \in Owners, o = serving PROVE StoreInv'
  BY DEF Finish, StoreInv, AtWork
<1> DEFINE done == queue[o][1].frees
<1>1. /\ o \in Owners /\ Head(queue[o]) = queue[o][1]
      /\ queue' \in [Owners -> Seq(EntryType)]
      /\ queue'[o] # <<>> /\ queue'[o][1].frees = None
      /\ \A w \in Owners : \A n \in DOMAIN queue'[w] : queue'[w][n].frees \in {None, queue'[w][n].uses}
  BY FinishQueues
<1>2. /\ UNCHANGED <<cursor, home, prepared, holding, serving, disturbed, allocated>>
      /\ step = "action" /\ step' \in {"pop", "abort"}
      /\ Release(queue[o][1])
  BY <1>1 DEF Finish
<1>3. /\ \A w \in Owners \ {o} : PendingOf(w)' = PendingOf(w)
      /\ PendingOf(o)' \union ({done} \ {None}) = PendingOf(o)
      /\ \A w \in Owners : PendingOf(w) \subseteq Objects
  BY FinishQueues, PendingObjects DEF StoreInv, StoreTypes, PendingOf
<1>4. \A w \in Owners : \A a : Ordered(queue[w], prepared[w], a) => Ordered(queue'[w], prepared'[w], a)
  BY <1>2, FinishQueues
<1>5. \A a : Ordered(queue[o], prepared[o], a) => \A i \in PendingOf(o)' : done # None => a[i] < a[done]
  BY FinishQueues
<1> HIDE DEF done
<1>6. AtWork' /\ Matched' /\ OwnPlaces'
  <2>1. AtWork'
    BY <1>1, <1>2 DEF AtWork, Stages
  <2>2. Matched'
    BY <1>1, <1>2 DEF StoreInv, Matched
  <2>3. \A w \in Owners : PendingOf(w)' \subseteq PendingOf(w)
    BY <1>2, <1>3
  <2> QED BY <1>2, <2>1, <2>2, <2>3 DEF StoreInv, OwnPlaces
<1>7. CASE done = None
  <2>1. UNCHANGED <<destroyed, ring>>
    BY <1>2, <1>7 DEF Release, done
  <2>2. \A w \in Owners : PendingOf(w)' = PendingOf(w)
    BY <1>2, <1>3, <1>7
  <2>3. StoreTypes' /\ Inhabited'
    BY <1>1, <1>2, <2>1 DEF StoreInv, StoreTypes, Inhabited
  <2>4. \A w \in Owners \ disturbed' : Intact(w)'
    BY <1>2, <1>4, <2>1, <2>2, IntactStill DEF StoreInv
  <2> QED BY <1>6, <2>3, <2>4 DEF StoreInv
<1>8. CASE done # None
  <2>1. done \in PendingOf(o) /\ Destroy(done)
    BY <1>2, <1>3, <1>8 DEF Release, done
  <2>2. PICK victim \in Objects, k \in Places :
             /\ home[done] = <<o, k>> /\ home[victim] = <<o, k>> /\ victim <= allocated
             /\ ring[o][k] \in {None, victim} /\ (ring[o][k] = None => victim = done)
             /\ destroyed' = [destroyed EXCEPT ![victim] = @ + 1]
             /\ ring' = [ring EXCEPT ![o][k] = None]
    BY <2>1, ReleaseVictim
  <2>3. /\ \A i \in Objects \ {victim} : destroyed'[i] = destroyed[i]
        /\ \A w \in Owners \ {o} : ring'[w] = ring[w]
        /\ \A l \in Places \ {k} : ring'[o][l] = ring[o][l]
        /\ ring'[o][k] = None
    BY <1>1, <2>2 DEF StoreInv, StoreTypes
  <2>4. StoreTypes'
    BY <1>1, <1>2, <2>2, SMTT(30) DEF StoreInv, StoreTypes, Maybe
  <2>5. Inhabited'
    <3>1. ASSUME NEW w \in Owners, NEW l \in Places, ring'[w][l] # None
          PROVE  ring'[w][l] <= allocated /\ home[ring'[w][l]] = <<w, l>>
      <4>1. ring'[w][l] = ring[w][l]
        BY <2>3, <3>1
      <4> QED BY <3>1, <4>1 DEF StoreInv, Inhabited
    <3>2. ASSUME NEW i \in Objects, allocated < i PROVE destroyed'[i] = 0
      <4>1. i # victim
        BY <2>2, <3>2 DEF StoreInv, StoreTypes, Objects
      <4> QED BY <2>3, <3>2, <4>1 DEF StoreInv, Inhabited
    <3> QED BY <1>2, <3>1, <3>2 DEF Inhabited
  <2>6. ASSUME NEW w \in Owners \ disturbed', w # o PROVE Intact(w)'
    <3>1. PendingOf(w)' = PendingOf(w) /\ \A i \in PendingOf(w) : i \in Objects /\ home[i] \in {w} \X Places
      BY <1>3, <2>6 DEF StoreInv, OwnPlaces
    <3>2. \A i \in PendingOf(w) : i # victim
      BY <2>2, <2>6, <3>1
    <3>3. \A i \in PendingOf(w) : destroyed'[i] = destroyed[i] /\ ring'[w] = ring[w]
      BY <2>3, <2>6, <3>1, <3>2
    <3> QED BY <1>2, <1>4, <2>6, <3>1, <3>3, IntactStill DEF StoreInv
  <2>7. ASSUME o \notin disturbed' PROVE Intact(o)'
    <3> DEFINE S == PendingOf(o)
               R == PendingOf(o)'
               a == Ages(o)
               b == Ages(o)'
    <3>1. /\ Ordered(queue[o], prepared[o], a)
          /\ \A i \in S : destroyed[i] = 0 /\ ring[o][home[i][2]] = i /\ a[i] < Cardinality(S)
      BY <1>1, <1>2, <2>7 DEF StoreInv, Intact
    <3>2. /\ \A i \in S : i \in Objects /\ home[i] \in {o} \X Places /\ a[i] = Age(cursor[o], home[i][2])
          /\ cursor[o] \in Places /\ S \subseteq Objects /\ IsFiniteSet(S) /\ Cardinality(S) \in Nat
      BY <1>1, <1>3, PendingObjects DEF StoreInv, OwnPlaces, Ages, StoreTypes, PendingOf
    <3>3. \A i \in S : a[i] \in Nat
      BY <3>2, AgeRange, PayloadAssumption
    <3>4. a = b
      BY <1>2 DEF Ages
    <3>5. R \union {done} = S /\ (\A i \in R : a[i] < a[done])
      BY <1>3, <1>5, <1>8, <3>1
    <3> HIDE DEF S, R, a
    <3>6. R = S \ {done} /\ done \in S
      <4>1. done \notin R
        BY <3>3, <3>5
      <4> QED BY <3>5, <4>1
    <3>7. Cardinality(R) = Cardinality(S) - 1
      BY <3>2, <3>6, FS_RemoveElement
    <3>8. Ordered(queue'[o], prepared'[o], a)
      BY <1>1, <1>4, <3>1
    <3>9. victim = done
      <4>1. ring[o][k] = done
        BY <2>2, <3>1, <3>6
      <4> QED BY <2>2, <4>1, <3>2, <3>6, PayloadAssumption
    <3>10. ASSUME NEW i \in R
           PROVE  destroyed'[i] = 0 /\ ring'[o][home[i][2]] = i /\ a[i] < Cardinality(R)
      <4>1. i \in S /\ i # done /\ i \in Objects /\ a[i] < a[done] /\ a[done] < Cardinality(S)
        BY <3>1, <3>2, <3>5, <3>6
      <4>2. a[i] < Cardinality(R)
        BY <3>2, <3>3, <3>6, <3>7, <4>1
      <4>3. home[i][2] \in Places /\ home[i][2] # k
        <5>1. home[done][2] = k /\ a[done] = Age(cursor[o], k)
          BY <2>2, <3>2, <3>6
        <5>2. home[i][2] \in Places /\ a[i] = Age(cursor[o], home[i][2]) /\ a[i] # a[done]
          BY <3>2, <3>3, <3>6, <4>1
        <5> QED BY <5>1, <5>2
      <4> QED BY <2>3, <3>1, <3>9, <4>1, <4>2, <4>3
    <3> QED BY <1>2, <3>4, <3>8, <3>10 DEF Intact, R, b
  <2> QED BY <1>6, <2>4, <2>5, <2>6, <2>7 DEF StoreInv
<1> QED BY <1>7, <1>8

LEMMA PopPending ==
    ASSUME StoreInv, Pop
    PROVE  /\ \A w \in Owners : PendingOf(w)' = PendingOf(w)
           /\ \A w \in Owners : \A a :
                 Ordered(queue[w], prepared[w], a) => Ordered(queue'[w], prepared'[w], a)
<1> DEFINE q == queue[serving]
<1>1. /\ step \in {"pop", "abort"} /\ step' \in {"between", "ended"} /\ queue' = [queue EXCEPT ![serving] = Tail(q)]
      /\ UNCHANGED <<cursor, ring, home, prepared, holding, allocated, destroyed, disturbed>>
  BY DEF Pop, ringVars, historyVars
<1>2. /\ serving \in Owners /\ q \in Seq(EntryType) /\ q # <<>> /\ q[1].frees = None
      /\ prepared[serving] \in Maybe(Objects)
  BY <1>1 DEF StoreInv, AtWork, StoreTypes
<1>3. queue'[serving] = Tail(q) /\ \A w \in Owners \ {serving} : queue'[w] = queue[w]
  BY <1>1, <1>2 DEF StoreInv, StoreTypes
<1>4. q = queue[serving]
  OBVIOUS
<1> HIDE DEF q
<1>5. /\ Tail(q) \in Seq(EntryType)
      /\ \A n \in DOMAIN Tail(q) : n + 1 \in DOMAIN q /\ Tail(q)[n] = q[n + 1]
      /\ Pending(Tail(q), prepared[serving]) = Pending(q, prepared[serving])
      /\ \A a : Ordered(q, prepared[serving], a) => Ordered(Tail(q), prepared[serving], a)
  BY <1>2, PopKeeps
<1>6. ASSUME NEW w \in Owners
      PROVE  /\ PendingOf(w)' = PendingOf(w)
             /\ \A a : Ordered(queue[w], prepared[w], a) => Ordered(queue'[w], prepared'[w], a)
  <2>1. CASE w = serving
    BY <1>1, <1>3, <1>4, <1>5, <2>1 DEF PendingOf
  <2>2. CASE w # serving
    BY <1>1, <1>3, <2>2 DEF PendingOf
  <2> QED BY <2>1, <2>2
<1> QED BY <1>6

LEMMA PopStep == StoreInv /\ Pop => StoreInv'
<1> SUFFICES ASSUME StoreInv, Pop PROVE StoreInv'
  OBVIOUS
<1> DEFINE q == queue[serving]
<1>1. /\ step \in {"pop", "abort"} /\ step' \in {"between", "ended"} /\ queue' = [queue EXCEPT ![serving] = Tail(q)]
      /\ UNCHANGED <<cursor, ring, home, prepared, holding, allocated, destroyed, disturbed>>
  BY DEF Pop, ringVars, historyVars
<1>2. /\ serving \in Owners /\ q \in Seq(EntryType) /\ q # <<>> /\ q[1].frees = None
      /\ prepared[serving] \in Maybe(Objects)
  BY <1>1 DEF StoreInv, AtWork, StoreTypes
<1>3. \A n \in DOMAIN q : q[n].frees \in {None, q[n].uses}
  BY <1>2 DEF StoreInv, Matched
<1>4. queue'[serving] = Tail(q) /\ \A w \in Owners \ {serving} : queue'[w] = queue[w]
  BY <1>1, <1>2 DEF StoreInv, StoreTypes
<1>5. q = queue[serving]
  OBVIOUS
<1> HIDE DEF q
<1>6. /\ Tail(q) \in Seq(EntryType)
      /\ \A n \in DOMAIN Tail(q) : n + 1 \in DOMAIN q /\ Tail(q)[n] = q[n + 1]
      /\ Pending(Tail(q), prepared[serving]) = Pending(q, prepared[serving])
      /\ \A a : Ordered(q, prepared[serving], a) => Ordered(Tail(q), prepared[serving], a)
  BY <1>2, PopKeeps
<1>7. /\ \A w \in Owners : PendingOf(w)' = PendingOf(w)
      /\ \A w \in Owners : \A a : Ordered(queue[w], prepared[w], a) => Ordered(queue'[w], prepared'[w], a)
  BY PopPending
<1>8. StoreTypes'
  BY <1>1, <1>6 DEF StoreInv, StoreTypes
<1>9. AtWork' /\ OwnPlaces' /\ Inhabited'
  BY <1>1, <1>7 DEF StoreInv, AtWork, OwnPlaces, Inhabited, Stages
<1>10. Matched'
  <2>1. ASSUME NEW w \in Owners, NEW n \in DOMAIN queue'[w]
        PROVE  queue'[w][n].frees \in {None, queue'[w][n].uses}
    <3>1. CASE w = serving
      BY <1>3, <1>4, <1>6, <2>1, <3>1, SMTT(30)
    <3>2. CASE w # serving
      BY <1>4, <2>1, <3>2 DEF StoreInv, Matched
    <3> QED BY <3>1, <3>2
  <2> QED BY <1>1, <2>1 DEF StoreInv, Matched
<1>11. ASSUME NEW w \in Owners \ disturbed' PROVE Intact(w)'
  BY <1>1, <1>7, IntactStill DEF StoreInv
<1> QED BY <1>8, <1>9, <1>10, <1>11 DEF StoreInv

(* What touches neither ring nor queue. *)
LEMMA StoreStill ==
    ASSUME StoreInv,
           UNCHANGED <<cursor, ring, home, prepared, queue, allocated, destroyed, disturbed>>,
           \/ holding' = holding
           \/ \E o \in Owners : prepared[o] = None /\ holding' = [holding EXCEPT ![o] = None],
           \/ step' = step /\ serving' = serving
           \/ step' = "action" /\ serving' \in Owners /\ queue[serving'] # <<>>
    PROVE  StoreInv'
<1>1. StoreTypes'
  <2>1. holding' \in [Owners -> Maybe(Objects)]
    BY DEF StoreInv, StoreTypes, Maybe
  <2> QED BY <2>1 DEF StoreInv, StoreTypes
<1>2. AtWork'
  BY DEF StoreInv, AtWork, Stages
<1>3. OwnPlaces' /\ Inhabited'
  BY DEF StoreInv, OwnPlaces, Inhabited, PendingOf
<1>4. Matched'
  BY DEF StoreInv, Matched, StoreTypes
<1>5. \A o \in Owners \ disturbed' : Intact(o)'
  <2>1. \A o \in Owners : PendingOf(o)' = PendingOf(o)
    BY DEF PendingOf
  <2>2. \A o \in Owners \ disturbed : Intact(o)
    BY DEF StoreInv
  <2> QED BY <2>1, <2>2, IntactStill DEF StoreInv
<1> QED BY <1>1, <1>2, <1>3, <1>4, <1>5 DEF StoreInv

LEMMA StoreStep == StoreInv /\ [Next]_vars => StoreInv'
<1> SUFFICES ASSUME StoreInv, [Next]_vars PROVE StoreInv'
  OBVIOUS
<1>1. LoopThread \in Owners /\ Producers \subseteq Owners /\ LoopThread \notin Producers /\ N \in Nat
  BY PayloadAssumption DEF Owners
<1>2. ASSUME NEW p \in Producers, GetPayload(p) PROVE StoreInv'
  <2>1. CASE prepared[p] = None /\ TakePlace(p)
    <3>1. queue[p] \in Seq(EntryType) /\ Len(queue[p]) < N /\ p \in Owners
      BY <1>1, <1>2 DEF GetPayload, StoreInv, StoreTypes
    <3>2. PendingOf(p) = Pending(queue[p], None)
      BY <2>1 DEF PendingOf
    <3>3. Cardinality(PendingOf(p)) <= Len(queue[p]) /\ Cardinality(PendingOf(p)) \in Nat /\ Len(queue[p]) \in Nat
      BY <3>1, <3>2, PendingPosted, PendingObjects DEF Maybe
    <3>4. Cardinality(PendingOf(p)) < N
      BY <1>1, <3>1, <3>3
    <3> QED BY <2>1, <3>1, <3>4, TakePlaceStep
  <2>2. CASE DropPrepared(p) /\ UNCHANGED <<cursor, ring, home, holding, entries, workVars, destroyed, outlived,
                                            allocated, posts>>
    BY <1>1, <2>2, DropStep DEF workVars
  <2> QED BY <1>2, <2>1, <2>2 DEF GetPayload
<1>3. CASE GetLocalPayload
  <2>1. prepared[LoopThread] = None /\ TakePlace(LoopThread)
    BY <1>3 DEF GetLocalPayload
  <2>2. Outstanding(LoopThread) = PendingOf(LoopThread) /\ Cardinality(PendingOf(LoopThread)) \in Nat
    BY <1>1, OutstandingPending, PendingObjects DEF StoreInv, StoreTypes, PendingOf
  <2>3. LoopThread \notin disturbed' => Cardinality(PendingOf(LoopThread)) < N
    BY <1>1, <2>1, <2>2 DEF TakePlace
  <2> QED BY <1>1, <2>1, <2>3, TakePlaceStep
<1>4. ASSUME NEW o \in Owners, Post(o) \/ PostAsync(o) PROVE StoreInv'
  <2>1. \E op \in Ops : Push(o, op) /\ UNCHANGED <<historyVars, allocated>>
    BY <1>4 DEF Post, PostAsync, Ops
  <2> QED BY <2>1, PushStep
<1>10. ASSUME NEW o \in Owners, PostIdleTimed(o) PROVE StoreInv'
  BY <1>10, PushStep DEF PostIdleTimed, Ops
<1>5. ASSUME NEW o \in Owners, PostTimed(o) PROVE StoreInv'
  <2>1. CASE DropPrepared(LoopThread) /\ UNCHANGED <<cursor, ring, home, holding, entries, workVars, destroyed, allocated>>
    BY <1>1, <2>1, DropStep DEF workVars
  <2>2. CASE /\ prepared[LoopThread] = None /\ o = LoopThread
             /\ holding' = [holding EXCEPT ![o] = None]
             /\ UNCHANGED <<cursor, ring, home, prepared, entries, queue, serving, step, historyVars, allocated>>
    BY <1>1, <2>2, StoreStill DEF historyVars
  <2>3. CASE Push(o, "timed") /\ UNCHANGED <<historyVars, allocated>>
    BY <2>3, PushStep DEF Ops
  <2> QED BY <1>5, <2>1, <2>2, <2>3 DEF PostTimed
<1>6. ASSUME NEW o \in Owners, Begin(o) PROVE StoreInv'
  BY <1>6, StoreStill DEF Begin, ringVars, historyVars
<1>7. CASE Finish
  BY <1>7, FinishStep
<1>8. CASE Pop
  BY <1>8, PopStep
<1>9. CASE FireTimed \/ EmptyCycle \/ UNCHANGED vars
  <2>1. UNCHANGED <<ringVars, queue, serving, step, historyVars, allocated>>
    BY <1>9 DEF FireTimed, EmptyCycle, vars, workVars
  <2> QED BY <2>1, StoreStill DEF ringVars, historyVars
<1> QED BY <1>2, <1>3, <1>4, <1>5, <1>6, <1>7, <1>8, <1>9, <1>10 DEF Next

LEMMA DisturbedGrows == [Next]_vars => disturbed \subseteq disturbed'
<1> SUFFICES ASSUME [Next]_vars PROVE disturbed \subseteq disturbed'
  OBVIOUS
<1>1. ASSUME NEW p \in Producers, GetPayload(p) PROVE disturbed \subseteq disturbed'
  BY <1>1 DEF GetPayload, TakePlace, DropPrepared
<1>2. ASSUME NEW o \in Owners, Post(o) \/ PostAsync(o) \/ PostTimed(o) \/ PostIdleTimed(o) \/ Begin(o)
      PROVE  disturbed \subseteq disturbed'
  BY <1>2 DEF Post, PostAsync, PostTimed, PostIdleTimed, Begin, DropPrepared, historyVars
<1>3. CASE GetLocalPayload
  BY <1>3 DEF GetLocalPayload, TakePlace
<1>4. CASE Finish \/ Pop \/ FireTimed \/ EmptyCycle \/ UNCHANGED vars
  BY <1>4 DEF Finish, Pop, FireTimed, EmptyCycle, vars, historyVars
<1> QED BY <1>1, <1>2, <1>3, <1>4 DEF Next

-----------------------------------------------------------------------------
(* What is used without being destroyed with the entry. *)

(* Destroyed with an earlier entry, or of a ring of which nothing is said.  *)
Excused(i) == i \in 1 .. allocated /\ (i \in outlived \/ home[i][1] \in disturbed)

Fine(e) == e.uses # None => e.frees = e.uses \/ Excused(e.uses)

(* A timed event of the loop thread is stored a second time by an entry     *)
(* that has yet to destroy its object.                                      *)
StoredAgain(i) ==
    \E n \in Waiting(LoopThread) :
        queue[LoopThread][n].op = "timed" /\ queue[LoopThread][n].frees = i

UsesInv ==
    /\ \A o \in Owners : holding[o] # None => prepared[o] = holding[o] \/ Excused(holding[o])
    /\ \A o \in Owners : \A n \in Waiting(o) : Fine(queue[o][n])
    /\ None \notin timed /\ \A i \in timed : Excused(i) \/ StoredAgain(i)

(* Excuses last. *)
LEMMA ExcusedStays ==
    ASSUME StoreInv, [Next]_vars, NEW i, Excused(i)
    PROVE  Excused(i)'
<1>1. disturbed \subseteq disturbed'
  BY DisturbedGrows
<1>2. allocated \in Nat /\ outlived \subseteq outlived' /\ allocated <= allocated'
      /\ (home' = home \/ \E h : home' = [home EXCEPT ![allocated + 1] = h])
  <2>1. allocated \in Nat
    BY DEF StoreInv, StoreTypes
  <2>2. ASSUME NEW o \in Owners, TakePlace(o)
        PROVE  outlived' = outlived /\ allocated' = allocated + 1
               /\ \E h : home' = [home EXCEPT ![allocated + 1] = h]
    BY <2>2 DEF TakePlace
  <2>3. ASSUME NEW p \in Producers, GetPayload(p)
        PROVE  (\E o \in Owners : TakePlace(o)) \/ UNCHANGED <<outlived, allocated, home>>
    BY <2>3 DEF GetPayload, Owners
  <2>4. CASE GetLocalPayload
    BY <2>1, <2>2, <2>4 DEF GetLocalPayload, Owners
  <2>5. ASSUME NEW o \in Owners, Post(o) \/ PostAsync(o) \/ PostTimed(o) \/ PostIdleTimed(o) \/ Begin(o)
        PROVE  UNCHANGED <<outlived, allocated, home>>
    BY <2>5 DEF Post, PostAsync, PostTimed, PostIdleTimed, Begin, Push, historyVars, ringVars
  <2>6. CASE Finish
    BY <2>1, <2>6 DEF Finish, Outlives
  <2>7. CASE Pop \/ FireTimed \/ EmptyCycle \/ UNCHANGED vars
    BY <2>1, <2>7 DEF Pop, FireTimed, EmptyCycle, vars, ringVars, historyVars
  <2> QED BY <2>1, <2>2, <2>3, <2>4, <2>5, <2>6, <2>7 DEF Next
<1>3. i \in 1 .. allocated' /\ i # allocated + 1
  <2>1. allocated' \in Int
    <3>1. StoreInv'
      BY StoreStep
    <3> QED BY <3>1, PayloadAssumption DEF StoreInv, StoreTypes
  <2> QED BY <1>2, <2>1 DEF Excused
<1>4. home'[i] = home[i]
  <2>1. i \in Objects /\ DOMAIN home = Objects
    BY PayloadAssumption DEF Excused, StoreInv, StoreTypes, Objects
  <2> QED BY <1>2, <1>3, <2>1
<1> QED BY <1>1, <1>2, <1>3, <1>4 DEF Excused

(* What is to be destroyed has been built. *)
LEMMA PendingBuilt ==
    ASSUME StoreInv, NEW o \in Owners, NEW i \in PendingOf(o)
    PROVE  i \in 1 .. allocated /\ home[i][1] = o
<1>1. i \in Objects /\ i <= allocated /\ home[i] \in {o} \X Places /\ allocated \in Nat
  BY PendingObjects DEF StoreInv, StoreTypes, PendingOf, OwnPlaces
<1> QED BY <1>1, PayloadAssumption DEF Objects

(* A step of which the queues and the loop thread's place know nothing.     *)
LEMMA UsesElsewhere ==
    ASSUME StoreInv, UsesInv, [Next]_vars, UNCHANGED <<queue, serving>>,
           step' = step,
           \A i \in timed' \ timed : i # None /\ Excused(i)',
           \A o \in Owners : holding'[o] = None \/ prepared'[o] = holding'[o]
                                \/ (holding'[o] = holding[o] /\ prepared'[o] = prepared[o])
                                \/ Excused(holding[o])'
    PROVE  UsesInv'
<1>1. \A o \in Owners : Waiting(o)' = Waiting(o)
  BY DEF Waiting
<1>2. \A o \in Owners : holding'[o] # None => prepared'[o] = holding'[o] \/ Excused(holding[o])'
  BY ExcusedStays DEF UsesInv
<1>3. \A o \in Owners : \A n \in Waiting(o)' : Fine(queue[o][n])'
  BY <1>1, ExcusedStays DEF UsesInv, Fine
<1>4. \A i \in timed' : Excused(i)' \/ StoredAgain(i)'
  BY <1>1, ExcusedStays DEF UsesInv, StoredAgain, Owners
<1>5. None \notin timed'
  BY DEF UsesInv
<1> QED BY <1>2, <1>3, <1>4, <1>5 DEF UsesInv

(* A post: the new entry uses what was held, and destroys it or need not.   *)
LEMMA UsesPush ==
    ASSUME StoreInv, UsesInv, [Next]_vars, NEW o \in Owners, NEW op \in Ops, Push(o, op),
           \/ timed' = timed
           \/ o = LoopThread /\ op = "timed" /\ timed' = timed \union ({holding[o]} \ {None})
    PROVE  UsesInv'
<1> DEFINE l == Len(queue[o]) + 1
<1>0. PICK e : e = EntryOf(o, op)
  OBVIOUS
<1>1. /\ queue[o] \in Seq(EntryType) /\ e \in EntryType
      /\ e.uses = holding[o] /\ e.frees = prepared[o] /\ e.op = op
  BY <1>0 DEF StoreInv, StoreTypes, EntryOf, EntryType, Maybe
<1>2. /\ queue' = [queue EXCEPT ![o] = Append(queue[o], e)]
      /\ holding' = [holding EXCEPT ![o] = None] /\ prepared' = [prepared EXCEPT ![o] = None]
      /\ UNCHANGED <<serving, step>>
  BY <1>0 DEF Push
<1>3. /\ queue'[o] = Append(queue[o], e) /\ \A w \in Owners \ {o} : queue'[w] = queue[w]
      /\ holding'[o] = None /\ \A w \in Owners \ {o} : holding'[w] = holding[w] /\ prepared'[w] = prepared[w]
  BY <1>2 DEF StoreInv, StoreTypes
<1>4. /\ Len(queue[o]) \in Nat /\ DOMAIN queue[o] = 1 .. Len(queue[o]) /\ DOMAIN queue'[o] = 1 .. l
      /\ \A n \in 1 .. Len(queue[o]) : queue'[o][n] = queue[o][n]
      /\ queue'[o][l] = e
  BY <1>1, <1>3, AppendProperties
<1>5. l \in Waiting(o)'
  <2>1. serving = o /\ step \in {"pop", "abort"} => l # 1
    BY <1>1, <1>4, EmptySeq DEF StoreInv, AtWork
  <2> QED BY <1>2, <1>4, <2>1 DEF Waiting
<1> HIDE DEF l
<1>a. \A n \in 1 .. l : n = l \/ n \in 1 .. Len(queue[o])
  BY <1>4 DEF l
<1>6. /\ \A w \in Owners \ {o} : Waiting(w)' = Waiting(w)
      /\ Waiting(o) \subseteq Waiting(o)'
      /\ \A n \in Waiting(o)' : n = l \/ (n \in Waiting(o) /\ n \in 1 .. Len(queue[o]))
  <2>1. 1 .. Len(queue[o]) \subseteq 1 .. l
    BY <1>4 DEF l
  <2> QED BY <1>2, <1>3, <1>4, <1>a, <2>1 DEF Waiting
<1>7. Fine(e)'
  BY <1>1, ExcusedStays DEF UsesInv, Fine
<1>8. \A w \in Owners : \A n \in Waiting(w)' : Fine(queue[w][n])'
  <2>1. ASSUME NEW w \in Owners, NEW n \in Waiting(w)' PROVE Fine(queue[w][n])'
    <3>1. CASE n \in Waiting(w) /\ queue'[w][n] = queue[w][n]
      BY <3>1, ExcusedStays DEF UsesInv, Fine
    <3>2. CASE w = o /\ n = l
      BY <1>4, <1>7, <3>2 DEF Fine
    <3> QED BY <1>3, <1>4, <1>6, <2>1, <3>1, <3>2
  <2> QED BY <2>1
<1>9. \A i : StoredAgain(i) => StoredAgain(i)'
  <2>1. LoopThread \in Owners
    BY DEF Owners
  <2>2. \A n \in Waiting(LoopThread) : n \in Waiting(LoopThread)' /\ queue'[LoopThread][n] = queue[LoopThread][n]
    <3>1. Waiting(LoopThread) \subseteq DOMAIN queue[LoopThread]
      BY DEF Waiting
    <3> QED BY <1>3, <1>4, <1>6, <2>1, <3>1
  <2> QED BY <2>2 DEF StoredAgain
<1>10. \A i \in timed' : Excused(i)' \/ StoredAgain(i)'
  <2>1. \A i \in timed : Excused(i)' \/ StoredAgain(i)'
    BY <1>9, ExcusedStays DEF UsesInv
  <2>2. ASSUME o = LoopThread, op = "timed", NEW h, h = holding[o], h # None
        PROVE  Excused(h)' \/ StoredAgain(h)'
    <3>1. CASE Excused(h)
      BY <3>1, ExcusedStays
    <3>2. CASE prepared[o] = h
      BY <1>1, <1>4, <1>5, <2>2, <3>2 DEF StoredAgain
    <3> QED BY <2>2, <3>1, <3>2 DEF UsesInv
  <2> QED BY <2>1, <2>2
<1>11. \A w \in Owners : holding'[w] # None => prepared'[w] = holding'[w] \/ Excused(holding[w])'
  BY <1>3, ExcusedStays DEF UsesInv
<1>12. None \notin timed'
  BY DEF UsesInv
<1> QED BY <1>8, <1>10, <1>11, <1>12 DEF UsesInv

(* A dropped entry leaves what was held excused. *)
LEMMA UsesDrop ==
    ASSUME StoreInv, UsesInv, [Next]_vars, NEW o \in Owners, prepared[o] # None, DropPrepared(o),
           UNCHANGED <<home, holding, queue, serving, step, timed, allocated>>
    PROVE  UsesInv'
<1>1. holding[o] = prepared[o] /\ prepared[o] \in PendingOf(o)
  BY DEF StoreInv, Matched, PendingOf, Pending
<1>2. Excused(holding[o])'
  BY <1>1, PendingBuilt DEF DropPrepared, Excused
<1>3. \A w \in Owners \ {o} : prepared'[w] = prepared[w]
  BY DEF DropPrepared
<1> QED BY <1>2, <1>3, UsesElsewhere

(* The entry that comes back, or whose event is stored, is excused: its     *)
(* object is destroyed now or was before.                                   *)
LEMMA UsesFinish ==
    ASSUME StoreInv, UsesInv, [Next]_vars, Finish
    PROVE  UsesInv'
<1> DEFINE o == serving
           q == queue[o]
           rest == [queue EXCEPT ![o][1].frees = None]
<1>0. PICK entry, again : entry = q[1] /\ again = [op |-> "async", uses |-> entry.uses, frees |-> None]
  OBVIOUS
<1>1. /\ o \in Owners /\ q \in Seq(EntryType) /\ q # <<>> /\ Head(q) = entry
      /\ 1 \in DOMAIN q /\ entry \in EntryType /\ step = "action"
      /\ DOMAIN q = 1 .. Len(q) /\ Len(q) \in Nat
  BY <1>0, EmptySeq DEF Finish, StoreInv, StoreTypes, AtWork
<1>2. /\ UNCHANGED <<home, prepared, holding, serving, allocated, disturbed>>
      /\ step' \in {"pop", "abort"}
  BY DEF Finish
<1>3. \/ /\ entry.op = "async" /\ queue' = [rest EXCEPT ![LoopThread] = Append(@, again)]
         /\ Outlives(entry) /\ timed' = timed
      \/ entry.op # "timed" /\ queue' = rest /\ timed' = timed
      \/ /\ entry.op = "timed" /\ queue' = rest /\ Outlives(entry)
         /\ timed' = timed \union ({entry.uses} \ {None})
  BY <1>0, <1>1 DEF Finish
<1>4. ASSUME Outlives(entry), entry.uses # None PROVE Excused(entry.uses)'
  <2>1. CASE entry.frees = None
    <3>1. 1 \in Waiting(o)
      BY <1>1 DEF Waiting
    <3>2. Excused(entry.uses)
      BY <1>0, <1>1, <1>4, <2>1, <3>1 DEF UsesInv, Fine
    <3> QED BY <3>2, ExcusedStays
  <2>2. CASE entry.frees # None
    <3>1. entry.frees = entry.uses /\ entry.frees \in PendingOf(o)
      BY <1>0, <1>1, <2>2 DEF StoreInv, Matched, PendingOf, Pending, Freed
    <3>2. entry.uses \in 1 .. allocated'
      BY <1>1, <1>2, <3>1, PendingBuilt
    <3> QED BY <1>4, <2>2, <3>2 DEF Outlives, Excused
  <2> QED BY <2>1, <2>2
<1>5. /\ \A w \in Owners \ {o} : rest[w] = queue[w]
      /\ DOMAIN rest[o] = DOMAIN q /\ \A n \in DOMAIN q \ {1} : rest[o][n] = q[n]
      /\ \A w \in Owners : rest[w] \in Seq(EntryType)
  <2>1. rest = [queue EXCEPT ![o] = [q EXCEPT ![1].frees = None]]
    OBVIOUS
  <2>2. [q EXCEPT ![1].frees = None] \in Seq(EntryType)
    BY <1>1, DisarmKeeps DEF Maybe
  <2>3. queue \in [Owners -> Seq(EntryType)]
    BY DEF StoreInv, StoreTypes
  <2> HIDE DEF rest, q
  <2>4. rest[o] = [q EXCEPT ![1].frees = None] /\ \A w \in Owners \ {o} : rest[w] = queue[w]
    BY <1>1, <2>1, <2>3
  <2>5. DOMAIN rest[o] = DOMAIN q /\ \A n \in DOMAIN q \ {1} : rest[o][n] = q[n]
    BY <2>4
  <2>6. \A w \in Owners : rest[w] \in Seq(EntryType)
    BY <2>2, <2>3, <2>4
  <2> QED BY <2>4, <2>5, <2>6
<1>6. again \in EntryType /\ (again.uses # None /\ Outlives(entry) => Excused(again.uses)')
  BY <1>0, <1>1, <1>4 DEF EntryType, Ops
<1> HIDE DEF rest, q
<1>7. ASSUME NEW w \in Owners, NEW n \in Waiting(w)'
      PROVE  Fine(queue[w][n])'
  <2>1. n \in DOMAIN queue'[w] /\ ~(n = 1 /\ w = o)
    BY <1>2 DEF Waiting
  <2>2. CASE n \in DOMAIN rest[w] /\ queue'[w][n] = rest[w][n]
    <3>1. n \in DOMAIN queue[w] /\ queue'[w][n] = queue[w][n]
      BY <1>5, <2>1, <2>2 DEF q
    <3>2. n \in Waiting(w)
      BY <1>1, <3>1 DEF Waiting
    <3> QED BY <3>1, <3>2, ExcusedStays DEF UsesInv, Fine
  <2>3. CASE queue' = [rest EXCEPT ![LoopThread] = Append(@, again)] /\ Outlives(entry)
    <3>1. queue'[w] = rest[w] \/ queue'[w] = Append(rest[w], again)
      <4>1. DOMAIN rest = Owners
        BY DEF rest, StoreInv, StoreTypes
      <4> QED BY <2>3, <4>1
    <3>2. CASE queue'[w] = rest[w]
      BY <2>1, <2>2, <3>2
    <3>3. CASE queue'[w] = Append(rest[w], again)
      <4>1. rest[w] \in Seq(EntryType)
        BY <1>5
      <4>2. /\ Len(rest[w]) \in Nat /\ DOMAIN rest[w] = 1 .. Len(rest[w])
            /\ DOMAIN queue'[w] = 1 .. (Len(rest[w]) + 1)
            /\ \A m \in 1 .. Len(rest[w]) : queue'[w][m] = rest[w][m]
            /\ queue'[w][Len(rest[w]) + 1] = again
        BY <1>6, <3>3, <4>1, AppendProperties
      <4>3. n \in DOMAIN rest[w] \/ n = Len(rest[w]) + 1
        BY <2>1, <4>2
      <4>4. CASE n \in DOMAIN rest[w]
        BY <2>2, <4>2, <4>4
      <4>5. CASE n = Len(rest[w]) + 1
        BY <1>6, <2>3, <4>2, <4>5 DEF Fine
      <4> QED BY <4>3, <4>4, <4>5
    <3> QED BY <3>1, <3>2, <3>3
  <2> QED BY <1>3, <2>1, <2>2, <2>3
<1>8. ASSUME NEW i \in timed' PROVE Excused(i)' \/ StoredAgain(i)'
  <2>1. CASE i \notin timed
    <3>1. Outlives(entry) /\ i = entry.uses /\ i # None
      BY <1>3, <1>8, <2>1
    <3> QED BY <1>4, <3>1
  <2>2. CASE Excused(i)
    BY <2>2, ExcusedStays
  <2>3. CASE i \in timed /\ ~Excused(i)
    <3>1. PICK n \in Waiting(LoopThread) :
              queue[LoopThread][n].op = "timed" /\ queue[LoopThread][n].frees = i
      BY <2>3 DEF UsesInv, StoredAgain
    <3>2. LoopThread \in Owners /\ n \in DOMAIN queue[LoopThread] /\ DOMAIN rest = Owners
      BY <3>1 DEF Owners, Waiting, rest, StoreInv, StoreTypes
    <3>3. CASE o = LoopThread /\ n = 1
      <4>1. entry.op = "timed" /\ entry.frees = i /\ Outlives(entry)
        <5>1. entry.op = "timed" /\ entry.frees = i
          BY <1>0, <3>1, <3>3 DEF q
        <5> QED BY <1>3, <5>1
      <4>2. i # None => entry.uses = i
        BY <1>0, <1>1, <4>1 DEF StoreInv, Matched, q
      <4>3. i # None
        BY <2>3 DEF UsesInv
      <4> QED BY <1>4, <4>1, <4>2, <4>3
    <3>4. CASE ~(o = LoopThread /\ n = 1)
      <4>1. n \in DOMAIN rest[LoopThread] /\ rest[LoopThread][n] = queue[LoopThread][n]
        BY <1>1, <1>5, <3>2, <3>4 DEF q
      <4>2. n \in DOMAIN queue'[LoopThread] /\ queue'[LoopThread][n] = queue[LoopThread][n]
        <5>1. CASE queue' = rest
          BY <4>1, <5>1
        <5>2. CASE queue' = [rest EXCEPT ![LoopThread] = Append(@, again)]
          <6>1. queue'[LoopThread] = Append(rest[LoopThread], again) /\ rest[LoopThread] \in Seq(EntryType)
            BY <1>5, <3>2, <5>2
          <6>2. /\ DOMAIN rest[LoopThread] = 1 .. Len(rest[LoopThread]) /\ Len(rest[LoopThread]) \in Nat
                /\ DOMAIN queue'[LoopThread] = 1 .. (Len(rest[LoopThread]) + 1)
                /\ \A m \in 1 .. Len(rest[LoopThread]) : queue'[LoopThread][m] = rest[LoopThread][m]
            BY <1>6, <6>1, AppendProperties
          <6> QED BY <4>1, <6>2
        <5> QED BY <1>3, <5>1, <5>2
      <4>3. n \in Waiting(LoopThread)'
        BY <1>2, <3>4, <4>2 DEF Waiting
      <4> QED BY <3>1, <4>2, <4>3 DEF StoredAgain
    <3> QED BY <3>3, <3>4
  <2> QED BY <2>1, <2>2, <2>3
<1>9. \A w \in Owners : holding'[w] # None => prepared'[w] = holding'[w] \/ Excused(holding[w])'
  BY <1>2, ExcusedStays DEF UsesInv
<1>10. None \notin timed'
  BY <1>3 DEF UsesInv
<1> QED BY <1>7, <1>8, <1>9, <1>10 DEF UsesInv

(* An entry that has run leaves the queue. *)
LEMMA UsesPop ==
    ASSUME StoreInv, UsesInv, [Next]_vars, Pop
    PROVE  UsesInv'
<1>0. PICK o : o = serving
  OBVIOUS
<1> DEFINE q == queue[o]
<1>1. /\ o \in Owners /\ q \in Seq(EntryType) /\ q # <<>> /\ step \in {"pop", "abort"}
      /\ queue' = [queue EXCEPT ![o] = Tail(q)] /\ step' \in {"ended", "between"}
      /\ UNCHANGED <<home, prepared, holding, timed, allocated, outlived, disturbed>>
  BY <1>0 DEF Pop, StoreInv, StoreTypes, AtWork, ringVars, historyVars
<1>2. /\ queue'[o] = Tail(q) /\ \A w \in Owners \ {o} : queue'[w] = queue[w]
  BY <1>1 DEF StoreInv, StoreTypes
<1>3. /\ \A n \in DOMAIN Tail(q) : n + 1 \in DOMAIN q \ {1} /\ Tail(q)[n] = q[n + 1]
      /\ \A n \in DOMAIN q \ {1} : n - 1 \in DOMAIN Tail(q) /\ Tail(q)[n - 1] = q[n]
  <2>1. Tail(q) \in Seq(EntryType) /\ Len(Tail(q)) = Len(q) - 1 /\ Len(q) \in Nat \ {0}
        /\ \A i \in 1 .. Len(Tail(q)) : Tail(q)[i] = q[i + 1]
    BY <1>1, HeadTailProperties, EmptySeq
  <2>2. DOMAIN Tail(q) = 1 .. (Len(q) - 1) /\ DOMAIN q = 1 .. Len(q)
    BY <1>1, <2>1
  <2> HIDE DEF q
  <2>3. \A n \in DOMAIN Tail(q) : n + 1 \in DOMAIN q \ {1}
    BY <2>1, <2>2
  <2>4. \A n \in DOMAIN q \ {1} : n - 1 \in DOMAIN Tail(q) /\ (n - 1) + 1 = n
    BY <2>1, <2>2
  <2> QED BY <2>1, <2>2, <2>3, <2>4
<1>4. Waiting(o) = DOMAIN q \ {1} /\ \A w \in Owners \ {o} : Waiting(w) = DOMAIN queue[w]
  BY <1>0, <1>1 DEF Waiting
<1>5. \A w \in Owners : Waiting(w)' = DOMAIN queue'[w]
  BY <1>1 DEF Waiting
<1> HIDE DEF q
<1>6. \A w \in Owners : \A n \in Waiting(w)' : \E m \in Waiting(w) : queue'[w][n] = queue[w][m]
  <2>1. \A n \in DOMAIN Tail(q) : \E m \in Waiting(o) : queue'[o][n] = queue[o][m]
    BY <1>2, <1>3, <1>4 DEF q
  <2> QED BY <1>2, <1>4, <1>5, <2>1
<1>7. \A w \in Owners : \A n \in Waiting(w) : \E m \in Waiting(w)' : queue'[w][m] = queue[w][n]
  <2>1. \A n \in DOMAIN q \ {1} : \E m \in DOMAIN Tail(q) : Tail(q)[m] = q[n]
    BY <1>3
  <2>2. \A n \in Waiting(o) : \E m \in Waiting(o)' : queue'[o][m] = queue[o][n]
    BY <1>1, <1>2, <1>4, <1>5, <2>1 DEF q
  <2> QED BY <1>2, <1>4, <1>5, <2>2
<1>8. \A i : StoredAgain(i) => StoredAgain(i)'
  BY <1>7 DEF StoredAgain, Owners
<1>9. \A w \in Owners : \A n \in Waiting(w)' : Fine(queue[w][n])'
  BY <1>6, ExcusedStays DEF UsesInv, Fine
<1> QED BY <1>1, <1>8, <1>9, ExcusedStays DEF UsesInv

LEMMA UsesStep == StoreInv /\ UsesInv /\ [Next]_vars => UsesInv'
<1> SUFFICES ASSUME StoreInv, UsesInv, [Next]_vars PROVE UsesInv'
  OBVIOUS
<1>1. ASSUME NEW o \in Owners, TakePlace(o) PROVE UsesInv'
  <2>1. /\ prepared'[o] = holding'[o]
        /\ \A w \in Owners \ {o} : holding'[w] = holding[w] /\ prepared'[w] = prepared[w]
        /\ UNCHANGED <<queue, serving, step, timed>>
    BY <1>1 DEF TakePlace, StoreInv, StoreTypes, workVars
  <2> QED BY <2>1, UsesElsewhere
<1>2. ASSUME NEW p \in Producers, GetPayload(p) PROVE UsesInv'
  <2>1. CASE TakePlace(p)
    BY <1>1, <2>1 DEF Owners
  <2>2. CASE prepared[p] # None /\ DropPrepared(p) /\ UNCHANGED <<home, holding, workVars, allocated>>
    BY <2>2, UsesDrop DEF Owners, workVars
  <2> QED BY <1>2, <2>1, <2>2 DEF GetPayload
<1>3. CASE GetLocalPayload
  BY <1>1, <1>3 DEF GetLocalPayload, Owners
<1>4. ASSUME NEW o \in Owners, Post(o) \/ PostAsync(o) PROVE UsesInv'
  BY <1>4, UsesPush DEF Post, PostAsync, Ops
<1>5. ASSUME NEW o \in Owners, PostIdleTimed(o) PROVE UsesInv'
  <2>1. Push(o, "timed") /\ (timed' = timed \/ (o = LoopThread /\ timed' = timed \union ({holding[o]} \ {None})))
    BY <1>5 DEF PostIdleTimed
  <2> QED BY <2>1, UsesPush DEF Ops
<1>6. ASSUME NEW o \in Owners, PostTimed(o) PROVE UsesInv'
  <2>1. CASE prepared[LoopThread] # None /\ DropPrepared(LoopThread) /\ UNCHANGED <<home, holding, workVars, allocated>>
    BY <2>1, UsesDrop DEF Owners, workVars
  <2>2. CASE /\ prepared[LoopThread] = None /\ o = LoopThread
             /\ timed' = timed \union ({holding[o]} \ {None})
             /\ holding' = [holding EXCEPT ![o] = None]
             /\ UNCHANGED <<prepared, queue, serving, step>>
    <3>1. \A h : h = holding[o] /\ h # None => Excused(h)'
      BY <2>2, ExcusedStays DEF UsesInv
    <3>2. \A w \in Owners : holding'[w] = None \/ holding'[w] = holding[w]
      BY <2>2 DEF StoreInv, StoreTypes
    <3> QED BY <2>2, <3>1, <3>2, UsesElsewhere
  <2>3. CASE Push(o, "timed") /\ timed' = timed
    BY <2>3, UsesPush DEF Ops
  <2> QED BY <1>6, <2>1, <2>2, <2>3 DEF PostTimed
<1>7. ASSUME NEW o \in Owners, Begin(o) PROVE UsesInv'
  <2>1. step' = "action" /\ step = "between" /\ UNCHANGED <<holding, prepared, queue, timed>>
    BY <1>7 DEF Begin, ringVars
  <2>2. \A w \in Owners : Waiting(w)' = Waiting(w)
    BY <2>1 DEF Waiting
  <2> QED BY <2>1, <2>2, ExcusedStays DEF UsesInv, Fine, StoredAgain, Owners
<1>8. CASE FireTimed \/ EmptyCycle \/ UNCHANGED vars
  <2>1. UNCHANGED <<holding, prepared, queue, serving, step>> /\ timed' \subseteq timed
    BY <1>8 DEF FireTimed, EmptyCycle, vars, ringVars, workVars
  <2> QED BY <2>1, UsesElsewhere
<1> QED BY <1>2, <1>3, <1>4, <1>5, <1>6, <1>7, <1>8, UsesFinish, UsesPop DEF Next

(* An entry destroys the object its own action used, and what an entry or a *)
(* stored timed event is going to use is in its place, alive, in every ring *)
(* that has not been disturbed, unless it was destroyed with the entry that *)
(* was posted first.                                                        *)
THEOREM PayloadsKept == Spec => []PayloadIntact
<1>1. Init => UsesInv
  BY DEF Init, UsesInv, Waiting
<1>2. ASSUME StoreInv, NEW o \in Owners, NEW i \in PendingOf(o) PROVE Kept(i)
  <2>1. home[i][1] = o
    BY <1>2, PendingBuilt
  <2>2. o \notin disturbed => destroyed[i] = 0 /\ ring[o][home[i][2]] = i
    BY <1>2 DEF StoreInv, Intact
  <2> QED BY <2>1, <2>2 DEF Kept, Live
<1>3. StoreInv /\ UsesInv => PayloadIntact
  <2> SUFFICES ASSUME StoreInv, UsesInv PROVE PayloadIntact
    OBVIOUS
  <2>1. ASSUME NEW o \in Owners, NEW n \in Waiting(o)
        PROVE  /\ queue[o][n].frees # None =>
                     queue[o][n].frees = queue[o][n].uses /\ Kept(queue[o][n].frees)
               /\ queue[o][n].uses \notin outlived \union {None} => Kept(queue[o][n].uses)
    <3>1. n \in DOMAIN queue[o]
      BY DEF Waiting
    <3>2. queue[o][n].frees # None => queue[o][n].frees \in PendingOf(o)
      BY <3>1 DEF PendingOf, Pending, Freed
    <3>3. queue[o][n].frees # None => queue[o][n].frees = queue[o][n].uses /\ Kept(queue[o][n].frees)
      BY <1>2, <3>1, <3>2 DEF StoreInv, Matched
    <3>4. Fine(queue[o][n])
      BY DEF UsesInv
    <3> QED BY <3>3, <3>4 DEF Fine, Excused, Kept
  <2>2. ASSUME NEW i \in timed \ outlived PROVE Kept(i)
    <3>1. CASE Excused(i)
      BY <2>2, <3>1 DEF Excused, Kept
    <3>2. CASE StoredAgain(i)
      <4>1. PICK n \in Waiting(LoopThread) : queue[LoopThread][n].frees = i
        BY <3>2 DEF StoredAgain
      <4>2. i # None
        BY <2>2 DEF UsesInv
      <4> QED BY <2>1, <4>1, <4>2 DEF Owners
    <3> QED BY <2>2, <3>1, <3>2 DEF UsesInv
  <2> QED BY <2>1, <2>2 DEF PayloadIntact
<1>4. Spec => []StoreInv
  BY StoreInit, StoreStep, PTL DEF Spec
<1> QED BY <1>1, <1>3, <1>4, UsesStep, PTL DEF Spec

-----------------------------------------------------------------------------
(* Where no entry was dropped, what no entry is to destroy was destroyed    *)
(* once.                                                                    *)

IsPending(i) == \E o \in Owners : i \in PendingOf(o)

Accounted ==
    disturbed = {} => \A i \in 1 .. allocated : ~IsPending(i) => destroyed[i] = 1

(* A step that destroys nothing and leaves what is pending pending. *)
LEMMA AccountStill ==
    ASSUME Accounted, disturbed \subseteq disturbed',
           \A o \in Owners : PendingOf(o)' = PendingOf(o),
           UNCHANGED <<allocated, destroyed>>
    PROVE  Accounted'
<1>1. \A i : IsPending(i)' <=> IsPending(i)
  BY DEF IsPending
<1> QED BY <1>1 DEF Accounted

LEMMA AccountTake ==
    ASSUME StoreInv, Accounted, NEW o \in Owners, TakePlace(o), prepared[o] = None,
           disturbed \subseteq disturbed'
    PROVE  Accounted'
<1>1. /\ PendingOf(o)' = PendingOf(o) \union {allocated + 1}
      /\ \A w \in Owners \ {o} : PendingOf(w)' = PendingOf(w)
  BY TakePending DEF StoreInv
<1>2. allocated' = allocated + 1 /\ destroyed' = destroyed /\ allocated \in Nat
  BY DEF TakePlace, StoreInv, StoreTypes
<1>3. \A i : IsPending(i)' <=> IsPending(i) \/ i = allocated + 1
  BY <1>1 DEF IsPending
<1>4. \A i \in 1 .. (allocated + 1) : i = allocated + 1 \/ i \in 1 .. allocated
  BY <1>2
<1> QED BY <1>2, <1>3, <1>4 DEF Accounted

(* In a ring that is not disturbed it is the entry's own object that its    *)
(* destruction meets.                                                       *)
LEMMA OwnVictim ==
    ASSUME StoreInv, NEW o \in Owners \ disturbed, NEW i \in PendingOf(o), Destroy(i)
    PROVE  destroyed[i] = 0 /\ destroyed' = [destroyed EXCEPT ![i] = 1]
<1>1. PICK victim \in Objects, k \in Places :
          /\ home[i] = <<o, k>> /\ ring[o][k] \in {None, victim}
          /\ (ring[o][k] = None => victim = i)
          /\ destroyed' = [destroyed EXCEPT ![victim] = @ + 1]
  BY ReleaseVictim
<1>2. destroyed[i] = 0 /\ ring[o][home[i][2]] = i /\ i \in Objects
  BY PendingObjects DEF StoreInv, Intact, StoreTypes, PendingOf
<1>3. ring[o][k] = i
  BY <1>1, <1>2
<1>4. victim = i
  BY <1>1, <1>2, <1>3, PayloadAssumption
<1>5. destroyed' = [destroyed EXCEPT ![i] = destroyed[i] + 1]
  BY <1>1, <1>4
<1>6. destroyed[i] + 1 = 1
  BY <1>2
<1> QED BY <1>2, <1>5, <1>6

LEMMA AccountFinish ==
    ASSUME StoreInv, StoreInv', Accounted, Finish
    PROVE  Accounted'
<1> SUFFICES ASSUME NEW o \in Owners, o = serving, disturbed = {}
             PROVE  \A i \in 1 .. allocated : ~IsPending(i)' => destroyed'[i] = 1
  BY DEF Finish, StoreInv, AtWork, Accounted
<1> DEFINE done == queue[o][1].frees
<1>1. /\ Head(queue[o]) = queue[o][1]
      /\ \A w \in Owners \ {o} : PendingOf(w)' = PendingOf(w)
      /\ PendingOf(o)' \union ({done} \ {None}) = PendingOf(o)
  BY FinishQueues
<1>2. Release(queue[o][1]) /\ \A i \in 1 .. allocated : ~IsPending(i) => destroyed[i] = 1
  BY <1>1 DEF Finish, Accounted
<1> HIDE DEF done
<1>3. CASE done = None
  <2>1. destroyed' = destroyed
    BY <1>2, <1>3 DEF Release, done
  <2>2. \A i : IsPending(i)' <=> IsPending(i)
    BY <1>1, <1>3 DEF IsPending
  <2> QED BY <1>2, <2>1, <2>2
<1>4. CASE done # None
  <2>1. done \in PendingOf(o) /\ Destroy(done)
    BY <1>1, <1>2, <1>4 DEF Release, done
  <2>2. destroyed' = [destroyed EXCEPT ![done] = 1] /\ done \in Objects
    BY <2>1, OwnVictim, PendingObjects DEF StoreInv, StoreTypes, PendingOf
  <2>3. \A i : ~IsPending(i)' => ~IsPending(i) \/ i = done
    BY <1>1 DEF IsPending
  <2>4. destroyed'[done] = 1 /\ \A i \in Objects \ {done} : destroyed'[i] = destroyed[i]
    BY <2>2 DEF StoreInv, StoreTypes
  <2>5. 1 .. allocated \subseteq Objects
    BY PayloadAssumption DEF StoreInv, StoreTypes, Objects
  <2> QED BY <1>2, <2>3, <2>4, <2>5
<1> QED BY <1>3, <1>4

LEMMA AccountStep == StoreInv /\ Accounted /\ [Next]_vars => Accounted'
<1> SUFFICES ASSUME StoreInv, Accounted, [Next]_vars PROVE Accounted'
  OBVIOUS
<1>1. StoreInv' /\ disturbed \subseteq disturbed'
  BY StoreStep, DisturbedGrows
<1>2. ASSUME NEW o \in Owners, DropPrepared(o) PROVE Accounted'
  BY <1>2 DEF Accounted, DropPrepared
<1>3. ASSUME NEW p \in Producers, GetPayload(p) PROVE Accounted'
  BY <1>1, <1>2, <1>3, AccountTake DEF GetPayload, Owners
<1>4. CASE GetLocalPayload
  BY <1>1, <1>4, AccountTake DEF GetLocalPayload, Owners
<1>5. ASSUME NEW o \in Owners, NEW op \in Ops, Push(o, op), UNCHANGED <<historyVars, allocated>>
      PROVE  Accounted'
  <2>1. \A w \in Owners : PendingOf(w)' = PendingOf(w)
    BY <1>5, PushPending DEF StoreInv
  <2> QED BY <1>1, <1>5, <2>1, AccountStill DEF historyVars
<1>6. ASSUME UNCHANGED <<queue, prepared, historyVars, allocated>> PROVE Accounted'
  <2>1. \A w \in Owners : PendingOf(w)' = PendingOf(w)
    BY <1>6 DEF PendingOf
  <2> QED BY <1>1, <1>6, <2>1, AccountStill DEF historyVars
<1>7. ASSUME NEW o \in Owners, Post(o) \/ PostAsync(o) PROVE Accounted'
  BY <1>5, <1>7 DEF Post, PostAsync, Ops
<1>8. ASSUME NEW o \in Owners, PostTimed(o) PROVE Accounted'
  <2>1. CASE DropPrepared(LoopThread)
    BY <1>2, <2>1 DEF Owners
  <2>2. CASE UNCHANGED <<prepared, queue, historyVars, allocated>>
    BY <1>6, <2>2
  <2>3. CASE Push(o, "timed") /\ UNCHANGED <<historyVars, allocated>>
    BY <1>5, <2>3 DEF Ops
  <2> QED BY <1>8, <2>1, <2>2, <2>3 DEF PostTimed
<1>12. ASSUME NEW o \in Owners, PostIdleTimed(o) PROVE Accounted'
  BY <1>5, <1>12 DEF PostIdleTimed, Ops
<1>9. CASE Finish
  BY <1>1, <1>9, AccountFinish
<1>10. CASE Pop
  BY <1>1, <1>10, PopPending, AccountStill DEF Pop, historyVars
<1>11. CASE (\E o \in Owners : Begin(o)) \/ FireTimed \/ EmptyCycle \/ UNCHANGED vars
  BY <1>6, <1>11 DEF Begin, FireTimed, EmptyCycle, vars, workVars, ringVars
<1> QED BY <1>3, <1>4, <1>7, <1>8, <1>9, <1>10, <1>11, <1>12 DEF Next

(* An object that is still to be destroyed is in one owner's hands, and     *)
(* there in one entry only: no two entries of a queue have the same age.    *)
LEMMA OneHolder ==
    ASSUME StoreInv, NEW o \in Owners, NEW w \in Owners, NEW i \in PendingOf(o), i \in PendingOf(w)
    PROVE  o = w
BY DEF StoreInv, OwnPlaces

LEMMA OneEntry ==
    ASSUME StoreInv, NEW o \in Owners \ disturbed, NEW i \in PendingOf(o)
    PROVE  /\ \A m, n \in DOMAIN queue[o] : queue[o][m].frees = i /\ queue[o][n].frees = i => m = n
           /\ \A n \in DOMAIN queue[o] : ~(prepared[o] = i /\ queue[o][n].frees = i)
<1> DEFINE a == Ages(o)
<1>1. Ordered(queue[o], prepared[o], a)
  BY DEF StoreInv, Intact
<1>2. i \in Objects /\ i # None /\ home[i] \in {o} \X Places /\ cursor[o] \in Places
  BY PendingObjects, PayloadAssumption DEF StoreInv, StoreTypes, PendingOf, OwnPlaces
<1>3. a[i] \in Nat
  BY <1>2, AgeRange, PayloadAssumption DEF Ages
<1>4. DOMAIN queue[o] \subseteq Nat
  BY DEF StoreInv, StoreTypes
<1> HIDE DEF a
<1>5. ~(a[i] < a[i])
  BY <1>3
<1>6. \A m, n \in DOMAIN queue[o] : m < n \/ n < m \/ m = n
  BY <1>4
<1> QED BY <1>1, <1>2, <1>5, <1>6 DEF Ordered

(* Every object is destroyed exactly once, by exactly one entry, as long as *)
(* no prepared entry was dropped and the loop thread's ring was not handed  *)
(* out twice.                                                               *)
THEOREM DestroyedExactlyOnce == Spec => []DestroyedOnce
<1>1. Init => Accounted
  BY DEF Init, Accounted
<1>2. StoreInv /\ Accounted => DestroyedOnce
  <2> SUFFICES ASSUME StoreInv, Accounted, disturbed = {}, NEW i \in 1 .. allocated
               PROVE  destroyed[i] + Cardinality({o \in Owners : prepared[o] = i})
                        + Cardinality({on \in Entries : queue[on[1]][on[2]].frees = i}) = 1
    BY DEF DestroyedOnce
  <2> DEFINE P == {o \in Owners : prepared[o] = i}
             E == {on \in Entries : queue[on[1]][on[2]].frees = i}
  <2>1. i # None
    BY PayloadAssumption DEF StoreInv, StoreTypes, Objects
  <2>2. /\ \A o \in P : i \in PendingOf(o)
        /\ \A on \in E : /\ on[1] \in Owners /\ on[2] \in DOMAIN queue[on[1]]
                         /\ on = <<on[1], on[2]>> /\ queue[on[1]][on[2]].frees = i
                         /\ i \in PendingOf(on[1])
    BY <2>1 DEF Entries, PendingOf, Pending, Freed
  <2>3. ASSUME ~IsPending(i) PROVE destroyed[i] + Cardinality(P) + Cardinality(E) = 1
    <3>1. P = {} /\ E = {}
      BY <2>2, <2>3 DEF IsPending
    <3>2. destroyed[i] = 1
      BY <2>3 DEF Accounted
    <3> HIDE DEF P, E
    <3>3. Cardinality(P) = 0 /\ Cardinality(E) = 0
      BY <3>1, FS_EmptySet
    <3> QED BY <3>2, <3>3
  <2>4. ASSUME NEW o \in Owners, i \in PendingOf(o) PROVE destroyed[i] + Cardinality(P) + Cardinality(E) = 1
    <3>1. destroyed[i] = 0
      BY <2>4 DEF StoreInv, Intact
    <3>2. P \subseteq {o} /\ \A on \in E : on[1] = o
      BY <2>2, <2>4, OneHolder
    <3>3. CASE prepared[o] = i
      <4>1. P = {o} /\ E = {}
        BY <2>2, <2>4, <3>2, <3>3, OneEntry
      <4> HIDE DEF P, E
      <4>2. Cardinality(P) = 1 /\ Cardinality(E) = 0
        BY <4>1, FS_EmptySet, FS_Singleton
      <4> QED BY <3>1, <4>2
    <3>4. ASSUME NEW n \in DOMAIN queue[o], queue[o][n].frees = i
          PROVE  destroyed[i] + Cardinality(P) + Cardinality(E) = 1
      <4>1. P = {}
        BY <2>4, <3>2, <3>4, OneEntry
      <4>2. <<o, n>> \in E
        BY <3>4 DEF Entries
      <4>3. \A on \in E : on = <<o, n>>
        BY <2>2, <2>4, <3>2, <3>4, OneEntry
      <4>4. E = {<<o, n>>}
        BY <4>2, <4>3
      <4> HIDE DEF P, E
      <4>5. Cardinality(P) = 0 /\ Cardinality(E) = 1
        BY <4>1, <4>4, FS_EmptySet, FS_Singleton
      <4> QED BY <3>1, <4>5
    <3> HIDE DEF P, E
    <3> QED BY <2>4, <3>3, <3>4 DEF PendingOf, Pending, Freed
  <2>5. destroyed[i] + Cardinality(P) + Cardinality(E) = 1
    <3> HIDE DEF P, E
    <3> QED BY <2>3, <2>4 DEF IsPending
  <2> QED BY <2>5
<1> QED BY <1>1, <1>2, StoreInit, StoreStep, AccountStep, PTL DEF Spec

=============================================================================
