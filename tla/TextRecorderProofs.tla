------------------------- MODULE TextRecorderProofs --------------------------
(***************************************************************************)
(* Proofs about TextRecorder, for any number of threads, slots, records    *)
(* and arguments, and any ring that has a place for each slot.             *)
(***************************************************************************)
EXTENDS TextRecorder, FiniteSetTheorems, TLAPS

\* The place of the i-th element of the ring, counted from its front.
At(i) == (head + i) % BufferSize
InRing == 0 .. size - 1

\* t makes a record in its slot.
Writes(t) == pc[t] \in {"fill", "record"}

SlotType ==
    /\ pc \in [Threads -> Labels]
    /\ slot \in [Threads -> Slots \cup {None}]
    /\ claimed_sequence \in Slots
    /\ in_use \in [Slots -> BOOLEAN]
    /\ ring \in [Places -> Slots \cup {None}]
    /\ head \in Places /\ size \in 0 .. BufferSize
    /\ current_slot \in Places \cup {None}

\* Flush is called with no slot of one's own, and loads a slot only when the
\* last one was released.
ControlInv ==
    /\ \A t \in Threads : pc[t] \in {"try_use", "fill", "record"} =>
          slot[t] \in Slots
    /\ \A t \in Threads : mutex = t =>
          pc[t] \in {"reserve", "flush", "flush_again", "destroy"}
    /\ drain = "next_slot" => current_slot = None

\* Whoever holds a slot holds one that is in use, and nobody else holds it.
ThreadsHold ==
    \A t \in Threads : Writes(t) =>
        /\ in_use[slot[t]]
        /\ \A u \in Threads : Writes(u) /\ slot[u] = slot[t] => u = t
RingHolds ==
    \A i \in InRing :
        /\ ring[At(i)] \in Slots /\ in_use[ring[At(i)]]
        /\ \A j \in InRing : ring[At(j)] = ring[At(i)] => j = i
        /\ \A t \in Threads : Writes(t) => slot[t] # ring[At(i)]
\* The popped place is the one before the front of the ring.
CurrentHolds ==
    current_slot # None =>
        /\ current_slot = At(BufferSize - 1)
        /\ ring[current_slot] \in Slots /\ in_use[ring[current_slot]]
        /\ \A i \in InRing : ring[At(i)] # ring[current_slot]
        /\ \A t \in Threads : Writes(t) => slot[t] # ring[current_slot]
\* A slot that is in use is held.
NoSlotLost ==
    \A s \in Slots : in_use[s] =>
        \/ \E t \in Threads : Writes(t) /\ slot[t] = s
        \/ \E i \in InRing : ring[At(i)] = s
        \/ current_slot # None /\ ring[current_slot] = s

IInv ==
    /\ SlotType /\ ControlInv
    /\ ThreadsHold /\ RingHolds /\ CurrentHolds /\ NoSlotLost

-----------------------------------------------------------------------------
(* Who holds a slot                                                        *)

\* The remainder of a number that is less than twice the modulus.
LEMMA ModTwice ==
    ASSUME NEW n \in Nat \ {0}, NEW a \in 0 .. n + n - 1
    PROVE  a % n = IF a < n THEN a ELSE a - n
<1>1. CASE a < n
  BY <1>1, SMT
<1>2. CASE a >= n
  BY <1>2, SMT
<1> QED
  BY <1>1, <1>2, SMT

\* The places of the ring follow each other, and there are BufferSize of them.
LEMMA PlacesOf ==
    ASSUME NEW h \in Places
    PROVE  \A i \in 0 .. BufferSize - 1 :
              (h + i) % BufferSize = IF h + i < BufferSize THEN h + i
                                                 ELSE (h + i) - BufferSize
<1> SUFFICES ASSUME NEW i \in 0 .. BufferSize - 1
             PROVE  (h + i) % BufferSize = IF h + i < BufferSize THEN h + i
                                                 ELSE (h + i) - BufferSize
  BY Zenon
<1>1. BufferSize \in Nat \ {0} /\ h + i \in 0 .. BufferSize + BufferSize - 1
  BY SizesAssumption, NoneAssumption, SMT DEF Places
<1>2. PICK a : a = h + i
  BY Zenon
<1>3. a % BufferSize = IF a < BufferSize THEN a ELSE a - BufferSize
  BY <1>1, <1>2, ModTwice, Zenon
<1> QED
  BY <1>2, <1>3, Zenon

\* So no two of them are the same.
LEMMA PlacesOfRing ==
    ASSUME SlotType
    PROVE  \A i \in 0 .. BufferSize - 1 :
              /\ At(i) = IF head + i < BufferSize THEN head + i
                                                  ELSE (head + i) - BufferSize
              /\ At(i) \in Places
              /\ \A j \in 0 .. BufferSize - 1 : At(i) = At(j) => i = j
<1>1. \A i \in 0 .. BufferSize - 1 :
         At(i) = IF head + i < BufferSize THEN head + i
                                          ELSE (head + i) - BufferSize
  BY PlacesOf, Zenon DEF At, SlotType
<1>2. head \in 0 .. BufferSize - 1 /\ BufferSize \in Nat
  BY SizesAssumption, NoneAssumption, Zenon DEF SlotType, Places
<1> QED
  BY <1>1, <1>2, SMT DEF Places

\* Slots that are held are different ones, so the ring has a place left for the
\* slot of a thread, besides the place that current_slot_ refers to.
LEMMA RoomLeft ==
    ASSUME IInv, NEW t \in Threads, pc[t] = "record"
    PROVE  /\ size + 1 <= BufferSize
           /\ current_slot # None => size + 2 <= BufferSize
<1>s. /\ slot[t] \in Slots /\ Writes(t) /\ size \in Nat
      /\ NumSlots \in Nat /\ BufferSize \in Nat /\ NumSlots <= BufferSize
  BY SizesAssumption, NoneAssumption, SMT
  DEF IInv, ControlInv, SlotType, Writes
<1>c. IsFiniteSet(Slots) /\ Cardinality(Slots) = NumSlots
  BY <1>s, FS_Interval, SMT DEF Slots
<1> DEFINE held(n) == [i \in 0 .. n |-> IF i < size THEN ring[At(i)]
                          ELSE IF i = size THEN slot[t] ELSE ring[current_slot]]
<1>1. ASSUME NEW n \in {size, size + 1}, n = size + 1 => current_slot # None
      PROVE  n + 1 <= NumSlots
  <2>1. held(n) \in [0 .. n -> Slots]
    BY <1>s, <1>1, SMT DEF IInv, RingHolds, CurrentHolds, InRing
  <2>2. \A x, y \in 0 .. n : held(n)[x] = held(n)[y] => x = y
    BY <1>s, <1>1, SMT DEF IInv, RingHolds, CurrentHolds, InRing
  <2>3. IsFiniteSet(0 .. n) /\ Cardinality(0 .. n) = n + 1
    <3>1. 0 \in Int /\ n \in Int /\ ~(0 > n) /\ n - 0 + 1 = n + 1
      BY <1>s, SMT
    <3> QED
      BY <3>1, FS_Interval, Zenon
  <2> HIDE DEF held
  <2>4. ~(Cardinality(Slots) < Cardinality(0 .. n))
    BY <1>c, <2>1, <2>2, <2>3, FS_PigeonHole, Zenon
  <2> QED
    BY <1>s, <1>c, <2>3, <2>4, SMT
<1> QED
  BY <1>1, <1>s, SMT

\* Steps that neither change who holds what nor what is in use.
LEMMA HeldSame ==
    ASSUME IInv, UNCHANGED <<in_use, ring, head, size, current_slot>>,
           \A t \in Threads : Writes(t)' <=> Writes(t),
           \A t \in Threads : Writes(t) => slot'[t] = slot[t]
    PROVE  ThreadsHold' /\ RingHolds' /\ CurrentHolds' /\ NoSlotLost'
<1>1. /\ \A i : At(i)' = At(i)
      /\ InRing' = InRing
  BY Zenon DEF At, InRing
<1> HIDE DEF At, InRing, Writes
<1>2. ThreadsHold'
  BY Zenon DEF IInv, ThreadsHold
<1>3. RingHolds'
  BY <1>1, SMT DEF IInv, RingHolds
<1>4. CurrentHolds'
  BY <1>1, Zenon DEF IInv, CurrentHolds
<1>5. NoSlotLost'
  BY <1>1, Zenon DEF IInv, NoSlotLost
<1> QED
  BY <1>2, <1>3, <1>4, <1>5, Zenon

\* Flush returns to a caller that has no slot.
LEMMA FlushReturns ==
    ASSUME SlotType, ControlInv,
           NEW t \in Threads, mutex = t, Flush_return(t)
    PROVE  /\ mutex' = None /\ drain' = "none"
           /\ pc' \in [Threads -> Labels]
           /\ \A u \in Threads : u # t => pc'[u] = pc[u]
           /\ pc'[t] \in {"acquire", "idle", "reserve", "destroyed"}
           /\ \A u \in Threads : Writes(u)' <=> Writes(u)
<1>1. pc[t] \in {"reserve", "flush", "flush_again", "destroy"}
  BY Zenon DEF ControlInv
<1>2. \E label \in {"acquire", "idle", "reserve", "destroyed"} :
         pc' = [pc EXCEPT ![t] = label]
  <2>1. CASE pc[t] = "reserve"
    BY <2>1, Zenon DEF Flush_return, Goto
  <2>2. CASE pc[t] = "flush"
    BY <2>2, Zenon DEF Flush_return, Goto
  <2>3. CASE pc[t] = "flush_again"
    BY <2>3, Zenon DEF Flush_return, Goto
  <2>4. CASE pc[t] = "destroy"
    BY <2>4, Zenon DEF Flush_return, Goto
  <2> QED
    BY <1>1, <2>1, <2>2, <2>3, <2>4, Zenon
<1>3. mutex' = None /\ drain' = "none"
  BY Zenon DEF Flush_return
<1> QED
  BY <1>1, <1>2, <1>3, SMT DEF SlotType, Labels, Writes

\* No slot is in use in the beginning.
LEMMA InitIInv ==
    ASSUME Init
    PROVE  IInv
<1> USE DEF Init
<1>1. 0 \in Slots /\ 0 \in Places /\ 0 \in 0 .. BufferSize
  BY SizesAssumption, NoneAssumption, SMT DEF Slots, Places
<1>2. SlotType
  BY <1>1, Zenon DEF SlotType, Labels, Slots, Slots,
                     Places, Places
<1>3. \A t \in Threads : pc[t] = "idle"
  BY Zenon
<1>4. \A t \in Threads : ~Writes(t)
  BY <1>3, Zenon DEF Writes
<1>5. InRing = {} /\ current_slot = None /\ \A s \in Slots : ~in_use[s]
  <2>1. InRing = {}
    BY SMT DEF InRing
  <2>2. current_slot = None /\ \A s \in Slots : ~in_use[s]
    BY Zenon DEF Slots, Slots
  <2> QED
    BY <2>1, <2>2, Zenon
<1>6. ControlInv
  BY SizesAssumption, NoneAssumption, <1>3, Zenon DEF ControlInv
<1> QED
  BY <1>2, <1>4, <1>5, <1>6, Zenon
  DEF IInv, ThreadsHold, RingHolds, CurrentHolds, NoSlotLost

\* A thread moves on with its record or begins a call: nothing is taken or
\* given away.
LEMMA MoveOnIInv ==
    ASSUME IInv, NEW t \in Threads,
           \/ StartRecord(t) \/ StartRecord_fill(t)
           \/ Log(t) \/ Flush(t) \/ Destroy(t)
    PROVE  IInv'
<1>1. /\ UNCHANGED <<slot, claimed_sequence, in_use, ring, head, size,
                     current_slot>>
      /\ UNCHANGED drain \/ drain' = "write"
  BY Zenon DEF StartRecord, StartRecord_fill, Log,
     Flush, Destroy, thread_vars,
     slot_vars, ring_vars
<1>2. \/ pc[t] = "idle" /\ Goto(t, "reserve") /\ UNCHANGED mutex
      \/ pc[t] = "idle" /\ Goto(t, "destroy") /\ UNCHANGED mutex
      \/ pc[t] = "fill" /\ Goto(t, "record") /\ UNCHANGED mutex
      \/ UNCHANGED <<pc, mutex>>
      \/ /\ pc[t] \in {"reserve", "flush", "flush_again", "destroy"}
         /\ UNCHANGED pc /\ mutex' = t
  BY Zenon DEF StartRecord, StartRecord_fill, Log,
     Flush, Destroy, thread_vars
<1>3. pc' \in [Threads -> Labels]
  BY <1>2, Zenon DEF IInv, SlotType, Labels, Goto
<1>4. SlotType'
  BY <1>1, <1>3, Zenon DEF IInv, SlotType
<1>5. ControlInv'
  BY <1>1, <1>2, Zenon DEF IInv, SlotType, ControlInv,
                         Goto
<1>6. \A u \in Threads : Writes(u)' <=> Writes(u)
  BY <1>2, Zenon DEF IInv, SlotType, Writes, Goto
<1> QED
  BY <1>1, <1>4, <1>5, <1>6, HeldSame, Zenon DEF IInv

\* FlushIntoFile and MoreSpansAvailableAndLoaded: the slot that is written is
\* kept until it is written completely.
LEMMA WriteIInv ==
    ASSUME IInv, NEW t \in Threads,
           \/ \E n \in 0 .. span.size - flushed : FlushIntoFile(t, n)
           \/ MoreSpansAvailableAndLoaded(t)
    PROVE  IInv'
<1>1. UNCHANGED <<slot, claimed_sequence, in_use, ring, head, size,
                  current_slot>>
  BY Zenon DEF FlushIntoFile, MoreSpansAvailableAndLoaded,
     thread_vars, slot_vars, ring_vars
<1>2. \/ /\ UNCHANGED <<pc, mutex>>
         /\ drain' \in {"next_span", "release", "write"}
      \/ mutex = t /\ Flush_return(t)
  BY Zenon DEF FlushIntoFile, MoreSpansAvailableAndLoaded,
     thread_vars
<1>3. CASE UNCHANGED <<pc, mutex>> /\ drain' \in {"next_span", "release", "write"}
  <2>1. SlotType'
    BY <1>1, <1>3, Zenon DEF IInv, SlotType
  <2>2. ControlInv'
    BY <1>1, <1>3, Zenon DEF IInv, ControlInv
  <2>3. \A u \in Threads : Writes(u)' <=> Writes(u)
    BY <1>3, Zenon DEF Writes
  <2> QED
    BY <1>1, <2>1, <2>2, <2>3, HeldSame, Zenon DEF IInv
<1>4. CASE mutex = t /\ Flush_return(t)
  <2>1. /\ mutex' = None /\ drain' = "none"
        /\ pc' \in [Threads -> Labels]
        /\ \A u \in Threads : u # t => pc'[u] = pc[u]
        /\ pc'[t] \in {"acquire", "idle", "reserve", "destroyed"}
        /\ \A u \in Threads : Writes(u)' <=> Writes(u)
    BY <1>4, FlushReturns, Zenon DEF IInv
  <2>2. SlotType'
    BY <1>1, <2>1, Zenon DEF IInv, SlotType
  <2>3. ControlInv'
    BY SizesAssumption, NoneAssumption, <1>1, <2>1, SMT DEF IInv, ControlInv
  <2> QED
    BY <1>1, <2>1, <2>2, <2>3, HeldSame, Zenon DEF IInv
<1> QED
  BY <1>2, <1>3, <1>4

\* AcquireSlotToWrite chooses a slot to try next.
LEMMA AcquireIInv ==
    ASSUME IInv, NEW t \in Threads,
           AcquireSlotToWrite(t)
    PROVE  IInv'
<1>1. /\ UNCHANGED <<in_use, ring, head, size, current_slot, mutex, drain>>
      /\ pc[t] = "acquire"
      /\ \/ Goto(t, "idle") /\ slot' = [slot EXCEPT ![t] = None]
         \/ /\ Goto(t, "try_use")
            /\ slot' = [slot EXCEPT ![t] = claimed_sequence]
      /\ claimed_sequence' = (claimed_sequence + 1) % NumSlots
  BY Zenon DEF AcquireSlotToWrite, ring_vars
<1>2. claimed_sequence' \in Slots
  <2>1. claimed_sequence + 1 \in 0 .. NumSlots + NumSlots - 1
    BY SizesAssumption, NoneAssumption, SMT DEF IInv, SlotType, Slots
  <2>2. NumSlots \in Nat \ {0}
    BY SizesAssumption, NoneAssumption, Zenon 
  <2>3. PICK a : a = claimed_sequence + 1
    BY Zenon
  <2>4. a % NumSlots = IF a < NumSlots THEN a ELSE a - NumSlots
    BY <2>1, <2>2, <2>3, ModTwice, Zenon
  <2>5. claimed_sequence' = a % NumSlots
    BY <1>1, <2>3, Zenon
  <2> QED
    BY <2>1, <2>2, <2>3, <2>4, <2>5, SMT DEF Slots
<1>3. SlotType'
  BY <1>1, <1>2, SMT DEF IInv, SlotType, Goto,
                         Labels
<1>4. ControlInv'
  BY <1>1, Zenon DEF IInv, SlotType, ControlInv, Goto
<1>5. \A u \in Threads : /\ Writes(u)' <=> Writes(u)
                         /\ Writes(u) => slot'[u] = slot[u]
  BY <1>1, Zenon DEF IInv, SlotType, Writes, Goto
<1> QED
  BY <1>1, <1>3, <1>4, <1>5, HeldSame, Zenon DEF IInv

\* Slot::TryUse: the thread gets a slot only if nobody holds it.
LEMMA TryIInv ==
    ASSUME IInv, NEW t \in Threads,
           AcquireSlot_try(t)
    PROVE  IInv'
<1>1. /\ UNCHANGED <<slot, claimed_sequence, ring, head, size, current_slot,
                     mutex, drain>>
      /\ pc[t] = "try_use"
      /\ \/ /\ Goto(t, "acquire") /\ UNCHANGED in_use
         \/ /\ Goto(t, "fill")
            /\ ~in_use[slot[t]]
            /\ in_use' = [in_use EXCEPT ![slot[t]] = TRUE]
  BY Zenon DEF AcquireSlot_try, TryUse, ring_vars
<1>2. slot[t] \in Slots
  BY <1>1, Zenon DEF IInv, ControlInv
<1>3. pc' \in [Threads -> Labels] /\ in_use' \in [Slots -> BOOLEAN]
  <2>1. pc' \in [Threads -> Labels]
    BY <1>1, Zenon DEF IInv, SlotType, Goto, Labels
  <2>2. TRUE \in BOOLEAN /\ in_use \in [Slots -> BOOLEAN]
    BY Zenon DEF IInv, SlotType
  <2>3. in_use' \in [Slots -> BOOLEAN]
    BY <1>1, <2>2, Zenon
  <2> QED
    BY <2>1, <2>3, Zenon
<1>4. SlotType'
  BY <1>1, <1>3, Zenon DEF IInv, SlotType
<1>5. ControlInv'
  BY <1>1, <1>2, Zenon DEF IInv, SlotType, ControlInv,
                         Goto
<1>6. CASE Goto(t, "acquire") /\ UNCHANGED in_use
  <2>1. \A u \in Threads : Writes(u)' <=> Writes(u)
    BY <1>1, <1>6, Zenon DEF IInv, SlotType, Writes, Goto
  <2> QED
    BY <1>1, <1>4, <1>5, <1>6, <2>1, HeldSame, Zenon DEF IInv
<1>7. CASE /\ Goto(t, "fill") /\ ~in_use[slot[t]]
           /\ in_use' = [in_use EXCEPT ![slot[t]] = TRUE]
  <2>1. /\ \A u \in Threads : Writes(u)' <=> Writes(u) \/ u = t
        /\ ~Writes(t)
    BY <1>1, <1>7, Zenon DEF IInv, SlotType, Writes, Goto
  <2>2. \A s \in Slots : in_use'[s] <=> in_use[s] \/ s = slot[t]
    BY <1>2, <1>7, Zenon DEF IInv, SlotType
  <2>3. (\A i : At(i)' = At(i)) /\ InRing' = InRing
    BY <1>1, Zenon DEF At, InRing
  <2>4. \A u \in Threads : Writes(u) => slot[u] \in Slots /\ slot[u] # slot[t]
    BY <1>2, <1>7, Zenon DEF IInv, ControlInv, ThreadsHold, Writes
  <2> HIDE DEF At, InRing, Writes
  <2>5. ThreadsHold'
    BY <1>1, <1>2, <2>1, <2>2, <2>4, SMT DEF IInv, ThreadsHold
  <2>6. RingHolds'
    BY <1>1, <1>2, <1>7, <2>1, <2>2, <2>3, SMT DEF IInv, RingHolds
  <2>7. CurrentHolds'
    BY <1>1, <1>2, <1>7, <2>1, <2>2, <2>3, Zenon DEF IInv, CurrentHolds
  <2>8. NoSlotLost'
    BY <1>1, <2>1, <2>2, <2>3, SMT DEF IInv, NoSlotLost
  <2> QED
    BY <1>4, <1>5, <2>5, <2>6, <2>7, <2>8, Zenon DEF IInv
<1> QED
  BY <1>1, <1>6, <1>7, Zenon

\* StopRecord hands the slot over: circular_buffer::push_back drops nothing, and
\* does not overwrite the place that current_slot_ refers to.
LEMMA HandedOver ==
    ASSUME IInv, NEW t \in Threads, NEW again \in BOOLEAN,
           StopRecord(t, again)
    PROVE  /\ size \in Nat /\ size + 1 <= BufferSize
           /\ size' = size + 1 /\ UNCHANGED head
           /\ ring' = [ring EXCEPT ![At(size)] = slot[t]]
           /\ \A i : At(i)' = At(i)
           /\ InRing' = InRing \cup {size} /\ size \notin InRing
           /\ ring'[At(size)] = slot[t]
           /\ \A i \in InRing : ring'[At(i)] = ring[At(i)]
           /\ current_slot # None => ring'[current_slot] = ring[current_slot]
<1>1. pc[t] = "record" /\ PushBack(slot[t])
  BY Zenon DEF StopRecord
<1>2. /\ size \in Nat /\ BufferSize \in Nat /\ size + 1 <= BufferSize
      /\ current_slot # None => size + 2 <= BufferSize
  BY SizesAssumption, NoneAssumption, <1>1, RoomLeft, SMT DEF IInv, SlotType
<1>3. /\ ring' = [ring EXCEPT ![At(size)] = slot[t]]
      /\ size' = size + 1 /\ UNCHANGED head
  <2>1. size # BufferSize
    BY <1>2, SMT
  <2> QED
    BY <1>1, <2>1, Zenon DEF PushBack, At
<1>4. (\A i : At(i)' = At(i)) /\ InRing' = InRing \cup {size}
      /\ size \notin InRing
  <2>1. \A i : At(i)' = At(i)
    BY <1>3, Zenon DEF At
  <2>2. InRing' = InRing \cup {size} /\ size \notin InRing
    BY <1>2, <1>3, SMT DEF InRing
  <2> QED
    BY <2>1, <2>2, Zenon
<1>5. /\ \A i \in InRing \cup {size} : i \in 0 .. BufferSize - 1
      /\ BufferSize - 1 \in 0 .. BufferSize - 1
      /\ current_slot # None => BufferSize - 1 # size
  BY <1>2, SMT DEF InRing
<1>6. /\ At(size) \in Places
      /\ \A i \in InRing : At(i) \in Places /\ At(i) # At(size)
      /\ current_slot # None => /\ current_slot \in Places
                                /\ current_slot # At(size)
  BY <1>4, <1>5, PlacesOfRing, Zenon DEF IInv, CurrentHolds
<1> QED
  BY <1>2, <1>3, <1>4, <1>6, Zenon DEF IInv, SlotType

\* The slot passes from its thread to the ring.
LEMMA StopIInv ==
    ASSUME IInv, NEW t \in Threads,
           NEW again \in BOOLEAN, StopRecord(t, again)
    PROVE  IInv'
<1>1. /\ pc[t] = "record" /\ mutex = None
      /\ slot' = [slot EXCEPT ![t] = None]
      /\ Goto(t, "flush_again") \/ Goto(t, "flush")
      /\ UNCHANGED <<claimed_sequence, in_use, mutex, drain, current_slot>>
  BY Zenon DEF StopRecord, slot_vars
<1>2. /\ size \in Nat /\ size + 1 <= BufferSize
      /\ size' = size + 1 /\ UNCHANGED head
      /\ ring' = [ring EXCEPT ![At(size)] = slot[t]]
  BY HandedOver, Zenon
<1>3. BufferSize \in Nat
  BY SizesAssumption, Zenon
<1>4. slot[t] \in Slots /\ Writes(t)
  BY <1>1, Zenon DEF IInv, ControlInv, Writes
<1>5. /\ \A u \in Threads : Writes(u)' <=> Writes(u) /\ u # t
      /\ \A u \in Threads : u # t => slot'[u] = slot[u]
  BY <1>1, Zenon DEF IInv, SlotType, Writes, Goto
<1>6. SlotType'
  <2>1. At(size) \in Places
    BY <1>2, <1>3, PlacesOfRing, SMT DEF IInv
  <2>2. ring' \in [Places -> Slots \cup {None}]
    BY <1>2, <1>4, <2>1, Zenon DEF IInv, SlotType
  <2>3. pc' \in [Threads -> Labels]
    BY <1>1, Zenon DEF IInv, SlotType, Goto, Labels
  <2>4. slot' \in [Threads -> Slots \cup {None}] /\ size' \in 0 .. BufferSize
    BY <1>1, <1>2, <1>3, SMT DEF IInv, SlotType
  <2> QED
    BY <1>1, <1>2, <2>2, <2>3, <2>4, Zenon DEF IInv, SlotType
<1>7. ControlInv'
  BY SizesAssumption, NoneAssumption, <1>1, Zenon DEF IInv, SlotType, ControlInv,
                   Goto
<1>8. /\ \A i : At(i)' = At(i)
      /\ InRing' = InRing \cup {size} /\ size \notin InRing
      /\ ring'[At(size)] = slot[t]
      /\ \A i \in InRing : ring'[At(i)] = ring[At(i)]
      /\ current_slot # None => ring'[current_slot] = ring[current_slot]
  BY HandedOver, Zenon
<1>9. \A u \in Threads : Writes(u) /\ u # t => slot[u] # slot[t]
  BY <1>4, Zenon DEF IInv, ThreadsHold
<1> HIDE DEF At, InRing, Writes
<1>10. ThreadsHold'
  BY <1>1, <1>5, Zenon DEF IInv, ThreadsHold
<1>11. RingHolds'
  BY <1>1, <1>4, <1>5, <1>8, <1>9, SMT
  DEF IInv, RingHolds, ThreadsHold
<1>12. CurrentHolds'
  BY <1>1, <1>4, <1>5, <1>8, Zenon DEF IInv, CurrentHolds
<1>13. NoSlotLost'
  BY <1>1, <1>4, <1>5, <1>8, SMT DEF IInv, NoSlotLost
<1> QED
  BY <1>6, <1>7, <1>10, <1>11, <1>12, <1>13, Zenon DEF IInv

\* ReleaseSlot: the popped place still has the slot, and it is free afterwards.
LEMMA SlotFlushedIInv ==
    ASSUME IInv, NEW t \in Threads,
           SlotFlushed(t)
    PROVE  IInv'
<1>1. /\ UNCHANGED <<slot, claimed_sequence, ring, head, size>>
      /\ current_slot' = None
      /\ \/ current_slot = None /\ UNCHANGED in_use
         \/ /\ current_slot # None
            /\ in_use' = [in_use EXCEPT ![ring[current_slot]] = FALSE]
      /\ \/ UNCHANGED <<pc, mutex>> /\ drain' = "next_slot"
         \/ mutex = t /\ Flush_return(t)
  BY Zenon DEF SlotFlushed, ReleaseSlot
<1>2. /\ pc' \in [Threads -> Labels]
      /\ \A u \in Threads : Writes(u)' <=> Writes(u)
      /\ ControlInv'
  <2>1. CASE UNCHANGED <<pc, mutex>> /\ drain' = "next_slot"
    <3>1. ControlInv'
      BY <1>1, <2>1, Zenon DEF IInv, ControlInv
    <3> QED
      BY <2>1, <3>1, Zenon DEF IInv, SlotType, Writes
  <2>2. CASE mutex = t /\ Flush_return(t)
    <3>1. /\ mutex' = None /\ drain' = "none"
          /\ pc' \in [Threads -> Labels]
          /\ \A u \in Threads : u # t => pc'[u] = pc[u]
          /\ pc'[t] \in {"acquire", "idle", "reserve", "destroyed"}
          /\ \A u \in Threads : Writes(u)' <=> Writes(u)
      BY <2>2, FlushReturns, Zenon DEF IInv
    <3>2. ControlInv'
      BY SizesAssumption, NoneAssumption, <1>1, <3>1, Zenon DEF IInv, ControlInv
    <3> QED
      BY <3>1, <3>2, Zenon
  <2> QED
    BY <1>1, <2>1, <2>2, Zenon
<1>3. in_use' \in [Slots -> BOOLEAN]
  <2>1. FALSE \in BOOLEAN /\ in_use \in [Slots -> BOOLEAN]
    BY Zenon DEF IInv, SlotType
  <2> QED
    BY <1>1, <2>1, Zenon
<1>4. SlotType'
  BY <1>1, <1>2, <1>3, Zenon DEF IInv, SlotType
<1>5. \A s \in Slots :
         in_use'[s] <=> in_use[s] /\ ~(current_slot # None /\ ring[current_slot] = s)
  BY <1>1, Zenon DEF IInv, SlotType, CurrentHolds
<1>6. (\A i : At(i)' = At(i)) /\ InRing' = InRing
  BY <1>1, Zenon DEF At, InRing
<1>7. \A u \in Threads : Writes(u) => slot[u] \in Slots
  BY Zenon DEF IInv, ControlInv, Writes
<1> HIDE DEF At, InRing, Writes
<1>8. ThreadsHold'
  BY <1>1, <1>2, <1>5, <1>7, Zenon DEF IInv, ThreadsHold, CurrentHolds
<1>9. RingHolds'
  BY <1>1, <1>2, <1>5, <1>6, Zenon DEF IInv, RingHolds, CurrentHolds
<1>10. CurrentHolds'
  BY <1>1, Zenon DEF CurrentHolds
<1>11. NoSlotLost'
  BY <1>1, <1>2, <1>5, <1>6, Zenon DEF IInv, NoSlotLost
<1> QED
  BY <1>2, <1>4, <1>8, <1>9, <1>10, <1>11, Zenon DEF IInv

\* The front of the ring is popped: what followed it is one place nearer, and
\* its own place is the one before the new front.
LEMMA Popped ==
    ASSUME IInv, size # 0, head' = (head + 1) % BufferSize, size' = size - 1
    PROVE  /\ size \in 1 .. BufferSize /\ size \in Nat \ {0}
           /\ BufferSize \in Nat \ {0}
           /\ head \in Places /\ head' \in Places
           /\ InRing = 0 .. size - 1 /\ InRing' = 0 .. size - 2
           /\ \A i \in InRing' :
                 i + 1 \in InRing /\ i + 1 # 0 /\ At(i)' = At(i + 1)
           /\ At(0) = head /\ At(BufferSize - 1)' = head
<1>1. /\ head \in Places /\ size \in 1 .. BufferSize /\ BufferSize \in Nat \ {0}
      /\ size \in Nat \ {0}
  BY SizesAssumption, SMT DEF IInv, SlotType
<1>2. head' = IF head + 1 < BufferSize THEN head + 1 ELSE 0
  <2>1. PICK a : a = head + 1
    BY Zenon
  <2>2. a \in 0 .. BufferSize + BufferSize - 1
    BY <1>1, <2>1, SMT DEF Places
  <2>3. a % BufferSize = IF a < BufferSize THEN a ELSE a - BufferSize
    BY <1>1, <2>2, ModTwice, Zenon
  <2>4. head' = a % BufferSize
    BY <2>1, Zenon
  <2> QED
    BY <1>1, <2>1, <2>3, <2>4, SMT DEF Places
<1>3. head' \in Places
  BY <1>1, <1>2, SMT DEF Places
<1>4. InRing = 0 .. size - 1 /\ InRing' = 0 .. size - 2
  BY <1>1, SMT DEF InRing
<1>5. /\ \A i \in 0 .. BufferSize - 1 :
            At(i) = IF head + i < BufferSize THEN head + i
                                             ELSE (head + i) - BufferSize
      /\ \A i \in 0 .. BufferSize - 1 :
            At(i)' = IF head' + i < BufferSize THEN head' + i
                                               ELSE (head' + i) - BufferSize
  BY <1>1, <1>3, PlacesOf, Zenon DEF At
<1> HIDE DEF At, InRing
<1>6. \A i \in InRing' : i + 1 \in InRing /\ i + 1 # 0 /\ At(i)' = At(i + 1)
  <2> SUFFICES ASSUME NEW i \in InRing'
               PROVE  /\ i + 1 \in InRing /\ i + 1 # 0
                      /\ At(i)' = At(i + 1)
    BY Zenon
  <2>1. i \in 0 .. size - 2
    BY <1>4, Zenon
  <2>2. PICK j : j = i + 1
    BY Zenon
  <2>3. /\ i \in 0 .. BufferSize - 1 /\ j \in 0 .. BufferSize - 1
        /\ j \in InRing /\ j # 0
    BY <1>1, <1>4, <2>1, <2>2, SMT
  <2>4. At(j) = IF head + j < BufferSize THEN head + j
                                         ELSE (head + j) - BufferSize
    BY <1>5, <2>3, Zenon
  <2>5. At(i)' = IF head' + i < BufferSize THEN head' + i
                                           ELSE (head' + i) - BufferSize
    BY <1>5, <2>3, Zenon
  <2>6. At(i)' = At(j)
    BY <1>1, <1>2, <2>2, <2>3, <2>4, <2>5, SMT DEF Places
  <2> QED
    BY <2>2, <2>3, <2>6, Zenon
<1>7. At(0) = head /\ At(BufferSize - 1)' = head
  BY <1>1, <1>2, <1>5, SMT DEF Places
<1> QED
  BY <1>1, <1>3, <1>4, <1>6, <1>7, Zenon

\* The front of the ring is popped, and its place is referred to.
LEMMA NextSlotIInv ==
    ASSUME IInv, NEW t \in Threads,
           MoreSlotsAvailableAndLoaded(t)
    PROVE  IInv'
<1>1. /\ UNCHANGED <<slot, claimed_sequence, in_use, ring>>
      /\ mutex = t /\ drain = "next_slot"
      /\ \/ Flush_return(t) /\ UNCHANGED <<head, size, current_slot>>
         \/ /\ size # 0 /\ current_slot' = head
            /\ head' = (head + 1) % BufferSize /\ size' = size - 1
            /\ drain' = "write" /\ UNCHANGED <<mutex, pc>>
  BY Zenon DEF MoreSlotsAvailableAndLoaded, slot_vars,
     Empty
<1>2. CASE Flush_return(t) /\ UNCHANGED <<head, size, current_slot>>
  <2>1. /\ mutex' = None /\ drain' = "none"
        /\ pc' \in [Threads -> Labels]
        /\ \A u \in Threads : u # t => pc'[u] = pc[u]
        /\ pc'[t] \in {"acquire", "idle", "reserve", "destroyed"}
        /\ \A u \in Threads : Writes(u)' <=> Writes(u)
    BY <1>1, <1>2, FlushReturns, Zenon DEF IInv
  <2>2. SlotType'
    BY <1>1, <1>2, <2>1, Zenon DEF IInv, SlotType
  <2>3. ControlInv'
    BY SizesAssumption, NoneAssumption, <1>1, <1>2, <2>1, SMT
    DEF IInv, ControlInv
  <2> QED
    BY <1>1, <1>2, <2>1, <2>2, <2>3, HeldSame, Zenon DEF IInv
<1>3. CASE /\ size # 0 /\ current_slot' = head
           /\ head' = (head + 1) % BufferSize /\ size' = size - 1
           /\ drain' = "write" /\ UNCHANGED <<mutex, pc>>
  <2>1. /\ size \in 1 .. BufferSize /\ BufferSize \in Nat \ {0}
        /\ head \in Places /\ head' \in Places
        /\ current_slot = None
    BY <1>1, <1>3, Popped, Zenon DEF IInv, ControlInv
  <2>2. SlotType'
    <3>1. /\ head' \in Places /\ size' \in 0 .. BufferSize
          /\ current_slot' \in Places \cup {None}
      BY <1>3, <2>1, SMT
    <3> QED
      BY <1>1, <1>3, <3>1, Zenon DEF IInv, SlotType
  <2>3. ControlInv'
    BY <1>1, <1>3, Zenon DEF IInv, ControlInv
  <2>4. \A u \in Threads : Writes(u)' <=> Writes(u)
    BY <1>3, Zenon DEF Writes
  <2>5. InRing = 0 .. size - 1 /\ InRing' = 0 .. size - 2
    BY <1>3, Popped, Zenon
  <2> HIDE DEF At, InRing, Writes
  <2>6. \A i \in InRing' : i + 1 \in InRing /\ i + 1 # 0 /\ At(i)' = At(i + 1)
    BY <1>3, Popped, Zenon
  <2>7. /\ \A i, j \in InRing' : i + 1 = j + 1 => i = j
        /\ 0 \in InRing
        /\ \A i \in InRing : i # 0 => \E j \in InRing' : i = j + 1
    <3>1. \A i, j \in InRing' : i + 1 = j + 1 => i = j
      BY <2>1, <2>5, SMT
    <3>2. 0 \in InRing
      BY <2>1, <2>5, SMT
    <3>3. \A i \in 0 .. size - 1 : i # 0 =>
             i - 1 \in 0 .. size - 2 /\ i = (i - 1) + 1
      BY <2>1, SMT
    <3>4. \A i \in InRing : i # 0 => \E j \in InRing' : i = j + 1
      BY <2>5, <3>3, Zenon
    <3> QED
      BY <3>1, <3>2, <3>4, Zenon
  <2>8. At(0) = head /\ At(BufferSize - 1)' = head
    BY <1>3, Popped, Zenon
  <2>9. ThreadsHold'
    BY <1>1, <2>4, Zenon DEF IInv, ThreadsHold
  <2>10. RingHolds'
    <3> SUFFICES ASSUME NEW i \in InRing'
                 PROVE  /\ ring[At(i)'] \in Slots /\ in_use[ring[At(i)']]
                        /\ \A j \in InRing' : ring[At(j)'] = ring[At(i)'] => j = i
                        /\ \A u \in Threads : Writes(u) => slot[u] # ring[At(i)']
      BY <1>1, <2>4, Zenon DEF RingHolds
    <3>1. i + 1 \in InRing /\ At(i)' = At(i + 1)
      BY <2>6, Zenon
    <3>2. /\ ring[At(i + 1)] \in Slots /\ in_use[ring[At(i + 1)]]
          /\ \A j \in InRing : ring[At(j)] = ring[At(i + 1)] => j = i + 1
          /\ \A u \in Threads : Writes(u) => slot[u] # ring[At(i + 1)]
      BY <3>1, Zenon DEF IInv, RingHolds
    <3>3. \A j \in InRing' : ring[At(j)'] = ring[At(i)'] => j = i
      BY <2>6, <2>7, <3>1, <3>2, Zenon
    <3> QED
      BY <3>1, <3>2, <3>3, Zenon
  <2>11. CurrentHolds'
    <3>1. /\ ring[head] \in Slots /\ in_use[ring[head]]
          /\ \A i \in InRing : ring[At(i)] = ring[head] => i = 0
          /\ \A u \in Threads : Writes(u) => slot[u] # ring[head]
      BY <2>7, <2>8, Zenon DEF IInv, RingHolds
    <3>2. \A i \in InRing' : ring[At(i)'] # ring[head]
      BY <2>6, <3>1, Zenon
    <3> QED
      BY <1>1, <1>3, <2>4, <2>8, <3>1, <3>2, ZenonT(60) DEF CurrentHolds
  <2>12. NoSlotLost'
    <3>1. head # None
      BY SizesAssumption, NoneAssumption, <2>1, SMT DEF Places
    <3> SUFFICES ASSUME NEW s \in Slots, in_use'[s]
                 PROVE  \/ \E u \in Threads : Writes(u)' /\ slot'[u] = s
                        \/ \E i \in InRing' : ring'[At(i)'] = s
                        \/ current_slot' # None /\ ring'[current_slot'] = s
      BY Zenon DEF NoSlotLost
    <3>2. CASE \E u \in Threads : Writes(u) /\ slot[u] = s
      BY <1>1, <2>4, <3>2, Zenon
    <3>3. ASSUME NEW i \in InRing, ring[At(i)] = s
          PROVE  \/ \E k \in InRing' : ring'[At(k)'] = s
                 \/ current_slot' # None /\ ring'[current_slot'] = s
      <4>1. CASE i = 0
        BY <1>1, <1>3, <2>8, <3>1, <3>3, <4>1, Zenon
      <4>2. CASE i # 0
        <5>1. PICK k \in InRing' : i = k + 1
          BY <2>7, <4>2, Zenon
        <5>2. At(k)' = At(i)
          BY <2>6, <5>1, Zenon
        <5> QED
          BY <1>1, <3>3, <5>2, Zenon
      <4> QED
        BY <4>1, <4>2, Zenon
    <3> QED
      BY <1>1, <2>1, <3>2, <3>3, Zenon DEF IInv, NoSlotLost
  <2> QED
    BY <2>2, <2>3, <2>9, <2>10, <2>11, <2>12, Zenon DEF IInv
<1> QED
  BY <1>1, <1>2, <1>3, Zenon

\* Every step of every thread preserves the invariant.
LEMMA NextIInv ==
    ASSUME IInv, [Next]_vars
    PROVE  IInv'
<1>1. CASE UNCHANGED vars
  <2>1. /\ UNCHANGED <<pc, slot, claimed_sequence, in_use, ring, head, size,
                       current_slot>>
        /\ UNCHANGED <<mutex, drain>>
    BY <1>1, Zenon DEF vars, thread_vars, slot_vars,
       ring_vars
  <2>2. \A u \in Threads : Writes(u)' <=> Writes(u)
    BY <2>1, Zenon DEF Writes
  <2>3. SlotType' /\ ControlInv'
    BY <2>1, Zenon DEF IInv, SlotType, ControlInv
  <2> QED
    BY <2>1, <2>2, <2>3, HeldSame, Zenon DEF IInv
<1>2. ASSUME NEW t \in Threads,
             \/ Alive /\ StartRecord(t)
             \/ Proceed(t)
             \/ Log(t)
             \/ \E again \in BOOLEAN : StopRecord(t, again)
             \/ Destroy(t)
      PROVE  IInv'
  <2>1. CASE Proceed(t)
    <3>1. CASE Drain(t)
      BY <3>1, WriteIInv, SlotFlushedIInv, NextSlotIInv, Zenon
      DEF Drain
    <3> QED
      BY <2>1, <3>1, MoveOnIInv, AcquireIInv, TryIInv, Zenon
      DEF Proceed
  <2>2. CASE \E again \in BOOLEAN : StopRecord(t, again)
    BY <2>2, StopIInv, Zenon
  <2> QED
    BY <1>2, <2>1, <2>2, MoveOnIInv, Zenon
<1> QED
  BY <1>1, <1>2, Zenon DEF Next

\* What the invariant says of a slot is that it has at most one holder, and one
\* exactly when it is in use.
LEMMA OneHolder ==
    ASSUME IInv
    PROVE  SlotsAccounted
<1> SUFFICES ASSUME NEW s \in Slots
             PROVE  Cardinality(Holders(s)) =
                        IF in_use[s] THEN 1 ELSE 0
  BY Zenon DEF SlotsAccounted
<1> DEFINE T == {u \in Threads : Writes(u) /\ slot[u] = s}
           R == {i \in InRing : ring[At(i)] = s}
           C == current_slot # None /\ ring[current_slot] = s
<1>1. \A x : x \in Holders(s) <=>
                 \/ \E u \in T : x = <<"thread", u>>
                 \/ \E i \in R : x = <<"ring", At(i)>>
                 \/ C /\ x = <<"current", current_slot>>
  <2>1. \A i \in InRing : At(i) \in Places
    <3>1. \A i \in InRing : i \in 0 .. BufferSize - 1
      BY SizesAssumption, NoneAssumption, SMT DEF IInv, SlotType, InRing
    <3> QED
      BY <3>1, PlacesOfRing, Zenon DEF IInv
  <2> QED
    BY <2>1, ZenonT(60), Zenon DEF Holders, Writes, InRing, At, Places
<1>2. CASE ~in_use[s]
  <2>1. T = {} /\ R = {} /\ ~C
    <3>1. T = {}
      BY <1>2, Zenon DEF IInv, ThreadsHold
    <3>2. R = {}
      BY <1>2, Zenon DEF IInv, RingHolds
    <3>3. ~C
      BY <1>2, Zenon DEF IInv, CurrentHolds
    <3> QED
      BY <3>1, <3>2, <3>3, Zenon
  <2>2. Holders(s) = {}
    BY <1>1, <2>1, Zenon
  <2> QED
    BY <1>2, <2>2, FS_EmptySet, Zenon
<1>3. CASE in_use[s]
  <2>1. \E x : Holders(s) = {x}
    <3>1. ASSUME NEW u \in T
          PROVE  Holders(s) = {<<"thread", u>>}
      <4>1. T = {u} /\ R = {} /\ ~C
        BY <3>1, Zenon DEF IInv, ThreadsHold, RingHolds, CurrentHolds
      <4> QED
        BY <1>1, <4>1, Zenon
    <3>2. ASSUME NEW i \in R
          PROVE  Holders(s) = {<<"ring", At(i)>>}
      <4>1. T = {} /\ R = {i} /\ ~C
        BY <3>2, Zenon DEF IInv, RingHolds, CurrentHolds
      <4> QED
        BY <1>1, <4>1, Zenon
    <3>3. ASSUME C
          PROVE  Holders(s) = {<<"current", current_slot>>}
      <4>1. T = {} /\ R = {}
        BY <3>3, Zenon DEF IInv, CurrentHolds
      <4> QED
        BY <1>1, <3>3, <4>1, Zenon
    <3>4. (\E u \in Threads : u \in T) \/ (\E i \in InRing : i \in R) \/ C
      BY <1>3, Zenon DEF IInv, NoSlotLost
    <3> QED
      BY <3>1, <3>2, <3>3, <3>4, Zenon
  <2> QED
    BY <1>3, <2>1, FS_Singleton, Zenon
<1> QED
  BY <1>2, <1>3, Zenon

\* SlotsAccounted, for any number of threads, of slots and of places of the
\* ring (at least one per slot): a slot that is in use has one holder, a slot
\* that is free has none, at every step of StartRecord, StopRecord and Flush.
THEOREM SlotsAreAccounted ==
    Spec => []SlotsAccounted
<1>1. Init => IInv
  BY InitIInv, Zenon
<1>2. IInv /\ [Next]_vars => IInv'
  BY NextIInv, Zenon
<1>3. IInv => SlotsAccounted
  BY OneHolder, Zenon
<1> QED
  BY <1>1, <1>2, <1>3, PTL DEF Spec

-----------------------------------------------------------------------------
(* The search for a free slot                                              *)

\* The number of turns of the loop before the one that tries s.
Distance(s) ==
    IF s >= claimed_sequence THEN s - claimed_sequence
                             ELSE (s - claimed_sequence) + NumSlots

\* There are turns enough left to try every slot of S.
Ahead(t, S) == \A s \in S : Distance(s) + tries[t] < NumSlots

\* A thread that claims slots alone has still to try whatever has been free
\* since the start of the loop.
SeekInv ==
    /\ tries \in [Threads -> Nat]
    /\ untouched \in [Threads -> SUBSET Slots]
    /\ alone \in [Threads -> BOOLEAN]
    /\ \A t \in Threads :
          /\ pc[t] \notin {"acquire", "try_use", "fill"} => tries[t] = 0
          /\ alone[t] /\ pc[t] = "acquire" => Ahead(t, untouched[t])
          /\ alone[t] /\ pc[t] = "try_use" =>
                Ahead(t, untouched[t] \ {slot[t]})

\* Every slot is tried within NumSlots turns, and each turn of the loop brings
\* the others one turn nearer (Allocator's claimed_sequence_ modulo NumSlots).
LEMMA Nearer ==
    ASSUME SlotType, NEW s \in Slots
    PROVE  /\ Distance(s) \in 0 .. NumSlots - 1
           /\ s # claimed_sequence
              /\ claimed_sequence' = (claimed_sequence + 1) % NumSlots
                 => Distance(s)' = Distance(s) - 1
<1>1. /\ NumSlots \in Nat \ {0} /\ claimed_sequence \in 0 .. NumSlots - 1
      /\ s \in 0 .. NumSlots - 1
  BY SizesAssumption, Zenon DEF SlotType, Slots
<1>2. Distance(s) \in 0 .. NumSlots - 1
  BY <1>1, SMT DEF Distance
<1>3. ASSUME s # claimed_sequence,
             claimed_sequence' = (claimed_sequence + 1) % NumSlots
      PROVE  Distance(s)' = Distance(s) - 1
  <2>1. PICK a : a = claimed_sequence + 1
    BY Zenon
  <2>2. a \in 0 .. NumSlots + NumSlots - 1
    BY <1>1, <2>1, SMT
  <2>3. a % NumSlots = IF a < NumSlots THEN a ELSE a - NumSlots
    BY <1>1, <2>2, ModTwice, Zenon
  <2>4. claimed_sequence' = IF a < NumSlots THEN a ELSE a - NumSlots
    BY <1>3, <2>1, <2>3, Zenon
  <2> QED
    BY <1>1, <1>3, <2>1, <2>4, SMT DEF Distance
<1> QED
  BY <1>2, <1>3, Zenon

\* Steps outside of the loop.
LEMMA SeekSame ==
    ASSUME SeekInv, UNCHANGED <<claimed_sequence, untouched, alone>>,
           tries' \in [Threads -> Nat],
           \A u \in Threads : pc'[u] \in {"acquire", "try_use"} =>
              pc'[u] = pc[u] /\ tries'[u] = tries[u] /\ slot'[u] = slot[u],
           \A u \in Threads : pc'[u] \notin {"acquire", "try_use", "fill"} =>
              tries'[u] = 0
    PROVE  SeekInv'
<1>1. \A s : Distance(s)' = Distance(s)
  BY Zenon DEF Distance
<1> HIDE DEF Distance
<1>2. ASSUME NEW u \in Threads
      PROVE  /\ alone'[u] /\ pc'[u] = "acquire" => Ahead(u, untouched[u])'
             /\ alone'[u] /\ pc'[u] = "try_use" =>
                   Ahead(u, untouched[u] \ {slot[u]})'
  BY <1>1, Zenon DEF SeekInv, Ahead
<1> QED
  BY <1>2, Zenon DEF SeekInv

\* A thread enters the loop when Flush returns to ReserveSlot, with all turns
\* ahead of it.
LEMMA FlushReturnsSeek ==
    ASSUME IInv, SeekInv, NEW t \in Threads, mutex = t, Flush_return(t),
           UNCHANGED <<slot, tries, claimed_sequence>>
    PROVE  SeekInv'
<1>1. /\ pc \in [Threads -> Labels]
      /\ pc[t] \in {"reserve", "flush", "flush_again", "destroy"}
      /\ tries[t] = 0
  BY Zenon DEF IInv, SlotType, ControlInv, SeekInv
<1>2. CASE pc[t] = "reserve"
  <2>1. /\ Goto(t, "acquire")
        /\ untouched' = [untouched EXCEPT ![t] = {s \in Slots : ~in_use[s]}]
        /\ alone' = [alone EXCEPT ![t] = TRUE]
    BY <1>2, Zenon DEF Flush_return
  <2>2. /\ pc'[t] = "acquire" /\ untouched'[t] \subseteq Slots
        /\ \A u \in Threads : u # t =>
              /\ pc'[u] = pc[u] /\ untouched'[u] = untouched[u]
              /\ alone'[u] <=> alone[u]
        /\ untouched' \in [Threads -> SUBSET Slots]
    BY <1>1, <2>1, Zenon DEF Goto, SeekInv
  <2>3. alone' \in [Threads -> BOOLEAN]
    <3>1. TRUE \in BOOLEAN /\ alone \in [Threads -> BOOLEAN]
      BY Zenon DEF SeekInv
    <3> QED
      BY <2>1, <3>1, Zenon
  <2>4. \A s : Distance(s)' = Distance(s)
    BY Zenon DEF Distance
  <2> HIDE DEF Distance
  <2>5. Ahead(t, untouched[t])'
    <3>1. \A s \in Slots : Distance(s) \in 0 .. NumSlots - 1
      BY Nearer, Zenon DEF IInv
    <3>2. \A s \in Slots : Distance(s) + 0 < NumSlots
      BY <3>1, SizesAssumption, SMT
    <3> QED
      BY <1>1, <2>2, <2>4, <3>2, Zenon DEF Ahead
  <2>6. ASSUME NEW u \in Threads
        PROVE  /\ pc'[u] \notin {"acquire", "try_use", "fill"} => tries'[u] = 0
               /\ alone'[u] /\ pc'[u] = "acquire" => Ahead(u, untouched[u])'
               /\ alone'[u] /\ pc'[u] = "try_use" =>
                     Ahead(u, untouched[u] \ {slot[u]})'
    <3>1. CASE u = t
      BY <2>2, <2>5, <3>1, Zenon
    <3>2. CASE u # t
      BY <2>2, <2>4, <3>2, Zenon DEF SeekInv, Ahead
    <3> QED
      BY <3>1, <3>2, Zenon
  <2> QED
    BY <2>2, <2>3, <2>6, Zenon DEF SeekInv
<1>3. CASE pc[t] # "reserve"
  <2>1. /\ UNCHANGED <<untouched, alone>>
        /\ \/ Goto(t, "idle") \/ Goto(t, "reserve") \/ Goto(t, "destroyed")
    <3>1. CASE pc[t] = "flush"
      BY <3>1, Zenon DEF Flush_return, seek_vars
    <3>2. CASE pc[t] = "flush_again"
      BY <3>2, Zenon DEF Flush_return, seek_vars
    <3>3. CASE pc[t] = "destroy"
      BY <3>3, Zenon DEF Flush_return, seek_vars
    <3> QED
      BY <1>1, <1>3, <3>1, <3>2, <3>3, Zenon
  <2>2. /\ \A u \in Threads : u # t => pc'[u] = pc[u]
        /\ pc'[t] \in {"idle", "reserve", "destroyed"}
    BY <1>1, <2>1, Zenon DEF Goto
  <2>3. \A u \in Threads : pc'[u] \in {"acquire", "try_use"} =>
           pc'[u] = pc[u] /\ tries'[u] = tries[u] /\ slot'[u] = slot[u]
    BY <2>2, Zenon
  <2>4. \A u \in Threads : pc'[u] \notin {"acquire", "try_use", "fill"} =>
           tries'[u] = 0
    BY <1>1, <2>2, Zenon DEF SeekInv
  <2>5. tries' \in [Threads -> Nat]
    BY Zenon DEF SeekInv
  <2> QED
    BY <2>1, <2>3, <2>4, <2>5, SeekSame, Zenon
<1> QED
  BY <1>2, <1>3, Zenon

\* The other steps outside of the loop.
LEMMA OutsideSeek ==
    ASSUME IInv, SeekInv, NEW t \in Threads,
           \/ StartRecord(t) \/ StartRecord_fill(t) \/ Log(t) \/ Flush(t)
           \/ Destroy(t) \/ \E again \in BOOLEAN : StopRecord(t, again)
    PROVE  SeekInv'
<1>1. /\ UNCHANGED <<claimed_sequence, untouched, alone>>
      /\ \/ UNCHANGED <<pc, slot, tries>>
         \/ /\ pc[t] = "idle" \/ pc[t] = "record"
            /\ UNCHANGED tries
            /\ slot' = slot \/ slot' = [slot EXCEPT ![t] = None]
            /\ \/ Goto(t, "reserve") \/ Goto(t, "destroy") \/ Goto(t, "flush")
               \/ Goto(t, "flush_again")
         \/ /\ Goto(t, "record") /\ UNCHANGED slot
            /\ tries' = [tries EXCEPT ![t] = 0]
  BY Zenon DEF StartRecord, StartRecord_fill, Log, Flush, Destroy, StopRecord,
     slot_vars, seek_vars, thread_vars
<1>2. /\ pc \in [Threads -> Labels] /\ slot \in [Threads -> Slots \cup {None}]
      /\ tries \in [Threads -> Nat]
      /\ \A u \in Threads : pc[u] \notin {"acquire", "try_use", "fill"} =>
            tries[u] = 0
  BY Zenon DEF IInv, SlotType, SeekInv
<1>3. /\ tries' \in [Threads -> Nat]
      /\ \A u \in Threads : pc'[u] \in {"acquire", "try_use"} =>
            pc'[u] = pc[u] /\ tries'[u] = tries[u] /\ slot'[u] = slot[u]
      /\ \A u \in Threads : pc'[u] \notin {"acquire", "try_use", "fill"} =>
            tries'[u] = 0
  BY <1>1, <1>2, SMT DEF Goto
<1> QED
  BY <1>1, <1>3, SeekSame, Zenon


\* SlotDrainer::Flush is outside of the loop too.
LEMMA DrainSeek ==
    ASSUME IInv, SeekInv, NEW t \in Threads, Drain(t)
    PROVE  SeekInv'
<1>1. /\ UNCHANGED <<slot, tries, claimed_sequence>>
      /\ \/ UNCHANGED <<pc, untouched, alone>>
         \/ mutex = t /\ Flush_return(t)
  BY ZenonT(60), Zenon DEF Drain, FlushIntoFile, MoreSpansAvailableAndLoaded,
     SlotFlushed, MoreSlotsAvailableAndLoaded, thread_vars, slot_vars, seek_vars
<1>2. CASE UNCHANGED <<pc, untouched, alone>>
  BY <1>1, <1>2, SeekSame, Zenon DEF SeekInv
<1>3. CASE mutex = t /\ Flush_return(t)
  BY <1>1, <1>3, FlushReturnsSeek, Zenon
<1> QED
  BY <1>1, <1>2, <1>3, Zenon

\* A turn of the loop: the slot that is claimed need not be counted any more,
\* the others come nearer, and whoever else was in the loop is not alone.
LEMMA ClaimSeek ==
    ASSUME IInv, SeekInv, NEW t \in Threads, AcquireSlotToWrite(t)
    PROVE  SeekInv'
<1>1. /\ pc[t] = "acquire"
      /\ claimed_sequence' = (claimed_sequence + 1) % NumSlots
      /\ tries' = [tries EXCEPT ![t] = IF GiveUp(@ + 1) THEN 0 ELSE @ + 1]
      /\ GiveUp(tries[t] + 1) => Goto(t, "idle")
      /\ ~GiveUp(tries[t] + 1) =>
            /\ Goto(t, "try_use")
            /\ slot' = [slot EXCEPT ![t] = claimed_sequence]
      /\ alone' = [u \in Threads |-> alone[u] /\ u = t]
      /\ UNCHANGED untouched
  BY Zenon DEF AcquireSlotToWrite
<1>2. /\ pc \in [Threads -> Labels] /\ slot \in [Threads -> Slots \cup {None}]
      /\ tries \in [Threads -> Nat]
  BY Zenon DEF IInv, SlotType, SeekInv
<1>3. /\ tries' \in [Threads -> Nat]
      /\ \A u \in Threads : u # t => pc'[u] = pc[u] /\ tries'[u] = tries[u]
      /\ \/ pc'[t] = "idle" /\ tries'[t] = 0
         \/ /\ pc'[t] = "try_use" /\ tries'[t] = tries[t] + 1
            /\ slot'[t] = claimed_sequence
  BY <1>1, <1>2, SMT DEF Goto
<1>4. /\ alone' \in [Threads -> BOOLEAN]
      /\ \A u \in Threads : alone'[u] <=> alone[u] /\ u = t
  <2>1. \A u \in Threads : (alone[u] /\ u = t) \in BOOLEAN
    BY Zenon
  <2> QED
    BY <1>1, <2>1, Zenon
<1>5. ASSUME alone[t]
      PROVE  \A s \in untouched[t] \ {claimed_sequence} :
                Distance(s)' + (tries[t] + 1) < NumSlots
  <2> SUFFICES ASSUME NEW s \in untouched[t], s # claimed_sequence
               PROVE  Distance(s)' + (tries[t] + 1) < NumSlots
    BY Zenon
  <2>1. s \in Slots
    BY Zenon DEF SeekInv
  <2>2. Distance(s)' = Distance(s) - 1 /\ Distance(s) \in 0 .. NumSlots - 1
    BY <1>1, <2>1, Nearer, Zenon DEF IInv
  <2>3. Distance(s) + tries[t] < NumSlots
    BY <1>1, <1>5, Zenon DEF SeekInv, Ahead
  <2> HIDE DEF Distance
  <2>4. tries[t] \in Nat /\ NumSlots \in Nat
    BY <1>2, SizesAssumption, Zenon
  <2> QED
    BY <2>2, <2>3, <2>4, SMT
<1> HIDE DEF Distance
<1>6. ASSUME NEW u \in Threads
      PROVE  /\ pc'[u] \notin {"acquire", "try_use", "fill"} => tries'[u] = 0
             /\ alone'[u] /\ pc'[u] = "acquire" => Ahead(u, untouched[u])'
             /\ alone'[u] /\ pc'[u] = "try_use" =>
                   Ahead(u, untouched[u] \ {slot[u]})'
  <2>1. CASE u = t
    <3>1. pc'[u] \notin {"acquire", "try_use", "fill"} => tries'[u] = 0
      BY <1>3, <2>1, Zenon
    <3>2. pc'[u] # "acquire"
      BY <1>3, <2>1, Zenon
    <3>3. ASSUME alone'[u], pc'[u] = "try_use"
          PROVE  Ahead(u, untouched[u] \ {slot[u]})'
      <4>1. /\ tries'[u] = tries[t] + 1 /\ slot'[u] = claimed_sequence
            /\ alone[t] /\ untouched'[u] = untouched[t]
        BY <1>1, <1>3, <1>4, <2>1, <3>3, SMT
      <4> QED
        BY <1>5, <4>1, Zenon DEF Ahead
    <3> QED
      BY <3>1, <3>2, <3>3, Zenon
  <2>2. CASE u # t
    BY <1>3, <1>4, <2>2, Zenon DEF SeekInv
  <2> QED
    BY <2>1, <2>2, Zenon
<1> QED
  BY <1>1, <1>3, <1>4, <1>6, Zenon DEF SeekInv

\* Slot::TryUse touches the slot, whether it is free or not.
LEMMA TrySeek ==
    ASSUME IInv, SeekInv, NEW t \in Threads, AcquireSlot_try(t)
    PROVE  SeekInv'
<1>1. /\ pc[t] = "try_use"
      /\ Goto(t, "acquire") \/ Goto(t, "fill")
      /\ untouched' = [u \in Threads |-> untouched[u] \ {slot[t]}]
      /\ UNCHANGED <<slot, tries, claimed_sequence, alone>>
  BY Zenon DEF AcquireSlot_try, TryUse
<1>2. pc \in [Threads -> Labels] /\ untouched \in [Threads -> SUBSET Slots]
  BY Zenon DEF IInv, SlotType, SeekInv
<1>3. /\ pc'[t] \in {"acquire", "fill"}
      /\ \A u \in Threads : u # t => pc'[u] = pc[u]
      /\ \A u \in Threads : untouched'[u] = untouched[u] \ {slot[t]}
      /\ untouched' \in [Threads -> SUBSET Slots]
  BY <1>1, <1>2, Zenon DEF Goto
<1>4. \A s : Distance(s)' = Distance(s)
  BY <1>1, Zenon DEF Distance
<1> HIDE DEF Distance
<1>5. ASSUME NEW u \in Threads
      PROVE  /\ pc'[u] \notin {"acquire", "try_use", "fill"} => tries'[u] = 0
             /\ alone'[u] /\ pc'[u] = "acquire" => Ahead(u, untouched[u])'
             /\ alone'[u] /\ pc'[u] = "try_use" =>
                   Ahead(u, untouched[u] \ {slot[u]})'
  <2>1. CASE u = t
    <3>1. /\ pc'[u] \in {"acquire", "try_use", "fill"} /\ pc'[u] # "try_use"
      BY <1>3, <2>1, Zenon
    <3>2. alone[u] => Ahead(u, untouched[u])'
      BY <1>1, <1>3, <1>4, <2>1, Zenon DEF SeekInv, Ahead
    <3> QED
      BY <1>1, <3>1, <3>2, Zenon
  <2>2. CASE u # t
    BY <1>1, <1>3, <1>4, <2>2, ZenonT(60) DEF SeekInv, Ahead
  <2> QED
    BY <2>1, <2>2, Zenon
<1> QED
  BY <1>1, <1>3, <1>5, Zenon DEF SeekInv


\* Every step preserves what is known about the search.
LEMMA NextSeek ==
    ASSUME IInv, SeekInv, [Next]_vars
    PROVE  SeekInv'
<1>1. CASE UNCHANGED vars
  <2>1. UNCHANGED <<pc, slot, tries, claimed_sequence, untouched, alone>>
    BY <1>1, Zenon DEF vars, thread_vars, slot_vars, seek_vars
  <2> QED
    BY <2>1, SeekSame, Zenon DEF SeekInv
<1>2. ASSUME NEW t \in Threads,
             \/ Alive /\ StartRecord(t)
             \/ Proceed(t)
             \/ Log(t)
             \/ \E again \in BOOLEAN : StopRecord(t, again)
             \/ Destroy(t)
      PROVE  SeekInv'
  <2>1. CASE Proceed(t)
    BY <2>1, OutsideSeek, DrainSeek, ClaimSeek, TrySeek, Zenon DEF Proceed
  <2> QED
    BY <1>2, <2>1, OutsideSeek, Zenon
<1> QED
  BY <1>1, <1>2, Zenon DEF Next

\* Only a turn of AcquireSlotToWrite gives up, and only after NumSlots turns.
LEMMA GivesUp ==
    ASSUME IInv, SeekInv, [Next]_vars, NEW t \in Threads,
           pc[t] = "acquire", pc'[t] = "idle", alone[t]
    PROVE  untouched[t] = {}
<1>1. pc \in [Threads -> Labels]
  BY Zenon DEF IInv, SlotType
<1>2. ASSUME NEW u \in Threads, Flush_return(u), mutex = u
      PROVE  pc'[t] = "acquire"
  <2>1. /\ \A v \in Threads : v # u => pc'[v] = pc[v]
        /\ pc[u] \in {"reserve", "flush", "flush_again", "destroy"}
    BY <1>2, FlushReturns, Zenon DEF IInv, ControlInv
  <2> QED
    BY <2>1, Zenon
<1>3. ASSUME NEW u \in Threads, Drain(u)
      PROVE  FALSE
  <2>1. UNCHANGED pc \/ (mutex = u /\ Flush_return(u))
    BY <1>3, ZenonT(60), Zenon DEF Drain, FlushIntoFile, MoreSpansAvailableAndLoaded,
       SlotFlushed, MoreSlotsAvailableAndLoaded, thread_vars
  <2> QED
    BY <1>2, <2>1, Zenon
<1>4. ASSUME NEW u \in Threads,
             \/ StartRecord(u) \/ StartRecord_fill(u) \/ Log(u) \/ Flush(u)
             \/ Destroy(u) \/ \E again \in BOOLEAN : StopRecord(u, again)
             \/ AcquireSlot_try(u)
      PROVE  FALSE
  <2>1. \/ UNCHANGED pc
        \/ /\ pc[u] \in {"idle", "fill", "record", "try_use"}
           /\ \E label \in Labels : Goto(u, label)
    BY <1>4, Zenon DEF StartRecord, StartRecord_fill, Log, Flush, Destroy,
       StopRecord, AcquireSlot_try, TryUse, thread_vars, Labels
  <2> QED
    BY <1>1, <2>1, Zenon DEF Goto
<1>5. AcquireSlotToWrite(t) /\ GiveUp(tries[t] + 1)
  <2>1. PICK u \in Threads : AcquireSlotToWrite(u)
    <3>1. ~UNCHANGED vars
      <4>1. pc' # pc
        BY Zenon
      <4> QED
        BY <4>1, Zenon DEF vars, thread_vars
    <3> QED
      BY <1>3, <1>4, <3>1, Zenon DEF Next, Proceed
  <2>2. u = t /\ GiveUp(tries[t] + 1)
    BY <1>1, <2>1, Zenon DEF AcquireSlotToWrite, Goto
  <2> QED
    BY <2>1, <2>2, Zenon
<1>6. tries[t] \in Nat /\ tries[t] >= NumSlots /\ NumSlots \in Nat
  BY <1>5, SizesAssumption, SMT DEF GiveUp, SeekInv
<1>7. \A s \in untouched[t] : /\ Distance(s) \in 0 .. NumSlots - 1
                              /\ Distance(s) + tries[t] < NumSlots
  BY Nearer, Zenon DEF IInv, SeekInv, Ahead
<1> HIDE DEF Distance
<1> QED
  BY <1>6, <1>7, SMT

\* FreeSlotFound, for any number of threads and slots: AcquireSlotToWrite of a
\* thread that nobody disturbs gives up only when no slot was free throughout.
THEOREM FreeSlotIsFound == Spec => FreeSlotFound
<1> DEFINE Step == \A t \in Threads :
                      pc[t] = "acquire" /\ pc'[t] = "idle" /\ alone[t]
                          => untouched[t] = {}
<1>1. Init => IInv /\ SeekInv
  <2>1. Init => IInv
    BY InitIInv, Zenon
  <2>2. Init => SeekInv
    <3> SUFFICES ASSUME Init PROVE SeekInv
      BY Zenon
    <3>1. alone \in [Threads -> BOOLEAN]
      BY Zenon DEF Init
    <3>2. /\ tries \in [Threads -> Nat]
          /\ untouched \in [Threads -> SUBSET Slots]
          /\ \A t \in Threads : pc[t] = "idle" /\ tries[t] = 0
      BY Zenon DEF Init
    <3> QED
      BY <3>1, <3>2, Zenon DEF SeekInv
  <2> QED
    BY <2>1, <2>2, Zenon
<1>2. IInv /\ SeekInv /\ [Next]_vars => (IInv /\ SeekInv)' /\ [Step]_vars
  BY NextIInv, NextSeek, GivesUp, Zenon
<1> QED
  BY <1>1, <1>2, PTL DEF Spec, FreeSlotFound
-----------------------------------------------------------------------------
(* What the file receives                                                  *)

\* The text stands in the other one, behind its first n characters.
Found(all, text, n) ==
    /\ n + Len(text) <= Len(all)
    /\ \A k \in 1 .. Len(text) : all[n + k] = text[k]

\* What stands in a text stays there when the text is continued, and what it
\* is continued with stands at its end.
LEMMA FoundInLonger ==
    ASSUME NEW S, NEW all \in Seq(S), NEW text \in Seq(S), NEW more \in Seq(S),
           NEW n \in Nat, Found(all, text, n)
    PROVE  Found(all \o more, text, n)
  BY SMT DEF Found

LEMMA FoundAtEnd ==
    ASSUME NEW S, NEW all \in Seq(S), NEW more \in Seq(S)
    PROVE  Found(all \o more, more, Len(all))
  BY SMT DEF Found

\* Two texts stand behind each other where the two in one do.
LEMMA FoundInParts ==
    ASSUME NEW S, NEW all \in Seq(S), NEW text \in Seq(S), NEW more \in Seq(S),
           NEW n \in Nat, Found(all, text \o more, n)
    PROVE  /\ Found(all, text, n)
           /\ Found(all, more, n + Len(text))
           /\ Len(text \o more) = Len(text) + Len(more)
<1>1. PICK both : both = text \o more
  BY Zenon
<1>2. /\ Len(both) = Len(text) + Len(more) /\ Len(text) \in Nat
      /\ Len(more) \in Nat
      /\ \A k \in 1 .. Len(text) : both[k] = text[k]
      /\ \A k \in 1 .. Len(more) : both[Len(text) + k] = more[k]
  BY <1>1, SMT
<1>3. /\ n + Len(both) <= Len(all)
      /\ \A k \in 1 .. Len(both) : all[n + k] = both[k]
  BY <1>1, Zenon DEF Found
<1>4. Found(all, text, n)
  BY <1>2, <1>3, SMT DEF Found
<1>5. Found(all, more, n + Len(text))
  <2>1. ASSUME NEW k \in 1 .. Len(more)
        PROVE  all[(n + Len(text)) + k] = more[k]
    <3>1. /\ Len(text) + k \in 1 .. Len(both)
          /\ n + (Len(text) + k) = (n + Len(text)) + k
      BY <1>2, SMT
    <3> QED
      BY <1>2, <1>3, <3>1, SMT
  <2>2. (n + Len(text)) + Len(more) <= Len(all)
    BY <1>2, <1>3, SMT
  <2> QED
    BY <2>1, <2>2, Zenon DEF Found
<1> QED
  BY <1>1, <1>2, <1>4, <1>5, Zenon

\* The file receives more of a text after its first f characters: all that it
\* has is then still found at the beginning.
LEMMA FoundContinued ==
    ASSUME NEW S, NEW all \in Seq(S), NEW text \in Seq(S), NEW out \in Seq(S),
           NEW more \in Seq(S), NEW b \in Nat, NEW f \in Nat
    PROVE  /\ f + Len(more) <= Len(text)
           /\ \A i \in 1 .. Len(more) : more[i] = text[f + i]
           /\ Len(out) = b + f /\ Found(all, text, b) /\ Found(all, out, 0)
           => /\ Len(out \o more) = b + (f + Len(more))
              /\ Found(all, out \o more, 0)
<1>1. PICK both : both = out \o more
  BY Zenon
<1>2. /\ Len(both) = Len(out) + Len(more)
      /\ Len(out) \in Nat /\ Len(more) \in Nat
      /\ Len(all) \in Nat /\ Len(text) \in Nat
  BY <1>1, SMT
<1>3. /\ \A k \in 1 .. Len(out) : both[k] = out[k]
      /\ \A k \in 1 .. Len(more) : both[Len(out) + k] = more[k]
  BY <1>1, SMT
<1>4. SUFFICES ASSUME f + Len(more) <= Len(text),
                      \A i \in 1 .. Len(more) : more[i] = text[f + i],
                      Len(out) = b + f, Found(all, text, b), Found(all, out, 0)
               PROVE  /\ Len(both) = b + (f + Len(more))
                      /\ Found(all, both, 0)
  BY <1>1, Zenon
<1>5. 0 + Len(both) <= Len(all) /\ Len(both) = b + (f + Len(more))
  BY <1>2, <1>4, SMT DEF Found
<1>6. ASSUME NEW k \in 1 .. Len(both)
      PROVE  all[0 + k] = both[k]
  <2>1. CASE k <= Len(out)
    <3>1. k \in 1 .. Len(out)
      BY <1>2, <2>1, SMT
    <3> QED
      BY <1>3, <1>4, <3>1, Zenon DEF Found
  <2>2. CASE k > Len(out)
    <3>1. PICK i \in 1 .. Len(more) : k = Len(out) + i
      <4>1. k - Len(out) \in 1 .. Len(more) /\ k = Len(out) + (k - Len(out))
        BY <1>2, <2>2, SMT
      <4> QED
        BY <4>1, Zenon
    <3>2. both[k] = text[f + i]
      BY <1>3, <1>4, <3>1, Zenon
    <3>3. f + i \in 1 .. Len(text) /\ b + (f + i) = k /\ 0 + k = k
      BY <1>2, <1>4, <3>1, SMT
    <3>4. all[b + (f + i)] = text[f + i]
      BY <1>4, <3>3, Zenon DEF Found
    <3> QED
      BY <3>2, <3>3, <3>4, Zenon
  <2> QED
    BY <1>2, <2>1, <2>2, SMT
<1> QED
  BY <1>5, <1>6, Zenon DEF Found

\* What records and texts are made of.
Entry == (Threads \cup {None}) \X Nat
Character ==
    ({"entry"} \X Entry) \cup ({"num_of_args"} \X Nat)
    \cup ({"argument"} \X Entry \X Nat) \cup {NewLine}
Record == [entry : Entry, num_of_args : Nat, payload : Seq(Character)]

TextType ==
    /\ started \in [Threads -> Nat] /\ offered \in [Threads -> Nat]
    /\ record \in [Slots -> Record]
    /\ log_record \in Slots \cup {None}
    /\ parsing_phase \in {"header", "payload", "reinitialize"}
    /\ header \in Seq(Character)
    /\ span.size \in Nat /\ flushed \in 0 .. span.size
    /\ output \in Seq(Character) /\ pushed \in Seq(Character)

Payload == record[log_record].payload

\* The message builder has the record of current_slot_, and the span is the
\* part of it that the phase says; between two records nothing is left over.
SpanInv ==
    /\ log_record # None =>
          /\ current_slot # None /\ log_record = ring[current_slot]
          /\ parsing_phase = "payload" =>
                span.of = "header" /\ span.size = Len(header)
          /\ parsing_phase = "reinitialize" =>
                /\ span.of = "payload" /\ span.slot = log_record
                /\ span.size = Len(Payload)
    /\ log_record = None => header = <<>>
    /\ log_record = None \/ parsing_phase = "header" => flushed = span.size
    /\ drain \in {"release", "next_slot"} => log_record = None
    /\ drain = "next_span" => flushed = span.size

\* What is still to be written of the record being written stands in what was
\* handed over, the present span behind the first b characters; the record
\* ends after n.
Whole(b, n) ==
    /\ Found(pushed, header, b)
    /\ Found(pushed, Put(Payload, NewLine), b + Len(header))
    /\ n = (b + Len(header)) + Len(Put(Payload, NewLine))
CurrentPlaced(b, n) ==
    /\ log_record = None => n = Len(output)
    /\ log_record # None =>
          /\ parsing_phase = "header" => Len(output) = b /\ Whole(b, n)
          /\ parsing_phase = "payload" =>
                Len(output) = b + flushed /\ Whole(b, n)
          /\ parsing_phase = "reinitialize" =>
                /\ Len(output) = b + flushed
                /\ Found(pushed, Payload, b) /\ n = b + Len(Payload)

\* The record in the i-th slot of the ring follows, at begin[i].
TextAt(i) == Text(record[ring[At(i)]])
RingPlaced(begin) ==
    /\ begin[size] = Len(pushed)
    /\ \A i \in InRing : /\ begin[i + 1] = begin[i] + Len(TextAt(i))
                         /\ Found(pushed, TextAt(i), begin[i])
Placed ==
    \E b \in Nat : \E begin \in [0 .. size -> Nat] :
        CurrentPlaced(b, begin[0]) /\ RingPlaced(begin)

TextInv == TextType /\ SpanInv /\ Found(pushed, output, 0) /\ Placed

\* The types of the texts of a record.
LEMMA TextTypes ==
    /\ NewLine \in Character
    /\ \A p \in Seq(Character) : \A c \in Character : Put(p, c) \in Seq(Character)
    /\ \A r \in Record :
          /\ r.payload \in Seq(Character)
          /\ Header(r) \in Seq(Character)
          /\ Put(r.payload, NewLine) \in Seq(Character)
          /\ Text(r) = Header(r) \o Put(r.payload, NewLine)
          /\ Text(r) \in Seq(Character)
<1>1. NewLine \in Character
  BY Zenon DEF Character
<1>2. \A p \in Seq(Character) : \A c \in Character : Put(p, c) \in Seq(Character)
  <2> HIDE DEF Character
  <2> QED
    BY SMT DEF Put
<1>3. ASSUME NEW r \in Record
      PROVE  r.payload \in Seq(Character) /\ Header(r) \in Seq(Character)
  <2>1. r.payload \in Seq(Character) /\ r.entry \in Entry /\ r.num_of_args \in Nat
    BY SMT DEF Record
  <2>2. <<"entry", r.entry>> \in Character /\ <<"num_of_args", r.num_of_args>> \in Character
    BY <2>1, SMT DEF Character
  <2>3. PICK c, d : c = <<"entry", r.entry>> /\ d = <<"num_of_args", r.num_of_args>>
    BY Zenon
  <2>4. <<c, d>> \in Seq(Character)
    BY <2>2, <2>3, SMT
  <2> QED
    BY <2>1, <2>3, <2>4, Zenon DEF Header
<1>4. ASSUME NEW p \in Seq(Character), NEW q \in Seq(Character)
      PROVE  p \o q \in Seq(Character)
  BY SMT
<1> QED
  BY <1>1, <1>2, <1>3, <1>4, Zenon DEF Text

\* Steps that leave alone what is being written and what is in the ring.
LEMMA TextSame ==
    ASSUME SpanInv, Placed, Found(pushed, output, 0),
           UNCHANGED <<log_record, parsing_phase, header, span, flushed, output,
                       pushed, ring, head, size>>,
           log_record # None => UNCHANGED current_slot,
           log_record # None => record'[log_record] = record[log_record],
           \A i \in InRing : record'[ring[At(i)]] = record[ring[At(i)]],
           drain' \in {"release", "next_slot"} => log_record = None,
           drain' = "next_span" => flushed = span.size
    PROVE  SpanInv' /\ Placed' /\ Found(pushed, output, 0)'
<1>1. log_record # None => Payload' = Payload
  BY Zenon DEF Payload
<1>2. SpanInv'
  BY <1>1, Zenon DEF SpanInv
<1>3. PICK b \in Nat : \E begin \in [0 .. size -> Nat] :
         CurrentPlaced(b, begin[0]) /\ RingPlaced(begin)
  BY Zenon DEF Placed
<1>4. PICK begin \in [0 .. size -> Nat] :
         CurrentPlaced(b, begin[0]) /\ RingPlaced(begin)
  BY <1>3, Zenon
<1>5. (CurrentPlaced(b, begin[0]))'
  BY <1>1, <1>4, Zenon DEF CurrentPlaced, Whole
<1>6. InRing' = InRing /\ \A i \in InRing : TextAt(i)' = TextAt(i)
  BY Zenon DEF InRing, TextAt, At
<1>7. (RingPlaced(begin))'
  BY <1>4, <1>6, Zenon DEF RingPlaced
<1>8. Placed'
  BY <1>5, <1>7, Zenon DEF Placed
<1> QED
  BY <1>2, <1>8, Zenon

\* Nothing is handed over, and nothing written, in the beginning.
LEMMA InitText ==
    ASSUME Init
    PROVE  TextInv
<1> USE DEF Init
<1>1. /\ <<>> \in Seq(Character) /\ Len(<<>>) = 0
      /\ 0 \in Nat /\ 0 \in 0 .. 0
  BY SMT
<1>2. span.size = 0 /\ span.of = None
  BY Zenon
<1>3. NoRecord \in Record
  BY <1>1, SMT DEF NoRecord, Record, Entry
<1>4. TextType
  BY <1>1, <1>2, <1>3, Zenon DEF TextType
<1>5. SpanInv
  BY <1>2, Zenon DEF SpanInv
<1>6. Found(pushed, output, 0)
  BY <1>1, SMT DEF Found
<1>7. Placed
  <2> DEFINE begin == [i \in 0 .. size |-> 0]
  <2>1. /\ begin \in [0 .. size -> Nat] /\ begin[0] = 0 /\ begin[size] = 0
        /\ InRing = {}
    BY SMT DEF InRing
  <2> HIDE DEF begin
  <2>2. CurrentPlaced(0, begin[0]) /\ RingPlaced(begin)
    BY <1>1, <2>1, Zenon DEF CurrentPlaced, RingPlaced
  <2> QED
    BY <1>1, <2>1, <2>2, Zenon DEF Placed
<1> QED
  BY <1>4, <1>5, <1>6, <1>7, Zenon DEF TextInv

\* Steps that look for a slot, or begin a call.
LEMMA QuietText ==
    ASSUME TextInv, NEW t \in Threads,
           \/ StartRecord(t) \/ AcquireSlotToWrite(t) \/ AcquireSlot_try(t)
           \/ Flush(t) \/ Destroy(t)
    PROVE  TextInv'
<1>1. /\ UNCHANGED <<record, log_record, parsing_phase, header, span, flushed,
                     output, pushed, ring, head, size, current_slot, offered>>
      /\ UNCHANGED drain \/ drain' = "write"
      /\ UNCHANGED started \/ started' = [started EXCEPT ![t] = @ + 1]
  BY Zenon DEF StartRecord, AcquireSlotToWrite, AcquireSlot_try, Flush,
     Destroy, thread_vars, slot_vars, ring_vars, write_vars
<1>2. started' \in [Threads -> Nat]
  <2>1. started \in [Threads -> Nat]
    BY Zenon DEF TextInv, TextType
  <2> QED
    BY <1>1, <2>1, SMT
<1>3. TextType'
  BY <1>1, <1>2, Zenon DEF TextInv, TextType
<1> QED
  BY <1>1, <1>3, TextSame, Zenon DEF TextInv, SpanInv

\* A thread changes only the record in its own slot, which is neither in the
\* ring nor being written.
LEMMA RecordText ==
    ASSUME IInv, TextInv, NEW t \in Threads,
           StartRecord_fill(t) \/ Log(t)
    PROVE  TextInv'
<1>1. /\ UNCHANGED <<started, log_record, parsing_phase, header, span, flushed,
                     output, pushed, ring, head, size, current_slot, drain>>
      /\ Writes(t) /\ slot[t] \in Slots
  BY Zenon DEF StartRecord_fill, Log, ring_vars, write_vars, Writes, IInv,
     ControlInv
<1>2. offered' \in [Threads -> Nat]
  <2>1. \/ offered' = [offered EXCEPT ![t] = 0]
        \/ offered' = [offered EXCEPT ![t] = @ + 1]
    BY Zenon DEF StartRecord_fill, Log
  <2>2. offered \in [Threads -> Nat]
    BY Zenon DEF TextInv, TextType
  <2> QED
    BY <2>1, <2>2, SMT
<1>3. \E r \in Record : record' = [record EXCEPT ![slot[t]] = r]
  <2>1. CASE StartRecord_fill(t)
    <3>1. [entry |-> <<t, started[t]>>, num_of_args |-> 0, payload |-> <<>>]
             \in Record
      BY SMT DEF Record, Entry, TextInv, TextType
    <3> QED
      BY <2>1, <3>1, Zenon DEF StartRecord_fill
  <2>2. CASE Log(t)
    <3> DEFINE r == record[slot[t]]
               c == Argument(r.entry, offered'[t])
    <3>3. record' = [record EXCEPT ![slot[t]] =
              IF r.num_of_args # MaxCounter /\ Len(r.payload) < PayloadSize
                THEN [r EXCEPT !.num_of_args = @ + 1, !.payload = Put(@, c)]
                ELSE r]
      BY <2>2, Zenon DEF Log
    <3>4. r \in Record
      BY <1>1, Zenon DEF TextInv, TextType
    <3> HIDE DEF r
    <3>5. c \in Character
      BY <1>2, <3>4, SMT DEF Argument, Character, Record
    <3> HIDE DEF c
    <3>6. Put(r.payload, c) \in Seq(Character)
      BY <3>4, <3>5, TextTypes, Zenon
    <3>7. [r EXCEPT !.num_of_args = @ + 1, !.payload = Put(@, c)] \in Record
      <4>1. PICK p \in Seq(Character) : p = Put(r.payload, c)
        BY <3>6, Zenon
      <4>2. PICK k \in Nat : k = r.num_of_args + 1
        <5>1. r.num_of_args \in Nat
          BY <3>4, SMT DEF Record
        <5> QED
          BY <5>1, SMT
      <4>3. [r EXCEPT !.num_of_args = k, !.payload = p] \in Record
        BY <3>4, Zenon DEF Record
      <4> QED
        BY <4>1, <4>2, <4>3, Zenon
    <3> QED
      BY <3>3, <3>4, <3>7, Zenon
  <2> QED
    BY <2>1, <2>2, Zenon
<1>4. /\ record' \in [Slots -> Record]
      /\ \A s \in Slots : s # slot[t] => record'[s] = record[s]
  BY <1>1, <1>3, Zenon DEF TextInv, TextType
<1>5. TextType'
  BY <1>1, <1>2, <1>4, Zenon DEF TextInv, TextType
<1>6. \A i \in InRing : record'[ring[At(i)]] = record[ring[At(i)]]
  BY <1>1, <1>4, Zenon DEF IInv, RingHolds
<1>7. log_record # None => record'[log_record] = record[log_record]
  BY <1>1, <1>4, Zenon DEF IInv, CurrentHolds, TextInv, SpanInv
<1> QED
  BY <1>1, <1>5, <1>6, <1>7, TextSame, Zenon DEF TextInv, SpanInv

\* Where Flush goes on, or returns to.
LEMMA ReturnsTo ==
    ASSUME NEW t, Flush_return(t)
    PROVE  drain' = "none"
  BY Zenon DEF Flush_return

\* The slot is released when its record is written.
LEMMA SlotFlushedText ==
    ASSUME TextInv, NEW t \in Threads, SlotFlushed(t)
    PROVE  TextInv'
<1>1. /\ UNCHANGED <<record, log_record, parsing_phase, header, span, flushed,
                     output, pushed, ring, head, size, started, offered>>
      /\ drain = "release" /\ drain' \in {"none", "next_slot"}
  BY ReturnsTo, Zenon DEF SlotFlushed, write_vars
<1>2. log_record = None
  BY <1>1, Zenon DEF TextInv, SpanInv
<1>3. TextType'
  BY <1>1, Zenon DEF TextInv, TextType
<1> QED
  BY <1>1, <1>2, <1>3, TextSame, Zenon DEF TextInv

\* The record that is handed over comes last.
LEMMA StopText ==
    ASSUME IInv, TextInv, NEW t \in Threads, NEW again \in BOOLEAN,
           StopRecord(t, again)
    PROVE  TextInv'
<1> DEFINE text == Text(record[slot[t]])
<1>1. /\ UNCHANGED <<record, log_record, parsing_phase, header, span, flushed,
                     output, current_slot, offered, drain>>
      /\ pushed' = pushed \o text
      /\ started' = [started EXCEPT ![t] = IF again THEN @ + 1 ELSE @]
      /\ pc[t] = "record"
  BY Zenon DEF StopRecord, slot_vars, write_vars
<1>2. /\ size' = size + 1
      /\ \A i : At(i)' = At(i)
      /\ InRing' = InRing \cup {size} /\ size \notin InRing
      /\ ring'[At(size)] = slot[t]
      /\ \A i \in InRing : ring'[At(i)] = ring[At(i)]
      /\ current_slot # None => ring'[current_slot] = ring[current_slot]
  BY HandedOver, Zenon
<1>3. /\ size \in Nat /\ InRing = 0 .. size - 1
      /\ pushed \in Seq(Character) /\ output \in Seq(Character)
      /\ header \in Seq(Character)
      /\ log_record # None => Payload \in Seq(Character)
                              /\ Put(Payload, NewLine) \in Seq(Character)
      /\ text \in Seq(Character)
      /\ \A i \in InRing : TextAt(i) \in Seq(Character)
  <2>1. size \in Nat
    BY SizesAssumption, SMT DEF IInv, SlotType
  <2>2. slot[t] \in Slots
    BY <1>1, Zenon DEF IInv, ControlInv
  <2>3. log_record # None => record[log_record] \in Record
    BY Zenon DEF TextInv, TextType
  <2>4. \A s \in Slots : record[s] \in Record
    BY Zenon DEF TextInv, TextType
  <2>5. \A i \in InRing : ring[At(i)] \in Slots
    BY Zenon DEF IInv, RingHolds
  <2> QED
    BY <2>1, <2>2, <2>3, <2>4, <2>5, TextTypes, Zenon
    DEF InRing, TextInv, TextType, Payload, TextAt
<1> HIDE DEF text
<1>4. /\ \A x \in Seq(Character) : \A n \in Nat :
            Found(pushed, x, n) => Found(pushed', x, n)
      /\ Found(pushed', text, Len(pushed))
      /\ Len(pushed') = Len(pushed) + Len(text) /\ Len(pushed') \in Nat
      /\ pushed' \in Seq(Character)
  <2>1. \A x \in Seq(Character) : \A n \in Nat :
            Found(pushed, x, n) => Found(pushed', x, n)
    BY <1>1, <1>3, FoundInLonger, Zenon
  <2>2. Found(pushed', text, Len(pushed))
    BY <1>1, <1>3, FoundAtEnd, Zenon
  <2>3. /\ Len(pushed') = Len(pushed) + Len(text) /\ Len(pushed') \in Nat
        /\ pushed' \in Seq(Character)
    BY <1>1, <1>3, SMT
  <2> QED
    BY <2>1, <2>2, <2>3, Zenon
<1>5. TextType'
  <2>1. started \in [Threads -> Nat]
    BY Zenon DEF TextInv, TextType
  <2>2. started' \in [Threads -> Nat]
    BY <1>1, <2>1, SMT
  <2> QED
    BY <1>1, <1>4, <2>2, Zenon DEF TextInv, TextType
<1>6. Payload' = Payload
  BY <1>1, Zenon DEF Payload
<1>7. SpanInv'
  BY <1>1, <1>2, <1>6, Zenon DEF TextInv, SpanInv
<1>8. Found(pushed, output, 0)'
  BY <1>1, <1>3, <1>4, SMT DEF TextInv
<1>9. PICK b \in Nat : \E begin \in [0 .. size -> Nat] :
         CurrentPlaced(b, begin[0]) /\ RingPlaced(begin)
  BY Zenon DEF TextInv, Placed
<1>10. PICK begin \in [0 .. size -> Nat] :
         CurrentPlaced(b, begin[0]) /\ RingPlaced(begin)
  BY <1>9, Zenon
<1>11. PICK after :
       /\ after \in [0 .. size' -> Nat]
       /\ after[size'] = Len(pushed')
       /\ after[size] = begin[size] /\ after[0] = begin[0]
       /\ \A i \in InRing : after[i] = begin[i] /\ after[i + 1] = begin[i + 1]
                            /\ begin[i] \in Nat
  <2> DEFINE after == [i \in 0 .. size' |->
                          IF i = size' THEN Len(pushed') ELSE begin[i]]
  <2>1. after \in [0 .. size' -> Nat] /\ after[size'] = Len(pushed')
    BY <1>2, <1>3, <1>4, SMT
  <2>2. after[size] = begin[size] /\ after[0] = begin[0]
    BY <1>2, <1>3, SMT
  <2>3. \A i \in InRing : /\ after[i] = begin[i] /\ after[i + 1] = begin[i + 1]
                          /\ begin[i] \in Nat
    BY <1>2, <1>3, SMT
  <2> HIDE DEF after
  <2> QED
    BY <2>1, <2>2, <2>3, Zenon
<1>12. (CurrentPlaced(b, after[0]))'
  <2>1. CurrentPlaced(b, after[0])
    BY <1>10, <1>11, Zenon
  <2>2. b + Len(header) \in Nat
    BY <1>3, SMT
  <2>3. ASSUME NEW n, Whole(b, n), log_record # None
        PROVE  Whole(b, n)'
    BY <1>1, <1>3, <1>4, <1>6, <2>2, <2>3, Zenon DEF Whole
  <2>4. CASE log_record = None
    BY <1>1, <2>1, <2>4, Zenon DEF CurrentPlaced
  <2>5. CASE log_record # None
    <3>1. CASE parsing_phase = "reinitialize"
      BY <1>1, <1>3, <1>4, <1>6, <2>1, <2>5, <3>1, Zenon DEF CurrentPlaced
    <3>2. CASE parsing_phase # "reinitialize"
      BY <1>1, <2>1, <2>3, <2>5, <3>2, Zenon DEF CurrentPlaced
    <3> QED
      BY <3>1, <3>2, Zenon
  <2> QED
    BY <2>4, <2>5, Zenon
<1>13. (RingPlaced(after))'
  <2>0. PICK last : last = size
    BY Zenon
  <2>1. /\ TextAt(last)' = text
        /\ \A i \in InRing : TextAt(i)' = TextAt(i)
    BY <1>1, <1>2, <2>0, Zenon DEF TextAt, text
  <2>2. ASSUME NEW i \in InRing
        PROVE  /\ after[i + 1] = after[i] + Len(TextAt(i)')
               /\ Found(pushed', TextAt(i)', after[i])
    <3>1. /\ begin[i + 1] = begin[i] + Len(TextAt(i))
          /\ Found(pushed, TextAt(i), begin[i])
      BY <1>10, Zenon DEF RingPlaced
    <3>2. Found(pushed', TextAt(i), begin[i])
      BY <1>3, <1>4, <1>11, <3>1, Zenon
    <3> QED
      BY <1>11, <2>1, <3>1, <3>2, Zenon
  <2>3. /\ after[last + 1] = after[last] + Len(TextAt(last)')
        /\ Found(pushed', TextAt(last)', after[last])
    BY <1>2, <1>4, <2>0, <1>10, <1>11, <2>1, Zenon DEF RingPlaced
  <2> QED
    BY <1>2, <1>11, <2>0, <2>2, <2>3, Zenon DEF RingPlaced
<1>14. Placed'
  BY <1>11, <1>12, <1>13, Zenon DEF Placed
<1> QED
  BY <1>5, <1>7, <1>8, <1>14, Zenon DEF TextInv

\* FlushIntoFile: what the file takes continues what it has.
LEMMA WriteText ==
    ASSUME TextInv, NEW t \in Threads,
           NEW n \in 0 .. span.size - flushed, FlushIntoFile(t, n)
    PROVE  TextInv'
<1>1. /\ UNCHANGED <<record, log_record, parsing_phase, header, span, pushed,
                     ring, head, size, current_slot, started, offered>>
      /\ output' = output \o Written(n)
      /\ flushed' = flushed + n
      /\ \/ drain' = "none"
         \/ drain' = "next_span" /\ flushed' = span.size
  BY ReturnsTo, Zenon DEF FlushIntoFile, slot_vars, ring_vars, thread_vars
<1>2. /\ output \in Seq(Character) /\ pushed \in Seq(Character)
      /\ span.size \in Nat /\ flushed \in 0 .. span.size
  BY Zenon DEF TextInv, TextType
<1>3. /\ n \in Nat /\ flushed \in Nat /\ flushed + n \in Nat
      /\ flushed + n <= span.size /\ flushed + n \in 0 .. span.size
  BY <1>2, SMT
<1>4. CASE log_record = None \/ parsing_phase = "header"
  <2>1. flushed = span.size
    BY <1>4, Zenon DEF TextInv, SpanInv
  <2>2. n = 0 /\ flushed' = flushed
    BY <1>1, <1>2, <2>1, SMT
  <2>3. Written(n) = <<>>
    BY <2>2, SMT DEF Written
  <2>4. output' = output
    BY <1>1, <1>2, <2>3, SMT
  <2>5. TextType'
    BY <1>1, <2>2, <2>4, Zenon DEF TextInv, TextType
  <2> QED
    BY <1>1, <2>1, <2>2, <2>4, <2>5, TextSame, Zenon DEF TextInv
<1>5. CASE log_record # None /\ parsing_phase # "header"
  <2>1. PICK text \in Seq(Character) :
           /\ Len(text) = span.size
           /\ \A k \in 1 .. Len(text) : Memory(k) = text[k]
           /\ parsing_phase = "payload" => text = header
           /\ parsing_phase = "reinitialize" => text = Payload
    <3>1. header \in Seq(Character) /\ Payload \in Seq(Character)
      <4>1. record[log_record] \in Record /\ header \in Seq(Character)
        BY <1>5, Zenon DEF TextInv, TextType
      <4> QED
        BY <4>1, TextTypes, Zenon DEF Payload
    <3>2. \A s \in Seq(Character) : \A k \in 1 .. Len(s) : k \in DOMAIN s
      BY SMT
    <3>3. CASE parsing_phase = "payload"
      <4>1. span.of = "header" /\ span.size = Len(header)
        BY <1>5, <3>3, Zenon DEF TextInv, SpanInv
      <4> QED
        BY <3>1, <3>2, <3>3, <4>1, Zenon DEF Memory
    <3>4. CASE parsing_phase = "reinitialize"
      <4>1. /\ span.of = "payload" /\ span.slot = log_record
            /\ span.size = Len(Payload)
        BY <1>5, <3>4, Zenon DEF TextInv, SpanInv
      <4> QED
        BY <3>1, <3>2, <3>4, <4>1, Zenon DEF Memory, Payload
    <3> QED
      BY <1>5, <3>3, <3>4, Zenon DEF TextInv, TextType
  <2>2. PICK b \in Nat : \E begin \in [0 .. size -> Nat] :
           CurrentPlaced(b, begin[0]) /\ RingPlaced(begin)
    BY Zenon DEF TextInv, Placed
  <2>3. PICK begin \in [0 .. size -> Nat] :
           CurrentPlaced(b, begin[0]) /\ RingPlaced(begin)
    BY <2>2, Zenon
  <2>4. Len(output) = b + flushed /\ Found(pushed, text, b)
    BY <1>5, <2>1, <2>3, Zenon DEF CurrentPlaced, Whole, TextInv, TextType
  <2> DEFINE more == Written(n)
  <2>5. more \in Seq(Character) /\ Len(more) = n
        /\ \A i \in 1 .. Len(more) : more[i] = text[flushed + i]
    <3>1. \A i \in 1 .. n : /\ flushed + i \in 1 .. Len(text)
                            /\ text[flushed + i] \in Character
      BY <1>3, <2>1, SMT
    <3>2. \A i \in 1 .. n : Memory(flushed + i) = text[flushed + i]
      BY <2>1, <3>1, Zenon
    <3>3. more = [i \in 1 .. n |-> text[flushed + i]]
      BY <3>2, Zenon DEF Written
    <3> HIDE DEF more
    <3> QED
      BY <1>3, <3>1, <3>3, SMT
  <2> HIDE DEF more
  <2>6. /\ Len(output \o more) = b + (flushed + n)
        /\ Found(pushed, output \o more, 0)
    <3>1. flushed + Len(more) <= Len(text)
      BY <1>3, <2>1, <2>5, Zenon
    <3>2. Found(pushed, output, 0)
      BY Zenon DEF TextInv
    <3>3. /\ Len(output \o more) = b + (flushed + Len(more))
          /\ Found(pushed, output \o more, 0)
      BY <1>2, <1>3, <2>1, <2>2, <2>4, <2>5, <3>1, <3>2, FoundContinued, Zenon
    <3> QED
      BY <2>5, <3>3, Zenon
  <2>7. /\ output' \in Seq(Character) /\ Len(output') = b + flushed'
        /\ Found(pushed, output, 0)'
    <3>1. output \o more \in Seq(Character)
      BY <1>2, <2>5, SMT
    <3> QED
      BY <1>1, <2>6, <3>1, Zenon DEF more
  <2>8. TextType'
    BY <1>1, <1>3, <2>7, Zenon DEF TextInv, TextType
  <2>9. Payload' = Payload
    BY <1>1, Zenon DEF Payload
  <2>10. SpanInv'
    BY <1>1, <1>5, <2>9, Zenon DEF TextInv, SpanInv
  <2>11. (CurrentPlaced(b, begin[0]))'
    BY <1>1, <1>5, <2>3, <2>7, <2>9, Zenon DEF CurrentPlaced, Whole
  <2>12. InRing' = InRing /\ \A i \in InRing : TextAt(i)' = TextAt(i)
    BY <1>1, Zenon DEF InRing, TextAt, At
  <2>13. (RingPlaced(begin))'
    BY <1>1, <2>3, <2>12, Zenon DEF RingPlaced
  <2> QED
    BY <1>1, <2>7, <2>8, <2>10, <2>11, <2>13, Zenon DEF TextInv, Placed
<1> QED
  BY <1>4, <1>5, Zenon

\* The next span is the one behind the last: the header, the payload with its
\* newline, and then nothing of the record is left.
LEMMA SpansText ==
    ASSUME IInv, TextInv, NEW t \in Threads, MoreSpansAvailableAndLoaded(t)
    PROVE  TextInv'
<1>1. /\ UNCHANGED <<output, pushed, ring, head, size, current_slot, started,
                     offered>>
      /\ drain = "next_span"
  BY Zenon DEF MoreSpansAvailableAndLoaded, ring_vars, thread_vars
<1>2. flushed = span.size
  BY <1>1, Zenon DEF TextInv, SpanInv
<1>3. CASE log_record = None
  <2>1. /\ UNCHANGED <<record, log_record, parsing_phase, header, span, flushed>>
        /\ drain' = "release"
    BY <1>3, Zenon DEF MoreSpansAvailableAndLoaded
  <2>2. TextType'
    BY <1>1, <2>1, Zenon DEF TextInv, TextType
  <2> QED
    BY <1>1, <1>3, <2>1, <2>2, TextSame, Zenon DEF TextInv
<1>4. CASE log_record # None
  <2>1. /\ log_record \in Slots /\ record[log_record] \in Record
        /\ header \in Seq(Character) /\ Payload \in Seq(Character)
        /\ Put(Payload, NewLine) \in Seq(Character)
        /\ output \in Seq(Character)
    <3>1. /\ log_record \in Slots /\ record[log_record] \in Record
          /\ header \in Seq(Character) /\ output \in Seq(Character)
      BY <1>4, Zenon DEF TextInv, TextType
    <3> QED
      BY <3>1, TextTypes, Zenon DEF Payload
  <2>2. PICK b \in Nat : \E begin \in [0 .. size -> Nat] :
           CurrentPlaced(b, begin[0]) /\ RingPlaced(begin)
    BY Zenon DEF TextInv, Placed
  <2>3. PICK begin \in [0 .. size -> Nat] :
           CurrentPlaced(b, begin[0]) /\ RingPlaced(begin)
    BY <2>2, Zenon
  <2>4. /\ \A i \in InRing : ring[At(i)] \in Slots /\ ring[At(i)] # log_record
        /\ InRing' = InRing /\ \A i : At(i)' = At(i)
    BY <1>1, <1>4, Zenon
    DEF IInv, RingHolds, CurrentHolds, TextInv, SpanInv, InRing, At
  <2>5. ASSUME \A s \in Slots \ {log_record} : record'[s] = record[s],
               NEW c \in Nat, TextType', SpanInv',
               (CurrentPlaced(c, begin[0]))'
        PROVE  TextInv'
    <3>1. \A i \in InRing : TextAt(i)' = TextAt(i)
      BY <1>1, <2>4, <2>5, Zenon DEF TextAt
    <3>2. (RingPlaced(begin))'
      BY <1>1, <2>3, <2>4, <3>1, Zenon DEF RingPlaced
    <3>3. Found(pushed, output, 0)'
      BY <1>1, Zenon DEF TextInv
    <3> QED
      BY <1>1, <2>5, <3>2, <3>3, Zenon DEF TextInv, Placed
  <2>6. CASE parsing_phase = "header"
    <3>1. /\ parsing_phase' = "payload" /\ UNCHANGED <<record, log_record, header>>
          /\ drain' = "write" /\ SetSpan("header", header)
      BY <1>4, <2>6, Zenon DEF MoreSpansAvailableAndLoaded
    <3>2. span'.of = "header" /\ span'.size = Len(header) /\ flushed' = 0
      BY <3>1, Zenon DEF SetSpan
    <3>3. Len(header) \in Nat /\ 0 \in 0 .. Len(header) /\ b + 0 = b
      BY <2>1, SMT
    <3>4. TextType'
      BY <1>1, <3>1, <3>2, <3>3, Zenon DEF TextInv, TextType
    <3>5. SpanInv'
      BY <1>1, <1>4, <3>1, <3>2, Zenon DEF TextInv, SpanInv
    <3>6. (CurrentPlaced(b, begin[0]))'
      BY <1>1, <1>4, <2>3, <2>6, <3>1, <3>2, <3>3, Zenon
      DEF CurrentPlaced, Whole, Payload
    <3> QED
      BY <2>5, <3>1, <3>4, <3>5, <3>6, Zenon
  <2>7. CASE parsing_phase = "payload"
    <3>1. /\ parsing_phase' = "reinitialize" /\ UNCHANGED <<log_record, header>>
          /\ record' = [record EXCEPT ![log_record].payload = Put(@, NewLine)]
          /\ drain' = "write" /\ SetSpan("payload", record'[log_record].payload)
      BY <1>4, <2>7, Zenon DEF MoreSpansAvailableAndLoaded
    <3>2. /\ record' \in [Slots -> Record]
          /\ \A s \in Slots \ {log_record} : record'[s] = record[s]
          /\ Payload' = Put(Payload, NewLine)
      <4>1. [record[log_record] EXCEPT !.payload = Put(Payload, NewLine)]
               \in Record
        BY <2>1, Zenon DEF Record
      <4>2. [record[log_record] EXCEPT !.payload = Put(Payload, NewLine)].payload
               = Put(Payload, NewLine)
        BY <2>1, Zenon DEF Record
      <4>3. record' = [record EXCEPT ![log_record] =
               [record[log_record] EXCEPT !.payload = Put(Payload, NewLine)]]
        BY <3>1, Zenon DEF Payload
      <4> QED
        BY <2>1, <3>1, <4>1, <4>2, <4>3, Zenon DEF TextInv, TextType, Payload
    <3>3. /\ span'.of = "payload" /\ span'.slot = log_record
          /\ span'.size = Len(Payload') /\ flushed' = 0
      BY <3>1, Zenon DEF SetSpan, Payload
    <3>4. Len(Payload') \in Nat /\ 0 \in 0 .. Len(Payload')
      BY <2>1, <3>2, SMT
    <3>5. TextType'
      BY <1>1, <3>1, <3>2, <3>3, <3>4, Zenon DEF TextInv, TextType
    <3>6. SpanInv'
      BY <1>1, <1>4, <3>1, <3>3, Zenon DEF TextInv, SpanInv
    <3>7. /\ Len(output) = b + flushed /\ Whole(b, begin[0])
          /\ flushed = Len(header)
      BY <1>2, <1>4, <2>3, <2>7, Zenon DEF CurrentPlaced, TextInv, SpanInv
    <3>8. PICK c \in Nat : c = b + Len(header) /\ c + 0 = c
      BY <2>1, SMT
    <3>9. (CurrentPlaced(c, begin[0]))'
      BY <1>1, <1>4, <3>1, <3>2, <3>3, <3>7, <3>8, Zenon DEF CurrentPlaced, Whole
    <3> QED
      BY <2>5, <3>2, <3>5, <3>6, <3>9, Zenon
  <2>8. CASE parsing_phase = "reinitialize"
    <3>1. /\ parsing_phase' = "header" /\ header' = <<>> /\ log_record' = None
          /\ record' = [record EXCEPT ![log_record].payload = <<>>]
          /\ drain' = "release" /\ UNCHANGED <<span, flushed>>
      BY <1>4, <2>8, Zenon DEF MoreSpansAvailableAndLoaded, Reinitialize
    <3>2. /\ record' \in [Slots -> Record]
          /\ \A s \in Slots \ {log_record} : record'[s] = record[s]
          /\ header' \in Seq(Character)
      <4>1. <<>> \in Seq(Character)
        BY SMT
      <4>2. [record[log_record] EXCEPT !.payload = <<>>] \in Record
        BY <2>1, <4>1, Zenon DEF Record
      <4> QED
        BY <2>1, <3>1, <4>1, <4>2, Zenon DEF TextInv, TextType
    <3>3. TextType'
      BY <1>1, <3>1, <3>2, Zenon DEF TextInv, TextType
    <3>4. SpanInv'
      BY <1>1, <1>2, <3>1, Zenon DEF SpanInv
    <3>5. Len(output) = b + flushed /\ begin[0] = b + Len(Payload)
      BY <1>4, <2>3, <2>8, Zenon DEF CurrentPlaced
    <3>6. flushed = Len(Payload)
      BY <1>2, <1>4, <2>8, Zenon DEF TextInv, SpanInv
    <3>7. (CurrentPlaced(b, begin[0]))'
      BY <1>1, <3>1, <3>5, <3>6, Zenon DEF CurrentPlaced
    <3> QED
      BY <2>5, <3>2, <3>3, <3>4, <3>7, Zenon
  <2> QED
    BY <2>6, <2>7, <2>8, Zenon DEF TextInv, TextType
<1> QED
  BY <1>3, <1>4, Zenon

\* The next slot has the record that follows the last one written.
LEMMA NextSlotText ==
    ASSUME IInv, TextInv, NEW t \in Threads, MoreSlotsAvailableAndLoaded(t)
    PROVE  TextInv'
<1>1. /\ UNCHANGED <<record, span, flushed, output, pushed, ring, started,
                     offered>>
      /\ drain = "next_slot"
  BY Zenon DEF MoreSlotsAvailableAndLoaded, slot_vars
<1>2. log_record = None /\ header = <<>> /\ flushed = span.size
  BY <1>1, Zenon DEF TextInv, SpanInv
<1>3. CASE Empty
  <2>1. /\ UNCHANGED <<log_record, parsing_phase, header, head, size,
                       current_slot>>
        /\ drain' = "none"
    BY <1>3, ReturnsTo, Zenon DEF MoreSlotsAvailableAndLoaded
  <2>2. TextType'
    BY <1>1, <2>1, Zenon DEF TextInv, TextType
  <2> QED
    BY <1>1, <1>2, <2>1, <2>2, TextSame, Zenon DEF TextInv
<1>4. CASE ~Empty
  <2> DEFINE r == record[ring[head]]
  <2>1. /\ size # 0 /\ current_slot' = head
        /\ head' = (head + 1) % BufferSize /\ size' = size - 1
        /\ log_record' = ring[head] /\ header' = header \o Header(r)
        /\ parsing_phase' = "header" /\ drain' = "write"
    BY <1>4, Zenon DEF MoreSlotsAvailableAndLoaded, Empty
  <2>2. /\ size \in Nat \ {0}
        /\ InRing = 0 .. size - 1 /\ InRing' = 0 .. size - 2
        /\ \A i \in InRing' : i + 1 \in InRing /\ At(i)' = At(i + 1)
        /\ At(0) = head
    BY <2>1, Popped, Zenon
  <2>3. 0 \in InRing /\ 0 \in 0 .. size
    BY <2>2, SMT
  <2>4. ring[head] \in Slots /\ r \in Record /\ TextAt(0) = Text(r)
    BY <2>2, <2>3, Zenon DEF IInv, RingHolds, TextInv, TextType, TextAt
  <2>5. /\ r.payload \in Seq(Character) /\ Header(r) \in Seq(Character)
        /\ Put(r.payload, NewLine) \in Seq(Character)
        /\ Text(r) = Header(r) \o Put(r.payload, NewLine)
        /\ pushed \in Seq(Character)
    BY <2>4, TextTypes, Zenon DEF TextInv, TextType
  <2>6. header' = Header(r) /\ Payload' = r.payload
    <3>1. ASSUME NEW h \in Seq(Character)
          PROVE  <<>> \o h = h
      BY SMT
    <3>2. header' = Header(r)
      BY <1>2, <2>1, <2>5, <3>1, Zenon
    <3> QED
      BY <1>1, <2>1, <3>2, Zenon DEF Payload
  <2> HIDE DEF r
  <2>7. TextType'
    BY <1>1, <2>1, <2>4, <2>5, <2>6, Zenon DEF TextInv, TextType
  <2>8. head # None /\ log_record' # None
    BY SizesAssumption, NoneAssumption, <2>1, <2>4, SMT
    DEF IInv, SlotType, Places, Slots
  <2>9. SpanInv'
    BY <1>1, <1>2, <2>1, <2>8, Zenon DEF SpanInv
  <2>10. PICK b \in Nat : \E begin \in [0 .. size -> Nat] :
            CurrentPlaced(b, begin[0]) /\ RingPlaced(begin)
    BY Zenon DEF TextInv, Placed
  <2>11. PICK begin \in [0 .. size -> Nat] :
            CurrentPlaced(b, begin[0]) /\ RingPlaced(begin)
    BY <2>10, Zenon
  <2>12. /\ begin[0] \in Nat /\ begin[0] = Len(output)
         /\ begin[0 + 1] = begin[0] + Len(Text(r))
         /\ Found(pushed, Text(r), begin[0])
    BY <1>2, <2>3, <2>4, <2>11, Zenon DEF CurrentPlaced, RingPlaced
  <2>13. PICK after :
            /\ after \in [0 .. size' -> Nat]
            /\ after[0] = begin[0 + 1] /\ after[size'] = begin[size]
            /\ \A i \in InRing' : /\ after[i] = begin[i + 1]
                                  /\ after[i + 1] = begin[(i + 1) + 1]
    <3> DEFINE after == [i \in 0 .. size' |-> begin[i + 1]]
    <3>1. after \in [0 .. size' -> Nat]
      BY <2>1, <2>2, SMT
    <3>2. after[0] = begin[0 + 1] /\ after[size'] = begin[size]
      BY <2>1, <2>2, SMT
    <3>3. \A i \in InRing' : /\ after[i] = begin[i + 1]
                             /\ after[i + 1] = begin[(i + 1) + 1]
      BY <2>1, <2>2, SMT
    <3> HIDE DEF after
    <3> QED
      BY <3>1, <3>2, <3>3, Zenon
  <2>14. (CurrentPlaced(begin[0], after[0]))'
    <3>1. /\ Found(pushed, Header(r), begin[0])
          /\ Found(pushed, Put(r.payload, NewLine), begin[0] + Len(Header(r)))
          /\ Len(Text(r)) = Len(Header(r)) + Len(Put(r.payload, NewLine))
      <4>1. PICK h \in Seq(Character), p \in Seq(Character), n \in Nat :
               h = Header(r) /\ p = Put(r.payload, NewLine) /\ n = begin[0]
        BY <2>5, <2>12, Zenon
      <4>2. Text(r) = h \o p /\ Found(pushed, h \o p, n)
        BY <2>5, <2>12, <4>1, Zenon
      <4>t. pushed \in Seq(Character)
        BY <2>5, Zenon
      <4>3. /\ Found(pushed, h, n) /\ Found(pushed, p, n + Len(h))
            /\ Len(h \o p) = Len(h) + Len(p)
        BY <4>t, <4>2, FoundInParts, SMT
      <4> QED
        BY <4>1, <4>2, <4>3, Zenon
    <3>2. after[0] = (begin[0] + Len(Header(r))) + Len(Put(r.payload, NewLine))
      <4>1. Len(Header(r)) \in Nat /\ Len(Put(r.payload, NewLine)) \in Nat
        BY <2>5, SMT
      <4> QED
        BY <2>12, <2>13, <3>1, <4>1, SMT
    <3>3. Whole(begin[0], after[0])'
      BY <1>1, <2>6, <3>1, <3>2, Zenon DEF Whole
    <3> QED
      BY <1>1, <2>1, <2>8, <2>12, <3>3, Zenon DEF CurrentPlaced
  <2>15. (RingPlaced(after))'
    <3>1. \A i \in InRing' : TextAt(i)' = TextAt(i + 1) /\ i + 1 \in InRing
      BY <1>1, <2>2, Zenon DEF TextAt
    <3>2. after[size'] = Len(pushed')
      BY <1>1, <2>11, <2>13, Zenon DEF RingPlaced
    <3>3. ASSUME NEW i \in InRing'
          PROVE  /\ after[i + 1] = after[i] + Len(TextAt(i)')
                 /\ Found(pushed', TextAt(i)', after[i])
      BY <1>1, <2>11, <2>13, <3>1, Zenon DEF RingPlaced
    <3> QED
      BY <3>2, <3>3, Zenon DEF RingPlaced
  <2>16. Found(pushed, output, 0)'
    BY <1>1, Zenon DEF TextInv
  <2> QED
    BY <2>7, <2>9, <2>12, <2>13, <2>14, <2>15, <2>16, Zenon DEF TextInv, Placed
<1> QED
  BY <1>3, <1>4, Zenon

\* Every step of every thread preserves where the texts are.
LEMMA NextText ==
    ASSUME IInv, TextInv, [Next]_vars
    PROVE  TextInv'
<1>1. CASE UNCHANGED vars
  <2>1. UNCHANGED <<record, log_record, parsing_phase, header, span, flushed,
                    output, pushed, ring, head, size, current_slot, drain,
                    started, offered>>
    BY <1>1, Zenon DEF vars, thread_vars, slot_vars, ring_vars, write_vars
  <2>2. TextType'
    BY <2>1, Zenon DEF TextInv, TextType
  <2> QED
    BY <2>1, <2>2, TextSame, Zenon DEF TextInv, SpanInv
<1>2. ASSUME NEW t \in Threads,
             \/ Alive /\ StartRecord(t)
             \/ Proceed(t)
             \/ Log(t)
             \/ \E again \in BOOLEAN : StopRecord(t, again)
             \/ Destroy(t)
      PROVE  TextInv'
  <2>1. CASE Proceed(t)
    <3>1. CASE Drain(t)
      BY <3>1, WriteText, SpansText, SlotFlushedText, NextSlotText, Zenon
      DEF Drain
    <3> QED
      BY <2>1, <3>1, QuietText, RecordText, Zenon DEF Proceed
  <2>2. CASE \E again \in BOOLEAN : StopRecord(t, again)
    BY <2>2, StopText, Zenon
  <2> QED
    BY <1>2, <2>1, <2>2, QuietText, RecordText, Zenon
<1> QED
  BY <1>1, <1>2, Zenon DEF Next

\* The file holds a beginning of the texts that were handed over, in that
\* order, whatever thread drains them and wherever a write is cut short
\* (SlotDrainer::TryFlushSlots, NonBlockingWriter::FlushIntoFile).
THEOREM RecordsComeOutInOrder == Spec => []OutputInOrder
<1>1. Init => IInv /\ TextInv
  BY InitIInv, InitText, Zenon
<1>2. IInv /\ TextInv /\ [Next]_vars => (IInv /\ TextInv)'
  BY NextIInv, NextText, Zenon
<1>3. IInv /\ TextInv => OutputInOrder
  <2>1. SUFFICES ASSUME TextInv
                 PROVE  OutputInOrder
    BY Zenon
  <2>2. output \in Seq(Character) /\ pushed \in Seq(Character)
        /\ Found(pushed, output, 0)
    BY <2>1, Zenon DEF TextInv, TextType
  <2> QED
    BY <2>2, SMT DEF OutputInOrder, Found
<1> QED
  BY <1>1, <1>2, <1>3, PTL DEF Spec
=============================================================================
