---------------------------- MODULE TextRecorder ----------------------------
(***************************************************************************)
(* The path of a log record from the stream that opens it to the file:     *)
(* TextRecorder, FileOutputBackend, CircularAllocator, SlotDrainer,        *)
(* TextMessageBuilder and NonBlockingWriter of score/mw/log.  Any number   *)
(* of threads log at the same time.  A slot of the allocator is claimed    *)
(* with atomic operations only; the queue of slots to be written, the      *)
(* message builder and the writer are behind context_mutex_.  The file is  *)
(* non-blocking: a write takes any part of what it is offered, or nothing. *)
(*                                                                         *)
(* Text is abstract: an argument and a newline are one character each, a   *)
(* header is two, whose record it is and how many arguments it has.        *)
(* current_slot_ is what it is in the code, a reference to a place of the  *)
(* ring that has been popped already.                                      *)
(***************************************************************************)
EXTENDS Naturals, Sequences, Functions, FiniteSets

CONSTANTS Threads,        \* threads that log
          NumSlots,       \* configured number of slots
          BufferSize,     \* kMaxCircularBufferSize
          Limit,          \* limit_slots_in_one_cycle_
          PayloadSize,    \* configured size of a slot
          MaxCounter,     \* kMaxCounter of DltArgumentCounter
          MaxRecords,     \* bound: records that are started
          MaxArgs,        \* bound: arguments a thread offers to a record
          None

ASSUME SizesAssumption ==
    /\ NumSlots \in Nat \ {0}
    /\ BufferSize \in Nat
    /\ NumSlots <= BufferSize
    /\ Limit \in Nat /\ PayloadSize \in Nat /\ MaxCounter \in Nat
ASSUME NoneAssumption == None \notin Nat \cup Threads

Slots == 0 .. NumSlots - 1
Places == 0 .. BufferSize - 1

VARIABLES
    pc,                \* where each thread is
    started,           \* number of records each thread has started
    offered,           \* arguments offered to the record being made
    slot,              \* slot_index, then the slot of the stream
    tries,             \* loop_limiter
    claimed_sequence,  \* claimed_sequence_ modulo the number of slots
    in_use,            \* in_use_ of each slot
    record,            \* the LogRecord in each slot
    mutex,             \* the thread that holds context_mutex_
    drain,             \* where that thread is in Flush()
    processed,         \* number_of_processed_slots
    ring, head, size,  \* circular_buffer_
    current_slot,      \* the place current_slot_ refers to
    log_record,        \* the slot of log_record_ of the message builder
    parsing_phase,
    header,            \* header_payload_
    span,              \* buffer_ of the writer: whose memory, and how much
    flushed,           \* number_of_flushed_bytes_
    output,            \* what the file has received
    pushed,            \* history: text of the records handed to the drainer
    untouched,         \* history: slots free since a thread began to look
    alone              \* history: nobody else claimed a slot since then

thread_vars == <<pc, started, offered, slot, tries>>
slot_vars == <<claimed_sequence, in_use, record>>
ring_vars == <<ring, head, size, current_slot>>
write_vars == <<log_record, parsing_phase, header, span, flushed, output>>
seek_vars == <<untouched, alone>>
vars == <<thread_vars, slot_vars, mutex, drain, processed, ring_vars,
          write_vars, pushed, seek_vars>>

Goto(t, label) == pc' = [pc EXCEPT ![t] = label]

\* The characters of the text.
Header(r) == << <<"entry", r.entry>>, <<"num_of_args", r.num_of_args>> >>
Argument(m, n) == <<"argument", m, n>>
NewLine == <<"newline">>
Garbage == <<"garbage">>

\* VerbosePayload::Put: what does not fit is dropped.
Put(payload, char) ==
    IF Len(payload) < PayloadSize THEN Append(payload, char) ELSE payload

NoRecord == [entry |-> <<None, 0>>, num_of_args |-> 0, payload |-> <<>>]

Init ==
    /\ pc = [t \in Threads |-> "idle"]
    /\ started = [t \in Threads |-> 0]
    /\ offered = [t \in Threads |-> 0]
    /\ slot = [t \in Threads |-> None]
    /\ tries = [t \in Threads |-> 0]
    /\ claimed_sequence = 0
    /\ in_use = [s \in Slots |-> FALSE]
    /\ record = [s \in Slots |-> NoRecord]
    /\ mutex = None
    /\ drain = "none"
    /\ processed = 0
    /\ ring = [p \in Places |-> None]
    /\ head = 0
    /\ size = 0
    /\ current_slot = None
    /\ log_record = None
    /\ parsing_phase = "header"
    /\ header = <<>>
    /\ span = [of |-> None, slot |-> None, size |-> 0]
    /\ flushed = 0
    /\ output = <<>>
    /\ pushed = <<>>
    /\ untouched = [t \in Threads |-> {}]
    /\ alone = [t \in Threads |-> FALSE]

-----------------------------------------------------------------------------
(* A thread and its record                                                 *)

Started == FoldFunction(+, 0, started)

\* A stream is constructed, on an enabled level: ReserveSlot is called.
StartRecord(t) ==
    /\ pc[t] = "idle"
    /\ Started < MaxRecords
    /\ started' = [started EXCEPT ![t] = @ + 1]
    /\ Goto(t, "reserve")
    /\ UNCHANGED <<offered, slot, tries, slot_vars, mutex, drain, processed,
                   ring_vars, write_vars, pushed, seek_vars>>

\* Mutant: the loop is given up one slot too early.
GiveUp_early(n) == n >= NumSlots

GiveUp(n) == n > NumSlots

\* Mutant: the loop has no limit.
AcquireSlotToWrite_unlimited(t) ==
    /\ pc[t] = "acquire"
    /\ claimed_sequence' = (claimed_sequence + 1) % NumSlots
    /\ slot' = [slot EXCEPT ![t] = claimed_sequence]
    /\ Goto(t, "try_use")
    /\ UNCHANGED <<started, offered, tries, in_use, record, mutex, drain,
                   processed, ring_vars, write_vars, pushed, seek_vars>>

\* One turn of the loop of AcquireSlotToWrite up to the attempt.
AcquireSlotToWrite(t) ==
    /\ pc[t] = "acquire"
    /\ claimed_sequence' = (claimed_sequence + 1) % NumSlots
    /\ tries' = [tries EXCEPT ![t] = IF GiveUp(@ + 1) THEN 0 ELSE @ + 1]
    /\ IF GiveUp(tries[t] + 1)
         THEN Goto(t, "idle") /\ slot' = [slot EXCEPT ![t] = None]
         ELSE Goto(t, "try_use")
              /\ slot' = [slot EXCEPT ![t] = claimed_sequence]
    /\ alone' = [u \in Threads |-> alone[u] /\ u = t]
    /\ UNCHANGED <<started, offered, in_use, record, mutex, drain, processed,
                   ring_vars, write_vars, pushed, untouched>>

TryUse(t) ==
    IF in_use[slot[t]]
      THEN Goto(t, "acquire") /\ UNCHANGED in_use
      ELSE Goto(t, "fill") /\ in_use' = [in_use EXCEPT ![slot[t]] = TRUE]

AcquireSlot_try(t) ==
    /\ pc[t] = "try_use"
    /\ TryUse(t)
    /\ untouched' = [u \in Threads |-> untouched[u] \ {slot[t]}]
    /\ UNCHANGED <<started, offered, slot, tries, claimed_sequence, record,
                   mutex, drain, processed, ring_vars, write_vars, pushed,
                   alone>>

\* The rest of TextRecorder::StartRecord.
StartRecord_fill(t) ==
    /\ pc[t] = "fill"
    /\ record' = [record EXCEPT ![slot[t]] =
                     [entry |-> <<t, started[t]>>, num_of_args |-> 0,
                      payload |-> <<>>]]
    /\ offered' = [offered EXCEPT ![t] = 0]
    /\ tries' = [tries EXCEPT ![t] = 0]
    /\ Goto(t, "record")
    /\ UNCHANGED <<started, slot, claimed_sequence, in_use, mutex, drain,
                   processed, ring_vars, write_vars, pushed, seek_vars>>

\* operator<< : an argument is added while the counter and the payload allow.
Log(t) ==
    /\ pc[t] = "record"
    /\ offered[t] < MaxArgs
    /\ offered' = [offered EXCEPT ![t] = @ + 1]
    /\ LET r == record[slot[t]]
       IN  record' = [record EXCEPT ![slot[t]] =
               IF r.num_of_args # MaxCounter /\ Len(r.payload) < PayloadSize
                 THEN [r EXCEPT !.num_of_args = @ + 1,
                                !.payload = Put(@, Argument(r.entry, offered'[t]))]
                 ELSE r]
    /\ UNCHANGED <<pc, started, slot, tries, claimed_sequence, in_use, mutex,
                   drain, processed, ring_vars, write_vars, pushed, seek_vars>>

\* What the file is to receive of a record.
Text(r) == Header(r) \o Put(r.payload, NewLine)

\* circular_buffer::push_back: a full ring loses its oldest element.
PushBack(s) ==
    /\ ring' = [ring EXCEPT ![(head + size) % BufferSize] = s]
    /\ IF size = BufferSize
         THEN head' = (head + 1) % BufferSize /\ UNCHANGED size
         ELSE size' = size + 1 /\ UNCHANGED head

\* ~LogStream hands the slot over; LogStream::Flush does, and starts again.
StopRecord(t, again) ==
    /\ pc[t] = "record"
    /\ mutex = None
    /\ again => Started < MaxRecords
    /\ started' = [started EXCEPT ![t] = IF again THEN @ + 1 ELSE @]
    /\ PushBack(slot[t])
    /\ pushed' = pushed \o Text(record[slot[t]])
    /\ slot' = [slot EXCEPT ![t] = None]
    /\ Goto(t, IF again THEN "flush_again" ELSE "flush")
    /\ UNCHANGED <<offered, tries, slot_vars, mutex, drain, processed,
                   current_slot, write_vars, seek_vars>>

-----------------------------------------------------------------------------
(* SlotDrainer::Flush, in steps, by the thread that holds the mutex        *)

Flush(t) ==
    /\ pc[t] \in {"reserve", "flush", "flush_again", "destroy"}
    /\ mutex = None
    /\ mutex' = t
    /\ drain' = "write"
    /\ processed' = 0
    /\ UNCHANGED <<thread_vars, slot_vars, ring_vars, write_vars, pushed,
                   seek_vars>>

\* Flush returns, whatever the result, and its caller goes on.
Flush_return(t) ==
    /\ mutex' = None
    /\ drain' = "none"
    /\ processed' = 0
    /\ CASE pc[t] = "reserve" ->
              /\ Goto(t, "acquire")
              /\ untouched' = [untouched EXCEPT ![t] =
                                  {s \in Slots : ~in_use[s]}]
              /\ alone' = [alone EXCEPT ![t] = TRUE]
         [] pc[t] = "flush" -> Goto(t, "idle") /\ UNCHANGED seek_vars
         [] pc[t] = "flush_again" -> Goto(t, "reserve") /\ UNCHANGED seek_vars
         [] pc[t] = "destroy" -> Goto(t, "destroyed") /\ UNCHANGED seek_vars

\* The character at a position of the memory the span refers to.
Memory(n) ==
    LET text == IF span.of = "header" THEN header ELSE record[span.slot].payload
    IN  IF n \in DOMAIN text THEN text[n] ELSE Garbage

\* Mutant: after a partial write the span is written from its start again.
Written_again(n) == [i \in 1 .. n |-> Memory(i)]

Written(n) == [i \in 1 .. n |-> Memory(flushed + i)]

\* FlushIntoFile: the file takes the next n characters; none when it would
\* block or fails.
FlushIntoFile(t, n) ==
    /\ mutex = t /\ drain = "write"
    /\ n <= span.size - flushed
    /\ output' = output \o Written(n)
    /\ flushed' = flushed + n
    /\ IF flushed' = span.size
         THEN drain' = "next_span"
              /\ UNCHANGED <<mutex, processed, thread_vars, seek_vars>>
         ELSE Flush_return(t) /\ UNCHANGED <<started, offered, slot, tries>>
    /\ UNCHANGED <<slot_vars, ring_vars, log_record, parsing_phase, header,
                   span, pushed>>

SetSpan(of, text) ==
    /\ span' = [of |-> of, slot |-> log_record, size |-> Len(text)]
    /\ flushed' = 0

\* kReinitialize: header, payload and message are reset.
Reinitialize ==
    /\ parsing_phase' = "header"
    /\ header' = <<>>
    /\ record' = [record EXCEPT ![log_record].payload = <<>>]
    /\ log_record' = None
    /\ UNCHANGED <<span, flushed>>

\* GetNextSpan and SetSpan: the header, the payload, then the clean-up.
MoreSpansAvailableAndLoaded(t) ==
    /\ mutex = t /\ drain = "next_span"
    /\ \/ /\ log_record = None
          /\ drain' = "release"
          /\ UNCHANGED <<record, log_record, parsing_phase, header, span,
                         flushed>>
       \/ /\ log_record # None /\ parsing_phase = "header"
          /\ parsing_phase' = "payload"
          /\ SetSpan("header", header)
          /\ drain' = "write"
          /\ UNCHANGED <<record, log_record, header>>
       \/ /\ log_record # None /\ parsing_phase = "payload"
          /\ parsing_phase' = "reinitialize"
          /\ record' = [record EXCEPT ![log_record].payload =
                                          Put(@, NewLine)]
          /\ SetSpan("payload", record'[log_record].payload)
          /\ drain' = "write"
          /\ UNCHANGED <<log_record, header>>
       \/ /\ log_record # None /\ parsing_phase = "reinitialize"
          /\ Reinitialize
          /\ drain' = "release"
    /\ UNCHANGED <<thread_vars, claimed_sequence, in_use, mutex, processed,
                   ring_vars, output, pushed, seek_vars>>

\* Mutant: the slot at the front of the ring is released, not current_slot_.
ReleaseSlot_front ==
    /\ current_slot' = None
    /\ in_use' = IF current_slot = None THEN in_use
                 ELSE [in_use EXCEPT ![ring[IF size = 0 THEN current_slot
                                            ELSE head]] = FALSE]

ReleaseSlot ==
    /\ current_slot' = None
    /\ in_use' = IF current_slot = None THEN in_use
                 ELSE [in_use EXCEPT ![ring[current_slot]] = FALSE]

\* The slot is flushed: it is released, and Flush ends at the limit.
SlotFlushed(t) ==
    /\ mutex = t /\ drain = "release"
    /\ ReleaseSlot
    /\ IF processed > Limit
         THEN Flush_return(t)
         ELSE /\ processed' = processed + 1
              /\ drain' = "next_slot"
              /\ UNCHANGED <<mutex, pc, seek_vars>>
    /\ UNCHANGED <<started, offered, slot, tries, claimed_sequence, record,
                   ring, head, size, write_vars, pushed>>

Empty == size = 0

\* The oldest slot of the ring becomes the current one.
MoreSlotsAvailableAndLoaded(t) ==
    /\ mutex = t /\ drain = "next_slot"
    /\ IF Empty
         THEN Flush_return(t)
              /\ UNCHANGED <<head, size, current_slot, log_record,
                             parsing_phase, header>>
         ELSE /\ current_slot' = head
              /\ head' = (head + 1) % BufferSize
              /\ size' = size - 1
              /\ log_record' = ring[head]
              /\ header' = header \o Header(record[ring[head]])
              /\ parsing_phase' = "header"
              /\ drain' = "write"
              /\ UNCHANGED <<mutex, processed, pc, seek_vars>>
    /\ UNCHANGED <<started, offered, slot, tries, slot_vars, ring, span,
                   flushed, output, pushed>>

\* The recorder is destroyed when no thread logs any more.
Destroy(t) ==
    /\ \A u \in Threads : pc[u] = "idle"
    /\ Goto(t, "destroy")
    /\ UNCHANGED <<started, offered, slot, tries, slot_vars, mutex, drain,
                   processed, ring_vars, write_vars, pushed, seek_vars>>

Drain(t) ==
    \/ \E n \in 0 .. span.size - flushed : FlushIntoFile(t, n)
    \/ MoreSpansAvailableAndLoaded(t)
    \/ SlotFlushed(t)
    \/ MoreSlotsAvailableAndLoaded(t)

\* The steps a thread takes inside a call of the recorder.
Proceed(t) ==
    \/ Flush(t)
    \/ Drain(t)
    \/ AcquireSlotToWrite(t)
    \/ AcquireSlot_try(t)
    \/ StartRecord_fill(t)

Alive == \A u \in Threads : pc[u] \notin {"destroy", "destroyed"}

Next ==
    \E t \in Threads :
        \/ Alive /\ StartRecord(t)
        \/ Proceed(t)
        \/ Log(t)
        \/ \E again \in BOOLEAN : StopRecord(t, again)
        \/ Destroy(t)

Spec == Init /\ [][Next]_vars

-----------------------------------------------------------------------------
(* Properties                                                              *)

Labels == {"idle", "reserve", "acquire", "try_use", "fill", "record", "flush",
           "flush_again", "destroy", "destroyed"}

Entries == Threads \X (1 .. MaxRecords)

Chars == {<<"entry", m>> : m \in Entries}
         \cup {<<"num_of_args", n>> : n \in 0 .. MaxArgs}
         \cup {<<"argument", m, n>> : m \in Entries, n \in 1 .. MaxArgs}
         \cup {NewLine}

IsText(text) == \A i \in DOMAIN text : text[i] \in Chars

\* Every variable has its type, and nothing is read outside of a payload:
\* the file never receives memory that is not part of a text.
TypeOK ==
    /\ pc \in [Threads -> Labels]
    /\ started \in [Threads -> 0 .. MaxRecords]
    /\ offered \in [Threads -> 0 .. MaxArgs]
    /\ slot \in [Threads -> Slots \cup {None}]
    /\ tries \in [Threads -> 0 .. NumSlots]
    /\ claimed_sequence \in Slots
    /\ in_use \in [Slots -> BOOLEAN]
    /\ DOMAIN record = Slots
    /\ \A s \in Slots : Len(record[s].payload) <= PayloadSize
    /\ mutex \in Threads \cup {None}
    /\ drain \in {"none", "write", "next_span", "release", "next_slot"}
    /\ processed \in 0 .. Limit + 1
    /\ ring \in [Places -> Slots \cup {None}]
    /\ head \in Places /\ size \in 0 .. BufferSize
    /\ current_slot \in Places \cup {None}
    /\ log_record \in Slots \cup {None}
    /\ parsing_phase \in {"header", "payload", "reinitialize"}
    /\ IsText(header)
    /\ span.of \in {None, "header", "payload"} /\ flushed \in 0 .. span.size
    /\ span.slot \in Slots \cup {None}
    /\ IsText(output)
    /\ untouched \in [Threads -> SUBSET Slots]
    /\ alone \in [Threads -> BOOLEAN]

\* Where a slot is held: by the threads that make a record in it, by the
\* places of the ring, by the place current_slot_ refers to.
Holders(s) ==
    {<<"thread", t>> : t \in {u \in Threads : slot[u] = s
                                    /\ pc[u] \in {"fill", "record"}}}
    \cup {<<"ring", p>> : p \in {q \in Places : ring[q] = s
                           /\ \E i \in 0 .. size - 1 :
                                  q = (head + i) % BufferSize}}
    \cup {<<"current", p>> : p \in {q \in {current_slot} \ {None} :
                                        ring[q] = s}}

\* A slot is in use exactly when one holder has it, and it never has two: no
\* two threads write into one record, no record is written to the file while
\* a thread still changes it, and no slot is lost.  This rests on the
\* compare-and-exchange in Slot::TryUse, on context_mutex_, and on the popped
\* place of the ring still holding the slot when current_slot_ is released.
SlotsAccounted ==
    \A s \in Slots : Cardinality(Holders(s)) = IF in_use[s] THEN 1 ELSE 0

\* The file holds the records in the order in which they were handed over,
\* each one whole and none twice, up to the character the file has accepted
\* so far, whatever thread drains them and wherever the file blocks or fails
\* (SlotDrainer::TryFlushSlots, NonBlockingWriter::FlushIntoFile).
OutputInOrder ==
    /\ Len(output) <= Len(pushed)
    /\ \A n \in DOMAIN output : output[n] = pushed[n]

\* AcquireSlotToWrite of a thread that no other thread disturbs fails only
\* when no slot was free all along: it has tried every one.
FreeSlotFound ==
    [][\A t \in Threads :
           pc[t] = "acquire" /\ pc'[t] = "idle" /\ alone[t]
               => untouched[t] = {}]_vars

\* A thread inside a call of the recorder.
Inside(t) == pc[t] \notin {"idle", "record", "destroyed"}

\* No call of the recorder blocks for ever, even if the file never accepts
\* a character again and all the slots stay in use: the loop over the slots
\* and the drainer's loops are bounded and the mutex is always given back.
CallsReturn == \A t \in Threads : Inside(t) ~> ~Inside(t)

\* Threads are scheduled and the mutex is fair: a thread in a call takes its
\* next step; one that waits for the mutex gets it.  Nothing is assumed of
\* the file, nor that a thread ever starts, extends or stops a record.
Fairness ==
    \A t \in Threads :
        /\ WF_vars(Drain(t) \/ AcquireSlotToWrite(t) \/ AcquireSlot_try(t)
                   \/ StartRecord_fill(t))
        /\ SF_vars(Flush(t))

FairSpec == Spec /\ Fairness
=============================================================================
