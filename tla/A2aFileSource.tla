---------------------------- MODULE A2aFileSource ----------------------------
(***************************************************************************)
(* A file of another board, played as a stream: bin/rtsp_server            *)
(* a2a_file_source.cpp and the callback of a2a_communications.cpp.         *)
(*                                                                         *)
(* The thread of the source orders a segment of the file, waits for it,    *)
(* plays the frames that lie wholly in it and orders the segment that      *)
(* begins at the first frame that does not.  The callback of the A2A       *)
(* library pushes arriving segments into an index FIFO; between the two    *)
(* threads there are the indices, read by both without a lock, and a       *)
(* binary semaphore made of a mutex and a condition variable.              *)
(*                                                                         *)
(* A step is one access to something the other thread also uses, or one    *)
(* critical section of the semaphore's mutex.  Positions in the file are   *)
(* in units; a frame is known by the position at which it begins.          *)
(***************************************************************************)
EXTENDS Integers, Sequences, FiniteSets

CONSTANTS Buffers,      \* receive buffers of the A2A library
          NoBuffer,     \* NULL
          Size,         \* A2A_FILE_BUFFER_FIFO_SIZE, a power of two
          Starts,       \* positions at which the frames of the file begin
          FileLen,      \* length of the file
          SegLen,       \* REQUEST_BUF_SIZE without the segment header
          HeaderLen,    \* sizeof(file_buf_header_t)
          MaxStrays     \* segments the peer may send although nobody asked

Ends == (Starts \ {0}) \cup {FileLen}

\* A frame that does not fit into a segment would never be played, and the
\* same segment ordered for ever (see the README).
ASSUME FifoAssumption == Size \in Nat /\ Size >= 2 /\ NoBuffer \notin Buffers
ASSUME FileAssumption ==
  /\ FileLen \in Nat /\ SegLen \in Nat /\ HeaderLen \in Nat /\ MaxStrays \in Nat
  /\ 0 \in Starts /\ Starts \subseteq 0..(FileLen - 1)
  /\ \A s \in Starts : \E e \in Ends : s < e /\ e <= s + SegLen - HeaderLen

VARIABLES
  rd, wr,       \* _index_fifo: _read and _write
  slots,        \* _a2a_buffer_data, the buffers only
  signaled,     \* _data_ready_sem._signaled
  waiting,      \* _data_ready_sem._waiting
  woken,        \* the condition variable was signalled for the sleeper
  pc,           \* where the thread of the source is
  top,          \* _buffer_top
  pos, limit,   \* file positions of _buffer and of the end of its bytes
  next,         \* _next_segment_file_offset
  callback,     \* where push_buffer is
  arrived,      \* its buffer
  offset,       \* phdr->fileOffset of each buffer the library lent
  orders,       \* VRM_FILE_REQ messages the peer has not answered
  strays,       \* how many segments came that nobody ordered
  last,         \* the frame played last, -1 before the first
  spoilt,       \* a segment with a bad header has come
  freed,        \* buffers given back that the program goes on with
  broken        \* one was used or given back again: no more is said

fifo == <<rd, wr, slots>>
semaphore == <<signaled, waiting, woken>>
player == <<pc, top, pos, limit, next, last>>
library == <<offset, strays>>
headers == <<spoilt, freed, broken>>
vars == <<fifo, semaphore, player, callback, arrived, library, orders, headers>>

\* The buffers in the hands of the program: those a2a_buffer_free has yet to be
\* called for, and those of freed.
lent == DOMAIN offset

Min2(a, b) == IF a < b THEN a ELSE b

\* A mutant of After: the index is not masked.
AfterUnmasked(i) == i + 1

\* IndexFifo: the mask is Size - 1, so & _mask is modulo Size.
After(i) == (i + 1) % Size
Empty == rd = wr
\* A mutant of Full: the slot that keeps a full ring from looking empty is used.
NeverFull == FALSE

Full == rd = After(wr)
NumIn == (wr - rd) % Size

\* How far a segment of the peer reaches, and whether it is the last one,
\* which has S7_FILE_END_FLAG set.  segmentLen does not count the header: the
\* callback of the library compares it with the size less the header.
SegmentEnd(o) == Min2(o + SegLen, FileLen)
AtEnd(o) == SegmentEnd(o) = FileLen

\* _have_bytes in next_frame() is segmentLen less the header, so the player
\* stops short of the end of the segment by as much.
PlayedEnd(o) == SegmentEnd(o) - HeaderLen

\* The end of the frame at p.
FrameEnd(p) == CHOOSE e \in Ends : p < e /\ \A f \in Ends : p < f => e <= f

\* A mutant of NextOffset: the frame is counted before it is seen to be cut.
NextOffsetTooFar(o) ==
  IF AtEnd(o) THEN 0 ELSE CHOOSE e \in Ends : /\ e > SegmentEnd(o)
                                             /\ \A f \in Ends : f > SegmentEnd(o) => e <= f

\* get_next_fileOffset: 0 after the last segment, or else the end of the last
\* frame that is whole.
NextOffset(o) ==
  IF AtEnd(o) THEN 0
  ELSE CHOOSE e \in Ends \cup {o} :
         /\ e <= SegmentEnd(o)
         /\ \A f \in Ends : f <= SegmentEnd(o) => f <= e

HasFrame == top # NoBuffer /\ pos < limit /\ FrameEnd(pos) <= limit

\* The frames between frame p and frame q of the file, which is played in a loop.
Between(p, q) ==
  {f \in Starts : IF p < q THEN p < f /\ f < q ELSE p < f \/ f < q}

\* A frame that lies in a segment but ends where the player no longer looks.
CutOff(f) ==
  \E o \in Starts : o <= f /\ PlayedEnd(o) < FrameEnd(f) /\ FrameEnd(f) <= SegmentEnd(o)

\* The slots from the oldest segment to the newest, and their indices.
Used == {i \in 0..(Size - 1) : (i - rd) % Size < NumIn}
Queued == [i \in 1..NumIn |-> slots[(rd + i - 1) % Size]]

Init ==
  /\ rd = 0 /\ wr = 0 /\ slots = [i \in 0..(Size - 1) |-> NoBuffer]
  /\ signaled = FALSE /\ waiting = FALSE /\ woken = FALSE
  /\ pc = "start" /\ top = NoBuffer /\ pos = 0 /\ limit = 0 /\ next = 0
  /\ callback = "idle" /\ arrived = NoBuffer
  /\ offset = [b \in {} |-> 0]
  /\ orders = <<>> /\ strays = 0 /\ last = -1
  /\ spoilt = FALSE /\ freed = {} /\ broken = FALSE

(***************************************************************************)
(* The peer and the library.                                               *)
(***************************************************************************)
Deliver(b, o) ==
  /\ callback = "idle"
  /\ b \notin lent
  /\ offset' = [x \in lent \cup {b} |-> IF x = b THEN o ELSE offset[x]]
  /\ arrived' = b
  /\ callback' = "check"
  /\ UNCHANGED <<fifo, semaphore, player>>

GoodHeader == UNCHANGED headers

\* A wrong magic number or a wrong length: a2a_file_buf_recv_callback gives the
\* buffer back and, as the branch has no return, pushes it all the same.
BadHeader(b) ==
  /\ spoilt' = TRUE
  /\ freed' = freed \cup {b}
  /\ UNCHANGED broken

\* The peer answers the oldest order.
Answer(b) ==
  /\ ~broken
  /\ orders # <<>>
  /\ Deliver(b, Head(orders))
  /\ orders' = Tail(orders)
  /\ GoodHeader \/ BadHeader(b)
  /\ UNCHANGED strays

\* The peer repeats a segment or sends one that nobody ordered.
Stray(b) ==
  /\ ~broken
  /\ strays < MaxStrays
  /\ strays' = strays + 1
  /\ \E o \in Starts : Deliver(b, o)
  /\ GoodHeader \/ BadHeader(b)
  /\ UNCHANGED orders

\* What a step does that breaks the rules of the library: nothing is known
\* about the program after it.
Break ==
  /\ broken' = TRUE
  /\ UNCHANGED <<fifo, semaphore, player, callback, arrived, library, orders, freed>>

Comes == callback = "idle" /\ (orders # <<>> \/ strays < MaxStrays)

\* Magic number and length are wrong and the callback gives the buffer back
\* twice, or fileIndex is and it pushes to a source that does not exist.
BadTwice ==
  /\ ~broken
  /\ Comes /\ lent # Buffers
  /\ spoilt' = TRUE
  /\ Break

\* The library lends a buffer it was given back and that is still queued.
LendFreed == ~broken /\ Comes /\ freed # {} /\ Break /\ UNCHANGED spoilt

\* a2a_buffer_free; of NULL it is never called.
Free(b) == offset' = [x \in lent \ {b} |-> offset[x]]

(***************************************************************************)
(* The callback: A2aFileSource::push_buffer.                               *)
(***************************************************************************)
\* A mutant of PushOverflow: the early return forgets a2a_buffer_free.
PushForgets ==
  /\ callback = "check" /\ Full
  /\ arrived' = NoBuffer
  /\ callback' = "idle"
  /\ UNCHANGED <<fifo, semaphore, player, library, orders, headers>>

PushOverflow ==
  /\ callback = "check" /\ Full
  /\ arrived \notin freed
  /\ Free(arrived)
  /\ arrived' = NoBuffer
  /\ callback' = "idle"
  /\ UNCHANGED <<fifo, semaphore, player, strays, orders, headers>>

\* The early return of an overflow, for a buffer given back before.
RefuseFreed ==
  /\ callback = "check" /\ Full
  /\ arrived \in freed
  /\ Break
  /\ UNCHANGED spoilt

PushStore ==
  /\ callback = "check" /\ ~Full
  /\ slots' = [slots EXCEPT ![wr] = arrived]
  /\ callback' = "advance"
  /\ UNCHANGED <<rd, wr, semaphore, player, arrived, library, orders, headers>>

AdvanceWrite ==
  /\ callback = "advance"
  /\ wr' = IF Full THEN wr ELSE After(wr)
  /\ arrived' = NoBuffer
  /\ callback' = "post"
  /\ UNCHANGED <<rd, slots, semaphore, player, library, orders, headers>>

\* A mutant of Post: nobody is woken.
PostOnly ==
  /\ callback = "post"
  /\ signaled' = TRUE
  /\ callback' = "idle"
  /\ UNCHANGED <<fifo, waiting, woken, player, arrived, library, orders, headers>>

\* BinarySemaphore::post, inside the mutex.
Post ==
  /\ callback = "post"
  /\ signaled' = TRUE
  /\ callback' = IF waiting THEN "signal" ELSE "idle"
  /\ UNCHANGED <<fifo, waiting, woken, player, arrived, library, orders, headers>>

\* A mutant of Signal: it does not reach the sleeper.
SignalLost ==
  /\ callback = "signal"
  /\ callback' = "idle"
  /\ UNCHANGED <<fifo, semaphore, player, arrived, library, orders, headers>>

\* BinarySemaphore::post, after the mutex: nothing happens if nobody sleeps.
Signal ==
  /\ callback = "signal"
  /\ woken' = (pc = "asleep")
  /\ callback' = "idle"
  /\ UNCHANGED <<fifo, signaled, waiting, player, arrived, library, orders, headers>>

(***************************************************************************)
(* The thread of the source: play_file and next_frame.                     *)
(***************************************************************************)
Order(o) == orders' = Append(orders, o)

\* play_file: the first segment is ordered.
Start ==
  /\ pc = "start"
  /\ next' = 0
  /\ Order(0)
  /\ pc' = "frames"
  /\ UNCHANGED <<fifo, semaphore, top, pos, limit, last, callback, arrived, library, headers>>

PlayFrame ==
  /\ pc = "frames" /\ HasFrame
  /\ last' = pos
  /\ pos' = FrameEnd(pos)
  /\ UNCHANGED <<fifo, semaphore, pc, top, limit, next, callback, arrived, library, orders, headers>>

FreeBuffer ==
  /\ pc = "frames" /\ ~HasFrame
  /\ Free(top)
  /\ top' = NoBuffer
  /\ pc' = "look"
  /\ UNCHANGED <<fifo, semaphore, pos, limit, next, last, callback, arrived, strays, orders, headers>>

\* get_read, in both of its places.
Look ==
  /\ pc = "look"
  /\ pc' = IF Empty THEN "wait" ELSE "read"
  /\ UNCHANGED <<fifo, semaphore, top, pos, limit, next, last, callback, arrived, library, orders, headers>>

\* A mutant of WaitLoop: pthread_cond_wait without a look at _signaled.
WaitBlindly ==
  /\ signaled' = FALSE /\ waiting' = TRUE /\ woken' = FALSE
  /\ pc' = IF pc = "wait" THEN "asleep" ELSE "look"
  /\ UNCHANGED <<fifo, top, pos, limit, next, last, callback, arrived, library, orders, headers>>

\* The loop of BinarySemaphore::wait, inside the mutex: it leaves the loop or
\* goes to sleep, which gives the mutex back.
WaitLoop ==
  /\ IF signaled
     THEN signaled' = FALSE /\ waiting' = FALSE /\ pc' = "look"
     ELSE signaled' = FALSE /\ waiting' = TRUE /\ pc' = "asleep"
  /\ woken' = FALSE
  /\ UNCHANGED <<fifo, top, pos, limit, next, last, callback, arrived, library, orders, headers>>

Wait == pc = "wait" /\ WaitLoop
Wake == pc = "asleep" /\ woken /\ WaitLoop
\* pthread_cond_wait may return although nobody signalled.
SpuriousWake == pc = "asleep" /\ ~woken /\ WaitLoop

TakeSlot ==
  /\ pc = "read"
  /\ top' = slots[rd]
  /\ pc' = "advance"
  /\ UNCHANGED <<fifo, semaphore, pos, limit, next, last, callback, arrived, library, orders, headers>>

AdvanceRead ==
  /\ pc = "advance"
  /\ rd' = IF Empty THEN rd ELSE After(rd)
  /\ pc' = "order"
  /\ UNCHANGED <<wr, slots, semaphore, top, pos, limit, next, last, callback, arrived, library, orders, headers>>

\* A mutant of OrderNext: after a segment that was not expected none is ordered.
OrderIfExpected ==
  /\ pc = "order"
  /\ next' = NextOffset(offset[top])
  /\ IF NumIn = 0 /\ offset[top] = next THEN Order(next') ELSE UNCHANGED orders
  /\ pos' = offset[top]
  /\ limit' = PlayedEnd(offset[top])
  /\ pc' = "frames"
  /\ UNCHANGED <<fifo, semaphore, top, last, callback, arrived, library, headers>>

\* A segment that is not the one expected is only reported.
OrderNext ==
  /\ pc = "order"
  /\ top \notin freed
  /\ next' = NextOffset(offset[top])
  /\ IF NumIn = 0 THEN Order(next') ELSE UNCHANGED orders
  /\ pos' = offset[top]
  /\ limit' = PlayedEnd(offset[top])
  /\ pc' = "frames"
  /\ UNCHANGED <<fifo, semaphore, top, last, callback, arrived, library, headers>>

\* The player reads the header of a buffer given back before.
PlayFreed ==
  /\ pc = "order"
  /\ top \in freed
  /\ Break
  /\ UNCHANGED spoilt

Player ==
  /\ ~broken
  /\ \/ Start \/ PlayFrame \/ FreeBuffer \/ Look \/ Wait \/ Wake
     \/ TakeSlot \/ AdvanceRead \/ OrderNext \/ PlayFreed

Callback ==
  /\ ~broken
  /\ \/ PushOverflow \/ RefuseFreed \/ PushStore \/ AdvanceWrite
     \/ Post \/ Signal

Next ==
  \/ Player \/ Callback
  \/ ~broken /\ SpuriousWake
  \/ \E b \in Buffers : Answer(b) \/ Stray(b)
  \/ BadTwice \/ LendFreed

\* Both threads run when they can, and the peer answers what it is asked.
Steps == Init /\ [][Next]_vars
Spec ==
  /\ Steps
  /\ WF_vars(Player) /\ WF_vars(Callback) /\ WF_vars(\E b \in Buffers : Answer(b))

(***************************************************************************)
(* Properties                                                              *)
(***************************************************************************)
TypeOK ==
  /\ rd \in 0..(Size - 1) /\ wr \in 0..(Size - 1)
  /\ slots \in [0..(Size - 1) -> Buffers \cup {NoBuffer}]
  /\ signaled \in BOOLEAN /\ waiting \in BOOLEAN /\ woken \in BOOLEAN
  /\ pc \in {"start", "frames", "look", "wait", "asleep", "read", "advance", "order"}
  /\ top \in Buffers \cup {NoBuffer}
  /\ pos \in 0..FileLen /\ limit \in -HeaderLen..FileLen
  /\ next \in Starts /\ last \in Starts \cup {-1}
  /\ callback \in {"idle", "check", "advance", "post", "signal"}
  /\ arrived \in Buffers \cup {NoBuffer}
  /\ lent \subseteq Buffers /\ offset \in [lent -> Starts]
  /\ orders \in Seq(Starts) /\ strays \in 0..MaxStrays
  /\ spoilt \in BOOLEAN /\ freed \subseteq Buffers /\ broken \in BOOLEAN

\* The buffer of the segment being played; TakeSlot has a second pointer to one
\* that is still in its slot.
Held == IF pc = "advance" THEN NoBuffer ELSE top

\* Every buffer the library lent is in exactly one place: with the callback, in
\* one slot of the FIFO, or with the player; none is lost (_buffer_top,
\* push_buffer overflow).  As long as the header of every segment is good, none
\* is given back twice or used after that, whatever else the peer sends; the
\* error branches of a2a_file_buf_recv_callback are what it needs for both.
Accounted ==
  /\ lent = ({arrived, Held} \cup {slots[i] : i \in Used}) \ {NoBuffer}
  /\ arrived = Held => arrived = NoBuffer
  /\ \A i \in Used : /\ slots[i] \notin {arrived, Held, NoBuffer}
                     /\ \A j \in Used : slots[i] = slots[j] => i = j
  /\ ~spoilt => freed = {} /\ ~broken

\* The player does not sleep over a segment: if it sleeps, unsignalled, while
\* one waits, then the callback is on its way to wake it.  BinarySemaphore::post
\* reads _waiting inside the mutex and signals outside.
NoLostWakeUp ==
  pc = "asleep" /\ ~woken /\ ~Empty => callback \in {"post", "signal"}

\* Whenever nothing is left to play, the next segment is ordered or on its way:
\* the source never waits for something it did not ask for (num_in() == 0), no
\* matter what else the peer sends; and a peer that sends only what it is asked
\* for is asked for one segment at a time, so the FIFO cannot overflow.
AlwaysOrdered ==
  LET coming == Len(orders) + NumIn + (IF arrived = NoBuffer THEN 0 ELSE 1)
  IN /\ pc \in {"frames", "look", "wait", "asleep", "read", "advance"} => coming >= 1
     /\ strays = 0 => coming <= 1

\* A step that plays a frame, which is last'.
Plays == pc = "frames" /\ pos' # pos

\* The frames go out in the order of the file, across segments that end in the
\* middle of a frame and across the end of the file, as long as the peer sends
\* only what it is asked for.  What is left out is at most the frames at the end
\* of a segment that _have_bytes (a2a_file_source.cpp 247) cuts off.
FramesInOrder ==
  [][ Plays /\ strays = 0 =>
        IF last = -1 THEN last' = 0 ELSE \A f \in Between(last, last') : CutOff(f) ]_vars

\* What _have_bytes is declared to be, "how many bytes left in buffer"
\* (a2a_file_source.h 125), would mean: every frame of the file is played.
EveryFrame ==
  [][ Plays /\ strays = 0 /\ last # -1 => Between(last, last') = {} ]_vars

\* The ring with its semaphore is the bounded queue of A2aQueue, and keeps its
\* promise that a segment pushed is played (IndexFifo, BinarySemaphore).
Queue == INSTANCE A2aQueue WITH
           Capacity <- Size - 1,
           queue <- Queued,
           playing <- Held

QueueSteps == Queue!Init /\ [][Queue!Next]_(Queue!vars)
ImplementsQueue == Queue!Spec

\* The stream goes on: again and again a frame is played, unless a segment with
\* a bad header made the program use a buffer it had given back.
PlaysOn == []<>(pc = "frames" /\ HasFrame) \/ <>broken
=============================================================================
