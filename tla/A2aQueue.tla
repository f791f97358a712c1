------------------------------ MODULE A2aQueue ------------------------------
(***************************************************************************)
(* What the queue between the board-to-board callback and the thread of a  *)
(* file source promises, without ring, mutex or condition variable: the    *)
(* buffers lent by the A2A library are played in the order they came, each *)
(* is given back exactly once, a buffer is refused only when Capacity of   *)
(* them wait, and one that waits is taken in the end.                      *)
(***************************************************************************)
EXTENDS Naturals, Sequences

CONSTANTS Buffers,     \* receive buffers of the A2A library
          Capacity,    \* how many may wait
          NoBuffer     \* no buffer

VARIABLES broken,      \* the library's rules were broken: nothing is promised any more
          arrived,     \* the buffer in the hands of the callback, or NoBuffer
          queue,       \* the buffers that wait, the oldest first
          playing      \* the buffer whose frames are being played, or NoBuffer

vars == <<broken, arrived, queue, playing>>

Waiting == {queue[i] : i \in 1..Len(queue)}

Init == broken = FALSE /\ arrived = NoBuffer /\ queue = <<>> /\ playing = NoBuffer

\* The library hands over a buffer that nobody has.
Arrive(b) ==
  /\ ~broken
  /\ arrived = NoBuffer
  /\ b \notin Waiting \cup {playing}
  /\ arrived' = b
  /\ UNCHANGED <<broken, queue, playing>>

Push ==
  /\ ~broken
  /\ arrived # NoBuffer
  /\ Len(queue) < Capacity
  /\ queue' = Append(queue, arrived)
  /\ arrived' = NoBuffer
  /\ UNCHANGED <<broken, playing>>

\* The buffer goes back to the library, unplayed.
Refuse ==
  /\ ~broken
  /\ arrived # NoBuffer
  /\ Len(queue) = Capacity
  /\ arrived' = NoBuffer
  /\ UNCHANGED <<broken, queue, playing>>

Take ==
  /\ ~broken
  /\ playing = NoBuffer
  /\ queue # <<>>
  /\ playing' = Head(queue)
  /\ queue' = Tail(queue)
  /\ UNCHANGED <<broken, arrived>>

\* All its frames are played: the buffer goes back to the library.
Finish ==
  /\ ~broken
  /\ playing # NoBuffer
  /\ playing' = NoBuffer
  /\ UNCHANGED <<broken, arrived, queue>>

\* A buffer is used or given back that was given back before.
Break == ~broken /\ broken' = TRUE /\ UNCHANGED <<arrived, queue, playing>>

Next == (\E b \in Buffers : Arrive(b)) \/ Push \/ Refuse \/ Take \/ Finish \/ Break

Spec == Init /\ [][Next]_vars /\ WF_vars(Take) /\ WF_vars(Finish)
=============================================================================
