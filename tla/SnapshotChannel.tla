--------------------------- MODULE SnapshotChannel ---------------------------
(***************************************************************************)
(* Answers of the camera to snapshots and raw commands: the command thread *)
(* of bin/cgi_server (sdk_manager.cpp acquire_snapshot, send_raw_command,  *)
(* release_callback_buffer; cgi_server.cpp run) and the SDK callback       *)
(* (get_frame_from_callback).                                              *)
(*                                                                         *)
(* They share one pointer, _callback_buffer, and a Mutex with a condition, *)
(* _semaphore.  The thread asks the camera and waits, at most sct_timeout; *)
(* the callback puts the answer into the pointer and signals; the thread   *)
(* sends it and releases the buffer.  The pointer is read and written with *)
(* and without the mutex, and an answer may come when nobody waits for it. *)
(*                                                                         *)
(* One command runs at a time, under the lock of the server.  A request is *)
(* a number; so is its answer, and the SDK buffer the answer is in.        *)
(***************************************************************************)
EXTENDS Naturals

CONSTANTS MaxRequests,  \* bound: how many requests are made
          Null          \* no buffer

Ids == 1..MaxRequests
ASSUME RequestAssumption == MaxRequests \in Nat /\ Null \notin Ids

VARIABLES
  pc,           \* where the command thread is
  kind,         \* of the request: a snapshot, a raw command, or a command that
                \*   expects its answer at once, as a text
  id,           \* its number
  buffer,       \* _callback_buffer
  shown,        \* the buffer whose payload is being sent
  wait,         \* Mutex::_wait of _semaphore
  fatal,        \* Server::_fatal_error
  outstanding,  \* answers the SDK has still to deliver
  arriving,     \* the one get_frame_from_callback is storing
  held,         \* buffers of the SDK that are not released
  abandoned     \* history: requests that ended without their buffer released

thread == <<pc, kind, id, fatal>>
sdk == <<outstanding, arriving>>
vars == <<thread, buffer, shown, wait, sdk, held, abandoned>>

\* send_raw_command holds the mutex until it has the payload.
Locked == kind # "snapshot" /\ pc \in {"check", "read"}

\* A mutant of Init: the constructor does not clear the pointer.
InitUnset ==
  /\ pc = "idle" /\ kind = "snapshot" /\ id = 0 /\ fatal = FALSE
  /\ buffer = MaxRequests + 1 /\ shown = Null /\ wait = FALSE
  /\ outstanding = {} /\ arriving = Null /\ held = {} /\ abandoned = {}

Init ==
  /\ pc = "idle" /\ kind = "snapshot" /\ id = 0 /\ fatal = FALSE
  /\ buffer = Null /\ shown = Null /\ wait = FALSE
  /\ outstanding = {} /\ arriving = Null /\ held = {} /\ abandoned = {}

(***************************************************************************)
(* The command thread.                                                     *)
(***************************************************************************)
Request(k) ==
  /\ pc = "idle" /\ id < MaxRequests
  /\ fatal => k = "text"
  /\ id' = id + 1 /\ kind' = k
  /\ UNCHANGED <<fatal, shown, arriving, held, abandoned>>

\* acquire_snapshot forgets the last answer before it takes the mutex, and
\* may fail in a call that prepares the picture.
Prepare ==
  /\ Request("snapshot")
  /\ buffer' = Null
  /\ pc' \in {"ask", "idle"}
  /\ UNCHANGED <<wait, outstanding>>

\* With the mutex, until wait() gives it back.
AskSnapshot ==
  /\ pc = "ask"
  /\ \/ pc' = "waiting" /\ wait' = TRUE /\ outstanding' = outstanding \cup {id}
     \/ pc' = "idle" /\ UNCHANGED <<wait, outstanding>>
  /\ UNCHANGED <<kind, id, fatal, buffer, shown, arriving, held, abandoned>>

\* The camera executes the command and says whether an answer is to follow; if
\* not, its answer is the text of the reply.
AskRaw(k) ==
  /\ Request(k)
  /\ \/ /\ pc' = "waiting" /\ wait' = TRUE /\ buffer' = Null
        /\ outstanding' = outstanding \cup {id'}
     \/ pc' = "idle" /\ buffer' = Null /\ UNCHANGED <<wait, outstanding>>
     \/ pc' = "idle" /\ UNCHANGED <<buffer, wait, outstanding>>

Wake ==
  /\ pc = "waiting" /\ ~wait
  /\ pc' = "check"
  /\ UNCHANGED <<kind, id, fatal, buffer, shown, wait, sdk, held, abandoned>>

\* A mutant of TimeOut: the wait has no timeout.
WaitOn == FALSE /\ UNCHANGED vars

\* The return value of wait() is not looked at.
TimeOut ==
  /\ pc = "waiting"
  /\ pc' = "check"
  /\ UNCHANGED <<kind, id, fatal, buffer, shown, wait, sdk, held, abandoned>>

GiveUp ==
  /\ pc' = "idle"
  /\ abandoned' = abandoned \cup {id}

CheckBuffer ==
  /\ pc = "check"
  /\ IF buffer = Null THEN GiveUp ELSE pc' = "read" /\ UNCHANGED abandoned
  /\ UNCHANGED <<kind, id, fatal, buffer, shown, wait, sdk, held>>

\* A mutant of ReadPayload: the buffer is released before it is sent.
ReleaseAndRead ==
  /\ pc = "read" /\ buffer # Null /\ kind # "text"
  /\ shown' = buffer
  /\ held' = held \ {buffer}
  /\ pc' = "reply"
  /\ UNCHANGED <<kind, id, fatal, buffer, wait, sdk, abandoned>>

\* sdvr_av_buf_payload is given the pointer, which is read again.
ReadPayload ==
  /\ pc = "read" /\ buffer # Null /\ kind # "text"
  /\ shown' = buffer
  /\ pc' = "reply"
  /\ UNCHANGED <<kind, id, fatal, buffer, wait, sdk, held, abandoned>>

\* The pointer is NULL by now, the payload is empty or cannot be had, or none
\* was expected (ipp_command, the reset of the data port): an error is
\* replied, and a reply of type TEXT releases nothing.
ReadFails ==
  /\ pc = "read"
  /\ GiveUp
  /\ UNCHANGED <<kind, id, fatal, buffer, shown, wait, sdk, held>>

Reply ==
  /\ pc = "reply"
  /\ pc' = "release"
  /\ shown' = Null
  /\ UNCHANGED <<kind, id, fatal, buffer, wait, sdk, held, abandoned>>

\* _gateway.reply throws: the server is in reduced state from now on.
ReplyFails ==
  /\ pc = "reply"
  /\ GiveUp
  /\ fatal' = TRUE
  /\ shown' = Null
  /\ UNCHANGED <<kind, id, buffer, wait, sdk, held>>

\* release_callback_buffer reads the pointer, reads it again for the SDK, and
\* clears it.
Release ==
  /\ pc = "release"
  /\ pc' = IF buffer = Null THEN "idle" ELSE "free"
  /\ UNCHANGED <<kind, id, fatal, buffer, shown, wait, sdk, held, abandoned>>

\* A mutant of Free: the pointer is not cleared.
FreeOnly ==
  /\ pc = "free"
  /\ held' = held \ {buffer}
  /\ pc' = "idle"
  /\ UNCHANGED <<kind, id, fatal, buffer, shown, wait, sdk, abandoned>>

Free ==
  /\ pc = "free"
  /\ held' = held \ {buffer}
  /\ pc' = "clear"
  /\ UNCHANGED <<kind, id, fatal, buffer, shown, wait, sdk, abandoned>>

Clear ==
  /\ pc = "clear"
  /\ buffer' = Null
  /\ pc' = "idle"
  /\ UNCHANGED <<kind, id, fatal, shown, wait, sdk, held, abandoned>>

(***************************************************************************)
(* The SDK and its callback.                                               *)
(***************************************************************************)
\* get_frame_from_callback clears the pointer before it takes the mutex.
Arrive(a) ==
  /\ arriving = Null /\ a \in outstanding
  /\ outstanding' = outstanding \ {a}
  /\ arriving' = a
  /\ buffer' = Null
  /\ UNCHANGED <<thread, shown, wait, held, abandoned>>

\* With the mutex; nobody may be waiting, or another request.
Store ==
  /\ arriving # Null /\ ~Locked
  /\ buffer' = arriving
  /\ held' = held \cup {arriving}
  /\ wait' = FALSE
  /\ arriving' = Null
  /\ UNCHANGED <<thread, shown, outstanding, abandoned>>

\* sdvr_get_stream_buffer fails: that is logged, and the thread woken.
StoreFails ==
  /\ arriving # Null /\ ~Locked
  /\ wait' = FALSE
  /\ arriving' = Null
  /\ UNCHANGED <<thread, buffer, shown, outstanding, held, abandoned>>

\* The camera never answers, or the callback is blocked (the test command).
Lose(a) ==
  /\ a \in outstanding
  /\ outstanding' = outstanding \ {a}
  /\ UNCHANGED <<thread, buffer, shown, wait, arriving, held, abandoned>>

\* What a request does once it is made.
Proceed ==
  \/ AskSnapshot \/ Wake \/ TimeOut \/ CheckBuffer \/ ReadPayload \/ ReadFails
  \/ Reply \/ ReplyFails \/ Release \/ Free \/ Clear

Callback == Store \/ StoreFails

Next ==
  \/ Prepare \/ \E k \in {"raw", "text"} : AskRaw(k)
  \/ Proceed \/ Callback
  \/ \E a \in outstanding : Arrive(a) \/ Lose(a)

\* Nobody has to make requests, and the camera need not answer.
Spec == Init /\ [][Next]_vars /\ WF_vars(Proceed) /\ WF_vars(Callback)

(***************************************************************************)
(* Properties                                                              *)
(***************************************************************************)
TypeOK ==
  /\ pc \in {"idle", "ask", "waiting", "check", "read", "reply", "release", "free", "clear"}
  /\ kind \in {"snapshot", "raw", "text"} /\ id \in Ids \cup {0}
  /\ pc # "idle" => id \in Ids
  /\ fatal \in BOOLEAN /\ wait \in BOOLEAN
  /\ buffer \in Ids \cup {Null} /\ shown \in Ids \cup {Null}
  /\ arriving \in Ids \cup {Null}
  /\ outstanding \subseteq Ids /\ held \subseteq Ids /\ abandoned \subseteq Ids

\* A request has been made of the camera whose answer it will still release.
InHand == pc \in {"waiting", "check", "read", "reply", "release", "free"}

\* "The cgi-front end will call release_callback_buffer() after the buffer is
\* sent to the client" (sdk_manager.cpp 607).  The pointer points to a buffer
\* that is not released, except while it is being released: none is released
\* twice.  And as long as no request was given up, it points to the only one:
\* none is left unreleased, whatever the callback does to the pointer.
ReleasedOnce ==
  /\ buffer # Null /\ pc # "clear" => buffer \in held
  /\ abandoned = {} => held \subseteq (IF InHand THEN {buffer} ELSE {})

\* What is sent is the payload of a buffer nobody releases meanwhile, although
\* the callback may clear or replace the pointer; and it is the answer to this
\* request unless an earlier one was given up, whose answer came late.
RightAnswer ==
  pc = "reply" => /\ shown \in held
                  /\ shown # id => shown < id /\ \E a \in abandoned : a <= shown

\* A request ends whatever the camera does, and the callback never waits for
\* ever for a mutex the command thread holds.
EverythingEnds == (pc # "idle" ~> pc = "idle") /\ (arriving # Null ~> arriving = Null)
=============================================================================
