----------------------------- MODULE MCRtspTalker -----------------------------
(***************************************************************************)
(* A client that does everything right and some things wrong: a request of *)
(* two pieces, one the buffer has no room for, a text with an error, a     *)
(* stream that is not there, a session that is not its own, or not yet.    *)
(***************************************************************************)
EXTENDS RtspTalker

Request(m, size, bad, s, known, transport) ==
  [method |-> m, size |-> size, bad |-> bad, session |-> s,
   known |-> known, transport |-> transport]

MCRequests ==
  { Request("OPTIONS", 1, FALSE, 0, TRUE, "TCP"),
    Request("OPTIONS", 3, FALSE, 0, TRUE, "TCP"),
    Request("DESCRIBE", 1, FALSE, 0, TRUE, "TCP"),
    Request("DESCRIBE", 1, FALSE, 0, FALSE, "TCP"),
    Request("SETUP", 2, FALSE, 0, TRUE, "TCP"),
    Request("SETUP", 1, FALSE, 0, TRUE, "UDP"),
    Request("PLAY", 1, FALSE, 1, TRUE, "TCP"),
    Request("PLAY", 1, FALSE, 2, TRUE, "TCP"),
    Request("PLAY", 1, TRUE, 1, TRUE, "TCP"),
    Request("TEARDOWN", 1, FALSE, 1, TRUE, "TCP"),
    Request("TEARDOWN", 1, FALSE, 2, TRUE, "TCP"),
    Request("RTCP", 2, FALSE, 0, TRUE, "TCP"),
    Request("RTCP", 3, TRUE, 0, TRUE, "TCP") }

(* For safety, all but one that DESCRIBE stands for.                       *)
MCManyRequests == {r \in MCRequests : r.method = "OPTIONS" => r.size > 1}

(* For liveness, one of each kind.                                         *)
MCFewRequests ==
  {r \in MCRequests : /\ r.known /\ r.session < 2 /\ ~(r.bad /\ r.method = "RTCP")
                      /\ r.method = "SETUP" => r.transport = "UDP"}

(* To see a packet: no more than it takes.                                 *)
MCPlayRequests == {r \in MCFewRequests : r.size = 1 /\ ~r.bad}
===============================================================================
