----------------------------- MODULE RtspDialogue -----------------------------
(***************************************************************************)
(* What the server promises a client on one RTSP connection, whatever      *)
(* happens inside: "The sequence number is used to pair requests and       *)
(* reply" (lib/rtsp/rtsp_server.dox:131).  A request is answered with its  *)
(* own CSeq, at most once and in the order of asking; an error reply never *)
(* goes back behind a reply already sent; after the connection was closed  *)
(* there are no more replies.                                              *)
(***************************************************************************)
EXTENDS Naturals

CONSTANT MaxRequests      (* bound: requests of one connection             *)

VARIABLES
  asked,       (* requests asked so far; their CSeqs are 1 .. asked        *)
  answered,    (* the highest CSeq of a reply sent                         *)
  reply,       (* the last reply sent; odd tells two equal ones apart      *)
  open         (* is the connection open                                   *)

dialogueVars == << asked, answered, reply, open >>

(* A request without CSeq, or that is not understood, is answered with 0.  *)
Reply(n, ok, odd) == [cseq |-> n, ok |-> ok, odd |-> odd]

DialogueInit ==
  /\ asked    = 0
  /\ answered = 0
  /\ reply    = Reply(0, TRUE, FALSE)
  /\ open     = TRUE

Asks ==
  /\ asked < MaxRequests
  /\ asked' = asked + 1
  /\ UNCHANGED << answered, reply, open >>

Answers(n) ==
  /\ open
  /\ answered < n
  /\ reply'    = Reply(n, TRUE, ~reply.odd)
  /\ answered' = n
  /\ UNCHANGED << asked, open >>

Refuses(n) ==
  /\ open
  /\ n = 0 \/ answered <= n
  /\ reply'    = Reply(n, FALSE, ~reply.odd)
  /\ answered' = IF n = 0 THEN answered ELSE n
  /\ UNCHANGED << asked, open >>

Closes ==
  /\ open' = FALSE
  /\ UNCHANGED << asked, answered, reply >>

DialogueNext ==
  \/ Asks
  \/ \E n \in 1 .. asked : Answers(n)
  \/ \E n \in 0 .. asked : Refuses(n)
  \/ Closes

DialogueSpec == DialogueInit /\ [][DialogueNext]_dialogueVars
===============================================================================
