---------------------------- MODULE SnapshotProofs ----------------------------
(***************************************************************************)
(* Proofs about SnapshotChannel, for any number of requests.               *)
(*                                                                         *)
(* ReleasedOnce and RightAnswer speak of the pointer and of what is sent;  *)
(* what makes them true is the account of all answers: each is in one      *)
(* place, and one that is not where a well-behaved exchange has it comes   *)
(* after a request that was given up.                                      *)
(***************************************************************************)
EXTENDS SnapshotChannel, TLAPS

(* The answers the camera still owes, or whose buffers are not released.   *)
Answers == outstanding \cup held \cup ({arriving} \ {Null})

(* A request no later than x was given up.                                 *)
Late(x) == \E a \in abandoned : a <= x

OnePlace ==
  /\ outstanding \cap held = {}
  /\ arriving \notin outstanding \cup held

(* An answer to an earlier request, or to one that is over, is late.       *)
OldAreLate ==
  \A x \in Answers : x <= id /\ (x # id \/ pc \in {"idle", "clear"} => Late(x))

(* Between the request and its end the pointer is the way to its buffer,   *)
(* and once something is being sent the answer does not come any more.     *)
ReachedOrLate ==
  /\ pc = "ask" => id \notin Answers
  /\ InHand /\ id \in held /\ buffer # id => Late(id)
  /\ pc \in {"reply", "release", "free"} /\ id \in outstanding \cup {arriving} => Late(id)

Pointer == buffer # Null /\ pc # "clear" => buffer \in held
Shown == pc = "reply" => shown \in held

IInv == TypeOK /\ OnePlace /\ OldAreLate /\ ReachedOrLate /\ Pointer /\ Shown

LEMMA IdsAreNumbers == Ids \subseteq Nat /\ Null \notin Ids /\ MaxRequests \in Nat
BY RequestAssumption DEF Ids

LEMMA InitStep == Init => IInv
<1> SUFFICES ASSUME Init PROVE IInv
  OBVIOUS
<1>1. Answers = {}
  BY DEF Init, Answers
<1>2. TypeOK
  BY DEF Init, TypeOK
<1>3. OnePlace /\ OldAreLate /\ Pointer /\ Shown
  BY <1>1 DEF Init, OnePlace, OldAreLate, Pointer, Shown
<1>4. ReachedOrLate
  BY <1>1 DEF Init, ReachedOrLate, InHand
<1> QED BY <1>2, <1>3, <1>4 DEF IInv

(* A request is a new number, and a request is made when none runs.        *)
LEMMA RequestIs ==
  ASSUME TypeOK, NEW k, Request(k)
  PROVE  /\ pc = "idle" /\ id' \in Ids /\ id' = id + 1 /\ kind' = k
         /\ UNCHANGED <<fatal, shown, arriving, held, abandoned>>
<1>1. id \in 0..MaxRequests
  BY RequestAssumption DEF TypeOK, Ids
<1> QED BY <1>1, RequestAssumption DEF Request, Ids

LEMMA TypeStep == TypeOK /\ [Next]_vars => TypeOK'
<1> SUFFICES ASSUME TypeOK, [Next]_vars PROVE TypeOK'
  OBVIOUS
<1> USE DEF thread, sdk
<1>1. CASE Prepare
  <2>1. id' \in Ids /\ kind' = "snapshot" /\ UNCHANGED <<fatal, shown, arriving, held, abandoned>>
    BY <1>1, RequestIs DEF Prepare
  <2> QED BY <1>1, <2>1 DEF Prepare, TypeOK
<1>2. ASSUME NEW k \in {"raw", "text"}, AskRaw(k) PROVE TypeOK'
  <2>1. id' \in Ids /\ kind' = k /\ UNCHANGED <<fatal, shown, arriving, held, abandoned>>
    BY <1>2, RequestIs DEF AskRaw
  <2>2. /\ pc' \in {"waiting", "idle"} /\ wait' \in BOOLEAN /\ buffer' \in Ids \cup {Null}
        /\ outstanding' \subseteq Ids
    BY <1>2, <2>1 DEF AskRaw, TypeOK
  <2> QED BY <2>1, <2>2 DEF TypeOK
<1>3. CASE AskSnapshot \/ Wake \/ TimeOut
  BY <1>3 DEF AskSnapshot, Wake, TimeOut, TypeOK
<1>4. CASE CheckBuffer \/ ReadFails
  BY <1>4 DEF CheckBuffer, ReadFails, GiveUp, TypeOK
<1>5. CASE ReadPayload \/ Reply \/ ReplyFails
  BY <1>5 DEF ReadPayload, Reply, ReplyFails, GiveUp, TypeOK
<1>6. CASE Release \/ Free \/ Clear
  BY <1>6 DEF Release, Free, Clear, TypeOK
<1>7. CASE Store \/ StoreFails
  BY <1>7 DEF Store, StoreFails, TypeOK
<1>8. ASSUME NEW a \in outstanding, Arrive(a) \/ Lose(a) PROVE TypeOK'
  BY <1>8 DEF Arrive, Lose, TypeOK
<1>9. CASE UNCHANGED vars
  BY <1>9 DEF vars, TypeOK
<1> QED BY <1>1, <1>2, <1>3, <1>4, <1>5, <1>6, <1>7, <1>8, <1>9 DEF Next, Proceed, Callback

(* The answers change as the buffers and the camera do.                    *)
LEMMA Kept ==
  ASSUME IInv, UNCHANGED <<sdk, held, abandoned, id, pc, buffer, shown>>
  PROVE  (OnePlace /\ OldAreLate /\ ReachedOrLate /\ Pointer /\ Shown)'
<1> USE DEF sdk
<1>1. Answers' = Answers
  BY DEF Answers
<1>2. \A x : Late(x)' = Late(x)
  BY DEF Late
<1> QED BY <1>1, <1>2 DEF IInv, OnePlace, OldAreLate, ReachedOrLate, Pointer, Shown, InHand

Holds == OnePlace /\ OldAreLate /\ ReachedOrLate /\ Pointer /\ Shown

LEMMA HoldsStep == IInv /\ [Next]_vars => Holds'
<1> SUFFICES ASSUME IInv, [Next]_vars PROVE Holds'
  OBVIOUS
<1> USE DEF thread, sdk
<1>0. /\ TypeOK /\ OnePlace /\ OldAreLate /\ ReachedOrLate /\ Pointer /\ Shown
      /\ Answers \subseteq Ids /\ Ids \subseteq Nat /\ Null \notin Ids /\ id \in Nat
      /\ Answers \subseteq Nat /\ \A x \in Answers : x <= id
  <2>1. TypeOK /\ OnePlace /\ OldAreLate /\ ReachedOrLate /\ Pointer /\ Shown
    BY DEF IInv
  <2>2. Ids \subseteq Nat /\ Null \notin Ids
    BY IdsAreNumbers
  <2>3. Answers \subseteq Ids
    BY <2>1 DEF TypeOK, Answers
  <2>4. id \in Nat
    BY <2>1, <2>2 DEF TypeOK
  <2> QED BY <2>1, <2>2, <2>3, <2>4 DEF OldAreLate
<1>l. \A x, y \in Nat : x <= y /\ Late(x) => Late(y)
  BY <1>0 DEF Late, TypeOK
<1>m. ASSUME abandoned \subseteq abandoned' PROVE \A x : Late(x) => Late(x)'
  BY <1>m DEF Late
<1>1. ASSUME NEW k, Request(k), outstanding' = outstanding \/ outstanding' = outstanding \cup {id'},
             pc' = "ask" => outstanding' = outstanding,
             pc' \in {"idle", "ask", "waiting"}, buffer' \in {buffer, Null},
             pc' = "idle" => outstanding' = outstanding
      PROVE  Holds'
  <2>1. /\ pc = "idle" /\ id' = id + 1 /\ UNCHANGED <<arriving, held, abandoned, shown>>
    BY <1>1, <1>0, RequestIs
  <2>2. id' \notin Answers /\ id' \in Nat /\ id' # Null
    BY <1>0, <1>1, <2>1, RequestIs
  <2>3. \A x \in Answers : x <= id' /\ Late(x)' /\ x # id'
    BY <1>0, <1>m, <2>1, <2>2 DEF OldAreLate
  <2>4. Answers' = Answers \/ (Answers' = Answers \cup {id'} /\ pc' = "waiting")
    BY <1>1, <2>1 DEF Answers
  <2>5. OldAreLate'
    BY <2>2, <2>3, <2>4 DEF OldAreLate
  <2>6. OnePlace'
    BY <1>0, <1>1, <2>1, <2>2 DEF OnePlace, Answers
  <2>7. ReachedOrLate'
    BY <1>0, <1>1, <2>1, <2>2, <2>4 DEF ReachedOrLate, Answers, InHand
  <2>8. Pointer' /\ Shown'
    BY <1>0, <1>1, <2>1 DEF Pointer, Shown
  <2> QED BY <2>5, <2>6, <2>7, <2>8 DEF Holds
<1>2. CASE Prepare
  <2>1. Request("snapshot") /\ outstanding' = outstanding /\ pc' \in {"ask", "idle"} /\ buffer' = Null
    BY <1>2 DEF Prepare
  <2> QED BY <1>1, <2>1
<1>3. ASSUME NEW k \in {"raw", "text"}, AskRaw(k) PROVE Holds'
  <2>1. /\ Request(k) /\ pc' \in {"waiting", "idle"} /\ buffer' \in {buffer, Null}
        /\ outstanding' = outstanding \/ (pc' = "waiting" /\ outstanding' = outstanding \cup {id'})
    BY <1>3 DEF AskRaw
  <2> QED BY <1>1, <2>1
<1>4. CASE AskSnapshot
  <2>1. /\ pc = "ask" /\ UNCHANGED <<id, buffer, shown, arriving, held, abandoned>>
        /\ \/ pc' = "waiting" /\ outstanding' = outstanding \cup {id}
           \/ pc' = "idle" /\ outstanding' = outstanding
    BY <1>4 DEF AskSnapshot
  <2>2. id \notin Answers /\ id # Null
    BY <1>0, <2>1 DEF ReachedOrLate, TypeOK
  <2>3. \A x \in Answers : x <= id /\ Late(x)' /\ x # id
    BY <1>0, <1>m, <2>1, <2>2 DEF OldAreLate
  <2>4. Answers' = Answers \/ (Answers' = Answers \cup {id} /\ pc' = "waiting")
    BY <2>1 DEF Answers
  <2>5. OldAreLate'
    <3>1. \A x \in Answers' : x <= id' /\ (x # id' \/ pc' \in {"idle", "clear"} => Late(x)')
      <4>1. id' = id /\ id \in Nat
        BY <1>0, <2>1
      <4> QED BY <2>3, <2>4, <4>1
    <3> QED BY <3>1 DEF OldAreLate
  <2>6. OnePlace'
    BY <1>0, <2>1, <2>2 DEF OnePlace, Answers
  <2>7. ReachedOrLate'
    BY <1>0, <2>1, <2>2 DEF ReachedOrLate, Answers, InHand
  <2>8. Pointer' /\ Shown'
    BY <1>0, <2>1 DEF Pointer, Shown
  <2> QED BY <2>5, <2>6, <2>7, <2>8 DEF Holds
<1>5. CASE Wake \/ TimeOut \/ ReadPayload \/ Reply \/ (CheckBuffer /\ buffer # Null)
  <2>1. /\ UNCHANGED <<outstanding, arriving, held, abandoned, id, buffer>>
        /\ pc' \notin {"idle", "ask", "clear"}
        /\ pc \in {"waiting", "check", "read", "reply"}
    BY <1>5 DEF Wake, TimeOut, ReadPayload, Reply, CheckBuffer
  <2>2. Answers' = Answers /\ \A x : Late(x)' = Late(x)
    BY <2>1 DEF Answers, Late
  <2>3. OnePlace' /\ OldAreLate'
    BY <1>0, <2>1, <2>2 DEF OnePlace, OldAreLate
  <2>4. Pointer' /\ Shown'
    BY <1>0, <1>5, <2>1 DEF Pointer, Shown, Wake, TimeOut, ReadPayload, Reply, CheckBuffer
  <2>5. pc' \in {"reply", "release", "free"} /\ id \in outstanding \cup {arriving} => Late(id)
    <3>1. CASE ReadPayload /\ id \in outstanding \cup {arriving}
      <4>1. buffer \in held /\ buffer # id
        BY <1>0, <3>1 DEF Pointer, OnePlace, ReadPayload
      <4>2. buffer \in Answers /\ buffer <= id /\ Late(buffer)
        BY <1>0, <4>1 DEF Answers, OldAreLate
      <4> QED BY <1>0, <1>l, <4>2
    <3>2. CASE ~ReadPayload
      BY <1>0, <1>5, <3>2 DEF ReachedOrLate, Wake, TimeOut, Reply, CheckBuffer
    <3> QED BY <3>1, <3>2
  <2>6. ReachedOrLate'
    BY <1>0, <2>1, <2>2, <2>5 DEF ReachedOrLate, InHand
  <2> QED BY <2>3, <2>4, <2>6 DEF Holds
<1>6. CASE (CheckBuffer /\ buffer = Null) \/ ReadFails \/ ReplyFails
  <2>1. /\ UNCHANGED <<outstanding, arriving, held, id, buffer>>
        /\ pc' = "idle" /\ abandoned' = abandoned \cup {id}
        /\ pc \in {"check", "read", "reply"}
    BY <1>6 DEF CheckBuffer, ReadFails, ReplyFails, GiveUp
  <2>2. Answers' = Answers
    BY <2>1 DEF Answers
  <2>3. Late(id)' /\ \A x : Late(x) => Late(x)'
    BY <1>0, <1>m, <2>1 DEF Late
  <2>4. OnePlace' /\ OldAreLate'
    BY <1>0, <2>1, <2>2, <2>3 DEF OnePlace, OldAreLate
  <2>5. Pointer' /\ Shown' /\ ReachedOrLate'
    BY <1>0, <2>1 DEF Pointer, Shown, ReachedOrLate, InHand
  <2> QED BY <2>4, <2>5 DEF Holds
<1>7. CASE Release
  <2>1. /\ UNCHANGED <<outstanding, arriving, held, id, buffer, abandoned>>
        /\ pc = "release" /\ pc' = IF buffer = Null THEN "idle" ELSE "free"
    BY <1>7 DEF Release
  <2>2. Answers' = Answers /\ \A x : Late(x)' = Late(x)
    BY <2>1 DEF Answers, Late
  <2>3. buffer = Null /\ id \in Answers => Late(id)
    <3>1. ASSUME buffer = Null, id \in Answers PROVE buffer # id
      BY <1>0, <3>1
    <3> QED BY <1>0, <2>1, <3>1 DEF ReachedOrLate, Answers, InHand
  <2>4. OnePlace' /\ OldAreLate'
    BY <1>0, <2>1, <2>2, <2>3 DEF OnePlace, OldAreLate
  <2>5. Pointer' /\ Shown' /\ ReachedOrLate'
    BY <1>0, <2>1, <2>2 DEF Pointer, Shown, ReachedOrLate, InHand
  <2> QED BY <2>4, <2>5 DEF Holds
<1>8. CASE Free
  <2>1. /\ UNCHANGED <<outstanding, arriving, id, buffer, abandoned>>
        /\ pc = "free" /\ pc' = "clear" /\ held' = held \ {buffer}
    BY <1>8 DEF Free
  <2>2. Answers' \subseteq Answers /\ \A x : Late(x)' = Late(x)
    BY <2>1 DEF Answers, Late
  <2>3. id \in Answers' => Late(id)
    <3>1. ASSUME id \in Answers'
          PROVE  id \in outstanding \cup {arriving} \/ (id \in held /\ buffer # id)
      BY <2>1, <3>1 DEF Answers
    <3> QED BY <1>0, <2>1, <3>1 DEF ReachedOrLate, InHand
  <2>4. OldAreLate'
    BY <1>0, <2>1, <2>2, <2>3 DEF OldAreLate
  <2>5. OnePlace' /\ Pointer' /\ Shown' /\ ReachedOrLate'
    BY <1>0, <2>1 DEF OnePlace, Pointer, Shown, ReachedOrLate, InHand
  <2> QED BY <2>4, <2>5 DEF Holds
<1>9. CASE Clear
  <2>1. /\ UNCHANGED <<outstanding, arriving, held, id, abandoned>>
        /\ pc = "clear" /\ pc' = "idle" /\ buffer' = Null
    BY <1>9 DEF Clear
  <2>2. Answers' = Answers /\ \A x : Late(x)' = Late(x)
    BY <2>1 DEF Answers, Late
  <2>3. OnePlace' /\ OldAreLate'
    BY <1>0, <2>1, <2>2 DEF OnePlace, OldAreLate
  <2>4. Pointer' /\ Shown' /\ ReachedOrLate'
    BY <1>0, <2>1 DEF Pointer, Shown, ReachedOrLate, InHand
  <2> QED BY <2>3, <2>4 DEF Holds
<1>10. ASSUME NEW a \in outstanding, Arrive(a) PROVE Holds'
  <2>1. /\ arriving = Null /\ arriving' = a /\ outstanding' = outstanding \ {a} /\ buffer' = Null
        /\ UNCHANGED <<held, id, abandoned, pc, shown>> /\ a \in Ids
    BY <1>0, <1>10 DEF Arrive, TypeOK
  <2>2. Answers' = Answers /\ \A x : Late(x)' = Late(x)
    BY <1>0, <2>1 DEF Answers, Late
  <2>3. OldAreLate'
    BY <1>0, <2>1, <2>2 DEF OldAreLate
  <2>4. OnePlace'
    BY <1>0, <2>1 DEF OnePlace
  <2>5. InHand /\ id \in held => Late(id)
    <3> SUFFICES ASSUME InHand, id \in held PROVE Late(id)
      OBVIOUS
    <3>1. a \in Answers /\ a # id
      BY <1>0 DEF OnePlace, Answers
    <3>2. a <= id /\ Late(a) /\ a \in Nat
      BY <1>0, <3>1 DEF OldAreLate
    <3> QED BY <1>0, <1>l, <3>2
  <2>6. ReachedOrLate'
    BY <1>0, <2>1, <2>2, <2>5 DEF ReachedOrLate, InHand
  <2>7. Pointer' /\ Shown'
    BY <1>0, <2>1 DEF Pointer, Shown
  <2> QED BY <2>3, <2>4, <2>6, <2>7 DEF Holds
<1>11. CASE Store
  <2>1. /\ arriving # Null /\ arriving' = Null /\ buffer' = arriving /\ held' = held \cup {arriving}
        /\ UNCHANGED <<outstanding, id, abandoned, pc, shown>>
    BY <1>11 DEF Store
  <2>2. Answers' = Answers /\ \A x : Late(x)' = Late(x)
    BY <2>1 DEF Answers, Late
  <2>3. OldAreLate'
    BY <1>0, <2>1, <2>2 DEF OldAreLate
  <2>4. OnePlace'
    BY <1>0, <2>1 DEF OnePlace, TypeOK
  <2>5. arriving # id => Late(id)
    <3> SUFFICES ASSUME arriving # id PROVE Late(id)
      OBVIOUS
    <3>1. arriving \in Answers
      BY <2>1 DEF Answers
    <3>2. arriving <= id /\ Late(arriving) /\ arriving \in Nat
      BY <1>0, <3>1 DEF OldAreLate
    <3> QED BY <1>0, <1>l, <3>2
  <2>6. ReachedOrLate'
    BY <1>0, <2>1, <2>2, <2>5 DEF ReachedOrLate, InHand
  <2>7. Pointer' /\ Shown'
    BY <1>0, <2>1 DEF Pointer, Shown
  <2> QED BY <2>3, <2>4, <2>6, <2>7 DEF Holds
<1>12. ASSUME StoreFails \/ \E a \in outstanding : Lose(a) PROVE Holds'
  <2>1. /\ outstanding' \subseteq outstanding /\ arriving' \in {arriving, Null}
        /\ UNCHANGED <<held, id, abandoned, pc, shown, buffer>>
    BY <1>12 DEF StoreFails, Lose
  <2>2. Answers' \subseteq Answers /\ \A x : Late(x)' = Late(x)
    BY <2>1 DEF Answers, Late
  <2>3. OldAreLate'
    BY <1>0, <2>1, <2>2 DEF OldAreLate
  <2>4. OnePlace'
    BY <1>0, <2>1 DEF OnePlace, TypeOK
  <2>5. pc \in {"reply", "release", "free"} => id # Null
    BY <1>0 DEF TypeOK
  <2>6. ReachedOrLate'
    BY <1>0, <2>1, <2>2, <2>5 DEF ReachedOrLate, InHand
  <2>7. Pointer' /\ Shown'
    BY <1>0, <2>1 DEF Pointer, Shown
  <2> QED BY <2>3, <2>4, <2>6, <2>7 DEF Holds
<1>13. CASE UNCHANGED vars
  BY <1>13, Kept DEF vars, Holds
<1> QED BY <1>2, <1>3, <1>4, <1>5, <1>6, <1>7, <1>8, <1>9, <1>10, <1>11, <1>12, <1>13
        DEF Next, Proceed, Callback, CheckBuffer

(* The account of all answers, from which the properties below follow.     *)
THEOREM AnswersAccounted == Spec => []IInv
<1>1. IInv /\ [Next]_vars => IInv'
  BY TypeStep, HoldsStep DEF IInv, Holds
<1> QED BY InitStep, <1>1, PTL DEF Spec

(* Variables keep their types, requests are numbered, whatever the order in *)
(* which the camera answers.                                                *)
THEOREM TypeCorrect == Spec => []TypeOK
<1>1. IInv => TypeOK
  BY DEF IInv
<1> QED BY <1>1, AnswersAccounted, PTL

(* No buffer is released twice, and none is left while no request was given *)
(* up: an exchange without faults loses nothing.                            *)
THEOREM BuffersReleasedOnce == Spec => []ReleasedOnce
<1>1. IInv => ReleasedOnce
  <2> SUFFICES ASSUME IInv PROVE ReleasedOnce
    OBVIOUS
  <2>1. ASSUME abandoned = {}, NEW x \in held PROVE InHand /\ x = buffer
    <3>1. x \in Answers /\ ~Late(x) /\ ~Late(id)
      BY <2>1 DEF Answers, Late
    <3>2. x = id /\ pc \notin {"idle", "clear", "ask"}
      BY <3>1 DEF IInv, OldAreLate, ReachedOrLate
    <3>3. InHand
      BY <3>2 DEF IInv, TypeOK, InHand
    <3> QED BY <2>1, <3>1, <3>2, <3>3 DEF IInv, ReachedOrLate
  <2> QED BY <2>1 DEF IInv, Pointer, ReleasedOnce
<1> QED BY <1>1, AnswersAccounted, PTL

(* What is sent is not released meanwhile, and is the answer to the request *)
(* unless one was given up before.                                          *)
THEOREM AnswerIsRight == Spec => []RightAnswer
<1>1. IInv => RightAnswer
  <2> SUFFICES ASSUME IInv, pc = "reply" PROVE shown \in held /\ (shown # id => shown < id /\ Late(shown))
    BY DEF RightAnswer, Late
  <2>1. shown \in held /\ shown \in Answers
    BY DEF IInv, Shown, Answers
  <2>2. shown <= id /\ (shown # id => Late(shown))
    BY <2>1 DEF IInv, OldAreLate
  <2>3. shown \in Nat /\ id \in Nat
    BY <2>1, IdsAreNumbers DEF IInv, TypeOK, Ids
  <2> QED BY <2>1, <2>2, <2>3
<1> QED BY <1>1, AnswersAccounted, PTL
=============================================================================
