------------------------- MODULE A2aFileSourceProofs -------------------------
(***************************************************************************)
(* Theorems about the queue of a board-to-board file source                *)
(* (A2aFileSource): for any number of buffers, any size of the ring, any   *)
(* file whose frames fit into segments and any number of strays.           *)
(***************************************************************************)
EXTENDS A2aFileSource, WellFoundedInduction, TLAPS

Slot == 0..(Size - 1)

(* The ring as an operator of its indices, so that what is said of it can  *)
(* be used before and after a step.                                        *)
Distance(r, w) == (w - r) % Size
UsedOf(r, w) == {i \in Slot : Distance(r, i) < Distance(r, w)}
Content(s, r, w) == [i \in 1..Distance(r, w) |-> s[(r + i - 1) % Size]]

--------------------------------------------------------------------------------
(* Arithmetic of the ring.                                                 *)

LEMMA AfterIs ==
  ASSUME NEW i \in Slot
  PROVE  /\ After(i) = IF i = Size - 1 THEN 0 ELSE i + 1
         /\ After(i) \in Slot
<1>1. After(i) = IF i = Size - 1 THEN 0 ELSE i + 1
  BY FifoAssumption DEF After, Slot
<1> QED BY <1>1, FifoAssumption DEF Slot

LEMMA DistanceIs ==
  ASSUME NEW r \in Slot, NEW w \in Slot
  PROVE  /\ Distance(r, w) = IF w >= r THEN w - r ELSE w - r + Size
         /\ Distance(r, w) \in Slot
<1>1. Distance(r, w) = IF w >= r THEN w - r ELSE w - r + Size
  BY FifoAssumption DEF Distance, Slot
<1> QED BY <1>1, FifoAssumption DEF Slot

(* advance_write makes the slot of the index it leaves the newest one.     *)
LEMMA WriteUses ==
  ASSUME NEW r \in Slot, NEW w \in Slot, r # After(w)
  PROVE  /\ w \notin UsedOf(r, w)
         /\ UsedOf(r, After(w)) = UsedOf(r, w) \cup {w}
         /\ Distance(r, After(w)) = Distance(r, w) + 1
<1>1. w \notin UsedOf(r, w)
  BY DistanceIs, FifoAssumption DEF UsedOf, Slot
<1>2. Distance(r, After(w)) = Distance(r, w) + 1
  <2>1. After(w) \in Slot /\ After(w) = IF w = Size - 1 THEN 0 ELSE w + 1
    BY AfterIs
  <2>2. Distance(r, After(w)) = IF After(w) >= r THEN After(w) - r ELSE After(w) - r + Size
    BY <2>1, DistanceIs
  <2>3. Distance(r, w) = IF w >= r THEN w - r ELSE w - r + Size
    BY DistanceIs
  <2> QED BY <2>1, <2>2, <2>3, FifoAssumption DEF Slot
<1>3. \A i \in Slot : Distance(r, i) = Distance(r, w) => i = w
  <2> TAKE i \in Slot
  <2>1. /\ Distance(r, w) = IF w >= r THEN w - r ELSE w - r + Size
        /\ Distance(r, i) = IF i >= r THEN i - r ELSE i - r + Size
    BY DistanceIs
  <2> QED BY <2>1, FifoAssumption DEF Slot
<1>4. \A i \in Slot : Distance(r, i) < Distance(r, w) + 1
                       <=> Distance(r, i) < Distance(r, w) \/ Distance(r, i) = Distance(r, w)
  <2>1. \A d, e \in Int : d < e + 1 <=> d < e \/ d = e
    OBVIOUS
  <2>2. \A i \in Slot : Distance(r, i) \in Int
    BY DistanceIs, FifoAssumption DEF Slot
  <2> QED BY <2>1, <2>2, Zenon
<1>5. \A i \in Slot : Distance(r, i) < Distance(r, After(w))
                       <=> Distance(r, i) < Distance(r, w) \/ i = w
  BY <1>2, <1>3, <1>4
<1>6. UsedOf(r, After(w)) = UsedOf(r, w) \cup {w}
  BY <1>5 DEF UsedOf
<1> QED BY <1>1, <1>2, <1>6

(* advance_read frees the oldest slot.                                     *)
LEMMA ReadFrees ==
  ASSUME NEW r \in Slot, NEW w \in Slot, r # w
  PROVE  /\ r \in UsedOf(r, w)
         /\ UsedOf(After(r), w) = UsedOf(r, w) \ {r}
         /\ Distance(After(r), w) = Distance(r, w) - 1
         /\ Distance(r, w) >= 1
<1>1. After(r) \in Slot /\ After(r) = IF r = Size - 1 THEN 0 ELSE r + 1
  BY AfterIs
<1>2. \A i \in Slot : i # r => Distance(After(r), i) = Distance(r, i) - 1 /\ Distance(r, i) >= 1
  <2> SUFFICES ASSUME NEW i \in Slot, i # r
               PROVE  Distance(After(r), i) = Distance(r, i) - 1 /\ Distance(r, i) >= 1
    OBVIOUS
  <2>1. /\ Distance(After(r), i) = IF i >= After(r) THEN i - After(r) ELSE i - After(r) + Size
        /\ Distance(r, i) = IF i >= r THEN i - r ELSE i - r + Size
    BY <1>1, DistanceIs
  <2> QED BY <1>1, <2>1, FifoAssumption DEF Slot
<1>3. Distance(r, r) = 0 /\ Distance(After(r), r) = Size - 1
  <2>1. /\ Distance(After(r), r) = IF r >= After(r) THEN r - After(r) ELSE r - After(r) + Size
        /\ Distance(r, r) = IF r >= r THEN r - r ELSE r - r + Size
    BY <1>1, DistanceIs
  <2> QED BY <1>1, <2>1, FifoAssumption DEF Slot
<1>4. r \in UsedOf(r, w)
  BY <1>2, <1>3, DistanceIs DEF UsedOf, Slot
<1>5. UsedOf(After(r), w) = UsedOf(r, w) \ {r}
  <2>1. Distance(After(r), w) \in Slot /\ Distance(r, w) \in Slot
    BY <1>1, DistanceIs
  <2>2. ASSUME NEW i \in Slot
        PROVE  Distance(After(r), i) < Distance(After(r), w)
                 <=> Distance(r, i) < Distance(r, w) /\ i # r
    <3>1. Distance(After(r), i) \in Slot /\ Distance(r, i) \in Slot
      BY <1>1, DistanceIs
    <3>2. CASE i = r
      BY <1>2, <1>3, <2>1, <3>2, FifoAssumption DEF Slot
    <3>3. CASE i # r
      BY <1>2, <2>1, <3>1, <3>3, FifoAssumption DEF Slot
    <3> QED BY <3>2, <3>3
  <2> QED BY <2>2 DEF UsedOf
<1> QED BY <1>2, <1>4, <1>5

(* The ring is full when all its slots but one are used.                   *)
LEMMA FullIs ==
  ASSUME NEW r \in Slot, NEW w \in Slot
  PROVE  /\ r = After(w) <=> Distance(r, w) = Size - 1
         /\ r = w <=> Distance(r, w) = 0
<1>1. After(w) \in Slot /\ After(w) = IF w = Size - 1 THEN 0 ELSE w + 1
  BY AfterIs
<1>2. Distance(r, w) = IF w >= r THEN w - r ELSE w - r + Size
  BY DistanceIs
<1> QED BY <1>1, <1>2, FifoAssumption DEF Slot

(* Where the i-th oldest segment is.                                       *)
LEMMA PlaceIs ==
  ASSUME NEW r \in Slot, NEW i \in 1..(Size - 1)
  PROVE  /\ (r + i - 1) % Size = IF r + i - 1 < Size THEN r + i - 1 ELSE r + i - 1 - Size
         /\ (r + i - 1) % Size \in Slot
<1>1. (r + i - 1) % Size = IF r + i - 1 < Size THEN r + i - 1 ELSE r + i - 1 - Size
  BY FifoAssumption DEF Slot
<1> QED BY <1>1, FifoAssumption DEF Slot

(* What the queue holds, after a slot that is not used was written, after  *)
(* advance_write and after advance_read.                                   *)
LEMMA ContentLength ==
  ASSUME NEW s, NEW r \in Slot, NEW w \in Slot
  PROVE  Len(Content(s, r, w)) = Distance(r, w)
<1>1. Distance(r, w) \in Nat
  BY DistanceIs DEF Slot
<1> QED BY <1>1 DEF Content

LEMMA ContentElement ==
  ASSUME NEW s, NEW r \in Slot, NEW w \in Slot, NEW i \in 1..Distance(r, w)
  PROVE  /\ (r + i - 1) % Size \in UsedOf(r, w)
         /\ Content(s, r, w)[i] = s[(r + i - 1) % Size]
<1>0. Distance(r, w) \in Slot
  BY DistanceIs
<1>1. i \in 1..(Size - 1) /\ i <= Distance(r, w)
  BY <1>0, FifoAssumption DEF Slot
<1>2. /\ (r + i - 1) % Size = IF r + i - 1 < Size THEN r + i - 1 ELSE r + i - 1 - Size
      /\ (r + i - 1) % Size \in Slot
  BY <1>1, PlaceIs
<1>3. Distance(r, (r + i - 1) % Size) =
        IF (r + i - 1) % Size >= r THEN ((r + i - 1) % Size) - r
                                   ELSE ((r + i - 1) % Size) - r + Size
  BY <1>2, DistanceIs
<1>4. Distance(r, (r + i - 1) % Size) = i - 1
  BY <1>1, <1>2, <1>3, FifoAssumption DEF Slot
<1>5. (r + i - 1) % Size \in UsedOf(r, w)
  BY <1>0, <1>1, <1>2, <1>4, FifoAssumption DEF UsedOf, Slot
<1> QED BY <1>5 DEF Content

LEMMA ContentStore ==
  ASSUME NEW s \in [Slot -> Buffers \cup {NoBuffer}], NEW r \in Slot, NEW w \in Slot,
         NEW b, r # After(w)
  PROVE  Content([s EXCEPT ![w] = b], r, w) = Content(s, r, w)
<1>1. \A i \in 1..Distance(r, w) : (r + i - 1) % Size \in Slot /\ (r + i - 1) % Size # w
  <2> TAKE i \in 1..Distance(r, w)
  <2>0. Distance(r, w) \in Slot
    BY DistanceIs
  <2>1. i \in 1..(Size - 1) /\ i <= Distance(r, w)
    BY <2>0, FifoAssumption DEF Slot
  <2>2. /\ (r + i - 1) % Size = IF r + i - 1 < Size THEN r + i - 1 ELSE r + i - 1 - Size
        /\ (r + i - 1) % Size \in Slot
    BY <2>1, PlaceIs
  <2>3. Distance(r, w) = IF w >= r THEN w - r ELSE w - r + Size
    BY DistanceIs
  <2> QED BY <2>1, <2>2, <2>3, FifoAssumption DEF Slot
<1> QED BY <1>1 DEF Content

LEMMA ContentPush ==
  ASSUME NEW s, NEW r \in Slot, NEW w \in Slot, r # After(w)
  PROVE  Content(s, r, After(w)) = Append(Content(s, r, w), s[w])
<1>1. Distance(r, w) \in Nat /\ Distance(r, After(w)) = Distance(r, w) + 1
  BY WriteUses, DistanceIs DEF Slot
<1>2. (r + (Distance(r, w) + 1) - 1) % Size = w
  <2>1. Distance(r, w) = IF w >= r THEN w - r ELSE w - r + Size
    BY DistanceIs
  <2>2. \/ r + (Distance(r, w) + 1) - 1 = w
        \/ r + (Distance(r, w) + 1) - 1 = w + Size
    BY <2>1, FifoAssumption DEF Slot
  <2> QED BY <2>2, FifoAssumption DEF Slot
<1> QED BY <1>1, <1>2 DEF Content

LEMMA ContentTake ==
  ASSUME NEW s, NEW r \in Slot, NEW w \in Slot, r # w
  PROVE  /\ Content(s, r, w) # <<>>
         /\ Head(Content(s, r, w)) = s[r]
         /\ Content(s, After(r), w) = Tail(Content(s, r, w))
<1>1. /\ Distance(r, w) \in Nat /\ Distance(r, w) >= 1
      /\ Distance(After(r), w) = Distance(r, w) - 1
  BY ReadFrees, DistanceIs DEF Slot
<1>2. (r + 1 - 1) % Size = r
  BY FifoAssumption DEF Slot
<1>3. \A i \in 1..(Distance(r, w) - 1) :
         (After(r) + i - 1) % Size = (r + (i + 1) - 1) % Size
  <2> TAKE i \in 1..(Distance(r, w) - 1)
  <2>1. After(r) = IF r = Size - 1 THEN 0 ELSE r + 1
    BY AfterIs
  <2>2. r + (i + 1) - 1 = r + i /\ i < Size
    BY <1>1, DistanceIs, FifoAssumption DEF Slot
  <2> QED BY <2>1, <2>2, FifoAssumption DEF Slot
<1>4. Content(s, r, w) # <<>> /\ Head(Content(s, r, w)) = s[r]
  BY <1>1, <1>2 DEF Content
<1>5. Content(s, After(r), w) = Tail(Content(s, r, w))
  BY <1>1, <1>3 DEF Content
<1> QED BY <1>4, <1>5

--------------------------------------------------------------------------------
(* Positions in the file.                                                  *)

LEMMA LeastPosition ==
  ASSUME NEW T, T \subseteq Nat, T # {}
  PROVE  \E x \in T : \A y \in T : x <= y
<1>1. PICK x \in T : \A y \in T : ~(<< y, x >> \in OpToRel(<, Nat))
  BY WFMin, NatLessThanWellFounded, Zenon
<1>2. ASSUME NEW y \in T PROVE x <= y
  <2>1. ~(y < x)
    BY <1>1 DEF OpToRel
  <2> QED BY <2>1
<1> QED BY <1>2

LEMMA PositionsAre ==
  /\ FileLen \in Nat /\ FileLen > 0 /\ FileLen \in Ends
  /\ \A s \in Starts : s \in Nat /\ s < FileLen
  /\ \A e \in Ends : e \in Nat /\ e <= FileLen /\ (e # FileLen => e \in Starts)
BY FileAssumption DEF Ends

(* The segment that begins at a frame.                                     *)
LEMMA SegmentIs ==
  ASSUME NEW o \in Starts
  PROVE  /\ SegmentEnd(o) \in 0..FileLen
         /\ PlayedEnd(o) \in -HeaderLen..FileLen
         /\ PlayedEnd(o) = SegmentEnd(o) - HeaderLen /\ HeaderLen \in Nat
         /\ o <= SegmentEnd(o)
         /\ AtEnd(o) <=> SegmentEnd(o) = FileLen
BY FileAssumption DEF SegmentEnd, PlayedEnd, AtEnd, Min2

LEMMA FrameEndIs ==
  ASSUME NEW p \in Nat, p < FileLen
  PROVE  /\ FrameEnd(p) \in Ends /\ p < FrameEnd(p)
         /\ \A f \in Ends : p < f => FrameEnd(p) <= f
<1> DEFINE T == {e \in Ends : p < e}
<1>1. T \subseteq Nat /\ T # {}
  <2>1. \A e \in T : e \in Nat
    BY PositionsAre
  <2>2. FileLen \in T
    BY PositionsAre
  <2> QED BY <2>1, <2>2
<1>2. \E e \in T : \A f \in T : e <= f
  <2> HIDE DEF T
  <2> QED BY <1>1, LeastPosition
<1>3. \E e \in Ends : p < e /\ \A f \in Ends : p < f => e <= f
  BY <1>2
<1> QED BY <1>3 DEF FrameEnd

LEMMA NextOffsetIs ==
  ASSUME NEW o \in Starts
  PROVE  /\ NextOffset(o) \in Starts
         /\ AtEnd(o) => NextOffset(o) = 0
         /\ ~AtEnd(o) => /\ NextOffset(o) <= SegmentEnd(o) /\ o <= NextOffset(o)
                         /\ \A f \in Ends : f <= SegmentEnd(o) => f <= NextOffset(o)
<1>1. CASE AtEnd(o)
  BY <1>1, FileAssumption DEF NextOffset
<1>2. CASE ~AtEnd(o)
  <2> DEFINE T == {d \in Nat : \E e \in Ends \cup {o} : e <= SegmentEnd(o) /\ d = SegmentEnd(o) - e}
  <2>1. SegmentEnd(o) \in 0..FileLen /\ o <= SegmentEnd(o) /\ SegmentEnd(o) # FileLen /\ o \in Nat
    BY <1>2, SegmentIs, PositionsAre
  <2>2. SegmentEnd(o) - o \in T
    BY <2>1
  <2>3. PICK d \in T : \A c \in T : d <= c
    <3>1. T \subseteq Nat /\ T # {}
      BY <2>2
    <3> HIDE DEF T
    <3> QED BY <3>1, LeastPosition
  <2>4. PICK e \in Ends \cup {o} : e <= SegmentEnd(o) /\ d = SegmentEnd(o) - e
    BY <2>3
  <2>5. \A f \in Ends \cup {o} : f <= SegmentEnd(o) => f <= e
    <3> TAKE f \in Ends \cup {o}
    <3>1. f \in Nat /\ e \in Nat
      BY <2>1, <2>4, PositionsAre
    <3>2. ASSUME f <= SegmentEnd(o) PROVE SegmentEnd(o) - f \in T
      BY <2>1, <3>1, <3>2
    <3>3. ASSUME f <= SegmentEnd(o) PROVE d <= SegmentEnd(o) - f
      BY <2>3, <3>2, <3>3
    <3> HIDE DEF T
    <3> QED BY <2>1, <2>4, <3>1, <3>3
  <2> HIDE DEF T
  <2>6. \E x \in Ends \cup {o} : /\ x <= SegmentEnd(o)
                                 /\ \A f \in Ends : f <= SegmentEnd(o) => f <= x
    BY <2>4, <2>5
  <2>7. /\ NextOffset(o) \in Ends \cup {o} /\ NextOffset(o) <= SegmentEnd(o)
        /\ \A f \in Ends : f <= SegmentEnd(o) => f <= NextOffset(o)
    BY <1>2, <2>6 DEF NextOffset
  <2>8. NextOffset(o) \in Starts
    <3>1. CASE NextOffset(o) = o
      BY <3>1
    <3>2. CASE NextOffset(o) \in Ends
      <4>1. \A n, m \in Nat : n <= m /\ m <= FileLen /\ m # FileLen => n # FileLen
        BY PositionsAre
      <4>2. NextOffset(o) \in Nat
        BY <3>2, PositionsAre
      <4>3. SegmentEnd(o) \in Nat /\ SegmentEnd(o) <= FileLen
        BY <2>1, PositionsAre
      <4>4. NextOffset(o) # FileLen
        BY <2>1, <2>7, <4>1, <4>2, <4>3
      <4> QED BY <3>2, <4>4, PositionsAre
    <3> QED BY <2>7, <3>1, <3>2
  <2>9. o <= NextOffset(o)
    <3>1. CASE o = 0
      <4>1. NextOffset(o) \in Nat
        BY <2>8, PositionsAre
      <4> QED BY <3>1, <4>1
    <3>2. CASE o # 0
      <4>1. o \in Ends
        BY <3>2 DEF Ends
      <4> QED BY <4>1, <2>1, <2>7
    <3> QED BY <3>1, <3>2
  <2> QED BY <1>2, <2>7, <2>8, <2>9
<1> QED BY <1>1, <1>2

--------------------------------------------------------------------------------
(* The inductive invariant.                                                *)

(* The types; and the player stands at the beginning of a frame.           *)
Typed == TypeOK /\ pos \in Starts \cup {FileLen}

(* What each thread knows at its place, whatever the other one does.       *)
Places ==
  /\ callback \in {"check", "advance"} <=> arrived # NoBuffer
  /\ callback = "advance" => slots[wr] = arrived /\ ~Full
  /\ pc \in {"read", "advance"} => ~Empty
  /\ pc = "advance" => top = slots[rd]
  /\ pc \in {"start", "look", "wait", "asleep", "read"} => top = NoBuffer
  /\ pc = "order" => top # NoBuffer

(* A segment the player has not seen is announced: _signaled is set or will *)
(* be; and once it is set the condition variable is signalled, unless the   *)
(* player comes by itself.                                                  *)
Announced ==
  /\ pc = "asleep" => waiting = TRUE
  /\ pc \in {"wait", "asleep"} /\ ~Empty => signaled = TRUE \/ callback = "post"
  /\ pc = "asleep" /\ signaled = TRUE => woken = TRUE \/ callback = "signal"

(* Accounted in its two parts: where the buffers are, and that nothing but *)
(* a bad header makes the program give one back too early.                 *)
Handed ==
  /\ lent = ({arrived, Held} \cup {slots[i] : i \in Used}) \ {NoBuffer}
  /\ arrived = Held => arrived = NoBuffer
  /\ \A i \in Used : /\ slots[i] \notin {arrived, Held, NoBuffer}
                     /\ \A j \in Used : slots[i] = slots[j] => i = j

HeadersGood == ~spoilt => freed = {} /\ ~broken

IndInv == Typed /\ Places /\ Handed /\ Announced

(* The steps that break the rules of the library.                          *)
Breaks == BadTwice \/ LendFreed \/ RefuseFreed \/ PlayFreed

LEMMA BreaksKeep ==
  Breaks => /\ UNCHANGED <<fifo, semaphore, player, callback, arrived, library, orders, freed>>
            /\ broken' = TRUE
BY DEF Breaks, BadTwice, LendFreed, RefuseFreed, PlayFreed, Break

LEMMA RingIs ==
  /\ NumIn = Distance(rd, wr)
  /\ Used = UsedOf(rd, wr)
  /\ Queued = Content(slots, rd, wr)
BY DEF NumIn, Used, Queued, Distance, UsedOf, Content, Slot

LEMMA InvInit == Init => IndInv
<1> SUFFICES ASSUME Init PROVE IndInv
  OBVIOUS
<1> USE DEF Init
<1>1. Typed
  <2>1. 0 \in 0..(Size - 1) /\ 0 \in 0..FileLen /\ 0 \in -HeaderLen..FileLen /\ 0 \in 0..MaxStrays
    BY FifoAssumption, FileAssumption
  <2>2. 0 \in Starts
    BY FileAssumption
  <2>3. offset \in [lent -> Starts] /\ lent = {}
    BY DEF lent
  <2>4. orders \in Seq(Starts)
    OBVIOUS
  <2>5. slots \in [0..(Size - 1) -> Buffers \cup {NoBuffer}]
    OBVIOUS
  <2>6. /\ rd \in 0..(Size - 1) /\ wr \in 0..(Size - 1)
        /\ pos \in 0..FileLen /\ limit \in -HeaderLen..FileLen /\ strays \in 0..MaxStrays
        /\ next \in Starts /\ last \in Starts \cup {-1} /\ pos \in Starts \cup {FileLen}
    BY <2>1, <2>2
  <2> QED BY <2>3, <2>4, <2>5, <2>6 DEF Typed, TypeOK
<1>2. Places
  BY DEF Places
<1>3. Handed
  <2>1. 0 \in Slot /\ Distance(0, 0) = 0
    BY FifoAssumption DEF Slot, Distance
  <2>2. UsedOf(0, 0) = {}
    BY <2>1, DistanceIs DEF UsedOf, Slot
  <2>3. Used = {} /\ lent = {} /\ Held = NoBuffer
    BY <2>2, RingIs DEF lent, Held
  <2> QED BY <2>3 DEF Handed
<1>4. Announced
  BY DEF Announced, Empty
<1> QED BY <1>1, <1>2, <1>3, <1>4 DEF IndInv

LEMMA TypedStep == IndInv /\ [Next]_vars => Typed'
<1> SUFFICES ASSUME IndInv, [Next]_vars PROVE Typed'
  OBVIOUS
<1> USE DEF IndInv, Typed, TypeOK, lent, fifo, semaphore, player, library, headers, GoodHeader, BadHeader
<1>0. /\ \A i \in Slot : After(i) \in Slot
      /\ \A s \in Starts : s \in Nat /\ s < FileLen
      /\ FileLen \in Nat
  BY AfterIs, PositionsAre
<1>1. ASSUME NEW b \in Buffers, NEW o \in Starts, Deliver(b, o)
      PROVE  /\ offset' \in [DOMAIN offset' -> Starts] /\ DOMAIN offset' \subseteq Buffers
             /\ arrived' \in Buffers /\ callback' = "check"
             /\ UNCHANGED <<fifo, semaphore, player>>
  BY <1>1 DEF Deliver
<1>h. ASSUME NEW b \in Buffers, GoodHeader \/ BadHeader(b)
      PROVE  spoilt' \in BOOLEAN /\ freed' \subseteq Buffers /\ broken' \in BOOLEAN
  BY <1>h
<1>2. ASSUME NEW b \in Buffers, Answer(b) PROVE Typed'
  <2>1. Head(orders) \in Starts /\ orders' \in Seq(Starts) /\ strays' = strays /\ Deliver(b, Head(orders))
    BY <1>2 DEF Answer
  <2>2. spoilt' \in BOOLEAN /\ freed' \subseteq Buffers /\ broken' \in BOOLEAN
    BY <1>2, <1>h DEF Answer
  <2> QED BY <2>1, <2>2, <1>1
<1>3. ASSUME NEW b \in Buffers, Stray(b) PROVE Typed'
  <2>1. PICK o \in Starts : Deliver(b, o)
    BY <1>3 DEF Stray
  <2>2. strays' \in 0..MaxStrays /\ orders' = orders
    <3>1. MaxStrays \in Nat
      BY FileAssumption
    <3>2. strays \in 0..MaxStrays /\ strays < MaxStrays /\ strays' = strays + 1
      BY <1>3 DEF Stray
    <3> QED BY <1>3, <3>1, <3>2 DEF Stray
  <2>3. spoilt' \in BOOLEAN /\ freed' \subseteq Buffers /\ broken' \in BOOLEAN
    BY <1>3, <1>h DEF Stray
  <2> QED BY <2>1, <2>2, <2>3, <1>1
<1>o. ASSUME NEW o \in Starts, Order(o) PROVE orders' \in Seq(Starts)
  BY <1>o DEF Order
<1>4. \A b : Free(b) => offset' \in [DOMAIN offset' -> Starts] /\ DOMAIN offset' \subseteq Buffers
  BY DEF Free
<1>5. CASE PushOverflow
  BY <1>4, <1>5 DEF PushOverflow
<1>6. CASE PushStore
  BY <1>6 DEF PushStore
<1>7. CASE AdvanceWrite
  BY <1>7, <1>0 DEF AdvanceWrite, Slot
<1>8. CASE Post
  BY <1>8 DEF Post
<1>9. CASE Signal
  BY <1>9 DEF Signal
<1>10. CASE Start
  <2>1. 0 \in Starts
    BY FileAssumption
  <2>2. orders' \in Seq(Starts)
    BY <1>10, <2>1, <1>o DEF Start
  <2> QED BY <1>10, <2>1, <2>2 DEF Start
<1>11. CASE PlayFrame
  <2>1. pos \in Nat /\ pos < FileLen
    <3>1. pos \in 0..FileLen /\ limit \in -HeaderLen..FileLen /\ pos < limit /\ FileLen \in Nat
      BY <1>11, <1>0 DEF PlayFrame, HasFrame
    <3>2. HeaderLen \in Nat
      BY FileAssumption
    <3> QED BY <3>1, <3>2
  <2>2. FrameEnd(pos) \in Ends
    BY <2>1, FrameEndIs
  <2>3. FrameEnd(pos) \in 0..FileLen /\ FrameEnd(pos) \in Starts \cup {FileLen} /\ pos \in Starts
    BY <2>1, <2>2, PositionsAre
  <2> QED BY <1>11, <2>3 DEF PlayFrame
<1>12. CASE FreeBuffer
  BY <1>4, <1>12 DEF FreeBuffer
<1>13. CASE Look
  BY <1>13 DEF Look
<1>14. CASE Wait \/ Wake \/ SpuriousWake
  BY <1>14 DEF Wait, Wake, SpuriousWake, WaitLoop
<1>15. CASE TakeSlot
  BY <1>15 DEF TakeSlot
<1>16. CASE AdvanceRead
  BY <1>16, <1>0 DEF AdvanceRead, Slot
<1>17. CASE OrderNext
  <2>1. top \in lent
    <3>1. pc = "order" /\ top # NoBuffer /\ Held = top
      BY <1>17 DEF OrderNext, Places, Held
    <3> QED BY <3>1 DEF Handed
  <2>2. offset[top] \in Starts
    BY <2>1
  <2>3. NextOffset(offset[top]) \in Starts /\ PlayedEnd(offset[top]) \in -HeaderLen..FileLen
    BY <2>2, NextOffsetIs, SegmentIs
  <2>4. orders' \in Seq(Starts)
    <3>1. CASE NumIn = 0
      BY <1>17, <2>3, <3>1, <1>o DEF OrderNext
    <3>2. CASE NumIn # 0
      BY <1>17, <3>2 DEF OrderNext
    <3> QED BY <3>1, <3>2
  <2> QED BY <1>17, <1>0, <2>2, <2>3, <2>4 DEF OrderNext
<1>18. CASE UNCHANGED vars
  BY <1>18 DEF vars
<1>b. CASE Breaks
  <2>1. spoilt' \in BOOLEAN
    BY <1>b DEF Breaks, BadTwice, LendFreed, RefuseFreed, PlayFreed
  <2> QED BY <1>b, <2>1, BreaksKeep
<1> QED
  BY <1>b, <1>2, <1>3, <1>5, <1>6, <1>7, <1>8, <1>9, <1>10, <1>11, <1>12, <1>13, <1>14, <1>15,
     <1>16, <1>17, <1>18 DEF Breaks, Next, Player, Callback

(* No step of the one thread spoils what the other one knows: the writer   *)
(* only makes the queue longer, the reader only shorter.                   *)
LEMMA PlacesStep == IndInv /\ [Next]_vars => Places'
<1> SUFFICES ASSUME IndInv, [Next]_vars PROVE Places'
  OBVIOUS
<1> USE DEF Places, Full, Empty, fifo, semaphore, player, library
<1>0. /\ IndInv
      /\ rd \in Slot /\ wr \in Slot /\ After(rd) \in Slot /\ After(wr) \in Slot
      /\ After(rd) = After(wr) => rd = wr
      /\ After(wr) # wr
      /\ slots \in [Slot -> Buffers \cup {NoBuffer}]
      /\ NoBuffer \notin Buffers
  <2>1. rd \in Slot /\ wr \in Slot /\ slots \in [Slot -> Buffers \cup {NoBuffer}]
    BY DEF IndInv, Typed, TypeOK, Slot
  <2>2. /\ After(rd) = IF rd = Size - 1 THEN 0 ELSE rd + 1
        /\ After(wr) = IF wr = Size - 1 THEN 0 ELSE wr + 1
        /\ After(rd) \in Slot /\ After(wr) \in Slot
    BY <2>1, AfterIs
  <2>3. After(rd) = After(wr) => rd = wr
    BY <2>1, <2>2, FifoAssumption DEF Slot
  <2>4. After(wr) # wr
    BY <2>1, <2>2, FifoAssumption DEF Slot
  <2> QED BY <2>1, <2>2, <2>3, <2>4, FifoAssumption
<1>p. Places
  BY <1>0 DEF IndInv
<1>1. ASSUME NEW b \in Buffers, Answer(b) \/ Stray(b) PROVE Places'
  BY <1>0, <1>p, <1>1 DEF Answer, Stray, Deliver
<1>2. CASE PushOverflow
  BY <1>0, <1>p, <1>2 DEF PushOverflow, Free
<1>3. CASE PushStore
  <2>1. rd # wr => slots'[rd] = slots[rd]
    BY <1>0, <1>3 DEF PushStore
  <2>2. slots'[wr] = arrived
    BY <1>0, <1>3 DEF PushStore
  <2> QED BY <1>0, <1>p, <1>3, <2>1, <2>2 DEF PushStore
<1>4. CASE AdvanceWrite
  BY <1>0, <1>p, <1>4 DEF AdvanceWrite
<1>5. CASE Post
  BY <1>p, <1>5 DEF Post
<1>6. CASE Signal
  BY <1>p, <1>6 DEF Signal
<1>7. CASE Start
  BY <1>p, <1>7 DEF Start, Order
<1>8. CASE PlayFrame
  BY <1>p, <1>8 DEF PlayFrame
<1>9. CASE FreeBuffer
  BY <1>p, <1>9 DEF FreeBuffer, Free
<1>10. CASE Look
  BY <1>p, <1>10 DEF Look
<1>11. CASE Wait \/ Wake \/ SpuriousWake
  <2>1. /\ pc \in {"wait", "asleep"} /\ pc' \in {"look", "asleep"}
        /\ UNCHANGED <<fifo, top, callback, arrived>>
    BY <1>11 DEF Wait, Wake, SpuriousWake, WaitLoop
  <2> QED BY <1>p, <2>1
<1>12. CASE TakeSlot
  BY <1>p, <1>12 DEF TakeSlot
<1>13. CASE AdvanceRead
  <2>1. top # NoBuffer
    <3>1. rd \in Used
      BY <1>0, <1>p, <1>13, ReadFrees, RingIs DEF AdvanceRead
    <3>2. slots[rd] # NoBuffer /\ top = slots[rd]
      BY <1>0, <1>p, <1>13, <3>1 DEF AdvanceRead, IndInv, Handed
    <3> QED BY <3>2
  <2>2. rd' = After(rd) /\ wr' = wr /\ slots' = slots /\ pc' = "order"
        /\ UNCHANGED <<callback, arrived, top>>
    BY <1>p, <1>13 DEF AdvanceRead
  <2>3. rd # wr
    BY <1>p, <1>13 DEF AdvanceRead
  <2> QED BY <1>0, <1>p, <2>1, <2>2, <2>3
<1>14. CASE OrderNext
  BY <1>p, <1>14 DEF OrderNext, Order
<1>15. CASE UNCHANGED vars
  BY <1>p, <1>15 DEF vars
<1>b. CASE Breaks
  BY <1>p, <1>b, BreaksKeep
<1> QED
  BY <1>b, <1>1, <1>2, <1>3, <1>4, <1>5, <1>6, <1>7, <1>8, <1>9, <1>10, <1>11, <1>12, <1>13,
     <1>14, <1>15 DEF Breaks, Next, Player, Callback

(* A buffer moves from place to place, and out of them with Free.          *)
LEMMA HandedStep == IndInv /\ [Next]_vars => Handed'
<1> SUFFICES ASSUME IndInv, [Next]_vars PROVE Handed'
  OBVIOUS
<1> USE DEF fifo, semaphore, player, library
<1>0. /\ rd \in Slot /\ wr \in Slot /\ After(rd) \in Slot /\ After(wr) \in Slot
      /\ slots \in [Slot -> Buffers \cup {NoBuffer}]
      /\ NoBuffer \notin Buffers
      /\ Used = UsedOf(rd, wr) /\ Used' = UsedOf(rd', wr')
      /\ Used \subseteq Slot
  BY AfterIs, FifoAssumption DEF IndInv, Typed, TypeOK, Slot, Used, UsedOf, NumIn, Distance
<1>a. Handed
  BY DEF IndInv
<1>p. Places
  BY DEF IndInv
\* What neither moves a buffer nor frees one.
<1>s. ASSUME UNCHANGED <<fifo, arrived, offset>>, Held' = Held PROVE Handed'
  BY <1>0, <1>a, <1>s DEF Handed, lent
<1>1. ASSUME NEW b \in Buffers, Answer(b) \/ Stray(b) PROVE Handed'
  <2>1. /\ b \notin lent /\ lent' = lent \cup {b} /\ arrived' = b
        /\ UNCHANGED <<fifo, top, pc>> /\ callback = "idle"
    BY <1>1 DEF Answer, Stray, Deliver, lent
  <2>2. arrived = NoBuffer /\ Used' = Used /\ Held' = Held /\ slots' = slots
    BY <1>0, <1>p, <2>1 DEF Places, Held
  <2> QED BY <1>0, <1>a, <2>1, <2>2 DEF Handed
<1>2. CASE PushOverflow
  <2>1. /\ lent' = lent \ {arrived} /\ arrived' = NoBuffer /\ arrived # NoBuffer
        /\ Used' = Used /\ Held' = Held /\ slots' = slots
    BY <1>0, <1>p, <1>2 DEF PushOverflow, Free, lent, Held, Places
  <2> QED BY <1>0, <1>a, <2>1 DEF Handed
<1>3. CASE PushStore
  <2>1. wr \notin Used
    BY <1>0, <1>3, WriteUses DEF PushStore, Full
  <2>2. \A i \in Used : slots'[i] = slots[i]
    BY <1>0, <1>3, <2>1 DEF PushStore
  <2>3. lent' = lent /\ arrived' = arrived /\ Used' = Used /\ Held' = Held
    BY <1>0, <1>3 DEF PushStore, lent, Held
  <2> QED BY <1>a, <2>2, <2>3 DEF Handed
<1>4. CASE AdvanceWrite
  <2>1. wr \notin Used /\ Used' = Used \cup {wr} /\ slots[wr] = arrived /\ arrived # NoBuffer
    BY <1>0, <1>p, <1>4, WriteUses DEF AdvanceWrite, Places, Full
  <2>2. lent' = lent /\ arrived' = NoBuffer /\ Held' = Held /\ slots' = slots
    BY <1>4 DEF AdvanceWrite, lent, Held
  <2> QED BY <1>a, <2>1, <2>2 DEF Handed
<1>5. CASE Post
  BY <1>5, <1>s DEF Post, Held
<1>6. CASE Signal
  BY <1>6, <1>s DEF Signal, Held
<1>7. CASE Start
  BY <1>7, <1>s DEF Start, Order, Held
<1>8. CASE PlayFrame
  BY <1>8, <1>s DEF PlayFrame, Held
<1>9. CASE FreeBuffer
  <2>1. /\ lent' = lent \ {top} /\ Held = top /\ Held' = NoBuffer
        /\ arrived' = arrived /\ Used' = Used /\ slots' = slots
    BY <1>0, <1>9 DEF FreeBuffer, Free, lent, Held
  <2> QED BY <1>0, <1>a, <2>1 DEF Handed
<1>10. CASE Look
  BY <1>10, <1>s DEF Look, Held
<1>11. CASE Wait \/ Wake \/ SpuriousWake
  <2>1. /\ pc \in {"wait", "asleep"} /\ pc' \in {"look", "asleep"}
        /\ UNCHANGED <<fifo, top, offset, arrived>>
    BY <1>11 DEF Wait, Wake, SpuriousWake, WaitLoop
  <2> QED BY <2>1, <1>s DEF Held
<1>12. CASE TakeSlot
  BY <1>p, <1>12, <1>s DEF TakeSlot, Held, Places
<1>13. CASE AdvanceRead
  <2>1. /\ rd \in Used /\ Used' = Used \ {rd} /\ top = slots[rd]
    BY <1>0, <1>p, <1>13, ReadFrees DEF AdvanceRead, Places, Empty
  <2>2. lent' = lent /\ arrived' = arrived /\ slots' = slots /\ Held = NoBuffer /\ Held' = top
    BY <1>13 DEF AdvanceRead, lent, Held
  <2> QED BY <1>a, <2>1, <2>2 DEF Handed
<1>14. CASE OrderNext
  BY <1>14, <1>s DEF OrderNext, Order, Held
<1>15. CASE UNCHANGED vars
  BY <1>15, <1>s DEF vars, Held
<1>b. CASE Breaks
  BY <1>b, <1>s, BreaksKeep DEF Held
<1> QED
  BY <1>b, <1>1, <1>2, <1>3, <1>4, <1>5, <1>6, <1>7, <1>8, <1>9, <1>10, <1>11, <1>12, <1>13,
     <1>14, <1>15 DEF Breaks, Next, Player, Callback

(* Only a bad header makes freed grow, and only a buffer of freed is used   *)
(* too late.                                                               *)
LEMMA HeadersStep == HeadersGood /\ [Next]_vars => HeadersGood'
<1> SUFFICES ASSUME HeadersGood, [Next]_vars, ~spoilt' PROVE freed' = {} /\ ~broken'
  BY DEF HeadersGood
<1> USE DEF headers, HeadersGood
<1>1. ASSUME NEW b \in Buffers, Answer(b) \/ Stray(b) PROVE freed' = {} /\ ~broken'
  BY <1>1 DEF Answer, Stray, GoodHeader, BadHeader
<1>2. CASE Breaks
  BY <1>2 DEF Breaks, BadTwice, LendFreed, RefuseFreed, PlayFreed
<1>3. CASE PushOverflow \/ PushStore \/ AdvanceWrite \/ Post \/ Signal
  BY <1>3 DEF PushOverflow, PushStore, AdvanceWrite, Post, Signal
<1>4. CASE Start \/ PlayFrame \/ FreeBuffer \/ Look \/ Wait \/ Wake \/ SpuriousWake
  BY <1>4 DEF Start, PlayFrame, FreeBuffer, Look, Wait, Wake, SpuriousWake, WaitLoop
<1>5. CASE TakeSlot \/ AdvanceRead \/ OrderNext \/ UNCHANGED vars
  BY <1>5 DEF TakeSlot, AdvanceRead, OrderNext, vars
<1> QED BY <1>1, <1>2, <1>3, <1>4, <1>5 DEF Breaks, Next, Player, Callback

(* Whatever happens between the look at the queue and the wait, the post   *)
(* that belongs to it is still to come or has left its mark.               *)
LEMMA AnnouncedStep == IndInv /\ [Next]_vars => Announced'
<1> SUFFICES ASSUME IndInv, [Next]_vars PROVE Announced'
  OBVIOUS
<1> USE DEF Announced, Empty, fifo, semaphore, player, library
<1>0. Announced /\ waiting \in BOOLEAN /\ signaled \in BOOLEAN /\ woken \in BOOLEAN
  BY DEF IndInv, Typed, TypeOK
<1>1. ASSUME NEW b \in Buffers, Answer(b) \/ Stray(b) PROVE Announced'
  BY <1>0, <1>1 DEF Answer, Stray, Deliver
<1>2. CASE PushOverflow \/ PushStore
  BY <1>0, <1>2 DEF PushOverflow, PushStore
<1>3. CASE AdvanceWrite
  BY <1>0, <1>3 DEF AdvanceWrite
<1>4. CASE Post
  BY <1>0, <1>4 DEF Post
<1>5. CASE Signal
  BY <1>0, <1>5 DEF Signal
<1>6. CASE Start \/ PlayFrame \/ FreeBuffer \/ TakeSlot \/ OrderNext
  BY <1>0, <1>6 DEF Start, PlayFrame, FreeBuffer, TakeSlot, OrderNext
<1>7. CASE Look
  BY <1>0, <1>7 DEF Look
<1>8. CASE Wait \/ Wake \/ SpuriousWake
  <2>1. WaitLoop /\ pc \in {"wait", "asleep"}
    BY <1>8 DEF Wait, Wake, SpuriousWake
  <2>2. CASE signaled = TRUE
    BY <2>1, <2>2 DEF WaitLoop
  <2>3. CASE signaled = FALSE
    BY <1>0, <2>1, <2>3 DEF WaitLoop
  <2> QED BY <1>0, <2>2, <2>3
<1>9. CASE AdvanceRead
  BY <1>0, <1>9 DEF AdvanceRead
<1>10. CASE UNCHANGED vars
  BY <1>0, <1>10 DEF vars
<1>b. CASE Breaks
  BY <1>0, <1>b, BreaksKeep
<1> QED
  BY <1>b, <1>1, <1>2, <1>3, <1>4, <1>5, <1>6, <1>7, <1>8, <1>9, <1>10 DEF Breaks, Next, Player, Callback

--------------------------------------------------------------------------------
(* Orders.                                                                 *)

(* The segments that are ordered, with the callback or in the queue.       *)
Coming == Len(orders) + NumIn + (IF arrived = NoBuffer THEN 0 ELSE 1)

Orders ==
  /\ pc \in {"frames", "look", "wait", "asleep", "read", "advance"} => Coming >= 1
  /\ strays = 0 => Coming <= 1
  /\ pc = "start" => orders = <<>> /\ (strays = 0 => Coming = 0)
  /\ pc = "order" /\ strays = 0 => Coming = 0

LEMMA OrdersStep == IndInv /\ Orders /\ [Next]_vars => Orders'
<1> SUFFICES ASSUME IndInv, Orders, [Next]_vars PROVE Orders'
  OBVIOUS
<1> USE DEF fifo, semaphore, player, library
<1> DEFINE With(b) == IF b = NoBuffer THEN 0 ELSE 1
<1>0. /\ rd \in Slot /\ wr \in Slot /\ orders \in Seq(Starts) /\ strays \in Nat
      /\ NoBuffer \notin Buffers /\ Size \in Nat /\ Size >= 2
      /\ NumIn = Distance(rd, wr) /\ NumIn' = Distance(rd', wr') /\ NumIn \in Nat
  <2>1. rd \in Slot /\ wr \in Slot /\ orders \in Seq(Starts) /\ strays \in 0..MaxStrays
    BY DEF IndInv, Typed, TypeOK, Slot
  <2>2. Distance(rd, wr) \in Nat
    BY <2>1, DistanceIs DEF Slot
  <2> QED BY <2>1, <2>2, FifoAssumption, FileAssumption DEF NumIn, Distance
<1>c. /\ Coming = Len(orders) + NumIn + With(arrived)
      /\ Coming' = Len(orders') + NumIn' + With(arrived')
      /\ Len(orders) \in Nat /\ With(arrived) \in {0, 1} /\ Coming \in Nat
  <2>1. Len(orders) \in Nat
    BY <1>0
  <2> QED BY <1>0, <2>1 DEF Coming
<1>p. Places
  BY DEF IndInv
<1>o. \A o \in Starts : Order(o) => Len(orders') = Len(orders) + 1
  BY <1>0 DEF Order
<1>s. ASSUME UNCHANGED <<rd, wr, orders, arrived>> PROVE Coming' = Coming
  BY <1>0, <1>c, <1>s
<1> HIDE DEF With
<1>1. ASSUME NEW b \in Buffers, Answer(b) PROVE Orders'
  <2>1. orders # <<>> /\ orders' = Tail(orders) /\ strays' = strays /\ pc' = pc
        /\ callback = "idle" /\ arrived' = b /\ rd' = rd /\ wr' = wr
    BY <1>1 DEF Answer, Deliver
  <2>2. Len(orders') = Len(orders) - 1 /\ With(arrived) = 0 /\ With(arrived') = 1
    BY <1>0, <1>p, <2>1 DEF Places, With
  <2>3. Coming' = Coming
    BY <1>0, <1>c, <2>1, <2>2
  <2>4. pc # "start"
    BY <2>1 DEF Orders
  <2> QED BY <2>1, <2>3, <2>4 DEF Orders
<1>2. ASSUME NEW b \in Buffers, Stray(b) PROVE Orders'
  <2>1. orders' = orders /\ strays' = strays + 1 /\ pc' = pc
        /\ callback = "idle" /\ arrived' = b /\ rd' = rd /\ wr' = wr
    BY <1>2 DEF Stray, Deliver
  <2>2. With(arrived) = 0 /\ With(arrived') = 1
    BY <1>0, <1>p, <2>1 DEF Places, With
  <2>3. Coming' = Coming + 1 /\ strays' # 0
    BY <1>0, <1>c, <2>1, <2>2
  <2> QED BY <1>c, <2>1, <2>3 DEF Orders
<1>3. CASE PushOverflow
  <2>1. /\ arrived # NoBuffer /\ arrived' = NoBuffer /\ Full
        /\ UNCHANGED <<rd, wr, orders, pc, strays>>
    BY <1>p, <1>3 DEF PushOverflow, Places
  <2>2. NumIn = Size - 1 /\ NumIn' = NumIn
    BY <1>0, <2>1, FullIs DEF Full
  <2>3. Coming' = Coming - 1 /\ Coming' >= 1
    BY <1>0, <1>c, <2>1, <2>2 DEF With
  <2> QED BY <1>c, <2>1, <2>3 DEF Orders
<1>4. CASE AdvanceWrite
  <2>1. /\ arrived # NoBuffer /\ arrived' = NoBuffer /\ ~Full
        /\ rd' = rd /\ wr' = After(wr) /\ UNCHANGED <<orders, pc, strays>>
    BY <1>p, <1>4 DEF AdvanceWrite, Places
  <2>2. NumIn' = NumIn + 1
    BY <1>0, <2>1, WriteUses DEF Full
  <2>3. Coming' = Coming
    BY <1>0, <1>c, <2>1, <2>2 DEF With
  <2> QED BY <2>1, <2>3 DEF Orders
<1>5. CASE PushStore \/ Post \/ Signal \/ PlayFrame
  BY <1>5, <1>s DEF PushStore, Post, Signal, PlayFrame, Orders
<1>6. CASE FreeBuffer \/ Look \/ TakeSlot
  BY <1>6, <1>s DEF FreeBuffer, Free, Look, TakeSlot, Orders
<1>7. CASE Wait \/ Wake \/ SpuriousWake
  <2>1. /\ pc \in {"wait", "asleep"} /\ pc' \in {"look", "asleep"}
        /\ UNCHANGED <<rd, wr, orders, arrived, strays>>
    BY <1>7 DEF Wait, Wake, SpuriousWake, WaitLoop
  <2> QED BY <2>1, <1>s DEF Orders
<1>8. CASE Start
  <2>1. Len(orders') = Len(orders) + 1 /\ pc = "start" /\ pc' = "frames"
        /\ UNCHANGED <<rd, wr, arrived, strays>>
    BY <1>8, <1>o, FileAssumption DEF Start
  <2>2. Coming' = Coming + 1
    BY <1>0, <1>c, <2>1
  <2> QED BY <1>c, <2>1, <2>2 DEF Orders
<1>9. CASE AdvanceRead
  <2>1. /\ rd # wr /\ rd' = After(rd) /\ pc = "advance" /\ pc' = "order"
        /\ UNCHANGED <<wr, orders, arrived, strays>>
    BY <1>p, <1>9 DEF AdvanceRead, Places, Empty
  <2>2. NumIn' = NumIn - 1
    BY <1>0, <2>1, ReadFrees
  <2>3. Coming' = Coming - 1
    <3>1. Len(orders') = Len(orders) /\ With(arrived') = With(arrived) /\ NumIn \in Nat
      BY <1>0, <2>1
    <3> QED BY <1>c, <2>2, <3>1
  <2> QED BY <1>c, <2>1, <2>3 DEF Orders
<1>10. CASE OrderNext
  <2>1. /\ pc = "order" /\ pc' = "frames" /\ UNCHANGED <<rd, wr, arrived, strays>>
    BY <1>10 DEF OrderNext
  <2>2. next' \in Starts
    BY TypedStep DEF Typed, TypeOK
  <2>3. CASE NumIn = 0
    <3>1. Len(orders') = Len(orders) + 1
      BY <1>10, <1>o, <2>2, <2>3 DEF OrderNext
    <3>2. Coming' = Coming + 1
      BY <1>0, <1>c, <2>1, <3>1
    <3> QED BY <1>c, <2>1, <3>2 DEF Orders
  <2>4. CASE NumIn # 0
    <3>1. orders' = orders
      BY <1>10, <2>4 DEF OrderNext
    <3>2. Coming' = Coming /\ Coming >= 1
      BY <1>0, <1>c, <2>1, <2>4, <3>1
    <3> QED BY <1>c, <2>1, <3>2 DEF Orders
  <2> QED BY <2>3, <2>4
<1>11. CASE UNCHANGED vars
  BY <1>11, <1>s DEF vars, Orders
<1>b. CASE Breaks
  BY <1>b, <1>s, BreaksKeep DEF Orders
<1> QED
  BY <1>b, <1>1, <1>2, <1>3, <1>4, <1>5, <1>6, <1>7, <1>8, <1>9, <1>10, <1>11
     DEF Breaks, Next, Player, Callback

LEMMA OrdersInit == Init => Orders
<1> SUFFICES ASSUME Init PROVE Orders
  OBVIOUS
<1>1. NumIn = 0
  BY FifoAssumption DEF Init, NumIn
<1>2. Coming = 0
  BY <1>1 DEF Init, Coming
<1> QED BY <1>2 DEF Init, Orders

--------------------------------------------------------------------------------
(* The order of the frames.                                                *)

(* Nothing but frames that are cut off lies between the frame played last  *)
(* and position p, where the next one begins.                              *)
Gap(p) == IF last = -1 THEN p = 0 ELSE \A f \in Between(last, p) : CutOff(f)

Playing == pc = "frames" /\ top # NoBuffer

(* As long as there are no strays, the segment that is ordered, arrived,   *)
(* queued or taken is the one expected next, and the player stands in its  *)
(* segment where it left off.                                              *)
FileOrder ==
  strays = 0 =>
    /\ \A i \in 1..Len(orders) : orders[i] = next
    /\ arrived # NoBuffer => offset[arrived] = next
    /\ \A i \in Used : offset[slots[i]] = next
    /\ pc = "order" => offset[top] = next
    /\ pc = "start" => next = 0
    /\ Playing => LET o == offset[top]
                  IN /\ limit = PlayedEnd(o) /\ next = NextOffset(o)
                     /\ o <= pos /\ pos <= SegmentEnd(o)
                     /\ Gap(pos)
    /\ ~Playing => Gap(next)

(* A segment that is played to its end leaves out only what is cut off.    *)
LEMMA SegmentEnds ==
  ASSUME NEW o \in Starts, NEW p \in Starts \cup {FileLen}, NEW l \in Starts \cup {-1},
         o <= p, p <= SegmentEnd(o),
         ~(p < PlayedEnd(o) /\ FrameEnd(p) <= PlayedEnd(o)),
         IF l = -1 THEN p = 0 ELSE \A f \in Between(l, p) : CutOff(f)
  PROVE  IF l = -1 THEN NextOffset(o) = 0
                   ELSE \A f \in Between(l, NextOffset(o)) : CutOff(f)
<1>0. /\ \A s \in Starts : s \in Nat /\ s < FileLen
      /\ \A e \in Ends : e \in Nat /\ e <= FileLen
      /\ p \in Nat /\ FileLen \in Nat /\ FileLen > 0 /\ FileLen \in Ends
      /\ SegmentEnd(o) \in Nat /\ PlayedEnd(o) \in Int /\ PlayedEnd(o) <= SegmentEnd(o)
      /\ SegmentEnd(o) <= FileLen /\ o \in Nat /\ NextOffset(o) \in Starts
  <2>1. SegmentEnd(o) \in 0..FileLen /\ PlayedEnd(o) = SegmentEnd(o) - HeaderLen /\ HeaderLen \in Nat
    BY SegmentIs
  <2> QED BY <2>1, PositionsAre, NextOffsetIs
<1>1. ASSUME NEW f \in Starts, p <= f, AtEnd(o) \/ f < NextOffset(o)
      PROVE  CutOff(f)
  <2>1. /\ FrameEnd(f) \in Ends /\ f < FrameEnd(f)
        /\ \A e \in Ends : f < e => FrameEnd(f) <= e
    BY <1>0, FrameEndIs
  <2>2. p < FileLen
    BY <1>0, <1>1
  <2>3. FrameEnd(p) \in Ends /\ \A e \in Ends : p < e => FrameEnd(p) <= e
    BY <1>0, <2>2, FrameEndIs
  <2>4. FrameEnd(p) <= FrameEnd(f)
    <3>1. FrameEnd(f) \in Nat /\ f \in Nat
      BY <1>0, <2>1
    <3>2. p < FrameEnd(f)
      BY <1>0, <1>1, <2>1, <3>1
    <3> QED BY <2>1, <2>3, <3>2
  <2>5. PlayedEnd(o) < FrameEnd(f)
    <3>1. FrameEnd(f) \in Nat /\ FrameEnd(p) \in Nat /\ f \in Nat
      BY <1>0, <2>1, <2>3
    <3> QED BY <1>0, <1>1, <2>1, <2>4, <3>1
  <2>6. FrameEnd(f) <= SegmentEnd(o)
    <3>1. CASE AtEnd(o)
      BY <1>0, <2>1, <3>1, SegmentIs
    <3>2. CASE ~AtEnd(o)
      <4>1. f < NextOffset(o) /\ NextOffset(o) <= SegmentEnd(o)
        BY <1>1, <3>2, NextOffsetIs
      <4>2. NextOffset(o) \in Ends
        BY <1>0, <4>1 DEF Ends
      <4>3. FrameEnd(f) <= NextOffset(o) /\ FrameEnd(f) \in Nat /\ NextOffset(o) \in Nat
        BY <1>0, <2>1, <4>1, <4>2
      <4> QED BY <1>0, <4>1, <4>3
    <3> QED BY <3>1, <3>2
  <2>7. o <= f
    BY <1>0, <1>1
  <2> QED BY <2>5, <2>6, <2>7 DEF CutOff
<1>2. CASE l = -1
  <2>1. p = 0 /\ o = 0
    BY <1>0, <1>2
  <2>2. PICK e \in Ends : 0 < e /\ e <= 0 + SegLen - HeaderLen
    BY FileAssumption
  <2>3. FrameEnd(0) \in Ends /\ 0 < FrameEnd(0) /\ FrameEnd(0) <= e
    BY <1>0, <2>2, FrameEndIs
  <2>i. FrameEnd(0) \in Nat /\ e \in Nat /\ PlayedEnd(0) \in Int
        /\ SegLen \in Nat /\ HeaderLen \in Nat /\ FileLen \in Nat
    BY <1>0, <2>1, <2>2, <2>3, FileAssumption
  <2>4. PlayedEnd(0) < FrameEnd(0)
    <3>1. ~(0 < PlayedEnd(0) /\ FrameEnd(0) <= PlayedEnd(0))
      BY <2>1
    <3> QED BY <2>3, <2>i, <3>1
  <2>5. FrameEnd(0) <= SegLen - HeaderLen
    BY <2>2, <2>3, <2>i
  <2>6. AtEnd(0)
    <3>1. PlayedEnd(0) = Min2(0 + SegLen, FileLen) - HeaderLen
      BY DEF PlayedEnd, SegmentEnd
    <3>2. Min2(0 + SegLen, FileLen) # 0 + SegLen
      BY <2>4, <2>5, <2>i, <3>1
    <3> QED BY <3>2 DEF AtEnd, SegmentEnd, Min2
  <2> QED BY <1>2, <2>1, <2>6, NextOffsetIs
<1>3. CASE l # -1
  <2> DEFINE n == NextOffset(o)
  <2>1. l \in Starts /\ l \in Nat /\ n \in Starts /\ n \in Nat
    BY <1>0, <1>3
  <2>2. ~AtEnd(o) => p <= n
    <3>1. CASE p \in Ends
      BY <3>1, NextOffsetIs
    <3>2. CASE p \notin Ends
      <4>1. p = 0
        BY <1>0, <3>2 DEF Ends
      <4> QED BY <4>1, <2>1
    <3> QED BY <3>1, <3>2
  <2>3. AtEnd(o) => n = 0
    BY NextOffsetIs
  <2> HIDE DEF n
  <2>4. ASSUME NEW f \in Between(l, n) PROVE CutOff(f)
    <3>1. f \in Starts /\ f \in Nat /\ (IF l < n THEN l < f /\ f < n ELSE l < f \/ f < n)
      BY <1>0 DEF Between
    <3>2. CASE f \in Between(l, p)
      BY <1>3, <3>2
    <3>3. CASE f \notin Between(l, p)
      <4>1. p <= f /\ (AtEnd(o) \/ f < n)
        <5>1. ~(IF l < p THEN l < f /\ f < p ELSE l < f \/ f < p)
          BY <3>1, <3>3 DEF Between
        <5>2. CASE AtEnd(o)
          BY <1>0, <2>1, <2>3, <3>1, <5>1, <5>2
        <5>3. CASE ~AtEnd(o)
          BY <1>0, <2>1, <2>2, <3>1, <5>1, <5>3
        <5> QED BY <5>2, <5>3
      <4> QED BY <1>1, <3>1, <4>1 DEF n
    <3> QED BY <3>2, <3>3
  <2> QED BY <1>3, <2>4 DEF n
<1> QED BY <1>2, <1>3

LEMMA FileOrderInit == Init => FileOrder
<1> SUFFICES ASSUME Init PROVE FileOrder
  OBVIOUS
<1>1. 0 \in Slot
  BY FifoAssumption DEF Slot
<1>2. Used = {}
  BY <1>1, RingIs, DistanceIs DEF Init, UsedOf, Slot
<1> QED BY <1>2 DEF Init, FileOrder, Playing, Gap

LEMMA FileOrderStep == IndInv /\ Orders /\ FileOrder /\ [Next]_vars => FileOrder'
<1> SUFFICES ASSUME IndInv, Orders, FileOrder, [Next]_vars, strays' = 0
             PROVE  FileOrder'
  BY DEF FileOrder
<1> USE DEF fifo, semaphore, player, library
<1>0. /\ rd \in Slot /\ wr \in Slot /\ orders \in Seq(Starts) /\ strays \in Nat
      /\ slots \in [Slot -> Buffers \cup {NoBuffer}]
      /\ top \in Buffers \cup {NoBuffer} /\ NoBuffer \notin Buffers
      /\ pos \in Starts \cup {FileLen} /\ last \in Starts \cup {-1}
      /\ Used = UsedOf(rd, wr) /\ Used' = UsedOf(rd', wr') /\ Used \subseteq Slot
  <2>1. rd \in Slot /\ wr \in Slot /\ orders \in Seq(Starts) /\ strays \in 0..MaxStrays
    BY DEF IndInv, Typed, TypeOK, Slot
  <2> QED BY <2>1, FifoAssumption DEF IndInv, Typed, TypeOK, Slot, Used, UsedOf, NumIn, Distance
<1>z. ~(\E b \in Buffers : Stray(b)) /\ strays = 0
  <2>1. \A b : ~Stray(b)
    BY <1>0 DEF Stray
  <2>2. strays' = strays
    BY <2>1, BreaksKeep DEF Breaks, Next, Player, Callback, Answer, PushOverflow, PushStore, AdvanceWrite, Post, Signal,
       Start, PlayFrame, FreeBuffer, Look, Wait, Wake, SpuriousWake, WaitLoop, TakeSlot,
       AdvanceRead, OrderNext, vars
  <2> QED BY <2>1, <2>2
<1>f. /\ \A i \in 1..Len(orders) : orders[i] = next
      /\ arrived # NoBuffer => offset[arrived] = next
      /\ \A i \in Used : offset[slots[i]] = next
      /\ pc = "order" => offset[top] = next
      /\ pc = "start" => next = 0
      /\ Playing => /\ limit = PlayedEnd(offset[top]) /\ next = NextOffset(offset[top])
                    /\ offset[top] <= pos /\ pos <= SegmentEnd(offset[top])
                    /\ Gap(pos)
      /\ ~Playing => Gap(next)
  BY <1>z DEF FileOrder
<1>a. Handed
  BY DEF IndInv
<1>p. Places
  BY DEF IndInv
<1>t. pc \in {"frames", "order"} => Held = top
  BY DEF Held
<1>1. ASSUME NEW b \in Buffers, Answer(b) PROVE FileOrder'
  <2>1. /\ orders # <<>> /\ orders' = Tail(orders) /\ arrived' = b /\ b \notin lent
        /\ offset'[b] = Head(orders) /\ \A x \in lent : offset'[x] = offset[x]
        /\ UNCHANGED <<fifo, player>>
    BY <1>1 DEF Answer, Deliver, lent
  <2>2. Head(orders) = next /\ \A i \in 1..Len(orders') : orders'[i] = next
    BY <1>0, <1>f, <2>1
  <2>3. Used' = Used /\ \A i \in Used : slots[i] \in lent
    BY <1>0, <1>a, <2>1 DEF Handed
  <2>4. pc \in {"frames", "order"} /\ top # NoBuffer => top \in lent
    BY <1>a, <1>t DEF Handed
  <2>5. pc = "order" => top # NoBuffer
    BY <1>p DEF Places
  <2> QED BY <1>f, <2>1, <2>2, <2>3, <2>4, <2>5 DEF FileOrder, Playing, Gap
<1>2. CASE PushOverflow
  <2>1. /\ arrived' = NoBuffer /\ \A x \in lent \ {arrived} : offset'[x] = offset[x]
        /\ UNCHANGED <<fifo, player, orders>> /\ arrived # NoBuffer
    BY <1>2, <1>p DEF PushOverflow, Free, lent, Places
  <2>2. Used' = Used /\ \A i \in Used : slots[i] \in lent \ {arrived}
    BY <1>0, <1>a, <2>1 DEF Handed
  <2>3. pc \in {"frames", "order"} /\ top # NoBuffer => top \in lent \ {arrived}
    BY <1>a, <1>t, <2>1 DEF Handed
  <2>4. pc = "order" => top # NoBuffer
    BY <1>p DEF Places
  <2> QED BY <1>f, <2>1, <2>2, <2>3, <2>4 DEF FileOrder, Playing, Gap
<1>3. CASE PushStore
  <2>1. wr \notin Used /\ Used' = Used
    BY <1>0, <1>3, WriteUses DEF PushStore, Full
  <2>2. \A i \in Used' : slots'[i] = slots[i]
    BY <1>0, <1>3, <2>1 DEF PushStore
  <2> QED BY <1>f, <1>3, <2>1, <2>2 DEF PushStore, FileOrder, Playing, Gap
<1>4. CASE AdvanceWrite
  <2>1. Used' = Used \cup {wr} /\ slots[wr] = arrived /\ arrived # NoBuffer
    BY <1>0, <1>p, <1>4, WriteUses DEF AdvanceWrite, Places, Full
  <2> QED BY <1>f, <1>4, <2>1 DEF AdvanceWrite, FileOrder, Playing, Gap
<1>5. CASE Post \/ Signal \/ UNCHANGED vars
  <2>1. UNCHANGED <<fifo, player, arrived, offset, orders>>
    BY <1>5 DEF Post, Signal, vars
  <2> QED BY <1>0, <1>f, <2>1 DEF FileOrder, Playing, Gap
<1>6. CASE Look \/ Wait \/ Wake \/ SpuriousWake \/ TakeSlot
  <2>1. /\ pc \notin {"frames", "order"} /\ pc' \notin {"start", "frames", "order"}
        /\ UNCHANGED <<fifo, arrived, offset, orders, next, last>>
    BY <1>6 DEF Look, Wait, Wake, SpuriousWake, WaitLoop, TakeSlot
  <2> QED BY <1>0, <1>f, <2>1 DEF FileOrder, Playing, Gap
<1>7. CASE Start
  <2>1. /\ next = 0 /\ next' = 0 /\ ~Playing /\ ~Playing' /\ pc' = "frames"
        /\ UNCHANGED <<fifo, arrived, offset, last>>
    BY <1>7, <1>f, <1>p DEF Start, Playing, Places
  <2>2. \A i \in 1..Len(orders') : orders'[i] = 0
    BY <1>0, <1>7, <1>f, <2>1 DEF Start, Order
  <2> QED BY <1>0, <1>f, <2>1, <2>2 DEF FileOrder, Gap
<1>8. CASE PlayFrame
  <2>1. /\ Playing /\ Playing' /\ pos < limit /\ FrameEnd(pos) <= limit
        /\ last' = pos /\ pos' = FrameEnd(pos) /\ pc' = "frames"
        /\ UNCHANGED <<fifo, arrived, offset, orders, next, limit, top>>
    BY <1>8 DEF PlayFrame, HasFrame, Playing
  <2>2. offset[top] \in Starts
    BY <1>a, <1>t, <2>1 DEF Handed, Playing, IndInv, Typed, TypeOK, lent
  <2>3. /\ limit \in Int /\ SegmentEnd(offset[top]) \in Nat /\ limit <= SegmentEnd(offset[top])
        /\ SegmentEnd(offset[top]) <= FileLen /\ FileLen \in Nat /\ offset[top] \in Nat
        /\ pos \in Nat
    BY <1>0, <1>f, <2>1, <2>2, SegmentIs, PositionsAre
  <2>4. pos < FileLen
    BY <2>1, <2>3
  <2>5. /\ FrameEnd(pos) \in Ends /\ pos < FrameEnd(pos)
        /\ \A f \in Ends : pos < f => FrameEnd(pos) <= f
    BY <2>3, <2>4, FrameEndIs
  <2>6. FrameEnd(pos) \in Nat /\ pos \in Starts /\ \A f \in Starts : f \in Nat /\ (f # 0 => f \in Ends)
    BY <1>0, <2>4, <2>5, PositionsAre DEF Ends
  <2>7. Between(pos, FrameEnd(pos)) = {}
    <3>1. \A f \in Starts : ~(pos < f /\ f < FrameEnd(pos))
      <4> TAKE f \in Starts
      <4>1. f \in Nat /\ (f # 0 => f \in Ends)
        BY <2>6
      <4>2. pos < f => FrameEnd(pos) <= f
        BY <2>3, <2>5, <4>1
      <4> QED BY <2>6, <4>1, <4>2
    <3> QED BY <2>5, <3>1 DEF Between
  <2>8. pos # -1
    BY <2>3
  <2>9. offset[top] <= pos' /\ pos' <= SegmentEnd(offset[top])
    BY <1>f, <2>1, <2>3, <2>5, <2>6
  <2> QED BY <1>0, <1>f, <2>1, <2>7, <2>8, <2>9 DEF FileOrder, Gap
<1>9. CASE FreeBuffer
  <2>1. /\ ~Playing' /\ pc = "frames" /\ pc' = "look" /\ ~HasFrame
        /\ \A x \in lent \ {top} : offset'[x] = offset[x]
        /\ UNCHANGED <<fifo, arrived, orders, next, last>>
    BY <1>9 DEF FreeBuffer, Free, lent, Playing
  <2>2. Used' = Used /\ \A i \in Used : slots[i] \in lent \ {top}
    BY <1>0, <1>a, <1>t, <2>1 DEF Handed
  <2>3. arrived # NoBuffer => arrived \in lent \ {top}
    BY <1>a, <1>t, <2>1 DEF Handed
  <2>4. Gap(next)
    <3>1. CASE ~Playing
      BY <1>f, <3>1
    <3>2. CASE Playing
      <4>1. offset[top] \in Starts
        BY <1>a, <1>t, <3>2 DEF Handed, Playing, IndInv, Typed, TypeOK, lent
      <4>2. ~(pos < PlayedEnd(offset[top]) /\ FrameEnd(pos) <= PlayedEnd(offset[top]))
        BY <1>f, <2>1, <3>2 DEF HasFrame, Playing
      <4> QED BY <1>0, <1>f, <3>2, <4>1, <4>2, SegmentEnds DEF Gap
    <3> QED BY <3>1, <3>2
  <2> QED BY <1>f, <2>1, <2>2, <2>3, <2>4 DEF FileOrder, Gap
<1>10. CASE AdvanceRead
  <2>1. rd \in Used /\ Used' = Used \ {rd} /\ top = slots[rd]
    BY <1>0, <1>p, <1>10, ReadFrees DEF AdvanceRead, Places, Empty
  <2>2. /\ ~Playing /\ ~Playing' /\ pc' = "order"
        /\ UNCHANGED <<slots, arrived, offset, orders, next, last, top>>
    BY <1>10 DEF AdvanceRead, Playing
  <2> QED BY <1>f, <2>1, <2>2 DEF FileOrder, Gap
<1>11. CASE OrderNext
  <2>1. /\ pc = "order" /\ pc' = "frames" /\ top # NoBuffer /\ ~Playing /\ Playing'
        /\ next' = NextOffset(offset[top]) /\ pos' = offset[top] /\ limit' = PlayedEnd(offset[top])
        /\ UNCHANGED <<fifo, arrived, offset, last, top>>
    BY <1>11, <1>p DEF OrderNext, Playing, Places
  <2>2. offset[top] \in Starts
    BY <1>a, <1>t, <2>1 DEF Handed, IndInv, Typed, TypeOK, lent
  <2>3. orders = <<>> /\ NumIn = 0 /\ arrived = NoBuffer /\ Used = {}
    <3>1. Coming = 0
      BY <1>z, <2>1 DEF Orders
    <3>2. Len(orders) \in Nat /\ NumIn \in Nat /\ NumIn = Distance(rd, wr)
      BY <1>0, RingIs, DistanceIs DEF Slot
    <3>3. Len(orders) = 0 /\ NumIn = 0 /\ arrived = NoBuffer
      BY <3>1, <3>2 DEF Coming
    <3>4. \A i \in Slot : ~(Distance(rd, i) < 0)
      BY <1>0, DistanceIs DEF Slot
    <3> QED BY <1>0, <3>2, <3>3, <3>4 DEF UsedOf
  <2>4. orders' = <<next'>>
    BY <1>11, <2>3 DEF OrderNext, Order
  <2>5. Used' = {}
    BY <1>0, <2>1, <2>3
  <2>6. offset[top] <= pos' /\ pos' <= SegmentEnd(offset[top])
    BY <2>1, <2>2, SegmentIs, PositionsAre
  <2>7. Gap(offset[top])
    BY <1>f, <2>1
  <2> QED BY <2>1, <2>3, <2>4, <2>5, <2>6, <2>7 DEF FileOrder, Gap
<1>b. CASE Breaks
  <2>1. UNCHANGED <<fifo, player, arrived, offset, orders>>
    BY <1>b, BreaksKeep
  <2> QED BY <1>0, <1>f, <2>1 DEF FileOrder, Playing, Gap
<1> QED
  BY <1>b, <1>z, <1>1, <1>2, <1>3, <1>4, <1>5, <1>6, <1>7, <1>8, <1>9, <1>10, <1>11
     DEF Breaks, Next, Player, Callback

--------------------------------------------------------------------------------
(* The theorems.                                                           *)

LEMMA InvHolds == Steps => []IndInv
<1>1. IndInv /\ [Next]_vars => IndInv'
  BY TypedStep, PlacesStep, HandedStep, AnnouncedStep DEF IndInv
<1> QED BY InvInit, <1>1, PTL DEF Steps

LEMMA OrdersHold == Steps => []Orders
BY InvHolds, OrdersInit, OrdersStep, PTL DEF Steps

LEMMA FileOrderHolds == Steps => []FileOrder
BY InvHolds, OrdersHold, FileOrderInit, FileOrderStep, PTL DEF Steps

(* The types: no index leaves the ring, no order names a position at which *)
(* no frame begins (A2aFileSource, IndexFifo, get_next_fileOffset).        *)
THEOREM TypeCorrect == Steps => []TypeOK
<1>1. IndInv => TypeOK
  BY DEF IndInv, Typed
<1> QED BY InvHolds, <1>1, PTL

(* Every buffer lent by the A2A library is in one place, however the        *)
(* callback and the player interleave (push_buffer, next_frame); and as    *)
(* long as all headers are good none is given back twice or used after     *)
(* that.  A bad one does both (a2a_file_buf_recv_callback).                *)
THEOREM BuffersAccounted == Steps => []Accounted
<1>1. Init => HeadersGood
  BY DEF Init, HeadersGood
<1>2. IndInv /\ HeadersGood => Accounted
  BY DEF IndInv, Handed, HeadersGood, Accounted
<1> QED BY InvHolds, HeadersStep, <1>1, <1>2, PTL DEF Steps

(* The player never sleeps over a segment (BinarySemaphore).               *)
THEOREM NoWakeUpLost == Steps => []NoLostWakeUp
<1>1. IndInv => NoLostWakeUp
  BY DEF IndInv, Announced, NoLostWakeUp, Typed, TypeOK
<1> QED BY InvHolds, <1>1, PTL

(* The next segment is always ordered or on its way, and a peer that only  *)
(* answers cannot overflow the queue (next_frame).                         *)
THEOREM SegmentsOrdered == Steps => []AlwaysOrdered
<1>1. IndInv /\ Orders => AlwaysOrdered
  BY DEF Orders, Coming, AlwaysOrdered
<1> QED BY InvHolds, OrdersHold, <1>1, PTL

(* The frames go out in the order of the file, and only those are left out *)
(* that _have_bytes cuts off at the end of a segment (next_frame).         *)
THEOREM FileOrderKept == Steps => FramesInOrder
<1>1. IndInv /\ FileOrder /\ [Next]_vars =>
        [ Plays /\ strays = 0 =>
            IF last = -1 THEN last' = 0 ELSE \A f \in Between(last, last') : CutOff(f) ]_vars
  <2> SUFFICES ASSUME IndInv, FileOrder, [Next]_vars, Plays, strays = 0
               PROVE  IF last = -1 THEN last' = 0 ELSE \A f \in Between(last, last') : CutOff(f)
    OBVIOUS
  <2>1. PlayFrame
    BY BreaksKeep DEF Breaks, Plays, Next, Player, Callback, Answer, Stray, Deliver, PushOverflow, PushStore,
       AdvanceWrite, Post, Signal, Start, FreeBuffer, Look, Wait, Wake, SpuriousWake, WaitLoop,
       TakeSlot, AdvanceRead, OrderNext, vars, player
  <2>2. last' = pos /\ Playing
    BY <2>1 DEF PlayFrame, HasFrame, Playing
  <2> QED BY <2>2 DEF FileOrder, Gap
<1> QED BY InvHolds, FileOrderHolds, <1>1, PTL DEF Steps, FramesInOrder

--------------------------------------------------------------------------------
(* The ring and its semaphore implement the queue of A2aQueue.             *)

LEMMA QueueStep == IndInv /\ [Next]_vars => [Queue!Next]_(Queue!vars)
<1> SUFFICES ASSUME IndInv, [Next]_vars PROVE [Queue!Next]_(Queue!vars)
  OBVIOUS
<1> USE DEF fifo, semaphore, player, library, headers
<1>0. /\ rd \in Slot /\ wr \in Slot /\ After(rd) \in Slot /\ After(wr) \in Slot
      /\ slots \in [Slot -> Buffers \cup {NoBuffer}]
      /\ NoBuffer \notin Buffers /\ Size \in Nat /\ Size >= 2
      /\ Queued = Content(slots, rd, wr) /\ Queued' = Content(slots', rd', wr')
      /\ Used = UsedOf(rd, wr)
      /\ Len(Queued) = Distance(rd, wr)
  <2>1. rd \in Slot /\ wr \in Slot /\ slots \in [Slot -> Buffers \cup {NoBuffer}]
    BY DEF IndInv, Typed, TypeOK, Slot
  <2>2. Queued = Content(slots, rd, wr) /\ Queued' = Content(slots', rd', wr')
    BY DEF Queued, Content, NumIn, Distance
  <2>3. Len(Queued) = Distance(rd, wr)
    BY <2>1, <2>2, ContentLength
  <2> QED BY <2>1, <2>2, <2>3, AfterIs, FifoAssumption, RingIs
<1>a. Handed
  BY DEF IndInv
<1>p. Places
  BY DEF IndInv
<1>s. ASSUME UNCHANGED <<fifo, arrived, broken>>, Held' = Held PROVE UNCHANGED Queue!vars
  BY <1>0, <1>s DEF Queue!vars
<1>1. ASSUME NEW b \in Buffers, Answer(b) \/ Stray(b), ~broken, broken' = broken PROVE Queue!Arrive(b)
  <2>1. /\ b \notin lent /\ arrived' = b /\ UNCHANGED <<fifo, top, pc>> /\ callback = "idle"
    BY <1>1 DEF Answer, Stray, Deliver
  <2>2. arrived = NoBuffer /\ Queued' = Queued /\ Held' = Held
    BY <1>0, <1>p, <2>1 DEF Places, Held
  <2>3. \A x \in Queue!Waiting : \E j \in Used : x = slots[j]
    <3> TAKE x \in Queue!Waiting
    <3>1. PICK i \in 1..Distance(rd, wr) : x = Content(slots, rd, wr)[i]
      BY <1>0 DEF Queue!Waiting
    <3>2. \E j \in UsedOf(rd, wr) : Content(slots, rd, wr)[i] = slots[j]
      BY <1>0, ContentElement
    <3> QED BY <1>0, <3>1, <3>2
  <2>4. b \notin Queue!Waiting \cup {Held}
    <3>1. b # NoBuffer
      BY <1>0
    <3> QED BY <1>a, <2>1, <2>3, <3>1 DEF Handed
  <2> QED BY <1>1, <2>1, <2>2, <2>4 DEF Queue!Arrive
<1>2. ASSUME PushOverflow, ~broken, broken' = broken PROVE Queue!Refuse
  <2>1. arrived # NoBuffer /\ arrived' = NoBuffer /\ UNCHANGED <<fifo, top, pc>> /\ rd = After(wr)
    BY <1>2, <1>p DEF PushOverflow, Places, Full
  <2>2. Len(Queued) = Size - 1
    BY <1>0, <2>1, FullIs
  <2>3. Queued' = Queued /\ Held' = Held
    BY <1>0, <2>1 DEF Held
  <2> QED BY <1>2, <2>1, <2>2, <2>3 DEF Queue!Refuse
<1>3. ASSUME PushStore PROVE UNCHANGED Queue!vars
  <2>1. /\ slots' = [slots EXCEPT ![wr] = arrived] /\ rd # After(wr)
        /\ UNCHANGED <<rd, wr, arrived, top, pc, broken>>
    BY <1>3 DEF PushStore, Full
  <2>2. Queued' = Queued
    <3>1. /\ slots \in [Slot -> Buffers \cup {NoBuffer}] /\ rd \in Slot /\ wr \in Slot
          /\ rd # After(wr)
      BY <1>0, <2>1
    <3>2. Content([slots EXCEPT ![wr] = arrived], rd, wr) = Content(slots, rd, wr)
      BY <3>1, ContentStore
    <3> QED BY <1>0, <2>1, <3>2
  <2> QED BY <2>1, <2>2 DEF Queue!vars, Held
<1>4. ASSUME AdvanceWrite, ~broken, broken' = broken PROVE Queue!Push
  <2>1. /\ arrived # NoBuffer /\ arrived' = NoBuffer /\ rd # After(wr) /\ slots[wr] = arrived
        /\ rd' = rd /\ wr' = After(wr) /\ UNCHANGED <<slots, top, pc>>
    BY <1>4, <1>p DEF AdvanceWrite, Places, Full
  <2>2. Queued' = Append(Queued, arrived)
    BY <1>0, <2>1, ContentPush
  <2>3. Len(Queued) < Size - 1
    <3>1. Distance(rd, wr) # Size - 1 /\ Distance(rd, wr) \in Slot
      BY <1>0, <2>1, FullIs, DistanceIs
    <3> QED BY <1>0, <3>1 DEF Slot
  <2>4. Held' = Held
    BY <2>1 DEF Held
  <2> QED BY <1>4, <2>1, <2>2, <2>3, <2>4 DEF Queue!Push
<1>5. ASSUME Post \/ Signal \/ Start \/ PlayFrame PROVE UNCHANGED Queue!vars
  <2>1. UNCHANGED <<fifo, arrived, top, broken>>
    BY <1>5 DEF Post, Signal, Start, PlayFrame
  <2>2. pc' = pc \/ (pc # "advance" /\ pc' # "advance")
    BY <1>5 DEF Post, Signal, Start, PlayFrame
  <2> QED BY <1>s, <2>1, <2>2 DEF Held
<1>6. ASSUME FreeBuffer, ~broken, broken' = broken PROVE Queue!Finish \/ UNCHANGED Queue!vars
  <2>1. Held = top /\ Held' = NoBuffer /\ UNCHANGED <<fifo, arrived, broken>>
    BY <1>6 DEF FreeBuffer, Held
  <2>2. Queued' = Queued
    BY <1>0, <2>1
  <2>3. CASE top = NoBuffer
    BY <1>s, <2>1, <2>3
  <2>4. CASE top # NoBuffer
    BY <1>6, <2>1, <2>2, <2>4 DEF Queue!Finish
  <2> QED BY <2>3, <2>4
<1>7. ASSUME Look \/ Wait \/ Wake \/ SpuriousWake PROVE UNCHANGED Queue!vars
  <2>1. /\ pc # "advance" /\ pc' # "advance" /\ UNCHANGED <<fifo, arrived, top, broken>>
    BY <1>7 DEF Look, Wait, Wake, SpuriousWake, WaitLoop
  <2> QED BY <1>s, <2>1 DEF Held
<1>8. ASSUME TakeSlot PROVE UNCHANGED Queue!vars
  BY <1>8, <1>p, <1>s DEF TakeSlot, Places, Held
<1>9. ASSUME AdvanceRead, ~broken, broken' = broken PROVE Queue!Take
  <2>1. /\ rd # wr /\ rd' = After(rd) /\ top = slots[rd] /\ Held = NoBuffer /\ Held' = top
        /\ UNCHANGED <<wr, slots, arrived>>
    BY <1>9, <1>p DEF AdvanceRead, Places, Empty, Held
  <2>2. Queued # <<>> /\ Head(Queued) = top /\ Queued' = Tail(Queued)
    BY <1>0, <2>1, ContentTake
  <2> QED BY <1>9, <2>1, <2>2 DEF Queue!Take
<1>10. ASSUME OrderNext \/ UNCHANGED vars PROVE UNCHANGED Queue!vars
  <2>1. UNCHANGED <<fifo, arrived, top, broken>>
    BY <1>10 DEF OrderNext, vars
  <2>2. pc' = pc \/ (pc # "advance" /\ pc' # "advance")
    BY <1>10 DEF OrderNext, vars
  <2> QED BY <1>s, <2>1, <2>2 DEF Held
<1>11. ASSUME Breaks, ~broken PROVE Queue!Break
  <2>1. UNCHANGED <<fifo, arrived, top, pc>> /\ broken' = TRUE
    BY <1>11, BreaksKeep
  <2>2. Queued' = Queued /\ Held' = Held
    BY <1>0, <2>1 DEF Held
  <2> QED BY <1>11, <2>1, <2>2 DEF Queue!Break
<1>12. ASSUME NEW b \in Buffers, Answer(b) \/ Stray(b) PROVE ~broken /\ broken' = broken
  BY <1>12 DEF Answer, Stray, GoodHeader, BadHeader
<1>13. ASSUME PushOverflow \/ AdvanceWrite \/ FreeBuffer \/ AdvanceRead PROVE broken' = broken
  BY <1>13 DEF PushOverflow, AdvanceWrite, FreeBuffer, AdvanceRead
<1>14. CASE \E b \in Buffers : Answer(b) \/ Stray(b)
  BY <1>1, <1>12, <1>14 DEF Queue!Next
<1>15. CASE Breaks /\ ~broken
  BY <1>11, <1>15 DEF Queue!Next
<1>16. CASE UNCHANGED vars \/ SpuriousWake
  BY <1>7, <1>10, <1>16
<1>17. CASE Callback
  BY <1>2, <1>3, <1>4, <1>5, <1>13, <1>15, <1>17 DEF Callback, Breaks, Queue!Next
<1>18. CASE Player
  BY <1>5, <1>6, <1>7, <1>8, <1>9, <1>10, <1>13, <1>15, <1>18 DEF Player, Breaks, Queue!Next
<1>19. BadTwice \/ LendFreed => Breaks /\ ~broken
  BY DEF Breaks, BadTwice, LendFreed
<1> QED BY <1>14, <1>15, <1>16, <1>17, <1>18, <1>19 DEF Next

(* The index FIFO, written and read without a lock, loses, repeats and     *)
(* reorders nothing, and refuses a segment only when it is full.           *)
THEOREM RingIsQueue == Steps => QueueSteps
<1>1. Init => Queue!Init
  <2> SUFFICES ASSUME Init PROVE Queue!Init
    OBVIOUS
  <2>1. NumIn = 0
    BY FifoAssumption DEF Init, NumIn
  <2>2. Queued = <<>>
    BY <2>1 DEF Queued
  <2> QED BY <2>2 DEF Init, Queue!Init, Held
<1> QED BY InvHolds, QueueStep, <1>1, PTL DEF Steps, QueueSteps

=============================================================================
