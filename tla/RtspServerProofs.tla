--------------------------- MODULE RtspServerProofs ---------------------------
(***************************************************************************)
(* What holds of RtspServer for any number of connections, sources, names  *)
(* and streams.  Next is disabled once some thread has used a deleted      *)
(* object, so a step starts in a state where ~undefined holds.             *)
(***************************************************************************)
EXTENDS RtspServer, SequenceTheorems, TLAPS

(* The parts of the inductive invariant.                                   *)

(* A talker past LockMaster holds the lock, and nobody else does.          *)
LockHeld == \A t \in Talkers : pc[t] \in Locked <=> lock = t

(* A file source is entered in the map under its own name only, so erasing *)
(* that name leaves no entry behind; a live source, which may be entered   *)
(* under many names, is never deleted.                                     *)
MapEntries ==
  /\ \A n \in Names : byName[n] # NoSource =>
       \/ kind[byName[n]] = "live"
       \/ kind[byName[n]] = "file" /\ stream[byName[n]] = n
  /\ \A i \in StreamIds : byId[i] # NoSource => kind[byId[i]] = "live"

(* What a talker knows at the points where it relies on it.                *)
TalkerKnows ==
  \A t \in Talkers :
    /\ pc[t] = "accepting" => source[t] = NoSource
    /\ pc[t] = "creating" => wanted[t] \in Names /\ source[t] = NoSource
    /\ pc[t] \in {"playing", "tearing down", "locked"} => client[t] # NoClient
    /\ pc[t] \in {"describing", "no clients", "joining"} => source[t] # NoSource
    /\ pc[t] \in {"no clients", "joining", "unlocking", "gone"} => client[t] = NoClient
    /\ pc[t] = "joining" => undefined \/ kind[source[t]] = "file"

(* A talker's client is its own and is in the list of its own source.      *)
ClientPlaced ==
  \A t \in Talkers : client[t] # NoClient =>
    /\ Owner(client[t]) = t
    /\ source[t] # NoSource
    /\ streamer[client[t]] = source[t]
    /\ client[t] \in clients[source[t]]

(* A client is in no other list than its streamer's, and only while it     *)
(* exists.                                                                 *)
ListEntries ==
  \A s \in Sources : \A c \in clients[s] :
    /\ streamer[c] = s
    /\ state[c] \in {"STOP", "REQUEST", "PLAY"}

(* A source that is not constructed yet, or live, has started no thread.   *)
NoThreads ==
  \A s \in Sources :
    /\ kind[s] \in {"none", "live"} => threads[s] = << >>
    /\ kind[s] = "none" => ~playing[s]

(* The callback works on a source.                                         *)
CallbackKnows == callback.phase # "idle" => callback.source # NoSource

(* So does the thread that sets temporal levels, if there is one.          *)
WalkerKnows ==
  walker # Idle =>
    /\ SetsLevel
    /\ walker.source # NoSource
    /\ kind[walker.source] # "none"

IInv ==
  /\ TypeOK
  /\ CallbackKnows
  /\ WalkerKnows
  /\ LockHeld
  /\ MapEntries
  /\ TalkerKnows
  /\ ClientPlaced
  /\ ListEntries
  /\ NoThreads
  /\ NobodyToPlayFor

--------------------------------------------------------------------------------
(* The threads of one source after a change to one of them.                *)
LEMMA ThreadChanges ==
  ASSUME TypeOK, NEW s \in Sources, NEW k, NEW what, ThreadIs(s, k, what),
         NEW next \in Steps
  PROVE  [threads EXCEPT ![s][k] = next] \in [Sources -> Seq(Steps)]
<1>1. threads[s] \in Seq(Steps) /\ k \in 1 .. Len(threads[s])
  BY DEF TypeOK, ThreadIs
<1>2. [threads[s] EXCEPT ![k] = next] \in Seq(Steps)
  BY <1>1, ExceptSeq
<1>3. QED  BY <1>2 DEF TypeOK

(* The threads that set temporal levels change nothing but what they read.  *)
LEMMA LevelLeaves ==
  ASSUME LevelNext
  PROVE  UNCHANGED << byName, byId, lock, kind, stream, playing, clients, threads, state,
                      streamer, pc, source, client, wanted, callback >>
BY DEF LevelNext, LevelFind, LevelSet, mapVars, sourceVars, clientVars, talkerVars

(* The record that describes the callback.                                *)
LEMMA CallbackRecord ==
  ASSUME NEW phase \in {"idle", "found", "sending", "packet"}, NEW s \in Sources \cup {NoSource},
         CallbackDoes(phase, s)
  PROVE  callback' \in [phase : {"idle", "found", "sending", "packet"},
                        source : Sources \cup {NoSource}]
<1>. QED  BY ZenonT(20) DEF CallbackDoes

(* What sending a packet does to the clients: those of the list may start  *)
(* to play or be switched off, and nothing else happens to any client.     *)
LEMMA SendPacketChanges ==
  ASSUME TypeOK, NEW s, NEW starter, SendPacket(s, starter)
  PROVE  /\ state' \in [Clients -> ClientStates]
         /\ \A c \in Clients :
              \/ state'[c] = state[c]
              \/ state[c] \in {"REQUEST", "PLAY"} /\ state'[c] \in {"STOP", "PLAY"}
         /\ undefined' \in BOOLEAN
<1> DEFINE starting == {c \in clients[s] : state[c] = "REQUEST" /\ starter}
           sending  == {c \in clients[s] : state[c] = "PLAY"} \cup starting
<1>1. PICK failed \in SUBSET sending :
        state' = [c \in Clients |-> IF c \in failed THEN "STOP"
                                    ELSE IF c \in starting THEN "PLAY" ELSE state[c]]
  BY DEF SendPacket
<1>2. \A c \in sending : state[c] \in {"REQUEST", "PLAY"}
  OBVIOUS
<1>3. \A c \in Clients :
         \/ state'[c] = state[c]
         \/ state[c] \in {"REQUEST", "PLAY"} /\ state'[c] \in {"STOP", "PLAY"}
  <2>1. \A c \in failed \cup starting : state[c] \in {"REQUEST", "PLAY"}
    BY <1>2
  <2> HIDE DEF starting, sending
  <2>2. TAKE c \in Clients
  <2>3. CASE c \in failed  BY <1>1, <2>1, <2>3
  <2>4. CASE c \in starting \ failed  BY <1>1, <2>1, <2>4
  <2>5. CASE c \notin failed /\ c \notin starting  BY <1>1, <2>5
  <2>6. QED  BY <2>3, <2>4, <2>5
<1>4. state' \in [Clients -> ClientStates]
  <2> HIDE DEF starting, sending
  <2>1. QED  BY <1>1 DEF TypeOK, ClientStates
<1>5. QED  BY <1>3, <1>4 DEF SendPacket, Exists, TypeOK

(* Every step preserves the types.                                         *)
LEMMA TypeStep ==
  ASSUME IInv, Next
  PROVE  TypeOK'
<1> USE SourceMapAssumption, ServerAssumption DEF Owner, Kinds, ClientStates, Phases, Locked
<1>0. TypeOK  BY DEF IInv
<1> USE <1>0 DEF TypeOK, MapTypeOK
<1>1. ASSUME NEW t \in Talkers, TalkerNext(t)
      PROVE  TypeOK'
  <2> USE DEF mapVars, sourceVars, clientVars, talkerVars, appVars, Goto
  <2>1. CASE Accept(t)  BY <2>1 DEF Accept
  <2>2. ASSUME NEW name \in Names, Describe(t, name)
        PROVE  TypeOK'
    <3>1. source' \in [Talkers -> Sources \cup {NoSource}]
      <4>1. /\ source \in [Talkers -> Sources \cup {NoSource}]
            /\ byName \in [Names -> Sources \cup {NoSource}]
        OBVIOUS
      <4> HIDE DEF TypeOK, MapTypeOK
      <4>2. source' = source \/ source' = [source EXCEPT ![t] = byName[name]]
        BY <2>2 DEF Describe
      <4>3. QED  BY <4>1, <4>2
    <3>2. wanted' \in [Talkers -> Names \cup {NoName}]
      <4>1. wanted \in [Talkers -> Names \cup {NoName}]
        OBVIOUS
      <4> HIDE DEF TypeOK, MapTypeOK
      <4>2. wanted' = wanted \/ wanted' = [wanted EXCEPT ![t] = name]
        BY <2>2 DEF Describe
      <4>3. QED  BY <4>1, <4>2
    <3>3. PICK phase \in {"creating", "describing"} : pc' = [pc EXCEPT ![t] = phase]
      BY <2>2 DEF Describe
    <3>4. QED  BY <2>2, <3>1, <3>2, <3>3 DEF Describe
  <2>3. ASSUME NEW s \in Sources, CreateLive(t, s)
        PROVE  TypeOK'
    <3>1. StreamIdOf[wanted[t]] \in StreamIds /\ wanted[t] \in Names
      <4> HIDE DEF TypeOK, MapTypeOK
      <4>1. pc[t] = "creating" /\ StreamIdOf[wanted[t]] # NotLive
        BY <2>3 DEF CreateLive
      <4>2. wanted[t] \in Names
        BY <4>1 DEF IInv, TalkerKnows
      <4>3. QED  BY <4>1, <4>2
    <3>. QED  BY <2>3, <3>1 DEF CreateLive, Construct, SaveId
  <2>4. ASSUME NEW s \in Sources, CreateFile(t, s)
        PROVE  TypeOK'
    BY <2>4 DEF CreateFile, Construct, SaveName, IInv, TalkerKnows
  <2>5. CASE CreateFails(t)  BY <2>5 DEF CreateFails
  <2>6. CASE DescribeReply(t)  BY <2>6 DEF DescribeReply, Touch, Exists
  <2>7. ASSUME NEW c \in Clients, Setup(t, c)
        PROVE  TypeOK'
    <3>1. source[t] \in Sources
      BY <2>7 DEF Setup
    <3>2. /\ client' \in [Talkers -> Clients \cup {NoClient}]
          /\ state' \in [Clients -> ClientStates]
          /\ streamer' \in [Clients -> Sources \cup {NoSource}]
      BY <2>7, <3>1 DEF Setup
    <3>3. clients' \in [Sources -> SUBSET Clients]
      <4>1. clients \in [Sources -> SUBSET Clients]
        OBVIOUS
      <4> HIDE DEF TypeOK, MapTypeOK
      <4>2. clients' = [clients EXCEPT ![source[t]] = @ \cup {c}]
        BY <2>7 DEF Setup
      <4>3. QED  BY <3>1, <4>1, <4>2
    <3>4. undefined' \in BOOLEAN
      BY <2>7 DEF Setup, Touch, Exists
    <3>5. QED  BY <2>7, <3>2, <3>3, <3>4 DEF Setup
  <2>8. CASE PlayClient(t)  BY <2>8 DEF PlayClient, Touch, Exists
  <2>9. CASE PlaySource(t)  
    <3>1. client[t] \in Clients /\ streamer[client[t]] \in Sources
      <4>1. pc[t] = "playing"
        BY <2>9 DEF PlaySource
      <4>2. client[t] # NoClient /\ source[t] # NoSource /\ streamer[client[t]] = source[t]
        BY <4>1 DEF IInv, TalkerKnows, ClientPlaced
      <4>3. QED  BY <4>2
    <3> DEFINE s == streamer[client[t]]
    <3>2. threads' \in [Sources -> Seq(Steps)]
      <4>1. Append(threads[s], "starting") \in Seq(Steps)
        <5>1. threads[s] \in Seq(Steps) /\ "starting" \in Steps
          BY <3>1 DEF Steps
        <5> HIDE DEF s, TypeOK
        <5>2. QED  BY <5>1, AppendProperties
      <4>2. CASE threads' = [threads EXCEPT ![s] = Append(@, "starting")]
        BY <3>1, <4>1, <4>2
      <4>3. CASE threads' = threads
        BY <4>3
      <4>4. QED  BY <2>9, <4>2, <4>3 DEF PlaySource, Play
    <3>3. playing' \in [Sources -> BOOLEAN]
      BY <2>9, <3>1 DEF PlaySource, Play
    <3>4. pc' \in [Talkers -> Phases] /\ undefined' \in BOOLEAN
      BY <2>9, <3>1 DEF PlaySource, Touch, Exists
    <3>5. QED  BY <2>9, <3>2, <3>3, <3>4 DEF PlaySource
  <2>10. CASE Hangup(t)  BY <2>10 DEF Hangup, HasClient, DeleteTalker
  <2>11. CASE LockMaster(t)  BY <2>11 DEF LockMaster, Acquire
  <2>12. CASE DeleteClient(t)  BY <2>12 DEF DeleteClient, RemoveClient, Touch, Exists
  <2>13. CASE StopSource(t)  BY <2>13 DEF StopSource, Stop, Exists
  <2>14. CASE DeleteSource(t)  BY <2>14 DEF DeleteSource, Erase
  <2>15. CASE Unlock(t)  BY <2>15 DEF Unlock, Release, DeleteTalker
  <2> HIDE DEF TypeOK
  <2>16. QED
    BY <1>1, <2>1, <2>2, <2>3, <2>4, <2>5, <2>6, <2>7, <2>8, <2>9, <2>10, <2>11, <2>12,
       <2>13, <2>14, <2>15 DEF TalkerNext
<1>2. CASE CallbackNext
  <2> USE DEF mapVars, sourceVars, clientVars, talkerVars, appVars, CallbackDoes
  <2>1. ASSUME NEW id \in StreamIds, CallbackFind(id)
        PROVE  TypeOK'
    BY <2>1 DEF CallbackFind
  <2>2. ASSUME NEW id \in StreamIds, NEW s \in Sources, CallbackCreate(id, s)
        PROVE  TypeOK'
    BY <2>2 DEF CallbackCreate, Construct, SaveId
  <2>3. CASE CallbackFrame \/ CallbackLock
    <3>1. \E phase \in {"idle", "sending", "packet"}, s \in {callback.source, NoSource} :
            CallbackDoes(phase, s)
      BY <2>3 DEF CallbackFrame, CallbackLock
    <3>2. callback' \in [phase : {"idle", "found", "sending", "packet"},
                         source : Sources \cup {NoSource}]
      BY <3>1, CallbackRecord
    <3>3. CASE CallbackFrame
      <4>1. undefined' \in BOOLEAN
        BY <3>3 DEF CallbackFrame, Touch, Exists
      <4>2. QED  BY <3>2, <3>3, <4>1 DEF CallbackFrame
    <3>4. CASE CallbackLock
      <4>1. undefined' \in BOOLEAN
        BY <3>4 DEF CallbackLock, Touch, Exists
      <4>2. QED  BY <3>2, <3>4, <4>1 DEF CallbackLock
    <3>5. QED  BY <2>3, <3>3, <3>4
  <2>4. ASSUME NEW starter \in BOOLEAN, NEW last \in BOOLEAN,
               CallbackPacket(starter, last)
        PROVE  TypeOK'
    <3>1. state' \in [Clients -> ClientStates] /\ undefined' \in BOOLEAN
      BY <2>4, SendPacketChanges DEF CallbackPacket
    <3>2. \E phase \in {"idle", "sending"}, s \in {callback.source, NoSource} :
            CallbackDoes(phase, s)
      BY <2>4 DEF CallbackPacket
    <3>3. callback' \in [phase : {"idle", "found", "sending", "packet"},
                         source : Sources \cup {NoSource}]
      BY <3>2, CallbackRecord
    <3>4. QED  BY <2>4, <3>1, <3>3 DEF CallbackPacket
  <2> HIDE DEF TypeOK
  <2>5. QED  BY <1>2, <2>1, <2>2, <2>3, <2>4 DEF CallbackNext
<1>3. ASSUME NEW s \in Sources, FileNext(s)
      PROVE  TypeOK'
  <2> USE DEF mapVars, sourceVars, clientVars, talkerVars, appVars
  <2>1. ASSUME NEW k \in 1 .. MaxThreads,
               FileStart(s, k) \/ FileLock(s, k) \/ FileAgain(s, k)
        PROVE  TypeOK'
    <3>1. threads' \in [Sources -> Seq(Steps)]
      <4>1. PICK old, next \in Steps : /\ ThreadIs(s, k, old)
                                      /\ threads' = [threads EXCEPT ![s][k] = next]
        BY <2>1 DEF FileStart, FileLock, FileAgain, Steps
      <4> HIDE DEF TypeOK
      <4>2. [threads EXCEPT ![s][k] = next] \in [Sources -> Seq(Steps)]
        BY <4>1, ThreadChanges
      <4>3. QED  BY <4>1, <4>2
    <3>2. QED  BY <2>1, <3>1 DEF FileStart, FileLock, FileAgain, Touch, Exists
  <2>2. ASSUME NEW k \in 1 .. MaxThreads, NEW starter \in BOOLEAN, FileSend(s, k, starter)
        PROVE  TypeOK'
    <3>1. threads' \in [Sources -> Seq(Steps)]
      BY <2>2, ThreadChanges DEF FileSend, Steps
    <3>2. state' \in [Clients -> ClientStates] /\ undefined' \in BOOLEAN
      BY <2>2, SendPacketChanges DEF FileSend
    <3>3. QED  BY <2>2, <3>1, <3>2 DEF FileSend
  <2> HIDE DEF TypeOK
  <2>3. QED  BY <1>3, <2>1, <2>2 DEF FileNext
<1>4. CASE LevelNext
  <2>1. walker' \in [source : Sources \cup {NoSource}, client : Clients \cup {NoClient}]
    <3>1. ASSUME NEW name \in Names, LevelFind(name)
          PROVE  walker' = [walker EXCEPT !.source = byName[name]]
      BY <3>1 DEF LevelFind
    <3>2. ASSUME LevelSet
          PROVE  \/ walker' \in {walker, Idle}
                 \/ \E d \in Clients : walker' = [walker EXCEPT !.client = d]
      <4>1. walker.source \in Sources
        BY <3>2 DEF LevelSet, IInv, WalkerKnows
      <4>2. clients[walker.source] \subseteq Clients
        BY <4>1
      <4>3. CASE undefined'
        BY <3>2, <4>3 DEF LevelSet
      <4>4. CASE ~undefined'
        <5> HIDE DEF TypeOK, MapTypeOK
        <5>1. walker' \in {Idle} \cup {[walker EXCEPT !.client = d] :
                                       d \in clients[walker.source] \ {walker.client}}
          BY <3>2, <4>4 DEF LevelSet
        <5>2. QED  BY <4>2, <5>1, Zenon
      <4>5. QED  BY <4>3, <4>4
    <3>3. /\ walker \in [source : Sources \cup {NoSource}, client : Clients \cup {NoClient}]
          /\ \A name \in Names : byName[name] \in Sources \cup {NoSource}
      OBVIOUS
    <3> HIDE DEF TypeOK, MapTypeOK
    <3>4. CASE LevelSet
      BY <3>2, <3>3, <3>4 DEF Idle
    <3>5. CASE \E name \in Names : LevelFind(name)
      BY <3>1, <3>3, <3>5
    <3>6. QED  BY <1>4, <3>4, <3>5 DEF LevelNext
  <2>2. undefined' \in BOOLEAN
    BY <1>4 DEF LevelNext, LevelFind, LevelSet, Exists
  <2>3. QED  BY <1>4, <2>1, <2>2, LevelLeaves
<1> HIDE DEF TypeOK
<1>5. QED  BY <1>1, <1>2, <1>3, <1>4 DEF Next

(* What only talkers change.                                               *)
LEMMA OnlyTalkers ==
  ASSUME CallbackNext \/ (\E s \in Sources : FileNext(s)) \/ LevelNext
  PROVE  UNCHANGED << lock, clients, streamer, pc, source, client, wanted >>
<1>1. CASE CallbackNext
  BY <1>1 DEF CallbackNext, CallbackFind, CallbackCreate, CallbackFrame, CallbackLock,
              CallbackPacket, talkerVars, clientVars, sourceVars
<1>2. ASSUME NEW s \in Sources, FileNext(s)
      PROVE  UNCHANGED << lock, clients, streamer, pc, source, client, wanted >>
  BY <1>2 DEF FileNext, FileStart, FileLock, FileSend, FileAgain, talkerVars, clientVars
<1>3. QED  BY <1>1, <1>2, LevelLeaves

(* Only a talker that does not hold the lock waits for it.                 *)
LEMMA LockHeldStep ==
  ASSUME IInv, Next
  PROVE  LockHeld'
<1>0. /\ ~undefined
      /\ pc \in [Talkers -> Phases] /\ LockHeld
  BY DEF IInv, Next, TypeOK
<1> USE <1>0, SourceMapAssumption, ServerAssumption
<1> USE DEF mapVars, sourceVars, clientVars, talkerVars, appVars, Goto
<1>1. ASSUME NEW t \in Talkers, TalkerNext(t)
      PROVE  LockHeld'
  <2>1. CASE Accept(t) \/ CreateFails(t) \/ DescribeReply(t) \/ PlayClient(t)
            \/ PlaySource(t) \/ DeleteClient(t) \/ StopSource(t)
            \/ DeleteSource(t)
    BY <2>1 DEF Accept, CreateFails, DescribeReply, PlayClient, PlaySource,
               DeleteClient, StopSource, DeleteSource, LockHeld, Locked
  <2>2. ASSUME NEW name \in Names, Describe(t, name)
        PROVE  LockHeld'
    BY <2>2 DEF Describe, LockHeld, Locked
  <2>3. ASSUME NEW s \in Sources, CreateLive(t, s)
        PROVE  LockHeld'
    BY <2>3 DEF CreateLive, LockHeld, Locked
  <2>4. ASSUME NEW s \in Sources, CreateFile(t, s)
        PROVE  LockHeld'
    BY <2>4 DEF CreateFile, LockHeld, Locked
  <2>5. ASSUME NEW c \in Clients, Setup(t, c)
        PROVE  LockHeld'
    BY <2>5 DEF Setup, LockHeld, Locked
  <2>6. CASE Hangup(t)
    BY <2>6 DEF Hangup, DeleteTalker, LockHeld, Locked
  <2>7. CASE LockMaster(t)
    BY <2>7 DEF LockMaster, Acquire, LockHeld, Locked
  <2>8. CASE Unlock(t)
    BY <2>8 DEF Unlock, Release, DeleteTalker, LockHeld, Locked
  <2>9. QED  BY <1>1, <2>1, <2>2, <2>3, <2>4, <2>5, <2>6, <2>7, <2>8 DEF TalkerNext
<1>2. CASE CallbackNext
  BY <1>2, OnlyTalkers DEF LockHeld, Locked
<1>3. ASSUME NEW s \in Sources, FileNext(s)
      PROVE  LockHeld'
  BY <1>3, OnlyTalkers DEF LockHeld, Locked
<1>4. CASE LevelNext
  BY <1>4, LevelLeaves DEF LockHeld, Locked
<1>5. QED  BY <1>1, <1>2, <1>3, <1>4 DEF Next

(* DeleteSource removes the only entry of the file it deletes.             *)
LEMMA MapEntriesStep ==
  ASSUME IInv, Next
  PROVE  MapEntries'
<1>0. /\ ~undefined
      /\ MapTypeOK /\ MapEntries /\ LockHeld /\ TalkerKnows
      /\ kind \in [Sources -> Kinds]
      /\ stream \in [Sources -> Names \cup StreamIds \cup {NoName}]
      /\ source \in [Talkers -> Sources \cup {NoSource}]
  BY DEF IInv, Next, TypeOK
<1> USE <1>0, SourceMapAssumption, ServerAssumption
<1> USE DEF mapVars, sourceVars, clientVars, talkerVars, appVars, Goto
<1>1. ASSUME NEW t \in Talkers, TalkerNext(t)
      PROVE  MapEntries'
  <2>1. CASE Accept(t) \/ CreateFails(t) \/ DescribeReply(t) \/ PlayClient(t)
            \/ PlaySource(t) \/ Hangup(t) \/ LockMaster(t)
            \/ DeleteClient(t) \/ StopSource(t) \/ Unlock(t)
    BY <2>1 DEF Accept, CreateFails, DescribeReply, PlayClient, PlaySource,
               Hangup, LockMaster, DeleteClient, StopSource, Unlock,
               MapEntries, MapTypeOK
  <2>2. ASSUME NEW name \in Names, Describe(t, name)
        PROVE  MapEntries'
    BY <2>2 DEF Describe, MapEntries, MapTypeOK
  <2>3. ASSUME NEW s \in Sources, CreateLive(t, s)
        PROVE  MapEntries'
    <3>1. \A r \in Sources : kind[r] # "none" => kind'[r] = kind[r] /\ stream'[r] = stream[r]
      BY <2>3 DEF CreateLive, Construct
    <3>2. kind'[s] = "live" /\ (kind'[s] = "file" => stream'[s] = wanted[t])
      BY <2>3 DEF CreateLive, Construct
    <3>3. \A n \in Names : byName'[n] = byName[n] \/ (n = wanted[t] /\ byName'[n] = s)
      BY <2>3 DEF CreateLive, SaveId, MapTypeOK
    <3>4. \A i \in StreamIds : byId'[i] = byId[i] \/ (kind'[s] = "live" /\ byId'[i] = s)
      BY <2>3, <3>2 DEF CreateLive, SaveId, MapTypeOK
    <3>5. QED  BY <3>1, <3>2, <3>3, <3>4 DEF MapEntries, MapTypeOK
  <2>4. ASSUME NEW s \in Sources, CreateFile(t, s)
        PROVE  MapEntries'
    <3>1. \A r \in Sources : kind[r] # "none" => kind'[r] = kind[r] /\ stream'[r] = stream[r]
      BY <2>4 DEF CreateFile, Construct
    <3>2. kind'[s] = "file" /\ (kind'[s] = "file" => stream'[s] = wanted[t])
      BY <2>4 DEF CreateFile, Construct
    <3>3. \A n \in Names : byName'[n] = byName[n] \/ (n = wanted[t] /\ byName'[n] = s)
      BY <2>4 DEF CreateFile, SaveName, MapTypeOK
    <3>4. \A i \in StreamIds : byId'[i] = byId[i] \/ (kind'[s] = "live" /\ byId'[i] = s)
      BY <2>4, <3>2 DEF CreateFile, SaveName, MapTypeOK
    <3>5. QED  BY <3>1, <3>2, <3>3, <3>4 DEF MapEntries, MapTypeOK
  <2>5. ASSUME NEW c \in Clients, Setup(t, c)
        PROVE  MapEntries'
    BY <2>5 DEF Setup, MapEntries, MapTypeOK
  <2>6. CASE DeleteSource(t)
    <3>1. source[t] \in Sources /\ kind[source[t]] = "file"
      BY <2>6 DEF DeleteSource, TalkerKnows
    <3>2. \A r \in Sources : r # source[t] => kind'[r] = kind[r]
      BY <2>6 DEF DeleteSource
    <3>3. \A n \in Names : byName'[n] = IF n = stream[source[t]] THEN NoSource ELSE byName[n]
      BY <2>6 DEF DeleteSource, Erase, MapTypeOK
    <3>4. byId' = byId /\ stream' = stream
      BY <2>6 DEF DeleteSource, Erase
    <3>5. QED  BY <3>1, <3>2, <3>3, <3>4 DEF MapEntries, MapTypeOK
  <2>7. QED  BY <1>1, <2>1, <2>2, <2>3, <2>4, <2>5, <2>6 DEF TalkerNext
<1>2. CASE CallbackNext
  <2>1. ASSUME NEW id \in StreamIds, CallbackFind(id)
        PROVE  MapEntries'
    BY <2>1 DEF CallbackFind, MapEntries, MapTypeOK
  <2>2. ASSUME NEW id \in StreamIds, NEW s \in Sources, CallbackCreate(id, s)
        PROVE  MapEntries'
    BY <2>2 DEF CallbackCreate, Construct, SaveId, MapEntries, MapTypeOK
  <2>3. CASE CallbackFrame \/ CallbackLock
    BY <2>3 DEF CallbackFrame, CallbackLock, MapEntries, MapTypeOK
  <2>4. ASSUME NEW starter \in BOOLEAN, NEW last \in BOOLEAN,
               CallbackPacket(starter, last)
        PROVE  MapEntries'
    BY <2>4 DEF CallbackPacket, MapEntries, MapTypeOK
  <2>5. QED  BY <1>2, <2>1, <2>2, <2>3, <2>4 DEF CallbackNext
<1>3. ASSUME NEW s \in Sources, FileNext(s)
      PROVE  MapEntries'
  <2>1. ASSUME NEW k \in 1 .. MaxThreads, FileStart(s, k) \/ FileLock(s, k)
        PROVE  MapEntries'
    BY <2>1 DEF FileStart, FileLock, MapEntries, MapTypeOK
  <2>2. ASSUME NEW k \in 1 .. MaxThreads, NEW starter \in BOOLEAN, FileSend(s, k, starter)
        PROVE  MapEntries'
    BY <2>2 DEF FileSend, MapEntries, MapTypeOK
  <2>3. ASSUME NEW k \in 1 .. MaxThreads, FileAgain(s, k)
        PROVE  MapEntries'
    BY <2>3 DEF FileAgain, MapEntries, MapTypeOK
  <2>4. QED  BY <1>3, <2>1, <2>2, <2>3 DEF FileNext
<1>4. CASE LevelNext
  BY <1>4, LevelLeaves DEF MapEntries
<1>5. QED  BY <1>1, <1>2, <1>3, <1>4 DEF Next

(* Nobody else changes what a talker knows, since it holds the lock while  *)
(* it relies on its source being there.                                    *)
LEMMA TalkerKnowsStep ==
  ASSUME IInv, Next
  PROVE  TalkerKnows'
<1>0. /\ ~undefined
      /\ TalkerKnows /\ LockHeld /\ ClientPlaced
      /\ pc \in [Talkers -> Phases]
      /\ kind \in [Sources -> Kinds]
      /\ byName \in [Names -> Sources \cup {NoSource}]
      /\ source \in [Talkers -> Sources \cup {NoSource}]
      /\ client \in [Talkers -> Clients \cup {NoClient}]
      /\ wanted \in [Talkers -> Names \cup {NoName}]
  BY DEF IInv, Next, TypeOK, MapTypeOK
<1> USE <1>0, SourceMapAssumption, ServerAssumption
<1> USE DEF mapVars, sourceVars, clientVars, talkerVars, appVars, Goto
<1>1. ASSUME NEW t \in Talkers, TalkerNext(t)
      PROVE  TalkerKnows'
  <2>1. CASE Accept(t) \/ CreateFails(t) \/ LockMaster(t) \/ Unlock(t)
    <3>1. CASE Accept(t)  BY <3>1 DEF Accept, TalkerKnows
    <3>2. CASE CreateFails(t)  BY <3>2 DEF CreateFails, TalkerKnows
    <3>3. CASE LockMaster(t)  BY <3>3 DEF LockMaster, TalkerKnows
    <3>4. CASE Unlock(t)  BY <3>4 DEF Unlock, DeleteTalker, TalkerKnows
    <3>5. QED  BY <2>1, <3>1, <3>2, <3>3, <3>4
  <2>2. ASSUME NEW name \in Names, Describe(t, name)
        PROVE  TalkerKnows'
    <3>1. PICK phase \in {"creating", "describing"} :
            /\ pc' = [pc EXCEPT ![t] = phase]
            /\ phase = "creating" => source'[t] = NoSource /\ wanted'[t] = name
            /\ phase = "describing" => source'[t] # NoSource
      BY <2>2 DEF Describe
    <3>2. \A u \in Talkers : u # t => source'[u] = source[u] /\ wanted'[u] = wanted[u]
      BY <2>2 DEF Describe
    <3>3. UNCHANGED << client, kind, undefined >>
      BY <2>2 DEF Describe
    <3>4. ASSUME NEW u \in Talkers
          PROVE  /\ pc'[u] = "accepting" => source'[u] = NoSource
                 /\ pc'[u] = "creating" => wanted'[u] \in Names /\ source'[u] = NoSource
                 /\ pc'[u] \in {"playing", "tearing down", "locked"} => client'[u] # NoClient
                 /\ pc'[u] \in {"describing", "no clients", "joining"}
                      => source'[u] # NoSource
                 /\ pc'[u] \in {"no clients", "joining", "unlocking", "gone"}
                      => client'[u] = NoClient
                 /\ pc'[u] = "joining" => undefined' \/ kind'[source'[u]] = "file"
      <4>1. CASE u = t  BY <3>1, <4>1
      <4>2. CASE u # t
        <5>1. pc'[u] = pc[u] /\ source'[u] = source[u] /\ wanted'[u] = wanted[u]
          BY <3>1, <3>2, <4>2
        <5>2. QED  BY <3>3, <5>1 DEF TalkerKnows
      <4>3. QED  BY <4>1, <4>2
    <3>5. QED  BY <3>4 DEF TalkerKnows
  <2>3. ASSUME NEW s \in Sources, CreateLive(t, s)
        PROVE  TalkerKnows'
    BY <2>3 DEF CreateLive, Construct, TalkerKnows
  <2>4. ASSUME NEW s \in Sources, CreateFile(t, s)
        PROVE  TalkerKnows'
    BY <2>4 DEF CreateFile, Construct, TalkerKnows
  <2>5. CASE DescribeReply(t)
    BY <2>5 DEF DescribeReply, Touch, TalkerKnows
  <2>6. ASSUME NEW c \in Clients, Setup(t, c)
        PROVE  TalkerKnows'
    BY <2>6 DEF Setup, Touch, TalkerKnows
  <2>7. CASE PlayClient(t)
    BY <2>7 DEF PlayClient, Touch, TalkerKnows
  <2>8. CASE PlaySource(t)
    BY <2>8 DEF PlaySource, Touch, TalkerKnows
  <2>9. CASE Hangup(t)
    <3>1. CASE HasClient(t)
      BY <2>9, <3>1 DEF Hangup, HasClient, TalkerKnows
    <3>2. CASE ~HasClient(t)
      <4>1. client[t] = NoClient
        BY <3>2 DEF HasClient, ClientPlaced
      <4>2. /\ source' = [source EXCEPT ![t] = NoSource]
            /\ pc' = [pc EXCEPT ![t] = "gone"] /\ UNCHANGED << kind, client, wanted, undefined >>
        BY <2>9, <3>2 DEF Hangup, DeleteTalker
      <4>3. QED  BY <4>1, <4>2 DEF TalkerKnows
    <3>3. QED  BY <3>1, <3>2
  <2>10. CASE DeleteClient(t)
    BY <2>10 DEF DeleteClient, Touch, ClientPlaced, TalkerKnows
  <2>11. CASE StopSource(t)
    BY <2>11 DEF StopSource, Exists, Kinds, TalkerKnows
  <2>12. CASE DeleteSource(t)
    BY <2>12 DEF DeleteSource, LockHeld, Locked, TalkerKnows
  <2>13. QED  BY <1>1, <2>1, <2>2, <2>3, <2>4, <2>5, <2>6, <2>7, <2>8, <2>9, <2>10, <2>11, <2>12 DEF TalkerNext
<1>2. CASE CallbackNext
  <2>1. ASSUME NEW id \in StreamIds, CallbackFind(id)
        PROVE  TalkerKnows'
    BY <2>1 DEF CallbackFind, TalkerKnows
  <2>2. ASSUME NEW id \in StreamIds, NEW s \in Sources, CallbackCreate(id, s)
        PROVE  TalkerKnows'
    BY <2>2 DEF CallbackCreate, Construct, TalkerKnows
  <2>3. CASE CallbackFrame \/ CallbackLock
    BY <2>3 DEF CallbackFrame, CallbackLock, Touch, TalkerKnows
  <2>4. ASSUME NEW starter \in BOOLEAN, NEW last \in BOOLEAN,
               CallbackPacket(starter, last)
        PROVE  TalkerKnows'
    BY <2>4 DEF CallbackPacket, SendPacket, TalkerKnows
  <2>5. QED  BY <1>2, <2>1, <2>2, <2>3, <2>4 DEF CallbackNext
<1>3. ASSUME NEW s \in Sources, FileNext(s)
      PROVE  TalkerKnows'
  <2>1. ASSUME NEW k \in 1 .. MaxThreads, FileStart(s, k) \/ FileLock(s, k)
        PROVE  TalkerKnows'
    BY <2>1 DEF FileStart, FileLock, Touch, TalkerKnows
  <2>2. ASSUME NEW k \in 1 .. MaxThreads, NEW starter \in BOOLEAN, FileSend(s, k, starter)
        PROVE  TalkerKnows'
    BY <2>2 DEF FileSend, SendPacket, TalkerKnows
  <2>3. ASSUME NEW k \in 1 .. MaxThreads, FileAgain(s, k)
        PROVE  TalkerKnows'
    BY <2>3 DEF FileAgain, Touch, TalkerKnows
  <2>4. QED  BY <1>3, <2>1, <2>2, <2>3 DEF FileNext
<1>4. CASE LevelNext
  BY <1>4, LevelLeaves DEF TalkerKnows
<1>5. QED  BY <1>1, <1>2, <1>3, <1>4 DEF Next

(* A talker has no client when it changes its source, and keeps its source *)
(* while it has a client.                                                  *)
LEMMA ClientPlacedStep ==
  ASSUME IInv, Next
  PROVE  ClientPlaced'
<1>0. /\ ~undefined
      /\ ClientPlaced /\ TalkerKnows /\ ListEntries
      /\ clients \in [Sources -> SUBSET Clients]
      /\ streamer \in [Clients -> Sources \cup {NoSource}]
      /\ source \in [Talkers -> Sources \cup {NoSource}]
      /\ client \in [Talkers -> Clients \cup {NoClient}]
  BY DEF IInv, Next, TypeOK
<1> USE <1>0, SourceMapAssumption, ServerAssumption
<1> USE DEF mapVars, sourceVars, clientVars, talkerVars, appVars, Goto
<1>1. ASSUME NEW t \in Talkers, TalkerNext(t)
      PROVE  ClientPlaced'
  <2>1. CASE Accept(t) \/ CreateFails(t) \/ DescribeReply(t) \/ PlayClient(t)
            \/ PlaySource(t) \/ LockMaster(t) \/ StopSource(t)
    BY <2>1 DEF Accept, CreateFails, DescribeReply, PlayClient, PlaySource,
               LockMaster, StopSource, ClientPlaced
  <2>2. ASSUME NEW name \in Names, Describe(t, name)
        PROVE  ClientPlaced'
    BY <2>2 DEF Describe, ClientPlaced
  <2>3. ASSUME NEW s \in Sources, CreateLive(t, s)
        PROVE  ClientPlaced'
    <3>1. /\ pc[t] = "creating" /\ source' = [source EXCEPT ![t] = s]
          /\ UNCHANGED << client, streamer, state, clients >>
      BY <2>3 DEF CreateLive, Construct
    <3>2. client[t] = NoClient
      BY <3>1 DEF TalkerKnows, ClientPlaced
    <3>3. QED  BY <3>1, <3>2 DEF ClientPlaced
  <2>4. ASSUME NEW s \in Sources, CreateFile(t, s)
        PROVE  ClientPlaced'
    <3>1. /\ pc[t] = "creating" /\ source' = [source EXCEPT ![t] = s]
          /\ UNCHANGED << client, streamer, state, clients >>
      BY <2>4 DEF CreateFile, Construct
    <3>2. client[t] = NoClient
      BY <3>1 DEF TalkerKnows, ClientPlaced
    <3>3. QED  BY <3>1, <3>2 DEF ClientPlaced
  <2>5. ASSUME NEW c \in Clients, Setup(t, c)
        PROVE  ClientPlaced'
    BY <2>5 DEF Setup, Owner, ListEntries, ClientPlaced
  <2>6. CASE DeleteClient(t)
    <3>1. /\ client[t] \in Clients /\ source[t] \in Sources
          /\ Owner(client[t]) = t /\ streamer[client[t]] = source[t]
      BY <2>6 DEF DeleteClient, TalkerKnows, ClientPlaced
    <3>2. clients' = [clients EXCEPT ![source[t]] = @ \ {client[t]}]
      <4>1. clients' = [clients EXCEPT ![streamer[client[t]]] = @ \ {client[t]}]
        BY <2>6 DEF DeleteClient, RemoveClient
      <4>2. QED  BY <3>1, <4>1
    <3>3. client' = [client EXCEPT ![t] = NoClient] /\ UNCHANGED << streamer, source >>
      BY <2>6 DEF DeleteClient
    <3>4. \A u \in Talkers : u # t /\ client[u] # NoClient => client[u] # client[t]
      BY <3>1 DEF ClientPlaced
    <3>5. SUFFICES ASSUME NEW u \in Talkers, client'[u] # NoClient
                   PROVE  /\ client[u] \in clients'[source[u]]
                          /\ client'[u] = client[u] /\ client[u] # NoClient
      BY <3>3 DEF ClientPlaced
    <3>6. u # t
      BY <3>3, <3>5
    <3>7. client'[u] = client[u] /\ client[u] # NoClient
      BY <3>3, <3>5, <3>6
    <3>8. client[u] \in clients[source[u]] /\ source[u] \in Sources /\ client[u] # client[t]
      BY <3>4, <3>6, <3>7 DEF ClientPlaced
    <3>9. QED  BY <3>2, <3>7, <3>8
  <2>7. CASE DeleteSource(t)
    BY <2>7 DEF DeleteSource, TalkerKnows, ClientPlaced
  <2>8. CASE Hangup(t)
    BY <2>8 DEF Hangup, HasClient, DeleteTalker, ClientPlaced
  <2>9. CASE Unlock(t)
    BY <2>9 DEF Unlock, DeleteTalker, TalkerKnows, ClientPlaced
  <2>10. QED  BY <1>1, <2>1, <2>2, <2>3, <2>4, <2>5, <2>6, <2>7, <2>8, <2>9 DEF TalkerNext
<1>2. CASE CallbackNext
  BY <1>2, OnlyTalkers DEF ClientPlaced
<1>3. ASSUME NEW s \in Sources, FileNext(s)
      PROVE  ClientPlaced'
  BY <1>3, OnlyTalkers DEF ClientPlaced
<1>4. CASE LevelNext
  BY <1>4, LevelLeaves DEF ClientPlaced
<1>5. QED  BY <1>1, <1>2, <1>3, <1>4 DEF Next

(* A client is deleted only after it has left its list, the only one it is *)
(* in.                                                                     *)
LEMMA ListEntriesStep ==
  ASSUME IInv, Next
  PROVE  ListEntries'
<1>0. /\ ~undefined
      /\ TypeOK /\ ListEntries /\ ClientPlaced /\ TalkerKnows
      /\ clients \in [Sources -> SUBSET Clients]
      /\ state \in [Clients -> ClientStates]
      /\ streamer \in [Clients -> Sources \cup {NoSource}]
      /\ source \in [Talkers -> Sources \cup {NoSource}]
      /\ client \in [Talkers -> Clients \cup {NoClient}]
  BY DEF IInv, Next, TypeOK
<1> USE <1>0, SourceMapAssumption, ServerAssumption
<1> USE DEF mapVars, sourceVars, clientVars, talkerVars, appVars, Goto
<1>1. ASSUME NEW t \in Talkers, TalkerNext(t)
      PROVE  ListEntries'
  <2>1. CASE Accept(t) \/ CreateFails(t) \/ DescribeReply(t) \/ PlaySource(t)
            \/ Hangup(t) \/ LockMaster(t) \/ StopSource(t)
            \/ DeleteSource(t) \/ Unlock(t)
    BY <2>1 DEF Accept, CreateFails, DescribeReply, PlaySource, Hangup,
               LockMaster, StopSource, DeleteSource, Unlock, ListEntries
  <2>2. ASSUME NEW name \in Names, Describe(t, name)
        PROVE  ListEntries'
    BY <2>2 DEF Describe, ListEntries
  <2>3. ASSUME NEW s \in Sources, CreateLive(t, s)
        PROVE  ListEntries'
    BY <2>3 DEF CreateLive, ListEntries
  <2>4. ASSUME NEW s \in Sources, CreateFile(t, s)
        PROVE  ListEntries'
    BY <2>4 DEF CreateFile, ListEntries
  <2>5. ASSUME NEW c \in Clients, Setup(t, c)
        PROVE  ListEntries'
    BY <2>5 DEF Setup, ListEntries
  <2>6. CASE PlayClient(t)
    <3>1. /\ state' = [state EXCEPT ![client[t]] = "REQUEST"]
          /\ UNCHANGED << clients, streamer >>
      BY <2>6 DEF PlayClient
    <3>2. QED  BY <3>1 DEF ListEntries
  <2>7. CASE DeleteClient(t)
    <3>1. /\ client[t] \in Clients /\ source[t] \in Sources
          /\ Owner(client[t]) = t /\ streamer[client[t]] = source[t]
      BY <2>7 DEF DeleteClient, TalkerKnows, ClientPlaced
    <3>2. clients' = [clients EXCEPT ![source[t]] = @ \ {client[t]}]
      <4>1. clients' = [clients EXCEPT ![streamer[client[t]]] = @ \ {client[t]}]
        BY <2>7 DEF DeleteClient, RemoveClient
      <4>2. QED  BY <3>1, <4>1
    <3>3. state' = [state EXCEPT ![client[t]] = "deleted"] /\ streamer' = streamer
      BY <2>7 DEF DeleteClient
    <3>4. SUFFICES ASSUME NEW s \in Sources, NEW c \in clients'[s]
                   PROVE  c \in clients[s] /\ c # client[t]
      BY <3>3 DEF ListEntries
    <3>5. c \in clients[s]
      BY <3>2
    <3>6. CASE s = source[t]
      BY <3>2, <3>5, <3>6
    <3>7. CASE s # source[t]
      BY <3>1, <3>5, <3>7 DEF ListEntries
    <3>8. QED  BY <3>5, <3>6, <3>7
  <2>8. QED  BY <1>1, <2>1, <2>2, <2>3, <2>4, <2>5, <2>6, <2>7 DEF TalkerNext
<1>2. CASE CallbackNext
  <2>1. ASSUME NEW id \in StreamIds, CallbackFind(id)
        PROVE  ListEntries'
    BY <2>1 DEF CallbackFind, ListEntries
  <2>2. ASSUME NEW id \in StreamIds, NEW s \in Sources, CallbackCreate(id, s)
        PROVE  ListEntries'
    BY <2>2 DEF CallbackCreate, ListEntries
  <2>3. CASE CallbackFrame \/ CallbackLock
    BY <2>3 DEF CallbackFrame, CallbackLock, ListEntries
  <2>4. ASSUME NEW starter \in BOOLEAN, NEW last \in BOOLEAN,
               CallbackPacket(starter, last)
        PROVE  ListEntries'
    BY <2>4, SendPacketChanges DEF CallbackPacket, ListEntries
  <2>5. QED  BY <1>2, <2>1, <2>2, <2>3, <2>4 DEF CallbackNext
<1>3. ASSUME NEW s \in Sources, FileNext(s)
      PROVE  ListEntries'
  <2>1. ASSUME NEW k \in 1 .. MaxThreads, FileStart(s, k) \/ FileLock(s, k)
        PROVE  ListEntries'
    BY <2>1 DEF FileStart, FileLock, ListEntries
  <2>2. ASSUME NEW k \in 1 .. MaxThreads, NEW starter \in BOOLEAN, FileSend(s, k, starter)
        PROVE  ListEntries'
    BY <2>2, SendPacketChanges DEF FileSend, ListEntries
  <2>3. ASSUME NEW k \in 1 .. MaxThreads, FileAgain(s, k)
        PROVE  ListEntries'
    BY <2>3 DEF FileAgain, ListEntries
  <2>4. QED  BY <1>3, <2>1, <2>2, <2>3 DEF FileNext
<1>4. CASE LevelNext
  BY <1>4, LevelLeaves DEF ListEntries
<1>5. QED  BY <1>1, <1>2, <1>3, <1>4 DEF Next

(* Only a file source that exists is given a thread.                       *)
LEMMA NoThreadsStep ==
  ASSUME IInv, Next
  PROVE  NoThreads'
<1>0. /\ ~undefined
      /\ NoThreads
      /\ kind \in [Sources -> Kinds]
      /\ playing \in [Sources -> BOOLEAN]
      /\ threads \in [Sources -> Seq(Steps)]
  BY DEF IInv, Next, TypeOK
<1> USE <1>0, SourceMapAssumption, ServerAssumption
<1> USE DEF mapVars, sourceVars, clientVars, talkerVars, appVars, Goto
<1>1. ASSUME NEW t \in Talkers, TalkerNext(t)
      PROVE  NoThreads'
  <2>1. CASE Accept(t) \/ CreateFails(t) \/ DescribeReply(t) \/ PlayClient(t)
            \/ Hangup(t) \/ LockMaster(t) \/ DeleteClient(t)
            \/ DeleteSource(t) \/ Unlock(t)
    BY <2>1 DEF Accept, CreateFails, DescribeReply, PlayClient, Hangup,
               LockMaster, DeleteClient, DeleteSource, Unlock, NoThreads
  <2>2. ASSUME NEW name \in Names, Describe(t, name)
        PROVE  NoThreads'
    BY <2>2 DEF Describe, NoThreads
  <2>3. ASSUME NEW s \in Sources, CreateLive(t, s)
        PROVE  NoThreads'
    BY <2>3 DEF CreateLive, Construct, NoThreads
  <2>4. ASSUME NEW s \in Sources, CreateFile(t, s)
        PROVE  NoThreads'
    BY <2>4 DEF CreateFile, Construct, NoThreads
  <2>5. ASSUME NEW c \in Clients, Setup(t, c)
        PROVE  NoThreads'
    BY <2>5 DEF Setup, NoThreads
  <2>6. CASE PlaySource(t)
    BY <2>6 DEF PlaySource, Play, NoThreads
  <2>7. CASE StopSource(t)
    BY <2>7 DEF StopSource, Stop, NoThreads
  <2>8. QED  BY <1>1, <2>1, <2>2, <2>3, <2>4, <2>5, <2>6, <2>7 DEF TalkerNext
<1>2. CASE CallbackNext
  <2>1. ASSUME NEW id \in StreamIds, CallbackFind(id)
        PROVE  NoThreads'
    BY <2>1 DEF CallbackFind, NoThreads
  <2>2. ASSUME NEW id \in StreamIds, NEW s \in Sources, CallbackCreate(id, s)
        PROVE  NoThreads'
    BY <2>2 DEF CallbackCreate, Construct, NoThreads
  <2>3. CASE CallbackFrame \/ CallbackLock
    BY <2>3 DEF CallbackFrame, CallbackLock, NoThreads
  <2>4. ASSUME NEW starter \in BOOLEAN, NEW last \in BOOLEAN,
               CallbackPacket(starter, last)
        PROVE  NoThreads'
    BY <2>4 DEF CallbackPacket, NoThreads
  <2>5. QED  BY <1>2, <2>1, <2>2, <2>3, <2>4 DEF CallbackNext
<1>3. ASSUME NEW s \in Sources, FileNext(s)
      PROVE  NoThreads'
  <2>1. ASSUME NEW k \in 1 .. MaxThreads, FileStart(s, k) \/ FileLock(s, k)
        PROVE  NoThreads'
    BY <2>1 DEF FileStart, FileLock, ThreadIs, NoThreads
  <2>2. ASSUME NEW k \in 1 .. MaxThreads, NEW starter \in BOOLEAN, FileSend(s, k, starter)
        PROVE  NoThreads'
    BY <2>2 DEF FileSend, ThreadIs, NoThreads
  <2>3. ASSUME NEW k \in 1 .. MaxThreads, FileAgain(s, k)
        PROVE  NoThreads'
    BY <2>3 DEF FileAgain, ThreadIs, NoThreads
  <2>4. QED  BY <1>3, <2>1, <2>2, <2>3 DEF FileNext
<1>4. CASE LevelNext
  BY <1>4, LevelLeaves DEF NoThreads
<1>5. QED  BY <1>1, <1>2, <1>3, <1>4 DEF Next

(* A step that leaves alone the talkers that are about to stop a source,   *)
(* and takes nobody's last client away.                                    *)
LEMMA StillStops ==
  ASSUME NobodyToPlayFor, lock' = lock,
         \A t \in Talkers : pc[t] = "no clients" => pc'[t] = pc[t] /\ source'[t] = source[t],
         \A s \in Sources : kind'[s] = "live" /\ playing'[s] /\ clients'[s] = {}
                           => kind[s] = "live" /\ playing[s] /\ clients[s] = {}
  PROVE  NobodyToPlayFor'
<1>1. SUFFICES ASSUME NEW s \in Sources, kind'[s] = "live", playing'[s], clients'[s] = {}
               PROVE  \E t \in Talkers : lock' = t /\ pc'[t] = "no clients" /\ source'[t] = s
  BY DEF NobodyToPlayFor
<1>2. PICK t \in Talkers : lock = t /\ pc[t] = "no clients" /\ source[t] = s
  BY <1>1 DEF NobodyToPlayFor
<1>3. QED  BY <1>2

(* A source plays because somebody has a client there, and the talker that *)
(* takes the last one away stops it before it releases the lock.           *)
LEMMA NobodyToPlayForStep ==
  ASSUME IInv, Next
  PROVE  NobodyToPlayFor'
<1>0. /\ ~undefined
      /\ NobodyToPlayFor /\ NoThreads /\ LockHeld /\ ClientPlaced /\ TalkerKnows
      /\ pc \in [Talkers -> Phases]
      /\ kind \in [Sources -> Kinds]
      /\ playing \in [Sources -> BOOLEAN]
      /\ clients \in [Sources -> SUBSET Clients]
      /\ source \in [Talkers -> Sources \cup {NoSource}]
  BY DEF IInv, Next, TypeOK
<1> USE <1>0, SourceMapAssumption, ServerAssumption
<1> USE DEF mapVars, sourceVars, clientVars, talkerVars, appVars, Goto
<1>1. ASSUME NEW t \in Talkers, TalkerNext(t)
      PROVE  NobodyToPlayFor'
  <2>1. CASE Accept(t) \/ CreateFails(t) \/ DescribeReply(t) \/ PlayClient(t)
            \/ Hangup(t)
    <3>1. CASE Accept(t)  BY <3>1 DEF Accept, NobodyToPlayFor
    <3>2. CASE CreateFails(t)  BY <3>2 DEF CreateFails, NobodyToPlayFor
    <3>3. CASE DescribeReply(t)  BY <3>3 DEF DescribeReply, NobodyToPlayFor
    <3>4. CASE PlayClient(t)  BY <3>4 DEF PlayClient, NobodyToPlayFor
    <3>5. CASE Hangup(t)
      <4>1. \A u \in Talkers : pc[u] = "no clients" => pc'[u] = pc[u] /\ source'[u] = source[u]
        BY <3>5 DEF Hangup, DeleteTalker
      <4>2. QED  BY <3>5, <4>1, StillStops DEF Hangup
    <3>6. QED  BY <2>1, <3>1, <3>2, <3>3, <3>4, <3>5
  <2>2. ASSUME NEW name \in Names, Describe(t, name)
        PROVE  NobodyToPlayFor'
    <3>1. \A u \in Talkers : pc[u] = "no clients" => pc'[u] = pc[u] /\ source'[u] = source[u]
      BY <2>2 DEF Describe
    <3>2. UNCHANGED << lock, kind, playing, clients >>
      BY <2>2 DEF Describe
    <3>3. QED  BY <3>1, <3>2, StillStops
  <2>3. ASSUME NEW s \in Sources, CreateLive(t, s)
        PROVE  NobodyToPlayFor'
    BY <2>3 DEF CreateLive, Construct, NoThreads, TalkerKnows, NobodyToPlayFor
  <2>4. ASSUME NEW s \in Sources, CreateFile(t, s)
        PROVE  NobodyToPlayFor'
    BY <2>4 DEF CreateFile, Construct, NobodyToPlayFor
  <2>5. ASSUME NEW c \in Clients, Setup(t, c)
        PROVE  NobodyToPlayFor'
    BY <2>5 DEF Setup, NobodyToPlayFor
  <2>6. CASE PlaySource(t)
    <3>1. source[t] \in Sources /\ streamer[client[t]] = source[t] /\ clients[source[t]] # {}
      BY <2>6 DEF PlaySource, TalkerKnows, ClientPlaced
    <3>2. \A s \in Sources : s # source[t] => playing'[s] = playing[s]
      BY <2>6, <3>1 DEF PlaySource, Play
    <3>3. \A u \in Talkers : pc[u] = "no clients" => pc'[u] = pc[u]
      BY <2>6 DEF PlaySource
    <3>4. UNCHANGED << lock, kind, clients, source >>
      BY <2>6 DEF PlaySource
    <3>5. QED  BY <3>1, <3>2, <3>3, <3>4, StillStops
  <2>7. CASE LockMaster(t)
    BY <2>7 DEF LockMaster, Acquire, NobodyToPlayFor
  <2>8. CASE DeleteClient(t)
    <3>1. /\ client[t] \in Clients /\ source[t] \in Sources
          /\ Owner(client[t]) = t /\ streamer[client[t]] = source[t]
      BY <2>8 DEF DeleteClient, TalkerKnows, ClientPlaced
    <3>2. clients' = [clients EXCEPT ![source[t]] = @ \ {client[t]}]
      <4>1. clients' = [clients EXCEPT ![streamer[client[t]]] = @ \ {client[t]}]
        BY <2>8 DEF DeleteClient, RemoveClient
      <4>2. QED  BY <3>1, <4>1
    <3>3. lock = t /\ pc[t] = "locked" /\ UNCHANGED << lock, kind, playing, source >>
      BY <2>8 DEF DeleteClient, LockHeld, Locked
    <3>4. clients[source[t]] \ {client[t]} = {} => pc'[t] = "no clients"
      BY <2>8, <3>1 DEF DeleteClient
    <3>5. \A s \in Sources : ~(kind[s] = "live" /\ playing[s] /\ clients[s] = {})
      BY <3>3 DEF NobodyToPlayFor
    <3>6. \A s \in Sources : s # source[t] => clients'[s] = clients[s]
      BY <3>2
    <3>7. clients'[source[t]] = clients[source[t]] \ {client[t]}
      BY <3>1, <3>2
    <3>8. SUFFICES ASSUME NEW s \in Sources, kind'[s] = "live", playing'[s], clients'[s] = {}
                   PROVE  lock' = t /\ pc'[t] = "no clients" /\ source'[t] = s
      BY DEF NobodyToPlayFor
    <3>9. s = source[t]
      BY <3>3, <3>5, <3>6, <3>8
    <3>10. QED  BY <3>3, <3>4, <3>7, <3>8, <3>9
  <2>9. CASE StopSource(t)
    BY <2>9 DEF StopSource, Stop, NobodyToPlayFor
  <2>10. CASE DeleteSource(t)
    BY <2>10 DEF DeleteSource, TalkerKnows, NobodyToPlayFor
  <2>11. CASE Unlock(t)
    BY <2>11 DEF Unlock, Release, DeleteTalker, LockHeld, Locked, NobodyToPlayFor
  <2>12. QED  BY <1>1, <2>1, <2>2, <2>3, <2>4, <2>5, <2>6, <2>7, <2>8, <2>9, <2>10, <2>11 DEF TalkerNext
<1>2. CASE CallbackNext
  <2>1. ASSUME NEW id \in StreamIds, CallbackFind(id)
        PROVE  NobodyToPlayFor'
    BY <2>1 DEF CallbackFind, NobodyToPlayFor
  <2>2. ASSUME NEW id \in StreamIds, NEW s \in Sources, CallbackCreate(id, s)
        PROVE  NobodyToPlayFor'
    BY <2>2 DEF CallbackCreate, Construct, NoThreads, NobodyToPlayFor
  <2>3. CASE CallbackFrame \/ CallbackLock
    BY <2>3 DEF CallbackFrame, CallbackLock, NobodyToPlayFor
  <2>4. ASSUME NEW starter \in BOOLEAN, NEW last \in BOOLEAN,
               CallbackPacket(starter, last)
        PROVE  NobodyToPlayFor'
    BY <2>4 DEF CallbackPacket, NobodyToPlayFor
  <2>5. QED  BY <1>2, <2>1, <2>2, <2>3, <2>4 DEF CallbackNext
<1>3. ASSUME NEW s \in Sources, FileNext(s)
      PROVE  NobodyToPlayFor'
  <2>1. ASSUME NEW k \in 1 .. MaxThreads, FileStart(s, k)
        PROVE  NobodyToPlayFor'
    <3>1. kind[s] # "live"
      BY <2>1 DEF FileStart, ThreadIs, NoThreads
    <3>2. \A r \in Sources : r # s => playing'[r] = playing[r]
      BY <2>1 DEF FileStart
    <3>3. UNCHANGED << lock, kind, clients, pc, source >>
      BY <2>1 DEF FileStart
    <3>4. QED  BY <3>1, <3>2, <3>3 DEF NobodyToPlayFor
  <2>2. ASSUME NEW k \in 1 .. MaxThreads, NEW starter \in BOOLEAN, FileSend(s, k, starter)
        PROVE  NobodyToPlayFor'
    BY <2>2 DEF FileSend, NobodyToPlayFor
  <2>3. ASSUME NEW k \in 1 .. MaxThreads, FileLock(s, k) \/ FileAgain(s, k)
        PROVE  NobodyToPlayFor'
    BY <2>3 DEF FileLock, FileAgain, NobodyToPlayFor
  <2>4. QED  BY <1>3, <2>1, <2>2, <2>3 DEF FileNext
<1>4. CASE LevelNext
  BY <1>4, LevelLeaves DEF NobodyToPlayFor
<1>5. QED  BY <1>1, <1>2, <1>3, <1>4 DEF Next

(* The callback keeps the source it found.                                 *)
LEMMA CallbackKnowsStep ==
  ASSUME IInv, Next
  PROVE  CallbackKnows'
<1>0. CallbackKnows /\ byId \in [StreamIds -> Sources \cup {NoSource}]
  BY DEF IInv, TypeOK, MapTypeOK
<1> USE <1>0, SourceMapAssumption DEF CallbackKnows
<1>1. ASSUME NEW t \in Talkers, TalkerNext(t)
      PROVE  callback' = callback
  BY <1>1 DEF TalkerNext, Accept, Describe, CreateLive, CreateFile, CreateFails, DescribeReply,
              Setup, PlayClient, PlaySource, Hangup, LockMaster, DeleteClient, StopSource,
              DeleteSource, Unlock, appVars
<1>2. CASE CallbackNext
  BY <1>2 DEF CallbackNext, CallbackFind, CallbackCreate, CallbackFrame, CallbackLock, CallbackPacket,
              CallbackDoes
<1>3. ASSUME NEW s \in Sources, FileNext(s)
      PROVE  callback' = callback
  BY <1>3 DEF FileNext, FileStart, FileLock, FileSend, FileAgain, appVars
<1>4. CASE LevelNext
  BY <1>4, LevelLeaves
<1>5. QED  BY <1>1, <1>2, <1>3, <1>4 DEF Next

(* What was constructed stays a source, though it may be a deleted one.     *)
LEMMA Constructed ==
  ASSUME IInv, Next, NEW s \in Sources, kind[s] # "none"
  PROVE  kind'[s] # "none"
<1>0. kind \in [Sources -> Kinds]
  BY DEF IInv, TypeOK
<1>1. ASSUME NEW t \in Talkers, TalkerNext(t)
      PROVE  kind'[s] # "none"
  BY <1>0, <1>1 DEF TalkerNext, Accept, Describe, CreateLive, CreateFile, CreateFails,
     DescribeReply, Setup, PlayClient, PlaySource, Hangup, LockMaster, DeleteClient,
     StopSource, DeleteSource, Unlock, Construct, sourceVars
<1>2. CASE CallbackNext
  BY <1>0, <1>2 DEF CallbackNext, CallbackFind, CallbackCreate, CallbackFrame, CallbackLock,
     CallbackPacket, Construct, sourceVars
<1>3. ASSUME NEW r \in Sources, FileNext(r)
      PROVE  kind'[s] # "none"
  BY <1>3 DEF FileNext, FileStart, FileLock, FileSend, FileAgain
<1>4. QED  BY <1>1, <1>2, <1>3, LevelLeaves DEF Next

(* Who sets a level has found the source in the map, where they all exist.  *)
LEMMA WalkerKnowsStep ==
  ASSUME IInv, Next
  PROVE  WalkerKnows'
<1>0. /\ WalkerKnows /\ MapEntries
      /\ walker \in [source : Sources \cup {NoSource}, client : Clients \cup {NoClient}]
  BY DEF IInv, TypeOK
<1>1. CASE walker' = walker
  BY <1>0, <1>1, Constructed DEF WalkerKnows
<1>2. ASSUME NEW t \in Talkers, TalkerNext(t)
      PROVE  walker' = walker
  BY <1>2 DEF TalkerNext, Accept, Describe, CreateLive, CreateFile, CreateFails, DescribeReply,
              Setup, PlayClient, PlaySource, Hangup, LockMaster, DeleteClient, StopSource,
              DeleteSource, Unlock, appVars
<1>3. CASE CallbackNext
  BY <1>1, <1>3 DEF CallbackNext, CallbackFind, CallbackCreate, CallbackFrame, CallbackLock,
     CallbackPacket
<1>4. ASSUME NEW s \in Sources, FileNext(s)
      PROVE  walker' = walker
  BY <1>4 DEF FileNext, FileStart, FileLock, FileSend, FileAgain, appVars
<1>5. ASSUME NEW name \in Names, LevelFind(name)
      PROVE  WalkerKnows'
  <2>1. kind[byName[name]] # "none" /\ byName[name] # NoSource /\ SetsLevel
    BY <1>0, <1>5 DEF LevelFind, MapEntries
  <2>2. walker'.source = byName[name] /\ kind' = kind
    BY <1>0, <1>5 DEF LevelFind, sourceVars
  <2>3. QED  BY <2>1, <2>2 DEF WalkerKnows
<1>6. CASE LevelSet
  <2>1. (walker' = Idle \/ walker'.source = walker.source) /\ walker # Idle /\ kind' = kind
    BY <1>0, <1>6 DEF LevelSet, sourceVars
  <2>2. QED  BY <1>0, <2>1 DEF WalkerKnows, Idle
<1>7. QED  BY <1>1, <1>2, <1>3, <1>4, <1>5, <1>6 DEF Next, LevelNext

--------------------------------------------------------------------------------
(* Nothing exists yet.                                                     *)
LEMMA Initially == Init => IInv
<1> SUFFICES ASSUME Init
             PROVE  IInv
  OBVIOUS
<1> USE SourceMapAssumption, ServerAssumption DEF Init, MapInit
<1>1. TypeOK
  <2>1. threads \in [Sources -> Seq(Steps)]
    BY EmptySeq
  <2>2. /\ callback \in [phase : {"idle", "found", "sending", "packet"},
                        source : Sources \cup {NoSource}]
        /\ walker \in [source : Sources \cup {NoSource}, client : Clients \cup {NoClient}]
    BY DEF Idle
  <2>3. playing \in [Sources -> BOOLEAN] /\ undefined \in BOOLEAN
    OBVIOUS
  <2>4. /\ clients \in [Sources -> SUBSET Clients]
        /\ state \in [Clients -> ClientStates]
        /\ streamer \in [Clients -> Sources \cup {NoSource}]
        /\ client \in [Talkers -> Clients \cup {NoClient}]
    BY DEF ClientStates
  <2>5. QED  BY <2>1, <2>2, <2>3, <2>4 DEF TypeOK, MapTypeOK, Kinds, Phases
<1>2. LockHeld /\ TalkerKnows /\ ClientPlaced
  BY DEF LockHeld, Locked, TalkerKnows, ClientPlaced
<1>3. /\ MapEntries /\ ListEntries /\ NoThreads /\ NobodyToPlayFor
      /\ CallbackKnows /\ WalkerKnows
  BY DEF MapEntries, ListEntries, NoThreads, NobodyToPlayFor, CallbackKnows, WalkerKnows
<1>4. QED  BY <1>1, <1>2, <1>3 DEF IInv

(* The inductive invariant.                                                *)
THEOREM Inductive == Spec => []IInv
<1>1. IInv /\ UNCHANGED vars => IInv'
  <2> SUFFICES ASSUME IInv, UNCHANGED vars
               PROVE  IInv'
    OBVIOUS
  <2> USE DEF IInv, vars, mapVars, sourceVars, clientVars, talkerVars, appVars
  <2>1. TypeOK'  BY DEF TypeOK, MapTypeOK
  <2>2. CallbackKnows' /\ WalkerKnows' /\ LockHeld' /\ TalkerKnows' /\ ClientPlaced'
    BY DEF CallbackKnows, WalkerKnows, LockHeld, TalkerKnows, ClientPlaced
  <2>3. MapEntries' /\ ListEntries' /\ NoThreads'
    BY DEF MapEntries, ListEntries, NoThreads
  <2>4. NobodyToPlayFor'
    BY StillStops
  <2>5. QED  BY <2>1, <2>2, <2>3, <2>4
<1>2. IInv /\ Next => IInv'
  BY TypeStep, LockHeldStep, MapEntriesStep, TalkerKnowsStep, ClientPlacedStep,
     ListEntriesStep, NoThreadsStep, NobodyToPlayForStep, CallbackKnowsStep,
     WalkerKnowsStep DEF IInv
<1>3. QED  BY <1>1, <1>2, Initially, PTL DEF Spec

(* Every variable keeps its type.                                          *)
THEOREM TypeCorrect == Spec => []TypeOK
<1>1. IInv => TypeOK
  BY DEF IInv
<1>2. QED  BY <1>1, Inductive, PTL

(* No lookup by a talker or by the SDK callback returns a deleted source.  *)
THEOREM MapIsSound == Spec => []MapSound
<1>1. IInv => MapSound
  BY SourceMapAssumption DEF IInv, TypeOK, MapTypeOK, MapEntries, MapSound, Reachable, Exists
<1>2. QED  BY <1>1, Inductive, PTL

(* A frame is sent through existing clients only, and teardown() finds the *)
(* client it deletes where it looks for it.                                *)
THEOREM ListsAreSound == Spec => []ListsSound
<1>1. IInv => ListsSound
  BY DEF IInv, TypeOK, ListEntries, ClientPlaced, ListsSound, Exists
<1>2. QED  BY <1>1, Inductive, PTL

(* A live source nobody listens to is stopped, or about to be.             *)
THEOREM LiveSourcesStop == Spec => []NobodyToPlayFor
<1>1. IInv => NobodyToPlayFor
  BY DEF IInv
<1>2. QED  BY <1>1, Inductive, PTL

(* Nothing else makes a source go away.                                    *)
LEMMA OnlyDeleteSource ==
  ASSUME IInv, [Next]_vars, NEW s \in Sources, Exists(s), ~Exists(s)'
  PROVE  ~undefined /\ \E t \in Talkers : DeleteSource(t)
<1>0. kind \in [Sources -> Kinds] /\ kind'[s] # kind[s] /\ kind[s] # "none"
  BY DEF IInv, TypeOK, Exists
<1>1. CASE UNCHANGED vars
  BY <1>0, <1>1 DEF vars, sourceVars
<1>2. ASSUME NEW t \in Talkers, TalkerNext(t)
      PROVE  DeleteSource(t)
  BY <1>0, <1>2 DEF TalkerNext, Accept, Describe, CreateLive, CreateFile, CreateFails,
     DescribeReply, Setup, PlayClient, PlaySource, Hangup, LockMaster, DeleteClient,
     StopSource, Unlock, Construct, sourceVars
<1>3. CASE CallbackNext
  BY <1>0, <1>3 DEF CallbackNext, CallbackFind, CallbackCreate, CallbackFrame, CallbackLock, CallbackPacket,
     Construct, sourceVars
<1>4. ASSUME NEW r \in Sources, FileNext(r)
      PROVE  FALSE
  BY <1>0, <1>4 DEF FileNext, FileStart, FileLock, FileSend, FileAgain
<1>5. QED  BY <1>0, <1>1, <1>2, <1>3, <1>4, LevelLeaves DEF Next

(* Sources are deleted by the holder of the lock only, are file sources,    *)
(* and leave the map in the same step.                                     *)
THEOREM DeletionIsLocked == Spec => DeletedUnderLock
<1> DEFINE Deletes == \A s \in Sources : Exists(s) /\ ~Exists(s)' =>
                        /\ \E t \in Talkers : lock = t /\ lock' = t /\ source[t] = s
                        /\ kind[s] = "file"
                        /\ s \notin Reachable'
<1>1. IInv /\ IInv' /\ [Next]_vars => Deletes
  <2> SUFFICES ASSUME IInv, IInv', [Next]_vars, NEW s \in Sources, Exists(s), ~Exists(s)'
               PROVE  /\ \E t \in Talkers : lock = t /\ lock' = t /\ source[t] = s
                      /\ kind[s] = "file"
                      /\ s \notin Reachable'
    OBVIOUS
  <2>1. PICK t \in Talkers : ~undefined /\ DeleteSource(t)
    BY OnlyDeleteSource
  <2>2. source[t] = s
    BY <2>1 DEF DeleteSource, Exists, IInv, TypeOK, Kinds
  <2>3. kind[s] = "file" /\ lock = t /\ lock' = t
    BY <2>1, <2>2 DEF DeleteSource, IInv, LockHeld, Locked, Exists, TalkerKnows
  <2>4. s \notin Reachable'
    BY DEF IInv, MapEntries, Exists, Reachable
  <2>5. QED  BY <2>2, <2>3, <2>4
<1>2. QED  BY <1>1, Inductive, PTL DEF Spec, DeletedUnderLock

--------------------------------------------------------------------------------
(* A client in a list is the one its talker still knows, unless the talker  *)
(* made another one, with a second SETUP.                                   *)
KnownClients ==
  \A s \in Sources : \A c \in clients[s] : client[Owner(c)] = c \/ Replaced(c)

(* No client is made twice.                                                *)
LEMMA ClientsStay ==
  ASSUME IInv, Next, NEW c \in Clients, state[c] # "none"
  PROVE  state'[c] # "none"
<1>0. /\ state \in [Clients -> ClientStates] /\ TalkerKnows
      /\ client \in [Talkers -> Clients \cup {NoClient}]
  BY DEF IInv, TypeOK
<1>1. ASSUME NEW t \in Talkers, TalkerNext(t)
      PROVE  state'[c] # "none"
  <2>1. CASE \E d \in Clients : Setup(t, d)
    BY <1>0, <2>1 DEF Setup
  <2>2. CASE PlayClient(t)
    BY <1>0, <2>2 DEF PlayClient
  <2>3. CASE DeleteClient(t)
    BY <1>0, <2>3 DEF DeleteClient
  <2>4. TalkerNext(t) => \/ \E d \in Clients : Setup(t, d)
                        \/ PlayClient(t)
                        \/ DeleteClient(t)
                        \/ UNCHANGED state
    BY DEF TalkerNext, Accept, Describe, CreateLive, CreateFile, CreateFails, DescribeReply,
       PlaySource, Hangup, LockMaster, StopSource, DeleteSource, Unlock, clientVars
  <2>5. QED  BY <1>1, <2>1, <2>2, <2>3, <2>4
<1>2. ASSUME NEW s, NEW starter, SendPacket(s, starter)
      PROVE  state'[c] # "none"
  BY <1>2 DEF SendPacket
<1>3. CASE CallbackNext
  BY <1>2, <1>3 DEF CallbackNext, CallbackFind, CallbackCreate, CallbackFrame, CallbackLock, CallbackPacket,
     clientVars
<1>4. ASSUME NEW s \in Sources, FileNext(s)
      PROVE  state'[c] # "none"
  BY <1>2, <1>4 DEF FileNext, FileStart, FileLock, FileSend, FileAgain, clientVars
<1>5. QED  BY <1>1, <1>3, <1>4, LevelLeaves DEF Next

LEMMA StillReplaced ==
  ASSUME IInv, Next, NEW c \in Clients, Replaced(c)
  PROVE  Replaced(c)'
<1>1. PICK d \in Clients : d # c /\ Owner(d) = Owner(c) /\ state[d] # "none"
  BY DEF Replaced
<1>2. state'[d] # "none"
  BY <1>1, ClientsStay
<1>3. QED  BY <1>1, <1>2 DEF Replaced

(* A talker forgets a client when it makes another one, and otherwise only  *)
(* in the step that takes it out of its list.                               *)
LEMMA KnownClientsStep ==
  ASSUME IInv, KnownClients, Next
  PROVE  KnownClients'
<1>0. /\ ClientPlaced /\ ListEntries /\ TalkerKnows
      /\ clients \in [Sources -> SUBSET Clients]
      /\ source \in [Talkers -> Sources \cup {NoSource}]
      /\ client \in [Talkers -> Clients \cup {NoClient}]
      /\ state \in [Clients -> ClientStates]
      /\ \A c \in Clients : Owner(c) \in Talkers
  BY DEF IInv, TypeOK, Clients, Owner
<1> USE <1>0
<1>r. ASSUME NEW c \in Clients, Replaced(c)
      PROVE  Replaced(c)'
  BY <1>r, StillReplaced
<1>1. ASSUME NEW t \in Talkers, TalkerNext(t)
      PROVE  KnownClients'
  <2>1. ASSUME NEW c \in Clients, Setup(t, c)
        PROVE  KnownClients'
    <3>1. /\ clients' = [clients EXCEPT ![source[t]] = @ \cup {c}]
          /\ client' = [client EXCEPT ![t] = c]
          /\ state' = [state EXCEPT ![c] = "STOP"]
          /\ Owner(c) = t
      BY <2>1 DEF Setup
    <3>2. SUFFICES ASSUME NEW s \in Sources, NEW d \in clients'[s]
                   PROVE  client'[Owner(d)] = d \/ Replaced(d)'
      BY DEF KnownClients
    <3>3. (d = c \/ d \in clients[s]) /\ d \in Clients
      BY <3>1
    <3>4. CASE d = c
      BY <3>1, <3>4
    <3>5. CASE d # c /\ Owner(d) = t
      <4>1. state'[c] # "none" /\ Owner(c) = Owner(d)
        BY <3>1, <3>5
      <4>2. QED  BY <3>5, <4>1 DEF Replaced
    <3>6. CASE d # c /\ Owner(d) # t
      <4>1. client[Owner(d)] = d \/ Replaced(d)
        BY <3>3, <3>6 DEF KnownClients
      <4>2. QED  BY <1>r, <3>1, <3>3, <3>6, <4>1
    <3>7. QED  BY <3>4, <3>5, <3>6
  <2>2. CASE DeleteClient(t)
    <3>1. /\ client[t] # NoClient /\ streamer[client[t]] = source[t] /\ source[t] \in Sources
          /\ client' = [client EXCEPT ![t] = NoClient]
      BY <2>2 DEF DeleteClient, TalkerKnows, ClientPlaced
    <3>2. clients' = [clients EXCEPT ![source[t]] = @ \ {client[t]}]
      <4>1. clients' = [clients EXCEPT ![streamer[client[t]]] = @ \ {client[t]}]
        BY <2>2 DEF DeleteClient, RemoveClient
      <4>2. QED  BY <3>1, <4>1
    <3>3. SUFFICES ASSUME NEW s \in Sources, NEW d \in clients'[s], ~Replaced(d)
                   PROVE  client[Owner(d)] = d /\ Owner(d) # t /\ Owner(d) \in Talkers
      BY <1>r, <3>1, <3>2 DEF KnownClients
    <3>4. d \in clients[s]
      BY <3>2
    <3>5. client[Owner(d)] = d /\ streamer[d] = s /\ Owner(d) \in Talkers
      BY <3>3, <3>4 DEF KnownClients, ListEntries
    <3>6. CASE Owner(d) = t
      BY <3>1, <3>2, <3>5, <3>6
    <3>7. QED  BY <3>5, <3>6
  <2>3. CASE UNCHANGED << clients, client >>
    BY <1>r, <2>3 DEF KnownClients
  <2>4. TalkerNext(t) => \/ \E c \in Clients : Setup(t, c)
                        \/ DeleteClient(t)
                        \/ UNCHANGED << clients, client >>
    BY DEF TalkerNext, Accept, Describe, CreateLive, CreateFile, CreateFails, DescribeReply,
       PlayClient, PlaySource, Hangup, LockMaster, StopSource, DeleteSource, Unlock,
       sourceVars
  <2>5. QED  BY <1>1, <2>1, <2>2, <2>3, <2>4
<1>2. CASE CallbackNext \/ (\E s \in Sources : FileNext(s)) \/ LevelNext
  <2>1. UNCHANGED << clients, client >>
    BY <1>2, OnlyTalkers
  <2>2. QED  BY <1>r, <2>1 DEF KnownClients
<1>3. QED  BY <1>1, <1>2 DEF Next

LEMMA ClientsAreKnown == Spec => []KnownClients
<1>1. Init => KnownClients
  BY DEF Init, KnownClients
<1>2. IInv /\ KnownClients /\ [Next]_vars => KnownClients'
  <2>1. CASE UNCHANGED vars
    BY <2>1 DEF KnownClients, Replaced, vars, sourceVars, talkerVars, clientVars
  <2>2. QED  BY <2>1, KnownClientsStep
<1>3. QED  BY <1>1, <1>2, Inductive, PTL DEF Spec

(* A talker that ends leaves no client behind, however often it set up,     *)
(* but those its own later SETUP replaced.                                  *)
THEOREM TeardownIsComplete == Spec => []TeardownComplete
<1>1. IInv /\ KnownClients => TeardownComplete
  <2> SUFFICES ASSUME IInv, KnownClients, NEW s \in Sources, NEW c \in clients[s], ~Replaced(c)
               PROVE  pc[Owner(c)] # "gone"
    BY DEF TeardownComplete
  <2>1. c \in Clients /\ Owner(c) \in Talkers /\ client[Owner(c)] = c
    BY DEF IInv, TypeOK, Clients, Owner, KnownClients
  <2>2. c # NoClient
    BY <2>1, ServerAssumption
  <2>3. QED  BY <2>1, <2>2 DEF IInv, TalkerKnows
<1>2. QED  BY <1>1, ClientsAreKnown, Inductive, PTL

--------------------------------------------------------------------------------
(* While nothing was undefined: a talker and the callback only know sources *)
(* that were constructed, the callback only live ones; who joins has a      *)
(* thread to join; and the last thread of a deleted source is done.         *)
SourcesKnown ==
  ~undefined =>
    /\ \A t \in Talkers : source[t] # NoSource => kind[source[t]] # "none"
    /\ callback.phase # "idle" => kind[callback.source] = "live"
    /\ \A t \in Talkers : pc[t] = "joining" => threads[source[t]] # << >>
    /\ \A s \in Sources : kind[s] = "deleted" => threads[s] # << >> /\ Joined(s)

(* The steps of a talker that only move it on, and may forget its source.   *)
LEMMA MovingOn ==
  ASSUME IInv, SourcesKnown, ~undefined, UNCHANGED << kind, threads, callback >>,
         NEW t \in Talkers, NEW phase, phase # "joining",
         \/ UNCHANGED << pc, source >>
         \/ /\ pc' = [pc EXCEPT ![t] = phase]
            /\ source' = source \/ source' = [source EXCEPT ![t] = NoSource]
  PROVE  SourcesKnown'
<1>0. pc \in [Talkers -> Phases] /\ source \in [Talkers -> Sources \cup {NoSource}]
  BY DEF IInv, TypeOK
<1>1. \A u \in Talkers : source'[u] = source[u] \/ source'[u] = NoSource
  BY <1>0
<1>2. \A u \in Talkers : pc'[u] = "joining" => pc[u] = "joining" /\ source'[u] = source[u]
  BY <1>0
<1>3. QED  BY <1>1, <1>2 DEF SourcesKnown, Joined

(* A new source is none that anybody knows.                                *)
LEMMA ConstructingKnows ==
  ASSUME IInv, SourcesKnown, ~undefined, UNCHANGED threads,
         NEW s \in Sources, NEW k \in {"live", "file"}, Construct(s, k),
         \/ /\ UNCHANGED callback
            /\ \E t \in Talkers : /\ source' = [source EXCEPT ![t] = s]
                                  /\ pc' = [pc EXCEPT ![t] = "describing"]
         \/ /\ UNCHANGED << source, pc >>
            /\ k = "live" /\ callback'.source = s
  PROVE  SourcesKnown'
<1>0. /\ kind \in [Sources -> Kinds] /\ pc \in [Talkers -> Phases]
      /\ source \in [Talkers -> Sources \cup {NoSource}]
      /\ callback.source \in Sources \cup {NoSource}
      /\ callback.phase # "idle" => callback.source # NoSource
      /\ \A t \in Talkers : pc[t] = "joining" => source[t] # NoSource
  BY DEF IInv, TypeOK, CallbackKnows, TalkerKnows
<1>1. kind[s] = "none" /\ kind' = [kind EXCEPT ![s] = k]
  BY DEF Construct
<1>2. /\ \A t \in Talkers : source[t] # NoSource => source[t] # s
      /\ callback.phase # "idle" => callback.source # s
  BY <1>1 DEF SourcesKnown
<1>3. \A t \in Talkers : source'[t] # NoSource => kind'[source'[t]] # "none"
  BY <1>0, <1>1, <1>2 DEF SourcesKnown
<1>4. callback'.phase # "idle" => kind'[callback'.source] = "live"
  BY <1>0, <1>1, <1>2 DEF SourcesKnown
<1>5. \A t \in Talkers : pc'[t] = "joining" => threads'[source'[t]] # << >>
  BY <1>0 DEF SourcesKnown
<1>6. \A r \in Sources : kind'[r] = "deleted" => threads'[r] # << >> /\ Joined(r)'
  BY <1>0, <1>1 DEF SourcesKnown, Joined
<1>7. QED  BY <1>3, <1>4, <1>5, <1>6 DEF SourcesKnown

(* A thread of a file goes on, or a new one starts: what was deleted has no *)
(* new one, and its last one stays done.                                   *)
LEMMA ThreadsGoOn ==
  ASSUME IInv, SourcesKnown, ~undefined, UNCHANGED << kind, callback, source >>,
         NEW s \in Sources,
         \/ /\ kind[s] = "file"
            /\ threads' = [threads EXCEPT ![s] = Append(@, "starting")]
         \/ \E k, old, next : /\ ThreadIs(s, k, old) /\ old # "done"
                              /\ threads' = [threads EXCEPT ![s][k] = next],
         \A t \in Talkers : pc'[t] = "joining" => pc[t] = "joining"
  PROVE  SourcesKnown'
<1>0. /\ threads \in [Sources -> Seq(Steps)]
      /\ source \in [Talkers -> Sources \cup {NoSource}]
      /\ \A t \in Talkers : pc[t] = "joining" => source[t] # NoSource
  BY DEF IInv, TypeOK, TalkerKnows
<1> DEFINE GoesOn ==
             /\ \A r \in Sources : r # s => threads'[r] = threads[r]
             /\ threads[s] # << >> => threads'[s] # << >>
             /\ kind[s] = "deleted" => /\ Len(threads'[s]) = Len(threads[s])
                                       /\ threads'[s][Len(threads[s])] = "done"
<1>1. GoesOn
  <2>1. CASE kind[s] = "file" /\ threads' = [threads EXCEPT ![s] = Append(@, "starting")]
    BY <1>0, <2>1
  <2>2. ASSUME NEW k, NEW old, NEW next, ThreadIs(s, k, old), old # "done",
               threads' = [threads EXCEPT ![s][k] = next]
        PROVE  GoesOn
    <3>1. threads[s] \in Seq(Steps)
          /\ k \in 1 .. Len(threads[s]) /\ threads[s][k] = old
      BY <1>0, <2>2 DEF ThreadIs
    <3>2. /\ \A r \in Sources : r # s => threads'[r] = threads[r]
          /\ threads'[s] = [threads[s] EXCEPT ![k] = next]
      BY <1>0, <2>2
    <3>3. /\ DOMAIN threads'[s] = 1 .. Len(threads[s])
          /\ \A j \in 1 .. Len(threads[s]) : j # k => threads'[s][j] = threads[s][j]
      BY <3>1, <3>2
    <3>4. Len(threads'[s]) = Len(threads[s]) /\ Len(threads[s]) \in Nat
      BY <3>1, <3>3, LenProperties
    <3>5. ASSUME kind[s] = "deleted"
          PROVE  threads'[s][Len(threads[s])] = "done"
      <4>1. threads[s] # << >> /\ threads[s][Len(threads[s])] = "done"
        BY <3>5 DEF SourcesKnown, Joined
      <4>2. Len(threads[s]) \in 1 .. Len(threads[s]) /\ k # Len(threads[s])
        BY <2>2, <3>1, <4>1
      <4>3. QED  BY <3>3, <4>1, <4>2
    <3>6. threads'[s] # << >>
      BY <3>1, <3>3
    <3>7. QED  BY <3>2, <3>4, <3>5, <3>6
  <2> HIDE DEF GoesOn
  <2>3. QED  BY <2>1, <2>2
<1>2. \A r \in Sources : kind'[r] = "deleted" => threads'[r] # << >> /\ Joined(r)'
  BY <1>1 DEF SourcesKnown, Joined
<1>3. \A t \in Talkers : pc'[t] = "joining" => threads'[source'[t]] # << >>
  BY <1>0, <1>1 DEF SourcesKnown
<1>4. QED  BY <1>2, <1>3 DEF SourcesKnown

(* What a talker's step changes of what is known.                          *)
LEMMA TalkerKeepsKnown ==
  ASSUME IInv, SourcesKnown, ~undefined, ~undefined', NEW t \in Talkers, TalkerNext(t)
  PROVE  SourcesKnown'
<1>0. /\ kind \in [Sources -> Kinds] /\ pc \in [Talkers -> Phases]
      /\ source \in [Talkers -> Sources \cup {NoSource}]
      /\ byName \in [Names -> Sources \cup {NoSource}]
      /\ MapEntries /\ TalkerKnows /\ CallbackKnows /\ ClientPlaced
      /\ callback.source \in Sources \cup {NoSource}
  BY DEF IInv, TypeOK, MapTypeOK
<1>1. CASE \/ Accept(t) \/ CreateFails(t) \/ DescribeReply(t) \/ PlayClient(t)
           \/ LockMaster(t) \/ \E c \in Clients : Setup(t, c)
  <2>1. UNCHANGED << kind, threads, source, callback >>
    BY <1>1 DEF Accept, CreateFails, DescribeReply, PlayClient, LockMaster, Setup,
       sourceVars, appVars
  <2>2. \/ pc' = pc
        \/ \E phase \in {"receiving", "playing", "locked"} : pc' = [pc EXCEPT ![t] = phase]
    BY <1>1 DEF Accept, CreateFails, DescribeReply, PlayClient, LockMaster, Setup, Goto
  <2>3. QED  BY <2>1, <2>2, MovingOn
<1>2. CASE Hangup(t) \/ DeleteClient(t) \/ Unlock(t)
  <2>1. UNCHANGED << kind, threads, callback >>
    BY <1>2 DEF Hangup, DeleteClient, Unlock, sourceVars, appVars
  <2>2. /\ \E phase \in {"tearing down", "gone", "no clients", "unlocking"} :
             pc' = [pc EXCEPT ![t] = phase]
        /\ source' = source \/ source' = [source EXCEPT ![t] = NoSource]
    BY <1>2 DEF Hangup, DeleteClient, Unlock, DeleteTalker, Goto
  <2>3. QED  BY <2>1, <2>2, MovingOn
<1>3. ASSUME NEW name \in Names, Describe(t, name)
      PROVE  SourcesKnown'
  <2>1. UNCHANGED << kind, threads, callback >>
    BY <1>3 DEF Describe, sourceVars, appVars
  <2>2. /\ source' = source \/ source' = [source EXCEPT ![t] = byName[name]]
        /\ \E phase \in {"creating", "describing"} : pc' = [pc EXCEPT ![t] = phase]
    BY <1>3 DEF Describe, Goto
  <2>3. \A u \in Talkers : source'[u] # NoSource => kind'[source'[u]] # "none"
    BY <1>0, <2>1, <2>2 DEF SourcesKnown, MapEntries
  <2>4. \A u \in Talkers : pc'[u] = "joining" => pc[u] = "joining" /\ source'[u] = source[u]
    BY <1>0, <1>3, <2>2 DEF Describe
  <2>5. QED  BY <2>1, <2>3, <2>4 DEF SourcesKnown, Joined
<1>4. ASSUME NEW s \in Sources, CreateLive(t, s) \/ CreateFile(t, s)
      PROVE  SourcesKnown'
  <2>1. /\ \E k \in {"live", "file"} : Construct(s, k)
        /\ UNCHANGED << callback, threads >>
        /\ source' = [source EXCEPT ![t] = s] /\ pc' = [pc EXCEPT ![t] = "describing"]
    BY <1>4 DEF CreateLive, CreateFile, Goto, appVars
  <2>2. QED  BY <2>1, ConstructingKnows
<1>5. CASE PlaySource(t)
  <2>1. /\ UNCHANGED << kind, source, callback >> /\ pc' = [pc EXCEPT ![t] = "receiving"]
        /\ streamer[client[t]] \in Sources
    <3>1. streamer[client[t]] = source[t] /\ source[t] # NoSource
      BY <1>0, <1>5 DEF PlaySource, TalkerKnows, ClientPlaced
    <3>2. QED  BY <1>0, <1>5, <3>1 DEF PlaySource, Goto, appVars
  <2>2. \A u \in Talkers : pc'[u] = "joining" => pc[u] = "joining"
    BY <1>0, <2>1
  <2>3. CASE threads' = threads
    BY <2>1, <2>3, MovingOn
  <2>4. CASE threads' # threads
    <3>1. /\ kind[streamer[client[t]]] = "file"
          /\ threads' = [threads EXCEPT ![streamer[client[t]]] = Append(@, "starting")]
      BY <1>5, <2>4 DEF PlaySource, Play
    <3>2. QED  BY <2>1, <2>2, <3>1, ThreadsGoOn
  <2>5. QED  BY <2>3, <2>4
<1>6. CASE StopSource(t)
  <2>1. /\ UNCHANGED << kind, threads, source, callback >>
        /\ pc' = [pc EXCEPT ![t] = IF kind[source[t]] = "live" THEN "unlocking" ELSE "joining"]
        /\ Exists(source[t]) /\ ~(kind[source[t]] = "file" /\ threads[source[t]] = << >>)
    BY <1>6 DEF StopSource, Goto, appVars
  <2>2. \A u \in Talkers : pc'[u] = "joining" => pc[u] = "joining" \/ threads[source[u]] # << >>
    BY <1>0, <2>1 DEF Exists
  <2>3. QED  BY <2>1, <2>2 DEF SourcesKnown, Joined
<1>7. CASE DeleteSource(t)
  <2> DEFINE s == source[t]
  <2>1. /\ s \in Sources /\ kind[s] = "file" /\ threads[s] # << >> /\ Joined(s)
    BY <1>0, <1>7 DEF DeleteSource, TalkerKnows, SourcesKnown
  <2>2. /\ UNCHANGED << threads, callback >>
        /\ kind' = [kind EXCEPT ![s] = "deleted"]
        /\ source' = [source EXCEPT ![t] = NoSource]
        /\ pc' = [pc EXCEPT ![t] = "unlocking"]
    BY <1>7 DEF DeleteSource, Goto, appVars
  <2> HIDE DEF s
  <2>3. \A u \in Talkers : source'[u] # NoSource => kind'[source'[u]] # "none"
    BY <1>0, <2>1, <2>2 DEF SourcesKnown
  <2>4. callback'.phase # "idle" => kind'[callback'.source] = "live"
    BY <1>0, <2>1, <2>2 DEF SourcesKnown
  <2>5. \A u \in Talkers : pc'[u] = "joining" => threads'[source'[u]] # << >>
    BY <1>0, <2>2 DEF SourcesKnown
  <2>6. \A r \in Sources : kind'[r] = "deleted" => threads'[r] # << >> /\ Joined(r)'
    BY <1>0, <2>1, <2>2 DEF SourcesKnown, Joined
  <2>7. QED  BY <2>3, <2>4, <2>5, <2>6 DEF SourcesKnown
<1>8. QED  BY <1>1, <1>2, <1>3, <1>4, <1>5, <1>6, <1>7 DEF TalkerNext

(* A thread of a file source moves on from a step that is not its last.     *)
LEMMA ThreadStep ==
  ASSUME NEW s, NEW k,
         \/ FileStart(s, k) \/ FileLock(s, k) \/ FileAgain(s, k)
         \/ \E starter \in BOOLEAN : FileSend(s, k, starter)
  PROVE  \E old, next : /\ ThreadIs(s, k, old) /\ old # "done"
                        /\ threads' = [threads EXCEPT ![s][k] = next]
<1>1. CASE FileStart(s, k)
  <2>1. ThreadIs(s, k, "starting") /\ threads' = [threads EXCEPT ![s][k] = "sending"]
    BY <1>1 DEF FileStart
  <2>2. "starting" # "done"
    OBVIOUS
  <2>3. QED  BY <2>1, <2>2, Zenon
<1>2. CASE FileLock(s, k)
  <2>1. ThreadIs(s, k, "sending") /\ threads' = [threads EXCEPT ![s][k] = "packet"]
    BY <1>2 DEF FileLock
  <2>2. "sending" # "done"
    OBVIOUS
  <2>3. QED  BY <2>1, <2>2, Zenon
<1>3. CASE FileAgain(s, k)
  <2>1. /\ ThreadIs(s, k, "sent")
        /\ threads' = [threads EXCEPT ![s][k] = IF playing[s] THEN "sending" ELSE "done"]
    BY <1>3 DEF FileAgain
  <2>2. "sent" # "done"
    OBVIOUS
  <2>3. QED  BY <2>1, <2>2, Zenon
<1>4. CASE \E starter \in BOOLEAN : FileSend(s, k, starter)
  <2>1. ThreadIs(s, k, "packet") /\ threads' = [threads EXCEPT ![s][k] = "sent"]
    BY <1>4 DEF FileSend
  <2>2. "packet" # "done"
    OBVIOUS
  <2>3. QED  BY <2>1, <2>2, Zenon
<1>5. QED  BY <1>1, <1>2, <1>3, <1>4

LEMMA SourcesKnownStep ==
  ASSUME IInv, SourcesKnown, Next
  PROVE  SourcesKnown'
<1> SUFFICES ASSUME ~undefined'
             PROVE  SourcesKnown'
  BY DEF SourcesKnown
<1>0. ~undefined
  BY DEF Next
<1>1. ASSUME NEW t \in Talkers, TalkerNext(t)
      PROVE  SourcesKnown'
  BY <1>0, <1>1, TalkerKeepsKnown
<1>2. CASE CallbackNext
  <2>1. ASSUME NEW id \in StreamIds, NEW s \in Sources, CallbackCreate(id, s)
        PROVE  SourcesKnown'
    <3>1. /\ Construct(s, "live") /\ UNCHANGED << threads, source, pc >>
          /\ callback'.source = s
      BY <2>1 DEF CallbackCreate, CallbackDoes, talkerVars
    <3>2. QED  BY <1>0, <3>1, ConstructingKnows
  <2>2. ASSUME \/ \E id \in StreamIds : CallbackFind(id)
               \/ CallbackFrame \/ CallbackLock
               \/ \E starter, last \in BOOLEAN : CallbackPacket(starter, last)
        PROVE  SourcesKnown'
    <3>1. UNCHANGED << kind, threads, source, pc >>
      BY <2>2 DEF CallbackFind, CallbackFrame, CallbackLock, CallbackPacket, sourceVars, talkerVars
    <3>2. callback'.phase # "idle" => kind[callback'.source] = "live"
      BY <1>0, <2>2 DEF CallbackFind, CallbackFrame, CallbackLock, CallbackPacket, CallbackDoes,
         SourcesKnown, IInv, MapEntries
    <3>3. QED  BY <1>0, <3>1, <3>2 DEF SourcesKnown, Joined
  <2>3. QED  BY <1>2, <2>1, <2>2 DEF CallbackNext
<1>3. ASSUME NEW s \in Sources, FileNext(s)
      PROVE  SourcesKnown'
  <2>1. UNCHANGED << kind, callback, source, pc >>
    BY <1>3 DEF FileNext, FileStart, FileLock, FileSend, FileAgain, talkerVars, appVars
  <2>2. PICK k \in 1 .. MaxThreads :
          \/ FileStart(s, k) \/ FileLock(s, k) \/ FileAgain(s, k)
          \/ \E starter \in BOOLEAN : FileSend(s, k, starter)
    BY <1>3 DEF FileNext
  <2>3. \E old, next : /\ ThreadIs(s, k, old) /\ old # "done"
                       /\ threads' = [threads EXCEPT ![s][k] = next]
    BY <2>2, ThreadStep
  <2>4. QED  BY <1>0, <2>1, <2>3, ThreadsGoOn
<1>4. CASE LevelNext
  BY <1>0, <1>4, LevelLeaves DEF SourcesKnown, Joined
<1>5. QED  BY <1>1, <1>2, <1>3, <1>4 DEF Next

LEMMA SourcesAreKnown == Spec => []SourcesKnown
<1>1. Init => SourcesKnown
  BY DEF Init, SourcesKnown
<1>2. IInv /\ SourcesKnown /\ [Next]_vars => SourcesKnown'
  <2>1. CASE UNCHANGED vars
    BY <2>1 DEF SourcesKnown, Joined, vars, sourceVars, talkerVars, appVars
  <2>2. QED  BY <2>1, SourcesKnownStep
<1>3. QED  BY <1>1, <1>2, Inductive, PTL DEF Spec

--------------------------------------------------------------------------------
(* A packet to a source that exists is undefined for one reason only: a     *)
(* client in the list has lost its talker, and another took its place.     *)
LEMMA PacketDangles ==
  ASSUME IInv, KnownClients, Next, ~undefined, undefined', UNCHANGED << pc, clients >>,
         NEW s \in Sources, NEW starter, SendPacket(s, starter)
  PROVE  ~Exists(s) \/ Outlived(s)'
<1>0. /\ clients[s] \in SUBSET Clients
      /\ \A c \in Clients : Owner(c) \in Talkers
      /\ NoClient \notin Clients /\ TalkerKnows
  BY ServerAssumption DEF IInv, TypeOK, Clients, Owner
<1>1. ~Exists(s) \/ \E c \in clients[s] : pc[Owner(c)] = "gone"
  BY DEF SendPacket, IInv, ListEntries
<1>2. ASSUME NEW c \in clients[s], pc[Owner(c)] = "gone"
      PROVE  Outlived(s)'
  <2>1. Replaced(c)
    BY <1>0, <1>2 DEF KnownClients, TalkerKnows
  <2>2. Replaced(c)'
    BY <1>0, <2>1, StillReplaced
  <2>3. QED  BY <1>2, <2>2 DEF Outlived
<1>3. QED  BY <1>1, <1>2

(* Only a thread that was not joined runs after its source was deleted.    *)
LEMMA LateThread ==
  ASSUME IInv, SourcesKnown, Next, ~undefined,
         NEW s \in Sources, ~Exists(s), NEW k, NEW old, NEW next,
         ThreadIs(s, k, old), old # "done", threads' = [threads EXCEPT ![s][k] = next],
         kind' = kind
  PROVE  NotJoined(s)'
<1>1. /\ threads \in [Sources -> Seq(Steps)]
      /\ kind[s] \in Kinds
      /\ kind[s] # "none"
  BY DEF IInv, TypeOK, NoThreads, ThreadIs
<1>2. kind[s] = "deleted" /\ threads[s] # << >> /\ Joined(s)
  BY <1>1 DEF Exists, Kinds, SourcesKnown
<1>3. /\ threads[s] \in Seq(Steps)
      /\ k \in 1 .. Len(threads[s]) /\ threads[s][k] = old
      /\ threads'[s] = [threads[s] EXCEPT ![k] = next]
  BY <1>1 DEF ThreadIs
<1>4. k # Len(threads[s])
  BY <1>2, <1>3 DEF Joined
<1>5. Len(threads[s]) > 1
  BY <1>3, <1>4
<1>6. DOMAIN threads'[s] = 1 .. Len(threads[s]) /\ Len(threads[s]) \in Nat
  BY <1>3
<1>7. Len(threads'[s]) = Len(threads[s])
  BY <1>3, <1>6, LenProperties
<1>8. QED  BY <1>2, <1>5, <1>7 DEF NotJoined

(* The step that uses a deleted object is one of the five.                 *)
LEMMA DanglingStep ==
  ASSUME IInv, KnownClients, SourcesKnown, Next, undefined'
  PROVE  NothingDangles'
<1>0. /\ ~undefined
      /\ source \in [Talkers -> Sources \cup {NoSource}] /\ kind \in [Sources -> Kinds]
      /\ pc \in [Talkers -> Phases]
      /\ ClientPlaced /\ TalkerKnows /\ CallbackKnows
      /\ callback.source \in Sources \cup {NoSource}
  BY DEF Next, IInv, TypeOK
<1>1. ASSUME NEW t \in Talkers, TalkerNext(t)
      PROVE  KeepsDeleted(t)' \/ NeverPlayed(t)'
  <2>1. ASSUME source[t] # NoSource, ~Exists(source[t]), UNCHANGED << kind, source >>
        PROVE  KeepsDeleted(t)'
    BY <1>0, <2>1 DEF KeepsDeleted, Exists, SourcesKnown, Kinds
  <2>2. CASE DescribeReply(t) \/ \E c \in Clients : Setup(t, c)
    <3>1. UNCHANGED << kind, source >> /\ ~Exists(source[t])
      BY <1>0, <2>2 DEF DescribeReply, Setup, Touch, sourceVars
    <3>2. source[t] # NoSource
      BY <1>0, <2>2 DEF Setup, DescribeReply, TalkerKnows
    <3>3. QED  BY <2>1, <3>1, <3>2
  <2>3. CASE PlayClient(t) \/ PlaySource(t) \/ DeleteClient(t)
    <3>1. client[t] # NoClient
      BY <1>0, <2>3 DEF PlayClient, PlaySource, DeleteClient, TalkerKnows
    <3>2. streamer[client[t]] = source[t] /\ source[t] # NoSource
      BY <1>0, <3>1 DEF ClientPlaced
    <3>3. UNCHANGED << kind, source >> /\ ~Exists(source[t])
      BY <1>0, <2>3, <3>2 DEF PlayClient, PlaySource, DeleteClient, Touch, sourceVars
    <3>4. QED  BY <2>1, <3>2, <3>3
  <2>4. CASE StopSource(t)
    <3>1. /\ UNCHANGED << kind, source, threads >> /\ source[t] # NoSource
          /\ ~Exists(source[t]) \/ (kind[source[t]] = "file" /\ threads[source[t]] = << >>)
      BY <1>0, <2>4 DEF StopSource, TalkerKnows
    <3>2. CASE kind[source[t]] = "file" /\ threads[source[t]] = << >>
      <4>1. pc' = [pc EXCEPT ![t] = "joining"]
        BY <2>4, <3>2 DEF StopSource, Goto
      <4>2. QED  BY <1>0, <3>1, <3>2, <4>1 DEF NeverPlayed
    <3>3. QED  BY <2>1, <3>1, <3>2
  <2>5. CASE \/ Accept(t) \/ CreateFails(t) \/ Hangup(t) \/ LockMaster(t) \/ DeleteSource(t)
             \/ Unlock(t) \/ (\E name \in Names : Describe(t, name))
             \/ (\E s \in Sources : CreateLive(t, s) \/ CreateFile(t, s))
    <3>1. UNCHANGED undefined
      BY <2>5 DEF Accept, Describe, CreateLive, CreateFile, CreateFails, Hangup, LockMaster,
         DeleteSource, Unlock
    <3>2. QED  BY <1>0, <3>1
  <2>6. QED  BY <1>1, <2>2, <2>3, <2>4, <2>5 DEF TalkerNext
<1>2. CASE CallbackNext
  <2>1. ASSUME callback.phase # "idle"
        PROVE  callback.source \in Sources /\ Exists(callback.source)
    BY <1>0, <2>1 DEF CallbackKnows, SourcesKnown, Exists
  <2>2. ASSUME NEW starter \in BOOLEAN, NEW last \in BOOLEAN,
               CallbackPacket(starter, last)
        PROVE  \E s \in Sources : Outlived(s)'
    <3>1. UNCHANGED << pc, clients >> /\ SendPacket(callback.source, starter)
          /\ callback.phase # "idle"
      BY <2>2 DEF CallbackPacket, sourceVars, talkerVars
    <3>2. QED  BY <1>0, <2>1, <3>1, PacketDangles
  <2>3. ASSUME CallbackFrame \/ CallbackLock
        PROVE  FALSE
    BY <1>0, <2>1, <2>3 DEF CallbackFrame, CallbackLock, Touch
  <2>4. ASSUME \/ \E id \in StreamIds : CallbackFind(id)
               \/ \E id \in StreamIds, s \in Sources : CallbackCreate(id, s)
        PROVE  FALSE
    BY <1>0, <2>4 DEF CallbackFind, CallbackCreate
  <2>5. QED  BY <1>2, <2>2, <2>3, <2>4 DEF CallbackNext, NothingDangles
<1>3. ASSUME NEW s \in Sources, FileNext(s)
      PROVE  NotJoined(s)' \/ Outlived(s)'
  <2>1. UNCHANGED << kind, pc, clients >>
    BY <1>3 DEF FileNext, FileStart, FileLock, FileSend, FileAgain, talkerVars
  <2>2. PICK k \in 1 .. MaxThreads :
          \/ FileStart(s, k) \/ FileLock(s, k) \/ FileAgain(s, k)
          \/ \E starter \in BOOLEAN : FileSend(s, k, starter)
    BY <1>3 DEF FileNext
  <2>3. PICK old, next : /\ ThreadIs(s, k, old) /\ old # "done"
                         /\ threads' = [threads EXCEPT ![s][k] = next]
    BY <2>2, ThreadStep
  <2>4. ~Exists(s) \/ Outlived(s)'
    <3>1. CASE FileStart(s, k) \/ FileLock(s, k) \/ FileAgain(s, k)
      BY <1>0, <3>1 DEF FileStart, FileLock, FileAgain, Touch
    <3>2. ASSUME NEW starter \in BOOLEAN, FileSend(s, k, starter)
          PROVE  ~Exists(s) \/ Outlived(s)'
      BY <1>0, <2>1, <3>2, PacketDangles DEF FileSend
    <3>3. QED  BY <2>2, <3>1, <3>2
  <2>5. QED  BY <1>0, <2>1, <2>3, <2>4, LateThread
<1>4. CASE LevelNext
  <2>1. LevelSet /\ walker # Idle
    BY <1>0, <1>4 DEF LevelNext, LevelFind, LevelSet
  <2>2. walker' = walker /\ UNCHANGED << kind, state >>
    BY <2>1 DEF LevelSet, sourceVars, clientVars
  <2>3. walker.source \in Sources /\ kind[walker.source] \in Kinds \ {"none"}
    BY <1>0, <2>1 DEF IInv, TypeOK, WalkerKnows
  <2>4. \/ ~Exists(walker.source)
        \/ walker.client # NoClient /\ state[walker.client] = "deleted"
    BY <1>0, <2>1 DEF LevelSet
  <2>5. LevelTooLate'
    BY <2>1, <2>2, <2>3, <2>4 DEF LevelTooLate, Exists, Kinds
  <2>6. QED  BY <2>5 DEF NothingDangles
<1>5. QED  BY <1>1, <1>2, <1>3, <1>4 DEF Next, NothingDangles

(* A deleted object is used in the five ways of NothingDangles and in no    *)
(* other, for any number of connections, sources, setups and threads.      *)
THEOREM DanglingHasCause == Spec => []NothingDangles
<1>1. Init => NothingDangles
  BY DEF Init, NothingDangles
<1>2. IInv /\ KnownClients /\ SourcesKnown /\ NothingDangles /\ [Next]_vars => NothingDangles'
  <2> SUFFICES ASSUME IInv, KnownClients, SourcesKnown, NothingDangles, [Next]_vars
               PROVE  NothingDangles'
    OBVIOUS
  <2>1. CASE UNCHANGED vars
    BY <2>1 DEF NothingDangles, KeepsDeleted, NeverPlayed, NotJoined, Outlived, Replaced,
       LevelTooLate, vars, sourceVars, clientVars, talkerVars, appVars
  <2>2. CASE Next /\ undefined'
    BY <2>2, DanglingStep
  <2>3. CASE Next /\ ~undefined'
    BY <2>3 DEF NothingDangles
  <2>4. QED  BY <2>1, <2>2, <2>3
<1>3. QED  BY <1>1, <1>2, Inductive, ClientsAreKnown, SourcesAreKnown, PTL DEF Spec

(* The SDK callback never works on a deleted source: what it finds by id    *)
(* and keeps while it sends a frame is a live source, and those stay       *)
(* (rtsp_send_frame, rtsp.cpp:27, checks nothing).                         *)
CallbackSourceLives == callback.phase # "idle" => undefined \/ kind[callback.source] = "live"

THEOREM CallbackIsSafe == Spec => []CallbackSourceLives
<1>1. SourcesKnown => CallbackSourceLives
  BY DEF SourcesKnown, CallbackSourceLives
<1>2. QED  BY <1>1, SourcesAreKnown, PTL

--------------------------------------------------------------------------------
(* A server without files, whose clients set up once, and whose temporal    *)
(* level nobody sets.                                                      *)
OnlyLiveNames == \A n \in Names : StreamIdOf[n] # NotLive
OneSetup == MaxSetups <= 1
NoLevels == ~SetsLevel

(* It has no file source, so nobody waits for a thread to end.             *)
NoFiles ==
  /\ \A s \in Sources : kind[s] \in {"none", "live"}
  /\ \A t \in Talkers : pc[t] # "joining"

LEMMA NoFilesStep ==
  ASSUME OnlyLiveNames, IInv, SourcesKnown, NoFiles, Next
  PROVE  NoFiles'
<1>0. /\ ~undefined /\ TalkerKnows
      /\ kind \in [Sources -> Kinds] /\ pc \in [Talkers -> Phases]
      /\ source \in [Talkers -> Sources \cup {NoSource}]
  BY DEF Next, IInv, TypeOK
<1>1. ASSUME NEW t \in Talkers, TalkerNext(t)
      PROVE  NoFiles'
  <2>1. CASE \/ Accept(t) \/ CreateFails(t) \/ DescribeReply(t) \/ PlayClient(t) \/ PlaySource(t)
             \/ LockMaster(t) \/ Unlock(t) \/ Hangup(t) \/ DeleteClient(t)
             \/ \E c \in Clients : Setup(t, c)
             \/ \E name \in Names : Describe(t, name)
    <3>1. UNCHANGED kind
      BY <2>1 DEF Accept, CreateFails, DescribeReply, PlayClient, PlaySource, LockMaster, Unlock,
         Hangup, DeleteClient, Setup, Describe, sourceVars
    <3>2. \/ pc' = pc
          \/ \E phase \in Phases \ {"joining"} : pc' = [pc EXCEPT ![t] = phase]
      BY <2>1 DEF Accept, CreateFails, DescribeReply, PlayClient, PlaySource, LockMaster, Unlock,
         Hangup, DeleteClient, Setup, Describe, DeleteTalker, Goto, Phases, Locked
    <3>3. QED  BY <1>0, <3>1, <3>2 DEF NoFiles
  <2>2. ASSUME NEW s \in Sources, CreateLive(t, s)
        PROVE  NoFiles'
    <3>1. /\ kind' = [kind EXCEPT ![s] = "live"]
          /\ pc' = [pc EXCEPT ![t] = "describing"]
      BY <2>2 DEF CreateLive, Construct, Goto
    <3>2. QED  BY <1>0, <3>1 DEF NoFiles
  <2>3. ASSUME NEW s \in Sources, CreateFile(t, s)
        PROVE  FALSE
    BY <1>0, <2>3 DEF CreateFile, TalkerKnows, OnlyLiveNames
  <2>4. CASE StopSource(t)
    <3>1. source[t] \in Sources /\ kind[source[t]] = "live"
      BY <1>0, <2>4 DEF StopSource, TalkerKnows, SourcesKnown, NoFiles
    <3>2. UNCHANGED kind /\ pc' = [pc EXCEPT ![t] = "unlocking"]
      BY <2>4, <3>1 DEF StopSource, Goto
    <3>3. QED  BY <1>0, <3>2 DEF NoFiles
  <2>5. ~DeleteSource(t)
    BY DEF DeleteSource, NoFiles
  <2>6. QED  BY <1>1, <2>1, <2>2, <2>3, <2>4, <2>5 DEF TalkerNext
<1>2. CASE CallbackNext
  <2>1. /\ UNCHANGED pc
        /\ kind' = kind \/ \E s \in Sources : kind' = [kind EXCEPT ![s] = "live"]
    BY <1>2 DEF CallbackNext, CallbackFind, CallbackCreate, CallbackFrame, CallbackLock, CallbackPacket,
       Construct, sourceVars, talkerVars
  <2>2. QED  BY <1>0, <2>1 DEF NoFiles
<1>3. ASSUME NEW s \in Sources, FileNext(s)
      PROVE  NoFiles'
  <2>1. UNCHANGED << kind, pc >>
    BY <1>3 DEF FileNext, FileStart, FileLock, FileSend, FileAgain, talkerVars
  <2>2. QED  BY <2>1 DEF NoFiles
<1>4. CASE LevelNext
  BY <1>4, LevelLeaves DEF NoFiles
<1>5. QED  BY <1>1, <1>2, <1>3, <1>4 DEF Next

(* Where every name is a live stream, a connection sets up once and nobody  *)
(* sets temporal levels, no talker, SDK callback or thread of a file ever   *)
(* uses a deleted object: what can go wrong for them takes a file, a client *)
(* that was replaced, or a walk through the lists without a lock.  (Of the  *)
(* threads that read RTCP reports RtspTalker speaks.)                       *)
THEOREM LiveStreamsNeverDangle ==
  ASSUME OnlyLiveNames, OneSetup, NoLevels
  PROVE  Spec => []~undefined
<1>1. Init => NoFiles
  BY DEF Init, NoFiles
<1>2. IInv /\ SourcesKnown /\ NoFiles /\ [Next]_vars => NoFiles'
  <2>1. CASE UNCHANGED vars
    BY <2>1 DEF NoFiles, vars, sourceVars, talkerVars
  <2>2. QED  BY <2>1, NoFilesStep
<1>3. IInv /\ NoFiles /\ NothingDangles => ~undefined
  <2> SUFFICES ASSUME IInv, NoFiles, undefined, NothingDangles
               PROVE  FALSE
    OBVIOUS
  <2>0. /\ source \in [Talkers -> Sources \cup {NoSource}]
        /\ clients \in [Sources -> SUBSET Clients]
    BY DEF IInv, TypeOK
  <2>1. \A c, d \in Clients : Owner(d) = Owner(c) => d = c
    BY ServerAssumption DEF Clients, Owner, OneSetup
  <2>2. \A s \in Sources : ~Outlived(s) /\ ~NotJoined(s)
    BY <2>0, <2>1 DEF Outlived, Replaced, NotJoined, NoFiles
  <2>3. \A t \in Talkers : ~KeepsDeleted(t) /\ ~NeverPlayed(t)
    BY <2>0 DEF KeepsDeleted, NeverPlayed, NoFiles
  <2>4. ~LevelTooLate
    BY DEF LevelTooLate, IInv, WalkerKnows, NoLevels
  <2>5. QED  BY <2>2, <2>3, <2>4 DEF NothingDangles
<1>4. QED  BY <1>1, <1>2, <1>3, Inductive, SourcesAreKnown, DanglingHasCause, PTL DEF Spec

--------------------------------------------------------------------------------
(* Who is inside send_packet() of a source: threads of its file, and the    *)
(* SDK callback (0).                                                       *)
Senders(s) == {k \in DOMAIN threads[s] : threads[s][k] = "packet"}
                \cup {k \in {0} : callback.phase = "packet" /\ callback.source = s}
OneSender ==
  ~undefined => \A s \in Sources : Exists(s) => \A p, q \in Senders(s) : p = q

(* Nobody comes in.                                                        *)
LEMMA NoNewSender ==
  ASSUME OneSender, ~undefined,
         \A s \in Sources : Exists(s)' => \/ Senders(s)' = {}
                                          \/ Exists(s) /\ Senders(s)' \subseteq Senders(s)
  PROVE  OneSender'
BY DEF OneSender

(* A source that was not constructed has no sender.                        *)
LEMMA NewHasNoSender ==
  ASSUME IInv, SourcesKnown, ~undefined, NEW s \in Sources, kind[s] = "none"
  PROVE  Senders(s) = {}
BY DEF IInv, NoThreads, SourcesKnown, Senders

LEMMA OneSenderStep ==
  ASSUME IInv, SourcesKnown, OneSender, Next
  PROVE  OneSender'
<1> SUFFICES ASSUME ~undefined'
             PROVE  OneSender'
  BY DEF OneSender
<1>0. /\ ~undefined /\ kind \in [Sources -> Kinds]
      /\ threads \in [Sources -> Seq(Steps)]
      /\ \A s \in Sources : DOMAIN threads[s] = 1 .. Len(threads[s])
      /\ callback.source \in Sources \cup {NoSource}
  BY DEF Next, IInv, TypeOK
<1>e. ASSUME NEW s \in Sources, UNCHANGED << kind, threads, callback >>
      PROVE  Senders(s)' = Senders(s) /\ (Exists(s)' <=> Exists(s))
  BY <1>e DEF Senders, Exists
<1>1. ASSUME NEW t \in Talkers, TalkerNext(t)
      PROVE  OneSender'
  <2>1. CASE UNCHANGED << kind, threads, callback >>
    BY <1>0, <1>e, <2>1, NoNewSender
  <2>2. CASE PlaySource(t)
    <3>1. UNCHANGED << kind, callback >> /\ streamer[client[t]] \in Sources
      BY <2>2 DEF PlaySource, appVars, IInv, TypeOK, TalkerKnows, ClientPlaced
    <3>2. \/ threads' = threads
          \/ threads' = [threads EXCEPT ![streamer[client[t]]] = Append(@, "starting")]
      BY <2>2 DEF PlaySource, Play
    <3>3. ASSUME NEW s \in Sources, threads'[s] = Append(threads[s], "starting")
          PROVE  \A k \in DOMAIN threads'[s] : threads'[s][k] = "packet"
                   => k \in DOMAIN threads[s] /\ threads[s][k] = "packet"
      <4>1. threads[s] \in Seq(Steps)
        BY <1>0
      <4>2. QED  BY <3>3, <4>1
    <3>4. \A s \in Sources : threads'[s] = threads[s] \/ threads'[s] = Append(threads[s], "starting")
      BY <1>0, <3>1, <3>2
    <3>5. \A s \in Sources : Senders(s)' \subseteq Senders(s)
      BY <3>1, <3>3, <3>4 DEF Senders
    <3>6. \A s \in Sources : Exists(s)' <=> Exists(s)
      BY <3>1 DEF Exists
    <3>7. QED  BY <1>0, <3>5, <3>6, NoNewSender
  <2>3. ASSUME UNCHANGED << threads, callback >>,
               NEW s \in Sources, NEW k \in {"live", "file"}, Construct(s, k)
        PROVE  OneSender'
    <3>1. Senders(s) = {}
      BY <1>0, <2>3, NewHasNoSender DEF Construct
    <3>2. \A r \in Sources : Senders(r)' = Senders(r) /\ (r # s => Exists(r)' = Exists(r))
      BY <1>0, <2>3 DEF Construct, Senders, Exists
    <3>3. QED  BY <1>0, <3>1, <3>2, NoNewSender
  <2>4. CASE DeleteSource(t)
    <3>1. /\ UNCHANGED << threads, callback >>
          /\ kind' = [kind EXCEPT ![source[t]] = "deleted"]
      BY <2>4 DEF DeleteSource, appVars
    <3>2. \A r \in Sources : Senders(r)' = Senders(r) /\ (Exists(r)' => Exists(r))
      BY <1>0, <3>1 DEF Senders, Exists
    <3>3. QED  BY <1>0, <3>2, NoNewSender
  <2>5. \/ UNCHANGED << kind, threads, callback >> \/ PlaySource(t) \/ DeleteSource(t)
        \/ /\ UNCHANGED << threads, callback >>
           /\ \E s \in Sources : \E k \in {"live", "file"} : Construct(s, k)
    BY <1>1 DEF TalkerNext, Accept, Describe, CreateLive, CreateFile, CreateFails,
       DescribeReply, Setup, PlayClient, Hangup, LockMaster, DeleteClient, StopSource,
       Unlock, sourceVars, appVars
  <2>6. QED  BY <2>1, <2>2, <2>3, <2>4, <2>5
<1>2. CASE CallbackNext
  <2>1. ASSUME NEW id \in StreamIds, NEW s \in Sources, CallbackCreate(id, s)
        PROVE  OneSender'
    <3>1. UNCHANGED threads /\ callback.phase = "idle" /\ callback'.phase = "found"
      BY <2>1 DEF CallbackCreate, CallbackDoes
    <3>2. Senders(s) = {} /\ kind[s] = "none" /\ kind' = [kind EXCEPT ![s] = "live"]
      BY <1>0, <2>1, NewHasNoSender DEF CallbackCreate, Construct
    <3>3. \A r \in Sources : Senders(r)' = Senders(r) /\ (r # s => Exists(r)' = Exists(r))
      BY <1>0, <3>1, <3>2 DEF Senders, Exists
    <3>4. QED  BY <1>0, <3>2, <3>3, NoNewSender
  <2>2. CASE CallbackLock
    <3>1. /\ callback.phase = "sending" /\ callback'.source = callback.source
          /\ ~Streaming(callback.source) /\ Exists(callback.source)
          /\ UNCHANGED << threads, kind >>
      BY <1>0, <2>2 DEF CallbackLock, CallbackDoes, Touch, sourceVars
    <3>2. Senders(callback.source)' \subseteq {0}
      BY <3>1 DEF Senders, Streaming
    <3>3. \A s \in Sources : s # callback.source => Senders(s)' \subseteq Senders(s)
      BY <3>1 DEF Senders
    <3>4. \A s \in Sources : Exists(s)' <=> Exists(s)
      BY <3>1 DEF Exists
    <3>5. ASSUME NEW s \in Sources, Exists(s)', NEW p \in Senders(s)', NEW q \in Senders(s)'
          PROVE  p = q
      <4>1. CASE s = callback.source  BY <3>1, <3>2, <3>5, <4>1
      <4>2. CASE s # callback.source  BY <1>0, <3>3, <3>4, <3>5, <4>2 DEF OneSender
      <4>3. QED  BY <4>1, <4>2
    <3>6. QED  BY <3>5 DEF OneSender
  <2>3. ASSUME \/ \E id \in StreamIds : CallbackFind(id)
               \/ CallbackFrame
               \/ \E starter, last \in BOOLEAN : CallbackPacket(starter, last)
        PROVE  OneSender'
    <3>1. callback'.phase # "packet" /\ UNCHANGED << threads, kind >>
      BY <2>3 DEF CallbackFind, CallbackFrame, CallbackPacket, CallbackDoes, sourceVars
    <3>2. \A s \in Sources : Senders(s)' \subseteq Senders(s) /\ (Exists(s)' <=> Exists(s))
      BY <3>1 DEF Senders, Exists
    <3>3. QED  BY <1>0, <3>2, NoNewSender
  <2>4. QED  BY <1>2, <2>1, <2>2, <2>3 DEF CallbackNext
<1>3. ASSUME NEW s \in Sources, FileNext(s)
      PROVE  OneSender'
  <2>1. UNCHANGED << kind, callback >>
    BY <1>3 DEF FileNext, FileStart, FileLock, FileSend, FileAgain, appVars
  <2>2. \A r \in Sources : Exists(r)' <=> Exists(r)
    BY <2>1 DEF Exists
  <2>3. ASSUME NEW k \in 1 .. MaxThreads, FileLock(s, k)
        PROVE  OneSender'
    <3>1. /\ threads' = [threads EXCEPT ![s][k] = "packet"]
          /\ ~Streaming(s) /\ Exists(s)
      BY <1>0, <2>3 DEF FileLock, Touch
    <3>2. Senders(s)' \subseteq {k}
      BY <1>0, <2>1, <3>1 DEF Senders, Streaming
    <3>3. \A r \in Sources : r # s => Senders(r)' \subseteq Senders(r)
      BY <1>0, <2>1, <3>1 DEF Senders
    <3>4. ASSUME NEW r \in Sources, Exists(r)', NEW p \in Senders(r)', NEW q \in Senders(r)'
          PROVE  p = q
      <4>1. CASE r = s  BY <3>2, <3>4, <4>1
      <4>2. CASE r # s  BY <1>0, <2>2, <3>3, <3>4, <4>2 DEF OneSender
      <4>3. QED  BY <4>1, <4>2
    <3>5. QED  BY <3>4 DEF OneSender
  <2>4. ASSUME NEW k \in 1 .. MaxThreads, NEW next \in Steps \ {"packet"},
               threads' = [threads EXCEPT ![s][k] = next]
        PROVE  OneSender'
    <3>1. \A r \in Sources : Senders(r)' \subseteq Senders(r)
      BY <1>0, <2>1, <2>4 DEF Senders
    <3>2. QED  BY <1>0, <2>2, <3>1, NoNewSender
  <2>5. \E k \in 1 .. MaxThreads :
          \/ FileLock(s, k)
          \/ \E next \in Steps \ {"packet"} : threads' = [threads EXCEPT ![s][k] = next]
    BY <1>3 DEF FileNext, FileStart, FileSend, FileAgain, Steps
  <2>6. QED  BY <2>3, <2>4, <2>5
<1>4. CASE LevelNext
  BY <1>0, <1>4, <1>e, LevelLeaves, NoNewSender
<1>5. QED  BY <1>1, <1>2, <1>3, <1>4 DEF Next

(* The lock of a streamer keeps packets apart: while nothing was undefined, *)
(* no two threads are inside send_packet() of one source.                  *)
LEMMA OneSends == Spec => []OneSender
<1>1. Init => OneSender
  BY DEF Init, OneSender, Senders
<1>2. IInv /\ SourcesKnown /\ OneSender /\ [Next]_vars => OneSender'
  <2>1. CASE UNCHANGED vars
    BY <2>1 DEF OneSender, Senders, Exists, vars, sourceVars, appVars
  <2>2. QED  BY <2>1, OneSenderStep
<1>3. QED  BY <1>1, <1>2, Inductive, SourcesAreKnown, PTL DEF Spec

(* What the holder of the server's lock waits for.  It deletes its client   *)
(* when nobody is inside send_packet() of the client's streamer, which one  *)
(* thread can be: that one has to come back from the socket (no timeout,    *)
(* sbl_socket.cpp:158), but asks for no lock there (rtp_streamer.cpp:       *)
(* 380-384).  It deletes a file when the thread started last has ended      *)
(* (file_source.cpp:166); that thread still runs if it has not, and waits   *)
(* for nothing but one such packet.  In the rest of Talker::teardown the    *)
(* holder waits for nobody.  So the locks alone never lock everybody out.   *)
ThreadGoesOn(s, k) == \E step \in Steps \ {"done"} : ThreadIs(s, k, step)
OnePacket(s) == Exists(s) => \A p, q \in Senders(s) : p = q
HolderGoesOn ==
  ~undefined /\ lock # Nobody =>
    LET s == source[lock]
    IN \/ /\ pc[lock] = "locked"
          /\ client[lock] # NoClient /\ streamer[client[lock]] = s
          /\ OnePacket(s)
       \/ pc[lock] \in {"no clients", "unlocking"}
       \/ /\ pc[lock] = "joining"
          /\ kind[s] = "file"
          /\ Joined(s) \/ ThreadGoesOn(s, Len(threads[s]))
          /\ OnePacket(s)

THEOREM HolderWaitsForOne == Spec => []HolderGoesOn
<1>1. IInv /\ SourcesKnown /\ OneSender => HolderGoesOn
  <2> SUFFICES ASSUME IInv, SourcesKnown, OneSender, ~undefined, lock # Nobody
               PROVE  HolderGoesOn
    BY DEF HolderGoesOn
  <2>1. lock \in Talkers /\ pc[lock] \in Locked
    BY DEF IInv, TypeOK, LockHeld
  <2>2. CASE pc[lock] = "joining"
    <3>1. /\ kind[source[lock]] = "file" /\ source[lock] \in Sources
          /\ threads[source[lock]] # << >>
          /\ threads[source[lock]] \in Seq(Steps)
      BY <2>1, <2>2 DEF IInv, TypeOK, TalkerKnows, SourcesKnown
    <3>2. /\ Len(threads[source[lock]]) \in DOMAIN threads[source[lock]]
          /\ threads[source[lock]][Len(threads[source[lock]])] \in Steps
      BY <3>1
    <3>3. Joined(source[lock]) \/ ThreadGoesOn(source[lock], Len(threads[source[lock]]))
      BY <3>2 DEF Joined, ThreadGoesOn, ThreadIs
    <3>4. OnePacket(source[lock])
      BY <3>1 DEF OneSender, OnePacket
    <3>5. QED  BY <2>2, <3>1, <3>3, <3>4 DEF HolderGoesOn
  <2>3. CASE pc[lock] = "locked"
    <3>1. /\ client[lock] # NoClient /\ streamer[client[lock]] = source[lock]
          /\ source[lock] \in Sources
      BY <2>1, <2>3 DEF IInv, TypeOK, TalkerKnows, ClientPlaced
    <3>2. OnePacket(source[lock])
      BY <3>1 DEF OneSender, OnePacket
    <3>3. QED  BY <2>3, <3>1, <3>2 DEF HolderGoesOn
  <2>4. QED  BY <2>1, <2>2, <2>3 DEF Locked, HolderGoesOn
<1>2. QED  BY <1>1, SourcesAreKnown, OneSends, Inductive, PTL

(* Only SETUP and the teardown of a client change a list.                   *)
LEMMA TalkersListsOnly ==
  ASSUME NEW t \in Talkers, TalkerNext(t), ~DeleteClient(t)
  PROVE  (\E c \in Clients : Setup(t, c)) \/ UNCHANGED clients
BY DEF TalkerNext, Accept, Describe, CreateLive, CreateFile, CreateFails, DescribeReply,
   PlayClient, PlaySource, Hangup, LockMaster, StopSource, DeleteSource, Unlock, sourceVars

(* Nobody takes a client off a list but the talker that owns it, with the   *)
(* server's lock held, and the client is deleted in that step               *)
(* (Streamer::delete_client, called by Talker::teardown only).              *)
LeavesWithItsTalker ==
  [][\A s \in Sources : \A c \in clients[s] \ clients'[s] :
       lock = Owner(c) /\ client[Owner(c)] = c /\ state'[c] = "deleted"]_vars

THEOREM ClientsLeaveWithTheirTalker == Spec => LeavesWithItsTalker
<1> DEFINE Leaves == \A s \in Sources : \A c \in clients[s] \ clients'[s] :
                       lock = Owner(c) /\ client[Owner(c)] = c /\ state'[c] = "deleted"
<1>1. IInv /\ [Next]_vars => [Leaves]_vars
  <2> SUFFICES ASSUME IInv, Next
               PROVE  Leaves
    BY DEF vars
  <2>0. /\ clients \in [Sources -> SUBSET Clients] /\ state \in [Clients -> ClientStates]
        /\ client \in [Talkers -> Clients \cup {NoClient}]
        /\ source \in [Talkers -> Sources \cup {NoSource}]
    BY DEF IInv, TypeOK
  <2>1. ASSUME NEW t \in Talkers, TalkerNext(t)
        PROVE  Leaves
    <3>1. CASE DeleteClient(t)
      <4>1. /\ lock = t /\ client[t] \in Clients /\ Owner(client[t]) = t
            /\ streamer[client[t]] \in Sources
        BY <2>0, <3>1 DEF DeleteClient, IInv, TalkerKnows, ClientPlaced, LockHeld, Locked
      <4>2. /\ clients' = [clients EXCEPT ![streamer[client[t]]] = @ \ {client[t]}]
            /\ state' = [state EXCEPT ![client[t]] = "deleted"]
        BY <3>1 DEF DeleteClient, RemoveClient
      <4>3. QED  BY <2>0, <4>1, <4>2
    <3>2. CASE ~DeleteClient(t)
      <4>1. \A s \in Sources : clients[s] \subseteq clients'[s]
        <5>1. ASSUME NEW c \in Clients, Setup(t, c)
              PROVE  clients' = [clients EXCEPT ![source[t]] = @ \cup {c}]
          BY <5>1 DEF Setup
        <5>2. CASE UNCHANGED clients
          BY <5>2
        <5>3. (\E c \in Clients : Setup(t, c)) \/ UNCHANGED clients
          BY <2>1, <3>2, TalkersListsOnly
        <5>4. QED  BY <2>0, <5>1, <5>2, <5>3
      <4>2. QED  BY <4>1
    <3>3. QED  BY <3>1, <3>2
  <2>2. CASE CallbackNext \/ (\E s \in Sources : FileNext(s)) \/ LevelNext
    BY <2>2, OnlyTalkers
  <2>3. QED  BY <2>1, <2>2 DEF Next
<1>2. QED  BY <1>1, Inductive, PTL DEF Spec, LeavesWithItsTalker
================================================================================
