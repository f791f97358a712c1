------------------------------ MODULE RtspServer ------------------------------
(***************************************************************************)
(* The sharing of sources between the threads of the RTSP library          *)
(* (lib/rtsp): one detached Talker thread per connection, the SDK callback *)
(* that delivers the frames of the live streams, and the thread each       *)
(* FileSource starts when it is played.  They meet in                      *)
(*   - the source map, protected by the lock of RTSP::Server ("master"),   *)
(*   - the client list of each Streamer, protected by the Streamer's lock, *)
(*   - the fields of the Source, which nothing protects.                   *)
(* A thread of the application that sets the temporal level walks through  *)
(* the map and the lists with no lock at all.                              *)
(* A Source and its Streamer are created and deleted together and point at *)
(* each other, so one identifier stands for both.                          *)
(*                                                                         *)
(* A step is a piece of code between two points where another thread can   *)
(* make a difference: a block between lock() and unlock() that cannot      *)
(* block is one step, enabled when the lock is free.  send_packet() holds  *)
(* the Streamer's lock while it sends to all the clients of the list, and  *)
(* a send() to a client that does not read need not return: it takes one   *)
(* step to lock and one to have sent.  What RTSP requests say on the wire, *)
(* and the order RTSP::Parser accepts them in, is module RtspTalker, and   *)
(* so are the threads that read RTCP reports.                              *)
(***************************************************************************)
EXTENDS SourceMap, Naturals, Sequences

CONSTANTS
  Talkers,       (* connections; a Talker serves one and then is deleted   *)
  StreamIdOf,    (* StreamIdOf[name]: the id the application parses from a  *)
                 (*   name, or NotLive for a file name                      *)
  NotLive,
  MaxSetups,     (* bound: SETUP requests of one connection                *)
  MaxThreads,    (* bound: threads created by one FileSource               *)
  SetsLevel,     (* the application sets temporal levels                   *)
  Nobody,        (* no thread holds the lock                               *)
  NoName,        (* a name or stream id that is not set                    *)
  NoClient       (* the NULL pointer                                       *)

Clients == Talkers \X (1 .. MaxSetups)
Owner(c) == c[1]

ASSUME ServerAssumption ==
  /\ StreamIdOf \in [Names -> StreamIds \cup {NotLive}]
  /\ NotLive \notin StreamIds
  /\ MaxSetups \in Nat
  /\ MaxThreads \in Nat
  /\ SetsLevel \in BOOLEAN
  /\ Nobody \notin Talkers
  /\ NoClient \notin Clients
  /\ NoName \notin Names \cup StreamIds

VARIABLES
  lock,          (* Server::_lock: its holder                              *)
  kind,          (* kind[s]: is there an object at s, and of which class   *)
  stream,        (* stream[s]: what s plays: LiveSource::_stream_id, or the *)
                 (*   file name a FileSource has as Source::_name          *)
  playing,       (* playing[s]: Source::_playing                           *)
  clients,       (* clients[s]: Streamer::_clients                         *)
  threads,       (* threads[s]: the threads FileSource::play created; the   *)
                 (*   last one is the one Thread::_thread still names      *)
  state,         (* state[c]: Client::_state, or no object at c            *)
  streamer,      (* streamer[c]: Client::_streamer                         *)
  pc,            (* pc[t]: what talker t is about to do                    *)
  source,        (* source[t]: Talker::_source                             *)
  client,        (* client[t]: Talker::_client                             *)
  wanted,        (* wanted[t]: the name get_source() is looking up         *)
  callback,      (* the SDK callback: what it is doing, to which source    *)
  walker,        (* the thread that sets a temporal level: the source and  *)
                 (*   the client it has come to                            *)
  undefined      (* some thread has used a deleted object                  *)

talkerVars == << pc, source, client, wanted >>
sourceVars == << kind, stream, playing, clients, threads >>
clientVars == << state, streamer >>
appVars    == << callback, walker >>
vars == << mapVars, lock, sourceVars, clientVars, talkerVars, appVars, undefined >>

(* Exists: between its constructor and its destructor.                     *)
Kinds == {"none", "live", "file", "deleted"}
Exists(s) == kind[s] \in {"live", "file"}
ClientStates == {"none", "STOP", "REQUEST", "PLAY", "deleted"}
Locked == {"locked", "no clients", "joining", "unlocking"}
Phases == {"accepting", "receiving", "creating", "describing", "playing",
           "tearing down"} \cup Locked \cup {"gone"}
Steps == {"starting", "sending", "packet", "sent", "done"}
Idle == [source |-> NoSource, client |-> NoClient]

Init ==
  /\ MapInit
  /\ lock      = Nobody
  /\ kind      = [s \in Sources |-> "none"]
  /\ stream    = [s \in Sources |-> NoName]
  /\ playing   = [s \in Sources |-> FALSE]
  /\ clients   = [s \in Sources |-> {}]
  /\ threads   = [s \in Sources |-> << >>]
  /\ state     = [c \in Clients |-> "none"]
  /\ streamer  = [c \in Clients |-> NoSource]
  /\ pc        = [t \in Talkers |-> "accepting"]
  /\ source    = [t \in Talkers |-> NoSource]
  /\ client    = [t \in Talkers |-> NoClient]
  /\ wanted    = [t \in Talkers |-> NoName]
  /\ callback  = [phase |-> "idle", source |-> NoSource]
  /\ walker    = Idle
  /\ undefined = FALSE

--------------------------------------------------------------------------------
(* Helpers                                                                 *)

Goto(t, phase) == pc' = [pc EXCEPT ![t] = phase]

(* new LiveSource(...) or FileSource::create(...), with its new Streamer.  *)
Construct(s, k) ==
  /\ kind[s] = "none"
  /\ kind' = [kind EXCEPT ![s] = k]

(* A thread follows a pointer to a source: that is undefined behaviour when *)
(* the object is gone, and nothing is claimed about what comes after.      *)
Touch(s) == undefined' = (undefined \/ ~Exists(s))

(* Some thread is inside send_packet(), with the Streamer's lock.          *)
Streaming(s) ==
  /\ Exists(s)
  /\ \/ callback.phase = "packet" /\ callback.source = s
     \/ \E k \in DOMAIN threads[s] : threads[s][k] = "packet"

(* Streamer::send_packet: every client of the list gets the packet.  A      *)
(* client that asked to play starts at a frame the decoder can start at    *)
(* (an SPS for H264), and one whose socket fails is switched off.  The     *)
(* warning about it prints the client's id, which is read from its talker. *)
SendPacket(s, starter) ==
  LET starting == {c \in clients[s] : state[c] = "REQUEST" /\ starter}
      sending  == {c \in clients[s] : state[c] = "PLAY"} \cup starting
  IN \E failed \in SUBSET sending :
       /\ state' = [c \in Clients |->
                      IF c \in failed THEN "STOP"
                      ELSE IF c \in starting THEN "PLAY" ELSE state[c]]
       /\ undefined' = \/ undefined \/ ~Exists(s)
                       \/ \E c \in clients[s] : state[c] = "deleted"
                       \/ \E c \in failed : pc[Owner(c)] = "gone"

(* Server::lock() and unlock() around code that can block.  (DontAcquire,   *)
(* DontRelease and the other definitions like them are the mutants that    *)
(* show that a property would see the bug they are named after.)           *)
DontAcquire(t) == UNCHANGED lock
Acquire(t) ==
  /\ lock = Nobody
  /\ lock' = t

DontRelease == UNCHANGED lock
Release == lock' = Nobody

(* Talker::teardown has something to do: an early return if not.           *)
HasClientThatPlays(t) == client[t] # NoClient /\ state[client[t]] = "PLAY"
HasClient(t) == source[t] # NoSource /\ client[t] # NoClient

(* Streamer::delete_client takes the client out of the list.               *)
RemoveNothing(c, s) == UNCHANGED clients
RemoveClient(c, s) == clients' = [clients EXCEPT ![s] = @ \ {c}]

(* LiveSource::teardown and the first line of FileSource::teardown.        *)
DontStop(s) == UNCHANGED playing
Stop(s) == playing' = [playing EXCEPT ![s] = FALSE]

--------------------------------------------------------------------------------
(* Talker threads                                                          *)

(* Server::start_thread: accept() and a new Talker thread.                 *)
Accept(t) ==
  /\ pc[t] = "accepting"
  /\ Goto(t, "receiving")
  /\ UNCHANGED << mapVars, lock, sourceVars, clientVars, source, client, wanted,
                  appVars, undefined >>

(* DESCRIBE: get_source() returns the source the talker already has,       *)
(* whatever the name; otherwise it looks the name up under the lock.       *)
Describe(t, name) ==
  /\ pc[t] = "receiving"
  /\ \/ /\ source[t] # NoSource
        /\ Goto(t, "describing")
        /\ UNCHANGED << source, wanted >>
     \/ /\ source[t] = NoSource /\ byName[name] # NoSource
        /\ lock = Nobody
        /\ source' = [source EXCEPT ![t] = byName[name]]
        /\ Goto(t, "describing")
        /\ UNCHANGED wanted
     \/ /\ source[t] = NoSource /\ byName[name] = NoSource
        /\ lock = Nobody
        /\ wanted' = [wanted EXCEPT ![t] = name]
        /\ Goto(t, "creating")
        /\ UNCHANGED source
  /\ UNCHANGED << mapVars, lock, sourceVars, clientVars, client, appVars, undefined >>

(* The second critical section of get_source(): the name was not there a    *)
(* moment ago, so a source is created and saved.                            *)
CreateLive(t, s) ==
  /\ pc[t] = "creating"
  /\ lock = Nobody
  /\ StreamIdOf[wanted[t]] # NotLive
  /\ Construct(s, "live")
  /\ stream' = [stream EXCEPT ![s] = StreamIdOf[wanted[t]]]
  /\ SaveId(StreamIdOf[wanted[t]], wanted[t], s)
  /\ source' = [source EXCEPT ![t] = s]
  /\ wanted' = [wanted EXCEPT ![t] = NoName]
  /\ Goto(t, "describing")
  /\ UNCHANGED << lock, playing, clients, threads, clientVars, client, appVars,
                  undefined >>

CreateFile(t, s) ==
  /\ pc[t] = "creating"
  /\ lock = Nobody
  /\ StreamIdOf[wanted[t]] = NotLive
  /\ Construct(s, "file")
  /\ stream' = [stream EXCEPT ![s] = wanted[t]]
  /\ SaveName(wanted[t], s)
  /\ source' = [source EXCEPT ![t] = s]
  /\ wanted' = [wanted EXCEPT ![t] = NoName]
  /\ Goto(t, "describing")
  /\ UNCHANGED << lock, playing, clients, threads, clientVars, client, appVars,
                  undefined >>

(* There is no such file, it is not an H264 stream, or the name is that of  *)
(* a live stream which is disabled and so taken for a file: 404 or 400.    *)
CreateFails(t) ==
  /\ pc[t] = "creating"
  /\ lock = Nobody
  /\ wanted' = [wanted EXCEPT ![t] = NoName]
  /\ Goto(t, "receiving")
  /\ UNCHANGED << mapVars, lock, sourceVars, clientVars, source, client, appVars,
                  undefined >>

(* The rest of reply_describe() reads the source and its streamer.         *)
DescribeReply(t) ==
  /\ pc[t] = "describing"
  /\ Touch(source[t])
  /\ Goto(t, "receiving")
  /\ UNCHANGED << mapVars, lock, sourceVars, clientVars, source, client, wanted, appVars >>

(* SETUP: a new client in the list, under the Streamer's lock only.  The    *)
(* talker forgets the client of an earlier SETUP.                           *)
Setup(t, c) ==
  /\ pc[t] = "receiving"
  /\ source[t] # NoSource
  /\ ~Streaming(source[t])
  /\ Owner(c) = t
  /\ state[c] = "none"
  /\ Touch(source[t])
  /\ state'    = [state EXCEPT ![c] = "STOP"]
  /\ streamer' = [streamer EXCEPT ![c] = source[t]]
  /\ clients'  = [clients EXCEPT ![source[t]] = @ \cup {c}]
  /\ client'   = [client EXCEPT ![t] = c]
  /\ UNCHANGED << mapVars, lock, kind, stream, playing, threads, pc, source,
                  wanted, appVars >>

(* PLAY: the reply reads the source's timestamp, then Client::play() sets   *)
(* the client's state ...                                                   *)
PlayClient(t) ==
  /\ pc[t] = "receiving"
  /\ client[t] # NoClient
  /\ Touch(streamer[client[t]])
  /\ state' = [state EXCEPT ![client[t]] = "REQUEST"]
  /\ Goto(t, "playing")
  /\ UNCHANGED << mapVars, lock, sourceVars, streamer, source, client, wanted, appVars >>

(* ... and plays its source: a live source just sets its flag; a file       *)
(* source that does not seem to be playing starts a thread.                 *)
Play(s) ==
  CASE kind[s] = "live"                 -> /\ playing' = [playing EXCEPT ![s] = TRUE]
                                           /\ threads' = threads
    [] kind[s] = "file" /\ ~playing[s]  -> /\ Len(threads[s]) < MaxThreads
                                           /\ threads' = [threads EXCEPT ![s] = Append(@, "starting")]
                                           /\ playing' = playing
    [] OTHER                            -> UNCHANGED << playing, threads >>

PlaySource(t) ==
  /\ pc[t] = "playing"
  /\ Touch(streamer[client[t]])
  /\ Play(streamer[client[t]])
  /\ Goto(t, "receiving")
  /\ UNCHANGED << mapVars, lock, kind, stream, clients, clientVars, source, client,
                  wanted, appVars >>

DeleteTalker(t) ==
  /\ source' = [source EXCEPT ![t] = NoSource]
  /\ Goto(t, "gone")

(* A TEARDOWN request, a closed connection, or an error that ends the loop. *)
Hangup(t) ==
  /\ pc[t] = "receiving"
  /\ IF HasClient(t) THEN Goto(t, "tearing down") /\ UNCHANGED source ELSE DeleteTalker(t)
  /\ UNCHANGED << mapVars, lock, sourceVars, clientVars, client, wanted, appVars,
                  undefined >>

(* Talker::teardown takes the lock ...                                      *)
LockMaster(t) ==
  /\ pc[t] = "tearing down"
  /\ Acquire(t)
  /\ Goto(t, "locked")
  /\ UNCHANGED << mapVars, sourceVars, clientVars, source, client, wanted, appVars,
                  undefined >>

(* ... waits for the Streamer's lock, deletes the talker's client and looks *)
(* whether any is left ...                                                  *)
DeleteClient(t) ==
  LET c == client[t]
      s == streamer[c]
  IN /\ pc[t] = "locked"
     /\ ~Streaming(s)
     /\ Touch(s)
     /\ RemoveClient(c, s)
     /\ state'   = [state EXCEPT ![c] = "deleted"]
     /\ client'  = [client EXCEPT ![t] = NoClient]
     /\ Goto(t, IF clients[s] \ {c} = {} THEN "no clients" ELSE "unlocking")
     /\ UNCHANGED << mapVars, lock, kind, stream, playing, threads, streamer, source,
                     wanted, appVars >>

(* ... stops a source without clients (Source::teardown).  A FileSource     *)
(* that was never played joins a thread identifier nobody initialised ...   *)
StopSource(t) ==
  LET s == source[t]
  IN /\ pc[t] = "no clients"
     /\ Stop(s)
     /\ Goto(t, IF kind[s] = "live" THEN "unlocking" ELSE "joining")
     /\ undefined' = (undefined \/ ~Exists(s) \/ (kind[s] = "file" /\ threads[s] = << >>))
     /\ UNCHANGED << mapVars, lock, kind, stream, clients, threads, clientVars, source,
                     client, wanted, appVars >>

(* Thread::wait() joins the thread started last.                           *)
DontJoin(s) == TRUE
Joined(s) == threads[s][Len(threads[s])] = "done"

(* ... waits for the thread of a file source and deletes the source ...     *)
DeleteSource(t) ==
  LET s == source[t]
  IN /\ pc[t] = "joining"
     /\ Joined(s)
     /\ Erase(stream[s])
     /\ kind'   = [kind EXCEPT ![s] = "deleted"]
     /\ source' = [source EXCEPT ![t] = NoSource]
     /\ Goto(t, "unlocking")
     /\ UNCHANGED << lock, stream, playing, clients, threads, clientVars, client,
                     wanted, appVars, undefined >>

(* ... and releases the lock.  The socket is closed and the talker deleted. *)
Unlock(t) ==
  /\ pc[t] = "unlocking"
  /\ Release
  /\ DeleteTalker(t)
  /\ UNCHANGED << mapVars, sourceVars, clientVars, client, wanted, appVars, undefined >>

TalkerNext(t) ==
  \/ Accept(t)
  \/ \E name \in Names : Describe(t, name)
  \/ \E s \in Sources : CreateLive(t, s) \/ CreateFile(t, s)
  \/ CreateFails(t)
  \/ DescribeReply(t)
  \/ \E c \in Clients : Setup(t, c)
  \/ PlayClient(t)
  \/ PlaySource(t)
  \/ Hangup(t)
  \/ LockMaster(t)
  \/ DeleteClient(t)
  \/ StopSource(t)
  \/ DeleteSource(t)
  \/ Unlock(t)

--------------------------------------------------------------------------------
(* The SDK callback: rtsp_send_frame()                                     *)

CallbackDoes(phase, s) == callback' = [phase |-> phase, source |-> s]

(* Server::get_source(id) finds the source of the stream ...               *)
CallbackFind(id) ==
  /\ callback.phase = "idle"
  /\ lock = Nobody
  /\ byId[id] # NoSource
  /\ CallbackDoes("found", byId[id])
  /\ UNCHANGED << mapVars, lock, sourceVars, clientVars, talkerVars, walker, undefined >>

(* ... or creates it and saves it under its number.                        *)
CallbackCreate(id, s) ==
  /\ callback.phase = "idle"
  /\ lock = Nobody
  /\ byId[id] = NoSource
  /\ Construct(s, "live")
  /\ stream' = [stream EXCEPT ![s] = id]
  /\ SaveId(id, NumberName[id], s)
  /\ CallbackDoes("found", s)
  /\ UNCHANGED << lock, playing, clients, threads, clientVars, talkerVars,
                  walker, undefined >>

(* LiveSource::send_frame reads _playing once per frame.                   *)
CallbackFrame ==
  /\ callback.phase = "found"
  /\ Touch(callback.source)
  /\ IF playing[callback.source]
       THEN CallbackDoes("sending", callback.source)
       ELSE CallbackDoes("idle", NoSource)
  /\ UNCHANGED << mapVars, lock, sourceVars, clientVars, talkerVars, walker >>

CallbackLock ==
  /\ callback.phase = "sending"
  /\ ~Streaming(callback.source)
  /\ Touch(callback.source)
  /\ CallbackDoes("packet", callback.source)
  /\ UNCHANGED << mapVars, lock, sourceVars, clientVars, talkerVars, walker >>

(* One packet; it may or may not be the last one of the frame.             *)
CallbackPacket(starter, last) ==
  /\ callback.phase = "packet"
  /\ SendPacket(callback.source, starter)
  /\ IF last THEN CallbackDoes("idle", NoSource) ELSE CallbackDoes("sending", callback.source)
  /\ UNCHANGED << mapVars, lock, sourceVars, streamer, talkerVars, walker >>

CallbackNext ==
  \/ \E id \in StreamIds : CallbackFind(id)
  \/ \E id \in StreamIds, s \in Sources : CallbackCreate(id, s)
  \/ CallbackFrame \/ CallbackLock
  \/ \E starter, last \in BOOLEAN : CallbackPacket(starter, last)

--------------------------------------------------------------------------------
(* The threads of a FileSource                                             *)

ThreadIs(s, k, what) == k \in DOMAIN threads[s] /\ threads[s][k] = what

(* FileSource::start_thread: only now the source counts as playing.        *)
FileStart(s, k) ==
  /\ ThreadIs(s, k, "starting")
  /\ Touch(s)
  /\ playing' = [playing EXCEPT ![s] = TRUE]
  /\ threads' = [threads EXCEPT ![s][k] = "sending"]
  /\ UNCHANGED << mapVars, lock, kind, stream, clients, clientVars, talkerVars, appVars >>

(* play_file() sends a frame, here of one packet ...                       *)
FileLock(s, k) ==
  /\ ThreadIs(s, k, "sending")
  /\ ~Streaming(s)
  /\ Touch(s)
  /\ threads' = [threads EXCEPT ![s][k] = "packet"]
  /\ UNCHANGED << mapVars, lock, kind, stream, playing, clients, clientVars, talkerVars,
                  appVars >>

FileSend(s, k, starter) ==
  /\ ThreadIs(s, k, "packet")
  /\ SendPacket(s, starter)
  /\ threads' = [threads EXCEPT ![s][k] = "sent"]
  /\ UNCHANGED << mapVars, lock, kind, stream, playing, clients, streamer, talkerVars,
                  appVars >>

(* ... and goes on while the source is playing.                            *)
FileAgain(s, k) ==
  /\ ThreadIs(s, k, "sent")
  /\ Touch(s)
  /\ threads' = [threads EXCEPT ![s][k] = IF playing[s] THEN "sending" ELSE "done"]
  /\ UNCHANGED << mapVars, lock, kind, stream, playing, clients, clientVars, talkerVars,
                  appVars >>

FileNext(s) ==
  \E k \in 1 .. MaxThreads :
    \/ FileStart(s, k)
    \/ FileLock(s, k)
    \/ \E starter \in BOOLEAN : FileSend(s, k, starter)
    \/ FileAgain(s, k)

--------------------------------------------------------------------------------
(* Server::set_temporal_level(), called by the application                 *)

(* It finds a source in the map ...                                        *)
LevelFind(name) ==
  /\ SetsLevel
  /\ walker = Idle
  /\ byName[name] # NoSource
  /\ walker' = [walker EXCEPT !.source = byName[name]]
  /\ UNCHANGED << mapVars, lock, sourceVars, clientVars, talkerVars, callback, undefined >>

(* ... and goes through the clients of its list.  With a deleted object it *)
(* does not come any further.                                              *)
LevelSet ==
  LET s == walker.source
      c == walker.client
  IN /\ walker # Idle
     /\ undefined' = (undefined \/ ~Exists(s) \/ (c # NoClient /\ state[c] = "deleted"))
     /\ walker' \in IF undefined' THEN {walker}
                   ELSE {Idle} \cup {[walker EXCEPT !.client = d] : d \in clients[s] \ {c}}
     /\ UNCHANGED << mapVars, lock, sourceVars, clientVars, talkerVars, callback >>

LevelNext == (\E name \in Names : LevelFind(name)) \/ LevelSet

--------------------------------------------------------------------------------
Next ==
  /\ ~undefined
  /\ \/ \E t \in Talkers : TalkerNext(t)
     \/ CallbackNext
     \/ \E s \in Sources : FileNext(s)
     \/ LevelNext

Spec == Init /\ [][Next]_vars

(* What the threads owe: a talker that tears down goes on, and so does the  *)
(* thread of a file.  Who wants the Streamer's lock gets it if it is free   *)
(* again and again; but nothing makes a send() to a client return.         *)
(* Requests, connections and frames come from outside.                     *)
Fairness ==
  /\ \A t \in Talkers :
       /\ WF_vars(~undefined /\ (LockMaster(t) \/ StopSource(t) \/ DeleteSource(t) \/ Unlock(t)))
       /\ SF_vars(~undefined /\ DeleteClient(t))
  /\ \A s \in Sources : \A k \in 1 .. MaxThreads :
       /\ WF_vars(~undefined /\ (FileStart(s, k) \/ FileAgain(s, k)))
       /\ SF_vars(~undefined /\ FileLock(s, k))

FairSpec == Spec /\ Fairness

--------------------------------------------------------------------------------
(* Properties                                                              *)

(* Every variable holds values of its type.                                *)
TypeOK ==
  /\ MapTypeOK
  /\ lock      \in Talkers \cup {Nobody}
  /\ kind      \in [Sources -> Kinds]
  /\ stream    \in [Sources -> Names \cup StreamIds \cup {NoName}]
  /\ playing   \in [Sources -> BOOLEAN]
  /\ clients   \in [Sources -> SUBSET Clients]
  /\ threads   \in [Sources -> Seq(Steps)]
  /\ state     \in [Clients -> ClientStates]
  /\ streamer  \in [Clients -> Sources \cup {NoSource}]
  /\ pc        \in [Talkers -> Phases]
  /\ source    \in [Talkers -> Sources \cup {NoSource}]
  /\ client    \in [Talkers -> Clients \cup {NoClient}]
  /\ wanted    \in [Talkers -> Names \cup {NoName}]
  /\ callback  \in [phase : {"idle", "found", "sending", "packet"},
                    source : Sources \cup {NoSource}]
  /\ walker    \in [source : Sources \cup {NoSource}, client : Clients \cup {NoClient}]
  /\ undefined \in BOOLEAN

(* No lookup can return a deleted source: rtsp_send_frame() uses what it    *)
(* finds by id without checking it, and every DESCRIBE what it finds by     *)
(* name.  Two sources can have been created for one name, so erasing by     *)
(* name in Talker::teardown need not remove the entry of the source deleted. *)
MapSound ==
  /\ \A s \in Reachable : Exists(s)
  /\ \A i \in StreamIds : byId[i] # NoSource => kind[byId[i]] = "live"

(* The list of a source that exists holds no deleted client, so a frame is  *)
(* never sent through one; and the client a talker has is in the list of    *)
(* its streamer, so teardown() finds it there.                              *)
ListsSound ==
  /\ \A s \in Sources : Exists(s) => \A c \in clients[s] : state[c] \in {"STOP", "REQUEST", "PLAY"}
  /\ \A t \in Talkers : client[t] # NoClient => client[t] \in clients[streamer[client[t]]]

(* A live source nobody listens to is stopped: a talker that took away the  *)
(* last client is about to do it, holding the lock.                         *)
NobodyToPlayFor ==
  \A s \in Sources :
    kind[s] = "live" /\ playing[s] /\ clients[s] = {}
      => \E t \in Talkers : lock = t /\ pc[t] = "no clients" /\ source[t] = s

(* Only the holder of the lock removes entries from the map or deletes      *)
(* sources, and a source goes away in the step that removes its entry.      *)
DeletedUnderLock ==
  [][\A s \in Sources : Exists(s) /\ ~Exists(s)' =>
       /\ \E t \in Talkers : lock = t /\ lock' = t /\ source[t] = s
       /\ kind[s] = "file"
       /\ s \notin Reachable']_vars

(* "Talker: deletes ... the clients associated with this slave server"      *)
(* (rtsp_server.dox:107): a list has a client whose talker is gone only if  *)
(* the talker had made a second one, which is what it deletes then.         *)
Replaced(c) == \E d \in Clients : d # c /\ Owner(d) = Owner(c) /\ state[d] # "none"
TeardownComplete ==
  \A s \in Sources : Exists(s) =>
    \A c \in clients[s] : pc[Owner(c)] = "gone" => Replaced(c)

(* A thread that uses a deleted source, a deleted client, or the deleted    *)
(* talker of a client got there in one of five ways, and the SDK callback,  *)
(* which checks nothing (rtsp_send_frame, rtsp.cpp:27), never by a deleted  *)
(* source:                                                                 *)
(*  - a talker described a file that another one has torn down since        *)
(*    (teardown, rtsp_talker.cpp:236);                                      *)
(*  - a file that was never played is torn down, and a thread identifier    *)
(*    that nobody set is joined (file_source.cpp:166);                      *)
(*  - a second PLAY started a second thread before the first one ran, and   *)
(*    only one was joined (file_source.h:41);                               *)
(*  - a client replaced by a second SETUP outlived its talker;              *)
(*  - the thread that sets a temporal level, with no lock, came to a source *)
(*    or a client that was deleted then (rtsp_server.cpp:41-47,             *)
(*    rtp_streamer.cpp:388-393).                                            *)
KeepsDeleted(t) == source[t] # NoSource /\ kind[source[t]] = "deleted"
NeverPlayed(t)  == pc[t] = "joining" /\ threads[source[t]] = << >>
NotJoined(s)    == kind[s] = "deleted" /\ Len(threads[s]) > 1
Outlived(s)     == \E c \in clients[s] : pc[Owner(c)] = "gone" /\ Replaced(c)
LevelTooLate ==
  /\ walker # Idle
  /\ \/ kind[walker.source] = "deleted"
     \/ walker.client # NoClient /\ state[walker.client] = "deleted"
NothingDangles ==
  undefined => \/ \E t \in Talkers : KeepsDeleted(t) \/ NeverPlayed(t)
               \/ \E s \in Sources : NotJoined(s) \/ Outlived(s)
               \/ LevelTooLate

(* A talker that has begun to tear down ends, if no send() to a client      *)
(* hangs for ever: Talker::teardown waits for the Streamer's lock with the *)
(* server's (delete_client, rtp_streamer.cpp:404), and send() has no       *)
(* timeout (sbl_socket.cpp:158).  For a file source, "starts new thread    *)
(* when it receives a PLAY message and terminates that thread when it      *)
(* receives TEARDOWN messages" (rtsp_server.dox:64).                       *)
TeardownEnds ==
  (\A s \in Sources : []<>~Streaming(s)) =>
    \A t \in Talkers : pc[t] = "tearing down" ~> (pc[t] = "gone" \/ undefined)
================================================================================
