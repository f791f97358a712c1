------------------------------- MODULE SourceMap -------------------------------
(***************************************************************************)
(* RTSP::SourceMap (lib/rtsp/source_map.{h,cpp}): the two indexes through  *)
(* which the server finds its sources.  Talker threads look a source up by *)
(* the stream name of a URL, the SDK callback by a numeric stream id; a    *)
(* live source is entered in both, a file source only by name.  The class  *)
(* has no lock of its own: its users hold the lock of RTSP::Server.        *)
(***************************************************************************)

CONSTANTS
  Sources,     (* addresses a Source object can be allocated at            *)
  Names,       (* stream names: URL paths, file names, printed stream ids  *)
  StreamIds,   (* ids of the streams the application can play live         *)
  NumberName,  (* NumberName[id]: the name the map prints for an id, "%d"  *)
  NoSource     (* the NULL pointer                                         *)

ASSUME SourceMapAssumption ==
  /\ NoSource \notin Sources
  /\ NumberName \in [StreamIds -> Names]

VARIABLES
  byName,      (* SourceMap::_map                                          *)
  byId         (* SourceMap::_vector                                       *)

mapVars == << byName, byId >>

MapTypeOK ==
  /\ byName \in [Names -> Sources \cup {NoSource}]
  /\ byId   \in [StreamIds -> Sources \cup {NoSource}]

MapInit ==
  /\ byName = [n \in Names |-> NoSource]
  /\ byId   = [i \in StreamIds |-> NoSource]

(* An entry that exists is overwritten without being looked at.  (SaveTheId *)
(* and EraseNothing are mutants: see RtspServer.)                          *)
SaveName(name, s) ==
  /\ byName' = [byName EXCEPT ![name] = s]
  /\ byId'   = byId

SaveTheId(id, name, s) ==
  /\ byName' = [byName EXCEPT ![name] = id]
  /\ byId'   = [byId EXCEPT ![id] = s]

SaveId(id, name, s) ==
  /\ byName' = [byName EXCEPT ![name] = s]
  /\ byId'   = [byId EXCEPT ![id] = s]

(* Erasing a name that is not there only logs a warning.                   *)
EraseNothing(name) == UNCHANGED mapVars

Erase(name) ==
  /\ byName' = [byName EXCEPT ![name] = NoSource]
  /\ byId'   = byId

(* The sources some lookup can still return.                               *)
Reachable ==
  ({byName[n] : n \in Names} \cup {byId[i] : i \in StreamIds}) \ {NoSource}
================================================================================
