-------------------------- MODULE RecorderService --------------------------
(***************************************************************************)
(* The recorder's service: RecorderClientMng (recorder_service.cpp), which *)
(* serves one process at a time; what a RecorderImpl keeps of its sources, *)
(* their configuration and its state (recorder_impl.cpp); and its sink.    *)
(*                                                                         *)
(* A client's call (recorder_client.cpp) is a request that is answered     *)
(* before it returns, and the service handles one at a time: a call is one *)
(* step.  The threads of the sources are in RecorderImpl.tla; here they    *)
(* start when they are told to, and a stop joins them.                     *)
(***************************************************************************)
EXTENDS RecorderSink

CONSTANTS
  Processes,  \* the clients
  NoClient,   \* client_ of a service without one
  Kinds,      \* the kinds of sources that are used: "video", "audio", "data"
  SourceMax,  \* RECORDER_SOURCE_MAX_CNT
  Faults      \* the calls of the muxer that may fail

ASSUME ServiceConstants ==
  /\ NoClient \notin Processes /\ SourceMax \in Nat
  /\ Kinds \subseteq {"video", "audio", "data"}
  /\ Faults \subseteq {"create", "track", "start", "stop", "destroy"}

VARIABLES
  client,  \* client_
  rec      \* rec_: status_, the sources, their configuration and their tracks

vars == <<sinkVars, client, rec>>

Ids == Kinds \X (0..SourceMax - 1)

\* A configuration is the default, one that was chosen, or a codec the muxer has
\* no track for.
Configs == {"default", "chosen", "unusable"}

\* half: a Prepare failed when some tracks had been added (history).
FreshRecorder ==
  [status |-> "initialized", sources |-> {}, config |-> [id \in Ids |-> "default"],
   tracks |-> {}, half |-> FALSE]
NoRecorder == [FreshRecorder EXCEPT !.status = "none"]
\* Its sources and their configuration are kept, but nothing reads them again.
ReleasedRecorder == [FreshRecorder EXCEPT !.status = "released"]

Init == SinkInit /\ client = NoClient /\ rec = NoRecorder

-----------------------------------------------------------------------------
(* RecorderClientMng *)

\* A second client is turned away without being told.  (What a stray thread does
\* to the next sink is undefined; the model follows it no further.)
Connect(p) ==
  /\ client = NoClient
  /\ client' = p /\ rec' = FreshRecorder
  /\ pc' = [t \in Slots |-> "none"]
  /\ UNCHANGED <<sink, hand>>

\* Every other function: refused unless the process is the client.
Asks(p) == client = p /\ Settled

\* The recorder is deleted: released unless it was, then its sink goes, and with
\* it the thread of threadId.  The files stay open when the muxer does not stop.
Disconnect(p) ==
  /\ Asks(p)
  /\ \/ /\ rec.status # "released" /\ "stop" \in Faults /\ sink.started
        /\ sink' = FreshSink(Forsake(sink, {sink.fd, sink.next}).files)
     \/ rec.status # "released" /\ sink' = FreshSink(SinkRelease(sink).files)
     \/ rec.status = "released" /\ sink' = FreshSink(sink.files)
  /\ pc' = [t \in Slots |-> IF t \in Killed(sink) THEN "none"
                          ELSE IF Alive(t) THEN "stray" ELSE pc[t]]
  /\ hand' = [t \in Slots |-> "none"]
  /\ client' = NoClient /\ rec' = NoRecorder

-----------------------------------------------------------------------------
(* The sources and their configuration *)

IsPrepared == rec.status # "initialized"

\* GetFreeVideoSourceID and its like.
FreeIndices(kind) == {i \in 0..SourceMax - 1 : <<kind, i>> \notin rec.sources}
FreeIndex(kind) == CHOOSE i \in FreeIndices(kind) : \A j \in FreeIndices(kind) : i <= j

SetSource(p, kind) ==
  /\ Asks(p) /\ ~IsPrepared /\ FreeIndices(kind) # {}
  /\ rec' = [rec EXCEPT !.sources = @ \cup {<<kind, FreeIndex(kind)>>}]
  /\ UNCHANGED <<sinkVars, client>>

\* GetIndexBySourceID looks for a source of any kind.
IsValidSourceID(id) == \E s \in rec.sources : s[2] = id[2]

Keep(id, config) == rec' = [rec EXCEPT !.config[id] = config]

MutConfigureAnyTime(p, id) ==
  /\ Asks(p) /\ IsValidSourceID(id)
  /\ Keep(id, "chosen")
  /\ UNCHANGED <<sinkVars, client>>

\* The setters of sizes, rates and channels, and of the audio codec.  What is
\* not positive is refused.
Configure(p, id) ==
  /\ Asks(p) /\ ~IsPrepared /\ IsValidSourceID(id)
  /\ rec.config[id] = "default" /\ Keep(id, "chosen")
  /\ UNCHANGED <<sinkVars, client>>

\* VIDEO_DEFAULT is taken here and has no track in GetVideoTrackSource.
SetVideoEncoder(p, id) ==
  /\ Asks(p) /\ ~IsPrepared /\ IsValidSourceID(id) /\ id[1] = "video"
  /\ \E config \in {"chosen", "unusable"} : Keep(id, config)
  /\ UNCHANGED <<sinkVars, client>>

-----------------------------------------------------------------------------
(* The files and the listener *)

\* A descriptor arrives with the request, whatever becomes of it.
Received(fd) == [sink EXCEPT !.files.given = fd, !.files.open = @ \cup {fd}]
HandsFile == sink.files.given < MaxFiles

SetOutputFile(p) ==
  /\ HandsFile /\ Settled /\ client # NoClient
  /\ LET fd == sink.files.given + 1 IN
       sink' = IF client = p /\ rec.status \in {"initialized", "stopped"}
               THEN SinkSetOutputFile(Received(fd), fd) ELSE Forsake(Received(fd), {fd})
  /\ UNCHANGED <<pc, hand, client, rec>>

SetNextOutputFile(p) ==
  /\ HandsFile /\ Settled /\ client # NoClient
  /\ LET fd == sink.files.given + 1 IN
       sink' = IF client = p /\ rec.status # "released" /\ sink.prepared
               THEN SinkSetNextOutputFile(Received(fd), fd) ELSE Forsake(Received(fd), {fd})
  /\ UNCHANGED <<pc, hand, client, rec>>

SetRecorderCallback(p) ==
  /\ Asks(p) /\ rec.status # "released"
  /\ sink' = [sink EXCEPT !.listener = TRUE]
  /\ UNCHANGED <<pc, hand, client, rec>>

-----------------------------------------------------------------------------
(* Prepare *)

Order == [video |-> 0, audio |-> 1, data |-> 2]
Earlier(s, r) == Order[s[1]] < Order[r[1]] \/ (s[1] = r[1] /\ s[2] < r[2])
Usable(s) == rec.config[s] # "unusable"
Tracks(ids) == {<<s, rec.config[s]>> : s \in ids}

\* PrepareVideoSource, PrepareAudioSource, PrepareDataSource: tracks up to the
\* first source that has none, which leaves the sink prepared.
PrepareSources ==
  \/ /\ \A s \in rec.sources : Usable(s)
     /\ rec' = [rec EXCEPT !.status = "prepared", !.tracks = @ \cup Tracks(rec.sources)]
  \/ \E s \in rec.sources :
       LET added == {r \in rec.sources : Earlier(r, s)} IN
       /\ ~Usable(s) \/ "track" \in Faults
       /\ \A r \in added : Usable(r)
       /\ rec' = [rec EXCEPT !.tracks = @ \cup Tracks(added), !.half = @ \/ added # {}]

Prepare(p) ==
  /\ Asks(p) /\ ~IsPrepared
  /\ \/ sink' = SinkPrepare(sink) /\ PrepareSources
     \/ "create" \in Faults /\ ~sink.prepared /\ UNCHANGED <<sink, rec>>
  /\ UNCHANGED <<pc, hand, client>>

-----------------------------------------------------------------------------
(* Recording.  A call whose muxer does not stop changes nothing here. *)

To(status) == rec' = [rec EXCEPT !.status = status]

\* A name for a new message thread.
FreeSlots == {t \in Slots : pc[t] = "none"}
FreeSlot  == CHOOSE t \in FreeSlots : TRUE

\* Start, and Resume, which only differ in the state they are called in.  When
\* the muxer does not start they leave nothing but the message thread.  (Start
\* of a paused recorder that has sources is in RecorderImpl.tla.)
Start(p) ==
  /\ Asks(p) /\ rec.status \in {"prepared", "stopped", "paused"} /\ sink.prepared
  /\ FreeSlots # {} /\ Goto(FreeSlot, "new")
  /\ \/ sink' = SinkStart(sink, FreeSlot, TRUE) /\ To("recording")
     \/ /\ "start" \in Faults /\ sink.failures < MaxFailures
        /\ sink' = SinkStart(sink, FreeSlot, FALSE) /\ UNCHANGED rec
  /\ UNCHANGED <<hand, client>>

\* StopInternal, and Pause, which leaves the sources alone.
Stop(p) ==
  /\ Asks(p) /\ rec.status \in {"recording", "paused"}
  /\ sink' = SinkStop(sink)
  /\ To("stopped") \/ (rec.status = "recording" /\ To("paused"))
  /\ UNCHANGED <<pc, hand, client>>

Active == rec.status \in {"recording", "paused"}
Halted == IF Active THEN SinkStop(sink) ELSE sink
DestroyFails == "destroy" \in Faults /\ sink.prepared

Reset(p) ==
  /\ Asks(p) /\ rec.status # "released"
  /\ \/ sink' = SinkReset(Halted) /\ rec' = FreshRecorder
     \/ /\ DestroyFails /\ sink' = CloseFd(Halted)
        /\ To(IF Active THEN "stopped" ELSE rec.status)
  /\ UNCHANGED <<pc, hand, client>>

Release(p) ==
  /\ Asks(p) /\ rec.status # "released"
  /\ \/ sink' = SinkRelease(Halted) /\ rec' = ReleasedRecorder
     \/ /\ DestroyFails /\ sink' = CloseFd(Halted)
        /\ To(IF Active THEN "stopped" ELSE rec.status)
  /\ UNCHANGED <<pc, hand, client>>

-----------------------------------------------------------------------------
\* The functions of the client's stub, by what they are for.
Session(p)   == Connect(p) \/ Disconnect(p)
Setting(p)   == \/ \E kind \in Kinds : SetSource(p, kind)
                \/ \E id \in Ids : Configure(p, id) \/ SetVideoEncoder(p, id)
Files(p)     == SetOutputFile(p) \/ SetNextOutputFile(p) \/ SetRecorderCallback(p)
Recording(p) == Prepare(p) \/ Start(p) \/ Stop(p) \/ Reset(p) \/ Release(p)

Call(p) == Session(p) \/ Setting(p) \/ Files(p) \/ Recording(p)

Below == UNCHANGED <<client, rec>>

Next ==
  \/ \E p \in Processes : Call(p)
  \/ MuxerReports /\ Below
  \/ \E t \in Slots : MessageThread(t) /\ Below

Spec == Init /\ [][Next]_vars

\* Threads are scheduled; nobody has to call, and no muxer to report.
FairSpec == Spec /\ \A t \in Slots : WF_vars(MessageThread(t) /\ Below)

-----------------------------------------------------------------------------
(* Properties *)

\* A descriptor the recorder took is closed exactly once: it is held as the
\* file or the next file until then, whatever order the file was set, the
\* recording stopped, reset, released and disconnected in - if it was not
\* replaced or unused, no stream to it was refused, and it had no part in a
\* change of files.
DescriptorsAccounted ==
  LET f == sink.files IN
  /\ f.twice \subseteq f.switched
  /\ f.open \subseteq {sink.fd, sink.next} \cup f.forsaken \cup f.switched

\* What the muxer reports is handed on while the recording lasts, if no earlier
\* recording of this sink left messages behind.
EveryMessageTaken ==
  (sink.queue # <<>> /\ sink.started /\ ~sink.stale)
    ~> (sink.queue = <<>> \/ ~sink.started \/ sink.stale)

\* Deleting the sink, which cancels one thread and joins none, leaves no message
\* thread behind that would go on with the memory - if no start of its muxer
\* failed and was tried again, which makes a second thread.
NoThreadOutlivesSink ==
  [][\A t \in Slots : pc'[t] = "stray" => pc[t] = "stray" \/ sink.retried]_vars

\* From a Prepare on, until the recorder is reset, the file has one track for
\* each source, in the configuration the source has - if no Prepare before it
\* stopped half way.
TracksMatch ==
  (IsPrepared /\ rec.status \notin {"none", "released"} /\ ~rec.half)
    => rec.tracks = Tracks(rec.sources)
=============================================================================
