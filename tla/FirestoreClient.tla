--------------------------- MODULE FirestoreClient ---------------------------
(***************************************************************************)
(* The Firestore client as one client of the app sees it: WriteStream with *)
(* the watch stream, the local cache, the view of one query and the        *)
(* listeners on it, a snapshot listener (addSnapshotListener) and a        *)
(* getDocuments, which is a listener that waits for the server and is      *)
(* removed once it was answered.                                           *)
(*                                                                         *)
(* The query has one document, 0 when it is absent.  What a listener is    *)
(* shown is the cached document with the queued writes on top; the         *)
(* acknowledgement of a write comes over one stream, the document with the *)
(* write in it over the other, in either order.                            *)
(*                                                                         *)
(* Every action is one task of the client's worker queue, or a step of the *)
(* server.  It does all that the task does: the write half of WriteStream, *)
(* the local store, the view and the listeners.                            *)
(*                                                                         *)
(* The server refuses writes here, but rejects no listen: a target that it *)
(* removes with an error (ProcessTargetError) is not modelled.  The client *)
(* then calls every listener of the query with the error and drops them.   *)
(***************************************************************************)
EXTENDS WriteStream

CONSTANTS
  MaxGets, \* bound: getDocuments calls
  MaxNews  \* bound: messages of the server under way on the watch stream

ASSUME WatchBounds == MaxGets \in Nat /\ MaxNews \in Nat \ {0}

VARIABLES
  cache,           \* the document in the remote document cache (persisted)
  snapshotVersion, \* the last remote snapshot version (persisted)
  remoteKey,       \* is the document one of the target's keys? (persisted)
  watch,           \* state_ of the watch stream
  watchIdle,       \* is its idleness_timer_ running?
  asked,           \* watch and unwatch requests the server has not read
  news,            \* messages of the server the client has not read
  pending,         \* responses WatchChangeAggregator waits for
  target,          \* the server: does this stream watch the query?
  position,        \* the server: the version last sent on this stream
  tracker,         \* OnlineStateTracker
  view,            \* the View of the query
  listener,        \* the snapshot listener
  told,            \* what it was last called with
  getter,          \* the getDocuments call
  gets             \* how many there were

watchVars == <<cache, snapshotVersion, remoteKey, watch, watchIdle, asked,
               news, pending, target, position>>
viewVars  == <<tracker, view, listener, told, getter, gets>>
vars      == <<writeVars, watchVars, viewVars>>

-----------------------------------------------------------------------------
(* Types *)

Absent == 0
Value  == {Absent} \cup Write \cup Other

Online  == "Online"
Offline == "Offline"
Unknown == "Unknown"

MaxWatchStreamFailures == 1  \* kMaxWatchStreamFailures

News == [kind : {"response"}] \cup [kind : {"snapshot"}, version : Nat]

(* One type for each variable. *)
TypeOK ==
  /\ WriteTypeOK
  /\ cache \in [version : 0..Len(log), committed : BOOLEAN]
  /\ snapshotVersion \in 0..Len(log)
  /\ remoteKey \in BOOLEAN
  /\ watch \in StreamState
  /\ watchIdle \in BOOLEAN
  /\ asked \in Seq({"watch", "unwatch"})
  /\ news \in Seq(News)
  /\ pending \in Nat
  /\ target \in {"none", "added", "current"}
  /\ position \in 0..Len(log)
  /\ tracker \in [state : {Online, Offline, Unknown},
                  failures : 0..MaxWatchStreamFailures, timer : BOOLEAN]
  /\ view \in [shown : Value, mutated : BOOLEAN, current : BOOLEAN]
  /\ listener \in {"off", "waiting", "raised"}
  /\ told \in Value
  /\ getter \in {"off", "waiting", "answered"}
  /\ gets \in 0..MaxGets

NoView    == [shown |-> Absent, mutated |-> FALSE, current |-> FALSE]
Untracked == [state |-> Unknown, failures |-> 0, timer |-> FALSE]

Init ==
  /\ WriteInit
  /\ cache = [version |-> 0, committed |-> FALSE]
  /\ snapshotVersion = 0
  /\ remoteKey = FALSE
  /\ watch = "Initial"
  /\ watchIdle = FALSE
  /\ asked = <<>>
  /\ news = <<>>
  /\ pending = 0
  /\ target = "none"
  /\ position = 0
  /\ tracker = Untracked
  /\ view = NoView
  /\ listener = "off"
  /\ told = Absent
  /\ getter = "off"
  /\ gets = 0

(* Is the query listened to? *)
Listening == listener # "off" \/ getter # "off"

-----------------------------------------------------------------------------
(* OnlineStateTracker *)

UpdateState(state) == [state |-> state, failures |-> 0, timer |-> FALSE]

HandleWatchStreamStart(t) ==
  IF t.failures # 0 THEN t ELSE [t EXCEPT !.state = Unknown, !.timer = TRUE]

(* Mutant: the timer keeps running when the state becomes Offline. *)
FailureKeepsTimer(t) ==
  IF t.state = Online THEN [t EXCEPT !.state = Unknown]
  ELSE [t EXCEPT !.state = Offline, !.failures = MaxWatchStreamFailures]

(* The counter is capped at the limit it is compared with. *)
HandleWatchStreamFailure(t) ==
  IF t.state = Online THEN [t EXCEPT !.state = Unknown]
  ELSE IF t.failures + 1 >= MaxWatchStreamFailures
       THEN [state |-> Offline, failures |-> MaxWatchStreamFailures, timer |-> FALSE]
       ELSE [t EXCEPT !.failures = @ + 1]

-----------------------------------------------------------------------------
(* The local store and the view *)

At(version) == IF version = 0 THEN Absent ELSE log[version]

(* LocalDocumentsView: the cached document c under the queued writes q. *)
LocalView(q, c) ==
  [value     |-> IF q # <<>> THEN q[Len(q)] ELSE At(c.version),
   local     |-> q # <<>>,
   committed |-> q = <<>> /\ c.committed]

(* Mutant: the acknowledged write is only taken out of the queue. *)
AckLeavesCache(c, version) == c

(* LocalStore::ApplyBatchResult: the cache takes over an acknowledged      *)
(* write, unless the watch stream was faster.                              *)
ApplyBatchResult(c, version) ==
  IF c.version < version THEN [version |-> version, committed |-> TRUE] ELSE c

(* Mutant: whatever the watch stream says is put in the cache. *)
AnyVersion(c, version) == TRUE

(* Mutant: a document of the same version is always old news. *)
OnlyNewerVersion(c, version) == version > c.version

(* LocalStore::PopulateDocumentChanges: is a document of the watch stream  *)
(* news to the cache?                                                      *)
IsNewer(c, version) ==
  version > c.version \/ (version = c.version /\ c.committed)

(* A view that shows the user's own write waits for the watch stream       *)
(* before it shows anything else that an acknowledgement has put there.    *)
ShouldWaitForSyncedDocument(v, doc) == v.mutated /\ doc.committed /\ ~doc.local

(* View::ComputeDocumentChanges for one document. *)
ComputeDocumentChanges(v, doc) ==
  LET stillPending == doc.value # Absent /\ (doc.local \/ (v.mutated /\ doc.committed))
      applied == IF v.shown = Absent \/ doc.value = Absent THEN v.shown # doc.value
                 ELSE IF v.shown # doc.value THEN ~ShouldWaitForSyncedDocument(v, doc)
                 ELSE v.mutated # stillPending
  IN  IF applied THEN [v EXCEPT !.shown = doc.value, !.mutated = doc.local] ELSE v

(* View::ApplyChanges: the view is in sync when it is current and none of  *)
(* its documents is in limbo.                                              *)
InSync(v, key) == v.current /\ ~(v.shown # Absent /\ ~key /\ ~v.mutated)

ShouldRaiseInitialEvent(v, key, state, waitForSync) ==
  \/ InSync(v, key)
  \/ /\ ~(waitForSync /\ state # Offline)
     /\ v.shown # Absent \/ state = Offline

(* EventManager::OnViewSnapshots and HandleOnlineStateChange: the view of  *)
(* the query is now v, the online state that of t.  A state of Offline     *)
(* makes the view stale.  All listeners are called together, one that was  *)
(* called before only if the document has changed.                         *)
Emit(v, key, t) ==
  LET now == IF t.state = Offline THEN [v EXCEPT !.current = FALSE] ELSE v
      first(wait) == ShouldRaiseInitialEvent(now, key, t.state, wait)
  IN  /\ tracker' = t
      /\ view' = IF Listening THEN now ELSE NoView
      /\ listener' = IF listener = "waiting" /\ first(FALSE) THEN "raised" ELSE listener
      /\ told' = IF listener' = "raised" /\ (listener = "waiting" \/ now.shown # view.shown)
                 THEN now.shown ELSE told
      /\ getter' = IF getter = "waiting" /\ first(TRUE) THEN "answered" ELSE getter
      /\ UNCHANGED gets

(* SyncEngine::EmitNewSnapshotsAndNotifyLocalStore after a change of the   *)
(* queue or the cache by the write half.                                   *)
EmitLocal(q, c) ==
  Emit(ComputeDocumentChanges(view, LocalView(q, c)), remoteKey, tracker)

-----------------------------------------------------------------------------
(* Writes *)

DoWrite(w) ==
  /\ WriteMutations(w)
  /\ EmitLocal(queue', cache)
  /\ UNCHANGED watchVars

HandleSuccessfulWrite ==
  /\ OnWriteStreamMutationResult
  /\ cache' = ApplyBatchResult(cache, Head(responses).version)
  /\ EmitLocal(queue', cache')
  /\ UNCHANGED <<snapshotVersion, remoteKey, watch, watchIdle, asked, news,
                 pending, target, position>>

(* Mutant: the views are not computed again. *)
RejectSilently ==
  /\ OnWriteStreamRefused
  /\ UNCHANGED <<watchVars, viewVars>>

HandleRejectedWrite ==
  /\ OnWriteStreamRefused
  /\ EmitLocal(queue', cache)
  /\ UNCHANGED watchVars

(* The other steps of the write half do not show. *)
WriteStreamStep ==
  /\ \/ OnWriteStreamOpen \/ OnWriteStreamHandshakeComplete \/ OnBackoffElapsed
  /\ UNCHANGED <<watchVars, viewVars>>

WriteStreamEnds ==
  /\ OnWriteStreamClose \/ OnIdleTimeout
  /\ UNCHANGED <<watchVars, viewVars>>
-----------------------------------------------------------------------------
(* The watch stream *)

(* RemoteStore::Listen: start the stream, or ask on the open one. *)
WatchQuery ==
  LET open == watch = "Open" IN
  /\ watch' = IF IsStarted(watch) THEN watch ELSE Start(watch)
  /\ asked' = IF open THEN Append(asked, "watch") ELSE asked
  /\ pending' = IF open THEN pending + 1 ELSE pending
  /\ watchIdle' = (watchIdle /\ ~open)

TrackerOnListen ==
  IF IsStarted(watch) THEN tracker ELSE HandleWatchStreamStart(tracker)

(* EventManager::AddQueryListener.  The first listener on the query        *)
(* creates the view from the local store; another one is called at once    *)
(* with what the view shows.                                               *)
AddQueryListener(waitForSync) ==
  LET doc == LocalView(queue, cache)
      v   == IF Listening THEN view
             ELSE [shown |-> doc.value, mutated |-> doc.local, current |-> FALSE]
      t   == IF Listening THEN tracker ELSE TrackerOnListen
      now == ShouldRaiseInitialEvent(v, remoteKey, t.state, waitForSync)
  IN  /\ IF Listening THEN UNCHANGED <<watch, asked, pending, watchIdle>> ELSE WatchQuery
      /\ view' = v
      /\ tracker' = t
      /\ IF waitForSync
         THEN /\ getter' = IF now THEN "answered" ELSE "waiting"
              /\ UNCHANGED <<listener, told>>
         ELSE /\ listener' = IF now THEN "raised" ELSE "waiting"
              /\ told' = IF now THEN v.shown ELSE told
              /\ UNCHANGED getter
      /\ UNCHANGED <<writeVars, cache, snapshotVersion, remoteKey, news, target, position>>

AddSnapshotListener ==
  /\ listener = "off"
  /\ AddQueryListener(FALSE)
  /\ UNCHANGED gets

GetDocuments ==
  /\ getter = "off"
  /\ gets < MaxGets
  /\ gets' = gets + 1
  /\ AddQueryListener(TRUE)

(* The answered get removes its listener; the last listener on the query   *)
(* takes the view and the target with it.                                  *)
RemoveQueryListener ==
  /\ getter = "answered"
  /\ getter' = "off"
  /\ IF listener # "off"
     THEN UNCHANGED <<view, tracker, asked, pending, watchIdle>>
     ELSE /\ view' = NoView
          /\ IF watch = "Open"
             THEN /\ asked' = Append(asked, "unwatch")
                  /\ pending' = pending + 1
                  /\ watchIdle' = TRUE
                  /\ UNCHANGED tracker
             ELSE /\ tracker' = UpdateState(Unknown)
                  /\ UNCHANGED <<asked, pending, watchIdle>>
  /\ UNCHANGED <<writeVars, cache, snapshotVersion, remoteKey, watch, news, target,
                 position, listener, told, gets>>

(* Mutant: RecordPendingTargetRequest is not called. *)
OpenUnrecorded ==
  /\ watch = "Starting"
  /\ watch' = "Open"
  /\ asked' = IF Listening THEN <<"watch">> ELSE <<>>
  /\ UNCHANGED <<writeVars, viewVars, cache, snapshotVersion, remoteKey, watchIdle,
                 news, pending, target, position>>

OnWatchStreamOpen ==
  /\ watch = "Starting"
  /\ watch' = "Open"
  /\ asked' = IF Listening THEN <<"watch">> ELSE <<>>
  /\ pending' = IF Listening THEN 1 ELSE 0
  /\ UNCHANGED <<writeVars, viewVars, cache, snapshotVersion, remoteKey, watchIdle,
                 news, target, position>>

(* A closed stream: nothing under way is read any more. *)
CloseWatchStream(state) ==
  /\ watch' = state
  /\ watchIdle' = FALSE
  /\ asked' = <<>>
  /\ news' = <<>>
  /\ pending' = 0
  /\ target' = "none"
  /\ position' = 0
  /\ UNCHANGED <<cache, snapshotVersion, remoteKey>>

(* The stream ends with an error; it is started again if it is needed. *)
OnWatchStreamClose ==
  /\ watch \in {"Starting", "Open"}
  /\ faults < MaxFaults
  /\ faults' = faults + 1
  /\ CloseWatchStream(IF Listening THEN Start("Error") ELSE "Error")
  /\ Emit(view, remoteKey,
          IF Listening THEN HandleWatchStreamStart(HandleWatchStreamFailure(tracker))
          ELSE UpdateState(Unknown))
  /\ UNCHANGED <<queue, pipeline, stream, handshake, idle, requests, responses, log,
                 issued, refused>>

OnWatchBackoffElapsed ==
  /\ watch = "Backoff"
  /\ watch' = "Starting"
  /\ UNCHANGED <<writeVars, viewVars, cache, snapshotVersion, remoteKey, watchIdle,
                 asked, news, pending, target, position>>

OnWatchIdleTimeout ==
  /\ watchIdle
  /\ CloseWatchStream("Initial")
  /\ Emit(view, remoteKey, UpdateState(Unknown))
  /\ UNCHANGED writeVars

(* Ten seconds after the stream was started. *)
OnOnlineStateTimeout ==
  /\ tracker.timer
  /\ Emit(view, remoteKey, [tracker EXCEPT !.timer = FALSE, !.state = Offline])
  /\ UNCHANGED <<writeVars, watchVars>>

(* The server has read a watch or an unwatch request. *)
OnWatchResponse ==
  /\ news # <<>> /\ Head(news).kind = "response"
  /\ news' = Tail(news)
  /\ pending' = pending - 1
  /\ Emit(view, remoteKey, UpdateState(Online))
  /\ UNCHANGED <<writeVars, cache, snapshotVersion, remoteKey, watch, watchIdle, asked,
                 target, position>>

(* A consistent snapshot.  It is raised unless it is older than the last   *)
(* one, and reaches the target only when no response is outstanding.       *)
OnWatchSnapshot ==
  /\ news # <<>> /\ Head(news).kind = "snapshot"
  /\ news' = Tail(news)
  /\ LET version == Head(news).version
         raise   == version >= snapshotVersion
         active  == raise /\ Listening /\ pending = 0
         newer   == active /\ version > 0 /\ IsNewer(cache, version)
         key     == IF active THEN version > 0 ELSE remoteKey
         v       == IF newer THEN ComputeDocumentChanges(view, LocalView(queue, cache'))
                    ELSE view
     IN  /\ snapshotVersion' = IF raise THEN version ELSE snapshotVersion
         /\ remoteKey' = key
         /\ cache' = IF newer THEN [version |-> version, committed |-> FALSE] ELSE cache
         /\ Emit(IF active THEN [v EXCEPT !.current = TRUE] ELSE v, key, UpdateState(Online))
  /\ UNCHANGED <<writeVars, watch, watchIdle, asked, pending, target, position>>

-----------------------------------------------------------------------------
(* The server's side of the watch stream.  A snapshot is the state at some *)
(* version; on one stream versions do not go back, but a replica that lags *)
(* behind may answer a new target.                                         *)

ServerWatch ==
  /\ asked # <<>> /\ Len(news) < MaxNews
  /\ asked' = Tail(asked)
  /\ news' = Append(news, [kind |-> "response"])
  /\ target' = IF Head(asked) = "watch" THEN "added" ELSE "none"
  /\ UNCHANGED <<writeVars, viewVars, cache, snapshotVersion, remoteKey, watch,
                 watchIdle, pending, position>>

ServerSnapshot(version) ==
  /\ target # "none" /\ Len(news) < MaxNews
  /\ \/ target = "added" /\ version >= position
     \/ target = "current" /\ version > position /\ version = Len(log)
  /\ news' = Append(news, [kind |-> "snapshot", version |-> version])
  /\ position' = version
  /\ target' = "current"
  /\ UNCHANGED <<writeVars, viewVars, cache, snapshotVersion, remoteKey, watch,
                 watchIdle, asked, pending>>

ServerWriteStep ==
  /\ \/ ServerHandshake
     \/ \E w \in Write : ServerCommit(w) \/ ServerRefuse(w)
  /\ UNCHANGED <<watchVars, viewVars>>

ServerOtherWrite ==
  /\ \E o \in Other : ServerOther(o)
  /\ UNCHANGED <<watchVars, viewVars>>

-----------------------------------------------------------------------------
(* Both streams *)

(* RemoteStore::RestartNetwork, when the connectivity changes or the app   *)
(* comes to the foreground.                                                *)
RestartNetwork ==
  /\ RestartWriteStream
  /\ CloseWatchStream(IF Listening THEN "Starting" ELSE "Initial")
  /\ Emit(view, remoteKey,
          IF Listening THEN HandleWatchStreamStart(UpdateState(Unknown)) ELSE UpdateState(Unknown))

(* The app is ended and launched again: what is persisted stays. *)
Relaunch ==
  /\ RestartWriteStream
  /\ CloseWatchStream("Initial")
  /\ tracker' = Untracked
  /\ view' = NoView
  /\ listener' = "off"
  /\ told' = Absent
  /\ getter' = "off"
  /\ UNCHANGED gets

-----------------------------------------------------------------------------

(* What the app asks for. *)
AppStep ==
  \/ \E w \in Write : DoWrite(w)
  \/ AddSnapshotListener \/ GetDocuments

(* What the client and the server do about it. *)
WriteWork ==
  \/ WriteStreamStep \/ HandleSuccessfulWrite \/ HandleRejectedWrite \/ ServerWriteStep

WatchWork ==
  \/ OnWatchStreamOpen \/ OnWatchBackoffElapsed \/ OnWatchResponse \/ OnWatchSnapshot
  \/ RemoveQueryListener \/ ServerWatch \/ ServerSnapshot(Len(log))

(* Timers, faults, the other clients, and a server that lags behind. *)
Disturbance ==
  \/ WriteStreamEnds \/ OnWatchStreamClose \/ OnWatchIdleTimeout
  \/ OnOnlineStateTimeout \/ RestartNetwork \/ Relaunch \/ ServerOtherWrite
  \/ \E version \in 0..Len(log) : ServerSnapshot(version)

Next == AppStep \/ WriteWork \/ WatchWork \/ Disturbance

Spec == Init /\ [][Next]_vars

FairSpec == Spec /\ WF_vars(WriteWork) /\ WF_vars(WatchWork)
-----------------------------------------------------------------------------
(* Properties *)

(* The assertions of OnlineStateTracker and of both OnWatchStreamClose:    *)
(* the timer runs only while the state is Unknown and an attempt to        *)
(* connect is under way, so it is never started twice, and an open stream  *)
(* is idle only when nobody listens.                                       *)
TimersUnneeded ==
  /\ tracker.timer => tracker.state = Unknown /\ tracker.failures = 0 /\ IsStarted(watch)
  /\ watchIdle => watch = "Open" /\ ~Listening

(* The view shows what the local store has: no handler that changes the    *)
(* queue or the cache forgets to tell it.  The one exception is a write    *)
(* that was refused after an earlier one was acknowledged: it stays until  *)
(* the watch stream has caught up with the acknowledgement.                *)
ViewAgrees ==
  Listening /\ view.shown # LocalView(queue, cache).value =>
    view.shown \in refused /\ cache.committed

(* A client never shows a state without a write of its own that has        *)
(* succeeded, however late the watch stream is and however often the app   *)
(* was launched again.                                                     *)
ReadYourWrites ==
  \A w \in 1..issued \ (Range(queue) \cup refused) :
    Listening /\ view.shown \notin Range(queue) \cup refused =>
      \E i, j \in 1..cache.version : i <= j /\ log[i] = w /\ log[j] = view.shown

(* A listener is never taken back: what it is shown next was written after *)
(* what it shows, by the user, or as far as the server is concerned.  Only *)
(* a refused write is replaced by something older.                         *)
NoFlicker ==
  [][ listener = "raised" /\ listener' = "raised" /\ told' # told
        /\ told # Absent /\ told \notin refused' =>
        \/ told' \in Range(queue') /\ (told \in Write => told < told')
        \/ \E i, j \in 1..cache'.version : i < j /\ log'[i] = told /\ log'[j] = told'
    ]_vars

(* Whatever stream breaks, timer fires or write is refused, and if the     *)
(* server rejects no listen, in the end every write has completed, every   *)
(* get was answered, and the listener shows what the server has, for good. *)
Settles ==
  <>[] /\ queue = <<>>
       /\ getter # "waiting"
       /\ listener # "off" => listener = "raised" /\ told = At(Len(log))
=============================================================================
