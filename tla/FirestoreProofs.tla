--------------------------- MODULE FirestoreProofs ---------------------------
(***************************************************************************)
(* For any size of the pipeline and any bounds, the Firestore client keeps *)
(* the promises of its write half (WriteStreamProofs), runs no timer that  *)
(* is not needed, shows what its local store has, never loses a write of   *)
(* its own that has succeeded from the view, and takes no listener back.   *)
(*                                                                         *)
(* The proof goes in layers, each of which uses the ones before: the write *)
(* half, the watch stream, the types, the versions, the view.              *)
(***************************************************************************)
EXTENDS FirestoreClient, WriteStreamProofs, FiniteSetTheorems, FunctionTheorems

-----------------------------------------------------------------------------
(* The write half: nothing that the client adds to it disturbs it *)

(* A step of the client is a step of the write half, or does nothing to it *)
(* but count a fault of the watch stream.                                  *)
LEMMA ClientStep ==
  ASSUME [Next]_vars
  PROVE  \/ [WriteNext]_writeVars
         \/ OnWatchStreamClose
<1>1. CASE UNCHANGED vars
  BY <1>1 DEF vars
<1>2. CASE AppStep
  <2>1. CASE \E w \in Write : DoWrite(w)
    BY <2>1 DEF DoWrite, WriteNext
  <2>2. CASE AddSnapshotListener \/ GetDocuments
    BY <2>2 DEF AddSnapshotListener, GetDocuments, AddQueryListener
  <2> QED
    BY <1>2, <2>1, <2>2 DEF AppStep
<1>3. CASE WriteWork
  BY <1>3 DEF WriteWork, WriteStreamStep, HandleSuccessfulWrite, HandleRejectedWrite,
              ServerWriteStep, WriteNext
<1>4. CASE WatchWork
  BY <1>4 DEF WatchWork, OnWatchStreamOpen, OnWatchBackoffElapsed, OnWatchResponse,
              OnWatchSnapshot, RemoveQueryListener, ServerWatch, ServerSnapshot
<1>5. CASE Disturbance
  BY <1>5 DEF Disturbance, WriteStreamEnds, OnWatchIdleTimeout, OnOnlineStateTimeout,
              RestartNetwork, Relaunch, ServerOtherWrite, ServerSnapshot, WriteNext
<1> QED
  BY <1>1, <1>2, <1>3, <1>4, <1>5 DEF Next

(* A fault of the watch stream leaves the write half as it is. *)
LEMMA WatchCloseWrites ==
  ASSUME WInv, OnWatchStreamClose
  PROVE  /\ UNCHANGED <<queue, pipeline, stream, handshake, idle, requests, responses,
                        log, issued, refused>>
         /\ WInv'
<1>1. UNCHANGED <<queue, pipeline, stream, handshake, idle, requests, responses,
                  log, issued, refused>>
  BY DEF OnWatchStreamClose
<1>2. faults' \in 0..MaxFaults
  BY WriteBounds DEF OnWatchStreamClose, WInv, WriteTypeOK
<1> QED
  BY <1>1, <1>2 DEF WInv, WriteTypeOK, BatchIds, Increasing, PipelineFull, Front,
                    OpenOnly, Greeting, Answers, Unrefused, Refusal, IdleEmpty

(* The invariant of the write half is one of the client. *)
LEMMA ClientWInv == WInv /\ [Next]_vars => WInv'
BY ClientStep, NextWInv, WatchCloseWrites

(* It holds in every reachable state of the client. *)
LEMMA ClientWriteInvariance == Spec => []WInv
<1>1. Init => WInv
  BY InitWInv DEF Init
<1> QED
  BY <1>1, ClientWInv, PTL DEF Spec

(* RemoteStore::OnWriteStreamMutationResult and HandleWriteError, in the   *)
(* whole client: each response is taken for the write it is about.         *)
THEOREM ClientResponsesMatch == Spec => []ResponsesMatch
BY ClientWriteInvariance, InvResponsesMatch, PTL

(* The assertion of OnWriteStreamClose, in the whole client: the write     *)
(* stream is not stopped for idleness with a write to send.                *)
THEOREM ClientIdleUnneeded == Spec => []IdleUnneeded
BY ClientWriteInvariance, InvIdleUnneeded, PTL

(* The whole client implements the queue of WriteQueue: a write is neither *)
(* skipped nor overtaken, and completes only after the server has applied  *)
(* or refused it, whatever happens to either stream.                       *)
THEOREM ClientImplementsQueue == Spec => ImplementsWriteQueue
<1>1. WInv => AppliedCount
  BY AckFacts DEF AppliedCount
<1>2. WInv /\ AppliedCount /\ AppliedCount' /\ [Next]_vars
      => [Abstract!Next]_(Abstract!queueVars)
  <2> SUFFICES ASSUME WInv, AppliedCount, AppliedCount', [Next]_vars
               PROVE  [Abstract!Next]_(Abstract!queueVars)
    OBVIOUS
  <2>1. CASE [WriteNext]_writeVars
    BY <2>1, StepRefines
  <2>2. CASE OnWatchStreamClose
    BY <2>2, WatchCloseWrites, AppliedUnchanged DEF AppliedCount, Abstract!queueVars
  <2> QED
    BY <2>1, <2>2, ClientStep
<1>3. Init => Abstract!Init
  BY InitRefines DEF Init
<1> QED
  BY <1>1, <1>2, <1>3, ClientWriteInvariance, PTL DEF Spec, ImplementsWriteQueue, Abstract!Spec

-----------------------------------------------------------------------------
(* The watch stream: responses under way are counted right, and no timer   *)
(* runs that is not needed                                                 *)

ResponsesIn(s) == {i \in 1..Len(s) : s[i].kind = "response"}
Count(s) == Cardinality(ResponsesIn(s))

(* The count of a sequence of news is a number. *)
LEMMA CountType ==
  ASSUME NEW s \in Seq(News)
  PROVE  IsFiniteSet(ResponsesIn(s)) /\ Count(s) \in Nat /\ Len(s) \in Nat
<1>1. Len(s) \in Nat
  BY LenProperties
<1>2. IsFiniteSet(1..Len(s))
  BY <1>1, FS_Interval
<1>3. IsFiniteSet(ResponsesIn(s))
  BY <1>2, FS_Subset DEF ResponsesIn
<1> QED
  BY <1>1, <1>3, FS_CardinalityType DEF Count

(* Nothing under way: nothing is counted. *)
LEMMA CountEmpty == Count(<< >>) = 0
<1>1. ResponsesIn(<< >>) = {}
  BY NoIndex DEF ResponsesIn
<1> QED
  BY <1>1, FS_EmptySet DEF Count

(* The server sends a message. *)
LEMMA CountAppend ==
  ASSUME NEW s \in Seq(News), NEW x \in News
  PROVE  Count(Append(s, x)) = IF x.kind = "response" THEN Count(s) + 1 ELSE Count(s)
<1> DEFINE a == Append(s, x)
<1>1. IsFiniteSet(ResponsesIn(s)) /\ Count(s) \in Nat /\ Len(s) \in Nat
  BY CountType
<1>2. /\ Len(a) = Len(s) + 1 /\ a[Len(s) + 1] = x
      /\ \A i \in 1..Len(s) : a[i] = s[i]
  BY AppendProperties
<1> HIDE DEF a
<1>3. Len(s) + 1 \notin ResponsesIn(s) /\ 1..Len(a) = 1..Len(s) \cup {Len(s) + 1}
  BY <1>1, <1>2 DEF ResponsesIn
<1>4. CASE x.kind = "response"
  <2>1. ResponsesIn(a) = ResponsesIn(s) \cup {Len(s) + 1}
    BY <1>2, <1>3, <1>4 DEF ResponsesIn
  <2> QED
    BY <1>1, <1>3, <1>4, <2>1, FS_AddElement DEF Count, a
<1>5. CASE x.kind # "response"
  <2>1. ResponsesIn(a) = ResponsesIn(s)
    BY <1>2, <1>3, <1>5 DEF ResponsesIn
  <2> QED
    BY <1>5, <2>1 DEF Count, a
<1> QED
  BY <1>4, <1>5

(* The client reads a message. *)
LEMMA CountTail ==
  ASSUME NEW s \in Seq(News), s # << >>
  PROVE  /\ Tail(s) \in Seq(News) /\ Head(s) \in News
         /\ Count(s) = IF Head(s).kind = "response" THEN Count(Tail(s)) + 1 ELSE Count(Tail(s))
<1> DEFINE t == Tail(s)
           R == ResponsesIn(s) \ {1}
           T == ResponsesIn(t)
           f == [i \in T |-> i + 1]
<1>1. /\ t \in Seq(News) /\ Head(s) \in News /\ Len(t) = Len(s) - 1 /\ Head(s) = s[1]
      /\ \A i \in 1..Len(t) : t[i] = s[i + 1]
      /\ Len(s) \in Nat \ {0}
  BY HeadTailProperties, EmptySeq, LenProperties
<1>2. IsFiniteSet(ResponsesIn(s)) /\ Count(s) \in Nat
  BY CountType
<1>3. IsFiniteSet(T) /\ Count(t) \in Nat
  BY <1>1, CountType
<1> HIDE DEF t
<1>4. \A i \in T : i \in Nat /\ i + 1 \in R
  BY <1>1 DEF ResponsesIn
<1>5. \A j \in R : j - 1 \in T /\ (j - 1) + 1 = j
  BY <1>1 DEF ResponsesIn
<1> HIDE DEF R, T
<1>6. f \in [T -> R]
  BY <1>4
<1>7. \A a, b \in T : f[a] = f[b] => a = b
  BY <1>4
<1>8. \A j \in R : \E i \in T : f[i] = j
  BY <1>5
<1> HIDE DEF f
<1>9. f \in Bijection(T, R)
  BY <1>6, <1>7, <1>8, Fun_IsBij
<1>10. ExistsBijection(T, R)
  BY <1>9, Fun_ExistsBij
<1>11. Cardinality(R) = Cardinality(T)
  BY <1>3, <1>10, FS_Bijection
<1>12. Cardinality(R) = IF 1 \in ResponsesIn(s) THEN Count(s) - 1 ELSE Count(s)
  BY <1>2, FS_RemoveElement DEF R, Count
<1>13. 1 \in ResponsesIn(s) <=> Head(s).kind = "response"
  BY <1>1 DEF ResponsesIn
<1>14. Cardinality(T) = Count(t)
  BY DEF T, Count
<1>15. Count(s) = IF Head(s).kind = "response" THEN Count(t) + 1 ELSE Count(t)
  <2>1. Count(t) = IF Head(s).kind = "response" THEN Count(s) - 1 ELSE Count(s)
    BY <1>11, <1>12, <1>13, <1>14, Zenon
  <2> QED
    BY <1>2, <1>3, <2>1
<1> QED
  BY <1>1, <1>15 DEF t

Tracker == [state : {Online, Offline, Unknown}, failures : 0..MaxWatchStreamFailures, timer : BOOLEAN]
ListenerState == {"off", "waiting", "raised"}
GetterState   == {"off", "waiting", "answered"}

ConnType ==
  /\ watch \in StreamState /\ watchIdle \in BOOLEAN
  /\ asked \in Seq({"watch", "unwatch"}) /\ news \in Seq(News) /\ pending \in Nat
  /\ target \in {"none", "added", "current"}
  /\ tracker \in Tracker /\ listener \in ListenerState /\ getter \in GetterState

Consistent(t) == t.timer => t.state = Unknown /\ t.failures = 0

(* Only an open stream has something under way or a target. *)
Quiet == watch # "Open" => asked = << >> /\ news = << >> /\ pending = 0 /\ target = "none"

(* Every request is answered, and what the client waits for is what it has *)
(* asked and what was answered but not read.                               *)
Outstanding == pending = Len(asked) + Count(news)

ConnInv == ConnType /\ TimersUnneeded /\ Quiet /\ Outstanding

(* Emit calls listeners and sets the online state; it neither adds nor     *)
(* removes a listener.                                                     *)
LEMMA EmitConn ==
  ASSUME listener \in ListenerState, getter \in GetterState,
         NEW v, NEW key, NEW t, Emit(v, key, t)
  PROVE  /\ tracker' = t /\ listener' \in ListenerState /\ getter' \in GetterState
         /\ Listening' <=> Listening
BY DEF Emit, ListenerState, GetterState, Listening

(* A step that leaves the watch stream alone. *)
LEMMA SameConn ==
  ASSUME ConnInv, UNCHANGED <<watch, watchIdle, asked, news, pending, target, tracker>>,
         listener' \in ListenerState, getter' \in GetterState, Listening' <=> Listening
  PROVE  ConnInv'
BY DEF ConnInv, ConnType, TimersUnneeded, Quiet, Outstanding

(* A closed stream, with a tracker whose timer runs only for a stream that *)
(* is started.                                                             *)
LEMMA ClosedConn ==
  ASSUME ConnInv, NEW state \in StreamState \ {"Open"}, CloseWatchStream(state),
         listener' \in ListenerState, getter' \in GetterState, tracker' \in Tracker,
         tracker'.timer => tracker'.state = Unknown /\ tracker'.failures = 0 /\ IsStarted(state)
  PROVE  ConnInv'
<1>1. /\ watch' = state /\ watchIdle' = FALSE /\ asked' = << >> /\ news' = << >>
      /\ pending' = 0 /\ target' = "none"
  BY DEF CloseWatchStream
<1>2. asked' \in Seq({"watch", "unwatch"}) /\ news' \in Seq(News)
  BY <1>1, EmptySeq
<1>3. Outstanding'
  BY <1>1, CountEmpty, EmptySeq DEF Outstanding
<1> QED
  BY <1>1, <1>2, <1>3 DEF ConnInv, ConnType, TimersUnneeded, Quiet

(* The tracker starts its timer only in state Unknown, and does not start  *)
(* it after a failure that has taken the client offline.                   *)
LEMMA TrackerTypes ==
  /\ \A state \in {Online, Offline, Unknown} : UpdateState(state) \in Tracker /\ ~UpdateState(state).timer
  /\ Untracked \in Tracker /\ ~Untracked.timer
  /\ \A t \in Tracker : Consistent(t) => /\ HandleWatchStreamStart(t) \in Tracker
                                         /\ Consistent(HandleWatchStreamStart(t))
  /\ \A t \in Tracker : Consistent(t) => /\ HandleWatchStreamFailure(t) \in Tracker
                                         /\ Consistent(HandleWatchStreamFailure(t))
<1> USE DEF Online, Offline, Unknown, MaxWatchStreamFailures, Tracker, Consistent
<1>1. \A state \in {Online, Offline, Unknown} : UpdateState(state) \in Tracker /\ ~UpdateState(state).timer
  BY DEF UpdateState
<1>2. Untracked \in Tracker /\ ~Untracked.timer
  BY DEF Untracked
<1>3. ASSUME NEW t \in Tracker, Consistent(t)
      PROVE  HandleWatchStreamStart(t) \in Tracker /\ Consistent(HandleWatchStreamStart(t))
  BY <1>3 DEF HandleWatchStreamStart
<1>4. ASSUME NEW t \in Tracker, Consistent(t)
      PROVE  HandleWatchStreamFailure(t) \in Tracker /\ Consistent(HandleWatchStreamFailure(t))
  <2>1. t.failures + 1 >= MaxWatchStreamFailures
    OBVIOUS
  <2> QED
    BY <1>4, <2>1 DEF HandleWatchStreamFailure
<1> HIDE DEF Online, Offline, Unknown, MaxWatchStreamFailures, Tracker, Consistent
<1> QED
  BY <1>1, <1>2, <1>3, <1>4

(* EventManager::AddQueryListener *)
LEMMA AddConn ==
  ASSUME ConnInv, AddSnapshotListener \/ GetDocuments
  PROVE  ConnInv'
<1>1. PICK wait \in BOOLEAN : AddQueryListener(wait)
  BY DEF AddSnapshotListener, GetDocuments
<1>2. listener' \in ListenerState /\ getter' \in GetterState /\ Listening' /\ UNCHANGED <<news, target>>
  BY <1>1 DEF AddQueryListener, ConnInv, ConnType, ListenerState, GetterState, Listening,
              AddSnapshotListener, GetDocuments
<1>3. CASE Listening
  <2>1. UNCHANGED <<watch, watchIdle, asked, pending, tracker>>
    BY <1>1, <1>3 DEF AddQueryListener
  <2> QED
    BY <1>2, <1>3, <2>1, SameConn
<1>4. CASE ~Listening
  <2>1. WatchQuery /\ tracker' = TrackerOnListen
    BY <1>1, <1>4 DEF AddQueryListener
  <2>2. CASE watch = "Open"
    <3>1. IsStarted(watch)
      BY <2>2 DEF IsStarted
    <3>2. /\ UNCHANGED <<watch, tracker>> /\ asked' = Append(asked, "watch") /\ pending' = pending + 1
          /\ watchIdle' = FALSE
      BY <2>1, <2>2, <3>1 DEF WatchQuery, TrackerOnListen
    <3>3. asked' \in Seq({"watch", "unwatch"}) /\ Len(asked') = Len(asked) + 1 /\ Len(asked) \in Nat
      BY <3>2, AppendProperties, LenProperties DEF ConnInv, ConnType
    <3>4. Count(news) \in Nat
      BY CountType DEF ConnInv, ConnType
    <3>5. Outstanding'
      BY <1>2, <3>2, <3>3, <3>4 DEF ConnInv, Outstanding
    <3>6. ConnType'
      <4>1. pending' \in Nat
        BY <3>2 DEF ConnInv, ConnType
      <4> QED
        BY <1>2, <3>2, <3>3, <4>1 DEF ConnInv, ConnType
    <3> QED
      BY <2>2, <3>2, <3>5, <3>6 DEF ConnInv, TimersUnneeded, Quiet
  <2>3. CASE watch # "Open"
    <3>1. UNCHANGED <<asked, pending>> /\ watchIdle' = FALSE
      BY <2>1, <2>3 DEF WatchQuery, ConnInv, ConnType, TimersUnneeded
    <3>2. watch' \in StreamState \ {"Open"} /\ IsStarted(watch')
      BY <2>1, <2>3 DEF WatchQuery, ConnInv, ConnType, StreamState, IsStarted, Start
    <3>3. tracker' \in Tracker /\ (tracker'.timer => tracker'.state = Unknown /\ tracker'.failures = 0)
      BY <2>1, TrackerTypes DEF TrackerOnListen, ConnInv, ConnType, TimersUnneeded, Consistent
    <3>4. ConnType'
      BY <1>2, <3>1, <3>2, <3>3 DEF ConnInv, ConnType
    <3> QED
      BY <1>2, <2>3, <3>1, <3>2, <3>3, <3>4 DEF ConnInv, TimersUnneeded, Quiet, Outstanding
  <2> QED
    BY <2>2, <2>3
<1> QED
  BY <1>3, <1>4

(* EventManager::RemoveQueryListener, of the answered get *)
LEMMA RemoveConn ==
  ASSUME ConnInv, RemoveQueryListener
  PROVE  ConnInv'
<1>1. /\ getter = "answered" /\ getter' = "off" /\ UNCHANGED <<watch, news, target, listener>>
  BY DEF RemoveQueryListener
<1>2. CASE listener # "off"
  <2>1. UNCHANGED <<tracker, asked, pending, watchIdle>>
    BY <1>2 DEF RemoveQueryListener
  <2> QED
    BY <1>1, <1>2, <2>1, SameConn DEF Listening, ConnInv, ConnType, GetterState
<1>3. CASE listener = "off" /\ watch = "Open"
  <2>1. /\ asked' = Append(asked, "unwatch") /\ pending' = pending + 1 /\ watchIdle' = TRUE
        /\ UNCHANGED tracker
    BY <1>3 DEF RemoveQueryListener
  <2>2. asked' \in Seq({"watch", "unwatch"}) /\ Len(asked') = Len(asked) + 1 /\ Len(asked) \in Nat
    BY <2>1, AppendProperties, LenProperties DEF ConnInv, ConnType
  <2>3. Count(news) \in Nat
    BY CountType DEF ConnInv, ConnType
  <2>4. Outstanding'
    BY <1>1, <2>1, <2>2, <2>3 DEF ConnInv, Outstanding
  <2>5. ConnType'
    BY <1>1, <2>1, <2>2 DEF ConnInv, ConnType, GetterState
  <2> QED
    BY <1>1, <1>3, <2>1, <2>4, <2>5 DEF ConnInv, TimersUnneeded, Quiet, Listening
<1>4. CASE listener = "off" /\ watch # "Open"
  <2>1. tracker' = UpdateState(Unknown) /\ UNCHANGED <<asked, pending, watchIdle>>
    BY <1>4 DEF RemoveQueryListener
  <2>2. tracker' \in Tracker /\ ~tracker'.timer
    BY <2>1, TrackerTypes
  <2>3. watchIdle' = FALSE
    BY <1>4, <2>1 DEF ConnInv, ConnType, TimersUnneeded
  <2>4. ConnType'
    BY <1>1, <2>1, <2>2 DEF ConnInv, ConnType, GetterState
  <2> QED
    BY <1>1, <2>1, <2>2, <2>3, <2>4 DEF ConnInv, TimersUnneeded, Quiet, Outstanding
<1> QED
  BY <1>2, <1>3, <1>4

(* The stream on its way: RemoteStore::OnWatchStreamOpen, and the backoff. *)
LEMMA StartConn ==
  ASSUME ConnInv, OnWatchStreamOpen \/ OnWatchBackoffElapsed
  PROVE  ConnInv'
<1>1. UNCHANGED <<watchIdle, news, target, tracker, listener, getter>>
  BY DEF OnWatchStreamOpen, OnWatchBackoffElapsed, viewVars
<1>2. watch # "Open" /\ watchIdle = FALSE /\ news = << >>
  BY DEF OnWatchStreamOpen, OnWatchBackoffElapsed, ConnInv, ConnType, TimersUnneeded, Quiet
<1>3. watch' \in StreamState /\ IsStarted(watch')
  BY DEF OnWatchStreamOpen, OnWatchBackoffElapsed, StreamState, IsStarted
<1>4. CASE OnWatchStreamOpen
  <2>1. watch' = "Open" /\ asked' = (IF Listening THEN << "watch" >> ELSE << >>)
        /\ pending' = IF Listening THEN 1 ELSE 0
    BY <1>4 DEF OnWatchStreamOpen
  <2>2. asked' \in Seq({"watch", "unwatch"}) /\ Len(asked') = pending' /\ pending' \in Nat
    <3>1. << "watch" >> \in Seq({"watch", "unwatch"}) /\ Len(<< "watch" >>) = 1
      OBVIOUS
    <3> QED
      BY <2>1, <3>1, EmptySeq
  <2>3. Count(news') = 0
    BY <1>1, <1>2, CountEmpty
  <2>4. ConnType'
    BY <1>1, <1>3, <2>2 DEF ConnInv, ConnType
  <2>5. Outstanding'
    <3>1. pending' = pending' + 0
      BY <2>1
    <3> QED
      BY <2>2, <2>3, <3>1, Zenon DEF Outstanding
  <2> QED
    BY <1>1, <1>2, <1>3, <2>1, <2>4, <2>5 DEF ConnInv, TimersUnneeded, Quiet
<1>5. CASE OnWatchBackoffElapsed
  <2>1. UNCHANGED <<asked, pending>>
    BY <1>5 DEF OnWatchBackoffElapsed
  <2> QED
    BY <1>1, <1>2, <1>3, <2>1 DEF ConnInv, ConnType, TimersUnneeded, Quiet, Outstanding
<1> QED
  BY <1>4, <1>5

(* The stream ends: by an error, for idleness, or with both streams. *)
LEMMA CloseConn ==
  ASSUME ConnInv, OnWatchStreamClose \/ OnWatchIdleTimeout \/ RestartNetwork \/ Relaunch
  PROVE  ConnInv'
<1>1. /\ listener \in ListenerState /\ getter \in GetterState
      /\ tracker \in Tracker /\ Consistent(tracker)
  BY DEF ConnInv, ConnType, TimersUnneeded, Consistent
<1>2. CASE OnWatchStreamClose
  <2> DEFINE t == IF Listening THEN HandleWatchStreamStart(HandleWatchStreamFailure(tracker))
                  ELSE UpdateState(Unknown)
             state == IF Listening THEN Start("Error") ELSE "Error"
  <2>1. CloseWatchStream(state) /\ Emit(view, remoteKey, t)
    BY <1>2 DEF OnWatchStreamClose
  <2>2. state \in StreamState \ {"Open"} /\ (Listening => IsStarted(state))
    BY DEF Start, StreamState, IsStarted
  <2>3. t \in Tracker /\ Consistent(t) /\ (~Listening => ~t.timer)
    BY <1>1, TrackerTypes DEF Consistent
  <2> HIDE DEF t, state
  <2> QED
    BY <1>1, <2>1, <2>2, <2>3, EmitConn, ClosedConn DEF Consistent
<1>3. CASE OnWatchIdleTimeout
  <2>1. CloseWatchStream("Initial") /\ Emit(view, remoteKey, UpdateState(Unknown))
    BY <1>3 DEF OnWatchIdleTimeout
  <2>2. "Initial" \in StreamState \ {"Open"}
    BY DEF StreamState
  <2> QED
    BY <1>1, <2>1, <2>2, TrackerTypes, EmitConn, ClosedConn
<1>4. CASE RestartNetwork
  <2> DEFINE t == IF Listening THEN HandleWatchStreamStart(UpdateState(Unknown))
                  ELSE UpdateState(Unknown)
             state == IF Listening THEN "Starting" ELSE "Initial"
  <2>1. CloseWatchStream(state) /\ Emit(view, remoteKey, t)
    BY <1>4 DEF RestartNetwork
  <2>2. state \in StreamState \ {"Open"} /\ (Listening => IsStarted(state))
    BY DEF StreamState, IsStarted
  <2>3. t \in Tracker /\ Consistent(t) /\ (~Listening => ~t.timer)
    BY <1>1, TrackerTypes DEF Consistent
  <2> HIDE DEF t, state
  <2> QED
    BY <1>1, <2>1, <2>2, <2>3, EmitConn, ClosedConn DEF Consistent
<1>5. CASE Relaunch
  <2>1. CloseWatchStream("Initial") /\ tracker' = Untracked /\ listener' = "off" /\ getter' = "off"
    BY <1>5 DEF Relaunch
  <2>2. "Initial" \in StreamState \ {"Open"} /\ listener' \in ListenerState /\ getter' \in GetterState
    BY <2>1 DEF StreamState, ListenerState, GetterState
  <2> QED
    BY <2>1, <2>2, TrackerTypes, ClosedConn
<1> QED
  BY <1>2, <1>3, <1>4, <1>5

(* The online state changes, with a stopped timer. *)
LEMMA OnlineConn ==
  ASSUME ConnInv, UNCHANGED <<watch, watchIdle, asked, target>>,
         news' \in Seq(News), pending' \in Nat, Outstanding', Quiet',
         NEW v, NEW key, NEW t \in Tracker, ~t.timer, Emit(v, key, t)
  PROVE  ConnInv'
<1>1. /\ tracker' = t /\ listener' \in ListenerState /\ getter' \in GetterState
      /\ Listening' <=> Listening
  BY EmitConn DEF ConnInv, ConnType
<1> QED
  BY <1>1 DEF ConnInv, ConnType, TimersUnneeded

(* The ten second timer of OnlineStateTracker *)
LEMMA TimeoutConn ==
  ASSUME ConnInv, OnOnlineStateTimeout
  PROVE  ConnInv'
<1> DEFINE t == [tracker EXCEPT !.timer = FALSE, !.state = Offline]
<1>1. UNCHANGED <<watch, watchIdle, asked, news, pending, target>> /\ Emit(view, remoteKey, t)
  BY DEF OnOnlineStateTimeout, watchVars
<1>2. t \in Tracker /\ ~t.timer
  BY DEF ConnInv, ConnType, Tracker
<1> HIDE DEF t
<1>3. news' \in Seq(News) /\ pending' \in Nat /\ Outstanding' /\ Quiet'
  BY <1>1 DEF ConnInv, ConnType, Outstanding, Quiet
<1> QED
  BY <1>1, <1>2, <1>3, OnlineConn

(* RemoteStore::OnWatchStreamChange: the client reads a message. *)
LEMMA ReadConn ==
  ASSUME ConnInv, OnWatchResponse \/ OnWatchSnapshot
  PROVE  ConnInv'
<1>1. /\ news # << >> /\ news' = Tail(news) /\ UNCHANGED <<watch, watchIdle, asked, target>>
      /\ Head(news).kind = (IF OnWatchResponse THEN "response" ELSE "snapshot")
      /\ pending' = IF OnWatchResponse THEN pending - 1 ELSE pending
  BY DEF OnWatchResponse, OnWatchSnapshot
<1>2. PICK v, key : Emit(v, key, UpdateState(Online))
  BY DEF OnWatchResponse, OnWatchSnapshot
<1>3. UpdateState(Online) \in Tracker /\ ~UpdateState(Online).timer
  BY TrackerTypes
<1>4. news \in Seq(News) /\ asked \in Seq({"watch", "unwatch"}) /\ pending \in Nat
  BY DEF ConnInv, ConnType
<1>5. /\ news' \in Seq(News)
      /\ Count(news) = IF Head(news).kind = "response" THEN Count(news') + 1 ELSE Count(news')
  BY <1>1, <1>4, CountTail
<1>6. Count(news') \in Nat /\ Len(asked) \in Nat
  BY <1>4, <1>5, CountType, LenProperties
<1>7. pending = Len(asked) + Count(news)
  BY DEF ConnInv, Outstanding
<1>8. pending' = Len(asked) + Count(news')
  <2>1. CASE OnWatchResponse
    <3>1. Count(news) = Count(news') + 1 /\ pending' = pending - 1
      BY <1>1, <1>5, <2>1
    <3> QED
      BY <1>6, <1>7, <3>1
  <2>2. CASE ~OnWatchResponse
    BY <1>1, <1>5, <1>7, <2>2
  <2> QED
    BY <2>1, <2>2
<1>9. pending' \in Nat
  BY <1>6, <1>8
<1>10. Outstanding'
  BY <1>1, <1>8 DEF Outstanding
<1>11. Quiet'
  BY <1>1 DEF Quiet, ConnInv
<1> QED
  BY <1>1, <1>2, <1>3, <1>5, <1>9, <1>10, <1>11, OnlineConn

(* The server reads a request or sends a snapshot. *)
LEMMA ServeConn ==
  ASSUME ConnInv, ServerWatch \/ \E version \in 0..Len(log) : ServerSnapshot(version)
  PROVE  ConnInv'
<1>1. UNCHANGED <<watch, watchIdle, pending, tracker, listener, getter>>
  BY DEF ServerWatch, ServerSnapshot, viewVars
<1>2. news \in Seq(News) /\ asked \in Seq({"watch", "unwatch"}) /\ pending \in Nat
      /\ Count(news) \in Nat /\ Len(asked) \in Nat
  BY CountType, LenProperties DEF ConnInv, ConnType
<1>3. pending = Len(asked) + Count(news)
  BY DEF ConnInv, Outstanding
<1>4. CASE ServerWatch
  <2> DEFINE x == [kind |-> "response"]
  <2>1. asked # << >> /\ asked' = Tail(asked) /\ news' = Append(news, x)
        /\ target' \in {"none", "added", "current"}
    BY <1>4 DEF ServerWatch
  <2>2. x \in News /\ x.kind = "response"
    BY DEF News
  <2> HIDE DEF x
  <2>3. news' \in Seq(News) /\ Count(news') = Count(news) + 1
    BY <1>2, <2>1, <2>2, AppendProperties, CountAppend
  <2>4. asked' \in Seq({"watch", "unwatch"}) /\ Len(asked') = Len(asked) - 1
    BY <1>2, <2>1, HeadTailProperties
  <2>5. pending = Len(asked') + Count(news')
    BY <1>2, <1>3, <2>3, <2>4
  <2>6. watch = "Open"
    BY <2>1 DEF ConnInv, Quiet
  <2>7. ConnType'
    BY <1>1, <2>1, <2>3, <2>4 DEF ConnInv, ConnType
  <2>8. TimersUnneeded'
    BY <1>1 DEF ConnInv, TimersUnneeded, Listening
  <2>9. Outstanding'
    BY <1>1, <2>5 DEF Outstanding
  <2> QED
    BY <1>1, <2>6, <2>7, <2>8, <2>9 DEF ConnInv, Quiet
<1>5. CASE \E version \in 0..Len(log) : ServerSnapshot(version)
  <2>1. PICK version \in 0..Len(log) : ServerSnapshot(version)
    BY <1>5
  <2> DEFINE x == [kind |-> "snapshot", version |-> version]
  <2>2. target # "none" /\ news' = Append(news, x) /\ target' = "current" /\ UNCHANGED asked
    BY <2>1 DEF ServerSnapshot
  <2>3. x \in News /\ x.kind # "response"
    BY DEF News
  <2> HIDE DEF x
  <2>4. news' \in Seq(News) /\ Count(news') = Count(news)
    BY <1>2, <2>2, <2>3, AppendProperties, CountAppend
  <2>5. watch = "Open"
    BY <2>2 DEF ConnInv, Quiet
  <2>6. ConnType'
    BY <1>1, <2>2, <2>4 DEF ConnInv, ConnType
  <2>7. TimersUnneeded'
    BY <1>1 DEF ConnInv, TimersUnneeded, Listening
  <2>8. Outstanding'
    BY <1>1, <1>3, <2>2, <2>4 DEF Outstanding
  <2> QED
    BY <1>1, <2>5, <2>6, <2>7, <2>8 DEF ConnInv, Quiet
<1> QED
  BY <1>4, <1>5

(* What the write half does to the view goes through Emit with the same    *)
(* online state; the rest of it does not touch the watch stream.           *)
LEMMA WriteConn ==
  ASSUME ConnInv,
         \/ \E w \in Write : DoWrite(w)
         \/ HandleSuccessfulWrite \/ HandleRejectedWrite
         \/ UNCHANGED <<watchVars, viewVars>>
  PROVE  ConnInv'
<1>1. UNCHANGED <<watch, watchIdle, asked, news, pending, target>>
  BY DEF DoWrite, HandleSuccessfulWrite, HandleRejectedWrite, watchVars
<1>2. UNCHANGED viewVars \/ \E v : Emit(v, remoteKey, tracker)
  BY DEF DoWrite, HandleSuccessfulWrite, HandleRejectedWrite, EmitLocal
<1>3. listener \in ListenerState /\ getter \in GetterState
  BY DEF ConnInv, ConnType
<1>4. /\ listener' \in ListenerState /\ getter' \in GetterState
      /\ UNCHANGED tracker /\ (Listening' <=> Listening)
  BY <1>2, <1>3, EmitConn DEF viewVars, Listening
<1> QED
  BY <1>1, <1>4, SameConn

(* The steps of the client, by what they do to the watch half. *)
LEMMA StepKinds ==
  ASSUME [Next]_vars, WInv
  PROVE  \/ \E w \in Write : DoWrite(w)
         \/ HandleSuccessfulWrite \/ HandleRejectedWrite
         \/ UNCHANGED <<watchVars, viewVars, queue, issued, refused>>
         \/ AddSnapshotListener \/ GetDocuments \/ RemoveQueryListener
         \/ OnWatchStreamOpen \/ OnWatchBackoffElapsed
         \/ OnWatchStreamClose \/ OnWatchIdleTimeout \/ RestartNetwork \/ Relaunch
         \/ OnOnlineStateTimeout \/ OnWatchResponse \/ OnWatchSnapshot
         \/ ServerWatch \/ \E version \in 0..Len(log) : ServerSnapshot(version)
<1>1. Len(log) \in 0..Len(log)
  BY LenProperties DEF WInv, WriteTypeOK
<1>2. CASE UNCHANGED vars
  BY <1>2 DEF vars, writeVars
<1>3. CASE WriteStreamStep \/ ServerWriteStep \/ WriteStreamEnds \/ ServerOtherWrite
  <2>1. UNCHANGED <<watchVars, viewVars>>
    BY <1>3 DEF WriteStreamStep, ServerWriteStep, WriteStreamEnds, ServerOtherWrite
  <2>2. UNCHANGED <<queue, issued, refused>>
    BY <1>3 DEF WriteStreamStep, ServerWriteStep, WriteStreamEnds, ServerOtherWrite,
        OnWriteStreamOpen, OnWriteStreamHandshakeComplete, OnBackoffElapsed, OnWriteStreamClose,
        OnIdleTimeout, ServerHandshake, ServerCommit, ServerRefuse, ServerOther
  <2> QED
    BY <2>1, <2>2
<1>4. CASE Next
  BY <1>1, <1>3, <1>4 DEF Next, AppStep, WriteWork, WatchWork, Disturbance
<1> QED
  BY <1>2, <1>4

(* Every step keeps the invariant of the watch stream. *)
LEMMA NextConn == WInv /\ ConnInv /\ [Next]_vars => ConnInv'
BY StepKinds, WriteConn, AddConn, RemoveConn, StartConn, CloseConn, TimeoutConn, ReadConn, ServeConn

(* Nothing is under way at the start. *)
LEMMA InitConn == Init => ConnInv
<1> SUFFICES ASSUME Init PROVE ConnInv
  OBVIOUS
<1>1. << >> \in Seq({"watch", "unwatch"}) /\ << >> \in Seq(News) /\ Len(<< >>) = 0
  BY EmptySeq
<1>2. Outstanding
  BY <1>1, CountEmpty DEF Init, Outstanding
<1>3. tracker \in Tracker /\ ~tracker.timer
  BY TrackerTypes DEF Init
<1> QED
  BY <1>1, <1>2, <1>3 DEF Init, ConnInv, ConnType, StreamState, ListenerState, GetterState,
                          TimersUnneeded, Quiet

(* It holds in every reachable state. *)
LEMMA ConnInvariance == Spec => []ConnInv
BY ClientWriteInvariance, InitConn, NextConn, PTL DEF Spec

(* The assertions of OnlineStateTracker and of RemoteStore's               *)
(* OnWatchStreamClose: the online timer runs only while the state is       *)
(* Unknown and the client is trying to connect, so it is not started       *)
(* twice, and the watch stream is idle only when nobody listens.           *)
THEOREM ClientTimersUnneeded == Spec => []TimersUnneeded
BY ConnInvariance, PTL DEF ConnInv

-----------------------------------------------------------------------------
(* The versions of the acknowledgements *)

IsAck(i) == responses[i].kind = "ack"

(* An acknowledgement tells where the server has put the write. *)
AckVersions ==
  \A i \in 1..Len(responses) : IsAck(i) =>
    /\ responses[i].version \in 1..Len(log)
    /\ log[responses[i].version] = responses[i].write

(* The server answers in the order of its log. *)
AcksOrdered ==
  \A i, j \in 1..Len(responses) :
    i < j /\ IsAck(i) /\ IsAck(j) => responses[i].version < responses[j].version

(* The server has no write of this client that was not issued. *)
LogIssued == \A i \in 1..Len(log) : log[i] \in Write => log[i] <= issued

VInv == AckVersions /\ AcksOrdered /\ LogIssued

(* The log of the server only grows. *)
LEMMA LogGrows ==
  ASSUME WInv, [Next]_vars
  PROVE  /\ log' \in Seq(Write \cup Other) /\ Len(log) \in Nat /\ Len(log') \in Nat
         /\ Len(log) <= Len(log')
         /\ \A i \in 1..Len(log) : log'[i] = log[i]
<1>1. log \in Seq(Write \cup Other) /\ Len(log) \in Nat
  BY LenProperties DEF WInv, WriteTypeOK
<1>2. UNCHANGED log \/ \E w \in Write \cup Other : log' = Append(log, w)
  <2>1. CASE [WriteNext]_writeVars
    BY <2>1 DEF WriteNext, writeVars, WriteMutations, ServerCommit, ServerRefuse,
        OnWriteStreamOpen, OnWriteStreamHandshakeComplete, OnWriteStreamMutationResult,
        OnWriteStreamRefused, OnWriteStreamClose, OnIdleTimeout, OnBackoffElapsed,
        RestartWriteStream, ServerHandshake, ServerOther
  <2>2. CASE OnWatchStreamClose
    BY <2>2 DEF OnWatchStreamClose
  <2> QED
    BY <2>1, <2>2, ClientStep
<1>3. CASE UNCHANGED log
  BY <1>1, <1>3
<1>4. CASE \E w \in Write \cup Other : log' = Append(log, w)
  BY <1>1, <1>4, AppendProperties
<1> QED
  BY <1>2, <1>3, <1>4

(* The responses are those there were, the rest of them, or none. *)
LEMMA KeptVersions ==
  ASSUME WInv, VInv, log' = log,
         \/ responses' = responses
         \/ responses # << >> /\ responses' = Tail(responses)
         \/ responses' = << >>,
         issued' \in Nat, issued <= issued'
  PROVE  VInv'
<1>1. responses \in Seq(Response) /\ Len(responses) \in Nat /\ issued \in Nat
      /\ log \in Seq(Write \cup Other)
  BY LenProperties, WriteBounds DEF WInv, WriteTypeOK
<1>2. LogIssued'
  <2>1. \A i \in 1..Len(log) : log[i] \in Write => log[i] \in Nat
    BY WriteBounds DEF Write
  <2> QED
    BY <1>1, <2>1 DEF VInv, LogIssued
<1>3. CASE responses' = responses
  BY <1>2, <1>3 DEF VInv, AckVersions, AcksOrdered, IsAck
<1>4. CASE responses' = << >>
  <2>1. 1..Len(responses') = {}
    BY <1>4, EmptySeq
  <2> QED
    BY <1>2, <2>1 DEF VInv, AckVersions, AcksOrdered
<1>5. CASE responses # << >> /\ responses' = Tail(responses)
  <2>1. Len(responses') = Len(responses) - 1 /\ \A i \in 1..Len(responses') : responses'[i] = responses[i + 1]
    BY <1>1, <1>5, HeadTailProperties
  <2>2. \A i \in 1..Len(responses') : i + 1 \in 1..Len(responses) /\ (IsAck(i)' => IsAck(i + 1))
    BY <1>1, <2>1 DEF IsAck
  <2>3. AckVersions'
    BY <2>1, <2>2 DEF VInv, AckVersions
  <2>4. AcksOrdered'
    <3> SUFFICES ASSUME NEW i \in 1..Len(responses'), NEW j \in 1..Len(responses'),
                        i < j, IsAck(i)', IsAck(j)'
                 PROVE  responses'[i].version < responses'[j].version
      BY DEF AcksOrdered
    <3>1. i + 1 < j + 1
      BY <1>1
    <3> QED
      BY <2>1, <2>2, <3>1 DEF VInv, AcksOrdered
  <2> QED
    BY <1>2, <2>3, <2>4 DEF VInv
<1> QED
  BY <1>3, <1>4, <1>5

(* The server sends a response, an acknowledgement only of the last write  *)
(* of its log.                                                             *)
LEMMA SentVersions ==
  ASSUME WInv, VInv, LogIssued',
         Len(log) <= Len(log'), \A i \in 1..Len(log) : log'[i] = log[i], Len(log') \in Nat,
         NEW x \in Response, responses' = Append(responses, x),
         x.kind = "ack" => /\ Len(log') = Len(log) + 1 /\ x.version = Len(log')
                           /\ log'[x.version] = x.write
  PROVE  VInv'
<1> DEFINE n == Len(responses)
<1>1. /\ n \in Nat /\ Len(responses') = n + 1 /\ responses'[n + 1] = x
      /\ \A i \in 1..n : responses'[i] = responses[i]
      /\ Len(log) \in Nat
  BY Responded, LenProperties DEF WInv, WriteTypeOK
<1>2. \A i \in 1..Len(responses') : i \in 1..n \/ i = n + 1
  BY <1>1
<1>3. \A i \in 1..n : IsAck(i)' <=> IsAck(i)
  BY <1>1 DEF IsAck
<1>4. ASSUME NEW i \in 1..Len(responses'), i = n + 1, IsAck(i)'
      PROVE  /\ responses'[i] = x /\ x.version = Len(log) + 1 /\ x.version = Len(log')
             /\ log'[x.version] = x.write
  <2>1. responses'[i] = x /\ x.kind = "ack"
    BY <1>1, <1>4 DEF IsAck
  <2> QED
    BY <2>1
<1>5. \A i \in 1..n : IsAck(i) => /\ responses[i].version \in 1..Len(log)
                                  /\ log[responses[i].version] = responses[i].write
  BY DEF VInv, AckVersions
<1>6. AckVersions'
  <2> SUFFICES ASSUME NEW i \in 1..Len(responses'), IsAck(i)'
               PROVE  /\ responses'[i].version \in 1..Len(log')
                      /\ log'[responses'[i].version] = responses'[i].write
    BY DEF AckVersions
  <2>1. CASE i = n + 1
    <3>1. /\ responses'[i] = x /\ x.version = Len(log) + 1 /\ x.version = Len(log')
          /\ log'[x.version] = x.write
      BY <1>4, <2>1
    <3>2. x.version \in 1..Len(log')
      BY <1>1, <3>1
    <3> QED
      BY <3>1, <3>2
  <2>2. CASE i \in 1..n
    <3>1. responses[i].version \in 1..Len(log) /\ log[responses[i].version] = responses[i].write
      BY <1>3, <1>5, <2>2
    <3> QED
      BY <1>1, <2>2, <3>1
  <2> QED
    BY <1>2, <2>1, <2>2
<1>7. AcksOrdered'
  <2> SUFFICES ASSUME NEW i \in 1..Len(responses'), NEW j \in 1..Len(responses'),
                      i < j, IsAck(i)', IsAck(j)'
               PROVE  responses'[i].version < responses'[j].version
    BY DEF AcksOrdered
  <2>1. i \in 1..n
    BY <1>1
  <2>2. CASE j = n + 1
    <3>1. responses'[j] = x /\ x.version = Len(log) + 1
      BY <1>4, <2>2
    <3>2. responses'[i] = responses[i] /\ responses[i].version \in 1..Len(log)
      BY <1>1, <1>3, <1>5, <2>1
    <3> QED
      BY <1>1, <3>1, <3>2
  <2>3. CASE j \in 1..n
    BY <1>1, <1>3, <2>1, <2>3 DEF VInv, AcksOrdered
  <2> QED
    BY <1>2, <2>2, <2>3
<1> QED
  BY <1>6, <1>7 DEF VInv

(* Every step keeps the order of the versions. *)
LEMMA NextVersions == WInv /\ VInv /\ [Next]_vars => VInv'
<1> SUFFICES ASSUME WInv, VInv, [Next]_vars PROVE VInv'
  OBVIOUS
<1>1. /\ log' \in Seq(Write \cup Other) /\ Len(log) \in Nat /\ Len(log') \in Nat
      /\ Len(log) <= Len(log') /\ \A i \in 1..Len(log) : log'[i] = log[i]
      /\ log \in Seq(Write \cup Other)
  BY LogGrows DEF WInv, WriteTypeOK
<1>2. issued \in Nat /\ \A w \in Write : w \in Nat
  BY WriteBounds DEF WInv, WriteTypeOK, Write
<1>3. CASE OnWatchStreamClose \/ UNCHANGED writeVars
  <2>1. UNCHANGED <<responses, log, issued>>
    BY <1>3 DEF OnWatchStreamClose, writeVars
  <2> QED
    BY <1>2, <2>1, KeptVersions
<1>4. ASSUME NEW w \in Write, WriteMutations(w)
      PROVE  VInv'
  <2>1. UNCHANGED <<responses, log>> /\ issued' = issued + 1
    BY <1>4 DEF WriteMutations
  <2>2. issued' \in Nat /\ issued <= issued'
    BY <1>2, <2>1
  <2> QED
    BY <2>1, <2>2, KeptVersions
<1>5. CASE OnWriteStreamOpen \/ OnWriteStreamHandshakeComplete \/ OnWriteStreamMutationResult
        \/ OnWriteStreamRefused \/ OnWriteStreamClose \/ OnIdleTimeout \/ OnBackoffElapsed
        \/ RestartWriteStream
  <2>1. UNCHANGED <<log, issued>>
    BY <1>5 DEF OnWriteStreamOpen, OnWriteStreamHandshakeComplete, OnWriteStreamMutationResult,
        OnWriteStreamRefused, OnWriteStreamClose, OnIdleTimeout, OnBackoffElapsed, RestartWriteStream
  <2>2. \/ responses' = responses
        \/ responses # << >> /\ responses' = Tail(responses)
        \/ responses' = << >>
    BY <1>5 DEF OnWriteStreamOpen, OnWriteStreamHandshakeComplete, OnWriteStreamMutationResult,
        OnWriteStreamRefused, OnWriteStreamClose, OnIdleTimeout, OnBackoffElapsed, RestartWriteStream
  <2> QED
    BY <1>2, <2>1, <2>2, KeptVersions
<1>6. CASE ServerHandshake \/ \E w \in Write : ServerRefuse(w)
  <2>1. PICK k \in {"handshake", "refused"} :
          responses' = Append(responses, [kind |-> k]) /\ UNCHANGED <<log, issued>>
    BY <1>6 DEF ServerHandshake, ServerRefuse
  <2> DEFINE x == [kind |-> k]
  <2>2. x \in Response /\ x.kind # "ack"
    BY DEF Response
  <2> HIDE DEF x
  <2>3. LogIssued'
    BY <2>1 DEF VInv, LogIssued
  <2>4. responses' = Append(responses, x)
    BY <2>1 DEF x
  <2> QED
    BY <1>1, <2>2, <2>3, <2>4, SentVersions
<1>7. ASSUME NEW w \in Write, ServerCommit(w)
      PROVE  VInv'
  <2> DEFINE x == [kind |-> "ack", write |-> w, version |-> Len(log')]
  <2>1. /\ Reading(w) /\ log' = Append(log, w) /\ responses' = Append(responses, x)
        /\ UNCHANGED issued
    BY <1>7 DEF ServerCommit
  <2>2. x \in Response /\ x.version = Len(log') /\ x.write = w
    BY <1>1 DEF Response
  <2> HIDE DEF x
  <2>3. Len(log') = Len(log) + 1 /\ log'[Len(log) + 1] = w
    BY <1>1, <2>1, AppendProperties
  <2>4. w <= issued
    <3>1. /\ Len(responses) + 1 \in 1..Len(pipeline) /\ w = pipeline[Len(responses) + 1]
      <4>1. handshake /\ Len(responses) + 1 <= Len(pipeline) /\ w = pipeline[Len(responses) + 1]
        BY <2>1, ReadingFacts
      <4>2. Len(responses) \in Nat /\ Len(pipeline) \in Nat
        BY LenProperties DEF WInv, WriteTypeOK
      <4> QED
        BY <4>1, <4>2
    <3>2. /\ \A i \in 1..Len(pipeline) : pipeline[i] = queue[i]
          /\ Len(pipeline) \in 0..Len(queue) /\ DOMAIN queue = 1..Len(queue) /\ Len(queue) \in Nat
      BY PipelineFacts DEF WInv
    <3>3. Len(responses) + 1 \in DOMAIN queue
      BY <3>1, <3>2
    <3> QED
      BY <3>1, <3>2, <3>3 DEF WInv, BatchIds
  <2>5. LogIssued'
    <3>1. \A i \in 1..Len(log') : i \in 1..Len(log) \/ i = Len(log) + 1
      BY <1>1, <2>3
    <3> QED
      BY <1>1, <2>1, <2>3, <2>4, <3>1 DEF VInv, LogIssued
  <2>6. log'[x.version] = x.write
    BY <2>2, <2>3
  <2> QED
    BY <1>1, <2>1, <2>2, <2>3, <2>5, <2>6, SentVersions
<1>8. ASSUME NEW o \in Other, ServerOther(o)
      PROVE  VInv'
  <2>1. log' = Append(log, o) /\ UNCHANGED <<responses, issued>>
    BY <1>8 DEF ServerOther
  <2>2. Len(log') = Len(log) + 1 /\ log'[Len(log) + 1] = o
    BY <1>1, <1>8, <2>1, AppendProperties
  <2>3. o \notin Write
    BY WriteBounds DEF Other, Write
  <2>4. LogIssued'
    <3>1. \A i \in 1..Len(log') : i \in 1..Len(log) \/ i = Len(log) + 1
      BY <1>1, <2>2
    <3> QED
      BY <1>1, <2>1, <2>2, <2>3, <3>1 DEF VInv, LogIssued
  <2>5. AckVersions'
    <3> SUFFICES ASSUME NEW i \in 1..Len(responses), IsAck(i)
                 PROVE  /\ responses[i].version \in 1..Len(log')
                        /\ log'[responses[i].version] = responses[i].write
      BY <2>1 DEF AckVersions, IsAck
    <3>1. responses[i].version \in 1..Len(log) /\ log[responses[i].version] = responses[i].write
      BY DEF VInv, AckVersions
    <3> QED
      BY <1>1, <3>1
  <2>6. AcksOrdered'
    BY <2>1 DEF VInv, AcksOrdered, IsAck
  <2> QED
    BY <2>4, <2>5, <2>6 DEF VInv
<1> QED
  BY <1>3, <1>4, <1>5, <1>6, <1>7, <1>8, ClientStep DEF WriteNext

(* Where an acknowledgement comes from: it was there before, or the server *)
(* has just added to its log.                                              *)
LEMMA AckOrigin ==
  ASSUME WInv, [Next]_vars, NEW i \in 1..Len(responses'), IsAck(i)'
  PROVE  \/ \E j \in 1..Len(responses) : responses[j] = responses'[i]
         \/ responses'[i].version = Len(log) + 1
<1>1. responses \in Seq(Response) /\ Len(responses) \in Nat /\ log \in Seq(Write \cup Other)
      /\ Len(log) \in Nat
  BY LenProperties DEF WInv, WriteTypeOK
<1>2. CASE responses' = responses
  BY <1>2
<1>3. CASE responses' = << >>
  BY <1>3, EmptySeq
<1>4. CASE responses # << >> /\ responses' = Tail(responses)
  <2>1. Len(responses') = Len(responses) - 1 /\ responses'[i] = responses[i + 1]
    BY <1>1, <1>4, HeadTailProperties
  <2>2. i + 1 \in 1..Len(responses)
    BY <1>1, <2>1
  <2> QED
    BY <2>1, <2>2
<1>5. ASSUME NEW x \in Response, responses' = Append(responses, x),
             x.kind = "ack" => x.version = Len(log) + 1
      PROVE  \/ \E j \in 1..Len(responses) : responses[j] = responses'[i]
             \/ responses'[i].version = Len(log) + 1
  <2>1. /\ Len(responses') = Len(responses) + 1 /\ responses'[Len(responses) + 1] = x
        /\ \A j \in 1..Len(responses) : responses'[j] = responses[j]
    BY <1>5, Responded
  <2>2. i \in 1..Len(responses) \/ i = Len(responses) + 1
    BY <1>1, <2>1
  <2> QED
    BY <1>5, <2>1, <2>2 DEF IsAck
<1>6. \/ responses' = responses \/ responses' = << >>
      \/ responses # << >> /\ responses' = Tail(responses)
      \/ ServerHandshake \/ \E w \in Write : ServerCommit(w) \/ ServerRefuse(w)
  <2>1. CASE [WriteNext]_writeVars
    BY <2>1 DEF WriteNext, writeVars, WriteMutations, OnWriteStreamOpen,
        OnWriteStreamHandshakeComplete, OnWriteStreamMutationResult, OnWriteStreamRefused,
        OnWriteStreamClose, OnIdleTimeout, OnBackoffElapsed, RestartWriteStream, ServerOther
  <2>2. CASE OnWatchStreamClose
    BY <2>2 DEF OnWatchStreamClose
  <2> QED
    BY <2>1, <2>2, ClientStep
<1>7. CASE ServerHandshake \/ \E w \in Write : ServerRefuse(w)
  <2>1. PICK k \in {"handshake", "refused"} : responses' = Append(responses, [kind |-> k])
    BY <1>7 DEF ServerHandshake, ServerRefuse
  <2>2. [kind |-> k] \in Response /\ [kind |-> k].kind # "ack"
    BY DEF Response
  <2> QED
    BY <1>5, <2>1, <2>2
<1>8. ASSUME NEW w \in Write, ServerCommit(w)
      PROVE  \/ \E j \in 1..Len(responses) : responses[j] = responses'[i]
             \/ responses'[i].version = Len(log) + 1
  <2> DEFINE x == [kind |-> "ack", write |-> w, version |-> Len(log')]
  <2>1. log' = Append(log, w) /\ responses' = Append(responses, x)
    BY <1>8 DEF ServerCommit
  <2>2. Len(log') = Len(log) + 1
    BY <1>1, <2>1, AppendProperties
  <2>3. x \in Response /\ x.version = Len(log) + 1
    BY <1>1, <2>2 DEF Response
  <2> HIDE DEF x
  <2> QED
    BY <1>5, <2>1, <2>3
<1> QED
  BY <1>2, <1>3, <1>4, <1>6, <1>7, <1>8

-----------------------------------------------------------------------------
(* The cache *)

CacheType ==
  /\ cache \in [version : 0..Len(log), committed : BOOLEAN]
  /\ snapshotVersion \in 0..Len(log) /\ position \in 0..Len(log)
  /\ remoteKey \in BOOLEAN

NewsVersions == \A i \in 1..Len(news) : news[i].kind = "snapshot" => news[i].version <= Len(log)

(* What an acknowledgement has put in the cache is older than what the     *)
(* acknowledgements under way will put there.                              *)
CacheBehind ==
  cache.committed => \A i \in 1..Len(responses) : IsAck(i) => cache.version < responses[i].version

(* A write is in the queue, was refused, or is in the history of what is   *)
(* cached.                                                                 *)
Completed ==
  \A w \in 1..issued :
    \/ w \in Range(queue) \/ w \in refused
    \/ \E i \in 1..cache.version : log[i] = w

CacheInv == CacheType /\ NewsVersions /\ CacheBehind /\ Completed

(* What is in a queue after its first write was taken out. *)
LEMMA RangeOfTail ==
  ASSUME NEW q \in Seq(Write), q # << >>
  PROVE  /\ Range(q) = {Head(q)} \cup Range(Tail(q))
         /\ Tail(q) # << >> => Tail(q)[Len(Tail(q))] = q[Len(q)]
<1>1. /\ Tail(q) \in Seq(Write) /\ Len(q) \in Nat \ {0} /\ Len(Tail(q)) = Len(q) - 1
      /\ \A i \in 1..Len(Tail(q)) : Tail(q)[i] = q[i + 1]
      /\ Head(q) = q[1]
  BY HeadTailProperties, EmptySeq
<1>2. DOMAIN q = 1..Len(q) /\ DOMAIN Tail(q) = 1..Len(Tail(q))
  BY <1>1, LenProperties
<1>3. ASSUME NEW w \in Range(q) PROVE w = q[1] \/ w \in Range(Tail(q))
  <2>1. PICK i \in 1..Len(q) : w = q[i]
    BY <1>2 DEF Range
  <2>2. CASE i # 1
    <3>1. i - 1 \in 1..Len(Tail(q)) /\ (i - 1) + 1 = i
      BY <1>1, <2>2
    <3>2. Tail(q)[i - 1] = w
      BY <1>1, <2>1, <3>1
    <3> QED
      BY <1>2, <3>1, <3>2 DEF Range
  <2> QED
    BY <2>1, <2>2
<1>4. ASSUME NEW w \in Range(Tail(q)) PROVE w \in Range(q)
  <2>1. PICK i \in 1..Len(Tail(q)) : w = Tail(q)[i]
    BY <1>2 DEF Range
  <2>2. i + 1 \in 1..Len(q) /\ q[i + 1] = w
    BY <1>1, <2>1
  <2> QED
    BY <1>2, <2>2 DEF Range
<1>5. q[1] \in Range(q)
  BY <1>1, <1>2 DEF Range
<1>6. ASSUME Tail(q) # << >> PROVE Tail(q)[Len(Tail(q))] = q[Len(q)]
  <2>1. Len(Tail(q)) # 0
    BY <1>1, <1>6, EmptySeq
  <2>2. Len(Tail(q)) \in 1..Len(Tail(q)) /\ Len(Tail(q)) + 1 = Len(q)
    BY <1>1, <2>1
  <2> QED
    BY <1>1, <2>2
<1> QED
  BY <1>1, <1>3, <1>4, <1>5, <1>6

(* What is in a queue after a write was added. *)
LEMMA RangeOfAppend ==
  ASSUME NEW q \in Seq(Write), NEW w \in Write
  PROVE  /\ Range(Append(q, w)) = Range(q) \cup {w}
         /\ Append(q, w) # << >> /\ Append(q, w)[Len(Append(q, w))] = w
<1> DEFINE a == Append(q, w)
<1>1. /\ a \in Seq(Write) /\ a # << >> /\ Len(q) \in Nat /\ Len(a) = Len(q) + 1 /\ a[Len(q) + 1] = w
      /\ \A i \in 1..Len(q) : a[i] = q[i]
  BY AppendProperties, LenProperties
<1> HIDE DEF a
<1>2. DOMAIN q = 1..Len(q) /\ DOMAIN a = 1..Len(a)
  BY <1>1, LenProperties
<1>3. 1..Len(a) = 1..Len(q) \cup {Len(q) + 1}
  BY <1>1
<1>4. Range(a) = Range(q) \cup {w}
  BY <1>1, <1>2, <1>3 DEF Range
<1> QED
  BY <1>1, <1>4 DEF a

(* A step that changes neither the queue nor what was given up, and takes  *)
(* the cache only further.                                                 *)
LEMMA KeptCompleted ==
  ASSUME WInv, CacheInv, [Next]_vars, UNCHANGED <<queue, issued, refused>>,
         cache'.version \in Nat, cache.version <= cache'.version
  PROVE  Completed'
<1>1. cache.version \in 0..Len(log) /\ Len(log) \in Nat /\ \A i \in 1..Len(log) : log'[i] = log[i]
  BY LogGrows DEF CacheInv, CacheType
<1>2. \A i \in 1..cache.version : i \in 1..cache'.version /\ log'[i] = log[i]
  BY <1>1
<1> QED
  BY <1>2 DEF CacheInv, Completed

(* A step that does not write to the cache keeps what is said of it. *)
LEMMA KeptCache ==
  ASSUME WInv, VInv, CacheInv, [Next]_vars, UNCHANGED cache
  PROVE  /\ cache' \in [version : 0..Len(log'), committed : BOOLEAN]
         /\ CacheBehind'
<1>1. /\ Len(log) \in Nat /\ Len(log') \in Nat /\ Len(log) <= Len(log')
      /\ cache \in [version : 0..Len(log), committed : BOOLEAN]
  BY LogGrows DEF CacheInv, CacheType
<1>2. cache.version \in 0..Len(log) /\ cache.version \in 0..Len(log') /\ cache.committed \in BOOLEAN
      /\ cache = [version |-> cache.version, committed |-> cache.committed]
  BY <1>1
<1>3. CacheBehind'
  <2> SUFFICES ASSUME cache.committed, NEW i \in 1..Len(responses'), IsAck(i)'
               PROVE  cache.version < responses'[i].version
    BY DEF CacheBehind
  <2>1. CASE \E j \in 1..Len(responses) : responses[j] = responses'[i]
    BY <2>1 DEF CacheInv, CacheBehind, IsAck
  <2>2. CASE responses'[i].version = Len(log) + 1
    BY <1>1, <1>2, <2>2
  <2> QED
    BY <2>1, <2>2, AckOrigin
<1> QED
  BY <1>2, <1>3

(* The first acknowledgement: where it is from, and what comes after it. *)
LEMMA FirstAck ==
  ASSUME WInv, VInv, OnWriteStreamMutationResult
  PROVE  /\ pipeline # << >> /\ queue # << >> /\ queue' = Tail(queue)
         /\ Head(responses).version \in 1..Len(log)
         /\ log[Head(responses).version] = Head(queue)
         /\ \A i \in 1..Len(responses') :
              IsAck(i)' => Head(responses).version < responses'[i].version
         /\ Head(responses) = responses[1] /\ 1 \in 1..Len(responses) /\ IsAck(1)
         /\ UNCHANGED <<log, issued, refused>>
<1>1. /\ responses # << >> /\ handshake /\ Head(responses).kind = "ack"
      /\ responses' = Tail(responses) /\ UNCHANGED <<log, issued, refused>>
      /\ queue' = RemoveMutationBatch(queue, Head(pipeline))
  BY DEF OnWriteStreamMutationResult
<1>2. /\ pipeline # << >> /\ Len(responses) \in Nat \ {0} /\ Head(responses) = responses[1]
      /\ Len(responses') = Len(responses) - 1
      /\ \A i \in 1..Len(responses') : responses'[i] = responses[i + 1]
  BY <1>1, ResponseFacts
<1>3. queue # << >> /\ queue' = Tail(queue) /\ Head(pipeline) = Head(queue)
  BY <1>1, <1>2, FirstDone
<1>4. 1 \in 1..Len(responses) /\ IsAck(1) /\ Head(pipeline) = pipeline[1]
  BY <1>1, <1>2 DEF IsAck
<1>5. responses[1].write = pipeline[1]
  BY <1>1, <1>4 DEF WInv, Answers, Refusal, IsAck
<1>6. responses[1].version \in 1..Len(log) /\ log[responses[1].version] = responses[1].write
  BY <1>4 DEF VInv, AckVersions
<1>7. ASSUME NEW i \in 1..Len(responses'), IsAck(i)'
      PROVE  responses[1].version < responses'[i].version
  <2>1. i + 1 \in 1..Len(responses) /\ 1 < i + 1 /\ responses'[i] = responses[i + 1]
    BY <1>2
  <2>2. IsAck(i + 1)
    BY <1>7, <2>1 DEF IsAck
  <2> QED
    BY <1>4, <2>1, <2>2 DEF VInv, AcksOrdered
<1> QED
  BY <1>1, <1>2, <1>3, <1>4, <1>5, <1>6, <1>7

(* The steps that complete, add or cache nothing. *)
LEMMA KeptQueue ==
  ASSUME [Next]_vars, WInv, ~HandleSuccessfulWrite, ~HandleRejectedWrite, ~OnWatchSnapshot,
         \A w \in Write : ~DoWrite(w)
  PROVE  UNCHANGED <<queue, issued, refused, cache, snapshotVersion, remoteKey>>
<1>1. CASE UNCHANGED <<watchVars, viewVars, queue, issued, refused>>
  BY <1>1 DEF watchVars
<1>2. CASE AddSnapshotListener \/ GetDocuments
  BY <1>2 DEF AddSnapshotListener, GetDocuments, AddQueryListener, writeVars
<1>3. CASE RemoveQueryListener \/ OnWatchStreamOpen \/ OnWatchBackoffElapsed
        \/ OnOnlineStateTimeout \/ OnWatchResponse \/ ServerWatch
  BY <1>3 DEF RemoveQueryListener, OnWatchStreamOpen, OnWatchBackoffElapsed,
      OnOnlineStateTimeout, OnWatchResponse, ServerWatch, writeVars, watchVars
<1>4. CASE OnWatchStreamClose \/ OnWatchIdleTimeout
  BY <1>4 DEF OnWatchStreamClose, OnWatchIdleTimeout, CloseWatchStream, writeVars
<1>5. CASE RestartNetwork \/ Relaunch
  BY <1>5 DEF RestartNetwork, Relaunch, RestartWriteStream, CloseWatchStream
<1>6. CASE \E version \in 0..Len(log) : ServerSnapshot(version)
  BY <1>6 DEF ServerSnapshot, writeVars
<1> QED
  BY <1>1, <1>2, <1>3, <1>4, <1>5, <1>6, StepKinds

(* The version of the snapshot that is read. *)
LEMMA HeadVersion ==
  ASSUME ConnInv, CacheInv, WInv, news # << >>, Head(news).kind = "snapshot"
  PROVE  Head(news).version \in 0..Len(log) /\ Len(log) \in Nat
<1>1. Len(log) \in Nat /\ news \in Seq(News)
  BY LenProperties DEF WInv, WriteTypeOK, ConnInv, ConnType
<1>2. Head(news) = news[1] /\ 1 \in 1..Len(news) /\ Head(news) \in News
  BY <1>1, EmptySeq, HeadTailProperties
<1>3. Head(news).version \in Nat
  BY <1>2 DEF News
<1>4. Head(news).version <= Len(log)
  BY <1>2 DEF CacheInv, NewsVersions
<1> QED
  BY <1>1, <1>3, <1>4

(* What a snapshot does to the cache. *)
LEMMA SnapshotCache ==
  ASSUME ConnInv, CacheInv, WInv, OnWatchSnapshot
  PROVE  /\ UNCHANGED writeVars
         /\ cache' \in [version : 0..Len(log), committed : BOOLEAN]
         /\ cache.version <= cache'.version
         /\ cache' # cache => cache'.committed = FALSE
         /\ snapshotVersion' \in 0..Len(log) /\ remoteKey' \in BOOLEAN
<1> DEFINE version == Head(news).version
           active  == version >= snapshotVersion /\ Listening /\ pending = 0
           newer   == active /\ version > 0 /\ IsNewer(cache, version)
<1>1. /\ news # << >> /\ Head(news).kind = "snapshot" /\ UNCHANGED writeVars
      /\ snapshotVersion' = IF version >= snapshotVersion THEN version ELSE snapshotVersion
      /\ remoteKey' = IF active THEN version > 0 ELSE remoteKey
      /\ cache' = IF newer THEN [version |-> version, committed |-> FALSE] ELSE cache
  BY DEF OnWatchSnapshot
<1>2. version \in 0..Len(log) /\ Len(log) \in Nat
  BY <1>1, HeadVersion
<1>3. /\ cache \in [version : 0..Len(log), committed : BOOLEAN] /\ cache.version \in 0..Len(log)
      /\ snapshotVersion \in 0..Len(log) /\ remoteKey \in BOOLEAN
  BY DEF CacheInv, CacheType
<1>4. newer => version >= cache.version
  BY <1>2, <1>3 DEF IsNewer
<1> HIDE DEF version, active, newer
<1>5. snapshotVersion' \in 0..Len(log)
  BY <1>1, <1>2, <1>3
<1>6. remoteKey' \in BOOLEAN
  <2>1. (version > 0) \in BOOLEAN
    OBVIOUS
  <2> QED
    BY <1>1, <1>3, <2>1
<1>7. /\ cache' \in [version : 0..Len(log), committed : BOOLEAN]
      /\ cache.version <= cache'.version
      /\ cache' # cache => cache'.committed = FALSE
  <2>1. CASE newer
    <3>1. cache' = [version |-> version, committed |-> FALSE]
      BY <1>1, <2>1
    <3>2. version >= cache.version
      BY <1>4, <2>1
    <3> QED
      BY <1>2, <1>3, <3>1, <3>2
  <2>2. CASE ~newer
    <3>1. cache' = cache
      BY <1>1, <2>2
    <3> QED
      BY <1>2, <1>3, <3>1
  <2> QED
    BY <2>1, <2>2
<1> QED
  BY <1>1, <1>5, <1>6, <1>7

(* The messages under way on the watch stream tell of the log as it is. *)
LEMMA NextNews ==
  ASSUME ConnInv, CacheInv, WInv, [Next]_vars
  PROVE  NewsVersions'
<1>1. news \in Seq(News) /\ Len(news) \in Nat /\ Len(log) \in Nat /\ Len(log') \in Nat
      /\ Len(log) <= Len(log')
  BY LenProperties, LogGrows DEF ConnInv, ConnType
<1>2. ASSUME NEW i \in 1..Len(news), news[i].kind = "snapshot" PROVE news[i].version <= Len(log')
  <2>1. news[i] \in News
    BY <1>1, ElementOfSeq
  <2>2. news[i].version \in Nat
    BY <1>2, <2>1 DEF News
  <2> QED
    BY <1>1, <1>2, <2>2 DEF CacheInv, NewsVersions
<1>3. CASE news' = news
  BY <1>2, <1>3 DEF NewsVersions
<1>4. CASE news' = << >>
  <2>1. 1..Len(news') = {}
    BY <1>4, EmptySeq
  <2> QED
    BY <2>1 DEF NewsVersions
<1>5. CASE news # << >> /\ news' = Tail(news)
  <2>1. Len(news') = Len(news) - 1 /\ \A i \in 1..Len(news') : news'[i] = news[i + 1]
    BY <1>1, <1>5, HeadTailProperties
  <2>2. \A i \in 1..Len(news') : i + 1 \in 1..Len(news)
    BY <1>1, <2>1
  <2> QED
    BY <1>2, <2>1, <2>2 DEF NewsVersions
<1>6. ASSUME NEW x \in News, news' = Append(news, x), x.kind = "snapshot" => x.version <= Len(log')
      PROVE  NewsVersions'
  <2>1. /\ Len(news') = Len(news) + 1 /\ news'[Len(news) + 1] = x
        /\ \A i \in 1..Len(news) : news'[i] = news[i]
    BY <1>1, <1>6, AppendProperties
  <2>2. \A i \in 1..Len(news') : i \in 1..Len(news) \/ i = Len(news) + 1
    BY <1>1, <2>1
  <2> QED
    BY <1>2, <1>6, <2>1, <2>2 DEF NewsVersions
<1>7. CASE ServerWatch
  <2>1. news' = Append(news, [kind |-> "response"])
    BY <1>7 DEF ServerWatch
  <2>2. [kind |-> "response"] \in News /\ [kind |-> "response"].kind # "snapshot"
    BY DEF News
  <2> QED
    BY <1>6, <2>1, <2>2
<1>8. CASE \E version \in 0..Len(log) : ServerSnapshot(version)
  <2>1. PICK version \in 0..Len(log) : ServerSnapshot(version)
    BY <1>8
  <2> DEFINE x == [kind |-> "snapshot", version |-> version]
  <2>2. news' = Append(news, x)
    BY <2>1 DEF ServerSnapshot
  <2>3. x \in News /\ x.version <= Len(log')
    BY <1>1 DEF News
  <2> HIDE DEF x
  <2> QED
    BY <1>6, <2>2, <2>3
<1>9. CASE OnWatchResponse \/ OnWatchSnapshot
  BY <1>5, <1>9 DEF OnWatchResponse, OnWatchSnapshot
<1>10. CASE OnWatchStreamClose \/ OnWatchIdleTimeout \/ RestartNetwork \/ Relaunch
  BY <1>4, <1>10 DEF OnWatchStreamClose, OnWatchIdleTimeout, RestartNetwork, Relaunch, CloseWatchStream
<1>11. CASE \/ \E w \in Write : DoWrite(w)
            \/ HandleSuccessfulWrite \/ HandleRejectedWrite
            \/ UNCHANGED <<watchVars, viewVars, queue, issued, refused>>
            \/ AddSnapshotListener \/ GetDocuments \/ RemoveQueryListener
            \/ OnWatchStreamOpen \/ OnWatchBackoffElapsed \/ OnOnlineStateTimeout
  BY <1>3, <1>11 DEF DoWrite, HandleSuccessfulWrite, HandleRejectedWrite, watchVars,
      AddSnapshotListener, GetDocuments, AddQueryListener, RemoveQueryListener, OnWatchStreamOpen,
      OnWatchBackoffElapsed, OnOnlineStateTimeout
<1> QED
  BY <1>7, <1>8, <1>9, <1>10, <1>11, StepKinds

(* The position of the server on the watch stream is one of its log. *)
LEMMA NextPosition ==
  ASSUME CacheInv, WInv, [Next]_vars
  PROVE  position' \in 0..Len(log')
<1>1. position \in 0..Len(log) /\ Len(log) \in Nat /\ Len(log') \in Nat /\ Len(log) <= Len(log')
  BY LogGrows DEF CacheInv, CacheType
<1>2. position' = position \/ position' = 0 \/ position' \in 0..Len(log)
  BY StepKinds DEF DoWrite, HandleSuccessfulWrite, HandleRejectedWrite, watchVars,
      AddSnapshotListener, GetDocuments, AddQueryListener, RemoveQueryListener, OnWatchStreamOpen,
      OnWatchBackoffElapsed, OnOnlineStateTimeout, OnWatchStreamClose, OnWatchIdleTimeout,
      RestartNetwork, Relaunch, CloseWatchStream, OnWatchResponse, OnWatchSnapshot, ServerWatch,
      ServerSnapshot
<1> QED
  BY <1>1, <1>2

(* Every step keeps the invariant of the cache. *)
LEMMA NextCache == WInv /\ VInv /\ ConnInv /\ CacheInv /\ [Next]_vars => CacheInv'
<1> SUFFICES ASSUME WInv, VInv, ConnInv, CacheInv, [Next]_vars PROVE CacheInv'
  OBVIOUS
<1>1. NewsVersions' /\ position' \in 0..Len(log')
  BY NextNews, NextPosition
<1>2. /\ Len(log) \in Nat /\ Len(log') \in Nat /\ Len(log) <= Len(log')
      /\ \A i \in 1..Len(log) : log'[i] = log[i]
  BY LogGrows
<1>3. /\ cache \in [version : 0..Len(log), committed : BOOLEAN] /\ cache.version \in 0..Len(log)
      /\ snapshotVersion \in 0..Len(log) /\ remoteKey \in BOOLEAN
  BY DEF CacheInv, CacheType
<1>4. snapshotVersion \in 0..Len(log')
  BY <1>2, <1>3
<1>5. queue \in Seq(Write) /\ issued \in Nat
  BY WriteBounds DEF WInv, WriteTypeOK
<1>6. ASSUME NEW w \in Write, DoWrite(w)
      PROVE  CacheInv'
  <2>1. /\ UNCHANGED <<cache, snapshotVersion, remoteKey, log, refused>>
        /\ queue' = Append(queue, w) /\ w = issued + 1 /\ issued' = w
    BY <1>6 DEF DoWrite, WriteMutations, watchVars
  <2>2. Range(queue') = Range(queue) \cup {w}
    BY <1>5, <2>1, RangeOfAppend
  <2>3. \A v \in 1..issued' : v \in 1..issued \/ v = w
    BY <1>5, <2>1
  <2>4. Completed'
    BY <2>1, <2>2, <2>3 DEF CacheInv, Completed
  <2>5. cache' \in [version : 0..Len(log'), committed : BOOLEAN] /\ CacheBehind'
    BY <2>1, KeptCache
  <2> QED
    BY <1>1, <1>3, <1>4, <2>1, <2>4, <2>5 DEF CacheInv, CacheType
<1>7. CASE HandleRejectedWrite
  <2>1. /\ UNCHANGED <<cache, snapshotVersion, remoteKey, log, issued>> /\ OnWriteStreamRefused
    BY <1>7 DEF HandleRejectedWrite, OnWriteStreamRefused, watchVars
  <2>2. queue # << >> /\ queue' = Tail(queue) /\ refused' = refused \cup {Head(queue)}
    <3>1. pipeline # << >>
      BY <2>1, ResponseFacts DEF OnWriteStreamRefused
    <3> QED
      BY <2>1, <3>1, FirstDone DEF OnWriteStreamRefused
  <2>3. Range(queue) = {Head(queue)} \cup Range(queue')
    BY <1>5, <2>2, RangeOfTail
  <2>4. Completed'
    BY <2>1, <2>2, <2>3 DEF CacheInv, Completed
  <2>5. cache' \in [version : 0..Len(log'), committed : BOOLEAN] /\ CacheBehind'
    BY <2>1, KeptCache
  <2> QED
    BY <1>1, <1>3, <1>4, <2>1, <2>4, <2>5 DEF CacheInv, CacheType
<1>8. CASE HandleSuccessfulWrite
  <2> DEFINE version == Head(responses).version
  <2>1. /\ OnWriteStreamMutationResult /\ cache' = ApplyBatchResult(cache, version)
        /\ UNCHANGED <<snapshotVersion, remoteKey>>
    BY <1>8 DEF HandleSuccessfulWrite
  <2>2. /\ queue # << >> /\ queue' = Tail(queue) /\ version \in 1..Len(log)
        /\ log[version] = Head(queue) /\ UNCHANGED <<log, issued, refused>>
        /\ \A i \in 1..Len(responses') : IsAck(i)' => version < responses'[i].version
    BY <2>1, FirstAck
  <2> HIDE DEF version
  <2>3. cache' = IF cache.version < version THEN [version |-> version, committed |-> TRUE] ELSE cache
    BY <2>1 DEF ApplyBatchResult
  <2>4. /\ cache' \in [version : 0..Len(log'), committed : BOOLEAN]
        /\ cache'.version \in Nat /\ cache.version <= cache'.version /\ version <= cache'.version
    BY <1>2, <1>3, <2>2, <2>3
  <2>5. CacheBehind'
    <3>1. CASE cache.version < version
      BY <2>2, <2>3, <3>1 DEF CacheBehind
    <3>2. CASE ~(cache.version < version)
      BY <2>3, <3>2, KeptCache
    <3> QED
      BY <3>1, <3>2
  <2>6. Range(queue) = {Head(queue)} \cup Range(queue')
    BY <1>5, <2>2, RangeOfTail
  <2>7. Completed'
    <3> SUFFICES ASSUME NEW w \in 1..issued, w \notin Range(queue'), w \notin refused
                 PROVE  \E i \in 1..cache'.version : log[i] = w
      BY <2>2 DEF Completed
    <3>1. CASE w = Head(queue)
      <4>1. version \in 1..cache'.version
        BY <2>2, <2>4
      <4> QED
        BY <2>2, <3>1, <4>1
    <3>2. CASE w # Head(queue)
      <4>1. PICK i \in 1..cache.version : log[i] = w
        BY <2>6, <3>2 DEF CacheInv, Completed
      <4>2. i \in 1..cache'.version
        BY <1>3, <2>4
      <4> QED
        BY <4>1, <4>2
    <3> QED
      BY <3>1, <3>2
  <2> QED
    BY <1>1, <1>3, <1>4, <2>1, <2>4, <2>5, <2>7 DEF CacheInv, CacheType
<1>9. CASE OnWatchSnapshot
  <2>1. /\ UNCHANGED writeVars
        /\ cache' \in [version : 0..Len(log), committed : BOOLEAN]
        /\ cache.version <= cache'.version
        /\ cache' # cache => cache'.committed = FALSE
        /\ snapshotVersion' \in 0..Len(log) /\ remoteKey' \in BOOLEAN
    BY <1>9, SnapshotCache
  <2>2. UNCHANGED <<queue, issued, refused, log>>
    BY <2>1 DEF writeVars
  <2>3. cache'.version \in Nat
    BY <1>2, <2>1
  <2>4. Completed'
    BY <2>1, <2>2, <2>3, KeptCompleted
  <2>5. CacheBehind'
    <3>1. CASE cache' = cache
      BY <3>1, KeptCache
    <3>2. CASE cache' # cache
      BY <2>1, <3>2 DEF CacheBehind
    <3> QED
      BY <3>1, <3>2
  <2> QED
    BY <1>1, <2>1, <2>2, <2>4, <2>5 DEF CacheInv, CacheType
<1>10. CASE /\ ~HandleSuccessfulWrite /\ ~HandleRejectedWrite /\ ~OnWatchSnapshot
            /\ \A w \in Write : ~DoWrite(w)
  <2>1. UNCHANGED <<queue, issued, refused, cache, snapshotVersion, remoteKey>>
    BY <1>10, KeptQueue
  <2>2. cache' \in [version : 0..Len(log'), committed : BOOLEAN] /\ CacheBehind'
    BY <2>1, KeptCache
  <2>3. cache'.version \in Nat /\ cache.version <= cache'.version
    BY <1>2, <1>3, <2>1
  <2>4. Completed'
    BY <2>1, <2>3, KeptCompleted
  <2> QED
    BY <1>1, <1>3, <1>4, <2>1, <2>2, <2>4 DEF CacheInv, CacheType
<1> QED
  BY <1>6, <1>7, <1>8, <1>9, <1>10

-----------------------------------------------------------------------------
(* The view and what the listener is told *)

ViewRecord == [shown : Value, mutated : BOOLEAN, current : BOOLEAN]

LocalValue == LocalView(queue, cache).value

(* The listener was last called with what the view shows. *)
Told == listener = "raised" => told = view.shown

ViewType == view \in ViewRecord /\ told \in Value /\ gets \in 0..MaxGets

ViewInv == ViewType /\ Told /\ ViewAgrees

(* What NoFlicker says of a step. *)
FlickerFree ==
  listener = "raised" /\ listener' = "raised" /\ told' # told
    /\ told # Absent /\ told \notin refused' =>
    \/ told' \in Range(queue') /\ (told \in Write => told < told')
    \/ \E i, j \in 1..cache'.version : i < j /\ log'[i] = told /\ log'[j] = told'

(* What the local store has of the document. *)
LEMMA LocalFacts ==
  ASSUME WInv, NEW q \in Seq(Write), NEW c \in [version : 0..Len(log), committed : BOOLEAN]
  PROVE  /\ LocalView(q, c).value = IF q # << >> THEN q[Len(q)] ELSE At(c.version)
         /\ LocalView(q, c).value \in Value
         /\ LocalView(q, c).local = (q # << >>)
         /\ LocalView(q, c).committed = (q = << >> /\ c.committed)
<1>1. q # << >> => q[Len(q)] \in Write
  <2>1. q # << >> => Len(q) \in 1..Len(q)
    BY EmptySeq, LenProperties
  <2> QED
    BY <2>1, ElementOfSeq
<1>2. c.version # 0 => log[c.version] \in Write \cup Other
  <2>1. log \in Seq(Write \cup Other) /\ Len(log) \in Nat
    BY LenProperties DEF WInv, WriteTypeOK
  <2>2. c.version # 0 => c.version \in 1..Len(log)
    BY <2>1
  <2> QED
    BY <2>1, <2>2, ElementOfSeq
<1> QED
  BY <1>1, <1>2 DEF LocalView, At, Value

(* View::ComputeDocumentChanges: the view takes over the document, unless  *)
(* it waits for the watch stream.                                          *)
LEMMA ChangesEffect ==
  ASSUME NEW v \in ViewRecord, NEW doc,
         doc.value \in Value, doc.local \in BOOLEAN, doc.committed \in BOOLEAN
  PROVE  /\ ComputeDocumentChanges(v, doc) \in ViewRecord
         /\ \/ ComputeDocumentChanges(v, doc).shown = doc.value
            \/ /\ ComputeDocumentChanges(v, doc).shown = v.shown
               /\ v.mutated /\ doc.committed /\ ~doc.local
<1> DEFINE r == [v EXCEPT !.shown = doc.value, !.mutated = doc.local]
<1>1. r \in ViewRecord /\ r.shown = doc.value
  BY DEF ViewRecord
<1> HIDE DEF r
<1>2. ComputeDocumentChanges(v, doc) \in {r, v}
  BY DEF ComputeDocumentChanges, r
<1>3. ComputeDocumentChanges(v, doc) = v /\ v.shown # doc.value
        => \/ ComputeDocumentChanges(v, doc) = r
           \/ ShouldWaitForSyncedDocument(v, doc)
  BY DEF ComputeDocumentChanges, r
<1> QED
  BY <1>1, <1>2, <1>3 DEF ShouldWaitForSyncedDocument

(* EventManager::OnViewSnapshots: a listener that was called before is     *)
(* left with what the view shows.                                          *)
LEMMA EmitEffect ==
  ASSUME ConnInv, ViewType, Told,
         NEW v \in ViewRecord, NEW key, NEW t, Emit(v, key, t)
  PROVE  /\ ViewType' /\ Told'
         /\ Listening' <=> Listening
         /\ Listening => view'.shown = v.shown
         /\ listener = "raised" /\ listener' = "raised" => told' = v.shown /\ Listening
<1> DEFINE now == IF t.state = Offline THEN [v EXCEPT !.current = FALSE] ELSE v
<1>1. now \in ViewRecord /\ now.shown = v.shown
  BY DEF ViewRecord
<1>2. v.shown \in Value
  BY DEF ViewRecord
<1>3. /\ listener \in ListenerState /\ getter \in GetterState /\ told \in Value /\ gets \in 0..MaxGets
  BY DEF ConnInv, ConnType, ViewType
<1>4. Listening' <=> Listening
  BY <1>3, EmitConn
<1>5. /\ view' = IF Listening THEN now ELSE NoView
      /\ listener' = "raised" => listener \in {"waiting", "raised"}
      /\ told' = IF listener' = "raised" /\ (listener = "waiting" \/ now.shown # view.shown)
                 THEN now.shown ELSE told
      /\ gets' = gets
  BY <1>3 DEF Emit, ListenerState
<1> HIDE DEF now
<1>6. NoView \in ViewRecord
  BY DEF NoView, ViewRecord, Value
<1>7. told' \in Value /\ view' \in ViewRecord
  BY <1>1, <1>2, <1>3, <1>5, <1>6
<1>8. listener' = "raised" => Listening /\ told' = now.shown
  BY <1>1, <1>5 DEF Told, Listening
<1>9. Told'
  BY <1>5, <1>8 DEF Told
<1> QED
  BY <1>1, <1>3, <1>4, <1>5, <1>7, <1>8, <1>9 DEF ViewType

(* The local store has what it had, whatever the server adds to its log. *)
LEMMA LocalKept ==
  ASSUME WInv, WInv', CacheInv, CacheInv', [Next]_vars, UNCHANGED <<queue, cache>>
  PROVE  LocalValue' = LocalValue
<1>1. queue \in Seq(Write) /\ cache \in [version : 0..Len(log), committed : BOOLEAN]
      /\ cache' \in [version : 0..Len(log'), committed : BOOLEAN]
  BY DEF WInv, WriteTypeOK, CacheInv, CacheType
<1>2. cache.version \in 0..Len(log) /\ Len(log) \in Nat /\ \A i \in 1..Len(log) : log'[i] = log[i]
  BY <1>1, LogGrows
<1>3. cache.version # 0 => log'[cache.version] = log[cache.version]
  BY <1>2
<1>4. At(cache.version)' = At(cache.version)
  BY <1>3 DEF At
<1> QED
  BY <1>4 DEF LocalValue, LocalView

(* A step that changes neither the queue nor the cache, and shows either   *)
(* what was shown or what the local store has.                             *)
LEMMA AgreesKept ==
  ASSUME WInv, WInv', CacheInv, CacheInv', ViewInv, [Next]_vars,
         UNCHANGED <<queue, cache, refused>>,
         Listening' => \/ Listening /\ view'.shown = view.shown
                       \/ view'.shown = LocalValue
  PROVE  ViewAgrees'
<1>1. LocalValue' = LocalValue
  BY LocalKept
<1>2. ViewAgrees' <=> (Listening' /\ view'.shown # LocalValue' => view'.shown \in refused' /\ cache'.committed)
  BY DEF ViewAgrees, LocalValue
<1>3. Listening /\ view.shown # LocalValue => view.shown \in refused /\ cache.committed
  BY DEF ViewInv, ViewAgrees, LocalValue
<1> QED
  BY <1>1, <1>2, <1>3

(* SyncEngine::WriteMutations: the view shows the new write. *)
LEMMA DoWriteView ==
  ASSUME WInv, VInv, ConnInv, CacheInv, ViewInv, NEW w \in Write, DoWrite(w)
  PROVE  ViewInv' /\ FlickerFree
<1>1. /\ w = issued + 1 /\ queue' = Append(queue, w) /\ UNCHANGED <<log, refused, cache>>
      /\ EmitLocal(queue', cache)
  BY DEF DoWrite, WriteMutations, watchVars
<1>2. /\ queue \in Seq(Write) /\ issued \in Nat /\ DOMAIN queue = 1..Len(queue) /\ Len(queue) \in Nat
      /\ cache \in [version : 0..Len(log), committed : BOOLEAN] /\ Len(log) \in Nat
  BY WriteBounds, LenProperties DEF WInv, WriteTypeOK, CacheInv, CacheType
<1>3. /\ Range(queue') = Range(queue) \cup {w} /\ queue' # << >> /\ queue'[Len(queue')] = w
      /\ queue' \in Seq(Write)
  BY <1>1, <1>2, RangeOfAppend, AppendProperties
<1> DEFINE doc == LocalView(queue', cache)
           v == ComputeDocumentChanges(view, doc)
<1>4. doc.value = w /\ doc.value \in Value /\ doc.local = TRUE /\ doc.committed \in BOOLEAN
  BY <1>2, <1>3, LocalFacts
<1>5. view \in ViewRecord
  BY DEF ViewInv, ViewType
<1> HIDE DEF doc
<1>6. v \in ViewRecord /\ v.shown = w
  BY <1>4, <1>5, ChangesEffect
<1>7. Emit(v, remoteKey, tracker)
  BY <1>1 DEF EmitLocal, doc
<1> HIDE DEF v
<1>8. /\ ViewType' /\ Told' /\ (Listening' <=> Listening)
      /\ Listening => view'.shown = v.shown
      /\ listener = "raised" /\ listener' = "raised" => told' = v.shown /\ Listening
  BY <1>6, <1>7, EmitEffect DEF ViewInv
<1>9. LocalView(queue', cache').value = w
  BY <1>1, <1>4 DEF doc
<1>10. ViewAgrees'
  BY <1>1, <1>6, <1>8, <1>9 DEF ViewAgrees, LocalView, At
<1>11. FlickerFree
  <2> SUFFICES ASSUME listener = "raised", listener' = "raised", told # Absent, told \notin refused'
               PROVE  told' \in Range(queue') /\ (told \in Write => told < told')
    BY DEF FlickerFree
  <2>1. told' = w /\ Listening /\ told = view.shown
    BY <1>6, <1>8 DEF ViewInv, Told
  <2>2. told = LocalView(queue, cache).value
    BY <1>1, <2>1 DEF ViewInv, ViewAgrees
  <2>3. told = IF queue # << >> THEN queue[Len(queue)] ELSE At(cache.version)
    BY <1>2, <2>2, LocalFacts
  <2>4. told \in Write => told <= issued
    <3>1. CASE queue # << >>
      <4>1. Len(queue) \in DOMAIN queue
        BY <1>2, <3>1, EmptySeq
      <4> QED
        BY <2>3, <3>1, <4>1 DEF WInv, BatchIds
    <3>2. CASE queue = << >>
      <4>1. cache.version \in 0..Len(log)
        BY <1>2
      <4>2. cache.version # 0 /\ told = log[cache.version]
        BY <2>3, <3>2 DEF At
      <4>3. cache.version \in 1..Len(log)
        BY <1>2, <4>1, <4>2
      <4> QED
        BY <4>2, <4>3 DEF VInv, LogIssued
    <3> QED
      BY <3>1, <3>2
  <2>5. told \in Write => told \in Nat
    BY WriteBounds DEF Write
  <2>6. told \in Write => told < w
    BY <1>1, <1>2, <2>4, <2>5
  <2> QED
    BY <1>3, <2>1, <2>6
<1> QED
  BY <1>8, <1>10, <1>11 DEF ViewInv

(* SyncEngine::HandleSuccessfulWrite: the document comes from the cache    *)
(* now, with the write in it.                                              *)
LEMMA SuccessView ==
  ASSUME WInv, VInv, ConnInv, CacheInv, ViewInv, HandleSuccessfulWrite, CacheInv', WInv'
  PROVE  ViewInv' /\ FlickerFree
<1> DEFINE n == Head(responses).version
           h == Head(queue)
<1>1. /\ OnWriteStreamMutationResult /\ cache' = ApplyBatchResult(cache, n)
      /\ EmitLocal(queue', cache')
  BY DEF HandleSuccessfulWrite
<1>2. /\ queue # << >> /\ queue' = Tail(queue) /\ n \in 1..Len(log) /\ log[n] = h
      /\ UNCHANGED <<log, refused>>
      /\ 1 \in 1..Len(responses) /\ IsAck(1) /\ n = responses[1].version
  BY <1>1, FirstAck
<1>3. cache.committed => cache.version < n
  BY <1>2 DEF CacheInv, CacheBehind
<1> HIDE DEF n
<1>4. cache' = IF cache.version < n THEN [version |-> n, committed |-> TRUE] ELSE cache
  BY <1>1 DEF ApplyBatchResult
<1>5. /\ queue \in Seq(Write) /\ queue' \in Seq(Write) /\ Len(log) \in Nat
      /\ cache \in [version : 0..Len(log), committed : BOOLEAN]
      /\ cache' \in [version : 0..Len(log), committed : BOOLEAN]
  BY <1>2, LenProperties DEF WInv, WriteTypeOK, CacheInv, CacheType
<1>6. /\ queue' # << >> => queue'[Len(queue')] = queue[Len(queue)]
      /\ queue' = << >> => queue[Len(queue)] = h
  <2>1. Len(queue) \in Nat \ {0} /\ Len(queue') = Len(queue) - 1 /\ h = queue[1]
    BY <1>2, <1>5, EmptySeq, HeadTailProperties
  <2>2. queue' = << >> => Len(queue) = 1
    BY <2>1, EmptySeq
  <2> QED
    BY <1>2, <1>5, <2>1, <2>2, RangeOfTail
<1> DEFINE doc == LocalView(queue', cache')
           v == ComputeDocumentChanges(view, doc)
<1>7. /\ doc.value = IF queue' # << >> THEN queue'[Len(queue')] ELSE At(cache'.version)
      /\ doc.value \in Value /\ doc.local = (queue' # << >>)
      /\ doc.committed = (queue' = << >> /\ cache'.committed)
  BY <1>5, LocalFacts
<1>8. doc.local \in BOOLEAN /\ doc.committed \in BOOLEAN
  BY <1>5, <1>7
<1>9. LocalView(queue, cache).value = queue[Len(queue)]
  BY <1>2, <1>5, LocalFacts
<1>10. LocalView(queue, cache)'.value = doc.value
  BY <1>2 DEF LocalView, At
<1>11. view \in ViewRecord
  BY DEF ViewInv, ViewType
<1> HIDE DEF doc
<1>12. v \in ViewRecord
       /\ (v.shown = doc.value \/ (v.shown = view.shown /\ doc.committed /\ ~doc.local))
  BY <1>7, <1>8, <1>11, ChangesEffect
<1>13. Emit(v, remoteKey, tracker)
  BY <1>1 DEF EmitLocal, doc
<1> HIDE DEF v
<1>14. /\ ViewType' /\ Told' /\ (Listening' <=> Listening)
       /\ Listening => view'.shown = v.shown
       /\ listener = "raised" /\ listener' = "raised" => told' = v.shown /\ Listening
  BY <1>12, <1>13, EmitEffect DEF ViewInv
<1>15. Listening /\ view.shown \notin refused => view.shown = queue[Len(queue)]
  BY <1>9 DEF ViewInv, ViewAgrees
<1>16. queue' = << >> /\ cache.version < n => doc.value = h
  <2>1. ASSUME queue' = << >>, cache.version < n PROVE doc.value = h
    <3>1. cache'.version = n /\ n # 0
      BY <1>2, <1>4, <1>5, <2>1
    <3> QED
      BY <1>2, <1>7, <2>1, <3>1 DEF At
  <2> QED
    BY <2>1
<1>17. ViewAgrees'
  <2> SUFFICES ASSUME Listening, v.shown # doc.value
               PROVE  v.shown \in refused /\ cache'.committed
    BY <1>2, <1>10, <1>14 DEF ViewAgrees
  <2>1. v.shown = view.shown /\ queue' = << >> /\ cache'.committed
    BY <1>7, <1>12
  <2>2. cache.version < n
    BY <1>3, <1>4, <2>1
  <2>3. doc.value = h /\ queue[Len(queue)] = h
    BY <1>6, <1>16, <2>1, <2>2
  <2> QED
    BY <1>15, <2>1, <2>3
<1>18. FlickerFree
  <2> SUFFICES ASSUME listener = "raised", listener' = "raised", told' # told, told \notin refused'
               PROVE  \E i, j \in 1..cache'.version : i < j /\ log'[i] = told /\ log'[j] = told'
    BY DEF FlickerFree
  <2>1. told' = v.shown /\ Listening /\ told = view.shown
    BY <1>14 DEF ViewInv, Told
  <2>2. told = queue[Len(queue)] /\ told' = doc.value
    BY <1>2, <1>12, <1>15, <2>1
  <2>3. queue' = << >> /\ told = h
    BY <1>6, <1>7, <2>2
  <2>4. ~(cache.version < n) /\ cache' = cache
    BY <1>4, <1>16, <2>2, <2>3
  <2>5. cache.version \in Nat /\ n \in Nat /\ n # 0 /\ n <= cache.version /\ cache'.version = cache.version
    BY <1>2, <1>5, <2>4
  <2>6. told' = log[cache.version] /\ told = log[n]
    BY <1>2, <1>7, <2>2, <2>3, <2>4, <2>5 DEF At
  <2>7. n < cache.version
    BY <2>5, <2>6
  <2>8. n \in 1..cache'.version /\ cache.version \in 1..cache'.version
    BY <2>5
  <2> QED
    BY <1>2, <2>6, <2>7, <2>8
<1> QED
  BY <1>14, <1>17, <1>18 DEF ViewInv

(* SyncEngine::HandleRejectedWrite: the view goes back, or keeps the       *)
(* refused write until the watch stream has caught up.                     *)
LEMMA RejectView ==
  ASSUME WInv, ConnInv, CacheInv, ViewInv, HandleRejectedWrite, WInv'
  PROVE  ViewInv' /\ FlickerFree
<1> DEFINE h == Head(queue)
<1>1. OnWriteStreamRefused /\ EmitLocal(queue', cache) /\ UNCHANGED <<cache, log>>
  BY DEF HandleRejectedWrite, OnWriteStreamRefused, watchVars
<1>2. queue # << >> /\ queue' = Tail(queue) /\ refused' = refused \cup {h}
  <2>1. pipeline # << >>
    BY <1>1, ResponseFacts DEF OnWriteStreamRefused
  <2> QED
    BY <1>1, <2>1, FirstDone DEF OnWriteStreamRefused
<1>3. /\ queue \in Seq(Write) /\ queue' \in Seq(Write)
      /\ cache \in [version : 0..Len(log), committed : BOOLEAN]
  BY DEF WInv, WriteTypeOK, CacheInv, CacheType
<1>4. /\ queue' # << >> => queue'[Len(queue')] = queue[Len(queue)]
      /\ queue' = << >> => queue[Len(queue)] = h
  <2>1. Len(queue) \in Nat \ {0} /\ Len(queue') = Len(queue) - 1 /\ h = queue[1]
    BY <1>2, <1>3, EmptySeq, HeadTailProperties
  <2>2. queue' = << >> => Len(queue) = 1
    BY <2>1, EmptySeq
  <2> QED
    BY <1>2, <1>3, <2>1, <2>2, RangeOfTail
<1> HIDE DEF h
<1> DEFINE doc == LocalView(queue', cache)
           v == ComputeDocumentChanges(view, doc)
<1>5. /\ doc.value = IF queue' # << >> THEN queue'[Len(queue')] ELSE At(cache.version)
      /\ doc.value \in Value /\ doc.local = (queue' # << >>)
      /\ doc.committed = (queue' = << >> /\ cache.committed)
  BY <1>3, LocalFacts
<1>6. doc.local \in BOOLEAN /\ doc.committed \in BOOLEAN
  BY <1>3, <1>5
<1>7. LocalView(queue, cache).value = queue[Len(queue)]
  BY <1>2, <1>3, LocalFacts
<1>8. LocalView(queue, cache)'.value = doc.value
  BY <1>1 DEF LocalView, At
<1>9. view \in ViewRecord
  BY DEF ViewInv, ViewType
<1> HIDE DEF doc
<1>10. v \in ViewRecord
       /\ (v.shown = doc.value \/ (v.shown = view.shown /\ doc.committed /\ ~doc.local))
  BY <1>5, <1>6, <1>9, ChangesEffect
<1>11. Emit(v, remoteKey, tracker)
  BY <1>1 DEF EmitLocal, doc
<1> HIDE DEF v
<1>12. /\ ViewType' /\ Told' /\ (Listening' <=> Listening)
       /\ Listening => view'.shown = v.shown
       /\ listener = "raised" /\ listener' = "raised" => told' = v.shown /\ Listening
  BY <1>10, <1>11, EmitEffect DEF ViewInv
<1>13. Listening /\ view.shown \notin refused => view.shown = queue[Len(queue)]
  BY <1>7 DEF ViewInv, ViewAgrees
<1>14. ViewAgrees'
  <2> SUFFICES ASSUME Listening, v.shown # doc.value
               PROVE  v.shown \in refused' /\ cache.committed
    BY <1>1, <1>8, <1>12 DEF ViewAgrees
  <2>1. v.shown = view.shown /\ queue' = << >> /\ cache.committed
    BY <1>5, <1>10
  <2> QED
    BY <1>2, <1>4, <1>13, <2>1
<1>15. FlickerFree
  <2> SUFFICES ASSUME listener = "raised", listener' = "raised", told' # told, told \notin refused'
               PROVE  FALSE
    BY DEF FlickerFree
  <2>1. told' = v.shown /\ Listening /\ told = view.shown
    BY <1>12 DEF ViewInv, Told
  <2>2. told = queue[Len(queue)] /\ told' = doc.value
    BY <1>2, <1>10, <1>13, <2>1
  <2> QED
    BY <1>2, <1>4, <1>5, <2>2
<1> QED
  BY <1>12, <1>14, <1>15 DEF ViewInv

(* RemoteStore::RaiseWatchSnapshot: what the watch stream brings replaces  *)
(* only what is older.                                                     *)
LEMMA SnapshotView ==
  ASSUME WInv, ConnInv, CacheInv, ViewInv, [Next]_vars, OnWatchSnapshot, WInv', CacheInv'
  PROVE  ViewInv' /\ FlickerFree
<1> DEFINE version == Head(news).version
           active  == version >= snapshotVersion /\ Listening /\ pending = 0
           newer   == active /\ version > 0 /\ IsNewer(cache, version)
           doc     == LocalView(queue, cache')
           v       == IF newer THEN ComputeDocumentChanges(view, doc) ELSE view
           key     == IF active THEN version > 0 ELSE remoteKey
           u       == IF active THEN [v EXCEPT !.current = TRUE] ELSE v
<1>1. /\ cache' = IF newer THEN [version |-> version, committed |-> FALSE] ELSE cache
      /\ Emit(u, key, UpdateState(Online))
      /\ UNCHANGED <<queue, log, refused>>
  BY DEF OnWatchSnapshot, writeVars
<1>2. /\ cache \in [version : 0..Len(log), committed : BOOLEAN]
      /\ cache' \in [version : 0..Len(log), committed : BOOLEAN]
      /\ cache.version <= cache'.version /\ queue \in Seq(Write) /\ Len(log) \in Nat
  BY SnapshotCache, LogGrows DEF CacheInv, CacheType, WInv, WriteTypeOK
<1>3. /\ doc.value = IF queue # << >> THEN queue[Len(queue)] ELSE At(cache'.version)
      /\ doc.value \in Value /\ doc.local = (queue # << >>)
      /\ doc.committed = (queue = << >> /\ cache'.committed)
  BY <1>2, LocalFacts
<1>4. doc.local \in BOOLEAN /\ doc.committed \in BOOLEAN
  BY <1>2, <1>3
<1>5. view \in ViewRecord
  BY DEF ViewInv, ViewType
<1>6. LocalView(queue, cache)'.value = doc.value
  BY <1>1 DEF LocalView, At
<1>7. LocalView(queue, cache).value = IF queue # << >> THEN queue[Len(queue)] ELSE At(cache.version)
  BY <1>2, LocalFacts
<1> HIDE DEF doc
<1>8. v \in ViewRecord /\ (newer => v.shown = doc.value) /\ (~newer => v.shown = view.shown)
  <2>1. CASE newer
    <3>1. cache'.committed = FALSE
      BY <1>1, <2>1
    <3>2. ~doc.committed
      BY <1>3, <3>1
    <3> QED
      BY <1>3, <1>4, <1>5, <2>1, <3>2, ChangesEffect
  <2>2. CASE ~newer
    BY <1>5, <2>2
  <2> QED
    BY <2>1, <2>2
<1> HIDE DEF v
<1>9. u \in ViewRecord /\ u.shown = v.shown
  BY <1>8 DEF ViewRecord
<1> HIDE DEF u, key, newer, active, version
<1>10. /\ ViewType' /\ Told' /\ (Listening' <=> Listening)
       /\ Listening => view'.shown = u.shown
       /\ listener = "raised" /\ listener' = "raised" => told' = u.shown /\ Listening
  BY <1>1, <1>9, EmitEffect DEF ViewInv
<1>11. ViewAgrees'
  <2>1. CASE newer
    BY <1>6, <1>8, <1>9, <1>10, <2>1 DEF ViewAgrees
  <2>2. CASE ~newer
    <3>1. UNCHANGED <<queue, cache, refused>>
      BY <1>1, <2>2
    <3>2. Listening' => Listening /\ view'.shown = view.shown
      BY <1>8, <1>9, <1>10, <2>2
    <3> QED
      BY <3>1, <3>2, AgreesKept
  <2> QED
    BY <2>1, <2>2
<1>12. FlickerFree
  <2> SUFFICES ASSUME listener = "raised", listener' = "raised", told' # told,
                      told # Absent, told \notin refused'
               PROVE  \E i, j \in 1..cache'.version : i < j /\ log'[i] = told /\ log'[j] = told'
    BY DEF FlickerFree
  <2>1. told' = u.shown /\ Listening /\ told = view.shown
    BY <1>10 DEF ViewInv, Told
  <2>2. newer /\ told' = doc.value
    BY <1>8, <1>9, <2>1
  <2>3. told = LocalView(queue, cache).value
    BY <1>1, <2>1 DEF ViewInv, ViewAgrees
  <2>4. queue = << >> /\ told = At(cache.version) /\ told' = At(cache'.version)
    BY <1>3, <1>7, <2>2, <2>3
  <2>5. cache.version # 0 /\ cache.version \in Nat /\ cache'.version \in Nat
    BY <1>2, <2>4 DEF At
  <2>6. cache'.version # 0
    BY <1>2, <2>5
  <2>7. told = log[cache.version] /\ told' = log[cache'.version]
    BY <2>4, <2>5, <2>6 DEF At
  <2>8. cache.version < cache'.version
    BY <1>2, <2>5, <2>7
  <2>9. cache.version \in 1..cache'.version /\ cache'.version \in 1..cache'.version
    BY <2>5, <2>8
  <2> QED
    BY <1>1, <2>7, <2>8, <2>9
<1> QED
  BY <1>10, <1>11, <1>12 DEF ViewInv

(* A new listener starts with what the view shows, which is created from   *)
(* the local store when it is the first.                                   *)
LEMMA AddView ==
  ASSUME WInv, ConnInv, CacheInv, ViewInv, [Next]_vars, AddSnapshotListener \/ GetDocuments,
         WInv', CacheInv'
  PROVE  ViewInv' /\ FlickerFree
<1>1. PICK wait \in BOOLEAN : AddQueryListener(wait) /\ (listener = "raised" => wait)
  BY DEF AddSnapshotListener, GetDocuments
<1> DEFINE doc == LocalView(queue, cache)
           v   == IF Listening THEN view
                  ELSE [shown |-> doc.value, mutated |-> doc.local, current |-> FALSE]
<1>2. /\ view' = v /\ UNCHANGED <<queue, cache, refused>>
      /\ wait => UNCHANGED <<listener, told>>
      /\ ~wait => told' = (IF listener' = "raised" THEN v.shown ELSE told)
  BY <1>1 DEF AddQueryListener, writeVars
<1>3. gets' \in 0..MaxGets
  <2>1. gets \in 0..MaxGets
    BY DEF ViewInv, ViewType
  <2>2. gets' = gets \/ (gets < MaxGets /\ gets' = gets + 1)
    BY DEF AddSnapshotListener, GetDocuments
  <2> QED
    BY <2>1, <2>2, WatchBounds
<1>4. doc.value \in Value /\ doc.local \in BOOLEAN /\ doc.value = LocalValue
  <2>1. queue \in Seq(Write) /\ cache \in [version : 0..Len(log), committed : BOOLEAN]
    BY DEF WInv, WriteTypeOK, CacheInv, CacheType
  <2> QED
    BY <2>1, LocalFacts DEF LocalValue
<1> HIDE DEF doc
<1>5. v \in ViewRecord /\ v.shown \in Value
  BY <1>4 DEF ViewInv, ViewType, ViewRecord
<1>6. Listening => v.shown = view.shown
  OBVIOUS
<1>7. ~Listening => v.shown = LocalValue
  BY <1>4
<1> HIDE DEF v
<1>8. ViewType'
  BY <1>2, <1>3, <1>5 DEF ViewInv, ViewType
<1>9. Told'
  BY <1>2, <1>6 DEF ViewInv, Told, Listening
<1>10. ViewAgrees'
  BY <1>2, <1>6, <1>7, AgreesKept
<1>11. FlickerFree
  BY <1>1, <1>2 DEF FlickerFree
<1> QED
  BY <1>8, <1>9, <1>10, <1>11 DEF ViewInv

(* The other steps show nothing new. *)
LEMMA OtherView ==
  ASSUME WInv, ConnInv, CacheInv, ViewInv, [Next]_vars, WInv', CacheInv',
         ~HandleSuccessfulWrite, ~HandleRejectedWrite, ~OnWatchSnapshot,
         ~AddSnapshotListener, ~GetDocuments, \A w \in Write : ~DoWrite(w)
  PROVE  ViewInv' /\ FlickerFree
<1>1. UNCHANGED <<queue, issued, refused, cache>>
  BY KeptQueue
<1>2. view \in ViewRecord
  BY DEF ViewInv, ViewType
<1>3. ASSUME NEW key, NEW t, Emit(view, key, t)
      PROVE  ViewInv' /\ FlickerFree
  <2>1. /\ ViewType' /\ Told' /\ (Listening' <=> Listening)
        /\ Listening => view'.shown = view.shown
        /\ listener = "raised" /\ listener' = "raised" => told' = view.shown /\ Listening
    BY <1>2, <1>3, EmitEffect DEF ViewInv
  <2>2. ViewAgrees'
    BY <1>1, <2>1, AgreesKept
  <2>3. FlickerFree
    BY <2>1 DEF FlickerFree, ViewInv, Told
  <2> QED
    BY <2>1, <2>2, <2>3 DEF ViewInv
<1>4. CASE UNCHANGED viewVars
  <2>1. UNCHANGED <<view, listener, told, getter, gets>>
    BY <1>4 DEF viewVars
  <2>2. ViewAgrees'
    BY <1>1, <2>1, AgreesKept DEF Listening
  <2> QED
    BY <2>1, <2>2 DEF ViewInv, ViewType, Told, FlickerFree
<1>5. CASE RemoveQueryListener
  <2>1. /\ getter' = "off" /\ UNCHANGED <<listener, told, gets>>
        /\ view' = IF listener # "off" THEN view ELSE NoView
    BY <1>5 DEF RemoveQueryListener
  <2>2. Listening' => Listening /\ view' = view
    BY <2>1 DEF Listening
  <2>3. ViewAgrees'
    BY <1>1, <2>2, AgreesKept
  <2>4. NoView \in ViewRecord
    BY DEF NoView, ViewRecord, Value
  <2> QED
    BY <2>1, <2>3, <2>4 DEF ViewInv, ViewType, Told, FlickerFree
<1>6. CASE Relaunch
  <2>1. view' = NoView /\ listener' = "off" /\ told' = Absent /\ getter' = "off" /\ UNCHANGED gets
    BY <1>6 DEF Relaunch
  <2>2. NoView \in ViewRecord /\ Absent \in Value
    BY DEF NoView, ViewRecord, Value
  <2> QED
    BY <2>1, <2>2 DEF ViewInv, ViewType, Told, FlickerFree, ViewAgrees, Listening
<1>7. CASE OnWatchStreamClose \/ OnWatchIdleTimeout \/ RestartNetwork \/ OnOnlineStateTimeout
        \/ OnWatchResponse
  <2>1. \E key, t : Emit(view, key, t)
    BY <1>7 DEF OnWatchStreamClose, OnWatchIdleTimeout, RestartNetwork, OnOnlineStateTimeout,
                OnWatchResponse
  <2> QED
    BY <1>3, <2>1
<1>8. CASE UNCHANGED <<watchVars, viewVars, queue, issued, refused>>
        \/ OnWatchStreamOpen \/ OnWatchBackoffElapsed
        \/ ServerWatch \/ \E version \in 0..Len(log) : ServerSnapshot(version)
  BY <1>4, <1>8 DEF OnWatchStreamOpen, OnWatchBackoffElapsed, ServerWatch, ServerSnapshot
<1> QED
  BY <1>5, <1>6, <1>7, <1>8, StepKinds

-----------------------------------------------------------------------------
(* The client *)

CInv == WInv /\ VInv /\ ConnInv /\ CacheInv /\ ViewInv

(* Every step keeps all layers, and takes no listener back. *)
LEMMA NextClient == CInv /\ [Next]_vars => CInv' /\ FlickerFree
<1> SUFFICES ASSUME CInv, [Next]_vars PROVE CInv' /\ FlickerFree
  OBVIOUS
<1>1. WInv /\ VInv /\ ConnInv /\ CacheInv /\ ViewInv
  BY DEF CInv
<1>2. WInv' /\ VInv' /\ ConnInv' /\ CacheInv'
  BY <1>1, ClientWInv, NextVersions, NextConn, NextCache
<1>3. ViewInv' /\ FlickerFree
  BY <1>1, <1>2, DoWriteView, SuccessView, RejectView, SnapshotView, AddView, OtherView
<1> QED
  BY <1>2, <1>3 DEF CInv

(* All layers hold at the start. *)
LEMMA InitClient == Init => CInv
<1> SUFFICES ASSUME Init PROVE CInv
  OBVIOUS
<1>1. WInv /\ ConnInv
  BY InitWInv, InitConn DEF Init
<1>2. Len(log) = 0 /\ Len(responses) = 0 /\ Len(news) = 0 /\ issued = 0
  BY EmptySeq DEF Init, WriteInit
<1>3. VInv
  BY <1>2 DEF VInv, AckVersions, AcksOrdered, LogIssued
<1>4. CacheInv
  <2>1. 1..issued = {} /\ 1..Len(responses) = {} /\ 1..Len(news) = {} /\ 0..Len(log) = {0}
    BY <1>2
  <2> QED
    BY <2>1 DEF Init, CacheInv, CacheType, NewsVersions, CacheBehind, Completed
<1>5. ViewInv
  <2>1. NoView \in ViewRecord /\ Absent \in Value /\ 0 \in 0..MaxGets
    BY WatchBounds DEF NoView, ViewRecord, Value
  <2> QED
    BY <2>1 DEF Init, ViewInv, ViewType, Told, ViewAgrees, Listening
<1> QED
  BY <1>1, <1>3, <1>4, <1>5 DEF CInv

(* They hold in every reachable state. *)
LEMMA ClientInvariance == Spec => []CInv
BY InitClient, NextClient, PTL DEF Spec

(* Every variable of the client keeps its type: the cache, the snapshot    *)
(* version and the position of the server never run ahead of its log, and  *)
(* the count of outstanding responses never becomes negative.              *)
THEOREM ClientTypeCorrect == Spec => []TypeOK
<1>1. CInv => TypeOK
  BY DEF CInv, WInv, ConnInv, ConnType, CacheInv, CacheType, ViewInv, ViewType, ViewRecord,
         Tracker, ListenerState, GetterState, TypeOK
<1> QED
  BY <1>1, ClientInvariance, PTL

(* SyncEngine and View: no handler that changes the queue or the cache     *)
(* forgets the view, which differs from the local store only while it      *)
(* waits for the watch stream to replace a refused write.                  *)
THEOREM ClientViewAgrees == Spec => []ViewAgrees
<1>1. CInv => ViewAgrees
  BY DEF CInv, ViewInv
<1> QED
  BY <1>1, ClientInvariance, PTL

(* LocalStore::ApplyBatchResult and PopulateDocumentChanges: between them  *)
(* they never show a state without a write that has succeeded, however     *)
(* late the watch stream is and however often the app is launched again.   *)
THEOREM ClientReadYourWrites == Spec => []ReadYourWrites
<1>1. CInv => ReadYourWrites
  <2> SUFFICES ASSUME CInv, NEW w \in 1..issued \ (Range(queue) \cup refused),
                      Listening, view.shown \notin Range(queue) \cup refused
               PROVE  \E i, j \in 1..cache.version : i <= j /\ log[i] = w /\ log[j] = view.shown
    BY DEF ReadYourWrites
  <2>1. /\ queue \in Seq(Write) /\ Len(log) \in Nat
        /\ cache \in [version : 0..Len(log), committed : BOOLEAN] /\ WInv
    BY LenProperties DEF CInv, WInv, WriteTypeOK, CacheInv, CacheType
  <2>2. view.shown = LocalView(queue, cache).value
    BY DEF CInv, ViewInv, ViewAgrees
  <2>3. view.shown = IF queue # << >> THEN queue[Len(queue)] ELSE At(cache.version)
    BY <2>1, <2>2, LocalFacts
  <2>4. queue = << >>
    <3>1. queue # << >> => Len(queue) \in DOMAIN queue
      BY <2>1, EmptySeq, LenProperties
    <3>2. queue # << >> => queue[Len(queue)] \in Range(queue)
      BY <3>1 DEF Range
    <3> QED
      BY <2>3, <3>2
  <2>5. PICK i \in 1..cache.version : log[i] = w
    BY DEF CInv, CacheInv, Completed
  <2>6. cache.version \in 1..cache.version /\ i <= cache.version
    BY <2>1, <2>5
  <2>7. log[cache.version] = view.shown
    BY <2>3, <2>4, <2>6 DEF At
  <2> QED
    BY <2>5, <2>6, <2>7
<1> QED
  BY <1>1, ClientInvariance, PTL

(* EventManager and View: a listener is shown newer and newer states, and  *)
(* only a refused write is replaced by something older.                    *)
THEOREM ClientNoFlicker == Spec => NoFlicker
<1>1. CInv /\ [Next]_vars => [FlickerFree]_vars
  BY NextClient
<1> QED
  BY <1>1, ClientInvariance, PTL DEF Spec, NoFlicker, FlickerFree
=============================================================================
