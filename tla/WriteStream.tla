----------------------------- MODULE WriteStream -----------------------------
(***************************************************************************)
(* The write half of the Firestore client that the app is built with       *)
(* (Pods/FirebaseFirestore): how a setData, updateData or addDocument gets *)
(* from the app to the server.                                             *)
(*                                                                         *)
(* A write is put in the persisted mutation queue.  RemoteStore keeps the  *)
(* first MaxPending of them in its pipeline, sends them over the write     *)
(* stream once its handshake is complete, and takes each response to be    *)
(* about the first write of the pipeline.  A stream that fails is started  *)
(* again after a backoff and the whole pipeline is sent again; a permanent *)
(* error is held against the first write of the pipeline.                  *)
(*                                                                         *)
(* One client and one document; a write is its number.  All handlers run   *)
(* on the client's worker queue, one at a time.                            *)
(***************************************************************************)
EXTENDS Naturals, Sequences, FiniteSets, Functions

CONSTANTS
  MaxPending, \* kMaxPendingWrites
  MaxWrites,  \* bound: writes of this client
  MaxOthers,  \* bound: writes of the other clients
  MaxFaults,  \* bound: broken streams, network changes and relaunches
  MaxRefused  \* bound: writes the server refuses

ASSUME PendingAssumption == MaxPending \in Nat \ {0}
ASSUME WriteBounds ==
  /\ MaxWrites \in Nat /\ MaxOthers \in Nat /\ MaxFaults \in Nat /\ MaxRefused \in Nat

Write == 1..MaxWrites
Other == (MaxWrites + 1)..(MaxWrites + MaxOthers)

VARIABLES
  queue,     \* the mutation queue (persisted)
  pipeline,  \* write_pipeline_
  stream,    \* state_ of the write stream
  handshake, \* handshake_complete_
  idle,      \* is idleness_timer_ running?
  requests,  \* sent by the client, not yet read by the server
  responses, \* sent by the server, not yet read by the client
  log,       \* the writes the server has applied, in order; a version is a
             \* position in it
  issued,    \* how many writes the app has made: batch ids grow
  refused,   \* the writes that were given up (history)
  faults     \* how many faults have happened

writeVars == <<queue, pipeline, stream, handshake, idle, requests, responses,
               log, issued, refused, faults>>

-----------------------------------------------------------------------------
(* Types *)

Handshake == 0  \* the first request of a stream; the others are writes

StreamState == {"Initial", "Starting", "Open", "Error", "Backoff"}

Response ==
  [kind : {"handshake", "refused"}] \cup [kind : {"ack"}, write : Write, version : Nat]

(* One type for each variable. *)
WriteTypeOK ==
  /\ queue \in Seq(Write)
  /\ pipeline \in Seq(Write)
  /\ stream \in StreamState
  /\ handshake \in BOOLEAN
  /\ idle \in BOOLEAN
  /\ requests \in Seq({Handshake} \cup Write)
  /\ responses \in Seq(Response)
  /\ log \in Seq(Write \cup Other)
  /\ issued \in 0..MaxWrites
  /\ refused \in SUBSET Write
  /\ faults \in 0..MaxFaults

WriteInit ==
  /\ queue = <<>>
  /\ pipeline = <<>>
  /\ stream = "Initial"
  /\ handshake = FALSE
  /\ idle = FALSE
  /\ requests = <<>>
  /\ responses = <<>>
  /\ log = <<>>
  /\ issued = 0
  /\ refused = {}
  /\ faults = 0

-----------------------------------------------------------------------------
(* The pipeline and the stream *)

IsStarted(state) == state \in {"Starting", "Backoff", "Open"}

(* Stream::Start: after an error only once a backoff has elapsed. *)
Start(state) == IF state = "Error" THEN "Backoff" ELSE "Starting"

(* LevelDbMutationQueue::RemoveMutationBatch *)
RemoveMutationBatch(q, w) ==
  LET i == CHOOSE i \in DOMAIN q : q[i] = w
  IN  SubSeq(q, 1, i - 1) \o SubSeq(q, i + 1, Len(q))

(* How many batches of the queue are up to the last one in the pipeline:   *)
(* NextMutationBatchAfterBatchId goes on from there.                       *)
Retrieved(q, p) ==
  CHOOSE n \in 0..Len(q) : \A i \in DOMAIN q : i <= n <=> p # <<>> /\ q[i] <= p[Len(p)]

(* The batches FillWritePipeline adds: the next ones, while there is room. *)
NextBatches(q, p) ==
  LET n    == Retrieved(q, p)
      room == MaxPending - Len(p)
  IN  SubSeq(q, n + 1, IF Len(q) <= n + room THEN Len(q) ELSE n + room)

(* Mutant: writing to the stream does not cancel the idle timer. *)
FillKeepsTimer(q, p, state, r, t) ==
  LET added == NextBatches(q, p)
      send  == state = "Open" /\ handshake
  IN  /\ pipeline' = p \o added
      /\ requests' = IF send THEN r \o added ELSE r
      /\ idle' = (t \/ (state = "Open" /\ pipeline' = <<>>))
      /\ stream' = IF ~IsStarted(state) /\ pipeline' # <<>> THEN Start(state) ELSE state

(* RemoteStore::FillWritePipeline, for a mutation queue q, a pipeline p,   *)
(* a stream in the given state, with requests r under way and the timer t: *)
(* an open stream is written to, which cancels the timer, or is marked     *)
(* idle; one that is needed and is not started is started.                 *)
FillWritePipeline(q, p, state, r, t) ==
  LET added == NextBatches(q, p)
      send  == state = "Open" /\ handshake
  IN  /\ pipeline' = p \o added
      /\ requests' = IF send THEN r \o added ELSE r
      /\ idle' = IF send /\ added # <<>> THEN FALSE
                 ELSE t \/ (state = "Open" /\ pipeline' = <<>>)
      /\ stream' = IF ~IsStarted(state) /\ pipeline' # <<>> THEN Start(state) ELSE state

(* SyncEngine::WriteMutations, without the view *)
WriteMutations(w) ==
  /\ w = issued + 1
  /\ issued' = w
  /\ queue' = Append(queue, w)
  /\ FillWritePipeline(queue', pipeline, stream, requests, idle)
  /\ UNCHANGED <<handshake, responses, log, refused, faults>>

(* The connection is there: the handshake is sent. *)
OnWriteStreamOpen ==
  /\ stream = "Starting"
  /\ stream' = "Open"
  /\ requests' = Append(requests, Handshake)
  /\ UNCHANGED <<queue, pipeline, handshake, idle, responses, log, issued, refused, faults>>

(* The first response: the whole pipeline is sent. *)
OnWriteStreamHandshakeComplete ==
  /\ responses # <<>> /\ ~handshake
  /\ responses' = Tail(responses)
  /\ handshake' = TRUE
  /\ requests' = requests \o pipeline
  /\ idle' = (idle /\ pipeline = <<>>)
  /\ UNCHANGED <<queue, pipeline, stream, log, issued, refused, faults>>

(* Every other response is the result of the first write of the pipeline. *)
OnWriteStreamMutationResult ==
  /\ responses # <<>> /\ handshake /\ Head(responses).kind = "ack"
  /\ responses' = Tail(responses)
  /\ queue' = RemoveMutationBatch(queue, Head(pipeline))
  /\ FillWritePipeline(queue', Tail(pipeline), stream, requests, idle)
  /\ UNCHANGED <<handshake, log, issued, refused, faults>>

(* Mutant: handshake_complete_ is not reset. *)
CloseKeepsHandshake ==
  /\ stream \in {"Starting", "Open"}
  /\ faults < MaxFaults
  /\ faults' = faults + 1
  /\ stream' = IF pipeline # <<>> THEN Start("Error") ELSE "Error"
  /\ idle' = FALSE
  /\ requests' = <<>>
  /\ responses' = <<>>
  /\ UNCHANGED <<queue, pipeline, handshake, log, issued, refused>>

(* Mutant: every error is taken for a permanent one. *)
CloseGivesUp ==
  /\ stream = "Open" /\ handshake /\ pipeline # <<>>
  /\ faults < MaxFaults
  /\ faults' = faults + 1
  /\ queue' = Tail(queue)
  /\ refused' = refused \cup {Head(pipeline)}
  /\ FillWritePipeline(queue', Tail(pipeline), "Initial", <<>>, FALSE)
  /\ handshake' = FALSE
  /\ responses' = <<>>
  /\ UNCHANGED <<log, issued>>

(* The stream ends with an error that is worth a retry, or with any error  *)
(* before the handshake: no write is given up.                             *)
OnWriteStreamClose ==
  /\ stream \in {"Starting", "Open"}
  /\ faults < MaxFaults
  /\ faults' = faults + 1
  /\ stream' = IF pipeline # <<>> THEN Start("Error") ELSE "Error"
  /\ handshake' = FALSE
  /\ idle' = FALSE
  /\ requests' = <<>>
  /\ responses' = <<>>
  /\ UNCHANGED <<queue, pipeline, log, issued, refused>>

(* The stream ends with a permanent error after the handshake: the first   *)
(* write is given up and the stream started again without a backoff.       *)
OnWriteStreamRefused ==
  /\ responses # <<>> /\ handshake /\ Head(responses).kind = "refused"
  /\ LET w == Head(pipeline) IN
     /\ queue' = RemoveMutationBatch(queue, w)
     /\ refused' = refused \cup {w}
  /\ FillWritePipeline(queue', Tail(pipeline), "Initial", <<>>, FALSE)
  /\ handshake' = FALSE
  /\ responses' = <<>>
  /\ UNCHANGED <<log, issued, faults>>

(* The idle timer: Stop.  Responses still under way are not read. *)
OnIdleTimeout ==
  /\ idle
  /\ stream' = "Initial"
  /\ handshake' = FALSE
  /\ idle' = FALSE
  /\ requests' = <<>>
  /\ responses' = <<>>
  /\ UNCHANGED <<queue, pipeline, log, issued, refused, faults>>

OnBackoffElapsed ==
  /\ stream = "Backoff"
  /\ stream' = "Starting"
  /\ UNCHANGED <<queue, pipeline, handshake, idle, requests, responses, log, issued, refused, faults>>

(* The write half of RestartNetwork: the stream is stopped, the pipeline   *)
(* cleared and filled again from the queue.  A relaunch of the app leaves  *)
(* the same state behind: only the queue is persisted.                     *)
RestartWriteStream ==
  /\ faults < MaxFaults
  /\ faults' = faults + 1
  /\ FillWritePipeline(queue, <<>>, "Initial", <<>>, FALSE)
  /\ handshake' = FALSE
  /\ responses' = <<>>
  /\ UNCHANGED <<queue, log, issued, refused>>

-----------------------------------------------------------------------------
(* The server: it reads the requests of a stream in order, and nothing     *)
(* more of a stream that it or the client has closed.                      *)

Reading(request) ==
  /\ requests # <<>> /\ Head(requests) = request
  /\ \A i \in DOMAIN responses : responses[i].kind # "refused"

ServerHandshake ==
  /\ Reading(Handshake)
  /\ requests' = Tail(requests)
  /\ responses' = Append(responses, [kind |-> "handshake"])
  /\ UNCHANGED <<queue, pipeline, stream, handshake, idle, log, issued, refused, faults>>

ServerCommit(w) ==
  /\ Reading(w)
  /\ log' = Append(log, w)
  /\ requests' = Tail(requests)
  /\ responses' = Append(responses,
       [kind |-> "ack", write |-> w, version |-> Len(log')])
  /\ UNCHANGED <<queue, pipeline, stream, handshake, idle, issued, refused, faults>>

(* A refusal ends the stream. *)
ServerRefuse(w) ==
  /\ Reading(w)
  /\ Cardinality(refused) < MaxRefused
  /\ requests' = <<>>
  /\ responses' = Append(responses, [kind |-> "refused"])
  /\ UNCHANGED <<queue, pipeline, stream, handshake, idle, log, issued, refused, faults>>

ServerOther(o) ==
  /\ o \notin Range(log)
  /\ log' = Append(log, o)
  /\ UNCHANGED <<queue, pipeline, stream, handshake, idle, requests, responses, issued, refused, faults>>
-----------------------------------------------------------------------------

WriteNext ==
  \/ \E w \in Write : WriteMutations(w) \/ ServerCommit(w) \/ ServerRefuse(w)
  \/ OnWriteStreamOpen \/ OnWriteStreamHandshakeComplete
  \/ OnWriteStreamMutationResult \/ OnWriteStreamRefused
  \/ OnWriteStreamClose \/ OnIdleTimeout \/ OnBackoffElapsed
  \/ RestartWriteStream
  \/ ServerHandshake
  \/ \E o \in Other : ServerOther(o)

WriteSpec == WriteInit /\ [][WriteNext]_writeVars

-----------------------------------------------------------------------------
(* Properties *)

(* The acknowledgements under way: all responses but a handshake, which is *)
(* the only one then, or a refusal, which is the last.                     *)
Acks ==
  IF responses = <<>> \/ responses[Len(responses)].kind = "ack" THEN responses
  ELSE SubSeq(responses, 1, Len(responses) - 1)

(* Responses carry no name: OnWriteStreamMutationResult takes each for the *)
(* first write of the pipeline.  That is right: the pipeline is what the   *)
(* queue begins with, and what was acknowledged but not read, followed by  *)
(* what was sent but not yet answered, is exactly the pipeline.            *)
ResponsesMatch ==
  /\ pipeline = SubSeq(queue, 1, Len(pipeline))
  /\ Len(pipeline) = MaxPending \/ pipeline = queue
  /\ handshake =>
       LET acked == [i \in DOMAIN Acks |-> Acks[i].write]
       IN  IF Acks = responses THEN pipeline = acked \o requests
           ELSE Len(acked) < Len(pipeline) /\ acked = SubSeq(pipeline, 1, Len(acked))

(* OnWriteStreamClose asserts that a stream is not stopped gracefully      *)
(* while it is needed: the idle timer never runs with a write to send.     *)
IdleUnneeded == idle => stream = "Open" /\ pipeline = <<>>

(* The refinement: what the server has applied since the stream was opened *)
(* are the acknowledgements under way.                                     *)
Abstract == INSTANCE WriteQueue WITH applied <- Len(Acks)

(* The streams, the pipeline and the retries are invisible to the app: the *)
(* client implements the queue of WriteQueue.                              *)
ImplementsWriteQueue == Abstract!Spec
=============================================================================
