-------------------------- MODULE WriteStreamProofs --------------------------
(***************************************************************************)
(* For any size of the pipeline and any number of writes, faults and       *)
(* refusals, the write half of the Firestore client takes every response   *)
(* for the right write, is never closed for idleness while it is needed,   *)
(* and implements WriteQueue.                                              *)
(*                                                                         *)
(* ResponsesMatch is not inductive.  That the pipeline is what the queue   *)
(* begins with depends on the batch ids, which grow; that the responses    *)
(* match depends on what is under way before the handshake.                *)
(***************************************************************************)
EXTENDS WriteStream, SequenceTheorems, TLAPS

(* Batch ids grow, and those of the queue were given out. *)
Increasing(q) == \A i, j \in DOMAIN q : i < j => q[i] < q[j]

BatchIds == Increasing(queue) /\ \A i \in DOMAIN queue : queue[i] <= issued

(* How many writes FillWritePipeline leaves in the pipeline. *)
Front(q) == IF Len(q) <= MaxPending THEN Len(q) ELSE MaxPending

(* The pipeline is full, or the whole queue. *)
PipelineFull == pipeline = SubSeq(queue, 1, Front(queue))

(* Only an open stream has something under way. *)
OpenOnly ==
  /\ handshake => stream = "Open"
  /\ stream # "Open" => requests = << >> /\ responses = << >>

(* Before the handshake is complete only the handshake is under way. *)
Greeting ==
  stream = "Open" /\ ~handshake =>
    \/ requests = << Handshake >> /\ responses = << >>
    \/ requests = << >> /\ responses = << [kind |-> "handshake"] >>

Refusal(i) == responses[i].kind = "refused"

Unrefused == \A i \in 1..Len(responses) : ~Refusal(i)

(* After it the i-th response is about the i-th write of the pipeline, a   *)
(* refusal is the last one, and the requests under way are about the rest. *)
Answers ==
  handshake =>
    /\ Len(responses) <= Len(pipeline)
    /\ \A i \in 1..Len(responses) :
         \/ responses[i].kind = "ack" /\ responses[i].write = pipeline[i]
         \/ Refusal(i) /\ i = Len(responses)
    /\ Unrefused =>
         /\ Len(pipeline) = Len(responses) + Len(requests)
         /\ \A i \in 1..Len(requests) : requests[i] = pipeline[Len(responses) + i]

(* The idle timer runs only after the handshake, with nothing to send. *)
IdleEmpty == idle => handshake /\ pipeline = << >>

WInv ==
  /\ WriteTypeOK /\ BatchIds /\ PipelineFull
  /\ OpenOnly /\ Greeting /\ Answers /\ IdleEmpty

-----------------------------------------------------------------------------
(* The queue and the pipeline *)

(* What the beginning of a sequence holds. *)
LEMMA Prefix ==
  ASSUME NEW S, NEW s \in Seq(S), NEW n \in 0..Len(s)
  PROVE  /\ SubSeq(s, 1, n) \in Seq(S)
         /\ Len(SubSeq(s, 1, n)) = n
         /\ \A i \in 1..n : SubSeq(s, 1, n)[i] = s[i]
<1>1. n \in Int /\ 1 \in Int /\ \A i \in 1..n : s[i] \in S
  BY LenProperties, ElementOfSeq
<1> QED
  BY <1>1, SubSeqProperties

(* NextMutationBatchAfterBatchId goes on behind the pipeline. *)
LEMMA RetrievedPrefix ==
  ASSUME NEW q \in Seq(Write), Increasing(q), NEW n \in 0..Len(q)
  PROVE  Retrieved(q, SubSeq(q, 1, n)) = n
<1> DEFINE p == SubSeq(q, 1, n)
           Ok(m) == \A i \in DOMAIN q : i <= m <=> p # << >> /\ q[i] <= p[Len(p)]
<1>1. p \in Seq(Write) /\ Len(p) = n /\ (\A i \in 1..n : p[i] = q[i]) /\ DOMAIN q = 1..Len(q)
      /\ Len(q) \in Nat
  BY Prefix, LenProperties
<1>2. \A i \in 1..Len(q) : q[i] \in Nat
  BY ElementOfSeq, WriteBounds DEF Write
<1> HIDE DEF p
<1>3. p # << >> <=> n # 0
  BY <1>1, EmptySeq
<1>4. Ok(n)
  <2> SUFFICES ASSUME NEW i \in 1..Len(q) PROVE i <= n <=> p # << >> /\ q[i] <= p[Len(p)]
    BY <1>1
  <2>1. CASE n = 0
    BY <1>1, <1>3, <2>1
  <2>2. CASE n # 0
    <3>1. p[Len(p)] = q[n] /\ n \in 1..Len(q)
      BY <1>1, <2>2
    <3>2. i < n => q[i] < q[n]
      BY <1>1, <3>1 DEF Increasing
    <3>3. n < i => q[n] < q[i]
      BY <1>1, <3>1 DEF Increasing
    <3> QED
      BY <1>1, <1>2, <1>3, <2>2, <3>1, <3>2, <3>3
  <2> QED
    BY <2>1, <2>2
<1>5. \A m \in 0..Len(q) : Ok(m) => m = n
  <2> SUFFICES ASSUME NEW m \in 0..Len(q), Ok(m) PROVE m = n
    OBVIOUS
  <2>1. \A i \in 1..Len(q) : i <= m <=> i <= n
    BY <1>1, <1>4
  <2>2. (m # 0 => m <= n) /\ (n # 0 => n <= m)
    BY <1>1, <2>1
  <2> QED
    BY <1>1, <2>2
<1>6. Retrieved(q, p) = CHOOSE m \in 0..Len(q) : Ok(m)
  BY DEF Retrieved
<1> HIDE DEF Ok
<1>7. (CHOOSE m \in 0..Len(q) : Ok(m)) = n
  BY <1>4, <1>5
<1> QED
  BY <1>6, <1>7 DEF p

(* Front is a position in the queue, and fits in the pipeline. *)
LEMMA FrontBounds ==
  ASSUME NEW q \in Seq(Write)
  PROVE  Front(q) \in 0..Len(q) /\ Front(q) <= MaxPending /\ Len(q) \in Nat
BY LenProperties, PendingAssumption DEF Front

(* FillWritePipeline, for a pipeline that the queue begins with. *)
LEMMA FillEffect ==
  ASSUME NEW q \in Seq(Write), Increasing(q), NEW n \in 0..Front(q),
         NEW state, NEW r, NEW t, FillWritePipeline(q, SubSeq(q, 1, n), state, r, t)
  PROVE  LET added == SubSeq(q, n + 1, Front(q))
             send  == state = "Open" /\ handshake
         IN  /\ pipeline' = SubSeq(q, 1, Front(q))
             /\ requests' = IF send THEN r \o added ELSE r
             /\ idle' = IF send /\ added # << >> THEN FALSE
                        ELSE t \/ (state = "Open" /\ pipeline' = << >>)
             /\ stream' = IF ~IsStarted(state) /\ pipeline' # << >> THEN Start(state) ELSE state
<1> DEFINE p == SubSeq(q, 1, n)
           added == SubSeq(q, n + 1, Front(q))
<1>1. Front(q) \in 0..Len(q) /\ Len(q) \in Nat /\ MaxPending \in Nat /\ n \in 0..Len(q)
  BY FrontBounds, PendingAssumption
<1>2. Retrieved(q, p) = n /\ Len(p) = n
  BY <1>1, RetrievedPrefix, Prefix
<1>3. NextBatches(q, p) = added
  BY <1>1, <1>2 DEF NextBatches, Front
<1>4. p \o added = SubSeq(q, 1, Front(q))
  <2>1. 1 \in 1..Len(q) + 1 /\ n \in (1 - 1)..Len(q) /\ Front(q) \in n..Len(q)
    BY <1>1
  <2> QED
    BY <2>1, ConcatAdjacentSubSeq
<1> QED
  BY <1>3, <1>4 DEF FillWritePipeline

(* Removing the first batch. *)
LEMMA RemoveFirst ==
  ASSUME NEW q \in Seq(Write), Increasing(q), q # << >>
  PROVE  /\ RemoveMutationBatch(q, q[1]) = Tail(q)
         /\ Tail(q) \in Seq(Write)
         /\ Len(Tail(q)) = Len(q) - 1
         /\ \A i \in 1..Len(Tail(q)) : Tail(q)[i] = q[i + 1]
         /\ Increasing(Tail(q))
<1>1. Len(q) \in Nat /\ Len(q) > 0 /\ DOMAIN q = 1..Len(q)
  BY LenProperties, EmptySeq
<1>2. \A i \in 1..Len(q) : q[i] \in Nat
  BY ElementOfSeq, WriteBounds DEF Write
<1>3. /\ Tail(q) \in Seq(Write) /\ Len(Tail(q)) = Len(q) - 1
      /\ \A i \in 1..Len(Tail(q)) : Tail(q)[i] = q[i + 1]
  BY HeadTailProperties
<1>4. DOMAIN Tail(q) = 1..Len(Tail(q))
  BY <1>3, LenProperties
<1>5. Increasing(Tail(q))
  BY <1>1, <1>3, <1>4 DEF Increasing
<1>6. \A i \in DOMAIN q : q[i] = q[1] => i = 1
  BY <1>1, <1>2 DEF Increasing
<1>7. (CHOOSE i \in DOMAIN q : q[i] = q[1]) = 1
  BY <1>1, <1>6
<1>8. SubSeq(q, 1, 0) = << >> /\ SubSeq(q, 2, Len(q)) = Tail(q)
  BY <1>1, SubSeqEmpty, TailIsSubSeq
<1>9. << >> \o Tail(q) = Tail(q)
  BY <1>3, ConcatEmptySeq
<1>10. RemoveMutationBatch(q, q[1]) = SubSeq(q, 1, 1 - 1) \o SubSeq(q, 1 + 1, Len(q))
  BY <1>7 DEF RemoveMutationBatch
<1> QED
  BY <1>3, <1>5, <1>8, <1>9, <1>10

(* What is left of the pipeline is what the rest of the queue begins with. *)
LEMMA TailOfFront ==
  ASSUME NEW q \in Seq(Write), Increasing(q), q # << >>
  PROVE  /\ Front(q) > 0
         /\ Front(q) - 1 \in 0..Front(Tail(q))
         /\ Tail(SubSeq(q, 1, Front(q))) = SubSeq(Tail(q), 1, Front(q) - 1)
         /\ Head(SubSeq(q, 1, Front(q))) = q[1]
<1>1. Len(q) \in Nat /\ Len(q) > 0 /\ Front(q) \in 1..Len(q) /\ Front(q) - 1 \in 0..Front(Tail(q))
  BY FrontBounds, EmptySeq, RemoveFirst, PendingAssumption DEF Front
<1>2. /\ Tail(q) \in Seq(Write) /\ Len(Tail(q)) = Len(q) - 1
      /\ \A i \in 1..Len(Tail(q)) : Tail(q)[i] = q[i + 1]
  BY RemoveFirst
<1> DEFINE p == SubSeq(q, 1, Front(q))
           t == SubSeq(Tail(q), 1, Front(q) - 1)
<1>3. p \in Seq(Write) /\ Len(p) = Front(q) /\ \A i \in 1..Front(q) : p[i] = q[i]
  BY <1>1, Prefix
<1>4. t \in Seq(Write) /\ Len(t) = Front(q) - 1 /\ \A i \in 1..Front(q) - 1 : t[i] = Tail(q)[i]
  BY <1>1, <1>2, Prefix
<1> HIDE DEF p, t
<1>5. p # << >>
  BY <1>1, <1>3, EmptySeq
<1>6. Tail(p) \in Seq(Write) /\ Len(Tail(p)) = Front(q) - 1
      /\ \A i \in 1..Front(q) - 1 : Tail(p)[i] = p[i + 1]
  BY <1>1, <1>3, <1>5, HeadTailProperties
<1>7. \A i \in 1..Front(q) - 1 : Tail(p)[i] = t[i]
  BY <1>1, <1>2, <1>3, <1>4, <1>6
<1>8. Tail(p) = t
  BY <1>4, <1>6, <1>7, SeqEqual
<1>9. Head(p) = q[1]
  BY <1>1, <1>3, <1>5
<1> QED
  BY <1>1, <1>8, <1>9 DEF p, t

(* What the invariant says of lengths and elements. *)
LEMMA PipelineFacts ==
  ASSUME WriteTypeOK, PipelineFull
  PROVE  /\ Len(queue) \in Nat /\ DOMAIN queue = 1..Len(queue)
         /\ Len(pipeline) = Front(queue) /\ Front(queue) \in 0..Len(queue)
         /\ \A i \in 1..Len(pipeline) : pipeline[i] = queue[i]
         /\ Len(requests) \in Nat /\ Len(responses) \in Nat
         /\ pipeline = << >> <=> queue = << >>
<1>1. queue \in Seq(Write) /\ requests \in Seq({Handshake} \cup Write)
      /\ responses \in Seq(Response) /\ pipeline \in Seq(Write)
  BY DEF WriteTypeOK
<1>2. Len(queue) \in Nat /\ DOMAIN queue = 1..Len(queue) /\ Front(queue) \in 0..Len(queue)
      /\ Len(requests) \in Nat /\ Len(responses) \in Nat
  BY <1>1, LenProperties, FrontBounds
<1>3. Len(pipeline) = Front(queue) /\ \A i \in 1..Len(pipeline) : pipeline[i] = queue[i]
  BY <1>1, <1>2, Prefix DEF PipelineFull
<1>4. Front(queue) = 0 <=> Len(queue) = 0
  BY <1>2, PendingAssumption DEF Front
<1>5. (pipeline = << >> <=> Len(pipeline) = 0) /\ (queue = << >> <=> Len(queue) = 0)
  BY <1>1, EmptySeq
<1> QED
  BY <1>2, <1>3, <1>4, <1>5

(* A sequence of the empty kind has no index. *)
LEMMA NoIndex == DOMAIN << >> = {} /\ Len(<< >>) = 0
<1>1. << >> \in Seq({}) /\ Len(<< >>) = 0
  BY EmptySeq
<1>2. DOMAIN << >> = 1..0
  BY <1>1, LenProperties, Zenon
<1> QED
  BY <1>1, <1>2

-----------------------------------------------------------------------------
(* One lemma per kind of step *)

(* Nothing is wrong at the start. *)
LEMMA InitWInv == WriteInit => WInv
<1> SUFFICES ASSUME WriteInit PROVE WInv
  OBVIOUS
<1>1. WriteTypeOK
  <2>1. /\ << >> \in Seq(Write) /\ << >> \in Seq({Handshake} \cup Write)
        /\ << >> \in Seq(Response) /\ << >> \in Seq(Write \cup Other)
    BY EmptySeq
  <2>2. 0 \in 0..MaxWrites /\ 0 \in 0..MaxFaults
    BY WriteBounds
  <2> QED
    BY <2>1, <2>2 DEF WriteInit, WriteTypeOK, StreamState
<1>2. BatchIds
  BY NoIndex DEF WriteInit, BatchIds, Increasing
<1>3. PipelineFull
  <2>1. Front(queue) = 0
    BY NoIndex, PendingAssumption DEF Front, WriteInit
  <2>2. SubSeq(queue, 1, 0) = << >>
    BY SubSeqEmpty
  <2> QED
    BY <2>1, <2>2 DEF PipelineFull, WriteInit
<1> QED
  BY <1>1, <1>2, <1>3 DEF WInv, WriteInit, OpenOnly, Greeting, Answers, IdleEmpty

(* A stream that is not open, with a queue that is as it was: what closing *)
(* it leaves behind.                                                       *)
LEMMA ClosedWInv ==
  ASSUME WInv, UNCHANGED <<queue, pipeline, log, issued, refused>>, faults' \in 0..MaxFaults,
         stream' \in StreamState \ {"Open"}, handshake' = FALSE, idle' = FALSE,
         requests' = << >>, responses' = << >>
  PROVE  WInv'
<1>1. WriteTypeOK'
  BY EmptySeq DEF WInv, WriteTypeOK
<1> QED
  BY <1>1 DEF WInv, BatchIds, Increasing, PipelineFull, Front, OpenOnly, Greeting,
              Answers, IdleEmpty

(* A stream that was stopped, and is started if the pipeline that is       *)
(* filled from the queue needs it.                                         *)
LEMMA RestartedWInv ==
  ASSUME WInv, queue' \in Seq(Write), Increasing(queue'),
         \A i \in DOMAIN queue' : queue'[i] <= issued,
         NEW n \in 0..Front(queue'),
         FillWritePipeline(queue', SubSeq(queue', 1, n), "Initial", << >>, FALSE),
         handshake' = FALSE, responses' = << >>, UNCHANGED <<log, issued>>,
         refused' \in SUBSET Write, faults' \in 0..MaxFaults
  PROVE  WInv'
<1>1. /\ pipeline' = SubSeq(queue', 1, Front(queue'))
      /\ requests' = << >>
      /\ idle' = FALSE
      /\ stream' \in {"Initial", "Starting"}
  <2>1. "Initial" # "Open" /\ ~IsStarted("Initial") /\ Start("Initial") = "Starting"
    BY DEF IsStarted, Start
  <2>2. /\ pipeline' = SubSeq(queue', 1, Front(queue'))
        /\ requests' = IF "Initial" = "Open" /\ handshake
                       THEN << >> \o SubSeq(queue', n + 1, Front(queue')) ELSE << >>
        /\ idle' = IF ("Initial" = "Open" /\ handshake) /\ SubSeq(queue', n + 1, Front(queue')) # << >>
                   THEN FALSE ELSE FALSE \/ ("Initial" = "Open" /\ pipeline' = << >>)
        /\ stream' = IF ~IsStarted("Initial") /\ pipeline' # << >> THEN Start("Initial") ELSE "Initial"
    BY FillEffect
  <2> QED
    BY <2>1, <2>2
<1>2. Front(queue') \in 0..Len(queue')
  BY FrontBounds
<1>3. pipeline' \in Seq(Write)
  BY <1>1, <1>2, Prefix
<1>4. WriteTypeOK'
  BY <1>1, <1>3, EmptySeq DEF WInv, WriteTypeOK, StreamState
<1>5. BatchIds'
  BY DEF WInv, BatchIds, Increasing
<1>6. PipelineFull'
  BY <1>1 DEF PipelineFull, Front
<1> QED
  BY <1>1, <1>4, <1>5, <1>6 DEF WInv, OpenOnly, Greeting, Answers, IdleEmpty

(* A new write goes to the end of the queue. *)
LEMMA AppendIncreasing ==
  ASSUME WInv, NEW w \in Write, w = issued + 1
  PROVE  LET q == Append(queue, w)
         IN  /\ q \in Seq(Write) /\ Increasing(q)
             /\ Len(q) = Len(queue) + 1
             /\ DOMAIN q = 1..Len(q)
             /\ \A i \in 1..Len(queue) : q[i] = queue[i]
             /\ \A i \in DOMAIN q : q[i] <= w
             /\ Front(queue) \in 0..Front(q)
             /\ SubSeq(q, 1, Front(queue)) = pipeline
<1> DEFINE q == Append(queue, w)
<1>1. queue \in Seq(Write) /\ pipeline \in Seq(Write) /\ issued \in Nat /\ w \in Nat
  BY WriteBounds DEF WInv, WriteTypeOK, Write
<1>2. /\ Len(queue) \in Nat /\ DOMAIN queue = 1..Len(queue)
      /\ Len(pipeline) = Front(queue) /\ Front(queue) \in 0..Len(queue)
      /\ \A i \in 1..Len(pipeline) : pipeline[i] = queue[i]
  BY PipelineFacts DEF WInv
<1>3. /\ q \in Seq(Write) /\ Len(q) = Len(queue) + 1 /\ q[Len(queue) + 1] = w
      /\ \A i \in 1..Len(queue) : q[i] = queue[i]
  BY <1>1, AppendProperties
<1> HIDE DEF q
<1>4. DOMAIN q = 1..Len(q)
  BY <1>3, LenProperties
<1>5. \A i \in 1..Len(queue) : queue[i] \in Nat /\ queue[i] <= issued
  <2>1. \A i \in 1..Len(queue) : queue[i] \in Write
    BY <1>1, ElementOfSeq
  <2> QED
    BY <1>2, <2>1, WriteBounds DEF WInv, BatchIds, Write
<1>6. Increasing(q)
  <2> SUFFICES ASSUME NEW i \in 1..Len(q), NEW j \in 1..Len(q), i < j PROVE q[i] < q[j]
    BY <1>4 DEF Increasing
  <2>1. CASE j = Len(queue) + 1
    BY <1>1, <1>2, <1>3, <1>5, <2>1
  <2>2. CASE j # Len(queue) + 1
    <3>1. i \in 1..Len(queue) /\ j \in 1..Len(queue)
      BY <1>2, <1>3, <2>2
    <3> QED
      BY <1>2, <1>3, <3>1 DEF WInv, BatchIds, Increasing
  <2> QED
    BY <2>1, <2>2
<1>7. \A i \in DOMAIN q : q[i] <= w
  BY <1>1, <1>2, <1>3, <1>4, <1>5
<1>8. Front(queue) \in 0..Front(q)
  BY <1>2, <1>3, PendingAssumption DEF Front
<1>9. SubSeq(q, 1, Front(queue)) = pipeline
  <2> DEFINE p == SubSeq(q, 1, Front(queue))
  <2>1. p \in Seq(Write) /\ Len(p) = Front(queue) /\ \A i \in 1..Front(queue) : p[i] = q[i]
    BY <1>2, <1>3, Prefix
  <2> HIDE DEF p
  <2>2. \A i \in 1..Len(p) : p[i] = pipeline[i]
    BY <1>2, <1>3, <2>1
  <2>3. p = pipeline
    BY <1>1, <1>2, <2>1, <2>2, SeqEqual
  <2> QED
    BY <2>3 DEF p
<1> QED
  BY <1>3, <1>4, <1>6, <1>7, <1>8, <1>9 DEF q

(* s is the requests r and after them the part n+1..m of the queue q. *)
Continues(s, r, q, n, m) ==
  /\ s \in Seq({Handshake} \cup Write)
  /\ Len(s) = Len(r) + (m - n)
  /\ \A i \in 1..Len(r) : s[i] = r[i]
  /\ \A i \in (Len(r) + 1)..Len(s) : s[i] = q[n + (i - Len(r))]

(* What sending this part leaves under way. *)
LEMMA Appended ==
  ASSUME NEW q \in Seq(Write), NEW r \in Seq({Handshake} \cup Write),
         NEW n \in 0..Len(q), NEW m \in n..Len(q)
  PROVE  /\ Continues(r \o SubSeq(q, n + 1, m), r, q, n, m)
         /\ SubSeq(q, n + 1, m) = << >> => n = m
<1> DEFINE T == {Handshake} \cup Write
           a == SubSeq(q, n + 1, m)
<1>1. n \in Nat /\ m \in Nat /\ n + 1 \in Int /\ m \in Int /\ Len(q) \in Nat /\ Len(r) \in Nat
  BY LenProperties
<1>2. \A i \in (n + 1)..m : q[i] \in T
  BY <1>1, ElementOfSeq
<1>3. /\ a \in Seq(T)
      /\ Len(a) = IF n + 1 <= m THEN m - (n + 1) + 1 ELSE 0
      /\ \A i \in 1..(m - (n + 1) + 1) : a[i] = q[(n + 1) + i - 1]
  BY <1>1, <1>2, SubSeqProperties
<1>4. Len(a) = m - n /\ \A i \in 1..(m - n) : a[i] = q[n + i]
  BY <1>1, <1>3
<1> HIDE DEF a
<1>5. a = << >> <=> n = m
  BY <1>1, <1>3, <1>4, EmptySeq
<1>6. /\ r \o a \in Seq(T) /\ Len(r \o a) = Len(r) + Len(a)
      /\ \A i \in 1..Len(r) + Len(a) : (r \o a)[i] = IF i <= Len(r) THEN r[i] ELSE a[i - Len(r)]
  BY <1>3, ConcatProperties
<1>7. \A i \in 1..Len(r) : (r \o a)[i] = r[i]
  BY <1>1, <1>4, <1>6
<1>8. ASSUME NEW i \in (Len(r) + 1)..Len(r \o a) PROVE (r \o a)[i] = q[n + (i - Len(r))]
  BY <1>1, <1>4, <1>6
<1>9. Continues(r \o a, r, q, n, m)
  BY <1>4, <1>6, <1>7, <1>8 DEF Continues
<1> QED
  BY <1>5, <1>9 DEF a

(* SyncEngine::WriteMutations *)
LEMMA WriteMutationsWInv ==
  ASSUME WInv, NEW w \in Write, WriteMutations(w)
  PROVE  WInv'
<1> DEFINE q == queue'
           n == Front(queue)
           m == Front(queue')
<1>1. /\ w = issued + 1 /\ issued' = w /\ queue' = Append(queue, w)
      /\ FillWritePipeline(q, pipeline, stream, requests, idle)
      /\ UNCHANGED <<handshake, responses, log, refused, faults>>
  BY DEF WriteMutations
<1>2. /\ q \in Seq(Write) /\ Increasing(q)
      /\ Len(q) = Len(queue) + 1
      /\ \A i \in 1..Len(queue) : q[i] = queue[i]
      /\ \A i \in DOMAIN q : q[i] <= w
      /\ n \in 0..m
      /\ SubSeq(q, 1, n) = pipeline
  BY <1>1, AppendIncreasing
<1>3. /\ Len(queue) \in Nat /\ Len(pipeline) = n /\ n \in 0..Len(queue)
      /\ \A i \in 1..Len(pipeline) : pipeline[i] = queue[i]
      /\ Len(requests) \in Nat /\ Len(responses) \in Nat
      /\ requests \in Seq({Handshake} \cup Write)
  BY PipelineFacts DEF WInv, WriteTypeOK
<1>4. m \in 0..Len(q) /\ m \in n..Len(q) /\ n \in 0..Len(q) /\ m > 0
  BY <1>2, <1>3, FrontBounds, PendingAssumption DEF Front
<1> DEFINE added == SubSeq(q, n + 1, m)
           send  == stream = "Open" /\ handshake
<1>5. /\ pipeline' = SubSeq(q, 1, m)
      /\ requests' = IF send THEN requests \o added ELSE requests
      /\ idle' = IF send /\ added # << >> THEN FALSE
                 ELSE idle \/ (stream = "Open" /\ pipeline' = << >>)
      /\ stream' = IF ~IsStarted(stream) /\ pipeline' # << >> THEN Start(stream) ELSE stream
  <2>1. FillWritePipeline(q, SubSeq(q, 1, n), stream, requests, idle)
    BY <1>1, <1>2
  <2> QED
    BY <1>2, <2>1, FillEffect
<1>6. pipeline' \in Seq(Write) /\ Len(pipeline') = m /\ \A i \in 1..m : pipeline'[i] = q[i]
  BY <1>2, <1>4, <1>5, Prefix
<1>7. \A i \in 1..n : pipeline'[i] = pipeline[i]
  BY <1>2, <1>3, <1>4, <1>6
<1>8. Continues(requests \o added, requests, q, n, m) /\ (added = << >> => n = m)
  BY <1>2, <1>3, <1>4, Appended
<1> HIDE DEF added
<1>9. stream \in StreamState /\ stream' \in StreamState /\ (stream = "Open" <=> stream' = "Open")
  BY <1>5 DEF WInv, WriteTypeOK, StreamState, IsStarted, Start
<1>10. idle' = FALSE
  <2>1. pipeline' # << >>
    BY <1>4, <1>6, EmptySeq
  <2>2. CASE ~idle
    BY <1>5, <2>1, <2>2
  <2>3. CASE idle
    <3>1. handshake /\ stream = "Open" /\ pipeline = << >>
      BY <2>3 DEF WInv, IdleEmpty, OpenOnly
    <3>2. n = 0
      BY <1>3, <3>1, EmptySeq
    <3> QED
      BY <1>4, <1>5, <1>8, <3>1, <3>2 DEF Continues
  <2> QED
    BY <2>2, <2>3
<1>11. WriteTypeOK'
  <2>1. requests' \in Seq({Handshake} \cup Write)
    BY <1>3, <1>5, <1>8 DEF Continues
  <2>2. issued' \in 0..MaxWrites
    BY <1>1, WriteBounds DEF Write
  <2> QED
    BY <1>1, <1>2, <1>6, <1>9, <1>10, <2>1, <2>2 DEF WInv, WriteTypeOK
<1>12. BatchIds'
  BY <1>1, <1>2 DEF BatchIds, Increasing
<1>13. PipelineFull'
  BY <1>5 DEF PipelineFull, Front
<1>14. OpenOnly' /\ Greeting'
  BY <1>1, <1>5, <1>9 DEF WInv, OpenOnly, Greeting
<1>15. Answers'
  <2> SUFFICES ASSUME handshake PROVE Answers'
    BY <1>1 DEF Answers
  <2>1. requests' = requests \o added
    BY <1>5 DEF WInv, OpenOnly
  <2>2. Len(responses') <= Len(pipeline')
    BY <1>1, <1>3, <1>4, <1>6 DEF WInv, Answers
  <2>3. \A i \in 1..Len(responses') :
          \/ responses'[i].kind = "ack" /\ responses'[i].write = pipeline'[i]
          \/ Refusal(i)' /\ i = Len(responses')
    BY <1>1, <1>3, <1>7 DEF WInv, Answers, Refusal
  <2>4. ASSUME Unrefused'
        PROVE  /\ Len(pipeline') = Len(responses') + Len(requests')
               /\ \A i \in 1..Len(requests') : requests'[i] = pipeline'[Len(responses') + i]
    <3>1. /\ n = Len(responses) + Len(requests)
          /\ \A i \in 1..Len(requests) : requests[i] = pipeline[Len(responses) + i]
      BY <1>1, <1>3, <2>4 DEF WInv, Answers, Unrefused, Refusal
    <3>2. Len(pipeline') = Len(responses') + Len(requests')
      BY <1>1, <1>3, <1>4, <1>6, <1>8, <2>1, <3>1 DEF Continues
    <3>3. ASSUME NEW i \in 1..Len(requests')
          PROVE  requests'[i] = pipeline'[Len(responses') + i]
      <4>1. CASE i <= Len(requests)
        <5>1. i \in 1..Len(requests) /\ Len(responses) + i \in 1..n
          BY <1>3, <3>1, <4>1
        <5>2. requests'[i] = requests[i] /\ requests[i] = pipeline[Len(responses) + i]
          BY <1>8, <2>1, <3>1, <5>1 DEF Continues
        <5> QED
          BY <1>1, <1>7, <5>1, <5>2
      <4>2. CASE i > Len(requests)
        <5>1. i \in (Len(requests) + 1)..Len(requests \o added)
          BY <1>3, <2>1, <4>2
        <5>2. requests'[i] = q[n + (i - Len(requests))]
          BY <1>8, <2>1, <5>1 DEF Continues
        <5>3. n + (i - Len(requests)) = Len(responses) + i /\ Len(responses) + i \in 1..m
          BY <1>3, <1>4, <1>8, <3>1, <5>1 DEF Continues
        <5> QED
          BY <1>1, <1>6, <5>2, <5>3
      <4> QED
        BY <1>3, <4>1, <4>2
    <3> QED
      BY <3>2, <3>3
  <2> QED
    BY <2>2, <2>3, <2>4 DEF Answers
<1>16. IdleEmpty'
  BY <1>10 DEF IdleEmpty
<1> QED
  BY <1>11, <1>12, <1>13, <1>14, <1>15, <1>16 DEF WInv

(* The first write of the pipeline is the first one of the queue. *)
LEMMA FirstDone ==
  ASSUME WInv, pipeline # << >>
  PROVE  /\ queue # << >>
         /\ Head(pipeline) = queue[1] /\ Head(pipeline) = Head(queue)
         /\ RemoveMutationBatch(queue, Head(pipeline)) = Tail(queue)
         /\ Tail(queue) \in Seq(Write) /\ Increasing(Tail(queue))
         /\ \A i \in DOMAIN Tail(queue) : Tail(queue)[i] <= issued
         /\ Len(Tail(queue)) = Len(queue) - 1
         /\ \A i \in 1..Len(Tail(queue)) : Tail(queue)[i] = queue[i + 1]
         /\ Front(queue) > 0
         /\ Front(queue) - 1 \in 0..Front(Tail(queue))
         /\ Tail(pipeline) = SubSeq(Tail(queue), 1, Front(queue) - 1)
<1>1. queue # << >> /\ queue \in Seq(Write) /\ Increasing(queue)
      /\ Len(queue) \in Nat /\ DOMAIN queue = 1..Len(queue)
  BY PipelineFacts DEF WInv, WriteTypeOK, BatchIds
<1>2. /\ Front(queue) > 0 /\ Front(queue) - 1 \in 0..Front(Tail(queue))
      /\ Tail(pipeline) = SubSeq(Tail(queue), 1, Front(queue) - 1)
      /\ Head(pipeline) = queue[1]
  BY <1>1, TailOfFront DEF WInv, PipelineFull
<1>3. /\ RemoveMutationBatch(queue, queue[1]) = Tail(queue)
      /\ Tail(queue) \in Seq(Write) /\ Increasing(Tail(queue))
      /\ Len(Tail(queue)) = Len(queue) - 1
      /\ \A i \in 1..Len(Tail(queue)) : Tail(queue)[i] = queue[i + 1]
  BY <1>1, RemoveFirst
<1>4. DOMAIN Tail(queue) = 1..Len(Tail(queue))
  BY <1>3, LenProperties
<1>5. \A i \in DOMAIN Tail(queue) : Tail(queue)[i] <= issued
  BY <1>1, <1>3, <1>4 DEF WInv, BatchIds
<1>6. Head(queue) = queue[1]
  BY <1>1
<1> QED
  BY <1>1, <1>2, <1>3, <1>5, <1>6

(* A response after the handshake is about a write of the pipeline, and    *)
(* the stream is open and not idle.                                        *)
LEMMA ResponseFacts ==
  ASSUME WInv, responses # << >>, handshake
  PROVE  /\ pipeline # << >> /\ stream = "Open" /\ idle = FALSE
         /\ Head(responses) = responses[1] /\ Len(responses) \in Nat \ {0}
         /\ Tail(responses) \in Seq(Response)
         /\ Len(Tail(responses)) = Len(responses) - 1
         /\ \A i \in 1..Len(Tail(responses)) : Tail(responses)[i] = responses[i + 1]
<1>1. responses \in Seq(Response) /\ pipeline \in Seq(Write) /\ idle \in BOOLEAN
  BY DEF WInv, WriteTypeOK
<1>2. Len(responses) \in Nat \ {0} /\ Head(responses) = responses[1]
  BY <1>1, EmptySeq
<1>3. /\ Tail(responses) \in Seq(Response) /\ Len(Tail(responses)) = Len(responses) - 1
      /\ \A i \in 1..Len(Tail(responses)) : Tail(responses)[i] = responses[i + 1]
  BY <1>1, HeadTailProperties
<1>4. Len(pipeline) >= Len(responses) /\ Len(pipeline) \in Nat
  BY <1>1, LenProperties DEF WInv, Answers
<1>5. pipeline # << >>
  BY <1>2, <1>4, EmptySeq
<1>6. idle = FALSE
  BY <1>1, <1>5 DEF WInv, IdleEmpty
<1> QED
  BY <1>2, <1>3, <1>5, <1>6 DEF WInv, OpenOnly

(* RemoteStore::OnWriteStreamMutationResult *)
LEMMA MutationResultWInv ==
  ASSUME WInv, OnWriteStreamMutationResult
  PROVE  WInv'
<1> DEFINE q == queue'
           n == Front(queue) - 1
           m == Front(queue')
<1>1. /\ responses # << >> /\ handshake /\ Head(responses).kind = "ack"
      /\ responses' = Tail(responses)
      /\ queue' = RemoveMutationBatch(queue, Head(pipeline))
      /\ FillWritePipeline(queue', Tail(pipeline), stream, requests, idle)
      /\ UNCHANGED <<handshake, log, issued, refused, faults>>
  BY DEF OnWriteStreamMutationResult
<1>2. /\ pipeline # << >> /\ stream = "Open" /\ idle = FALSE
      /\ Head(responses) = responses[1] /\ Len(responses) \in Nat \ {0}
      /\ responses' \in Seq(Response)
      /\ Len(responses') = Len(responses) - 1
      /\ \A i \in 1..Len(responses') : responses'[i] = responses[i + 1]
  BY <1>1, ResponseFacts
<1>3. /\ q = Tail(queue) /\ q \in Seq(Write) /\ Increasing(q)
      /\ \A i \in DOMAIN q : q[i] <= issued
      /\ Len(q) = Len(queue) - 1 /\ \A i \in 1..Len(q) : q[i] = queue[i + 1]
      /\ n \in 0..m /\ Tail(pipeline) = SubSeq(q, 1, n)
  BY <1>1, <1>2, FirstDone
<1>4. /\ Len(queue) \in Nat /\ n \in Int /\ Len(pipeline) = n + 1 /\ n + 1 \in 0..Len(queue)
      /\ \A i \in 1..Len(pipeline) : pipeline[i] = queue[i]
      /\ Len(requests) \in Nat /\ requests \in Seq({Handshake} \cup Write)
  BY PipelineFacts DEF WInv, WriteTypeOK
<1>5. m \in 0..Len(q) /\ m \in n..Len(q) /\ n \in 0..Len(q) /\ n \in Nat /\ m \in Nat
  <2>1. m \in 0..Len(q)
    BY <1>3, FrontBounds
  <2> HIDE DEF n, m
  <2> QED
    BY <1>3, <1>4, <2>1
<1> DEFINE added == SubSeq(q, n + 1, m)
<1>6. /\ pipeline' = SubSeq(q, 1, m)
      /\ requests' = requests \o added
      /\ idle' = IF added # << >> THEN FALSE ELSE pipeline' = << >>
      /\ stream' = "Open"
  <2>1. FillWritePipeline(q, SubSeq(q, 1, n), stream, requests, idle)
    BY <1>1, <1>3
  <2>2. IsStarted(stream)
    BY <1>2 DEF IsStarted
  <2> QED
    BY <1>1, <1>2, <1>3, <2>1, <2>2, FillEffect
<1>7. pipeline' \in Seq(Write) /\ Len(pipeline') = m /\ \A i \in 1..m : pipeline'[i] = q[i]
  BY <1>3, <1>5, <1>6, Prefix
<1>8. Continues(requests', requests, q, n, m) /\ (added = << >> => n = m)
  BY <1>3, <1>4, <1>5, <1>6, Appended
<1> HIDE DEF added, n, m
<1>9. \A i \in 1..n : pipeline'[i] = pipeline[i + 1]
  <2> SUFFICES ASSUME NEW i \in 1..n PROVE pipeline'[i] = pipeline[i + 1]
    OBVIOUS
  <2>1. i \in 1..m /\ i \in 1..Len(q) /\ i + 1 \in 1..Len(pipeline)
    BY <1>3, <1>4, <1>5
  <2> QED
    BY <1>3, <1>4, <1>7, <2>1
<1>10. WriteTypeOK'
  <2>1. requests' \in Seq({Handshake} \cup Write) /\ idle' \in BOOLEAN
    BY <1>6, <1>8 DEF Continues
  <2> QED
    BY <1>1, <1>2, <1>3, <1>6, <1>7, <2>1 DEF WInv, WriteTypeOK, StreamState
<1>11. BatchIds'
  BY <1>1, <1>3 DEF BatchIds, Increasing
<1>12. PipelineFull'
  BY <1>6 DEF PipelineFull, Front, m
<1>13. OpenOnly' /\ Greeting'
  BY <1>1, <1>6 DEF OpenOnly, Greeting
<1>19. /\ Len(responses) \in Nat /\ Len(responses') = Len(responses) - 1
       /\ Len(responses) <= n + 1 /\ n <= m /\ n \in Nat /\ m \in Nat /\ Len(requests) \in Nat
  <2>1. Len(responses) <= Len(pipeline)
    BY <1>1 DEF WInv, Answers
  <2> QED
    BY <1>2, <1>4, <1>5, <2>1
<1>14. Len(responses') <= Len(pipeline')
  BY <1>7, <1>19
<1>15. ASSUME NEW i \in 1..Len(responses')
       PROVE  \/ responses'[i].kind = "ack" /\ responses'[i].write = pipeline'[i]
              \/ Refusal(i)' /\ i = Len(responses')
  <2>1. i + 1 \in 1..Len(responses) /\ i \in 1..n /\ responses'[i] = responses[i + 1]
    BY <1>2, <1>19
  <2>2. \/ responses[i + 1].kind = "ack" /\ responses[i + 1].write = pipeline[i + 1]
        \/ responses[i + 1].kind = "refused" /\ i + 1 = Len(responses)
    BY <1>1, <2>1 DEF WInv, Answers, Refusal
  <2>3. i + 1 = Len(responses) => i = Len(responses')
    BY <1>2
  <2> QED
    BY <1>9, <2>1, <2>2, <2>3 DEF Refusal
<1>16. ASSUME Unrefused'
       PROVE  /\ Len(pipeline') = Len(responses') + Len(requests')
              /\ \A i \in 1..Len(requests') : requests'[i] = pipeline'[Len(responses') + i]
  <2>1. Unrefused
    <3> SUFFICES ASSUME NEW i \in 1..Len(responses) PROVE responses[i].kind # "refused"
      BY DEF Unrefused, Refusal
    <3>1. CASE i = 1
      BY <1>1, <1>2, <3>1
    <3>2. CASE i # 1
      <4>1. i - 1 \in 1..Len(responses') /\ (i - 1) + 1 = i
        BY <1>2, <3>2
      <4>2. responses'[i - 1] = responses[i]
        BY <1>2, <4>1
      <4> QED
        BY <1>16, <4>1, <4>2 DEF Unrefused, Refusal
    <3> QED
      BY <3>1, <3>2
  <2>2. /\ n + 1 = Len(responses) + Len(requests)
        /\ \A i \in 1..Len(requests) : requests[i] = pipeline[Len(responses) + i]
    BY <1>1, <1>4, <2>1 DEF WInv, Answers
  <2>3. Len(requests') = Len(requests) + (m - n)
    BY <1>8 DEF Continues
  <2>4. Len(pipeline') = Len(responses') + Len(requests')
    BY <1>7, <1>19, <2>2, <2>3
  <2>5. ASSUME NEW i \in 1..Len(requests')
        PROVE  requests'[i] = pipeline'[Len(responses') + i]
    <3>1. CASE i <= Len(requests)
      <4>1. /\ i \in 1..Len(requests) /\ Len(responses') + i \in 1..n
            /\ (Len(responses') + i) + 1 = Len(responses) + i
        BY <1>19, <2>2, <3>1
      <4>2. requests'[i] = requests[i] /\ requests[i] = pipeline[Len(responses) + i]
        BY <1>8, <2>2, <4>1 DEF Continues
      <4> QED
        BY <1>9, <4>1, <4>2
    <3>2. CASE i > Len(requests)
      <4>1. i \in (Len(requests) + 1)..Len(requests')
        BY <1>4, <3>2
      <4>2. requests'[i] = q[n + (i - Len(requests))]
        BY <1>8, <4>1 DEF Continues
      <4>3. n + (i - Len(requests)) = Len(responses') + i /\ Len(responses') + i \in 1..m
        <5>1. n + 1 = Len(responses) + Len(requests)
          BY <2>2
        <5>2. i \in Nat /\ i > Len(requests) /\ i <= Len(requests) + (m - n)
          BY <1>19, <2>3, <4>1
        <5> QED
          BY <1>19, <5>1, <5>2
      <4> QED
        BY <1>7, <4>2, <4>3
    <3> QED
      BY <1>4, <3>1, <3>2
  <2> QED
    BY <2>4, <2>5
<1>17. Answers'
  BY <1>14, <1>15, <1>16 DEF Answers
<1>18. IdleEmpty'
  BY <1>1, <1>6 DEF IdleEmpty
<1> QED
  BY <1>10, <1>11, <1>12, <1>13, <1>17, <1>18 DEF WInv

(* RemoteStore::HandleWriteError *)
LEMMA RefusedWInv ==
  ASSUME WInv, OnWriteStreamRefused
  PROVE  WInv'
<1>1. pipeline # << >>
  BY ResponseFacts DEF OnWriteStreamRefused
<1>2. queue' = Tail(queue)
  BY <1>1, FirstDone DEF OnWriteStreamRefused
<1>3. Head(pipeline) \in Write
  BY <1>1, HeadTailProperties DEF WInv, WriteTypeOK
<1>4. refused' \in SUBSET Write
  BY <1>3 DEF OnWriteStreamRefused, WInv, WriteTypeOK
<1>5. FillWritePipeline(queue', SubSeq(queue', 1, Front(queue) - 1), "Initial", << >>, FALSE)
  BY <1>1, <1>2, FirstDone DEF OnWriteStreamRefused
<1>6. /\ queue' \in Seq(Write) /\ Increasing(queue')
      /\ \A i \in DOMAIN queue' : queue'[i] <= issued
      /\ Front(queue) - 1 \in 0..Front(queue')
  BY <1>1, <1>2, FirstDone
<1>7. faults' \in 0..MaxFaults /\ handshake' = FALSE /\ responses' = << >> /\ UNCHANGED <<log, issued>>
  BY DEF OnWriteStreamRefused, WInv, WriteTypeOK
<1> QED
  BY <1>4, <1>5, <1>6, <1>7, RestartedWInv

(* RemoteStore::RestartNetwork, and a relaunch *)
LEMMA RestartWInv ==
  ASSUME WInv, RestartWriteStream
  PROVE  WInv'
<1>1. UNCHANGED <<queue, log, issued, refused>> /\ handshake' = FALSE /\ responses' = << >>
  BY DEF RestartWriteStream
<1>2. queue' \in Seq(Write) /\ Increasing(queue') /\ \A i \in DOMAIN queue' : queue'[i] <= issued
  BY <1>1 DEF WInv, WriteTypeOK, BatchIds
<1>3. SubSeq(queue', 1, 0) = << >> /\ 0 \in 0..Front(queue')
  BY <1>2, FrontBounds, SubSeqEmpty
<1>4. FillWritePipeline(queue', SubSeq(queue', 1, 0), "Initial", << >>, FALSE)
  BY <1>1, <1>3 DEF RestartWriteStream
<1>5. faults' \in 0..MaxFaults /\ refused' \in SUBSET Write
  BY <1>1, WriteBounds DEF RestartWriteStream, WInv, WriteTypeOK
<1> QED
  BY <1>1, <1>2, <1>3, <1>4, <1>5, RestartedWInv

(* The end of a stream, by an error or by the idle timer. *)
LEMMA CloseWInv ==
  ASSUME WInv, OnWriteStreamClose \/ OnIdleTimeout
  PROVE  WInv'
<1>1. stream' \in StreamState \ {"Open"}
  BY DEF OnWriteStreamClose, OnIdleTimeout, StreamState, Start
<1>2. faults' \in 0..MaxFaults
  BY WriteBounds DEF OnWriteStreamClose, OnIdleTimeout, WInv, WriteTypeOK
<1> QED
  BY <1>1, <1>2, ClosedWInv DEF OnWriteStreamClose, OnIdleTimeout

(* The stream on its way to its handshake. *)
LEMMA OpenWInv ==
  ASSUME WInv, OnWriteStreamOpen \/ OnBackoffElapsed
  PROVE  WInv'
<1>1. CASE OnBackoffElapsed
  BY <1>1 DEF OnBackoffElapsed, WInv, WriteTypeOK, StreamState, BatchIds, Increasing,
              PipelineFull, Front, OpenOnly, Greeting, Answers, IdleEmpty
<1>2. CASE OnWriteStreamOpen
  <2>1. stream = "Starting" /\ stream' = "Open" /\ requests' = Append(requests, Handshake)
        /\ UNCHANGED <<queue, pipeline, handshake, idle, responses, log, issued, refused, faults>>
    BY <1>2 DEF OnWriteStreamOpen
  <2>2. requests = << >> /\ responses = << >> /\ handshake = FALSE
    BY <2>1 DEF WInv, OpenOnly, WriteTypeOK
  <2>3. requests' = << Handshake >> /\ requests' \in Seq({Handshake} \cup Write)
    BY <2>1, <2>2
  <2>4. WriteTypeOK'
    BY <2>1, <2>3 DEF WInv, WriteTypeOK, StreamState
  <2> QED
    BY <2>1, <2>2, <2>3, <2>4 DEF WInv, BatchIds, Increasing, PipelineFull, Front, OpenOnly,
                                  Greeting, Answers, IdleEmpty
<1> QED
  BY <1>1, <1>2

(* RemoteStore::OnWriteStreamHandshakeComplete: the pipeline is sent. *)
LEMMA HandshakeWInv ==
  ASSUME WInv, OnWriteStreamHandshakeComplete
  PROVE  WInv'
<1>1. /\ responses # << >> /\ handshake = FALSE
      /\ responses' = Tail(responses) /\ handshake' = TRUE
      /\ requests' = requests \o pipeline /\ idle' = (idle /\ pipeline = << >>)
      /\ UNCHANGED <<queue, pipeline, stream, log, issued, refused, faults>>
  BY DEF OnWriteStreamHandshakeComplete, WInv, WriteTypeOK
<1>2. stream = "Open" /\ requests = << >> /\ responses = << [kind |-> "handshake"] >>
  BY <1>1 DEF WInv, OpenOnly, Greeting
<1>3. responses' = << >>
  BY <1>1, <1>2
<1>4. pipeline \in Seq(Write) /\ Len(pipeline) \in Nat
  BY LenProperties DEF WInv, WriteTypeOK
<1>5. requests' = pipeline
  BY <1>1, <1>2, <1>4, ConcatEmptySeq
<1>6. pipeline \in Seq({Handshake} \cup Write)
  BY <1>4, SeqMonotonic
<1>7. idle' = FALSE
  BY <1>1 DEF WInv, WriteTypeOK, IdleEmpty
<1>8. WriteTypeOK'
  <2>1. responses' \in Seq(Response)
    BY <1>3, EmptySeq
  <2> QED
    BY <1>1, <1>5, <1>6, <1>7, <2>1 DEF WInv, WriteTypeOK
<1>9. Answers'
  <2>1. Len(responses') = 0
    BY <1>3, EmptySeq
  <2>2. Len(pipeline') = Len(pipeline) /\ Len(requests') = Len(pipeline)
    BY <1>1, <1>5
  <2>3. Len(responses') <= Len(pipeline') /\ Len(pipeline') = Len(responses') + Len(requests')
    BY <1>4, <2>1, <2>2
  <2>4. \A i \in 1..Len(requests') : requests'[i] = pipeline'[Len(responses') + i]
    <3> SUFFICES ASSUME NEW i \in 1..Len(requests')
                 PROVE  requests'[i] = pipeline'[Len(responses') + i]
      OBVIOUS
    <3>1. Len(responses') + i = i
      BY <1>4, <2>1, <2>2
    <3>2. requests' = pipeline'
      BY <1>1, <1>5
    <3> QED
      BY <3>1, <3>2
  <2>5. 1..Len(responses') = {}
    BY <2>1
  <2> QED
    BY <2>3, <2>4, <2>5 DEF Answers
<1> QED
  BY <1>1, <1>2, <1>7, <1>8, <1>9 DEF WInv, BatchIds, Increasing, PipelineFull, Front, OpenOnly,
                                      Greeting, IdleEmpty

(* The server reads a request: after the handshake only writes are sent.   *)
LEMMA ReadingFacts ==
  ASSUME WInv, NEW r, Reading(r)
  PROVE  /\ stream = "Open" /\ requests # << >>
         /\ Unrefused
         /\ r \in Write => handshake
         /\ r = Handshake => handshake = FALSE
         /\ handshake => /\ Len(responses) + 1 <= Len(pipeline)
                         /\ r = pipeline[Len(responses) + 1]
<1>1. requests \in Seq({Handshake} \cup Write) /\ responses \in Seq(Response)
      /\ requests # << >> /\ r = Head(requests) /\ handshake \in BOOLEAN
      /\ pipeline \in Seq(Write)
  BY DEF Reading, WInv, WriteTypeOK
<1>2. stream = "Open"
  BY <1>1 DEF WInv, OpenOnly
<1>3. Unrefused
  <2>1. DOMAIN responses = 1..Len(responses)
    BY <1>1, LenProperties
  <2> QED
    BY <2>1 DEF Reading, Unrefused, Refusal
<1>4. Len(requests) \in Nat \ {0} /\ r = requests[1] /\ Len(responses) \in Nat /\ Len(pipeline) \in Nat
  BY <1>1, EmptySeq, LenProperties
<1>5. ASSUME handshake
      PROVE  Len(responses) + 1 <= Len(pipeline) /\ r = pipeline[Len(responses) + 1]
  <2>1. /\ Len(pipeline) = Len(responses) + Len(requests)
        /\ \A i \in 1..Len(requests) : requests[i] = pipeline[Len(responses) + i]
    BY <1>3, <1>5 DEF WInv, Answers
  <2> QED
    BY <1>4, <2>1
<1>6. handshake => r \in Write
  <2>1. handshake => Len(responses) + 1 \in 1..Len(pipeline)
    BY <1>4, <1>5
  <2> QED
    BY <1>1, <1>5, <2>1, ElementOfSeq
<1>7. Handshake \notin Write
  BY DEF Handshake, Write
<1>8. ~handshake => r = Handshake
  <2>1. ~handshake => requests = << Handshake >>
    BY <1>1, <1>2 DEF WInv, Greeting
  <2> QED
    BY <1>1, <2>1
<1> QED
  BY <1>1, <1>2, <1>3, <1>5, <1>6, <1>7, <1>8

(* What remains of a sequence of requests. *)
LEMMA RestOfRequests ==
  ASSUME WInv, requests # << >>
  PROVE  /\ Tail(requests) \in Seq({Handshake} \cup Write)
         /\ Len(requests) \in Nat \ {0} /\ Len(Tail(requests)) = Len(requests) - 1
         /\ \A i \in 1..Len(Tail(requests)) : Tail(requests)[i] = requests[i + 1]
BY HeadTailProperties, EmptySeq DEF WInv, WriteTypeOK

(* The server answers with the response x. *)
LEMMA Responded ==
  ASSUME WInv, NEW x \in Response
  PROVE  /\ Append(responses, x) \in Seq(Response)
         /\ Len(responses) \in Nat /\ Len(Append(responses, x)) = Len(responses) + 1
         /\ \A i \in 1..Len(responses) : Append(responses, x)[i] = responses[i]
         /\ Append(responses, x)[Len(responses) + 1] = x
BY AppendProperties, LenProperties DEF WInv, WriteTypeOK

(* The server answers the handshake. *)
LEMMA ServerHandshakeWInv ==
  ASSUME WInv, ServerHandshake
  PROVE  WInv'
<1>1. /\ Reading(Handshake) /\ requests' = Tail(requests)
      /\ responses' = Append(responses, [kind |-> "handshake"])
      /\ UNCHANGED <<queue, pipeline, stream, handshake, idle, log, issued, refused, faults>>
  BY DEF ServerHandshake
<1>2. stream = "Open" /\ handshake = FALSE /\ requests # << >>
  BY <1>1, ReadingFacts
<1>3. requests = << Handshake >> /\ responses = << >>
  BY <1>2 DEF WInv, Greeting
<1>4. requests' = << >> /\ responses' = << [kind |-> "handshake"] >>
  BY <1>1, <1>3
<1>5. requests' \in Seq({Handshake} \cup Write)
  BY <1>4, EmptySeq
<1>6. responses' \in Seq(Response)
  <2>1. [kind |-> "handshake"] \in Response
    BY DEF Response
  <2> QED
    BY <1>1, <2>1, Responded
<1>7. WriteTypeOK'
  BY <1>1, <1>5, <1>6 DEF WInv, WriteTypeOK
<1> QED
  BY <1>1, <1>2, <1>4, <1>7 DEF WInv, BatchIds, Increasing, PipelineFull, Front, OpenOnly,
                                Greeting, Answers, IdleEmpty

(* The server applies a write. *)
LEMMA ServerCommitWInv ==
  ASSUME WInv, NEW w \in Write, ServerCommit(w)
  PROVE  WInv'
<1> DEFINE x == [kind |-> "ack", write |-> w, version |-> Len(log')]
<1>1. /\ Reading(w) /\ log' = Append(log, w) /\ requests' = Tail(requests)
      /\ responses' = Append(responses, x)
      /\ UNCHANGED <<queue, pipeline, stream, handshake, idle, issued, refused, faults>>
  BY DEF ServerCommit
<1>2. /\ stream = "Open" /\ requests # << >> /\ Unrefused /\ handshake
      /\ Len(responses) + 1 <= Len(pipeline) /\ w = pipeline[Len(responses) + 1]
  BY <1>1, ReadingFacts
<1>3. log' \in Seq(Write \cup Other) /\ Len(log') \in Nat
  BY <1>1, AppendProperties, LenProperties DEF WInv, WriteTypeOK
<1>4. x \in Response /\ x.kind = "ack" /\ x.write = w
  BY <1>3 DEF Response
<1> HIDE DEF x
<1>5. /\ responses' \in Seq(Response) /\ Len(responses) \in Nat /\ Len(responses') = Len(responses) + 1
      /\ \A i \in 1..Len(responses) : responses'[i] = responses[i]
      /\ responses'[Len(responses) + 1] = x
  BY <1>1, <1>4, Responded
<1>6. /\ requests' \in Seq({Handshake} \cup Write)
      /\ Len(requests) \in Nat \ {0} /\ Len(requests') = Len(requests) - 1
      /\ \A i \in 1..Len(requests') : requests'[i] = requests[i + 1]
  BY <1>1, <1>2, RestOfRequests
<1>7. WriteTypeOK'
  BY <1>1, <1>3, <1>5, <1>6 DEF WInv, WriteTypeOK
<1>8. Answers'
  <2>1. /\ Len(pipeline) = Len(responses) + Len(requests)
        /\ \A i \in 1..Len(requests) : requests[i] = pipeline[Len(responses) + i]
        /\ \A i \in 1..Len(responses) : responses[i].kind = "ack" /\ responses[i].write = pipeline[i]
    BY <1>2 DEF WInv, Answers, Unrefused
  <2>2. \A i \in 1..Len(responses') : responses'[i].kind = "ack" /\ responses'[i].write = pipeline[i]
    BY <1>2, <1>4, <1>5, <2>1
  <2>3. Len(pipeline) = Len(responses') + Len(requests') /\ Len(responses') <= Len(pipeline)
    BY <1>5, <1>6, <2>1
  <2>4. ASSUME NEW i \in 1..Len(requests')
        PROVE  requests'[i] = pipeline[Len(responses') + i]
    <3>1. i + 1 \in 1..Len(requests) /\ Len(responses) + (i + 1) = Len(responses') + i
      BY <1>5, <1>6
    <3> QED
      BY <1>6, <2>1, <3>1
  <2> QED
    BY <1>1, <2>2, <2>3, <2>4 DEF Answers
<1> QED
  BY <1>1, <1>2, <1>7, <1>8 DEF WInv, BatchIds, Increasing, PipelineFull, Front, OpenOnly,
                                Greeting, IdleEmpty

(* The server refuses a write and ends the stream. *)
LEMMA ServerRefuseWInv ==
  ASSUME WInv, NEW w \in Write, ServerRefuse(w)
  PROVE  WInv'
<1> DEFINE x == [kind |-> "refused"]
<1>1. /\ Reading(w) /\ requests' = << >> /\ responses' = Append(responses, x)
      /\ UNCHANGED <<queue, pipeline, stream, handshake, idle, log, issued, refused, faults>>
  BY DEF ServerRefuse
<1>2. stream = "Open" /\ Unrefused /\ handshake /\ Len(responses) + 1 <= Len(pipeline)
  BY <1>1, ReadingFacts
<1>3. x \in Response /\ x.kind = "refused"
  BY DEF Response
<1> HIDE DEF x
<1>4. /\ responses' \in Seq(Response) /\ Len(responses) \in Nat /\ Len(responses') = Len(responses) + 1
      /\ \A i \in 1..Len(responses) : responses'[i] = responses[i]
      /\ responses'[Len(responses) + 1] = x
  BY <1>1, <1>3, Responded
<1>5. WriteTypeOK'
  <2>1. requests' \in Seq({Handshake} \cup Write)
    BY <1>1, EmptySeq
  <2> QED
    BY <1>1, <1>4, <2>1 DEF WInv, WriteTypeOK
<1>6. Answers'
  <2>1. \A i \in 1..Len(responses) : responses[i].kind = "ack" /\ responses[i].write = pipeline[i]
    BY <1>2 DEF WInv, Answers, Unrefused
  <2>2. Len(responses') <= Len(pipeline') /\ ~Unrefused'
    BY <1>1, <1>2, <1>3, <1>4 DEF Unrefused, Refusal
  <2>3. ASSUME NEW i \in 1..Len(responses')
        PROVE  \/ responses'[i].kind = "ack" /\ responses'[i].write = pipeline'[i]
               \/ Refusal(i)' /\ i = Len(responses')
    <3>1. CASE i = Len(responses')
      BY <1>3, <1>4, <3>1 DEF Refusal
    <3>2. CASE i # Len(responses')
      BY <1>1, <1>4, <2>1, <3>2
    <3> QED
      BY <3>1, <3>2
  <2> QED
    BY <2>2, <2>3 DEF Answers
<1> QED
  BY <1>1, <1>2, <1>5, <1>6 DEF WInv, BatchIds, Increasing, PipelineFull, Front, OpenOnly,
                                Greeting, IdleEmpty

(* Another client's write is applied. *)
LEMMA ServerOtherWInv ==
  ASSUME WInv, NEW o \in Other, ServerOther(o)
  PROVE  WInv'
<1>1. log' \in Seq(Write \cup Other)
  BY AppendProperties DEF ServerOther, WInv, WriteTypeOK
<1> QED
  BY <1>1 DEF ServerOther, WInv, WriteTypeOK, BatchIds, Increasing, PipelineFull, Front,
              OpenOnly, Greeting, Answers, Unrefused, Refusal, IdleEmpty

(* Every step of the write half keeps the invariant. *)
LEMMA NextWInv == WInv /\ [WriteNext]_writeVars => WInv'
<1> SUFFICES ASSUME WInv, [WriteNext]_writeVars PROVE WInv'
  OBVIOUS
<1>1. CASE UNCHANGED writeVars
  BY <1>1 DEF writeVars, WInv, WriteTypeOK, BatchIds, Increasing, PipelineFull, Front,
              OpenOnly, Greeting, Answers, Unrefused, Refusal, IdleEmpty
<1>2. CASE WriteNext
  BY <1>2, WriteMutationsWInv, ServerCommitWInv, ServerRefuseWInv, OpenWInv, HandshakeWInv,
     MutationResultWInv, RefusedWInv, CloseWInv, RestartWInv, ServerHandshakeWInv,
     ServerOtherWInv DEF WriteNext
<1> QED
  BY <1>1, <1>2

(* The invariant holds in every reachable state. *)
LEMMA WriteInvariance == WriteSpec => []WInv
BY InitWInv, NextWInv, PTL DEF WriteSpec
-----------------------------------------------------------------------------
(* What follows from the invariant *)

(* How many writes of the pipeline the server has applied. *)
Applied ==
  IF ~handshake THEN 0
  ELSE IF Unrefused THEN Len(responses) ELSE Len(responses) - 1

(* A refusal under way is the last response, and there is none before it. *)
LEMMA LastResponse ==
  ASSUME WInv, handshake, responses # << >>
  PROVE  /\ Len(responses) \in Nat \ {0}
         /\ \A i \in 1..Len(responses) - 1 :
              responses[i].kind = "ack" /\ responses[i].write = pipeline[i]
         /\ IF Unrefused THEN /\ responses[Len(responses)].kind = "ack"
                              /\ responses[Len(responses)].write = pipeline[Len(responses)]
            ELSE responses[Len(responses)].kind = "refused"
<1> DEFINE n == Len(responses)
<1>1. n \in Nat \ {0}
  BY EmptySeq, LenProperties DEF WInv, WriteTypeOK
<1>2. \A i \in 1..n : \/ responses[i].kind = "ack" /\ responses[i].write = pipeline[i]
                      \/ responses[i].kind = "refused" /\ i = n
  BY DEF WInv, Answers, Refusal
<1>3. n \in 1..n /\ \A i \in 1..n - 1 : i \in 1..n /\ i # n
  BY <1>1
<1>4. Unrefused => responses[n].kind # "refused"
  BY <1>3 DEF Unrefused, Refusal
<1>5. ~Unrefused => responses[n].kind = "refused"
  BY <1>2 DEF Unrefused, Refusal
<1> QED
  BY <1>1, <1>2, <1>3, <1>4, <1>5

(* The acknowledgements under way are the first Applied responses, and say *)
(* which writes of the pipeline they are about.                            *)
LEMMA AckFacts ==
  ASSUME WInv
  PROVE  /\ Acks \in Seq(Response) /\ Len(Acks) = Applied /\ Applied \in 0..Len(responses)
         /\ handshake => (Acks = responses <=> Unrefused)
         /\ handshake => \A i \in 1..Applied : Acks[i].kind = "ack" /\ Acks[i].write = pipeline[i]
<1>1. responses \in Seq(Response) /\ Len(responses) \in Nat
  BY LenProperties DEF WInv, WriteTypeOK
<1>2. CASE responses = << >>
  <2>1. Len(responses) = 0 /\ Unrefused /\ Acks = responses
    BY <1>2, EmptySeq DEF Unrefused, Acks
  <2>2. Applied = 0 /\ 1..Applied = {}
    BY <2>1 DEF Applied
  <2> QED
    BY <1>1, <2>1, <2>2
<1>3. CASE responses # << >> /\ ~handshake
  <2>1. responses = << [kind |-> "handshake"] >>
    BY <1>3 DEF WInv, OpenOnly, Greeting
  <2>2. Len(responses) = 1 /\ responses[1].kind = "handshake"
    BY <2>1
  <2>3. Acks = SubSeq(responses, 1, 0)
    BY <1>3, <2>2 DEF Acks
  <2>4. Acks = << >>
    BY <2>3, SubSeqEmpty
  <2> QED
    BY <1>1, <1>3, <2>4, EmptySeq DEF Applied
<1>4. CASE responses # << >> /\ handshake /\ Unrefused
  <2>1. /\ Len(responses) \in Nat \ {0}
        /\ \A i \in 1..Len(responses) - 1 :
             responses[i].kind = "ack" /\ responses[i].write = pipeline[i]
        /\ responses[Len(responses)].kind = "ack"
        /\ responses[Len(responses)].write = pipeline[Len(responses)]
    BY <1>4, LastResponse
  <2>2. Acks = responses /\ Applied = Len(responses)
    BY <1>4, <2>1 DEF Acks, Applied
  <2>3. \A i \in 1..Len(responses) : i \in 1..Len(responses) - 1 \/ i = Len(responses)
    BY <1>1
  <2>4. \A i \in 1..Len(responses) : responses[i].kind = "ack" /\ responses[i].write = pipeline[i]
    BY <2>1, <2>3
  <2> QED
    BY <1>1, <1>4, <2>2, <2>4
<1>5. CASE responses # << >> /\ handshake /\ ~Unrefused
  <2>1. /\ Len(responses) \in Nat \ {0}
        /\ \A i \in 1..Len(responses) - 1 :
             responses[i].kind = "ack" /\ responses[i].write = pipeline[i]
        /\ responses[Len(responses)].kind = "refused"
    BY <1>5, LastResponse
  <2>2. Acks = SubSeq(responses, 1, Len(responses) - 1) /\ Applied = Len(responses) - 1
    BY <1>5, <2>1 DEF Acks, Applied
  <2>3. Applied \in 0..Len(responses) /\ Applied # Len(responses)
    BY <2>1, <2>2
  <2>4. Acks \in Seq(Response) /\ Len(Acks) = Applied /\ \A i \in 1..Applied : Acks[i] = responses[i]
    BY <1>1, <2>2, <2>3, Prefix
  <2>5. Acks # responses
    BY <2>3, <2>4
  <2> QED
    BY <1>5, <2>1, <2>2, <2>3, <2>4, <2>5
<1> QED
  BY <1>2, <1>3, <1>4, <1>5

(* Each response is taken for the right write. *)
LEMMA InvResponsesMatch == WInv => ResponsesMatch
<1> SUFFICES ASSUME WInv PROVE ResponsesMatch
  OBVIOUS
<1>1. /\ Len(queue) \in Nat /\ Len(pipeline) = Front(queue) /\ Front(queue) \in 0..Len(queue)
      /\ Len(requests) \in Nat /\ Len(responses) \in Nat
  BY PipelineFacts DEF WInv
<1>2. /\ queue \in Seq(Write) /\ pipeline \in Seq(Write)
      /\ requests \in Seq({Handshake} \cup Write) /\ responses \in Seq(Response)
  BY DEF WInv, WriteTypeOK
<1>3. pipeline = SubSeq(queue, 1, Len(pipeline))
  BY <1>1 DEF WInv, PipelineFull
<1>4. Len(pipeline) = MaxPending \/ pipeline = queue
  <2>1. SubSeq(queue, 1, Len(queue)) = queue
    BY <1>2, SubSeqFull
  <2> QED
    BY <1>1, <1>3, <2>1 DEF Front
<1> DEFINE acked == [i \in DOMAIN Acks |-> Acks[i].write]
<1>5. ASSUME handshake
      PROVE  IF Acks = responses THEN pipeline = acked \o requests
             ELSE Len(acked) < Len(pipeline) /\ acked = SubSeq(pipeline, 1, Len(acked))
  <2>1. /\ Acks \in Seq(Response) /\ Len(Acks) = Applied /\ Applied \in 0..Len(responses)
        /\ Acks = responses <=> Unrefused
        /\ \A i \in 1..Applied : Acks[i].kind = "ack" /\ Acks[i].write = pipeline[i]
    BY <1>5, AckFacts
  <2>2. Len(responses) <= Len(pipeline)
    BY <1>5 DEF WInv, Answers
  <2>3. Applied \in 0..Len(pipeline) /\ Len(pipeline) \in Nat
    BY <1>1, <2>1, <2>2
  <2>4. DOMAIN Acks = 1..Applied
    BY <2>1, LenProperties
  <2>5. \A i \in 1..Applied : pipeline[i] \in Write
    BY <1>2, <2>3, ElementOfSeq
  <2>6. acked = [i \in 1..Applied |-> pipeline[i]]
    BY <2>1, <2>4
  <2> HIDE DEF acked
  <2>7. acked \in [1..Applied -> Write]
    BY <2>5, <2>6
  <2>8. acked \in Seq(Write) /\ Len(acked) = Applied
    <3>1. acked \in Seq(Write)
      BY <2>3, <2>7, SeqDef
    <3>2. DOMAIN acked = 1..Len(acked) /\ DOMAIN acked = 1..Applied /\ Len(acked) \in Nat
      BY <2>7, <3>1, LenProperties
    <3>3. 1..Len(acked) = 1..Applied
      BY <3>2, Zenon
    <3>4. Applied \in Nat /\ Len(acked) \in Nat
      BY <2>3, <3>2
    <3>5. Len(acked) = Applied
      BY <3>3, <3>4
    <3> QED
      BY <3>1, <3>5
  <2>9. \A i \in 1..Applied : acked[i] = pipeline[i]
    BY <2>6
  <2>10. CASE Unrefused
    <3>1. /\ Applied = Len(responses) /\ Len(pipeline) = Applied + Len(requests)
          /\ \A i \in 1..Len(requests) : requests[i] = pipeline[Applied + i]
      BY <1>5, <2>10 DEF WInv, Answers, Applied
    <3>2. acked \in Seq({Handshake} \cup Write) /\ pipeline \in Seq({Handshake} \cup Write)
      BY <1>2, <2>8, SeqMonotonic
    <3> DEFINE c == acked \o requests
    <3>3. /\ c \in Seq({Handshake} \cup Write) /\ Len(c) = Len(acked) + Len(requests)
          /\ \A i \in 1..Len(acked) + Len(requests) :
               c[i] = IF i <= Len(acked) THEN acked[i] ELSE requests[i - Len(acked)]
      BY <1>2, <3>2, ConcatProperties
    <3> HIDE DEF c
    <3>4. ASSUME NEW i \in 1..Len(pipeline)
          PROVE  c[i] = pipeline[i]
      <4>1. CASE i <= Applied
        BY <1>1, <2>3, <2>8, <2>9, <3>1, <3>3, <4>1
      <4>2. CASE i > Applied
        <5>1. i - Applied \in 1..Len(requests) /\ Applied + (i - Applied) = i
          BY <1>1, <2>3, <3>1, <4>2
        <5>2. requests[i - Applied] = pipeline[i]
          BY <3>1, <5>1
        <5>3. c[i] = requests[i - Applied]
          BY <1>1, <2>3, <2>8, <3>1, <3>3, <4>2
        <5> QED
          BY <5>2, <5>3
      <4> QED
        BY <2>3, <4>1, <4>2
    <3>5. Len(c) = Len(pipeline)
      BY <2>8, <3>1, <3>3
    <3>6. c = pipeline
      BY <3>2, <3>3, <3>4, <3>5, SeqEqual
    <3> QED
      BY <2>1, <2>10, <3>6 DEF c
  <2>11. CASE ~Unrefused
    <3>1. Applied = Len(responses) - 1
      BY <1>5, <2>11 DEF Applied
    <3>2. Applied < Len(pipeline)
      BY <1>1, <2>2, <2>3, <3>1
    <3> DEFINE s == SubSeq(pipeline, 1, Applied)
    <3>3. s \in Seq(Write) /\ Len(s) = Applied /\ \A i \in 1..Applied : s[i] = pipeline[i]
      BY <1>2, <2>3, Prefix
    <3> HIDE DEF s
    <3>4. acked = s
      BY <2>8, <2>9, <3>3, SeqEqual
    <3> QED
      BY <2>1, <2>8, <2>11, <3>2, <3>4 DEF s
  <2> QED
    BY <2>10, <2>11
<1> QED
  BY <1>3, <1>4, <1>5 DEF ResponsesMatch

(* The timer does not run with a write to send. *)
LEMMA InvIdleUnneeded == WInv => IdleUnneeded
BY DEF WInv, OpenOnly, IdleEmpty, IdleUnneeded

-----------------------------------------------------------------------------
(* The refinement of WriteQueue *)

AppliedCount == Len(Acks) = Applied

(* The variables of WriteQueue after a step that leaves the responses of   *)
(* the stream alone.                                                       *)
LEMMA AppliedUnchanged == UNCHANGED <<handshake, responses>> => Applied' = Applied
BY DEF Applied, Unrefused, Refusal

(* A write completes: it is the first of the queue. *)
LEMMA CompleteRefines ==
  ASSUME WInv, AppliedCount, AppliedCount', OnWriteStreamMutationResult
  PROVE  Abstract!Complete
<1>1. /\ responses # << >> /\ handshake /\ Head(responses).kind = "ack"
      /\ responses' = Tail(responses) /\ UNCHANGED <<handshake, log, refused>>
      /\ queue' = RemoveMutationBatch(queue, Head(pipeline))
  BY DEF OnWriteStreamMutationResult
<1>2. /\ pipeline # << >> /\ Len(responses) \in Nat \ {0} /\ responses[1].kind = "ack"
      /\ Len(responses') = Len(responses) - 1
      /\ \A i \in 1..Len(responses') : responses'[i] = responses[i + 1]
  BY <1>1, ResponseFacts
<1>3. queue' = Tail(queue)
  BY <1>1, <1>2, FirstDone
<1>4. Unrefused' <=> Unrefused
  <2>1. ASSUME NEW i \in 1..Len(responses) PROVE i = 1 \/ i - 1 \in 1..Len(responses')
    BY <1>2
  <2>2. ASSUME NEW i \in 1..Len(responses') PROVE i + 1 \in 1..Len(responses)
    BY <1>2
  <2>3. Unrefused => Unrefused'
    BY <1>2, <2>2 DEF Unrefused, Refusal
  <2>4. ASSUME Unrefused', NEW i \in 1..Len(responses) PROVE responses[i].kind # "refused"
    <3>1. CASE i = 1
      BY <1>2, <3>1
    <3>2. CASE i - 1 \in 1..Len(responses')
      <4>1. responses'[i - 1] = responses[(i - 1) + 1] /\ (i - 1) + 1 = i
        BY <1>2, <3>2
      <4> QED
        BY <2>4, <3>2, <4>1 DEF Unrefused, Refusal
    <3> QED
      BY <2>1, <3>1, <3>2
  <2> QED
    BY <2>3, <2>4 DEF Unrefused, Refusal
<1>5. ~Unrefused => Len(responses) # 1
  BY <1>1, <1>2, LastResponse
<1>6. Applied > 0 /\ Applied' = Applied - 1
  BY <1>1, <1>2, <1>4, <1>5 DEF Applied
<1> QED
  BY <1>1, <1>3, <1>6 DEF Abstract!Complete, AppliedCount

(* A refusal is read when no acknowledgement is before it: it completes    *)
(* the first write of the queue, which was not applied.                    *)
LEMMA RefuseRefines ==
  ASSUME WInv, AppliedCount, AppliedCount', OnWriteStreamRefused
  PROVE  Abstract!Refuse
<1>1. /\ responses # << >> /\ handshake /\ Head(responses).kind = "refused"
      /\ handshake' = FALSE /\ UNCHANGED log
      /\ queue' = RemoveMutationBatch(queue, Head(pipeline))
      /\ refused' = refused \cup {Head(pipeline)}
  BY DEF OnWriteStreamRefused
<1>2. pipeline # << >> /\ Len(responses) \in Nat \ {0} /\ responses[1].kind = "refused"
  BY <1>1, ResponseFacts
<1>3. queue # << >> /\ queue' = Tail(queue) /\ Head(pipeline) = Head(queue)
  BY <1>1, <1>2, FirstDone
<1>4. ~Unrefused
  BY <1>2 DEF Unrefused, Refusal
<1>5. Len(responses) = 1
  <2>1. 1 \in 1..Len(responses)
    BY <1>2
  <2> QED
    BY <1>1, <1>2, <2>1 DEF WInv, Answers
<1>6. Applied = 0 /\ Applied' = 0
  BY <1>1, <1>4, <1>5 DEF Applied
<1> QED
  BY <1>1, <1>3, <1>6 DEF Abstract!Refuse, AppliedCount

(* The server applies the next write of the queue. *)
LEMMA ApplyRefines ==
  ASSUME WInv, AppliedCount, AppliedCount', NEW w \in Write, ServerCommit(w)
  PROVE  Abstract!Apply
<1> DEFINE x == [kind |-> "ack", write |-> w, version |-> Len(log')]
<1>1. /\ Reading(w) /\ log' = Append(log, w) /\ responses' = Append(responses, x)
      /\ UNCHANGED <<queue, handshake, refused>>
  BY DEF ServerCommit
<1>2. Unrefused /\ handshake /\ Len(responses) + 1 <= Len(pipeline) /\ w = pipeline[Len(responses) + 1]
  BY <1>1, ReadingFacts
<1>3. /\ Len(responses) \in Nat /\ Len(queue) \in Nat /\ Len(pipeline) \in 0..Len(queue)
      /\ \A i \in 1..Len(pipeline) : pipeline[i] = queue[i]
  BY PipelineFacts DEF WInv
<1>4. x.kind = "ack" /\ x \in Response
  BY AppendProperties, LenProperties, <1>1 DEF WInv, WriteTypeOK, Response
<1> HIDE DEF x
<1>5. /\ Len(responses') = Len(responses) + 1
      /\ \A i \in 1..Len(responses) : responses'[i] = responses[i]
      /\ responses'[Len(responses) + 1] = x
  BY <1>1, <1>4, Responded
<1>6. Unrefused'
  BY <1>2, <1>3, <1>4, <1>5 DEF Unrefused, Refusal
<1>7. Applied = Len(responses) /\ Applied' = Applied + 1
  BY <1>1, <1>2, <1>5, <1>6 DEF Applied
<1>8. Applied < Len(queue) /\ w = queue[Applied + 1]
  BY <1>2, <1>3, <1>7
<1> QED
  BY <1>1, <1>7, <1>8 DEF Abstract!Apply, AppliedCount

(* A refusal that is under way has changed nothing yet. *)
LEMMA RefusalHidden ==
  ASSUME WInv, NEW w \in Write, ServerRefuse(w)
  PROVE  Applied' = Applied
<1> DEFINE x == [kind |-> "refused"]
<1>1. Reading(w) /\ responses' = Append(responses, x) /\ UNCHANGED handshake
  BY DEF ServerRefuse
<1>2. Unrefused /\ handshake
  BY <1>1, ReadingFacts
<1>3. x.kind = "refused" /\ x \in Response
  BY DEF Response
<1> HIDE DEF x
<1>4. Len(responses) \in Nat /\ Len(responses') = Len(responses) + 1 /\ responses'[Len(responses) + 1] = x
  BY <1>1, <1>3, Responded
<1>5. ~Unrefused'
  BY <1>3, <1>4 DEF Unrefused, Refusal
<1> QED
  BY <1>1, <1>2, <1>4, <1>5 DEF Applied

(* Before the handshake nothing is applied. *)
LEMMA HandshakeHidden ==
  ASSUME WInv, OnWriteStreamHandshakeComplete \/ ServerHandshake
  PROVE  Applied' = Applied
<1>1. CASE OnWriteStreamHandshakeComplete
  <2>1. handshake = FALSE /\ handshake' /\ responses # << >> /\ responses' = Tail(responses)
    BY <1>1 DEF OnWriteStreamHandshakeComplete, WInv, WriteTypeOK
  <2>2. responses = << [kind |-> "handshake"] >>
    BY <2>1 DEF WInv, OpenOnly, Greeting
  <2>3. responses' = << >> /\ Len(responses') = 0
    BY <2>1, <2>2
  <2> QED
    BY <2>1, <2>3 DEF Applied, Unrefused
<1>2. CASE ServerHandshake
  <2>1. Reading(Handshake) /\ UNCHANGED handshake
    BY <1>2 DEF ServerHandshake
  <2>2. handshake = FALSE
    BY <2>1, ReadingFacts
  <2> QED
    BY <2>1, <2>2 DEF Applied
<1> QED
  BY <1>1, <1>2

(* Every step of the write half is a step of WriteQueue, or not visible.   *)
LEMMA StepRefines ==
  ASSUME WInv, AppliedCount, AppliedCount', [WriteNext]_writeVars
  PROVE  [Abstract!Next]_(Abstract!queueVars)
<1>1. ASSUME NEW w \in Write, WriteMutations(w)
      PROVE  Abstract!Issue(w)
  BY <1>1, AppliedUnchanged DEF WriteMutations, Abstract!Issue, AppliedCount
<1>2. ASSUME NEW o \in Other, ServerOther(o)
      PROVE  Abstract!Interfere(o)
  BY <1>2, AppliedUnchanged DEF ServerOther, Abstract!Interfere, AppliedCount
<1>3. ASSUME OnWriteStreamClose \/ OnIdleTimeout \/ RestartWriteStream
      PROVE  Abstract!Resend
  <2>1. handshake' = FALSE /\ UNCHANGED <<queue, log, refused>>
    BY <1>3 DEF OnWriteStreamClose, OnIdleTimeout, RestartWriteStream
  <2> QED
    BY <2>1 DEF Applied, AppliedCount, Abstract!Resend
<1>4. ASSUME UNCHANGED writeVars \/ OnWriteStreamOpen \/ OnBackoffElapsed
      PROVE  UNCHANGED Abstract!queueVars
  <2>1. UNCHANGED <<handshake, responses, queue, log, refused>>
    BY <1>4 DEF writeVars, OnWriteStreamOpen, OnBackoffElapsed
  <2> QED
    BY <2>1, AppliedUnchanged DEF AppliedCount, Abstract!queueVars
<1>5. ASSUME OnWriteStreamHandshakeComplete \/ ServerHandshake
      PROVE  UNCHANGED Abstract!queueVars
  <2>1. UNCHANGED <<queue, log, refused>>
    BY <1>5 DEF OnWriteStreamHandshakeComplete, ServerHandshake
  <2> QED
    BY <1>5, <2>1, HandshakeHidden DEF AppliedCount, Abstract!queueVars
<1>6. ASSUME NEW w \in Write, ServerRefuse(w)
      PROVE  UNCHANGED Abstract!queueVars
  <2>1. UNCHANGED <<queue, log, refused>>
    BY <1>6 DEF ServerRefuse
  <2> QED
    BY <1>6, <2>1, RefusalHidden DEF AppliedCount, Abstract!queueVars
<1> QED
  BY <1>1, <1>2, <1>3, <1>4, <1>5, <1>6, CompleteRefines, RefuseRefines, ApplyRefines
     DEF WriteNext, Abstract!Next

(* The queue is empty at the start and nothing has been applied. *)
LEMMA InitRefines == WriteInit => Abstract!Init
BY EmptySeq DEF WriteInit, Abstract!Init, Acks

-----------------------------------------------------------------------------
(* The theorems *)

(* RemoteStore::OnWriteStreamMutationResult and HandleWriteError take each *)
(* response for the first write of the pipeline; whatever breaks, that is  *)
(* the write the server has answered.                                      *)
THEOREM ResponsesAlwaysMatch == WriteSpec => []ResponsesMatch
BY WriteInvariance, InvResponsesMatch, PTL

(* The assertion of OnWriteStreamClose: the idle timer never closes a      *)
(* stream that has a write to send.                                        *)
THEOREM IdleAlwaysUnneeded == WriteSpec => []IdleUnneeded
BY WriteInvariance, InvIdleUnneeded, PTL

(* The write half of the client implements the queue of WriteQueue: no     *)
(* write is skipped or overtaken, and none completes before the server has *)
(* applied or refused it.                                                  *)
THEOREM StreamImplementsQueue == WriteSpec => ImplementsWriteQueue
<1>1. WInv => AppliedCount
  BY AckFacts DEF AppliedCount
<1>2. WInv /\ AppliedCount /\ AppliedCount' /\ [WriteNext]_writeVars
      => [Abstract!Next]_(Abstract!queueVars)
  BY StepRefines
<1> QED
  BY <1>1, <1>2, InitRefines, WriteInvariance, PTL DEF WriteSpec, ImplementsWriteQueue, Abstract!Spec
=============================================================================
