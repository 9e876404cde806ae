-------------------------- MODULE RegistrationProofs --------------------------
(***************************************************************************)
(* What the lookups of CodeManager find: for any number of devices, codes  *)
(* and taps, no lookup of a registered code traps, and a partner_code on   *)
(* the server names a document on the server.                              *)
(*                                                                         *)
(* The first holds under every fault.  A lookup falls back on the local    *)
(* cache, so the proof follows what the cache of a device holds: its own   *)
(* document once it is registered, and the document of a code it found to  *)
(* exist.  The second needs that the server refuses no write, and follows  *)
(* the order of the writes in the queue of a device.                       *)
(***************************************************************************)
EXTENDS PairingProofs

(* A device adds no document but its own. *)
OwnAdds ==
  \A d \in Device, m \in Mutation : Queued(d, m) /\ m.op = "add" => m.doc = d

(* The own document is in the cache from the moment it is written. *)
CacheOwn == \A d \in Device : Registered(d) => d \in cache[d]

(* A document of the code c is in the cache of d and on the server. *)
Seen(d, c) == \E y \in cache[d] : users[y].code = c

(* The partner that isExistingCode found is in the cache. *)
Located ==
  \A t \in Attempt : attempt[t].pc \in {"ownId", "partnerId"} =>
    Seen(attempt[t].dev, attempt[t].target)

RInv == IInv /\ OwnAdds /\ CacheOwn /\ Located

-----------------------------------------------------------------------------
(* What lasts *)

(* A document keeps its code. *)
LEMMA DocumentStays ==
  ASSUME IInv, [Next]_vars, NEW x \in Device, users[x].code # nil
  PROVE  users'[x].code = users[x].code
<1>1. CASE users' = users
  BY <1>1
<1>2. ASSUME NEW d \in Device, Applies(d)
      PROVE  users'[x].code = users[x].code
  <2>1. PICK m \in Mutation : m = Head(queue[d]) /\ Queued(d, m)
    BY <1>2, HeadQueued DEF IInv, Applies
  <2>2. Sound(m) /\ users' = Applied(m)
    BY <1>2, <2>1 DEF IInv, Writes, Applies
  <2>3. m.doc \in Device /\ m.val \in Code /\ m.op \in {"add", "update"}
    BY DEF Mutation
  <2>4. users \in [Device -> User] /\ users[x] \in User /\ users[x].code = code[x]
    BY DEF IInv, TypeOK, Documents
  <2>5. CASE m.op = "add"
    BY <2>2, <2>3, <2>4, <2>5 DEF Applied, Sound
  <2>6. CASE m.op = "update"
    BY <2>2, <2>3, <2>4, <2>6 DEF Applied, User
  <2> QED
    BY <2>3, <2>5, <2>6
<1> QED
  BY <1>1, <1>2, UsersStay DEF IInv

(* A document stays in the cache. *)
LEMMA CacheGrows ==
  ASSUME IInv, [Next]_vars, NEW d \in Device
  PROVE  cache[d] \subseteq cache'[d]
<1>0. cache \in [Device -> SUBSET Device]
  BY DEF IInv, TypeOK
<1>1. ASSUME NEW e, NEW found, cache' = [cache EXCEPT ![e] = @ \cup found]
      PROVE  cache[d] \subseteq cache'[d]
  BY <1>0, <1>1
<1>2. ASSUME NEW e \in Device, DeviceStep(e), cache' # cache
      PROVE  \E found : cache' = [cache EXCEPT ![e] = @ \cup found]
  BY <1>2 DEF DeviceStep, Launch, Reappear, Kill, BootGetCode, ShowCode, SaveCode,
              Lookup, Listen, LookupMissing, LookupError, Snapshot, OnSnapshot,
              DidConnectedPartner, RequestPartnerClothes, RequestNobodysClothes,
              OpenInput, CloseInput, Commit, CommitUnacknowledged, Reject, Die
<1>3. ASSUME NEW t \in Attempt, AttemptStep(t), cache' # cache
      PROVE  \E found : cache' = [cache EXCEPT ![attempt[t].dev] = @ \cup found]
  BY <1>3 DEF AttemptStep, Confirm, CheckExisting, FindOwn, FindPartner, FindMissing,
              WriteOwn, WritePartner, QueueUpdate, Remember, Die
<1>4. CASE cache' = cache
  BY <1>4
<1>5. CASE UNCHANGED vars
  BY <1>5 DEF vars
<1> QED
  BY <1>1, <1>2, <1>3, <1>4, <1>5 DEF Next

(* A partner that was seen stays seen. *)
LEMMA SeenStays ==
  ASSUME IInv, [Next]_vars, NEW d \in Device, NEW c, c # nil, Seen(d, c)
  PROVE  Seen(d, c)'
<1>1. PICK y \in cache[d] : users[y].code = c
  BY DEF Seen
<1>2. y \in Device
  BY DEF IInv, TypeOK
<1>3. users'[y].code = c /\ y \in cache'[d]
  BY <1>1, <1>2, DocumentStays, CacheGrows
<1> QED
  BY <1>3 DEF Seen

-----------------------------------------------------------------------------
(* Registration *)

(* A document is added by saveCode only. *)
LEMMA AddBefore ==
  ASSUME IInv, [Next]_vars, NEW d \in Device, NEW m \in Mutation, Queued(d, m)', m.op = "add"
  PROVE  Queued(d, m) \/ (SaveCode(d) /\ m = Add(d, code[d]))
<1>1. \A id, val : m # Update(id, val)
  BY DEF Update
<1>2. ASSUME NEW t \in Attempt, attempt[t].dev = d, WriteOwn(t), attempt[t].ownId # "",
             m = Update(attempt[t].ownId, attempt[t].target)
      PROVE  FALSE
  BY <1>1, <1>2
<1>3. ASSUME NEW t \in Attempt, attempt[t].dev = d, WritePartner(t), attempt[t].partnerId # "",
             m = Update(attempt[t].partnerId, code[d])
      PROVE  FALSE
  BY <1>1, <1>3
<1> QED
  BY <1>2, <1>3, QueuedBefore

(* A device becomes registered by saveCode only. *)
LEMMA RegisteredBefore ==
  ASSUME IInv, OwnAdds, [Next]_vars, NEW d \in Device, Registered(d)'
  PROVE  Registered(d) \/ SaveCode(d)
<1>1. CASE users'[d].code # nil
  <2>1. CASE users'[d].code = users[d].code
    BY <1>1, <2>1 DEF Registered
  <2>2. ASSUME NEW e \in Device, Applies(e), users'[d].code # users[d].code
        PROVE  Registered(d)
    <3>1. PICK m \in Mutation : m = Head(queue[e]) /\ Queued(e, m)
      BY <2>2, HeadQueued DEF IInv, Applies
    <3>2. users' = Applied(m) /\ m.op \in {"add", "update"} /\ m.doc \in Device
      BY <2>2, <3>1 DEF Applies, Mutation
    <3>3. users \in [Device -> User] /\ users[d] \in User
      BY DEF IInv, TypeOK
    <3>4. m.op = "add" /\ m.doc = d
      BY <2>2, <3>2, <3>3 DEF Applied, User
    <3>5. e = d
      BY <3>1, <3>4 DEF OwnAdds
    <3> QED
      BY <3>1, <3>4, <3>5 DEF Registered, Queued
  <2> QED
    BY <2>1, <2>2, UsersStay DEF IInv
<1>2. ASSUME NEW i \in DOMAIN queue'[d], queue'[d][i].op = "add"
      PROVE  Registered(d) \/ SaveCode(d)
  <2>1. TypeOK'
    BY TypeStep DEF IInv
  <2>2. queue'[d] \in Seq(Mutation)
    BY <2>1 DEF TypeOK
  <2>3. PICK m \in Mutation : m = queue'[d][i]
    BY <1>2, <2>2, ElementOfSeq, LenProperties
  <2>4. Queued(d, m)' /\ m.op = "add"
    BY <1>2, <2>3 DEF Queued
  <2>5. Queued(d, m) \/ SaveCode(d)
    BY <2>4, AddBefore
  <2> QED
    BY <2>4, <2>5 DEF Registered, Queued
<1> QED
  BY <1>1, <1>2 DEF Registered

(* A device adds its own document. *)
LEMMA OwnAddsStep ==
  ASSUME IInv, OwnAdds, [Next]_vars
  PROVE  OwnAdds'
<1> SUFFICES ASSUME NEW d \in Device, NEW m \in Mutation, Queued(d, m)', m.op = "add"
             PROVE  m.doc = d
  BY DEF OwnAdds
<1>1. Queued(d, m) \/ m = Add(d, code[d])
  BY AddBefore
<1> QED
  BY <1>1 DEF OwnAdds, Add

(* The own document is cached when it is written. *)
LEMMA CacheOwnStep ==
  ASSUME IInv, OwnAdds, CacheOwn, [Next]_vars
  PROVE  CacheOwn'
<1> SUFFICES ASSUME NEW d \in Device, Registered(d)'
             PROVE  d \in cache'[d]
  BY DEF CacheOwn
<1>1. CASE Registered(d)
  BY <1>1, CacheGrows DEF CacheOwn
<1>2. CASE SaveCode(d)
  BY <1>2 DEF SaveCode, IInv, TypeOK
<1> QED
  BY <1>1, <1>2, RegisteredBefore

(* Nothing but connectPartner's query puts an answer before its task. *)
LEMMA AnswerStep ==
  ASSUME IInv, [Next]_vars, NEW d \in Device, EmptyAnswer(d)', ~EmptyAnswer(d)
  PROVE  Lookup(d)
<1>0. app \in [Device -> App] /\ app[d] \in App
  BY DEF IInv, TypeOK
<1>1. app'[d].boot # app[d].boot \/ app'[d].answer # app[d].answer
  BY DEF EmptyAnswer
<1>2. app'[d].boot = "answered" /\ app'[d] # app[d]
  BY <1>1 DEF EmptyAnswer
<1>3. ASSUME NEW e \in Device, NEW how, Die(e, how)
      PROVE  FALSE
  BY <1>0, <1>2, <1>3 DEF Die, Process
<1>4. ASSUME NEW e \in Device, NEW p, app' = [app EXCEPT ![e].panel = p]
      PROVE  FALSE
  BY <1>0, <1>1, <1>4 DEF App
<1>5. ASSUME NEW e \in Device, DeviceStep(e)
      PROVE  Lookup(d)
  <2>1. CASE Launch(e)
    BY <1>0, <1>2, <2>1 DEF Launch, Process
  <2>2. CASE Reappear(e)
    BY <1>0, <1>2, <2>2 DEF Reappear, App
  <2>3. CASE Kill(e) \/ LookupMissing(e) \/ LookupError(e) \/ RequestNobodysClothes(e)
    BY <1>3, <2>3 DEF Kill, LookupMissing, LookupError, RequestNobodysClothes
  <2>4. CASE BootGetCode(e)
    <3>1. GetCode(e, "lookup")
      BY <2>4 DEF BootGetCode
    <3>2. CASE app' = [app EXCEPT ![e].boot = "lookup"]
      BY <1>0, <1>2, <3>2 DEF App
    <3>3. CASE app' = [app EXCEPT ![e].boot = "lookup", ![e].saving = TRUE]
      BY <1>0, <1>2, <3>3 DEF App
    <3> QED
      BY <3>1, <3>2, <3>3 DEF GetCode
  <2>5. CASE ShowCode(e)
    <3>1. GetCode(e, app[e].boot)
      BY <2>5 DEF ShowCode
    <3>2. CASE app' = [app EXCEPT ![e].boot = app[e].boot]
      BY <1>0, <1>1, <3>2 DEF App
    <3>3. CASE app' = [app EXCEPT ![e].boot = app[e].boot, ![e].saving = TRUE]
      BY <1>0, <1>1, <3>3 DEF App
    <3> QED
      BY <3>1, <3>2, <3>3 DEF GetCode
  <2>6. CASE SaveCode(e)
    BY <1>0, <1>1, <2>6 DEF SaveCode, App
  <2>7. CASE Lookup(e)
    <3>1. PICK x : app' = [app EXCEPT ![e].boot = "answered", ![e].answer = x]
      BY <2>7 DEF Lookup
    <3>2. e = d
      BY <1>0, <1>2, <3>1 DEF App
    <3> QED
      BY <2>7, <3>2
  <2>8. CASE Listen(e)
    BY <1>0, <1>2, <2>8 DEF Listen, App
  <2>9. CASE Snapshot(e)
    <3>1. PICK v, q : app' = [app EXCEPT ![e].raised = v, ![e].mainq = q]
      BY <2>9 DEF Snapshot
    <3> QED
      BY <1>0, <1>1, <3>1 DEF App
  <2>10. CASE OnSnapshot(e)
    BY <1>0, <1>1, <2>10 DEF OnSnapshot, App
  <2>11. CASE DidConnectedPartner(e)
    BY <1>0, <1>1, <2>11 DEF DidConnectedPartner, App
  <2>12. CASE RequestPartnerClothes(e)
    BY <1>0, <1>1, <2>12 DEF RequestPartnerClothes, App
  <2>13. CASE OpenInput(e) \/ CloseInput(e)
    BY <1>4, <2>13 DEF OpenInput, CloseInput
  <2>14. CASE Commit(e) \/ Reject(e)
    BY <1>2, <2>14 DEF Commit, Reject
  <2>15. CASE CommitUnacknowledged(e)
    BY <1>0, <1>1, <2>15 DEF CommitUnacknowledged, App
  <2> QED
    BY <1>5, <2>1, <2>2, <2>3, <2>4, <2>5, <2>6, <2>7, <2>8, <2>9, <2>10, <2>11,
       <2>12, <2>13, <2>14, <2>15 DEF DeviceStep
<1>6. ASSUME NEW t \in Attempt, AttemptStep(t)
      PROVE  FALSE
  <2>0. attempt[t].pc # "unused" => attempt[t].dev \in Device
    BY DEF IInv, Tasks
  <2>1. ASSUME NEW e \in Device, NEW c \in Code \cup {""}, NEW via \in {"main", "settings"},
               Confirm(t, e, c, via)
        PROVE  FALSE
    BY <1>4, <2>1 DEF Confirm
  <2>2. CASE Remember(t)
    BY <1>0, <1>1, <2>2 DEF Remember, App
  <2>3. CASE CheckExisting(t) \/ FindOwn(t) \/ FindPartner(t)
    BY <1>2, <2>3 DEF CheckExisting, FindOwn, FindPartner
  <2>4. CASE FindMissing(t)
    BY <1>3, <2>0, <2>4 DEF FindMissing
  <2>5. CASE WriteOwn(t) \/ WritePartner(t)
    <3>1. attempt[t].dev \in Device
      BY <2>0, <2>5 DEF WriteOwn, WritePartner
    <3>2. app' = app \/ Die(attempt[t].dev, "path")
      BY <2>5 DEF WriteOwn, WritePartner, QueueUpdate
    <3> QED
      BY <1>2, <1>3, <3>1, <3>2
  <2> QED
    BY <1>6, <2>1, <2>2, <2>3, <2>4, <2>5 DEF AttemptStep
<1>7. CASE UNCHANGED vars
  BY <1>2, <1>7 DEF vars
<1> QED
  BY <1>5, <1>6, <1>7 DEF Next

-----------------------------------------------------------------------------
(* Lookups *)

(* The code of another device is found on the server only. *)
LEMMA FoundOnServer ==
  ASSUME IInv, OwnAdds, NEW d \in Device, NEW c, c # nil, c # code[d], NEW x \in Matches(d, c)
  PROVE  x \in Device /\ users[x].code = c
<1>1. x \in Device /\ c \in Code /\ code[x] = c
  BY MatchesCode
<1>2. ASSUME NEW i \in DOMAIN queue[d], queue[d][i] = Add(x, c)
      PROVE  FALSE
  <2>1. Add(x, c) \in Mutation
    BY <1>1 DEF Add, Mutation
  <2>2. Queued(d, Add(x, c)) /\ Add(x, c).op = "add" /\ Add(x, c).doc = x
    BY <1>2 DEF Queued, Add
  <2>3. x = d
    BY <2>1, <2>2 DEF OwnAdds
  <2> QED
    BY <1>1, <2>3
<1> QED
  BY <1>1, <1>2 DEF Matches

(* A registered device finds its own document, in the cache as well. *)
LEMMA FindsItself ==
  ASSUME IInv, OwnAdds, CacheOwn, NEW d \in Device, Registered(d)
  PROVE  {} \notin Answers(d, code[d])
<1>1. d \in cache[d]
  BY DEF CacheOwn
<1>2. d \in Matches(d, code[d])
  <2>1. CASE users[d].code # nil
    BY <2>1 DEF IInv, Documents, Matches
  <2>2. ASSUME NEW i \in DOMAIN queue[d], queue[d][i].op = "add"
        PROVE  d \in Matches(d, code[d])
    <3>1. queue[d] \in Seq(Mutation)
      BY DEF IInv, TypeOK
    <3>2. PICK m \in Mutation : m = queue[d][i]
      BY <2>2, <3>1, ElementOfSeq, LenProperties
    <3>3. Queued(d, m) /\ m.op = "add"
      BY <2>2, <3>2 DEF Queued
    <3>4. m.doc = d /\ Sound(m)
      BY <3>3 DEF OwnAdds, IInv, Writes
    <3>5. m = Add(d, code[d])
      BY <3>3, <3>4 DEF Sound, Add, Mutation
    <3> QED
      BY <2>2, <3>2, <3>5 DEF Matches
  <2> QED
    BY <2>1, <2>2 DEF Registered
<1> QED
  BY <1>1, <1>2 DEF Answers

(* A partner that was seen is found again, in the cache as well. *)
LEMMA FindsPartner ==
  ASSUME TypeOK, NEW d \in Device, NEW c, Seen(d, c)
  PROVE  {} \notin Answers(d, c)
<1>1. PICK y \in cache[d] : users[y].code = c
  BY DEF Seen
<1>2. y \in Matches(d, c)
  BY <1>1 DEF Matches, TypeOK
<1> QED
  BY <1>1, <1>2 DEF Answers

(* A task that goes on past isExistingCode has seen its partner. *)
LEMMA LocatedStep ==
  ASSUME IInv, OwnAdds, Located, [Next]_vars
  PROVE  Located'
<1> SUFFICES ASSUME NEW t \in Attempt, attempt'[t].pc \in {"ownId", "partnerId"}
             PROVE  Seen(attempt[t].dev, attempt[t].target)'
  BY DEF Located
<1> DEFINE a == attempt[t]
           b == attempt'[t]
<1>0. a \in Task /\ TypeOK /\ Tasks
  BY DEF IInv, TypeOK
<1>1. PICK e, c : e = a.dev /\ c = a.target
  OBVIOUS
<1>2. CASE a.pc \in {"ownId", "partnerId"}
  <2>1. a.pc # "unused" /\ a.pc \in Past
    BY <1>2 DEF Past
  <2>2. b.dev = e /\ b.target = c
    BY <1>0, <1>1, <2>1, TaskStays
  <2>3. e \in Device /\ c # nil
    BY <1>0, <1>1, <2>1 DEF Tasks
  <2>4. Seen(e, c)
    BY <1>1, <1>2 DEF Located
  <2>5. Seen(e, c)'
    BY <2>3, <2>4, SeenStays
  <2> QED
    BY <2>2, <2>5
<1>3. CASE a.pc \notin {"ownId", "partnerId"}
  <2>1. AttemptStep(t)
    BY <1>0, <1>3, OtherTasks DEF Dead, Task
  <2>2. CheckExisting(t)
    <3>1. ASSUME NEW f \in Device, NEW k \in Code \cup {""}, NEW via \in {"main", "settings"},
                 Confirm(t, f, k, via)
          PROVE  FALSE
      BY <1>0, <3>1 DEF Confirm, Idle, TypeOK
    <3>2. CASE WriteOwn(t) \/ WritePartner(t) \/ Remember(t)
      <4>1. a.pc \in {"writeOwn", "writePartner", "remember"}
        BY <3>2 DEF WriteOwn, WritePartner, Remember
      <4>2. b.pc \in {"writePartner", "remember", "success", "dead", a.pc}
        BY <1>0, <2>1, <4>1, OwnStep DEF Dead, Task
      <4> QED
        BY <4>1, <4>2
    <3>3. CASE FindOwn(t) \/ FindPartner(t)
      BY <1>3, <3>3 DEF FindOwn, FindPartner
    <3>4. CASE FindMissing(t)
      <4>1. a.pc = "missing"
        BY <3>4 DEF FindMissing
      <4>2. b.pc \in {"dead", a.pc}
        BY <1>0, <2>1, <4>1, OwnStep DEF Dead, Task
      <4> QED
        BY <4>1, <4>2
    <3> QED
      BY <2>1, <3>1, <3>2, <3>3, <3>4 DEF AttemptStep
  <2>3. a.pc = "exists"
    BY <2>2 DEF CheckExisting
  <2>4. e \in Device /\ c # nil /\ c # code[e]
    BY <1>0, <1>1, <2>3 DEF Tasks, Running
  <2>5. PICK found \in Answers(e, c) \cup {{}} :
          /\ attempt' = [attempt EXCEPT ![t].pc =
                           IF found = {} THEN "invalidPartnerCode" ELSE "ownId"]
          /\ cache' = [cache EXCEPT ![e] = @ \cup found]
    BY <1>1, <2>2 DEF CheckExisting
  <2>6. found # {} /\ found \in Answers(e, c)
    <3>1. PICK pc : pc = IF found = {} THEN "invalidPartnerCode" ELSE "ownId"
      OBVIOUS
    <3>2. attempt' = [attempt EXCEPT ![t].pc = pc] /\ attempt \in [Attempt -> Task]
      BY <1>0, <2>5, <3>1 DEF TypeOK
    <3>3. b.pc = pc
      BY <1>0, <3>2 DEF Task
    <3> QED
      BY <2>5, <3>1, <3>3
  <2>7. PICK x \in found : x \in Matches(e, c)
    BY <2>6 DEF Answers
  <2>8. x \in Device /\ users[x].code = c
    BY <2>4, <2>7, FoundOnServer
  <2>9. users'[x].code = c
    BY <2>4, <2>8, DocumentStays
  <2>10. x \in cache'[e]
    BY <2>4, <2>5, <2>7 DEF IInv, TypeOK
  <2>11. b.dev = e /\ b.target = c
    BY <1>0, <1>1, <2>3, TaskStays
  <2>12. Seen(e, c)'
    BY <2>9, <2>10 DEF Seen
  <2> QED
    BY <2>11, <2>12
<1> QED
  BY <1>2, <1>3

(* A query for a registered code of the own is not empty. *)
LEMMA BootAnswered ==
  ASSUME RInv, [Next]_vars, NEW d \in Device, Registered(d), ~EmptyAnswer(d)
  PROVE  ~EmptyAnswer(d)'
<1> SUFFICES ASSUME EmptyAnswer(d)' PROVE FALSE
  OBVIOUS
<1>0. app \in [Device -> App] /\ app[d] \in App /\ IInv /\ OwnAdds /\ CacheOwn
  BY DEF RInv, IInv, TypeOK
<1>1. Lookup(d)
  BY <1>0, AnswerStep
<1>2. PICK c : c = code[d]
  OBVIOUS
<1>3. {} \notin Answers(d, c)
  BY <1>0, <1>2, FindsItself
<1>4. app'[d].answer = nil
  BY DEF EmptyAnswer
<1>5. CASE app' = [app EXCEPT ![d].boot = "answered", ![d].answer = ""]
  BY <1>0, <1>4, <1>5, NilAnswer DEF App
<1>6. ASSUME NEW found \in Answers(d, c), NEW x \in FirstOf(found),
             app' = [app EXCEPT ![d].boot = "answered", ![d].answer = x]
      PROVE  FALSE
  <2>1. x = nil
    BY <1>0, <1>4, <1>6 DEF App
  <2>2. found = {}
    BY <2>1, FirstFound
  <2> QED
    BY <1>3, <2>2
<1> QED
  BY <1>1, <1>2, <1>5, <1>6 DEF Lookup

(* Neither is a query of a task for its own registered code, nor one for   *)
(* the code isExistingCode saw.                                            *)
LEMMA TaskAnswered ==
  ASSUME RInv, [Next]_vars, NEW t \in Attempt,
         \/ attempt[t].pc = "ownId" /\ Registered(attempt[t].dev)
         \/ attempt[t].pc = "partnerId"
  PROVE  attempt'[t].pc # "missing"
<1> DEFINE a == attempt[t]
<1> SUFFICES ASSUME attempt'[t].pc = "missing" PROVE FALSE
  OBVIOUS
<1>0. a \in Task /\ TypeOK /\ IInv /\ OwnAdds /\ CacheOwn /\ attempt \in [Attempt -> Task]
  BY DEF RInv, IInv, TypeOK
<1>1. AttemptStep(t)
  BY <1>0, OtherTasks DEF Dead, Task
<1>2. PICK d \in Device : d = a.dev
  BY <1>0 DEF IInv, Tasks
<1>3. ASSUME NEW c, {} \notin Answers(d, c), NEW found \in Answers(d, c), NEW x \in FirstOf(found),
             NEW pc \in {"partnerId", "writeOwn"},
             \/ attempt' = [attempt EXCEPT ![t].ownId = x,
                                         ![t].pc = IF x = nil THEN "missing" ELSE pc]
             \/ attempt' = [attempt EXCEPT ![t].partnerId = x,
                                         ![t].pc = IF x = nil THEN "missing" ELSE pc]
      PROVE  FALSE
  <2>1. x # nil
    <3>1. found # {}
      BY <1>3
    <3>2. (x \in Device /\ x # nil) \/ found = {}
      BY FirstFound
    <3> QED
      BY <3>1, <3>2
  <2>2. attempt'[t].pc = pc
    BY <1>0, <1>3, <2>1 DEF Task
  <2> QED
    BY <2>2
<1>4. CASE a.pc = "ownId"
  <2>1. FindOwn(t)
    BY <1>1, <1>4 DEF AttemptStep, Confirm, CheckExisting, FindPartner, FindMissing,
                      WriteOwn, WritePartner, Remember
  <2>2. PICK c : c = code[d]
    OBVIOUS
  <2>3. Registered(d)
    BY <1>2, <1>4
  <2>4. {} \notin Answers(d, c)
    BY <1>0, <2>2, <2>3, FindsItself
  <2>5. CASE attempt' = [attempt EXCEPT ![t].pc = "partnerId", ![t].ownId = ""]
    BY <1>0, <2>5 DEF Task
  <2>6. ASSUME NEW found \in Answers(d, c), NEW x \in FirstOf(found),
               attempt' = [attempt EXCEPT ![t].ownId = x,
                 ![t].pc = IF x = nil THEN "missing" ELSE "partnerId"]
        PROVE  FALSE
    BY <1>3, <2>4, <2>6
  <2> QED
    BY <1>2, <2>1, <2>2, <2>5, <2>6 DEF FindOwn
<1>5. CASE a.pc = "partnerId"
  <2>1. FindPartner(t)
    BY <1>1, <1>5 DEF AttemptStep, Confirm, CheckExisting, FindOwn, FindMissing,
                      WriteOwn, WritePartner, Remember
  <2>2. PICK c : c = a.target
    OBVIOUS
  <2>3. Seen(d, c)
    BY <1>2, <1>5, <2>2 DEF RInv, Located
  <2>4. {} \notin Answers(d, c)
    BY <1>0, <2>3, FindsPartner
  <2>5. CASE attempt' = [attempt EXCEPT ![t].pc = "writeOwn", ![t].partnerId = ""]
    BY <1>0, <2>5 DEF Task
  <2>6. ASSUME NEW found \in Answers(d, c), NEW x \in FirstOf(found),
               attempt' = [attempt EXCEPT ![t].partnerId = x,
                 ![t].pc = IF x = nil THEN "missing" ELSE "writeOwn"]
        PROVE  FALSE
    BY <1>3, <2>4, <2>6
  <2> QED
    BY <1>2, <2>1, <2>2, <2>5, <2>6 DEF FindPartner
<1> QED
  BY <1>4, <1>5

(* Nothing is registered, cached or looked up in the initial state. *)
LEMMA InitRInv == Init => RInv
<1> SUFFICES ASSUME Init PROVE RInv
  OBVIOUS
<1>1. IInv
  BY InitIInv
<1>2. \A d \in Device : DOMAIN queue[d] = {} /\ users[d].code = nil
  BY NoIndex DEF Init
<1>3. \A t \in Attempt : attempt[t].pc = "unused"
  BY DEF Init, Idle
<1>5. OwnAdds /\ CacheOwn
  BY <1>2 DEF OwnAdds, CacheOwn, Queued, Registered
<1>6. Located
  BY <1>3 DEF Located
<1> QED
  BY <1>1, <1>5, <1>6 DEF RInv

(* The invariant of the lookups is inductive. *)
LEMMA RInvStep ==
  ASSUME RInv, [Next]_vars
  PROVE  RInv'
<1>1. IInv /\ OwnAdds /\ CacheOwn /\ Located
  BY DEF RInv
<1>2. IInv'
  BY <1>1, TypeStep, DocumentsStep, SavesStep, TasksStep, WritesStep, ConsentStep DEF IInv
<1>3. OwnAdds' /\ CacheOwn' /\ Located'
  BY <1>1, OwnAddsStep, CacheOwnStep, LocatedStep
<1> QED
  BY <1>2, <1>3 DEF RInv

(* RInv holds in every reachable state. *)
THEOREM Lookups == Spec => []RInv
<1>1. RInv /\ [Next]_vars => RInv'
  BY RInvStep
<1> QED
  BY <1>1, InitRInv, PTL DEF Spec

(* Firestore gives getIdByCode an empty answer, which documents[0] traps   *)
(* on, only for a code that is not registered when the query is answered:  *)
(* under every fault, online or from the cache, none for a partner that    *)
(* isExistingCode found, and none for an own code saveCode has written.    *)
THEOREM TrapsOnlyUnregistered == Spec => IndexTrapOnlyUnregistered
<1>1. RInv /\ [Next]_vars =>
        [/\ \A d \in Device :
              Registered(d) /\ ~EmptyAnswer(d) => ~EmptyAnswer(d)'
         /\ \A t \in Attempt :
              \/ attempt[t].pc = "ownId" /\ Registered(attempt[t].dev)
              \/ attempt[t].pc = "partnerId"
              => attempt'[t].pc # "missing"]_vars
  BY BootAnswered, TaskAnswered
<1> QED
  BY <1>1, Lookups, PTL DEF Spec, IndexTrapOnlyUnregistered

-----------------------------------------------------------------------------
(* Links name documents, where the server refuses no write *)

NothingRefused == "reject" \notin Fault

(* The code c is that of a document on the server. *)
Exists(c) == \E y \in Device : users[y].code = c

(* The code c is on the server, or among the first writes of d, before n. *)
Announced(d, c, n) ==
  Exists(c) \/ \E j \in DOMAIN queue[d] : j < n /\ queue[d][j] = Add(d, c)

(* A device announces a code before it links a document to it. *)
Anchored ==
  \A d \in Device : \A i \in DOMAIN queue[d] :
    queue[d][i].op = "update" => Announced(d, queue[d][i].val, i)

(* The code c is on the server or will be there before any new write of d. *)
Vouched(d, c) == Exists(c) \/ Queued(d, Add(d, c))

(* The two codes a task is about to link. *)
SoughtBy(a) ==
  /\ a.pc = "writeOwn" => Exists(a.target)
  /\ a.pc \in {"partnerId", "writeOwn"} /\ a.ownId # "" => Vouched(a.dev, code[a.dev])
  /\ a.pc = "writePartner" => Vouched(a.dev, code[a.dev])

Sought == \A t \in Attempt : SoughtBy(attempt[t])

LInv == RInv /\ Anchored /\ Sought /\ PartnerExists

(* The write m that a task of d puts into the queue. *)
Sends(t, d, m) ==
  /\ attempt[t].dev = d
  /\ \/ /\ WriteOwn(t) /\ attempt[t].ownId # ""
        /\ m = Update(attempt[t].ownId, attempt[t].target)
     \/ /\ WritePartner(t) /\ attempt[t].partnerId # ""
        /\ m = Update(attempt[t].partnerId, code[d])

(* What a step does to the queue of a device. *)
LEMMA QueueStep ==
  ASSUME IInv, [Next]_vars, NEW d \in Device
  PROVE  \/ queue'[d] = queue[d]
         \/ Commit(d) \/ Reject(d)
         \/ SaveCode(d) /\ queue'[d] = Append(queue[d], Add(d, code[d]))
         \/ \E t \in Attempt, m \in Mutation :
              Sends(t, d, m) /\ queue'[d] = Append(queue[d], m)
<1>0. queue \in [Device -> Seq(Mutation)] /\ queue[d] \in Seq(Mutation)
  BY DEF IInv, TypeOK
<1>1. ASSUME NEW e \in Device, DeviceStep(e), queue'[d] # queue[d]
      PROVE  SaveCode(d) \/ Commit(d) \/ Reject(d)
  <2>1. queue' # queue
    BY <1>1
  <2>2. SaveCode(e) \/ Commit(e) \/ Reject(e)
    BY <1>1, <2>1 DEF DeviceStep, Launch, Reappear, Kill, BootGetCode, ShowCode,
         Lookup, Listen, LookupMissing, LookupError, Snapshot, OnSnapshot, Die,
         DidConnectedPartner, RequestPartnerClothes, RequestNobodysClothes,
         OpenInput, CloseInput, CommitUnacknowledged
  <2>3. e = d
    BY <1>0, <1>1, <2>2 DEF SaveCode, Commit, Reject
  <2> QED
    BY <2>2, <2>3
<1>2. CASE SaveCode(d)
  BY <1>0, <1>2 DEF SaveCode
<1>3. ASSUME NEW t \in Attempt, AttemptStep(t), queue'[d] # queue[d]
      PROVE  \E m \in Mutation : Sends(t, d, m) /\ queue'[d] = Append(queue[d], m)
  <2>0. queue' # queue
    BY <1>3
  <2>1. WriteOwn(t) \/ WritePartner(t)
    BY <1>3, <2>0 DEF AttemptStep, Confirm, CheckExisting, FindOwn, FindPartner, FindMissing, Remember, Die
  <2>2. ASSUME NEW id, NEW val, NEW next, QueueUpdate(t, id, val, next)
        PROVE  id # "" /\ attempt[t].dev = d /\ queue'[d] = Append(queue[d], Update(id, val))
    BY <1>0, <1>3, <2>2 DEF QueueUpdate, Die
  <2>3. CASE WriteOwn(t)
    <3>1. /\ attempt[t].ownId # "" /\ attempt[t].dev = d
          /\ queue'[d] = Append(queue[d], Update(attempt[t].ownId, attempt[t].target))
      BY <2>2, <2>3 DEF WriteOwn
    <3>2. Update(attempt[t].ownId, attempt[t].target) \in Mutation
      BY <2>3, <3>1 DEF IInv, Tasks, Ids, Past, WriteOwn, Update, Mutation
    <3> QED
      BY <2>3, <3>1, <3>2 DEF Sends
  <2>4. CASE WritePartner(t)
    <3>1. /\ attempt[t].partnerId # "" /\ attempt[t].dev = d
          /\ queue'[d] = Append(queue[d], Update(attempt[t].partnerId, code[d]))
      BY <2>2, <2>4 DEF WritePartner
    <3>2. code[d] \in Code
      BY <2>4, <3>1 DEF IInv, Tasks, TypeOK, WritePartner
    <3>3. Update(attempt[t].partnerId, code[d]) \in Mutation
      BY <2>4, <3>1, <3>2 DEF IInv, Ids, WritePartner, Update, Mutation
    <3> QED
      BY <2>4, <3>1, <3>3 DEF Sends
  <2> QED
    BY <2>1, <2>3, <2>4
<1>4. CASE UNCHANGED vars
  BY <1>4 DEF vars
<1> QED
  BY <1>1, <1>2, <1>3, <1>4 DEF Next

(* A code on the server stays there. *)
LEMMA ExistsStays ==
  ASSUME IInv, [Next]_vars, NEW c, c # nil, Exists(c)
  PROVE  Exists(c)'
<1>1. PICK y \in Device : users[y].code = c
  BY DEF Exists
<1>2. users'[y].code = c
  BY <1>1, DocumentStays
<1> QED
  BY <1>2 DEF Exists

(* What is behind the first write moves up; a document the first write     *)
(* adds is then on the server.                                             *)
LEMMA CommitEffect ==
  ASSUME IInv, NEW d \in Device, Commit(d)
  PROVE  /\ queue[d] \in Seq(Mutation) /\ Len(queue[d]) \in Nat /\ Len(queue[d]) >= 1
         /\ DOMAIN queue[d] = 1 .. Len(queue[d])
         /\ DOMAIN queue'[d] = 1 .. (Len(queue[d]) - 1)
         /\ \A i \in DOMAIN queue'[d] : queue'[d][i] = queue[d][i + 1]
         /\ \A c \in Code : queue[d][1] = Add(d, c) => Exists(c)'
<1>1. queue[d] \in Seq(Mutation) /\ queue[d] # << >> /\ queue'[d] = Tail(queue[d])
  BY DEF IInv, TypeOK, Commit
<1>2. /\ Len(queue[d]) \in Nat /\ DOMAIN queue[d] = 1 .. Len(queue[d])
      /\ Len(queue[d]) # 0
  BY <1>1, EmptySeq, LenProperties
<1>3. /\ Tail(queue[d]) \in Seq(Mutation) /\ Len(Tail(queue[d])) = Len(queue[d]) - 1
      /\ Head(queue[d]) = queue[d][1]
  BY <1>1, <1>2, HeadTailProperties
<1>4. DOMAIN queue'[d] = 1 .. (Len(queue[d]) - 1)
  BY <1>1, <1>3, LenProperties
<1>5. \A i \in 1 .. (Len(queue[d]) - 1) : queue'[d][i] = queue[d][i + 1]
  BY <1>1, <1>2, <1>3, HeadTailProperties
<1>6. ASSUME NEW c \in Code, queue[d][1] = Add(d, c)
      PROVE  Exists(c)'
  <2>1. PICK m : m = Add(d, c) /\ users' = Applied(m)
    BY <1>3, <1>6 DEF Commit
  <2>2. users' = [users EXCEPT ![d] = [code |-> c, partner_code |-> ""]]
    BY <2>1 DEF Applied, Add
  <2>3. users'[d].code = c
    BY <2>2 DEF IInv, TypeOK
  <2> QED
    BY <2>3 DEF Exists
<1>7. Len(queue[d]) >= 1
  BY <1>2
<1> QED
  BY <1>1, <1>2, <1>4, <1>5, <1>6, <1>7

(* What is in the queue keeps its place when another write is queued. *)
LEMMA AppendEffect ==
  ASSUME IInv, NEW d \in Device, NEW m \in Mutation, queue'[d] = Append(queue[d], m)
  PROVE  /\ queue[d] \in Seq(Mutation) /\ Len(queue[d]) \in Nat
         /\ DOMAIN queue[d] = 1 .. Len(queue[d])
         /\ DOMAIN queue'[d] = 1 .. (Len(queue[d]) + 1)
         /\ \A i \in DOMAIN queue[d] : queue'[d][i] = queue[d][i]
         /\ queue'[d][Len(queue[d]) + 1] = m
<1>1. queue[d] \in Seq(Mutation)
  BY DEF IInv, TypeOK
<1>2. Len(queue[d]) \in Nat /\ DOMAIN queue[d] = 1 .. Len(queue[d])
  BY <1>1, LenProperties
<1>3. DOMAIN queue'[d] = 1 .. (Len(queue[d]) + 1)
  BY <1>1, AppendProperties, LenProperties
<1>4. \A i \in 1 .. Len(queue[d]) : queue'[d][i] = queue[d][i]
  BY <1>1, AppendProperties
<1>5. queue'[d][Len(queue[d]) + 1] = m
  BY <1>1, AppendProperties
<1> QED
  BY <1>1, <1>2, <1>3, <1>4, <1>5

(* The code of a device that saves it is a code. *)
LEMMA SavedCode ==
  ASSUME IInv, NEW d \in Device, SaveCode(d)
  PROVE  code[d] \in Code /\ Add(d, code[d]) \in Mutation
<1>1. code[d] \in Code
  BY DEF IInv, SavesStored, SaveCode, TypeOK
<1> QED
  BY <1>1 DEF Add, Mutation

(* A code that is vouched for stays so. *)
LEMMA VouchedStays ==
  ASSUME NothingRefused, IInv, [Next]_vars, NEW d \in Device, NEW c \in Code, Vouched(d, c)
  PROVE  Vouched(d, c)'
<1>1. CASE Exists(c)
  <2>1. c # nil
    BY CodeAssumption
  <2> QED
    BY <1>1, <2>1, ExistsStays DEF Vouched
<1>2. ASSUME NEW i \in DOMAIN queue[d], queue[d][i] = Add(d, c)
      PROVE  Vouched(d, c)'
  <2>1. CASE queue'[d] = queue[d]
    BY <1>2, <2>1 DEF Vouched, Queued
  <2>2. CASE Commit(d)
    <3>1. CASE i = 1
      BY <1>2, <2>2, <3>1, CommitEffect DEF Vouched
    <3>2. CASE i # 1
      <4>1. i \in 1 .. Len(queue[d]) /\ Len(queue[d]) \in Nat
        BY <1>2, <2>2, CommitEffect
      <4>2. i - 1 \in DOMAIN queue'[d]
        BY <2>2, <3>2, <4>1, CommitEffect
      <4>3. queue'[d][i - 1] = queue[d][(i - 1) + 1]
        BY <2>2, <4>2, CommitEffect
      <4>4. (i - 1) + 1 = i
        BY <4>1
      <4> QED
        BY <1>2, <4>2, <4>3, <4>4 DEF Vouched, Queued
    <3> QED
      BY <3>1, <3>2
  <2>3. CASE Reject(d)
    BY <2>3 DEF Reject, NothingRefused
  <2>4. ASSUME NEW m \in Mutation, queue'[d] = Append(queue[d], m)
        PROVE  Vouched(d, c)'
    <3>1. i \in DOMAIN queue'[d] /\ queue'[d][i] = Add(d, c)
      BY <1>2, <2>4, AppendEffect
    <3> QED
      BY <3>1 DEF Vouched, Queued
  <2>5. CASE SaveCode(d) /\ queue'[d] = Append(queue[d], Add(d, code[d]))
    BY <2>4, <2>5, SavedCode
  <2> QED
    BY <2>1, <2>2, <2>3, <2>4, <2>5, QueueStep
<1> QED
  BY <1>1, <1>2 DEF Vouched, Queued

(* A code is announced before a document is linked to it. *)
LEMMA AnchoredStep ==
  ASSUME NothingRefused, LInv, [Next]_vars
  PROVE  Anchored'
<1>0. IInv /\ IInv' /\ Anchored /\ Sought
  BY RInvStep DEF LInv, RInv
<1> SUFFICES ASSUME NEW d \in Device, NEW i \in DOMAIN queue'[d], queue'[d][i].op = "update"
             PROVE  Announced(d, queue[d][i].val, i)'
  BY DEF Anchored
<1>1. PICK c : c = queue'[d][i].val
  OBVIOUS
<1>2. c \in Code /\ c # nil
  <2>1. queue'[d] \in Seq(Mutation)
    BY <1>0 DEF IInv, TypeOK
  <2>2. queue'[d][i] \in Mutation
    BY <2>1, ElementOfSeq, LenProperties
  <2> QED
    BY <1>1, <2>2, CodeAssumption DEF Mutation
<1>3. CASE Exists(c)'
  BY <1>1, <1>3 DEF Announced
<1>4. CASE Exists(c)
  BY <1>0, <1>2, <1>3, <1>4, ExistsStays
<1>5. ASSUME NEW j \in DOMAIN queue'[d], j < i, queue'[d][j] = Add(d, c)
      PROVE  Announced(d, queue[d][i].val, i)'
  BY <1>1, <1>5 DEF Announced, Add
<1>6. CASE queue'[d] = queue[d]
  <2>1. Announced(d, c, i)
    BY <1>0, <1>1, <1>6 DEF Anchored
  <2>2. CASE \E j \in DOMAIN queue[d] : j < i /\ queue[d][j] = Add(d, c)
    BY <1>5, <1>6, <2>2
  <2> QED
    BY <1>4, <2>1, <2>2 DEF Announced
<1>7. CASE Commit(d)
  <2>0. /\ Len(queue[d]) \in Nat /\ DOMAIN queue[d] = 1 .. Len(queue[d])
        /\ DOMAIN queue'[d] = 1 .. (Len(queue[d]) - 1)
        /\ \A k \in DOMAIN queue'[d] : queue'[d][k] = queue[d][k + 1]
    BY <1>0, <1>7, CommitEffect
  <2>1. i + 1 \in DOMAIN queue[d] /\ queue'[d][i] = queue[d][i + 1]
    BY <2>0
  <2>2. Announced(d, c, i + 1)
    BY <1>0, <1>1, <2>1 DEF Anchored
  <2>3. ASSUME NEW j \in DOMAIN queue[d], j < i + 1, queue[d][j] = Add(d, c)
        PROVE  Announced(d, queue[d][i].val, i)'
    <3>1. CASE j = 1
      BY <1>0, <1>2, <1>3, <1>7, <2>3, <3>1, CommitEffect
    <3>2. CASE j # 1
      <4>1. j - 1 \in DOMAIN queue'[d] /\ j - 1 < i /\ (j - 1) + 1 = j
        BY <2>0, <2>3, <3>2
      <4>2. queue'[d][j - 1] = queue[d][(j - 1) + 1]
        BY <2>0, <4>1
      <4> QED
        BY <1>5, <2>3, <4>1, <4>2
    <3> QED
      BY <3>1, <3>2
  <2> QED
    BY <1>4, <2>2, <2>3 DEF Announced
<1>8. CASE Reject(d)
  BY <1>8 DEF Reject, NothingRefused
<1>9. ASSUME NEW m \in Mutation, queue'[d] = Append(queue[d], m),
             m.op = "update" => Vouched(d, m.val)
      PROVE  Announced(d, queue[d][i].val, i)'
  <2>0. /\ Len(queue[d]) \in Nat /\ DOMAIN queue[d] = 1 .. Len(queue[d])
        /\ DOMAIN queue'[d] = 1 .. (Len(queue[d]) + 1)
        /\ \A k \in DOMAIN queue[d] : queue'[d][k] = queue[d][k]
        /\ queue'[d][Len(queue[d]) + 1] = m
    BY <1>0, <1>9, AppendEffect
  <2>1. CASE i \in DOMAIN queue[d]
    <3>1. Announced(d, c, i)
      BY <1>0, <1>1, <2>0, <2>1 DEF Anchored
    <3>2. ASSUME NEW j \in DOMAIN queue[d], j < i, queue[d][j] = Add(d, c)
          PROVE  Announced(d, queue[d][i].val, i)'
      BY <1>5, <2>0, <3>2
    <3> QED
      BY <1>4, <3>1, <3>2 DEF Announced
  <2>2. CASE i = Len(queue[d]) + 1
    <3>1. Vouched(d, c)
      BY <1>1, <1>9, <2>0, <2>2
    <3>2. ASSUME NEW j \in DOMAIN queue[d], queue[d][j] = Add(d, c)
          PROVE  Announced(d, queue[d][i].val, i)'
      <4>1. j \in DOMAIN queue'[d] /\ j < i /\ queue'[d][j] = Add(d, c)
        BY <2>0, <2>2, <3>2
      <4> QED
        BY <1>5, <4>1
    <3> QED
      BY <1>4, <3>1, <3>2 DEF Vouched, Queued
  <2> QED
    BY <2>0, <2>1, <2>2
<1>10. CASE SaveCode(d) /\ queue'[d] = Append(queue[d], Add(d, code[d]))
  <2>1. Add(d, code[d]) \in Mutation /\ Add(d, code[d]).op = "add"
    BY <1>0, <1>10, SavedCode DEF Add
  <2> QED
    BY <1>9, <1>10, <2>1
<1>11. ASSUME NEW t \in Attempt, NEW m \in Mutation, Sends(t, d, m),
              queue'[d] = Append(queue[d], m)
       PROVE  Announced(d, queue[d][i].val, i)'
  <2>1. SoughtBy(attempt[t]) /\ attempt[t].dev = d
    BY <1>0, <1>11 DEF Sought, Sends
  <2>2. CASE WriteOwn(t) /\ m = Update(attempt[t].ownId, attempt[t].target)
    <3>1. Exists(m.val)
      BY <2>1, <2>2 DEF SoughtBy, WriteOwn, Update
    <3> QED
      BY <1>9, <1>11, <3>1 DEF Vouched
  <2>3. CASE WritePartner(t) /\ m = Update(attempt[t].partnerId, code[d])
    <3>1. Vouched(d, code[d]) /\ m.val = code[d]
      BY <2>1, <2>3 DEF SoughtBy, WritePartner, Update
    <3> QED
      BY <1>9, <1>11, <3>1
  <2> QED
    BY <1>11, <2>2, <2>3 DEF Sends
<1> QED
  BY <1>0, <1>6, <1>7, <1>8, <1>10, <1>11, QueueStep

(* What a task has found stays on the server or on its way there. *)
LEMMA SoughtStep ==
  ASSUME NothingRefused, LInv, [Next]_vars
  PROVE  Sought'
<1>0. IInv /\ OwnAdds /\ Located /\ Sought /\ TypeOK /\ Tasks
  BY DEF LInv, RInv, IInv
<1> SUFFICES ASSUME NEW t \in Attempt
             PROVE  SoughtBy(attempt[t])'
  BY DEF Sought
<1>1. PICK a \in Task : a = attempt[t]
  BY <1>0 DEF TypeOK
<1> DEFINE b == attempt'[t]
<1>A. CASE b.pc \notin {"partnerId", "writeOwn", "writePartner"}
  BY <1>A DEF SoughtBy
<1>2. CASE a.pc = "unused"
  <2>1. AttemptStep(t) \/ b = a
    BY <1>0, <1>1, <1>2, OtherTasks DEF Running
  <2>2. CASE AttemptStep(t)
    <3>1. PICK e \in Device, c \in Code \cup {""}, via \in {"main", "settings"} : Confirm(t, e, c, via)
      BY <1>1, <1>2, <2>2 DEF AttemptStep, CheckExisting, FindOwn, FindPartner, FindMissing, WriteOwn,
                              WritePartner, Remember
    <3>2. b.pc \in {"callMySelf", "exists"}
      BY <1>0, <3>1 DEF Confirm, Idle, TypeOK
    <3> QED
      BY <1>A, <3>2
  <2> QED
    BY <1>2, <1>A, <2>1, <2>2
<1>3. CASE a.pc # "unused"
  <2>1. PICK e \in Device, c \in Code : e = a.dev /\ c = code[e] /\ c # nil
    BY <1>0, <1>1, <1>3, CodeAssumption DEF Tasks, TypeOK
  <2>2. PICK k : k = a.target /\ k # nil
    BY <1>0, <1>1, <1>3 DEF Tasks
  <2>3. b.dev = e /\ code'[e] = c /\ b.target = k
    BY <1>0, <1>1, <1>3, <2>1, <2>2, TaskStays, CodeStays
  <2>4. (Vouched(e, c) => Vouched(e, c)') /\ (Exists(k) => Exists(k)')
    BY <1>0, <2>2, VouchedStays, ExistsStays
  <2>5. /\ a.pc = "writeOwn" => Exists(k)
        /\ a.pc \in {"partnerId", "writeOwn"} /\ a.ownId # "" => Vouched(e, c)
        /\ a.pc = "writePartner" => Vouched(e, c)
    BY <1>0, <1>1, <2>1, <2>2 DEF Sought, SoughtBy
  <2>6. a.pc = "partnerId" => Exists(k)
    <3>1. a.pc = "partnerId" => Seen(e, k)
      BY <1>0, <1>1, <2>1, <2>2 DEF Located
    <3>2. cache[e] \subseteq Device
      BY <1>0 DEF TypeOK
    <3> QED
      BY <3>1, <3>2 DEF Seen, Exists
  <2>7. ASSUME b.pc = "writeOwn" => Exists(k)',
               b.pc \in {"partnerId", "writeOwn"} /\ b.ownId # "" => Vouched(e, c)',
               b.pc = "writePartner" => Vouched(e, c)'
        PROVE  SoughtBy(attempt[t])'
    BY <2>3, <2>7 DEF SoughtBy
  <2>8. CASE b = a
    BY <2>4, <2>5, <2>7, <2>8
  <2>9. CASE b = Dead(a)
    BY <1>1, <1>A, <2>9 DEF Dead, Task
  <2>10. CASE AttemptStep(t)
    <3>1. CASE a.pc = "exists" /\ (b = [a EXCEPT !.pc = "invalidPartnerCode"] \/ b = [a EXCEPT !.pc = "ownId"])
      BY <1>1, <1>A, <3>1 DEF Task
    <3>2. ASSUME a.pc = "ownId", NEW x \in Matches(e, c) \cup {""},
                 b = [a EXCEPT !.pc = "partnerId", !.ownId = x]
          PROVE  SoughtBy(attempt[t])'
      <4>1. b.pc = "partnerId" /\ b.ownId = x
        BY <1>1, <3>2 DEF Task
      <4>2. x # "" => Vouched(e, c)
        <5>1. ASSUME NEW i \in DOMAIN queue[e], queue[e][i] = Add(x, c), x \in Device
              PROVE  Queued(e, Add(e, c))
          <6>1. Add(x, c) \in Mutation /\ Queued(e, Add(x, c)) /\ Add(x, c).op = "add"
            BY <5>1 DEF Add, Mutation, Queued
          <6>2. Add(x, c).doc = e
            BY <1>0, <6>1 DEF OwnAdds
          <6>3. x = e
            BY <6>2 DEF Add
          <6> QED
            BY <6>1, <6>3
        <5>2. x # "" => x \in Device /\ (users[x].code = c \/ \E i \in DOMAIN queue[e] : queue[e][i] = Add(x, c))
          BY <3>2 DEF Matches
        <5> QED
          BY <5>1, <5>2 DEF Vouched, Exists
      <4> QED
        BY <2>4, <2>7, <4>1, <4>2
    <3>3. ASSUME a.pc = "partnerId", NEW x, b = [a EXCEPT !.pc = "writeOwn", !.partnerId = x]
          PROVE  SoughtBy(attempt[t])'
      <4>1. b.pc = "writeOwn" /\ b.ownId = a.ownId
        BY <1>1, <3>3 DEF Task
      <4> QED
        BY <2>4, <2>5, <2>6, <2>7, <3>3, <4>1
    <3>4. CASE a.pc = "writeOwn" /\ b = [a EXCEPT !.pc = "writePartner"]
      <4>1. b.pc = "writePartner"
        BY <1>1, <3>4 DEF Task
      <4>2. WriteOwn(t)
        BY <1>1, <2>10, <3>4 DEF AttemptStep, Confirm, CheckExisting, FindOwn, FindPartner, FindMissing,
                                 WritePartner, Remember
      <4>3. a.ownId # ""
        <5>1. CASE Die(a.dev, "path")
          <6>1. b.pc = "dead"
            BY <1>1, <3>4, <5>1 DEF Die, Running, Task
          <6> QED
            BY <4>1, <6>1
        <5> QED
          BY <1>1, <4>2, <5>1 DEF WriteOwn, QueueUpdate
      <4> QED
        BY <2>4, <2>5, <2>7, <3>4, <4>1, <4>3
    <3>5. CASE a.pc = "writePartner" /\ b = [a EXCEPT !.pc = "remember"]
      BY <1>1, <1>A, <3>5 DEF Task
    <3>6. CASE a.pc = "remember" /\ b = [a EXCEPT !.pc = "success"]
      BY <1>1, <1>A, <3>6 DEF Task
    <3>7. CASE a.pc = "ownId" /\ \E x \in Matches(e, c) \cup {""} :
                 b = [a EXCEPT !.pc = "partnerId", !.ownId = x]
      BY <3>2, <3>7
    <3>8. CASE a.pc = "partnerId" /\ \E x \in Matches(e, k) \cup {""} :
                 b = [a EXCEPT !.pc = "writeOwn", !.partnerId = x]
      BY <3>3, <3>8
    <3>9. CASE \/ a.pc = "ownId" /\ b = [a EXCEPT !.pc = "missing", !.ownId = nil]
               \/ a.pc = "partnerId" /\ b = [a EXCEPT !.pc = "missing", !.partnerId = nil]
      BY <1>1, <1>A, <3>9 DEF Task
    <3> HIDE DEF b
    <3> QED
      BY <1>0, <1>1, <1>3, <2>1, <2>2, <2>8, <2>9, <2>10, <3>1, <3>4, <3>5, <3>6, <3>7,
         <3>8, <3>9, OwnStep DEF b
  <2> QED
    BY <1>0, <1>1, <2>8, <2>9, <2>10, OtherTasks
<1> QED
  BY <1>2, <1>3

(* A link that the server applies names a document there. *)
LEMMA PartnerExistsStep ==
  ASSUME NothingRefused, LInv, [Next]_vars
  PROVE  PartnerExists'
<1>0. IInv /\ Anchored /\ PartnerExists /\ TypeOK
  BY DEF LInv, RInv, IInv
<1> SUFFICES ASSUME NEW x \in Device, users'[x].partner_code \in Code
             PROVE  Exists(users[x].partner_code)'
  BY DEF PartnerExists, Exists
<1>1. PICK c \in Code : c = users'[x].partner_code
  OBVIOUS
<1>2. c # nil
  BY CodeAssumption
<1>3. SUFFICES Exists(c)
  BY <1>0, <1>1, <1>2, <1>3, ExistsStays
<1>4. CASE users[x].partner_code = c
  BY <1>0, <1>4 DEF PartnerExists, Exists
<1>5. ASSUME NEW d \in Device, Applies(d), users[x].partner_code # c
      PROVE  Exists(c)
  <2>1. PICK m \in Mutation : m = Head(queue[d])
    BY <1>0, <1>5, HeadQueued DEF Applies
  <2>2. users' = Applied(m) /\ m.op \in {"add", "update"} /\ m.doc \in Device /\ m.val \in Code
    BY <1>5, <2>1 DEF Applies, Mutation
  <2>3. users \in [Device -> User] /\ users[x] \in User
    BY <1>0 DEF TypeOK
  <2>4. m.op = "update" /\ m.val = c
    BY <1>1, <1>5, <2>2, <2>3, CodeAssumption DEF Applied, User
  <2>5. queue[d] \in Seq(Mutation) /\ queue[d] # << >>
    BY <1>0, <1>5 DEF TypeOK, Applies
  <2>6. DOMAIN queue[d] = 1 .. Len(queue[d]) /\ Len(queue[d]) \in Nat /\ Len(queue[d]) # 0
    BY <2>5, EmptySeq, LenProperties
  <2>7. 1 \in DOMAIN queue[d] /\ queue[d][1] = m
    BY <2>1, <2>5, <2>6
  <2>8. Announced(d, c, 1)
    BY <1>0, <2>4, <2>7 DEF Anchored
  <2>9. ~ \E j \in DOMAIN queue[d] : j < 1
    BY <2>6
  <2> QED
    BY <2>8, <2>9 DEF Announced
<1> QED
  BY <1>0, <1>1, <1>4, <1>5, UsersStay

(* The invariant of the links holds at first and is inductive. *)
LEMMA LInvStep ==
  ASSUME NothingRefused
  PROVE  (Init => LInv) /\ (LInv /\ [Next]_vars => LInv')
<1>1. ASSUME Init PROVE LInv
  <2>1. \A d \in Device : DOMAIN queue[d] = {} /\ users[d].partner_code = ""
    BY <1>1, NoIndex DEF Init
  <2>2. \A t \in Attempt : attempt[t].pc = "unused"
    BY <1>1 DEF Init, Idle
  <2>3. Anchored /\ PartnerExists
    BY <2>1, CodeAssumption DEF Anchored, PartnerExists
  <2>4. Sought
    BY <2>2 DEF Sought, SoughtBy
  <2> QED
    BY <1>1, <2>3, <2>4, InitRInv DEF LInv
<1>2. ASSUME LInv, [Next]_vars PROVE LInv'
  <2>1. RInv'
    BY <1>2, RInvStep DEF LInv
  <2> QED
    BY <1>2, <2>1, AnchoredStep, SoughtStep, PartnerExistsStep DEF LInv
<1> QED
  BY <1>1, <1>2

(* Unless the server refuses a write, a partner_code on the server is the  *)
(* code of a document on the server, whatever tasks, crashes, failing      *)
(* lookups and resent writes interleave: isExistingCode guards the one     *)
(* half of a link, the order of the write queue the other.                 *)
THEOREM PartnerAlwaysExists == NothingRefused => (Spec => []PartnerExists)
<1> SUFFICES ASSUME NothingRefused PROVE Spec => []PartnerExists
  OBVIOUS
<1>1. (Init => LInv) /\ (LInv /\ [Next]_vars => LInv')
  BY LInvStep
<1>2. LInv => PartnerExists
  BY DEF LInv
<1> QED
  BY <1>1, <1>2, PTL DEF Spec
=============================================================================
