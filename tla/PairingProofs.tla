---------------------------- MODULE PairingProofs ----------------------------
(***************************************************************************)
(* For any number of devices, codes and taps, and with every fault allowed,*)
(* Pairing keeps its types and never couples anybody without consent.      *)
(*                                                                         *)
(* Consent alone is not inductive: a link on the server was an update in a *)
(* queue, that was a task with two document ids, that was a tap.  Each of  *)
(* the invariants below follows one of these stations.                     *)
(***************************************************************************)
EXTENDS Pairing, SequenceTheorems, TLAPS

(* A document on the server carries the code of its device, and has no     *)
(* partner before it exists.                                               *)
Documents ==
  \A x \in Device : /\ users[x].code \in {nil, code[x]}
                    /\ users[x].code = nil => users[x].partner_code = ""

(* A code is saved only after it was stored. *)
SavesStored == \A d \in Device : app[d].saving => code[d] # nil

Past == {"ownId", "partnerId", "writeOwn", "writePartner", "remember", "success"}

(* A task belongs to a device with a code, and past isExistingCode it is   *)
(* after another code.                                                     *)
Tasks ==
  \A t \in Attempt : LET a == attempt[t] IN
    /\ a.pc = "unused" <=> a.dev = nil
    /\ a.pc # "unused" => a.dev \in Device /\ code[a.dev] # nil /\ a.target # nil
    /\ a.pc \in Running \cup Past => a.target # code[a.dev]
    /\ a.pc \in Past => a.target \in Code

(* The ids a task has found are those of the documents of its two codes. *)
Ids ==
  \A t \in Attempt : LET a == attempt[t] IN
    /\ a.pc \in {"partnerId", "writeOwn", "writePartner"} =>
         a.ownId = "" \/ (a.ownId \in Device /\ code[a.ownId] = code[a.dev])
    /\ a.pc \in {"writeOwn", "writePartner"} =>
         a.partnerId = "" \/ (a.partnerId \in Device /\ code[a.partnerId] = a.target)

(* One of the two typed the other's code. *)
Agreed(a, b) == Asked(a, b) \/ Asked(b, a)

(* A write that adds the own code, or links two codes that agreed. *)
Sound(m) ==
  /\ code[m.doc] # nil
  /\ m.op = "add" => m.val = code[m.doc]
  /\ m.op = "update" => Agreed(code[m.doc], m.val)

Queued(d, m) == \E i \in DOMAIN queue[d] : queue[d][i] = m

(* Only such writes are queued. *)
Writes == \A d \in Device, m \in Mutation : Queued(d, m) => Sound(m)

IInv == TypeOK /\ Documents /\ SavesStored /\ Tasks /\ Ids /\ Writes /\ Consent

-----------------------------------------------------------------------------
(* Types *)

(* A fresh process has the type of a process. *)
LEMMA ProcessType ==
  ASSUME NEW up \in BOOLEAN, NEW death \in Death, NEW boot \in Boot
  PROVE  Process(up, death, boot) \in App
BY DEF Process, App

(* An empty queue has no index. *)
LEMMA NoIndex == DOMAIN << >> = {}
<1>1. << >> \in Seq({}) /\ Len(<< >>) = 0
  BY EmptySeq
<1>2. DOMAIN << >> = 1 .. 0
  BY <1>1, LenProperties, Zenon
<1> QED
  BY <1>2

(* Nothing is wrong in the initial state. *)
LEMMA InitIInv == Init => IInv
<1> SUFFICES ASSUME Init PROVE IInv
  OBVIOUS
<1>1. TypeOK
  <2>1. \A d \in Device : app[d] \in App
    BY ProcessType DEF Init, Death, Boot
  <2>2. app \in [Device -> App]
    BY <2>1 DEF Init
  <2>3. attempt \in [Attempt -> Task]
    BY DEF Init, Idle, Task
  <2>4. users \in [Device -> User]
    BY DEF Init, User
  <2>5. code \in [Device -> Code \cup {nil}] /\ partner_code \in [Device -> Code \cup {nil, ""}]
    BY DEF Init
  <2>6. queue \in [Device -> Seq(Mutation)]
    BY EmptySeq DEF Init
  <2>7. cache \in [Device -> SUBSET Device] /\ appeared \in [Device -> Nat]
    BY DEF Init
  <2> QED
    BY <2>2, <2>3, <2>4, <2>5, <2>6, <2>7 DEF TypeOK
<1>2. Documents
  BY DEF Init, Documents
<1>6. Writes
  <2>1. \A d \in Device : DOMAIN queue[d] = {}
    BY NoIndex DEF Init
  <2> QED
    BY <2>1 DEF Writes, Queued
<1>3. SavesStored
  BY DEF Init, SavesStored, Process
<1>4. Tasks /\ Ids
  BY DEF Init, Idle, Tasks, Ids, Running, Past
<1>5. Consent
  BY CodeAssumption DEF Init, Consent
<1> QED
  BY <1>1, <1>2, <1>3, <1>4, <1>5, <1>6 DEF IInv

(* A task that moves on is still a task. *)
LEMMA TaskPc ==
  ASSUME NEW a \in Task, NEW pc \in {"unused"} \cup Running \cup Finished
  PROVE  [a EXCEPT !.pc = pc] \in Task
BY DEF Task

(* Whatever ends a process keeps the types. *)
LEMMA DieType ==
  ASSUME TypeOK, NEW d \in Device, NEW how \in Death, Die(d, how)
  PROVE  TypeOK'
<1>1. app' \in [Device -> App]
  <2>1. Process(FALSE, how, "off") \in App
    BY ProcessType DEF Boot
  <2> QED
    BY <2>1 DEF Die, TypeOK
<1>2. attempt' \in [Attempt -> Task]
  <2>1. \A t \in Attempt : [attempt[t] EXCEPT !.pc = "dead"] \in Task
    BY TaskPc DEF TypeOK, Finished
  <2> QED
    BY <2>1 DEF Die, TypeOK
<1> QED
  BY <1>1, <1>2 DEF Die, TypeOK

(* A query answers with documents. *)
LEMMA AnswersType ==
  ASSUME NEW d, NEW c, NEW found \in Answers(d, c)
  PROVE  found \subseteq Device
BY DEF Answers, Matches

(* An answer is not a document, nor the empty path. *)
LEMMA NilAnswer == nil \notin Device /\ "" \notin Device /\ nil # ""
BY DeviceAssumption DEF nil

(* What is taken from an answer is one of its documents, or nil when there *)
(* is none.                                                                *)
LEMMA FirstFound ==
  ASSUME NEW d, NEW c, NEW found \in Answers(d, c), NEW x \in FirstOf(found)
  PROVE  \/ x \in Device /\ x \in found /\ x \in Matches(d, c) /\ x # nil
         \/ x = nil /\ found = {}
<1>1. found \subseteq Device /\ found \subseteq Matches(d, c)
  BY AnswersType DEF Answers
<1> QED
  BY <1>1, NilAnswer DEF FirstOf

(* The value a client shows for a document is one a document can hold. *)
LEMMA ViewType ==
  ASSUME TypeOK, NEW d \in Device, NEW x \in Device, NEW v \in View(d, x)
  PROVE  v \in Code \cup {"", " "}
<1>1. users[x].partner_code \in Code \cup {"", " "}
  BY DEF TypeOK, User
<1>2. \A i \in DOMAIN queue[d] : queue[d][i].val \in Code
  <2>1. queue[d] \in Seq(Mutation)
    BY DEF TypeOK
  <2>2. \A i \in DOMAIN queue[d] : queue[d][i] \in Mutation
    BY <2>1, ElementOfSeq, LenProperties
  <2> QED
    BY <2>2 DEF Mutation
<1>3. \A i \in DOMAIN queue[d] : Written(queue[d][i]) \in Code \cup {"", " "}
  BY <1>2 DEF Written
<1> QED
  BY <1>1, <1>3 DEF View

(* getCode stores a code and moves its caller on. *)
LEMMA GetCodeType ==
  ASSUME TypeOK, NEW d \in Device, NEW next \in Boot, GetCode(d, next)
  PROVE  app' \in [Device -> App] /\ code' \in [Device -> Code \cup {nil}]
<1>1. app \in [Device -> App] /\ app[d] \in App
  BY DEF TypeOK
<1>2. [app[d] EXCEPT !.boot = next] \in App
  BY <1>1 DEF App
<1>3. [app[d] EXCEPT !.boot = next, !.saving = TRUE] \in App
  BY <1>1 DEF App
<1>4. app' = [app EXCEPT ![d] = [app[d] EXCEPT !.boot = next]]
      \/ app' = [app EXCEPT ![d] = [app[d] EXCEPT !.boot = next, !.saving = TRUE]]
  BY <1>1, <1>2, <1>3 DEF GetCode
<1>5. app' \in [Device -> App]
  BY <1>1, <1>2, <1>3, <1>4
<1>6. code' \in [Device -> Code \cup {nil}]
  BY DEF GetCode, Generated, TypeOK
<1> QED
  BY <1>5, <1>6

(* Every step of a device keeps the types. *)
LEMMA DeviceType ==
  ASSUME TypeOK, SavesStored, NEW d \in Device, DeviceStep(d)
  PROVE  TypeOK'
<1>0. app[d] \in App /\ queue[d] \in Seq(Mutation) /\ app[d].mainq \in Seq(MainJob)
  BY DEF TypeOK, App
<1>A. app \in [Device -> App] /\ appeared \in [Device -> Nat]
  BY DEF TypeOK
<1>B. app[d].fetches \in Nat /\ app[d].watched \in SUBSET Code
  BY <1>0 DEF App
<1>C. \A n \in Nat : n + 1 \in Nat /\ (n > 0 => n - 1 \in Nat)
  OBVIOUS
<1>1. CASE Launch(d)
  <2>1. Process(TRUE, "none", "getCode") \in App
    BY ProcessType DEF Death, Boot
  <2>2. app' \in [Device -> App]
    BY <1>1, <1>A, <2>1 DEF Launch
  <2>3. appeared' \in [Device -> Nat]
    BY <1>1, <1>A DEF Launch
  <2> QED
    BY <1>1, <2>2, <2>3 DEF Launch, TypeOK
<1>2. CASE Reappear(d)
  <2>1. [app[d] EXCEPT !.boot = "getCode"] \in App
    BY <1>0 DEF App, Boot
  <2>2. app' \in [Device -> App]
    BY <1>2, <1>A, <2>1 DEF Reappear
  <2>3. appeared' \in [Device -> Nat]
    BY <1>2, <1>A DEF Reappear
  <2> QED
    BY <1>2, <2>2, <2>3 DEF Reappear, TypeOK
<1>3. CASE Kill(d)
  BY <1>3, DieType DEF Kill, Death
<1>4. CASE BootGetCode(d)
  BY <1>4, GetCodeType DEF BootGetCode, Boot, TypeOK
<1>5. CASE ShowCode(d)
  <2>1. app[d].boot \in Boot
    BY <1>0 DEF App
  <2> QED
    BY <1>5, <2>1, GetCodeType DEF ShowCode, TypeOK
<1>6. CASE SaveCode(d)
  <2>1. Add(d, code[d]) \in Mutation
    BY <1>6 DEF SaveCode, SavesStored, Add, Mutation, TypeOK
  <2>2. Append(queue[d], Add(d, code[d])) \in Seq(Mutation)
    BY <1>0, <2>1, AppendProperties
  <2> QED
    BY <1>0, <1>6, <2>2 DEF SaveCode, App, TypeOK
<1>7. CASE Lookup(d)
  <2>1. PICK x \in Device \cup {nil, ""}, found \in SUBSET Device :
          /\ app' = [app EXCEPT ![d].boot = "answered", ![d].answer = x]
          /\ cache' = [cache EXCEPT ![d] = @ \cup found] \/ cache' = cache
    <3>1. CASE \E found \in Answers(d, code[d]) : \E x \in FirstOf(found) :
                 /\ app' = [app EXCEPT ![d].boot = "answered", ![d].answer = x]
                 /\ cache' = [cache EXCEPT ![d] = @ \cup found]
      BY <3>1, AnswersType, FirstFound
    <3>2. CASE /\ app' = [app EXCEPT ![d].boot = "answered", ![d].answer = ""]
               /\ cache' = cache
      BY <3>2
    <3> QED
      BY <1>7, <3>1, <3>2 DEF Lookup
  <2>3. [app[d] EXCEPT !.boot = "answered", !.answer = x] \in App
    BY <1>0 DEF App, Boot
  <2>4. app' \in [Device -> App]
    BY <1>A, <2>1, <2>3
  <2>6. cache' \in [Device -> SUBSET Device]
    BY <2>1 DEF TypeOK
  <2> QED
    BY <1>7, <2>4, <2>6 DEF Lookup, TypeOK
<1>18. CASE Listen(d)
  <2>1. [app[d] EXCEPT !.boot = "ready", !.answer = nil,
                       !.listening = app[d].answer, !.raised = nil] \in App
    BY <1>0, <1>18 DEF Listen, App, Boot
  <2>2. app' \in [Device -> App]
    BY <1>A, <1>18, <2>1 DEF Listen
  <2> QED
    BY <1>18, <2>2 DEF Listen, TypeOK
<1>8. CASE LookupMissing(d) \/ LookupError(d)
  BY <1>8, DieType DEF LookupMissing, LookupError, Death
<1>9. CASE Snapshot(d)
  <2>1. PICK v \in View(d, app[d].listening) : app' = [app EXCEPT
         ![d].raised = v,
         ![d].mainq = Append(@, [job |-> "snapshot", val |-> v])]
    BY <1>9 DEF Snapshot
  <2>2. v \in Code \cup {"", " "}
    BY <1>0, <1>9, ViewType DEF Snapshot, App
  <2>3. Append(app[d].mainq, [job |-> "snapshot", val |-> v]) \in Seq(MainJob)
    BY <1>0, <2>2, AppendProperties DEF MainJob
  <2> QED
    BY <1>0, <1>9, <2>1, <2>2, <2>3 DEF Snapshot, App, TypeOK
<1>10. CASE OnSnapshot(d)
  <2>1. Head(app[d].mainq) \in MainJob /\ Tail(app[d].mainq) \in Seq(MainJob)
    BY <1>0, <1>10, HeadTailProperties DEF OnSnapshot
  <2> DEFINE data == Head(app[d].mainq).val
             temp == IF data # " " THEN data ELSE ""
             more == IF temp # "" THEN app[d].fetches + 1 ELSE app[d].fetches
  <2>2. temp \in Code \cup {""}
    BY <2>1 DEF MainJob
  <2>3. more \in Nat
    BY <1>B, <1>C
  <2>4. [app[d] EXCEPT !.mainq = Tail(app[d].mainq), !.connected = (temp # ""),
                       !.fetches = more] \in App
    BY <1>0, <2>1, <2>3 DEF App
  <2>5. app' \in [Device -> App]
    BY <1>10, <1>A, <2>4 DEF OnSnapshot
  <2>6. partner_code' \in [Device -> Code \cup {nil, ""}]
    BY <1>10, <2>2 DEF OnSnapshot, TypeOK
  <2> QED
    BY <1>10, <2>5, <2>6 DEF OnSnapshot, TypeOK
<1>11. CASE DidConnectedPartner(d)
  <2>1. Tail(app[d].mainq) \in Seq(MainJob)
    BY <1>0, <1>11, HeadTailProperties DEF DidConnectedPartner
  <2>2. [app[d] EXCEPT !.mainq = Tail(app[d].mainq), !.connected = TRUE,
                       !.fetches = app[d].fetches + 1] \in App
    <3>1. app[d].fetches + 1 \in Nat
      BY <1>B
    <3> QED
      BY <1>0, <2>1, <3>1 DEF App
  <2>3. app' \in [Device -> App]
    BY <1>11, <1>A, <2>2 DEF DidConnectedPartner
  <2> QED
    BY <1>11, <2>3 DEF DidConnectedPartner, TypeOK
<1>12. CASE RequestPartnerClothes(d)
  <2> DEFINE seen == IF partner_code[d] = nil THEN app[d].watched
                     ELSE app[d].watched \cup {partner_code[d]}
  <2>1. app[d].fetches - 1 \in Nat
    BY <1>B, <1>C, <1>12 DEF RequestPartnerClothes
  <2>4. seen \in SUBSET Code
    BY <1>B, <1>12 DEF RequestPartnerClothes, TypeOK
  <2>2. [app[d] EXCEPT !.fetches = app[d].fetches - 1, !.watched = seen] \in App
    BY <1>0, <2>1, <2>4 DEF App
  <2>3. app' \in [Device -> App]
    BY <1>12, <1>A, <2>2 DEF RequestPartnerClothes
  <2> QED
    BY <1>12, <2>3 DEF RequestPartnerClothes, TypeOK
<1>13. CASE RequestNobodysClothes(d)
  BY <1>13, DieType DEF RequestNobodysClothes, Death
<1>14. CASE OpenInput(d)
  BY <1>0, <1>14 DEF OpenInput, App, TypeOK
<1>16. CASE CloseInput(d)
  BY <1>0, <1>16 DEF CloseInput, App, TypeOK
<1>15. CASE Commit(d) \/ Reject(d)
  <2>1. Head(queue[d]) \in Mutation /\ Tail(queue[d]) \in Seq(Mutation)
    BY <1>0, <1>15, HeadTailProperties DEF Commit, Reject
  <2>2. Applied(Head(queue[d])) \in [Device -> User]
    BY <2>1 DEF Applied, User, Mutation, TypeOK
  <2> QED
    BY <1>15, <2>1, <2>2 DEF Commit, Reject, TypeOK
<1>17. CASE CommitUnacknowledged(d)
  <2>1. Head(queue[d]) \in Mutation
    BY <1>0, <1>17, HeadTailProperties DEF CommitUnacknowledged
  <2>2. Applied(Head(queue[d])) \in [Device -> User]
    BY <2>1 DEF Applied, User, Mutation, TypeOK
  <2>3. [app[d] EXCEPT !.resent = TRUE] \in App
    BY <1>0 DEF App
  <2>4. app' \in [Device -> App]
    BY <1>17, <1>A, <2>3 DEF CommitUnacknowledged
  <2> QED
    BY <1>17, <2>2, <2>4 DEF CommitUnacknowledged, TypeOK
<1> QED
  BY <1>1, <1>2, <1>3, <1>4, <1>5, <1>6, <1>7, <1>8, <1>9, <1>10, <1>11,
     <1>12, <1>13, <1>14, <1>15, <1>16, <1>17, <1>18 DEF DeviceStep

(* Every step of a connectWithPartner task keeps the types. *)
LEMMA AttemptType ==
  ASSUME TypeOK, Tasks, Ids, NEW t \in Attempt, AttemptStep(t)
  PROVE  TypeOK'
<1> DEFINE a == attempt[t]
           d == attempt[t].dev
<1>0. a \in Task
  BY DEF TypeOK
<1>A. a.pc # "unused" => d \in Device /\ app[d] \in App /\ code[d] \in Code
  BY <1>0 DEF Tasks, TypeOK
<1>B. \A pc \in {"unused"} \cup Running \cup Finished :
        [attempt EXCEPT ![t].pc = pc] \in [Attempt -> Task]
  BY <1>0, TaskPc DEF TypeOK
<1>C. \A found \in SUBSET Device :
        a.pc # "unused" => [cache EXCEPT ![d] = @ \cup found] \in [Device -> SUBSET Device]
  BY <1>A DEF TypeOK
<1>1. ASSUME NEW e \in Device, NEW c \in Code \cup {""}, NEW via \in {"main", "settings"},
             Confirm(t, e, c, via)
      PROVE  TypeOK'
  <2>1. [Idle EXCEPT !.pc = IF c = code[e] THEN "callMySelf" ELSE "exists",
                     !.dev = e, !.target = c, !.via = via] \in Task
    BY DEF Idle, Task, Running, Finished
  <2>2. attempt' \in [Attempt -> Task]
    BY <1>1, <2>1 DEF Confirm, TypeOK
  <2>3. app' \in [Device -> App]
    <3>1. app \in [Device -> App] /\ app[e] \in App
      BY DEF TypeOK
    <3>2. [app[e] EXCEPT !.panel = IF via = "main" THEN FALSE ELSE app[e].panel] \in App
      BY <3>1 DEF App
    <3> QED
      BY <1>1, <3>1, <3>2 DEF Confirm
  <2> QED
    BY <1>1, <2>2, <2>3 DEF Confirm, TypeOK
<1>2. CASE CheckExisting(t)
  <2>1. a.pc = "exists"
    BY <1>2 DEF CheckExisting
  <2>2. PICK found \in Answers(d, a.target) \cup {{}} :
          /\ attempt' = [attempt EXCEPT ![t].pc =
                           IF found = {} THEN "invalidPartnerCode" ELSE "ownId"]
          /\ cache' = [cache EXCEPT ![d] = @ \cup found]
    BY <1>2 DEF CheckExisting
  <2>3. found \in SUBSET Device
    BY AnswersType
  <2>4. attempt' \in [Attempt -> Task]
    BY <1>B, <2>2 DEF Running, Finished
  <2>5. cache' \in [Device -> SUBSET Device]
    BY <1>C, <2>1, <2>2, <2>3
  <2> QED
    BY <1>2, <2>4, <2>5 DEF CheckExisting, TypeOK
<1>3. CASE FindOwn(t)
  <2>1. a.pc = "ownId"
    BY <1>3 DEF FindOwn
  <2>2. PICK x \in Device \cup {nil, ""}, pc \in Running, found \in SUBSET Device :
          /\ attempt' = [attempt EXCEPT ![t].ownId = x, ![t].pc = pc]
          /\ cache' = [cache EXCEPT ![d] = @ \cup found] \/ cache' = cache
    <3>1. CASE \E found \in Answers(d, code[d]) : \E x \in FirstOf(found) :
                 /\ attempt' = [attempt EXCEPT ![t].ownId = x,
                      ![t].pc = IF x = nil THEN "missing" ELSE "partnerId"]
                 /\ cache' = [cache EXCEPT ![d] = @ \cup found]
      <4>0. PICK c : c = code[d]
        OBVIOUS
      <4>1. PICK found \in Answers(d, c) : \E x \in FirstOf(found) :
              /\ attempt' = [attempt EXCEPT ![t].ownId = x,
                   ![t].pc = IF x = nil THEN "missing" ELSE "partnerId"]
              /\ cache' = [cache EXCEPT ![d] = @ \cup found]
        BY <3>1, <4>0
      <4>2. PICK x \in FirstOf(found) :
              attempt' = [attempt EXCEPT ![t].ownId = x,
                ![t].pc = IF x = nil THEN "missing" ELSE "partnerId"]
        BY <4>1
      <4>3. x \in Device \cup {nil, ""} /\ found \in SUBSET Device
        BY AnswersType, FirstFound
      <4>4. PICK pc \in Running : pc = IF x = nil THEN "missing" ELSE "partnerId"
        BY DEF Running
      <4> QED
        BY <4>1, <4>2, <4>3, <4>4
    <3>2. CASE /\ attempt' = [attempt EXCEPT ![t].pc = "partnerId", ![t].ownId = ""]
               /\ cache' = cache
      <4>1. attempt' = [attempt EXCEPT ![t].ownId = "", ![t].pc = "partnerId"]
        BY <1>0, <3>2 DEF TypeOK, Task
      <4> QED
        BY <3>2, <4>1 DEF Running
    <3> QED
      BY <1>3, <3>1, <3>2 DEF FindOwn
  <2>3. [a EXCEPT !.ownId = x, !.pc = pc] \in Task
    BY <1>0 DEF Task
  <2>4. attempt' \in [Attempt -> Task]
    BY <2>2, <2>3 DEF TypeOK
  <2>5. cache' \in [Device -> SUBSET Device]
    <3>1. [cache EXCEPT ![d] = @ \cup found] \in [Device -> SUBSET Device]
      BY <1>C, <2>1
    <3>2. cache \in [Device -> SUBSET Device]
      BY DEF TypeOK
    <3> QED
      BY <2>2, <3>1, <3>2
  <2> QED
    BY <1>3, <2>4, <2>5 DEF FindOwn, TypeOK
<1>4. CASE FindPartner(t)
  <2>1. a.pc = "partnerId"
    BY <1>4 DEF FindPartner
  <2>2. PICK x \in Device \cup {nil, ""}, pc \in Running, found \in SUBSET Device :
          /\ attempt' = [attempt EXCEPT ![t].partnerId = x, ![t].pc = pc]
          /\ cache' = [cache EXCEPT ![d] = @ \cup found] \/ cache' = cache
    <3>1. CASE \E found \in Answers(d, a.target) : \E x \in FirstOf(found) :
                 /\ attempt' = [attempt EXCEPT ![t].partnerId = x,
                      ![t].pc = IF x = nil THEN "missing" ELSE "writeOwn"]
                 /\ cache' = [cache EXCEPT ![d] = @ \cup found]
      <4>0. PICK c : c = a.target
        OBVIOUS
      <4>1. PICK found \in Answers(d, c) : \E x \in FirstOf(found) :
              /\ attempt' = [attempt EXCEPT ![t].partnerId = x,
                   ![t].pc = IF x = nil THEN "missing" ELSE "writeOwn"]
              /\ cache' = [cache EXCEPT ![d] = @ \cup found]
        BY <3>1, <4>0
      <4>2. PICK x \in FirstOf(found) :
              attempt' = [attempt EXCEPT ![t].partnerId = x,
                ![t].pc = IF x = nil THEN "missing" ELSE "writeOwn"]
        BY <4>1
      <4>3. x \in Device \cup {nil, ""} /\ found \in SUBSET Device
        BY AnswersType, FirstFound
      <4>4. PICK pc \in Running : pc = IF x = nil THEN "missing" ELSE "writeOwn"
        BY DEF Running
      <4> QED
        BY <4>1, <4>2, <4>3, <4>4
    <3>2. CASE /\ attempt' = [attempt EXCEPT ![t].pc = "writeOwn", ![t].partnerId = ""]
               /\ cache' = cache
      <4>1. attempt' = [attempt EXCEPT ![t].partnerId = "", ![t].pc = "writeOwn"]
        BY <1>0, <3>2 DEF TypeOK, Task
      <4> QED
        BY <3>2, <4>1 DEF Running
    <3> QED
      BY <1>4, <3>1, <3>2 DEF FindPartner
  <2>3. [a EXCEPT !.partnerId = x, !.pc = pc] \in Task
    BY <1>0 DEF Task
  <2>4. attempt' \in [Attempt -> Task]
    BY <2>2, <2>3 DEF TypeOK
  <2>5. cache' \in [Device -> SUBSET Device]
    <3>1. [cache EXCEPT ![d] = @ \cup found] \in [Device -> SUBSET Device]
      BY <1>C, <2>1
    <3>2. cache \in [Device -> SUBSET Device]
      BY DEF TypeOK
    <3> QED
      BY <2>2, <3>1, <3>2
  <2> QED
    BY <1>4, <2>4, <2>5 DEF FindPartner, TypeOK
<1>5. ASSUME NEW id \in Device \cup {""}, NEW val \in Code, NEW next \in Running,
             a.pc # "unused", QueueUpdate(t, id, val, next)
      PROVE  TypeOK'
  <2>1. CASE id # ""
    <3>1. Update(id, val) \in Mutation
      BY <2>1 DEF Update, Mutation
    <3>2. queue[d] \in Seq(Mutation) /\ queue \in [Device -> Seq(Mutation)]
      BY <1>A, <1>5 DEF TypeOK
    <3>3. Append(queue[d], Update(id, val)) \in Seq(Mutation)
      BY <3>1, <3>2, AppendProperties
    <3>4. queue' \in [Device -> Seq(Mutation)]
      BY <1>5, <2>1, <3>2, <3>3 DEF QueueUpdate
    <3>5. attempt' \in [Attempt -> Task]
      BY <1>5, <1>B, <2>1 DEF QueueUpdate
    <3> QED
      BY <1>5, <2>1, <3>4, <3>5 DEF QueueUpdate, TypeOK
  <2>2. CASE id = ""
    BY <1>5, <1>A, <2>2, DieType DEF QueueUpdate, Death
  <2> QED
    BY <2>1, <2>2
<1>6. CASE WriteOwn(t)
  <2>1. a.pc = "writeOwn" /\ a.ownId \in Device \cup {""} /\ a.target \in Code
    BY <1>6 DEF WriteOwn, Ids, Tasks, Past
  <2> QED
    BY <1>5, <1>6, <2>1 DEF WriteOwn, Running
<1>7. CASE WritePartner(t)
  <2>1. a.pc = "writePartner" /\ a.partnerId \in Device \cup {""} /\ code[d] \in Code
    BY <1>7, <1>A DEF WritePartner, Ids
  <2> QED
    BY <1>5, <1>7, <2>1 DEF WritePartner, Running
<1>8. CASE Remember(t)
  <2>1. a.pc = "remember" /\ a.target \in Code /\ d \in Device
    BY <1>8, <1>A DEF Remember, Tasks, Past
  <2>2. partner_code' \in [Device -> Code \cup {nil, ""}]
    BY <1>8, <2>1 DEF Remember, TypeOK
  <2>3. attempt' \in [Attempt -> Task]
    BY <1>8, <1>B DEF Remember, Finished
  <2>4. app' \in [Device -> App]
    <3>1. app \in [Device -> App] /\ app[d] \in App /\ app[d].mainq \in Seq(MainJob)
      BY <2>1 DEF TypeOK, App
    <3>2. Append(app[d].mainq, [job |-> "didConnect", val |-> a.target]) \in Seq(MainJob)
      BY <2>1, <3>1, AppendProperties DEF MainJob
    <3> DEFINE q == IF a.via = "main"
                    THEN Append(app[d].mainq, [job |-> "didConnect", val |-> a.target])
                    ELSE app[d].mainq
    <3>3. [app[d] EXCEPT !.mainq = q] \in App
      BY <3>1, <3>2 DEF App
    <3> QED
      BY <1>8, <3>1, <3>3 DEF Remember
  <2> QED
    BY <1>8, <2>2, <2>3, <2>4 DEF Remember, TypeOK
<1>9. CASE FindMissing(t)
  BY <1>9, <1>A, DieType DEF FindMissing, Death
<1> QED
  BY <1>1, <1>2, <1>3, <1>4, <1>6, <1>7, <1>8, <1>9 DEF AttemptStep

(* Every step keeps the types. *)
LEMMA TypeStep ==
  ASSUME IInv, [Next]_vars
  PROVE  TypeOK'
<1>1. CASE \E d \in Device : DeviceStep(d)
  BY <1>1, DeviceType DEF IInv
<1>2. CASE \E t \in Attempt : AttemptStep(t)
  BY <1>2, AttemptType DEF IInv
<1>3. CASE UNCHANGED vars
  BY <1>3 DEF IInv, TypeOK, vars
<1> QED
  BY <1>1, <1>2, <1>3 DEF Next

-----------------------------------------------------------------------------
(* What a step leaves alone *)

Dead(a) == [a EXCEPT !.pc = "dead"]

(* A task moves by a step of its own, or dies with its process. *)
LEMMA OtherTasks ==
  ASSUME TypeOK, [Next]_vars, NEW t \in Attempt
  PROVE  \/ AttemptStep(t)
         \/ attempt'[t] = attempt[t]
         \/ attempt[t].pc \in Running /\ attempt'[t] = Dead(attempt[t])
<1>1. ASSUME NEW d, NEW how, Die(d, how)
      PROVE  \/ attempt'[t] = attempt[t]
             \/ attempt[t].pc \in Running /\ attempt'[t] = Dead(attempt[t])
  BY <1>1 DEF Die, Dead
<1>2. ASSUME NEW d \in Device, DeviceStep(d)
      PROVE  (\E how : Die(d, how)) \/ attempt' = attempt
  BY <1>2 DEF DeviceStep, Launch, Reappear, Kill, BootGetCode, ShowCode, SaveCode,
              Lookup, Listen, LookupMissing, LookupError, Snapshot, OnSnapshot,
              DidConnectedPartner, RequestPartnerClothes, RequestNobodysClothes,
              OpenInput, CloseInput, Commit, CommitUnacknowledged, Reject
<1>3. ASSUME NEW u \in Attempt, u # t, AttemptStep(u)
      PROVE  (\E d, how : Die(d, how)) \/ attempt'[t] = attempt[t]
  BY <1>3 DEF AttemptStep, Confirm, CheckExisting, FindOwn, FindPartner, FindMissing,
              WriteOwn, WritePartner, QueueUpdate, Remember, TypeOK
<1>4. CASE UNCHANGED vars
  BY <1>4 DEF vars
<1> QED
  BY <1>1, <1>2, <1>3, <1>4 DEF Next

(* A code that is stored stays. *)
LEMMA CodeStays ==
  ASSUME TypeOK, [Next]_vars, NEW d \in Device, code[d] # nil
  PROVE  code'[d] = code[d]
<1>1. ASSUME NEW e \in Device, DeviceStep(e)
      PROVE  code' = code \/ (\E next : GetCode(e, next))
  BY <1>1 DEF DeviceStep, Launch, Reappear, Kill, BootGetCode, ShowCode, SaveCode,
              Lookup, Listen, LookupMissing, LookupError, Snapshot, OnSnapshot,
              DidConnectedPartner, RequestPartnerClothes, RequestNobodysClothes,
              OpenInput, CloseInput, Commit, CommitUnacknowledged, Reject, Die
<1>2. ASSUME NEW e \in Device, NEW next, GetCode(e, next)
      PROVE  code'[d] = code[d]
  BY <1>2 DEF GetCode, TypeOK
<1>3. ASSUME NEW u \in Attempt, AttemptStep(u)
      PROVE  code' = code
  BY <1>3 DEF AttemptStep, Confirm, CheckExisting, FindOwn, FindPartner, FindMissing,
              WriteOwn, WritePartner, QueueUpdate, Remember, Die
<1>4. CASE UNCHANGED vars
  BY <1>4 DEF vars
<1> QED
  BY <1>1, <1>2, <1>3, <1>4 DEF Next

(* What a step of its own does to a task. *)
LEMMA OwnStep ==
  ASSUME TypeOK, NEW t \in Attempt, AttemptStep(t)
  PROVE  LET a == attempt[t]
             b == attempt'[t]
             d == attempt[t].dev
         IN  \/ \E e \in Device, c \in Code \cup {""}, via \in {"main", "settings"} :
                  /\ a.pc = "unused" /\ code[e] # nil
                  /\ b = [Idle EXCEPT !.pc = IF c = code[e] THEN "callMySelf" ELSE "exists",
                                      !.dev = e, !.target = c, !.via = via]
             \/ a.pc = "exists" /\ b = [a EXCEPT !.pc = "invalidPartnerCode"]
             \/ /\ a.pc = "exists" /\ b = [a EXCEPT !.pc = "ownId"]
                /\ Matches(d, a.target) # {}
             \/ /\ a.pc = "ownId"
                /\ \E x \in Matches(d, code[d]) \cup {""} :
                     b = [a EXCEPT !.pc = "partnerId", !.ownId = x]
             \/ /\ a.pc = "partnerId"
                /\ \E x \in Matches(d, a.target) \cup {""} :
                     b = [a EXCEPT !.pc = "writeOwn", !.partnerId = x]
             \/ a.pc = "ownId" /\ b = [a EXCEPT !.pc = "missing", !.ownId = nil]
             \/ a.pc = "partnerId" /\ b = [a EXCEPT !.pc = "missing", !.partnerId = nil]
             \/ a.pc = "writeOwn" /\ b = [a EXCEPT !.pc = "writePartner"]
             \/ a.pc = "writePartner" /\ b = [a EXCEPT !.pc = "remember"]
             \/ a.pc = "remember" /\ b = [a EXCEPT !.pc = "success"]
             \/ b = a
             \/ a.pc \in Running /\ b = Dead(a)
<1> DEFINE a == attempt[t]
           d == attempt[t].dev
<1>0. attempt \in [Attempt -> Task]
  BY DEF TypeOK
<1>A. \A c : \A found \in Answers(d, c) : found \subseteq Matches(d, c)
  BY DEF Answers
<1>B. ASSUME NEW how, Die(d, how)
      PROVE  attempt'[t] = a \/ (a.pc \in Running /\ attempt'[t] = Dead(a))
  BY <1>B DEF Die, Dead
<1>1. CASE \E e \in Device, c \in Code \cup {""}, via \in {"main", "settings"} : Confirm(t, e, c, via)
  <2>1. PICK e \in Device, c \in Code \cup {""}, via \in {"main", "settings"} : Confirm(t, e, c, via)
    BY <1>1
  <2>2. attempt'[t] = [Idle EXCEPT !.pc = IF c = code[e] THEN "callMySelf" ELSE "exists",
                                   !.dev = e, !.target = c, !.via = via]
    BY <1>0, <2>1 DEF Confirm
  <2>3. a.pc = "unused" /\ code[e] # nil
    BY <2>1 DEF Confirm
  <2>4. \E f \in Device, k \in Code \cup {""}, v \in {"main", "settings"} :
          /\ a.pc = "unused" /\ code[f] # nil
          /\ attempt'[t] = [Idle EXCEPT !.pc = IF k = code[f] THEN "callMySelf" ELSE "exists",
                                        !.dev = f, !.target = k, !.via = v]
    BY <2>2, <2>3, Zenon
  <2> QED
    BY <2>4, Zenon
<1>2. CASE CheckExisting(t)
  <2>1. PICK found \in Answers(d, a.target) \cup {{}} :
          attempt' = [attempt EXCEPT ![t].pc =
                        IF found = {} THEN "invalidPartnerCode" ELSE "ownId"]
    BY <1>2 DEF CheckExisting
  <2>2. CASE found = {}
    BY <1>0, <1>2, <2>1, <2>2 DEF CheckExisting
  <2>3. CASE found # {}
    <3>1. Matches(d, a.target) # {}
      BY <1>A, <2>3
    <3>2. attempt'[t] = [a EXCEPT !.pc = "ownId"]
      BY <1>0, <2>1, <2>3
    <3> QED
      BY <1>2, <3>1, <3>2 DEF CheckExisting
  <2> QED
    BY <2>2, <2>3
<1>3. CASE FindOwn(t)
  <2>1. a.pc = "ownId"
    BY <1>3 DEF FindOwn
  <2>2. CASE \E found \in Answers(d, code[d]) : \E x \in FirstOf(found) :
               attempt' = [attempt EXCEPT ![t].ownId = x,
                             ![t].pc = IF x = nil THEN "missing" ELSE "partnerId"]
    <3>1. PICK found \in Answers(d, code[d]) : \E x \in FirstOf(found) :
                 attempt' = [attempt EXCEPT ![t].ownId = x,
                               ![t].pc = IF x = nil THEN "missing" ELSE "partnerId"]
      BY <2>2
    <3>2. PICK x \in FirstOf(found) :
                 attempt' = [attempt EXCEPT ![t].ownId = x,
                               ![t].pc = IF x = nil THEN "missing" ELSE "partnerId"]
      BY <3>1
    <3>3. CASE x \in Matches(d, code[d]) /\ x # nil
      <4>1. attempt'[t] = [a EXCEPT !.pc = "partnerId", !.ownId = x]
        BY <1>0, <3>2, <3>3 DEF Task
      <4> QED
        BY <2>1, <3>3, <4>1
    <3>4. CASE x = nil
      <4>1. attempt'[t] = [a EXCEPT !.pc = "missing", !.ownId = nil]
        BY <1>0, <3>2, <3>4 DEF Task
      <4> QED
        BY <2>1, <4>1
    <3>5. PICK c : c = code[d]
      OBVIOUS
    <3>6. found \in Answers(d, c)
      BY <3>5
    <3>7. (x \in Matches(d, c) /\ x # nil) \/ x = nil
      BY <3>6, FirstFound
    <3> QED
      BY <3>3, <3>4, <3>5, <3>7
  <2>3. CASE attempt' = [attempt EXCEPT ![t].pc = "partnerId", ![t].ownId = ""]
    <3>1. attempt'[t] = [a EXCEPT !.pc = "partnerId", !.ownId = ""]
      BY <1>0, <2>3
    <3> QED
      BY <2>1, <3>1
  <2> QED
    BY <1>3, <2>2, <2>3 DEF FindOwn
<1>4. CASE FindPartner(t)
  <2>1. a.pc = "partnerId"
    BY <1>4 DEF FindPartner
  <2>2. CASE \E found \in Answers(d, a.target) : \E x \in FirstOf(found) :
               attempt' = [attempt EXCEPT ![t].partnerId = x,
                             ![t].pc = IF x = nil THEN "missing" ELSE "writeOwn"]
    <3>1. PICK found \in Answers(d, a.target) : \E x \in FirstOf(found) :
                 attempt' = [attempt EXCEPT ![t].partnerId = x,
                               ![t].pc = IF x = nil THEN "missing" ELSE "writeOwn"]
      BY <2>2
    <3>2. PICK x \in FirstOf(found) :
                 attempt' = [attempt EXCEPT ![t].partnerId = x,
                               ![t].pc = IF x = nil THEN "missing" ELSE "writeOwn"]
      BY <3>1
    <3>3. CASE x \in Matches(d, a.target) /\ x # nil
      <4>1. attempt'[t] = [a EXCEPT !.pc = "writeOwn", !.partnerId = x]
        BY <1>0, <3>2, <3>3 DEF Task
      <4> QED
        BY <2>1, <3>3, <4>1
    <3>4. CASE x = nil
      <4>1. attempt'[t] = [a EXCEPT !.pc = "missing", !.partnerId = nil]
        BY <1>0, <3>2, <3>4 DEF Task
      <4> QED
        BY <2>1, <4>1
    <3>5. PICK c : c = a.target
      OBVIOUS
    <3>6. found \in Answers(d, c)
      BY <3>5
    <3>7. (x \in Matches(d, c) /\ x # nil) \/ x = nil
      BY <3>6, FirstFound
    <3> QED
      BY <3>3, <3>4, <3>5, <3>7
  <2>3. CASE attempt' = [attempt EXCEPT ![t].pc = "writeOwn", ![t].partnerId = ""]
    <3>1. attempt'[t] = [a EXCEPT !.pc = "writeOwn", !.partnerId = ""]
      BY <1>0, <2>3
    <3> QED
      BY <2>1, <3>1
  <2> QED
    BY <1>4, <2>2, <2>3 DEF FindPartner
<1>5. ASSUME NEW id, NEW val, NEW next, QueueUpdate(t, id, val, next)
      PROVE  \/ attempt'[t] = [a EXCEPT !.pc = next]
             \/ attempt'[t] = a
             \/ a.pc \in Running /\ attempt'[t] = Dead(a)
  <2>1. CASE id = ""
    BY <1>5, <1>B, <2>1 DEF QueueUpdate
  <2>2. CASE id # ""
    BY <1>0, <1>5, <2>2 DEF QueueUpdate
  <2> QED
    BY <2>1, <2>2
<1>6. CASE WriteOwn(t)
  BY <1>5, <1>6 DEF WriteOwn
<1>7. CASE WritePartner(t)
  BY <1>5, <1>7 DEF WritePartner
<1>8. CASE Remember(t)
  BY <1>0, <1>8 DEF Remember
<1>9. CASE FindMissing(t)
  BY <1>9, <1>B DEF FindMissing
<1> QED
  BY <1>1, <1>2, <1>3, <1>4, <1>6, <1>7, <1>8, <1>9 DEF AttemptStep

(* A document that a query for a code finds belongs to that code. *)
LEMMA MatchesCode ==
  ASSUME IInv, NEW d \in Device, NEW c, c # nil, NEW x \in Matches(d, c)
  PROVE  x \in Device /\ c \in Code /\ code[x] = c
<1>1. x \in Device
  BY DEF Matches
<1>2. CASE users[x].code = c
  <2>1. users[x].code \in Code \cup {nil} /\ users[x].code \in {nil, code[x]}
    BY <1>1 DEF IInv, TypeOK, User, Documents
  <2> QED
    BY <1>1, <1>2, <2>1
<1>3. CASE \E i \in DOMAIN queue[d] : queue[d][i] = Add(x, c)
  <2>1. PICK i \in DOMAIN queue[d] : queue[d][i] = Add(x, c)
    BY <1>3
  <2>2. queue[d] \in Seq(Mutation)
    BY DEF IInv, TypeOK
  <2>3. Add(x, c) \in Mutation
    BY <2>1, <2>2, ElementOfSeq, LenProperties
  <2>4. Queued(d, Add(x, c))
    BY <2>1 DEF Queued
  <2>5. Sound(Add(x, c))
    BY <2>3, <2>4 DEF IInv, Writes
  <2>6. c \in Code
    BY <2>3 DEF Add, Mutation
  <2> QED
    BY <1>1, <2>5, <2>6 DEF Sound, Add
<1> QED
  BY <1>1, <1>2, <1>3 DEF Matches

(* The server applies the first write of the queue of a device. *)
Applies(d) ==
  /\ queue[d] # << >>
  /\ users' = Applied(Head(queue[d]))
  /\ code' = code /\ attempt' = attempt

(* Only the server's step changes the documents. *)
LEMMA UsersStay ==
  ASSUME TypeOK, [Next]_vars
  PROVE  users' = users \/ (\E d \in Device : Applies(d))
<1>1. ASSUME NEW e \in Device, DeviceStep(e)
      PROVE  users' = users \/ Applies(e)
  BY <1>1 DEF DeviceStep, Launch, Reappear, Kill, BootGetCode, ShowCode, SaveCode,
              Lookup, Listen, LookupMissing, LookupError, Snapshot, OnSnapshot,
              DidConnectedPartner, RequestPartnerClothes, RequestNobodysClothes,
              OpenInput, CloseInput, Commit, CommitUnacknowledged, Reject, Die, Applies
<1>2. ASSUME NEW u \in Attempt, AttemptStep(u)
      PROVE  users' = users
  BY <1>2 DEF AttemptStep, Confirm, CheckExisting, FindOwn, FindPartner, FindMissing,
              WriteOwn, WritePartner, QueueUpdate, Remember, Die
<1>3. CASE UNCHANGED vars
  BY <1>3 DEF vars
<1> QED
  BY <1>1, <1>2, <1>3 DEF Next

(* The first write of a queue is in the queue. *)
LEMMA HeadQueued ==
  ASSUME TypeOK, NEW d \in Device, queue[d] # << >>
  PROVE  Head(queue[d]) \in Mutation /\ Queued(d, Head(queue[d]))
<1>1. queue[d] \in Seq(Mutation)
  BY DEF TypeOK
<1>2. Head(queue[d]) \in Mutation
  BY <1>1, HeadTailProperties
<1>3. Len(queue[d]) \in Nat \ {0} /\ DOMAIN queue[d] = 1 .. Len(queue[d])
  BY <1>1, EmptySeq, LenProperties
<1>4. 1 \in DOMAIN queue[d] /\ queue[d][1] = Head(queue[d])
  BY <1>1, <1>3
<1> QED
  BY <1>2, <1>4 DEF Queued

-----------------------------------------------------------------------------
(* The stations of a link *)

(* A tap stays what it was: the task keeps its device and its code. *)
LEMMA TaskStays ==
  ASSUME TypeOK, [Next]_vars, NEW t \in Attempt, attempt[t].pc # "unused"
  PROVE  /\ attempt'[t].dev = attempt[t].dev
         /\ attempt'[t].target = attempt[t].target
<1>1. attempt[t] \in Task
  BY DEF TypeOK
<1>2. CASE AttemptStep(t)
  BY <1>1, <1>2, OwnStep DEF Dead, Task
<1>3. CASE ~AttemptStep(t)
  BY <1>1, <1>3, OtherTasks DEF Dead, Task
<1> QED
  BY <1>2, <1>3

(* A code that was typed stays typed. *)
LEMMA AskedStays ==
  ASSUME TypeOK, Tasks, [Next]_vars, NEW a, NEW b, Asked(a, b)
  PROVE  Asked(a, b)'
<1>1. PICK t \in Attempt : /\ attempt[t].dev # nil /\ code[attempt[t].dev] = a
                           /\ attempt[t].target = b /\ a # b
  BY DEF Asked
<1>2. attempt[t].pc # "unused" /\ attempt[t].dev \in Device /\ a # nil
  BY <1>1 DEF Tasks
<1>3. attempt'[t].dev = attempt[t].dev /\ attempt'[t].target = b
  BY <1>1, <1>2, TaskStays
<1>4. code'[attempt[t].dev] = a
  BY <1>1, <1>2, CodeStays
<1> QED
  BY <1>1, <1>3, <1>4 DEF Asked

(* Consent that was given is not lost. *)
LEMMA AgreedStays ==
  ASSUME TypeOK, Tasks, [Next]_vars, NEW a, NEW b, Agreed(a, b)
  PROVE  Agreed(a, b)'
BY AskedStays DEF Agreed

(* Documents belong to their devices. *)
LEMMA DocumentsStep ==
  ASSUME IInv, [Next]_vars
  PROVE  Documents'
<1>1. ASSUME NEW x \in Device
      PROVE  code[x] # nil => code'[x] = code[x]
  BY CodeStays DEF IInv
<1>2. CASE users' = users
  BY <1>1, <1>2 DEF IInv, Documents
<1>3. ASSUME NEW d \in Device, Applies(d)
      PROVE  Documents'
  <2>1. PICK m \in Mutation : m = Head(queue[d]) /\ Queued(d, m)
    BY <1>3, HeadQueued DEF IInv, Applies
  <2>2. Sound(m) /\ code' = code /\ users' = Applied(m)
    BY <1>3, <2>1 DEF IInv, Writes, Applies
  <2>3. m.doc \in Device /\ m.val \in Code /\ m.op \in {"add", "update"}
    BY DEF Mutation
  <2>4. CASE m.op = "add"
    BY <2>2, <2>3, <2>4, CodeAssumption DEF Applied, IInv, Documents, Sound, TypeOK, User
  <2>5. CASE m.op = "update"
    BY <2>2, <2>3, <2>5 DEF Applied, IInv, Documents, TypeOK, User
  <2> QED
    BY <2>3, <2>4, <2>5
<1> QED
  BY <1>2, <1>3, UsersStay DEF IInv

(* A code is saved only after it was stored. *)
LEMMA SavesStep ==
  ASSUME IInv, [Next]_vars
  PROVE  SavesStored'
<1> SUFFICES ASSUME NEW d \in Device, app'[d].saving
             PROVE  code'[d] # nil
  BY DEF SavesStored
<1>0. app \in [Device -> App] /\ app[d] \in App /\ code \in [Device -> Code \cup {nil}]
  BY DEF IInv, TypeOK
<1>1. CASE app[d].saving
  BY <1>1, CodeStays DEF IInv, SavesStored
<1>2. CASE ~app[d].saving
  <2>1. ASSUME NEW e \in Device, NEW next, GetCode(e, next)
        PROVE  code'[d] # nil
    <3>1. CASE e = d
      BY <1>0, <2>1, <3>1, CodeAssumption DEF GetCode, Generated, nil
    <3>2. CASE e # d
      BY <1>0, <1>2, <2>1, <3>2 DEF GetCode
    <3> QED
      BY <3>1, <3>2
  <2>2. ASSUME NEW e \in Device, NEW how, Die(e, how)
        PROVE  FALSE
    BY <1>0, <1>2, <2>2 DEF Die, Process
  <2>3. ASSUME NEW e \in Device, DeviceStep(e)
        PROVE  (\E next : GetCode(e, next)) \/ (\E how : Die(e, how))
    <3>1. CASE Launch(e)
      BY <1>0, <1>2, <3>1 DEF Launch, Process
    <3>2. CASE Reappear(e)
      BY <1>0, <1>2, <3>2 DEF Reappear, App
    <3>3. CASE SaveCode(e)
      BY <1>0, <1>2, <3>3 DEF SaveCode, App
    <3>4. CASE Lookup(e)
      <4>1. PICK x : app' = [app EXCEPT ![e].boot = "answered", ![e].answer = x]
        BY <3>4 DEF Lookup
      <4> QED
        BY <1>0, <1>2, <4>1 DEF App
    <3>14. CASE Listen(e)
      BY <1>0, <1>2, <3>14 DEF Listen, App
    <3>5. CASE Snapshot(e)
      <4>1. PICK v, q : app' = [app EXCEPT ![e].raised = v, ![e].mainq = q]
        BY <3>5 DEF Snapshot
      <4> QED
        BY <1>0, <1>2, <4>1 DEF App
    <3>6. CASE OnSnapshot(e)
      BY <1>0, <1>2, <3>6 DEF OnSnapshot, App
    <3>7. CASE DidConnectedPartner(e)
      BY <1>0, <1>2, <3>7 DEF DidConnectedPartner, App
    <3>8. CASE RequestPartnerClothes(e)
      BY <1>0, <1>2, <3>8 DEF RequestPartnerClothes, App
    <3>9. CASE OpenInput(e) \/ CloseInput(e)
      <4>1. PICK p : app' = [app EXCEPT ![e].panel = p]
        BY <3>9 DEF OpenInput, CloseInput
      <4> QED
        BY <1>0, <1>2, <4>1 DEF App
    <3>10. CASE Commit(e) \/ Reject(e)
      BY <1>2, <3>10 DEF Commit, Reject
    <3>13. CASE CommitUnacknowledged(e)
      BY <1>0, <1>2, <3>13 DEF CommitUnacknowledged, App
    <3>11. CASE BootGetCode(e) \/ ShowCode(e)
      BY <3>11 DEF BootGetCode, ShowCode
    <3>12. CASE Kill(e) \/ LookupMissing(e) \/ LookupError(e) \/ RequestNobodysClothes(e)
      BY <3>12 DEF Kill, LookupMissing, LookupError, RequestNobodysClothes
    <3> QED
      BY <2>3, <3>1, <3>2, <3>3, <3>4, <3>5, <3>6, <3>7, <3>8, <3>9, <3>10, <3>11,
         <3>12, <3>13, <3>14 DEF DeviceStep
  <2>4. ASSUME NEW u \in Attempt, AttemptStep(u)
        PROVE  \E e \in Device : \E how : Die(e, how)
    <3>0. attempt[u].pc # "unused" => attempt[u].dev \in Device
      BY DEF IInv, Tasks
    <3>1. CASE \E e \in Device, c \in Code \cup {""}, via \in {"main", "settings"} : Confirm(u, e, c, via)
      <4>1. PICK e \in Device : \E p : app' = [app EXCEPT ![e].panel = p]
        BY <3>1 DEF Confirm
      <4> QED
        BY <1>0, <1>2, <4>1 DEF App
    <3>2. CASE Remember(u)
      BY <1>0, <1>2, <3>2 DEF Remember, App
    <3>3. CASE CheckExisting(u)
      BY <1>2, <3>3 DEF CheckExisting
    <3>4. CASE FindOwn(u) \/ FindPartner(u)
      BY <1>2, <3>4 DEF FindOwn, FindPartner
    <3>6. CASE FindMissing(u)
      BY <3>0, <3>6 DEF FindMissing
    <3>5. CASE WriteOwn(u) \/ WritePartner(u)
      BY <1>2, <3>0, <3>5 DEF WriteOwn, WritePartner, QueueUpdate
    <3> QED
      BY <2>4, <3>1, <3>2, <3>3, <3>4, <3>5, <3>6 DEF AttemptStep
  <2>5. CASE UNCHANGED vars
    BY <1>2, <2>5 DEF vars
  <2> QED
    BY <2>1, <2>2, <2>3, <2>4, <2>5 DEF Next
<1> QED
  BY <1>1, <1>2

(* Tasks belong to devices with codes and are after other codes. *)
LEMMA TasksStep ==
  ASSUME IInv, [Next]_vars
  PROVE  Tasks' /\ Ids'
<1> SUFFICES ASSUME NEW t \in Attempt
             PROVE  LET b == attempt'[t] IN
               /\ b.pc = "unused" <=> b.dev = nil
               /\ b.pc # "unused" => b.dev \in Device /\ code'[b.dev] # nil /\ b.target # nil
               /\ b.pc \in Running \cup Past => b.target # code'[b.dev]
               /\ b.pc \in Past => b.target \in Code
               /\ b.pc \in {"partnerId", "writeOwn", "writePartner"} =>
                    b.ownId = "" \/ (b.ownId \in Device /\ code'[b.ownId] = code'[b.dev])
               /\ b.pc \in {"writeOwn", "writePartner"} =>
                    b.partnerId = "" \/ (b.partnerId \in Device /\ code'[b.partnerId] = b.target)
  BY DEF Tasks, Ids
<1> DEFINE a == attempt[t]
           b == attempt'[t]
           d == attempt[t].dev
<1>0. a \in Task /\ TypeOK /\ Tasks /\ Ids
  BY DEF IInv, TypeOK
<1>1. \A x \in Device : code[x] # nil => code'[x] = code[x]
  BY <1>0, CodeStays
<1>2. /\ a.pc = "unused" <=> d = nil
      /\ a.pc # "unused" => d \in Device /\ code[d] # nil /\ a.target # nil
      /\ a.pc \in Running \cup Past => a.target # code[d]
      /\ a.pc \in Past => a.target \in Code
      /\ a.pc \in {"partnerId", "writeOwn", "writePartner"} =>
           a.ownId = "" \/ (a.ownId \in Device /\ code[a.ownId] = code[d])
      /\ a.pc \in {"writeOwn", "writePartner"} =>
           a.partnerId = "" \/ (a.partnerId \in Device /\ code[a.partnerId] = a.target)
  BY <1>0 DEF Tasks, Ids
<1>7. /\ a.pc # "unused" => code'[d] = code[d]
      /\ a.pc \in {"partnerId", "writeOwn", "writePartner"} =>
           a.ownId = "" \/ (a.ownId \in Device /\ code'[a.ownId] = code'[d])
      /\ a.pc \in {"writeOwn", "writePartner"} =>
           a.partnerId = "" \/ (a.partnerId \in Device /\ code'[a.partnerId] = a.target)
  <2>1. a.pc # "unused" => code'[d] = code[d]
    BY <1>1, <1>2
  <2>2. \A x \in Device : \A c : code[x] = c /\ c # nil => code'[x] = c
    BY <1>1
  <2> QED
    BY <1>2, <2>1, <2>2
<1>8. a.pc \in Running \cup Past => a.pc # "unused"
  BY DEF Running, Past
<1>3. CASE b = a
  BY <1>2, <1>3, <1>7, <1>8
<1>4. CASE a.pc \in Running /\ b = Dead(a)
  BY <1>0, <1>2, <1>4, <1>7 DEF Dead, Running, Past, Task
<1>6. CASE AttemptStep(t)
  <2>1. ASSUME NEW e \in Device, NEW c \in Code \cup {""}, NEW via \in {"main", "settings"},
               code[e] # nil,
               b = [Idle EXCEPT !.pc = IF c = code[e] THEN "callMySelf" ELSE "exists",
                                !.dev = e, !.target = c, !.via = via]
        PROVE  /\ b.pc \in {"callMySelf", "exists"} /\ b.dev \in Device
               /\ code'[b.dev] # nil /\ b.target # nil /\ b.dev # nil
               /\ b.pc = "exists" => b.target # code'[b.dev]
    <3>1. code'[e] = code[e] /\ c # nil /\ e # nil
      BY <1>1, <2>1, CodeAssumption, DeviceAssumption DEF nil
    <3>2. /\ b.dev = e /\ b.target = c
          /\ b.pc = IF c = code[e] THEN "callMySelf" ELSE "exists"
      BY <2>1 DEF Idle
    <3> QED
      BY <2>1, <3>1, <3>2
  <2>2. CASE a.pc = "exists" /\ b = [a EXCEPT !.pc = "invalidPartnerCode"]
    BY <1>0, <1>2, <1>7, <2>2 DEF Running, Past, Task
  <2>3. CASE a.pc = "exists" /\ b = [a EXCEPT !.pc = "ownId"] /\ Matches(d, a.target) # {}
    <3>1. a.target \in Code /\ d \in Device
      BY <1>2, <2>3, MatchesCode
    <3> QED
      BY <1>0, <1>2, <1>7, <2>3, <3>1 DEF Running, Past, Task
  <2>4. ASSUME a.pc = "ownId", NEW x \in Matches(d, code[d]) \cup {""},
               b = [a EXCEPT !.pc = "partnerId", !.ownId = x]
        PROVE  /\ b.pc = "partnerId" /\ b.dev = d /\ b.target = a.target
               /\ b.ownId = "" \/ (b.ownId \in Device /\ code'[b.ownId] = code'[d])
    <3>0. d \in Device /\ code[d] # nil
      BY <1>2, <2>4
    <3>1. x = "" \/ (x \in Device /\ code[x] = code[d])
      <4>1. CASE x \in Matches(d, code[d])
        <5>4. PICK e \in Device : e = d
          BY <3>0
        <5>1. PICK c : e = d /\ c = code[e]
          BY <5>4
        <5>2. x \in Matches(e, c) /\ c # nil
          BY <3>0, <4>1, <5>1
        <5>3. x \in Device /\ code[x] = c
          BY <5>2, MatchesCode
        <5> QED
          BY <5>1, <5>3
      <4> QED
        BY <4>1
    <3>2. x = "" \/ (x \in Device /\ code'[x] = code'[d])
      BY <1>1, <1>2, <1>7, <2>4, <3>1
    <3> QED
      BY <1>0, <2>4, <3>2 DEF Task
  <2>5. ASSUME a.pc = "partnerId", NEW x \in Matches(d, a.target) \cup {""},
               b = [a EXCEPT !.pc = "writeOwn", !.partnerId = x]
        PROVE  /\ b.pc = "writeOwn" /\ b.dev = d /\ b.target = a.target /\ b.ownId = a.ownId
               /\ b.partnerId = "" \/ (b.partnerId \in Device /\ code'[b.partnerId] = a.target)
    <3>0. d \in Device /\ a.target # nil
      BY <1>2, <2>5
    <3>1. x = "" \/ (x \in Device /\ code[x] = a.target)
      BY <3>0, MatchesCode
    <3>2. x = "" \/ (x \in Device /\ code'[x] = a.target)
      BY <1>1, <3>0, <3>1
    <3> QED
      BY <1>0, <2>5, <3>2 DEF Task
  <2>6. CASE a.pc = "writeOwn" /\ b = [a EXCEPT !.pc = "writePartner"]
    BY <1>0, <1>2, <1>7, <2>6 DEF Running, Past, Task
  <2>7. CASE a.pc = "writePartner" /\ b = [a EXCEPT !.pc = "remember"]
    BY <1>0, <1>2, <1>7, <2>7 DEF Running, Past, Task
  <2>8. CASE a.pc = "remember" /\ b = [a EXCEPT !.pc = "success"]
    BY <1>0, <1>2, <1>7, <2>8 DEF Running, Past, Task
  <2>9. CASE \E e \in Device, c \in Code \cup {""}, via \in {"main", "settings"} :
               /\ a.pc = "unused" /\ code[e] # nil
               /\ b = [Idle EXCEPT !.pc = IF c = code[e] THEN "callMySelf" ELSE "exists",
                                   !.dev = e, !.target = c, !.via = via]
    <3>1. /\ b.pc \in {"callMySelf", "exists"} /\ b.dev \in Device
          /\ code'[b.dev] # nil /\ b.target # nil /\ b.dev # nil
          /\ b.pc = "exists" => b.target # code'[b.dev]
      BY <2>1, <2>9
    <3> QED
      BY <3>1 DEF Running, Past
  <2>10. CASE a.pc = "ownId" /\ \E x \in Matches(d, code[d]) \cup {""} :
                b = [a EXCEPT !.pc = "partnerId", !.ownId = x]
    <3>1. /\ b.pc = "partnerId" /\ b.dev = d /\ b.target = a.target
          /\ b.ownId = "" \/ (b.ownId \in Device /\ code'[b.ownId] = code'[d])
      BY <2>4, <2>10
    <3> QED
      BY <1>2, <1>7, <2>10, <3>1 DEF Running, Past
  <2>11. CASE a.pc = "partnerId" /\ \E x \in Matches(d, a.target) \cup {""} :
                b = [a EXCEPT !.pc = "writeOwn", !.partnerId = x]
    <3>1. /\ b.pc = "writeOwn" /\ b.dev = d /\ b.target = a.target /\ b.ownId = a.ownId
          /\ b.partnerId = "" \/ (b.partnerId \in Device /\ code'[b.partnerId] = a.target)
      BY <2>5, <2>11
    <3> QED
      BY <1>2, <1>7, <2>11, <3>1 DEF Running, Past
  <2>12. CASE \/ a.pc = "ownId" /\ b = [a EXCEPT !.pc = "missing", !.ownId = nil]
              \/ a.pc = "partnerId" /\ b = [a EXCEPT !.pc = "missing", !.partnerId = nil]
    <3>1. b.pc = "missing" /\ b.dev = d /\ b.target = a.target /\ a.pc \in Running
      BY <1>0, <2>12 DEF Task, Running
    <3> QED
      BY <1>2, <1>7, <2>12, <3>1 DEF Running, Past
  <2> HIDE DEF a, b, d
  <2> QED
    BY <1>0, <1>3, <1>4, <1>6, <2>2, <2>3, <2>6, <2>7, <2>8, <2>9, <2>10, <2>11, <2>12,
       OwnStep DEF a, b, d
<1> QED
  BY <1>3, <1>4, <1>6, <1>0, OtherTasks

(* An element of a longer queue is the new one or was there before. *)
LEMMA InAppend ==
  ASSUME NEW S, NEW s \in Seq(S), NEW e \in S, NEW i \in DOMAIN Append(s, e)
  PROVE  Append(s, e)[i] = e \/ \E j \in DOMAIN s : s[j] = Append(s, e)[i]
<1>1. /\ Len(s) \in Nat /\ DOMAIN s = 1 .. Len(s)
      /\ DOMAIN Append(s, e) = 1 .. (Len(s) + 1)
  BY AppendProperties, LenProperties
<1>2. \A j \in 1 .. Len(s) : Append(s, e)[j] = s[j]
  BY AppendProperties
<1>3. Append(s, e)[Len(s) + 1] = e
  BY AppendProperties
<1>4. i \in 1 .. Len(s) \/ i = Len(s) + 1
  BY <1>1
<1> QED
  BY <1>1, <1>2, <1>3, <1>4

(* An element of the rest of a queue was there before. *)
LEMMA InTail ==
  ASSUME NEW S, NEW s \in Seq(S), s # << >>, NEW i \in DOMAIN Tail(s)
  PROVE  \E j \in DOMAIN s : s[j] = Tail(s)[i]
<1>1. Tail(s) \in Seq(S) /\ Len(Tail(s)) = Len(s) - 1
  BY HeadTailProperties
<1>2. Len(s) \in Nat /\ DOMAIN s = 1 .. Len(s) /\ DOMAIN Tail(s) = 1 .. Len(Tail(s))
  BY <1>1, LenProperties
<1>3. i \in 1 .. Len(Tail(s)) /\ Tail(s)[i] = s[i + 1]
  BY <1>2, HeadTailProperties
<1>4. i + 1 \in DOMAIN s
  BY <1>1, <1>2, <1>3
<1> QED
  BY <1>3, <1>4

(* A write in a queue was there before, or its device has just queued it. *)
LEMMA QueuedBefore ==
  ASSUME IInv, [Next]_vars, NEW d \in Device, NEW m \in Mutation, Queued(d, m)'
  PROVE  \/ Queued(d, m)
         \/ SaveCode(d) /\ m = Add(d, code[d])
         \/ \E t \in Attempt :
              /\ attempt[t].dev = d
              /\ \/ /\ WriteOwn(t) /\ attempt[t].ownId # ""
                    /\ m = Update(attempt[t].ownId, attempt[t].target)
                 \/ /\ WritePartner(t) /\ attempt[t].partnerId # ""
                    /\ m = Update(attempt[t].partnerId, code[d])
<1>0. queue \in [Device -> Seq(Mutation)] /\ queue[d] \in Seq(Mutation)
  BY DEF IInv, TypeOK
<1>1. PICK i \in DOMAIN queue'[d] : queue'[d][i] = m
  BY DEF Queued
<1>2. CASE queue'[d] = queue[d]
  BY <1>1, <1>2 DEF Queued
<1>3. ASSUME NEW e \in Mutation, queue'[d] = Append(queue[d], e)
      PROVE  m = e \/ Queued(d, m)
  BY <1>0, <1>1, <1>3, InAppend DEF Queued
<1>4. CASE queue[d] # << >> /\ queue'[d] = Tail(queue[d])
  BY <1>0, <1>1, <1>4, InTail DEF Queued
<1>5. ASSUME NEW e \in Device, DeviceStep(e), queue'[d] # queue[d]
      PROVE  SaveCode(d) \/ Commit(d) \/ Reject(d)
  <2>1. queue' # queue
    BY <1>5
  <2>2. SaveCode(e) \/ Commit(e) \/ Reject(e)
    BY <1>5, <2>1 DEF DeviceStep, Launch, Reappear, Kill, BootGetCode, ShowCode,
         Lookup, Listen, LookupMissing, LookupError, Snapshot, OnSnapshot, Die,
         DidConnectedPartner, RequestPartnerClothes, RequestNobodysClothes,
         OpenInput, CloseInput, CommitUnacknowledged
  <2>3. e = d
    BY <1>0, <1>5, <2>2 DEF SaveCode, Commit, Reject
  <2> QED
    BY <2>2, <2>3
<1>6. CASE SaveCode(d)
  <2>1. queue'[d] = Append(queue[d], Add(d, code[d]))
    BY <1>0, <1>6 DEF SaveCode
  <2>2. Add(d, code[d]) \in Mutation
    BY <1>6 DEF IInv, SavesStored, SaveCode, TypeOK, Add, Mutation
  <2> QED
    BY <1>3, <1>6, <2>1, <2>2
<1>7. CASE Commit(d) \/ Reject(d)
  <2>1. queue[d] # << >> /\ queue'[d] = Tail(queue[d])
    BY <1>0, <1>7 DEF Commit, Reject
  <2> QED
    BY <1>4, <2>1
<1>8. ASSUME NEW t \in Attempt, AttemptStep(t), queue'[d] # queue[d]
      PROVE  \/ Queued(d, m)
             \/ /\ attempt[t].dev = d
                /\ \/ /\ WriteOwn(t) /\ attempt[t].ownId # ""
                      /\ m = Update(attempt[t].ownId, attempt[t].target)
                   \/ /\ WritePartner(t) /\ attempt[t].partnerId # ""
                      /\ m = Update(attempt[t].partnerId, code[d])
  <2>0. queue' # queue
    BY <1>8
  <2>1. WriteOwn(t) \/ WritePartner(t)
    BY <1>8, <2>0 DEF AttemptStep, Confirm, CheckExisting, FindOwn, FindPartner, FindMissing, Remember, Die
  <2>2. ASSUME NEW id, NEW val, NEW next, QueueUpdate(t, id, val, next)
        PROVE  id # "" /\ attempt[t].dev = d /\ queue'[d] = Append(queue[d], Update(id, val))
    BY <1>0, <1>8, <2>2 DEF QueueUpdate, Die
  <2>3. CASE WriteOwn(t)
    <3>1. /\ attempt[t].ownId # "" /\ attempt[t].dev = d
          /\ queue'[d] = Append(queue[d], Update(attempt[t].ownId, attempt[t].target))
      BY <2>2, <2>3 DEF WriteOwn
    <3>2. Update(attempt[t].ownId, attempt[t].target) \in Mutation
      BY <2>3, <3>1 DEF IInv, Tasks, Ids, Past, WriteOwn, Update, Mutation
    <3> QED
      BY <1>3, <2>3, <3>1, <3>2
  <2>4. CASE WritePartner(t)
    <3>1. /\ attempt[t].partnerId # "" /\ attempt[t].dev = d
          /\ queue'[d] = Append(queue[d], Update(attempt[t].partnerId, code[d]))
      BY <2>2, <2>4 DEF WritePartner
    <3>2. code[d] \in Code
      BY <2>4, <3>1 DEF IInv, Tasks, TypeOK, WritePartner
    <3>3. Update(attempt[t].partnerId, code[d]) \in Mutation
      BY <2>4, <3>1, <3>2 DEF IInv, Ids, WritePartner, Update, Mutation
    <3> QED
      BY <1>3, <2>4, <3>1, <3>3
  <2> QED
    BY <2>1, <2>3, <2>4
<1>9. CASE UNCHANGED vars
  BY <1>2, <1>9 DEF vars
<1> QED
  BY <1>2, <1>5, <1>6, <1>7, <1>8, <1>9 DEF Next

(* Only sound writes are queued. *)
LEMMA WritesStep ==
  ASSUME IInv, [Next]_vars
  PROVE  Writes'
<1> SUFFICES ASSUME NEW d \in Device, NEW m \in Mutation, Queued(d, m)'
             PROVE  Sound(m)'
  BY DEF Writes
<1>1. TypeOK /\ Tasks /\ m.doc \in Device
  BY DEF IInv, Mutation
<1>2. Sound(m)
  <2>1. CASE Queued(d, m)
    BY <2>1 DEF IInv, Writes
  <2>2. CASE SaveCode(d) /\ m = Add(d, code[d])
    BY <2>2 DEF IInv, SavesStored, SaveCode, Sound, Add
  <2>3. ASSUME NEW t \in Attempt, attempt[t].dev = d, WriteOwn(t), attempt[t].ownId # "",
               m = Update(attempt[t].ownId, attempt[t].target)
        PROVE  Sound(m)
    <3>1. /\ attempt[t].target # code[d] /\ code[d] # nil
          /\ code[attempt[t].ownId] = code[d]
      BY <2>3 DEF IInv, Tasks, Ids, WriteOwn, Running
    <3>2. Asked(code[d], attempt[t].target)
      BY <2>3, <3>1, DeviceAssumption DEF Asked, nil
    <3> QED
      BY <2>3, <3>1, <3>2 DEF Sound, Agreed, Update
  <2>4. ASSUME NEW t \in Attempt, attempt[t].dev = d, WritePartner(t), attempt[t].partnerId # "",
               m = Update(attempt[t].partnerId, code[d])
        PROVE  Sound(m)
    <3>1. /\ attempt[t].target # code[d] /\ attempt[t].target # nil
          /\ code[attempt[t].partnerId] = attempt[t].target
      BY <2>4 DEF IInv, Tasks, Ids, WritePartner, Running
    <3>2. Asked(code[d], attempt[t].target)
      BY <2>4, <3>1, DeviceAssumption DEF Asked, nil
    <3> QED
      BY <2>4, <3>1, <3>2 DEF Sound, Agreed, Update
  <2> QED
    BY <2>1, <2>2, <2>3, <2>4, QueuedBefore
<1>3. code'[m.doc] = code[m.doc] /\ code[m.doc] # nil
  BY <1>1, <1>2, CodeStays DEF Sound
<1>4. m.op = "update" => Agreed(code[m.doc], m.val)'
  <2>1. PICK a : a = code[m.doc]
    OBVIOUS
  <2>2. m.op = "update" => Agreed(a, m.val)
    BY <1>2, <2>1 DEF Sound
  <2>3. m.op = "update" => Agreed(a, m.val)'
    BY <1>1, <2>2, AgreedStays
  <2> QED
    BY <1>3, <2>1, <2>3
<1> QED
  BY <1>2, <1>3, <1>4 DEF Sound

(* Nobody is coupled without consent, one step further. *)
LEMMA ConsentStep ==
  ASSUME IInv, [Next]_vars
  PROVE  Consent'
<1> SUFFICES ASSUME NEW x \in Device, users'[x].partner_code \in Code
             PROVE  Agreed(users[x].code, users[x].partner_code)'
  BY DEF Consent, Agreed
<1>0. TypeOK /\ Tasks
  BY DEF IInv
<1>1. ASSUME NEW a, NEW b, Agreed(a, b), users'[x].code = a, users'[x].partner_code = b
      PROVE  Agreed(users[x].code, users[x].partner_code)'
  <2>1. Agreed(a, b)'
    BY <1>0, <1>1, AgreedStays
  <2> QED
    BY <1>1, <2>1
<1>2. CASE users'[x] = users[x]
  <2>1. PICK a, b : a = users[x].code /\ b = users[x].partner_code
    OBVIOUS
  <2>2. Agreed(a, b)
    BY <1>2, <2>1 DEF IInv, Consent, Agreed
  <2> QED
    BY <1>1, <1>2, <2>1, <2>2
<1>3. ASSUME NEW d \in Device, Applies(d), users'[x] # users[x]
      PROVE  Agreed(users[x].code, users[x].partner_code)'
  <2>1. PICK m \in Mutation : m = Head(queue[d]) /\ Queued(d, m)
    BY <1>0, <1>3, HeadQueued DEF Applies
  <2>2. Sound(m) /\ users' = Applied(m)
    BY <1>3, <2>1 DEF IInv, Writes, Applies
  <2>3. m.doc \in Device /\ m.val \in Code /\ m.op \in {"add", "update"}
    BY DEF Mutation
  <2>4. users \in [Device -> User] /\ users[x] \in User
    BY <1>0 DEF TypeOK
  <2>5. m.op = "update" /\ x = m.doc /\ users[x].code # nil
    BY <1>3, <2>2, <2>3, <2>4, CodeAssumption DEF Applied
  <2>6. users'[x].code = users[x].code /\ users'[x].partner_code = m.val
    BY <2>2, <2>4, <2>5 DEF Applied, User
  <2>7. users[x].code = code[x]
    BY <2>5 DEF IInv, Documents
  <2>8. PICK a : a = code[x]
    OBVIOUS
  <2>9. Agreed(a, m.val)
    BY <2>2, <2>5, <2>8 DEF Sound
  <2> QED
    BY <1>1, <2>6, <2>7, <2>8, <2>9
<1> QED
  BY <1>0, <1>2, <1>3, UsersStay

-----------------------------------------------------------------------------
(* The inductive invariant holds in every reachable state. *)
THEOREM Invariance == Spec => []IInv
<1>1. Init => IInv
  BY InitIInv
<1>2. IInv /\ [Next]_vars => IInv'
  BY TypeStep, DocumentsStep, SavesStep, TasksStep, WritesStep, ConsentStep DEF IInv
<1> QED
  BY <1>1, <1>2, PTL DEF Spec

(* Whatever faults, crashes and interleavings occur, the variables keep    *)
(* their types; in particular no empty or unknown code is ever stored as   *)
(* "code" or written to a document by connectWithPartner.                  *)
THEOREM TypeCorrect == Spec => []TypeOK
<1>1. IInv => TypeOK
  BY DEF IInv
<1> QED
  BY <1>1, Invariance, PTL

(* For any number of users, taps and faults, two codes are linked on the   *)
(* server only if the user of one of them typed the other (CodeManager's   *)
(* connectWithPartner), and nobody is linked with itself.                  *)
THEOREM ConsentHolds == Spec => []Consent
<1>1. IInv => Consent
  BY DEF IInv
<1> QED
  BY <1>1, Invariance, PTL

-----------------------------------------------------------------------------
(* Pairing implements Couples *)

(* The user of e taps the button with another's code c in the panel. *)
Types(t, e, c) ==
  /\ c # code[e]
  /\ \E via \in {"main", "settings"} : Confirm(t, e, c, via)

(* A pair that is asked for was asked for before, or is just being typed. *)
LEMMA AskedBefore ==
  ASSUME IInv, [Next]_vars, NEW a \in Code, NEW b \in Code, Asked(a, b)'
  PROVE  \/ Asked(a, b)
         \/ \E t \in Attempt, e \in Device : Types(t, e, b) /\ a = code[e]
<1>0. TypeOK /\ Tasks /\ Tasks'
  BY TasksStep DEF IInv
<1>1. PICK t \in Attempt : /\ attempt'[t].dev # nil /\ code'[attempt'[t].dev] = a
                           /\ attempt'[t].target = b /\ a # b
  BY DEF Asked
<1>2. CASE attempt[t].pc # "unused"
  <2>1. attempt'[t].dev = attempt[t].dev /\ attempt[t].target = b
    BY <1>0, <1>1, <1>2, TaskStays
  <2>2. attempt[t].dev \in Device /\ code[attempt[t].dev] # nil
    BY <1>0, <1>2 DEF Tasks
  <2>3. code[attempt[t].dev] = a
    BY <1>0, <1>1, <2>1, <2>2, CodeStays
  <2> QED
    BY <1>1, <2>1, <2>3 DEF Asked
<1>3. CASE attempt[t].pc = "unused"
  <2>1. attempt[t].dev = nil
    BY <1>0, <1>3 DEF Tasks
  <2>2. AttemptStep(t)
    BY <1>0, <1>1, <1>3, <2>1, OtherTasks DEF Running
  <2>3. PICK e \in Device, c \in Code \cup {""}, via \in {"main", "settings"} : Confirm(t, e, c, via)
    BY <1>3, <2>2 DEF AttemptStep, CheckExisting, FindOwn, FindPartner, FindMissing, WriteOwn,
                      WritePartner, Remember
  <2>4. attempt'[t].dev = e /\ attempt'[t].target = c /\ code' = code
    BY <1>0, <2>3 DEF Confirm, Idle, TypeOK
  <2>5. b = c /\ a = code[e] /\ c # code[e]
    BY <1>1, <2>4
  <2> QED
    BY <2>3, <2>5 DEF Types
<1> QED
  BY <1>2, <1>3

(* What a tap does to the tasks. *)
LEMMA TapEffect ==
  ASSUME TypeOK, NEW t \in Attempt, NEW e \in Device, NEW c \in Code, Types(t, e, c)
  PROVE  /\ attempt[t].pc = "unused" /\ attempt'[t].pc = "exists"
         /\ attempt'[t].dev = e /\ attempt'[t].target = c
         /\ \A u \in Attempt : u # t => attempt'[u] = attempt[u]
<1>1. PICK via : attempt[t].pc = "unused" /\ attempt' = [attempt EXCEPT ![t] =
        [Idle EXCEPT !.pc = "exists", !.dev = e, !.target = c, !.via = via]]
  BY DEF Types, Confirm
<1>2. attempt'[t] = [Idle EXCEPT !.pc = "exists", !.dev = e, !.target = c, !.via = via]
  BY <1>1 DEF TypeOK
<1>3. \A u \in Attempt : u # t => attempt'[u] = attempt[u]
  BY <1>1 DEF TypeOK
<1>4. /\ attempt'[t].pc = "exists" /\ attempt'[t].dev = e /\ attempt'[t].target = c
  BY <1>2 DEF Idle
<1> QED
  BY <1>1, <1>3, <1>4

(* Two taps are not one step. *)
LEMMA OneTap ==
  ASSUME TypeOK, NEW t \in Attempt, NEW e \in Device, NEW b \in Code, Types(t, e, b),
         NEW u \in Attempt, NEW f \in Device, NEW c \in Code, Types(u, f, c)
  PROVE  e = f /\ b = c
<1>1. t = u
  BY TapEffect
<1> QED
  BY <1>1, TapEffect

(* The pairs that are asked for: one more after a tap with another's code, *)
(* else the same.                                                          *)
LEMMA PairsStep ==
  ASSUME IInv, [Next]_vars
  PROVE  \/ Pairs' = Pairs
         \/ \E a, b \in Code : a # b /\ Pairs' = Pairs \cup {<<a, b>>} /\ users' = users
<1>0. TypeOK /\ Tasks
  BY DEF IInv
<1>1. \A p \in Code \X Code : Asked(p[1], p[2]) => Asked(p[1], p[2])'
  BY <1>0, AskedStays
<1>2. CASE ~ \E t \in Attempt, e \in Device, c \in Code : Types(t, e, c)
  <2>1. \A p \in Code \X Code : Asked(p[1], p[2])' => Asked(p[1], p[2])
    BY <1>2, AskedBefore
  <2> QED
    BY <1>1, <2>1 DEF Pairs
<1>3. ASSUME NEW t \in Attempt, NEW e \in Device, NEW c \in Code, Types(t, e, c)
      PROVE  \E a, b \in Code : a # b /\ Pairs' = Pairs \cup {<<a, b>>} /\ users' = users
  <2>1. code[e] \in Code /\ code[e] # c /\ code' = code /\ users' = users
    BY <1>0, <1>3 DEF Types, Confirm, TypeOK
  <2>2. attempt'[t].dev = e /\ attempt'[t].target = c
    BY <1>0, <1>3, TapEffect
  <2>3. e # nil
    BY DeviceAssumption DEF nil
  <2>4. Asked(code[e], c)'
    BY <2>1, <2>2, <2>3 DEF Asked
  <2>5. ASSUME NEW p \in Code \X Code, Asked(p[1], p[2])'
        PROVE  Asked(p[1], p[2]) \/ p = <<code[e], c>>
    <3>1. p[1] \in Code /\ p[2] \in Code /\ p = <<p[1], p[2]>>
      OBVIOUS
    <3>2. CASE \E u \in Attempt, f \in Device : Types(u, f, p[2]) /\ p[1] = code[f]
      <4>1. PICK u \in Attempt, f \in Device : Types(u, f, p[2]) /\ p[1] = code[f]
        BY <3>2
      <4>2. f = e /\ p[2] = c
        BY <1>0, <1>3, <3>1, <4>1, OneTap
      <4> QED
        BY <3>1, <4>1, <4>2
    <3> QED
      BY <2>5, <3>1, <3>2, AskedBefore
  <2>6. Pairs' \subseteq Pairs \cup {<<code[e], c>>}
    BY <2>5 DEF Pairs
  <2>7. Pairs \subseteq Pairs'
    BY <1>1 DEF Pairs
  <2>8. <<code[e], c>> \in Pairs'
    BY <2>1, <2>4 DEF Pairs
  <2> QED
    BY <2>1, <2>6, <2>7, <2>8
<1> QED
  BY <1>2, <1>3

(* What the server applies registers a device or links it with a partner   *)
(* it agreed with, or changes nothing.                                     *)
LEMMA AppliesStep ==
  ASSUME IInv, NEW d \in Device, Applies(d)
  PROVE  [Couple!Next]_Couple!registry
<1>1. PICK m \in Mutation : m = Head(queue[d]) /\ Queued(d, m)
  BY HeadQueued DEF IInv, Applies
<1>2. Sound(m) /\ users' = Applied(m)
  BY <1>1 DEF IInv, Writes, Applies
<1>3. m.doc \in Device /\ m.val \in Code /\ m.op \in {"add", "update"}
  BY DEF Mutation
<1>4. users \in [Device -> User]
  BY DEF IInv, TypeOK
<1>5. Pairs' = Pairs
  BY DEF Applies, Pairs, Asked
<1>6. CASE m.op = "add"
  <2>1. users' = [users EXCEPT ![m.doc] = [code |-> m.val, partner_code |-> ""]]
    BY <1>2, <1>6 DEF Applied
  <2>2. Codes[m.doc] \in {"nil", m.val}
    BY <1>2, <1>3, <1>6 DEF Codes, IInv, Documents, Sound, nil
  <2>3. Codes' = [Codes EXCEPT ![m.doc] = m.val]
    BY <1>3, <1>4, <2>1 DEF Codes
  <2>4. Partners' = [Partners EXCEPT ![m.doc] = ""]
    BY <1>3, <1>4, <2>1 DEF Partners
  <2>5. Couple!Register(m.doc, m.val)
    BY <1>5, <2>2, <2>3, <2>4 DEF Couple!Register
  <2> QED
    BY <1>3, <2>5 DEF Couple!Next
<1>7. CASE m.op = "update" /\ users[m.doc].code # nil
  <2>1. users' = [users EXCEPT ![m.doc].partner_code = m.val]
    BY <1>2, <1>7 DEF Applied
  <2>2. Codes[m.doc] = code[m.doc] /\ Codes[m.doc] \in Code /\ Codes[m.doc] # "nil"
    BY <1>3, <1>4, <1>7 DEF Codes, IInv, Documents, User, nil
  <2>3. Agreed(code[m.doc], m.val)
    BY <1>2, <1>7 DEF Sound
  <2>4. {<<Codes[m.doc], m.val>>, <<m.val, Codes[m.doc]>>} \cap Pairs # {}
    <3>1. CASE Asked(code[m.doc], m.val)
      <4>1. <<code[m.doc], m.val>> \in Pairs
        BY <1>3, <2>2, <3>1 DEF Pairs
      <4> QED
        BY <2>2, <4>1
    <3>2. CASE Asked(m.val, code[m.doc])
      <4>1. <<m.val, code[m.doc]>> \in Pairs
        BY <1>3, <2>2, <3>2 DEF Pairs
      <4> QED
        BY <2>2, <4>1
    <3> QED
      BY <2>3, <3>1, <3>2 DEF Agreed
  <2>5. Codes' = Codes
    BY <1>3, <1>4, <2>1 DEF Codes, User
  <2>6. Partners' = [Partners EXCEPT ![m.doc] = m.val]
    BY <1>3, <1>4, <2>1 DEF Partners, User
  <2>7. Couple!Link(m.doc, m.val)
    BY <1>5, <2>2, <2>4, <2>5, <2>6 DEF Couple!Link
  <2> QED
    BY <1>3, <2>7 DEF Couple!Next
<1>8. CASE m.op = "update" /\ users[m.doc].code = nil
  <2>1. users' = users
    BY <1>2, <1>8 DEF Applied
  <2> QED
    BY <1>5, <2>1 DEF Codes, Partners, Couple!registry
<1> QED
  BY <1>3, <1>6, <1>7, <1>8

(* The lookups, tasks, queues, crashes and retries of connectWithPartner   *)
(* and saveCode implement the registry of Couples, for any number of       *)
(* devices, codes and taps and with every fault: a document changes only   *)
(* to register its owner's one code, or to link it to an agreed partner.   *)
THEOREM CouplesImplemented == Spec => ImplementsCouples
<1>1. Init => Couple!Init
  <2> SUFFICES ASSUME Init PROVE Couple!Init
    OBVIOUS
  <2>1. Codes = [x \in Device |-> "nil"] /\ Partners = [x \in Device |-> ""]
    BY DEF Init, Codes, Partners, nil
  <2>2. Pairs = {}
    BY DEF Init, Pairs, Asked, Idle
  <2> QED
    BY <2>1, <2>2 DEF Couple!Init
<1>2. IInv /\ [Next]_vars => [Couple!Next]_Couple!registry
  <2> SUFFICES ASSUME IInv, [Next]_vars PROVE [Couple!Next]_Couple!registry
    OBVIOUS
  <2>1. CASE \E d \in Device : Applies(d)
    BY <2>1, AppliesStep
  <2>2. CASE users' = users
    <3>1. Codes' = Codes /\ Partners' = Partners
      BY <2>2 DEF Codes, Partners
    <3>2. CASE Pairs' = Pairs
      BY <3>1, <3>2 DEF Couple!registry
    <3>3. ASSUME NEW a \in Code, NEW b \in Code, a # b, Pairs' = Pairs \cup {<<a, b>>}
          PROVE  Couple!Next
      BY <3>1, <3>3 DEF Couple!Next, Couple!Ask
    <3> QED
      BY <3>2, <3>3, PairsStep
  <2> QED
    BY <2>1, <2>2, UsersStay DEF IInv
<1> QED
  BY <1>1, <1>2, Invariance, PTL DEF Spec, ImplementsCouples, Couple!Spec
=============================================================================
