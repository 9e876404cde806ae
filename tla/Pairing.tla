------------------------------- MODULE Pairing -------------------------------
(***************************************************************************)
(* How two installations of POMPOM become a couple: CodeManager,           *)
(* ConnectionManager and the parts of MainView, CodeInputView and          *)
(* ClothesViewModel that run because of them.                              *)
(*                                                                         *)
(* A device owns a code (UserDefaults "code") and one document of the      *)
(* Firestore collection "users".  To connect, its user types the other     *)
(* one's code; connectWithPartner looks both documents up and writes each  *)
(* code into the other document with two independent updates.  Every       *)
(* device listens to its own document and copies what it sees into         *)
(* UserDefaults "partner_code" and into MainViewModel.isConnectedPartner.  *)
(*                                                                         *)
(* An await is a point where other steps run; so is the space between two  *)
(* statements of connectWithPartner, which runs on the concurrent executor *)
(* while the callbacks of the listener run on the main queue.              *)
(***************************************************************************)
EXTENDS Naturals, Sequences, FiniteSets

CONSTANTS
  Device,     \* installations of the app; also the ids of their documents
  Code,       \* what generateCode may return and what a user may type
  Attempt,    \* taps on the button of a CodeInputView, one task each
  Fault,      \* which of "kill", "offline", "error", "reject", "resend" happen
  FreshCode,  \* generateCode never returns a code that is in use
  MaxAppear,  \* bound: calls of connectPartner per device
  MaxMain     \* bound: snapshots that wait in the main queue of a device

nil == "nil"

ASSUME CodeAssumption    == Code \cap {nil, "", " "} = {}
ASSUME DeviceAssumption  == Device \cap {nil, ""} = {}
ASSUME FaultAssumption   == Fault \subseteq {"kill", "offline", "error", "reject", "resend"}
ASSUME BoundAssumption   == MaxAppear \in Nat /\ MaxMain \in Nat /\ FreshCode \in BOOLEAN

VARIABLES
  code,         \* UserDefaults "code" of each device
  partner_code, \* UserDefaults "partner_code" of each device
  app,          \* the running process of each device: all that dies with it
  attempt,      \* the connectWithPartner tasks
  queue,        \* Firestore's persisted queue of writes of each device
  cache,        \* the documents in Firestore's local cache of each device
  users,        \* the documents of the collection "users" on the server
  appeared      \* how often connectPartner was called on each device

vars == <<code, partner_code, app, attempt, queue, cache, users, appeared>>

-----------------------------------------------------------------------------
(* Types *)

User     == [code : Code \cup {nil}, partner_code : Code \cup {"", " "}]
Mutation == [op : {"add", "update"}, doc : Device, val : Code]
MainJob  == [job : {"snapshot", "didConnect"}, val : Code \cup {"", " "}]

Death    == {"none", "killed", "index", "path"}
Boot     == {"off", "getCode", "lookup", "answered", "ready"}

App == [up        : BOOLEAN,
        death     : Death,                  \* how the process ended
        boot      : Boot,                   \* progress of connectPartner
        answer    : Device \cup {nil, ""},  \* of its getIdByCode: nil is no document
        saving    : BOOLEAN,                \* saveCode dispatched, not yet run
        listening : Device \cup {nil},      \* document with a listener on it
        raised    : Code \cup {nil, "", " "},  \* newest value it was told
        mainq     : Seq(MainJob),           \* jobs of the main queue
        connected : BOOLEAN,                \* isConnectedPartner
        panel     : BOOLEAN,                \* codeInputViewIsPresented
        fetches   : Nat,                    \* requestPartnerClothes tasks
        watched   : SUBSET Code,            \* partners' clothes listened to
        resent    : BOOLEAN]                \* bound: one lost answer per process

Running  == {"exists", "ownId", "partnerId", "missing",
             "writeOwn", "writePartner", "remember"}
Finished == {"success", "callMySelf", "invalidPartnerCode", "dead"}

Task == [pc        : {"unused"} \cup Running \cup Finished,
         dev       : Device \cup {nil},
         target    : Code \cup {nil, ""},
         via       : {nil, "main", "settings"},
         ownId     : Device \cup {nil, ""},
         partnerId : Device \cup {nil, ""}]

(* One type for each variable. *)
TypeOK ==
  /\ code         \in [Device -> Code \cup {nil}]
  /\ partner_code \in [Device -> Code \cup {nil, ""}]
  /\ app          \in [Device -> App]
  /\ attempt      \in [Attempt -> Task]
  /\ queue        \in [Device -> Seq(Mutation)]
  /\ cache        \in [Device -> SUBSET Device]
  /\ users        \in [Device -> User]
  /\ appeared     \in [Device -> Nat]

-----------------------------------------------------------------------------
(* Initial state: nobody has opened the app yet. *)

Process(up, death, boot) ==
  [up |-> up, death |-> death, boot |-> boot, answer |-> nil, saving |-> FALSE,
   listening |-> nil, raised |-> nil, mainq |-> <<>>, connected |-> FALSE,
   panel |-> FALSE, fetches |-> 0, watched |-> {}, resent |-> FALSE]

Idle == [pc |-> "unused", dev |-> nil, target |-> nil, via |-> nil,
         ownId |-> nil, partnerId |-> nil]

Init ==
  /\ code         = [d \in Device |-> nil]
  /\ partner_code = [d \in Device |-> nil]
  /\ app          = [d \in Device |-> Process(FALSE, "none", "off")]
  /\ attempt      = [t \in Attempt |-> Idle]
  /\ queue        = [d \in Device |-> <<>>]
  /\ cache        = [d \in Device |-> {}]
  /\ users        = [d \in Device |-> [code |-> nil, partner_code |-> ""]]
  /\ appeared     = [d \in Device |-> 0]

-----------------------------------------------------------------------------
(* The Firestore client, as CodeManager and ConnectionManager use it. *)

Add(x, c)    == [op |-> "add", doc |-> x, val |-> c]
Update(x, c) == [op |-> "update", doc |-> x, val |-> c]

(* The documents whose "code" is c: those of the server, overlaid with the *)
(* device's own writes that the server has not seen yet.                   *)
Matches(d, c) ==
  {x \in Device : \/ users[x].code = c
                  \/ \E i \in DOMAIN queue[d] : queue[d][i] = Add(x, c)}

(* What getDocuments may answer: online it waits for the server; offline   *)
(* it falls back on the local cache.                                       *)
Answers(d, c) ==
  {Matches(d, c)} \cup
  (IF "offline" \in Fault THEN {Matches(d, c) \cap cache[d]} ELSE {})

(* The document getIdByCode takes from an answer; nil when there is none.  *)
FirstOf(found) == IF found = {} THEN {nil} ELSE found

(* The "partner_code" a write leaves in its document. *)
Written(m) == IF m.op = "add" THEN "" ELSE m.val

(* The "partner_code" of document x as the client of d shows it: what the  *)
(* newest write of its own queue leaves, else the server's value (a set    *)
(* with one element); nothing while the document does not exist, which the *)
(* callback of the listener ignores.                                       *)
View(d, x) ==
  LET own == {i \in DOMAIN queue[d] : queue[d][i].doc = x}
  IN  IF users[x].code = nil /\ \A i \in own : queue[d][i].op # "add" THEN {}
      ELSE IF own = {} THEN {users[x].partner_code}
      ELSE {Written(queue[d][i]) : i \in {k \in own : \A j \in own : j <= k}}

-----------------------------------------------------------------------------
(* The process of a device ends: its durable state stays, the rest goes.   *)

Die(d, how) ==
  /\ app' = [app EXCEPT ![d] = Process(FALSE, how, "off")]
  /\ attempt' = [t \in Attempt |->
                   IF attempt[t].dev = d /\ attempt[t].pc \in Running
                   THEN [attempt[t] EXCEPT !.pc = "dead"] ELSE attempt[t]]
  /\ UNCHANGED <<code, partner_code, queue, cache, users, appeared>>

Kill(d) ==
  /\ "kill" \in Fault
  /\ app[d].up
  /\ Die(d, "killed")

-----------------------------------------------------------------------------
(* Launching: POMPOMApp shows MainView, whose onAppear starts              *)
(* connectPartner; onAppear comes again on the way back from SettingsView. *)

Launch(d) ==
  /\ ~app[d].up
  /\ appeared[d] < MaxAppear
  /\ app' = [app EXCEPT ![d] = Process(TRUE, "none", "getCode")]
  /\ appeared' = [appeared EXCEPT ![d] = @ + 1]
  /\ UNCHANGED <<code, partner_code, attempt, queue, cache, users>>

Reappear(d) ==
  /\ app[d].boot = "ready"
  /\ appeared[d] < MaxAppear
  /\ app' = [app EXCEPT ![d].boot = "getCode"]
  /\ appeared' = [appeared EXCEPT ![d] = @ + 1]
  /\ UNCHANGED <<code, partner_code, attempt, queue, cache, users>>

(* generateCode draws ten of 36 characters. *)
Generated == {c \in Code : FreshCode => \A d \in Device : code[d] # c}

(* Mutant: the stored code is not looked at, every call makes a new one. *)
GetCodeAnew(d, next) ==
  /\ \E c \in Generated : code' = [code EXCEPT ![d] = c]
  /\ app' = [app EXCEPT ![d].boot = next, ![d].saving = TRUE]

(* CodeManager.getCode; the caller's task goes on to `next`.  A new code   *)
(* is stored at once, its document is written by a dispatched block.       *)
GetCode(d, next) ==
  \/ /\ code[d] # nil
     /\ app' = [app EXCEPT ![d].boot = next]
     /\ UNCHANGED code
  \/ /\ code[d] = nil
     /\ \E c \in Generated : code' = [code EXCEPT ![d] = c]
     /\ app' = [app EXCEPT ![d].boot = next, ![d].saving = TRUE]

BootGetCode(d) ==
  /\ app[d].boot = "getCode"
  /\ GetCode(d, "lookup")
  /\ UNCHANGED <<partner_code, attempt, queue, cache, users, appeared>>

(* OnboardingView.onAppear and CodeOutputView ask for the code as well. *)
ShowCode(d) ==
  /\ app[d].up
  /\ code[d] = nil
  /\ GetCode(d, app[d].boot)
  /\ UNCHANGED <<partner_code, attempt, queue, cache, users, appeared>>

SaveCode(d) ==
  /\ app[d].saving
  /\ app' = [app EXCEPT ![d].saving = FALSE]
  /\ queue' = [queue EXCEPT ![d] = Append(@, Add(d, code[d]))]
  /\ cache' = [cache EXCEPT ![d] = @ \cup {d}]
  /\ UNCHANGED <<code, partner_code, attempt, users, appeared>>

(* getPartnerCodeFromServer asks for the own document.  Firestore computes *)
(* the answer; the task takes it up after the await, and the dispatched    *)
(* saveCode, another task or a commit may come in between.  getIdByCode    *)
(* swallows an error and returns "".                                       *)
Lookup(d) ==
  /\ app[d].boot = "lookup"
  /\ \/ \E found \in Answers(d, code[d]) : \E x \in FirstOf(found) :
          /\ app' = [app EXCEPT ![d].boot = "answered", ![d].answer = x]
          /\ cache' = [cache EXCEPT ![d] = @ \cup found]
     \/ /\ "error" \in Fault
        /\ app' = [app EXCEPT ![d].boot = "answered", ![d].answer = ""]
        /\ UNCHANGED cache
  /\ UNCHANGED <<code, partner_code, attempt, queue, users, appeared>>

(* The listener on the document that was found. *)
Listen(d) ==
  /\ app[d].boot = "answered"
  /\ app[d].answer \in Device
  /\ app' = [app EXCEPT ![d].boot = "ready", ![d].answer = nil,
                        ![d].listening = app[d].answer, ![d].raised = nil]
  /\ UNCHANGED <<code, partner_code, attempt, queue, cache, users, appeared>>

(* documents[0] of an empty answer: a trap that no catch sees. *)
LookupMissing(d) ==
  /\ app[d].boot = "answered"
  /\ app[d].answer = nil
  /\ Die(d, "index")

(* document("") raises. *)
LookupError(d) ==
  /\ app[d].boot = "answered"
  /\ app[d].answer = ""
  /\ Die(d, "path")

-----------------------------------------------------------------------------
(* The listener on the own document. *)

(* Firestore notices that the document looks different from what it last   *)
(* told the listener and puts a callback into the main queue.              *)
Snapshot(d) ==
  /\ app[d].listening # nil
  /\ Len(app[d].mainq) < MaxMain
  /\ \E v \in View(d, app[d].listening) \ {app[d].raised} :
       app' = [app EXCEPT
         ![d].raised = v,
         ![d].mainq = Append(@, [job |-> "snapshot", val |-> v])]
  /\ UNCHANGED <<code, partner_code, attempt, queue, cache, users, appeared>>

(* Mutant: the completion is lost, only UserDefaults is written. *)
OnSnapshotSilent(d) ==
  /\ app[d].mainq # <<>>
  /\ Head(app[d].mainq).job = "snapshot"
  /\ partner_code' = [partner_code EXCEPT ![d] = Head(app[d].mainq).val]
  /\ app' = [app EXCEPT ![d].mainq = Tail(@)]
  /\ UNCHANGED <<code, attempt, queue, cache, users, appeared>>

(* The callback of the listener, the completion of connectPartner included. *)
OnSnapshot(d) ==
  /\ app[d].mainq # <<>>
  /\ Head(app[d].mainq).job = "snapshot"
  /\ LET data == Head(app[d].mainq).val
         temp == IF data # " " THEN data ELSE ""
     IN  /\ partner_code' = [partner_code EXCEPT ![d] = temp]
         /\ app' = [app EXCEPT
              ![d].mainq = Tail(@),
              ![d].connected = (temp # ""),
              ![d].fetches = IF temp # "" THEN @ + 1 ELSE @]
  /\ UNCHANGED <<code, attempt, queue, cache, users, appeared>>

(* MainView.didConnectedPartner, on the main queue after `success`. *)
DidConnectedPartner(d) ==
  /\ app[d].mainq # <<>>
  /\ Head(app[d].mainq).job = "didConnect"
  /\ app' = [app EXCEPT
       ![d].mainq = Tail(@),
       ![d].connected = TRUE,
       ![d].fetches = @ + 1]
  /\ UNCHANGED <<code, partner_code, attempt, queue, cache, users, appeared>>

(* Mutant: runs although nobody asked for it. *)
RequestPartnerClothesUnasked(d) ==
  /\ app[d].up
  /\ app' = [app EXCEPT ![d].fetches = @ - 1]
  /\ UNCHANGED <<code, partner_code, attempt, queue, cache, users, appeared>>

(* requestPartnerClothes, in a task of its own: it reads partner_code when *)
(* it runs, not when it was started.  document("") raises.                 *)
RequestPartnerClothes(d) ==
  /\ app[d].fetches > 0
  /\ partner_code[d] # ""
  /\ app' = [app EXCEPT
       ![d].fetches = @ - 1,
       ![d].watched = IF partner_code[d] = nil THEN @ ELSE @ \cup {partner_code[d]}]
  /\ UNCHANGED <<code, partner_code, attempt, queue, cache, users, appeared>>

RequestNobodysClothes(d) ==
  /\ app[d].fetches > 0
  /\ partner_code[d] = ""
  /\ Die(d, "path")

-----------------------------------------------------------------------------
(* connectWithPartner, one task per tap. *)

(* The character of the partner can be tapped while there is no partner;   *)
(* its action sheet opens the panel, which stays open until a tap on the   *)
(* button or beside it, also when a partner appears meanwhile.             *)
OpenInput(d) ==
  /\ app[d].up
  /\ ~app[d].connected
  /\ ~app[d].panel
  /\ app' = [app EXCEPT ![d].panel = TRUE]
  /\ UNCHANGED <<code, partner_code, attempt, queue, cache, users, appeared>>

CloseInput(d) ==
  /\ app[d].panel
  /\ app' = [app EXCEPT ![d].panel = FALSE]
  /\ UNCHANGED <<code, partner_code, attempt, queue, cache, users, appeared>>

(* Mutant: the guard against the own code is dropped. *)
ConfirmSelf(t, d, c, via) ==
  /\ attempt[t].pc = "unused"
  /\ app[d].up /\ code[d] # nil
  /\ via = "main" => app[d].panel
  /\ attempt' = [attempt EXCEPT ![t] =
       [Idle EXCEPT !.pc = "exists", !.dev = d, !.target = c, !.via = via]]
  /\ app' = [app EXCEPT ![d].panel = IF via = "main" THEN FALSE ELSE @]
  /\ UNCHANGED <<code, partner_code, queue, cache, users, appeared>>

(* The button of CodeInputView, in MainView or in SettingsView, up to the  *)
(* first await.  A tap is handled after the job onAppear put into the main *)
(* queue, so the code exists.                                              *)
Confirm(t, d, c, via) ==
  /\ attempt[t].pc = "unused"
  /\ app[d].up /\ code[d] # nil
  /\ via = "main" => app[d].panel
  /\ attempt' = [attempt EXCEPT ![t] =
       [Idle EXCEPT !.pc = IF c = code[d] THEN "callMySelf" ELSE "exists",
                    !.dev = d, !.target = c, !.via = via]]
  /\ app' = [app EXCEPT ![d].panel = IF via = "main" THEN FALSE ELSE @]
  /\ UNCHANGED <<code, partner_code, queue, cache, users, appeared>>

(* Mutant: an empty answer counts as an existing code. *)
CheckNothing(t) ==
  /\ attempt[t].pc = "exists"
  /\ attempt' = [attempt EXCEPT ![t].pc = "ownId"]
  /\ UNCHANGED <<code, partner_code, app, queue, cache, users, appeared>>

CheckExisting(t) ==
  LET d == attempt[t].dev IN
  /\ attempt[t].pc = "exists"
  /\ \E found \in Answers(d, attempt[t].target) \cup
                  (IF "error" \in Fault THEN {{}} ELSE {}) :
       /\ attempt' = [attempt EXCEPT ![t].pc =
                        IF found = {} THEN "invalidPartnerCode" ELSE "ownId"]
       /\ cache' = [cache EXCEPT ![d] = @ \cup found]
  /\ UNCHANGED <<code, partner_code, app, queue, users, appeared>>

(* The two getIdByCode of the task.  What it does with a document it found *)
(* touches nothing but itself, so answer and use are one step; an empty    *)
(* answer waits in "missing" for the task to index it.                     *)
FindOwn(t) ==
  LET d == attempt[t].dev IN
  /\ attempt[t].pc = "ownId"
  /\ \/ \E found \in Answers(d, code[d]) : \E x \in FirstOf(found) :
          /\ attempt' = [attempt EXCEPT ![t].ownId = x,
               ![t].pc = IF x = nil THEN "missing" ELSE "partnerId"]
          /\ cache' = [cache EXCEPT ![d] = @ \cup found]
     \/ /\ "error" \in Fault
        /\ attempt' = [attempt EXCEPT ![t].pc = "partnerId", ![t].ownId = ""]
        /\ UNCHANGED cache
  /\ UNCHANGED <<code, partner_code, app, queue, users, appeared>>

(* Mutant: success is reported before anything is written. *)
FindPartnerHasty(t) ==
  /\ attempt[t].pc = "partnerId"
  /\ attempt' = [attempt EXCEPT ![t].pc = "remember"]
  /\ UNCHANGED <<code, partner_code, app, queue, cache, users, appeared>>

FindPartner(t) ==
  LET d == attempt[t].dev IN
  /\ attempt[t].pc = "partnerId"
  /\ \/ \E found \in Answers(d, attempt[t].target) : \E x \in FirstOf(found) :
          /\ attempt' = [attempt EXCEPT ![t].partnerId = x,
               ![t].pc = IF x = nil THEN "missing" ELSE "writeOwn"]
          /\ cache' = [cache EXCEPT ![d] = @ \cup found]
     \/ /\ "error" \in Fault
        /\ attempt' = [attempt EXCEPT ![t].pc = "writeOwn", ![t].partnerId = ""]
        /\ UNCHANGED cache
  /\ UNCHANGED <<code, partner_code, app, queue, users, appeared>>

(* documents[0] of an empty answer, in the task. *)
FindMissing(t) ==
  /\ attempt[t].pc = "missing"
  /\ Die(attempt[t].dev, "index")

(* updatePartnerCode: a write that is queued, not awaited. *)
QueueUpdate(t, id, val, next) ==
  LET d == attempt[t].dev IN
  \/ /\ id # ""
     /\ queue' = [queue EXCEPT ![d] = Append(@, Update(id, val))]
     /\ attempt' = [attempt EXCEPT ![t].pc = next]
     /\ UNCHANGED <<code, partner_code, app, cache, users, appeared>>
  \/ /\ id = ""
     /\ Die(d, "path")

WriteOwn(t) ==
  /\ attempt[t].pc = "writeOwn"
  /\ QueueUpdate(t, attempt[t].ownId, attempt[t].target, "writePartner")

(* Mutant: the second of the two updates is forgotten. *)
WritePartnerNot(t) ==
  /\ attempt[t].pc = "writePartner"
  /\ attempt' = [attempt EXCEPT ![t].pc = "remember"]
  /\ UNCHANGED <<code, partner_code, app, queue, cache, users, appeared>>

WritePartner(t) ==
  /\ attempt[t].pc = "writePartner"
  /\ QueueUpdate(t, attempt[t].partnerId, code[attempt[t].dev], "remember")

(* UserDefaults, then `success` is thrown and caught on the main queue:    *)
(* MainView reacts to it, SettingsView does not.                           *)
Remember(t) ==
  LET d == attempt[t].dev IN
  /\ attempt[t].pc = "remember"
  /\ partner_code' = [partner_code EXCEPT ![d] = attempt[t].target]
  /\ attempt' = [attempt EXCEPT ![t].pc = "success"]
  /\ app' = [app EXCEPT ![d].mainq =
       IF attempt[t].via = "main"
       THEN Append(@, [job |-> "didConnect", val |-> attempt[t].target]) ELSE @]
  /\ UNCHANGED <<code, queue, cache, users, appeared>>

-----------------------------------------------------------------------------
(* The server takes the writes of a device in order; an update of a        *)
(* document that does not exist fails, and a write may be refused.         *)

Applied(m) ==
  CASE m.op = "add" ->
         [users EXCEPT ![m.doc] = [code |-> m.val, partner_code |-> ""]]
    [] m.op = "update" /\ users[m.doc].code # nil ->
         [users EXCEPT ![m.doc].partner_code = m.val]
    [] OTHER -> users

Commit(d) ==
  /\ app[d].up
  /\ queue[d] # <<>>
  /\ users' = Applied(Head(queue[d]))
  /\ queue' = [queue EXCEPT ![d] = Tail(@)]
  /\ UNCHANGED <<code, partner_code, app, attempt, cache, appeared>>

(* The write is applied but the stream breaks before the acknowledgement   *)
(* is read: the client, which resumes no stream, will send it once more.   *)
CommitUnacknowledged(d) ==
  /\ "resend" \in Fault
  /\ app[d].up /\ ~app[d].resent
  /\ queue[d] # <<>>
  /\ users' = Applied(Head(queue[d]))
  /\ app' = [app EXCEPT ![d].resent = TRUE]
  /\ UNCHANGED <<code, partner_code, attempt, queue, cache, appeared>>

Reject(d) ==
  /\ "reject" \in Fault
  /\ app[d].up
  /\ queue[d] # <<>>
  /\ queue' = [queue EXCEPT ![d] = Tail(@)]
  /\ UNCHANGED <<code, partner_code, app, attempt, cache, users, appeared>>

-----------------------------------------------------------------------------

DeviceStep(d) ==
  \/ Launch(d) \/ Reappear(d) \/ Kill(d)
  \/ BootGetCode(d) \/ ShowCode(d) \/ SaveCode(d)
  \/ Lookup(d) \/ Listen(d) \/ LookupMissing(d) \/ LookupError(d)
  \/ Snapshot(d) \/ OnSnapshot(d) \/ DidConnectedPartner(d)
  \/ RequestPartnerClothes(d) \/ RequestNobodysClothes(d)
  \/ OpenInput(d) \/ CloseInput(d)
  \/ Commit(d) \/ CommitUnacknowledged(d) \/ Reject(d)

AttemptStep(t) ==
  \/ \E d \in Device, c \in Code \cup {""}, via \in {"main", "settings"} :
       Confirm(t, d, c, via)
  \/ CheckExisting(t) \/ FindOwn(t) \/ FindPartner(t) \/ FindMissing(t)
  \/ WriteOwn(t) \/ WritePartner(t) \/ Remember(t)

Next ==
  \/ \E d \in Device : DeviceStep(d)
  \/ \E t \in Attempt : AttemptStep(t)

Spec == Init /\ [][Next]_vars

(* What the runtime and Firestore keep doing while the process lives; taps, *)
(* launches and faults are never forced.                                    *)
Fairness ==
  /\ \A d \in Device :
       /\ WF_vars(BootGetCode(d)) /\ WF_vars(SaveCode(d)) /\ WF_vars(Lookup(d))
       /\ WF_vars(Listen(d) \/ LookupMissing(d) \/ LookupError(d))
       /\ WF_vars(Snapshot(d)) /\ WF_vars(OnSnapshot(d) \/ DidConnectedPartner(d))
       /\ WF_vars(RequestPartnerClothes(d)) /\ WF_vars(Commit(d))
  /\ \A t \in Attempt :
       WF_vars(\/ CheckExisting(t) \/ FindOwn(t) \/ FindPartner(t) \/ FindMissing(t)
               \/ WriteOwn(t) \/ WritePartner(t) \/ Remember(t))

FairSpec == Spec /\ Fairness

-----------------------------------------------------------------------------
(* Properties *)

(* The user of the device with code a typed b, and b is not a itself. *)
Asked(a, b) ==
  \E t \in Attempt : /\ attempt[t].dev # nil
                     /\ code[attempt[t].dev] = a
                     /\ attempt[t].target = b
                     /\ a # b

(* Nobody is coupled with somebody unless one of the two typed the other's *)
(* code (connectWithPartner is the only writer of a code): so nobody is    *)
(* coupled with itself, whatever tasks, crashes and retries interleave.    *)
Consent ==
  \A x \in Device : LET u == users[x] IN
    u.partner_code \in Code =>
      Asked(u.code, u.partner_code) \/ Asked(u.partner_code, u.code)

(* A partner_code on the server is the code of a document on the server:   *)
(* isExistingCode and the order of the write queue protect both halves.    *)
PartnerExists ==
  \A x \in Device : users[x].partner_code \in Code =>
    \E y \in Device : users[y].code = users[x].partner_code

(* No connectWithPartner is under way and the server has every write. *)
AtRest ==
  /\ \A t \in Attempt : attempt[t].pc \notin Running
  /\ \A d \in Device : queue[d] = <<>>

(* The process of x ended under a task that links it to code v and had     *)
(* looked both documents up: it may have written one of them only.         *)
Interrupted(x, v) ==
  \E t \in Attempt : /\ attempt[t].dev = x
                     /\ attempt[t].target = v
                     /\ attempt[t].pc = "dead"
                     /\ attempt[t].partnerId # nil

(* README: an app for couples to match each other's clothes.  Once the     *)
(* writes of connectWithPartner have arrived, a partner's partner is me;   *)
(* only a process that ended between its two writes leaves half a couple.  *)
CoupleMutual ==
  AtRest => \A x, y \in Device :
    users[x].partner_code = users[y].code =>
      users[y].partner_code = users[x].code \/ Interrupted(x, users[y].code)

(* The refinement: the documents of the server, and the taps so far. *)
Codes    == [x \in Device |-> users[x].code]
Partners == [x \in Device |-> users[x].partner_code]
Pairs    == {p \in Code \X Code : Asked(p[1], p[2])}

Couple == INSTANCE Couples WITH
  Doc <- Device, codes <- Codes, partner <- Partners, asked <- Pairs

(* Lookups, tasks, queues, crashes and retries are invisible on the server: *)
(* CodeManager and ConnectionManager implement the registry of Couples.     *)
ImplementsCouples == Couple!Spec

(* What the callback makes of a stored partner_code. *)
Shown(v) == IF v = " " THEN "" ELSE v

(* When nothing is under way and the main queue is drained, UserDefaults   *)
(* and the screen agree with the own document on the server, although      *)
(* connectWithPartner and the listener write both without coordination.    *)
LocalAgrees ==
  AtRest => \A d \in Device :
    app[d].raised = users[d].partner_code /\ app[d].mainq = <<>> =>
      /\ partner_code[d] = Shown(users[d].partner_code)
      /\ app[d].connected = (Shown(users[d].partner_code) # "")

(* The document of d is on the server or on its way there. *)
Registered(d) ==
  users[d].code # nil \/ \E i \in DOMAIN queue[d] : queue[d][i].op = "add"

(* The answer connectPartner's task of d is about to index has no document. *)
EmptyAnswer(d) == app[d].boot = "answered" /\ app[d].answer = nil

(* Firestore never gives getIdByCode an empty answer, the trap of           *)
(* documents[0], for a code that is registered at that moment: not for the  *)
(* own code, not for a partner's that isExistingCode saw, and neither       *)
(* offline nor after a restart.  (The code may be registered between the    *)
(* answer and the trap.)                                                    *)
IndexTrapOnlyUnregistered ==
  [][/\ \A d \in Device :
          Registered(d) /\ ~EmptyAnswer(d) => ~EmptyAnswer(d)'
     /\ \A t \in Attempt :
          \/ attempt[t].pc = "ownId" /\ Registered(attempt[t].dev)
          \/ attempt[t].pc = "partnerId"
          => attempt'[t].pc # "missing"]_vars

(* CodeManager.swift:14: getCode creates a missing code and saves it on    *)
(* the server.  A stored code is saved or still going to be.               *)
CodeIsSaved ==
  \A d \in Device : code[d] # nil => Registered(d) \/ app[d].saving

(* README: copying the code is all it takes to connect.  No step of the    *)
(* connection raises on an empty document path.                            *)
NoEmptyPath == \A d \in Device : app[d].death # "path"

(* While the app runs, a couple never falls back to the invitation screen, *)
(* although snapshots that were taken before the link are still delivered. *)
NeverDisconnects ==
  [][\A d \in Device : app[d].connected /\ app[d].up' => app[d].connected']_vars

(* A link that reached the server reaches the screens of both users: every *)
(* running app in the end shows what its document says, for good.          *)
Converges ==
  \A d \in Device :
    <>[](app[d].boot = "ready" =>
           /\ app[d].connected = (Shown(users[d].partner_code) # "")
           /\ partner_code[d] = Shown(users[d].partner_code))
=============================================================================
