--------------------------- MODULE ConnectionProofs ---------------------------
(***************************************************************************)
(* A couple never falls back to the invitation screen while the app runs,  *)
(* for any number of devices, codes and taps, although the snapshots of    *)
(* the listener are taken before they are delivered, and although          *)
(* connectWithPartner and the listener write the screen independently.     *)
(*                                                                         *)
(* It needs that codes are never generated twice, that the server refuses  *)
(* no write, and that no write is applied twice: saveCode applied once     *)
(* more would clear a partner_code.  The proof follows the link backwards: *)
(* a screen that shows a partner, a job that will make it do so and a task *)
(* past its first write all imply that the own document is linked, on the  *)
(* server or by a write that is still queued; that is never undone.        *)
(*                                                                         *)
(* From there the module goes on to what a couple's two devices have in    *)
(* common: UserDefaults and the screen agree with the own document         *)
(* (LocalAgrees), and a partner's partner is me (CoupleMutual).  Both are  *)
(* false for a user who is linked to a second partner; the theorems say so *)
(* in their hypotheses.                                                    *)
(***************************************************************************)
EXTENDS RegistrationProofs

Undisturbed == FreshCode /\ "reject" \notin Fault /\ "resend" \notin Fault

(* No two devices have one code. *)
Distinct == \A x, y \in Device : code[x] # nil /\ code[x] = code[y] => x = y

(* The document of a device is added once. *)
AddedOnce(d) ==
  /\ app[d].saving => ~Registered(d)
  /\ \A i \in DOMAIN queue[d] : queue[d][i].op = "add" =>
       /\ users[d].code = nil
       /\ \A j \in DOMAIN queue[d] : queue[d][j].op = "add" => j = i

(* The i-th write of d links its own document. *)
LinksOwn(d, i) == queue[d][i].op = "update" /\ queue[d][i].doc = d

(* It finds the document on the server. *)
Effective(d) ==
  \A i \in DOMAIN queue[d] : LinksOwn(d, i) =>
    \/ users[d].code # nil
    \/ \E j \in DOMAIN queue[d] : j < i /\ queue[d][j].op = "add"

(* A task that has found its own document belongs to a registered device. *)
FoundOwn ==
  \A t \in Attempt : LET a == attempt[t] IN
    a.pc \in {"partnerId", "writeOwn"} /\ a.ownId # "" => Registered(a.dev)

(* The document of d has a partner, or a queued write gives it one. *)
Linked(d) ==
  users[d].partner_code \in Code \/ \E i \in DOMAIN queue[d] : LinksOwn(d, i)

(* The i-th job of a main queue shows a partner; all of its jobs do; none  *)
(* does.                                                                   *)
Good(q, i) == q[i].val \in Code
AllGood(q) == \A i \in DOMAIN q : Good(q, i)
NoneGood(q) == \A i \in DOMAIN q : ~Good(q, i)

(* Who shows a partner, or is going to, is linked. *)
Backed(d) == app[d].connected \/ ~NoneGood(app[d].mainq) => Linked(d)

(* After a job that shows a partner comes none that shows nobody. *)
Settled(q) ==
  /\ \A i, j \in DOMAIN q : i <= j /\ Good(q, i) => Good(q, j)
  /\ \A i \in DOMAIN q : q[i].job = "didConnect" => Good(q, i)

Screen(d) == (app[d].connected => AllGood(app[d].mainq)) /\ Settled(app[d].mainq)

(* A process that does not run shows nothing, listens to nothing and has   *)
(* no jobs; a device finds and listens to its own document, and looks it   *)
(* up only when it has a code.                                             *)
Quiet(d) ==
  /\ ~app[d].up => /\ ~app[d].connected /\ app[d].mainq = << >>
                   /\ app[d].listening = nil /\ app[d].boot = "off"
  /\ app[d].listening \in {nil, d} /\ app[d].answer \in {nil, "", d}
  /\ app[d].boot = "lookup" => code[d] # nil

(* A running task runs in a process; past its first write its device is    *)
(* linked.                                                                 *)
Driven ==
  \A t \in Attempt : LET a == attempt[t] IN
    /\ a.pc \in Running => app[a.dev].up
    /\ a.pc \in {"writePartner", "remember"} => Linked(a.dev)

CInv ==
  /\ RInv /\ Distinct /\ FoundOwn /\ Driven
  /\ \A d \in Device : AddedOnce(d) /\ Effective(d) /\ Backed(d) /\ Screen(d) /\ Quiet(d)

-----------------------------------------------------------------------------
(* What a step does to a process *)

(* Only its own steps and those of its tasks change a process. *)
LEMMA Actor ==
  ASSUME IInv, [Next]_vars, NEW d \in Device, app'[d] # app[d]
  PROVE  \/ DeviceStep(d)
         \/ \E t \in Attempt : \E c, via : Confirm(t, d, c, via)
         \/ \E t \in Attempt : attempt[t].dev = d /\ attempt[t].pc # "unused" /\ AttemptStep(t)
<1>0. app \in [Device -> App]
  BY DEF IInv, TypeOK
<1>1. ASSUME NEW e \in Device, DeviceStep(e), e # d
      PROVE  app'[d] = app[d]
  <2>1. ASSUME NEW next, GetCode(e, next)
        PROVE  app'[d] = app[d]
    BY <1>0, <1>1, <2>1 DEF GetCode
  <2>2. CASE Lookup(e)
    BY <1>0, <1>1, <2>2 DEF Lookup
  <2>3. CASE Snapshot(e)
    BY <1>0, <1>1, <2>3 DEF Snapshot
  <2> QED
    BY <1>0, <1>1, <2>1, <2>2, <2>3
       DEF DeviceStep, Launch, Reappear, Kill, BootGetCode, ShowCode, SaveCode,
           Listen, LookupMissing, LookupError, OnSnapshot,
           DidConnectedPartner, RequestPartnerClothes, RequestNobodysClothes,
           OpenInput, CloseInput, Commit, CommitUnacknowledged, Reject, Die
<1>2. ASSUME NEW t \in Attempt, AttemptStep(t)
      PROVE  \/ \E c, via : Confirm(t, d, c, via)
             \/ attempt[t].dev = d /\ attempt[t].pc # "unused"
  <2>1. ASSUME NEW e \in Device, NEW c, NEW via, Confirm(t, e, c, via), e # d
        PROVE  FALSE
    BY <1>0, <2>1 DEF Confirm
  <2>2. CASE CheckExisting(t) \/ FindOwn(t) \/ FindPartner(t) \/ FindMissing(t)
             \/ WriteOwn(t) \/ WritePartner(t) \/ Remember(t)
    <3>1. attempt[t].pc # "unused"
      BY <2>2 DEF CheckExisting, FindOwn, FindPartner, FindMissing, WriteOwn, WritePartner,
                  Remember
    <3>2. CASE attempt[t].dev # d
      BY <1>0, <2>2, <3>2 DEF CheckExisting, FindOwn, FindPartner, FindMissing, WriteOwn,
                              WritePartner, QueueUpdate, Remember, Die
    <3> QED
      BY <3>1, <3>2
  <2> QED
    BY <1>2, <2>1, <2>2 DEF AttemptStep
<1>3. CASE UNCHANGED vars
  BY <1>3 DEF vars
<1> QED
  BY <1>1, <1>2, <1>3 DEF Next

(* What the screen, the listener and the main queue keep. *)
SameScreen(d)   == app'[d].connected = app[d].connected
SameListener(d) == app'[d].listening = app[d].listening
SameMain(d)     == app'[d].mainq = app[d].mainq

(* The process goes on; it looks a code up or saves one only if it was     *)
(* about to or the code is there, or is new, and finds what is there.      *)
Runs(d) ==
  /\ app'[d].up = app[d].up
  /\ app'[d].boot = app[d].boot \/ app[d].boot # "off"
  /\ app'[d].boot = "lookup" => app[d].boot = "lookup" \/ code'[d] # nil
  /\ app'[d].saving => app[d].saving \/ code[d] = nil
  /\ \/ app'[d].answer \in {nil, "", app[d].answer}
     \/ app[d].boot = "lookup" /\ app'[d].answer \in Matches(d, code[d])

Idles(d)    == SameListener(d) /\ SameMain(d) /\ SameScreen(d)
Listens(d)  == /\ SameMain(d) /\ SameScreen(d) /\ app[d].boot = "answered"
               /\ app[d].answer \in Device /\ app'[d].listening = app[d].answer
Raises(d)   == /\ SameListener(d) /\ SameScreen(d) /\ app[d].listening # nil
               /\ \E v \in View(d, app[d].listening) :
                    app'[d].mainq = Append(app[d].mainq, [job |-> "snapshot", val |-> v])
Shows(d)    == /\ SameListener(d)
               /\ app[d].mainq # << >> /\ app'[d].mainq = Tail(app[d].mainq)
               /\ \/ Head(app[d].mainq).job = "didConnect" /\ app'[d].connected
                  \/ Head(app[d].mainq).val \in Code /\ app'[d].connected
                  \/ Head(app[d].mainq).val \notin Code /\ ~app'[d].connected
Succeeds(d) == /\ SameListener(d) /\ SameScreen(d)
               /\ \E t \in Attempt :
                    /\ attempt[t].dev = d /\ attempt[t].pc = "remember"
                    /\ app'[d].mainq = Append(app[d].mainq,
                                              [job |-> "didConnect", val |-> attempt[t].target])

(* Everything a step may do to a process. *)
LEMMA AppStep ==
  ASSUME IInv, [Next]_vars, NEW d \in Device
  PROVE  \/ \E how : Die(d, how)
         \/ ~app[d].up /\ app'[d] = Process(TRUE, "none", "getCode")
         \/ Runs(d) /\ (Idles(d) \/ Listens(d) \/ Raises(d) \/ Shows(d) \/ Succeeds(d))
<1>0. app \in [Device -> App] /\ app[d] \in App /\ app[d].mainq \in Seq(MainJob)
  BY DEF IInv, TypeOK, App
<1>1. CASE app'[d] = app[d]
  BY <1>1 DEF Runs, Idles, SameListener, SameMain, SameScreen
<1>2. ASSUME NEW p, app' = [app EXCEPT ![d].panel = p]
      PROVE  Runs(d) /\ Idles(d)
  BY <1>0, <1>2 DEF Runs, Idles, SameListener, SameMain, SameScreen, App
<1>3. CASE DeviceStep(d)
  <2>1. CASE Launch(d)
    BY <1>0, <2>1 DEF Launch
  <2>2. CASE Reappear(d)
    BY <1>0, <2>2 DEF Reappear, Runs, Idles, SameListener, SameMain, SameScreen, App
  <2>3. CASE Kill(d) \/ LookupMissing(d) \/ LookupError(d) \/ RequestNobodysClothes(d)
    BY <2>3 DEF Kill, LookupMissing, LookupError, RequestNobodysClothes
  <2>4. CASE BootGetCode(d) \/ ShowCode(d)
    <3>1. PICK next : /\ GetCode(d, next)
                      /\ next = app[d].boot \/ app[d].boot # "off"
      BY <2>4 DEF BootGetCode, ShowCode
    <3>4. code'[d] # nil
      BY <3>1, CodeAssumption DEF GetCode, Generated, IInv, TypeOK
    <3>2. CASE app' = [app EXCEPT ![d].boot = next]
      BY <1>0, <3>1, <3>2, <3>4 DEF Runs, Idles, SameListener, SameMain, SameScreen, App
    <3>3. CASE code[d] = nil /\ app' = [app EXCEPT ![d].boot = next, ![d].saving = TRUE]
      BY <1>0, <3>1, <3>3, <3>4 DEF Runs, Idles, SameListener, SameMain, SameScreen, App
    <3> QED
      BY <3>1, <3>2, <3>3 DEF GetCode
  <2>5. CASE SaveCode(d)
    BY <1>0, <2>5 DEF SaveCode, Runs, Idles, SameListener, SameMain, SameScreen, App
  <2>6. CASE Lookup(d)
    <3>1. PICK c : c = code[d]
      OBVIOUS
    <3>2. PICK x \in Matches(d, c) \cup {nil, ""} :
            app' = [app EXCEPT ![d].boot = "answered", ![d].answer = x]
      BY <2>6, <3>1, FirstFound DEF Lookup
    <3>3. app[d].boot = "lookup"
      BY <2>6 DEF Lookup
    <3>4. app'[d] = [app[d] EXCEPT !.boot = "answered", !.answer = x]
      BY <1>0, <3>2
    <3>5. /\ app'[d].answer = x /\ app'[d].boot = "answered" /\ app'[d].up = app[d].up
          /\ app'[d].saving = app[d].saving
      BY <1>0, <3>4 DEF App
    <3>6. Idles(d)
      BY <1>0, <3>4 DEF Idles, SameListener, SameMain, SameScreen, App
    <3> QED
      BY <3>1, <3>3, <3>5, <3>6 DEF Runs
  <2>14. CASE Listen(d)
    <3>1. app'[d] = [app[d] EXCEPT !.boot = "ready", !.answer = nil,
                                   !.listening = app[d].answer, !.raised = nil]
      BY <1>0, <2>14 DEF Listen
    <3>2. app[d].boot = "answered" /\ app[d].answer \in Device
      BY <2>14 DEF Listen
    <3> QED
      BY <1>0, <3>1, <3>2 DEF Runs, Listens, SameMain, SameScreen, App
  <2>7. CASE Snapshot(d)
    <3>1. PICK v \in View(d, app[d].listening) : app' = [app EXCEPT
            ![d].raised = v,
            ![d].mainq = Append(@, [job |-> "snapshot", val |-> v])]
      BY <2>7 DEF Snapshot
    <3>2. PICK q : q = Append(app[d].mainq, [job |-> "snapshot", val |-> v])
      OBVIOUS
    <3>3. app'[d] = [app[d] EXCEPT !.raised = v, !.mainq = q]
      BY <1>0, <3>1, <3>2
    <3>4. Runs(d) /\ SameListener(d) /\ SameScreen(d) /\ app'[d].mainq = q
      BY <1>0, <3>3 DEF Runs, SameListener, SameScreen, App
    <3> QED
      BY <2>7, <3>2, <3>4 DEF Raises, Snapshot
  <2>8. CASE OnSnapshot(d)
    <3>1. app[d].mainq # << >> /\ Head(app[d].mainq) \in MainJob
      BY <1>0, <2>8, HeadTailProperties DEF OnSnapshot
    <3>2. PICK data : data = Head(app[d].mainq).val /\ data \in Code \cup {"", " "}
      BY <3>1 DEF MainJob
    <3>3. PICK temp : temp = IF data # " " THEN data ELSE ""
      OBVIOUS
    <3>4. PICK more : app' = [app EXCEPT ![d].mainq = Tail(@), ![d].connected = (temp # ""),
                                         ![d].fetches = more]
      BY <2>8, <3>2, <3>3 DEF OnSnapshot
    <3>5. app'[d] = [app[d] EXCEPT !.mainq = Tail(app[d].mainq), !.connected = (temp # ""),
                                   !.fetches = more]
      BY <1>0, <3>4
    <3>6. Runs(d) /\ SameListener(d) /\ app'[d].mainq = Tail(app[d].mainq)
      BY <1>0, <3>5 DEF Runs, SameListener, App
    <3>7. app'[d].connected = (temp # "")
      BY <1>0, <3>5 DEF App
    <3>8. data \in Code <=> temp # ""
      BY <3>2, <3>3, CodeAssumption
    <3> QED
      BY <3>1, <3>2, <3>6, <3>7, <3>8 DEF Shows
  <2>9. CASE DidConnectedPartner(d)
    <3>1. app'[d] = [app[d] EXCEPT !.mainq = Tail(app[d].mainq), !.connected = TRUE,
                                   !.fetches = app[d].fetches + 1]
      BY <1>0, <2>9 DEF DidConnectedPartner
    <3>2. Runs(d) /\ SameListener(d) /\ app'[d].mainq = Tail(app[d].mainq)
      BY <1>0, <3>1 DEF Runs, SameListener, App
    <3>3. app'[d].connected
      BY <1>0, <3>1 DEF App
    <3> QED
      BY <2>9, <3>2, <3>3 DEF Shows, DidConnectedPartner
  <2>10. CASE RequestPartnerClothes(d)
    <3>1. PICK n, w : app' = [app EXCEPT ![d].fetches = n, ![d].watched = w]
      BY <2>10 DEF RequestPartnerClothes
    <3> QED
      BY <1>0, <3>1 DEF Runs, Idles, SameListener, SameMain, SameScreen, App
  <2>11. CASE OpenInput(d) \/ CloseInput(d)
    BY <1>2, <2>11 DEF OpenInput, CloseInput
  <2>12. CASE Commit(d) \/ Reject(d)
    BY <1>1, <2>12 DEF Commit, Reject
  <2>13. CASE CommitUnacknowledged(d)
    BY <1>0, <2>13 DEF CommitUnacknowledged, Runs, Idles, SameListener, SameMain, SameScreen, App
  <2> QED
    BY <1>3, <2>1, <2>2, <2>3, <2>4, <2>5, <2>6, <2>7, <2>8, <2>9, <2>10, <2>11,
       <2>12, <2>13, <2>14 DEF DeviceStep
<1>4. ASSUME NEW t \in Attempt, NEW c, NEW via, Confirm(t, d, c, via)
      PROVE  Runs(d) /\ Idles(d)
  BY <1>2, <1>4 DEF Confirm
<1>5. ASSUME NEW t \in Attempt, attempt[t].dev = d, attempt[t].pc # "unused", AttemptStep(t)
      PROVE  \/ \E how : Die(d, how)
             \/ Runs(d) /\ (Idles(d) \/ Succeeds(d))
             \/ app'[d] = app[d]
  <2>1. CASE Remember(t)
    <3>1. PICK q : /\ app' = [app EXCEPT ![d].mainq = q]
                   /\ \/ q = app[d].mainq
                      \/ q = Append(app[d].mainq, [job |-> "didConnect", val |-> attempt[t].target])
      BY <1>5, <2>1 DEF Remember
    <3>2. app'[d] = [app[d] EXCEPT !.mainq = q]
      BY <1>0, <3>1
    <3>3. Runs(d) /\ SameListener(d) /\ SameScreen(d) /\ app'[d].mainq = q
      BY <1>0, <3>2 DEF Runs, SameListener, SameScreen, App
    <3> QED
      BY <1>5, <2>1, <3>1, <3>3 DEF Idles, SameMain, Succeeds, Remember
  <2>2. CASE CheckExisting(t)
    BY <2>2 DEF CheckExisting
  <2>3. CASE FindOwn(t) \/ FindPartner(t) \/ FindMissing(t)
    BY <1>5, <2>3 DEF FindOwn, FindPartner, FindMissing
  <2>4. CASE WriteOwn(t) \/ WritePartner(t)
    BY <1>5, <2>4 DEF WriteOwn, WritePartner, QueueUpdate
  <2>5. ASSUME NEW e \in Device, NEW c, NEW via, Confirm(t, e, c, via)
        PROVE  FALSE
    BY <1>5, <2>5 DEF Confirm
  <2> QED
    BY <1>5, <2>1, <2>2, <2>3, <2>4, <2>5 DEF AttemptStep
<1> QED
  BY <1>1, <1>3, <1>4, <1>5, Actor

-----------------------------------------------------------------------------
(* Codes and documents *)

(* A code that is generated is in use nowhere. *)
LEMMA DistinctStep ==
  ASSUME Undisturbed, IInv, Distinct, [Next]_vars
  PROVE  Distinct'
<1>0. code \in [Device -> Code \cup {nil}]
  BY DEF IInv, TypeOK
<1>1. CASE code' = code
  BY <1>1 DEF Distinct
<1>2. ASSUME NEW e \in Device, NEW next, GetCode(e, next), code' # code
      PROVE  Distinct'
  <2>1. PICK c \in Generated : code' = [code EXCEPT ![e] = c]
    BY <1>2 DEF GetCode
  <2>2. \A x \in Device : code[x] # c
    BY <2>1 DEF Generated, Undisturbed
  <2> QED
    BY <1>0, <2>1, <2>2 DEF Distinct
<1>3. ASSUME NEW e \in Device, DeviceStep(e)
      PROVE  code' = code \/ (\E next : GetCode(e, next))
  BY <1>3 DEF DeviceStep, Launch, Reappear, Kill, BootGetCode, ShowCode, SaveCode,
              Lookup, Listen, LookupMissing, LookupError, Snapshot, OnSnapshot,
              DidConnectedPartner, RequestPartnerClothes, RequestNobodysClothes,
              OpenInput, CloseInput, Commit, CommitUnacknowledged, Reject, Die
<1>4. ASSUME NEW u \in Attempt, AttemptStep(u)
      PROVE  code' = code
  BY <1>4 DEF AttemptStep, Confirm, CheckExisting, FindOwn, FindPartner, FindMissing,
              WriteOwn, WritePartner, QueueUpdate, Remember, Die
<1>5. CASE UNCHANGED vars
  BY <1>1, <1>5 DEF vars
<1> QED
  BY <1>1, <1>2, <1>3, <1>4, <1>5 DEF Next

(* A lookup of the own code finds the own document. *)
LEMMA OwnMatch ==
  ASSUME IInv, Distinct, NEW d \in Device, code[d] # nil, NEW x \in Matches(d, code[d])
  PROVE  x = d
<1>1. PICK c : c = code[d]
  OBVIOUS
<1>2. x \in Device /\ code[x] = c
  BY <1>1, MatchesCode
<1> QED
  BY <1>1, <1>2 DEF Distinct

(* The writes of a queue are writes. *)
LEMMA QueueType ==
  ASSUME IInv, NEW d \in Device
  PROVE  /\ Len(queue[d]) \in Nat /\ DOMAIN queue[d] = 1 .. Len(queue[d])
         /\ \A i \in DOMAIN queue[d] : queue[d][i] \in Mutation /\ Queued(d, queue[d][i])
<1>1. queue[d] \in Seq(Mutation)
  BY DEF IInv, TypeOK
<1>2. Len(queue[d]) \in Nat /\ DOMAIN queue[d] = 1 .. Len(queue[d])
  BY <1>1, LenProperties
<1>3. \A i \in DOMAIN queue[d] : queue[d][i] \in Mutation
  BY <1>1, <1>2, ElementOfSeq
<1> QED
  BY <1>2, <1>3 DEF Queued

(* A document that a device adds is its own, with its code. *)
LEMMA AddIsOwn ==
  ASSUME RInv, NEW d \in Device, NEW i \in DOMAIN queue[d], queue[d][i].op = "add"
  PROVE  queue[d][i] = Add(d, code[d]) /\ code[d] \in Code
<1>1. IInv /\ OwnAdds
  BY DEF RInv
<1>2. PICK m \in Mutation : m = queue[d][i] /\ Queued(d, m) /\ m.op = "add"
  BY <1>1, QueueType
<1>3. m.doc = d /\ Sound(m)
  BY <1>1, <1>2 DEF OwnAdds, IInv, Writes
<1>4. m.val = code[d] /\ m.val \in Code
  BY <1>2, <1>3 DEF Sound, Mutation
<1>5. m = Add(d, code[d])
  BY <1>2, <1>3, <1>4 DEF Add, Mutation
<1> QED
  BY <1>2, <1>4, <1>5

(* The first write of d is applied: what happens to its document. *)
LEMMA CommitOwn ==
  ASSUME RInv, NEW d \in Device, Commit(d)
  PROVE  /\ queue[d][1].op = "add" => users'[d].code # nil
         /\ queue[d][1].op # "add" \/ queue[d][1].doc # d => users'[d].code = users[d].code
         /\ LinksOwn(d, 1) /\ users[d].code # nil => users'[d].partner_code \in Code
         /\ queue[d][1].op = "update" /\ ~LinksOwn(d, 1) => users'[d] = users[d]
<1>0. IInv /\ users \in [Device -> User] /\ users[d] \in User
  BY DEF RInv, IInv, TypeOK
<1>1. /\ DOMAIN queue[d] = 1 .. Len(queue[d]) /\ Len(queue[d]) \in Nat
      /\ Len(queue[d]) >= 1 /\ queue[d] \in Seq(Mutation)
  BY <1>0, CommitEffect
<1>2. 1 \in DOMAIN queue[d] /\ Head(queue[d]) = queue[d][1]
  BY <1>1
<1>3. PICK m \in Mutation : m = queue[d][1] /\ users' = Applied(m)
  BY <1>0, <1>2, QueueType DEF Commit
<1>4. m.op \in {"add", "update"} /\ m.doc \in Device /\ m.val \in Code /\ m.val # nil
  BY CodeAssumption DEF Mutation
<1>5. ASSUME m.op = "add"
      PROVE  m.doc = d
  <2>1. queue[d][1] = Add(d, code[d])
    BY <1>2, <1>3, <1>5, AddIsOwn
  <2>2. Add(d, code[d]).doc = d
    BY DEF Add
  <2> QED
    BY <1>3, <2>1, <2>2
<1>6. m.op = "add" => users'[d].code # nil
  BY <1>0, <1>3, <1>4, <1>5 DEF Applied
<1>7. m.op = "update" => users'[d].code = users[d].code
  BY <1>0, <1>3, <1>4 DEF Applied, User
<1>8. m.op = "update" /\ m.doc = d /\ users[d].code # nil => users'[d].partner_code \in Code
  BY <1>0, <1>3, <1>4 DEF Applied, User
<1>9. m.op = "update" /\ m.doc # d => users'[d] = users[d]
  BY <1>0, <1>3, <1>4 DEF Applied, User
<1> QED
  BY <1>3, <1>4, <1>5, <1>6, <1>7, <1>8, <1>9 DEF LinksOwn

(* A step that is not the server's step on d leaves the queue alone, or    *)
(* adds to it; the documents change by others' writes at most.             *)
LEMMA NoCommit ==
  ASSUME Undisturbed, RInv, [Next]_vars, NEW d \in Device, ~Commit(d)
  PROVE  /\ \/ queue'[d] = queue[d]
            \/ SaveCode(d) /\ queue'[d] = Append(queue[d], Add(d, code[d]))
            \/ \E t \in Attempt, m \in Mutation :
                 Sends(t, d, m) /\ queue'[d] = Append(queue[d], m)
         /\ users'[d].code = users[d].code
         /\ users[d].partner_code \in Code => users'[d].partner_code \in Code
<1>0. IInv /\ OwnAdds /\ users \in [Device -> User] /\ users[d] \in User
  BY DEF RInv, IInv, TypeOK
<1>1. ~Reject(d) /\ \A e \in Device : ~CommitUnacknowledged(e)
  BY DEF Reject, CommitUnacknowledged, Undisturbed
<1>2. CASE users' = users
  BY <1>0, <1>1, <1>2, QueueStep
<1>3. ASSUME users' # users
      PROVE  \E e \in Device : Commit(e)
  <2>1. ASSUME NEW e \in Device, DeviceStep(e)
        PROVE  Commit(e)
    BY <1>1, <1>3, <2>1 DEF DeviceStep, Launch, Reappear, Kill, BootGetCode, ShowCode, SaveCode,
                Lookup, Listen, LookupMissing, LookupError, Snapshot, OnSnapshot,
                DidConnectedPartner, RequestPartnerClothes, RequestNobodysClothes,
                OpenInput, CloseInput, Reject, Die
  <2>2. ASSUME NEW u \in Attempt, AttemptStep(u)
        PROVE  FALSE
    BY <1>3, <2>2 DEF AttemptStep, Confirm, CheckExisting, FindOwn, FindPartner, FindMissing,
                WriteOwn, WritePartner, QueueUpdate, Remember, Die
  <2>3. CASE UNCHANGED vars
    BY <1>3, <2>3 DEF vars
  <2> QED
    BY <2>1, <2>2, <2>3 DEF Next
<1>4. ASSUME NEW e \in Device, Commit(e)
      PROVE  /\ users'[d].code = users[d].code
             /\ users[d].partner_code \in Code => users'[d].partner_code \in Code
  <2>1. PICK m \in Mutation : m = Head(queue[e]) /\ Queued(e, m)
    BY <1>0, <1>4, HeadQueued DEF IInv, Commit
  <2>2. /\ users' = Applied(m) /\ m.op \in {"add", "update"} /\ m.doc \in Device
        /\ m.val \in Code
    BY <1>4, <2>1 DEF Commit, Mutation
  <2>3. m.op = "add" => m.doc # d
    BY <1>0, <1>4, <2>1 DEF OwnAdds
  <2> QED
    BY <1>0, <2>2, <2>3 DEF Applied, User
<1> QED
  BY <1>0, <1>1, <1>2, <1>3, <1>4, QueueStep

(* A registered device stays registered. *)
LEMMA RegisteredStays ==
  ASSUME Undisturbed, RInv, [Next]_vars, NEW d \in Device, Registered(d)
  PROVE  Registered(d)'
<1>0. IInv
  BY DEF RInv
<1>1. CASE users[d].code # nil
  BY <1>0, <1>1, DocumentStays DEF Registered
<1>2. ASSUME NEW i \in DOMAIN queue[d], queue[d][i].op = "add"
      PROVE  Registered(d)'
  <2>1. CASE Commit(d)
    <3>0. i \in 1 .. Len(queue[d]) /\ Len(queue[d]) \in Nat
      BY <1>0, QueueType
    <3>1. CASE i = 1
      BY <1>2, <2>1, <3>1, CommitOwn DEF Registered
    <3>2. CASE i # 1
      <4>1. i - 1 \in DOMAIN queue'[d] /\ (i - 1) + 1 = i
        BY <1>0, <2>1, <3>0, <3>2, CommitEffect
      <4>2. queue'[d][i - 1] = queue[d][(i - 1) + 1]
        BY <1>0, <2>1, <4>1, CommitEffect
      <4> QED
        BY <1>2, <4>1, <4>2 DEF Registered
    <3> QED
      BY <3>1, <3>2
  <2>2. ASSUME NEW m \in Mutation, queue'[d] = Append(queue[d], m)
        PROVE  Registered(d)'
    <3>1. i \in DOMAIN queue'[d] /\ queue'[d][i] = queue[d][i]
      BY <1>0, <1>2, <2>2, AppendEffect
    <3> QED
      BY <1>2, <3>1 DEF Registered
  <2>3. CASE SaveCode(d) /\ queue'[d] = Append(queue[d], Add(d, code[d]))
    BY <1>0, <2>2, <2>3, SavedCode
  <2>4. CASE queue'[d] = queue[d]
    BY <1>2, <2>4 DEF Registered
  <2> QED
    BY <2>1, <2>2, <2>3, <2>4, NoCommit
<1> QED
  BY <1>1, <1>2 DEF Registered

(* A registered device has a code. *)
LEMMA RegisteredCode ==
  ASSUME RInv, NEW d \in Device, Registered(d)
  PROVE  code[d] # nil
<1>1. CASE users[d].code # nil
  BY <1>1 DEF RInv, IInv, Documents
<1>2. ASSUME NEW i \in DOMAIN queue[d], queue[d][i].op = "add"
      PROVE  code[d] # nil
  BY <1>2, AddIsOwn, CodeAssumption
<1> QED
  BY <1>1, <1>2 DEF Registered

(* A document is added once. *)
LEMMA AddedOnceStep ==
  ASSUME Undisturbed, RInv, [Next]_vars, NEW d \in Device, AddedOnce(d)
  PROVE  AddedOnce(d)'
<1>0. IInv /\ OwnAdds /\ app \in [Device -> App] /\ app[d] \in App
  BY DEF RInv, IInv, TypeOK
<1>1. ASSUME app'[d].saving, Registered(d)'
      PROVE  FALSE
  <2>1. app[d].saving \/ code[d] = nil
    <3>1. ASSUME NEW how, Die(d, how)
          PROVE  FALSE
      BY <1>0, <1>1, <3>1 DEF Die, Process
    <3>2. CASE app'[d] = Process(TRUE, "none", "getCode")
      BY <1>1, <3>2 DEF Process
    <3> QED
      BY <1>0, <1>1, <3>1, <3>2, AppStep DEF Runs
  <2>2. Registered(d) \/ SaveCode(d)
    BY <1>0, <1>1, RegisteredBefore
  <2>3. CASE SaveCode(d)
    BY <1>0, <1>1, <2>3 DEF SaveCode, App
  <2>4. CASE Registered(d)
    BY <2>1, <2>4, RegisteredCode DEF AddedOnce
  <2> QED
    BY <2>2, <2>3, <2>4
<1>2. ASSUME NEW i \in DOMAIN queue'[d], queue'[d][i].op = "add"
      PROVE  /\ users'[d].code = nil
             /\ \A j \in DOMAIN queue'[d] : queue'[d][j].op = "add" => j = i
  <2>1. CASE Commit(d)
    <3>0. /\ Len(queue[d]) \in Nat /\ DOMAIN queue[d] = 1 .. Len(queue[d])
          /\ DOMAIN queue'[d] = 1 .. (Len(queue[d]) - 1)
          /\ \A k \in DOMAIN queue'[d] : queue'[d][k] = queue[d][k + 1]
      BY <1>0, <2>1, CommitEffect
    <3>1. \A k \in DOMAIN queue'[d] : k + 1 \in DOMAIN queue[d] /\ k + 1 # 1
      BY <3>0
    <3>2. users[d].code = nil /\ queue[d][i + 1].op = "add" /\ i + 1 \in DOMAIN queue[d]
      BY <1>2, <3>0, <3>1 DEF AddedOnce
    <3>3. 1 \in DOMAIN queue[d]
      BY <3>0, <3>2
    <3>4. queue[d][1].op # "add"
      BY <3>1, <3>2, <3>3 DEF AddedOnce
    <3>5. users'[d].code = nil
      BY <2>1, <3>2, <3>4, CommitOwn
    <3>6. ASSUME NEW j \in DOMAIN queue'[d], queue'[d][j].op = "add"
          PROVE  j = i
      <4>1. queue[d][j + 1].op = "add" /\ j + 1 \in DOMAIN queue[d]
        BY <3>0, <3>1, <3>6
      <4>2. j + 1 = i + 1
        BY <3>2, <4>1 DEF AddedOnce
      <4> QED
        BY <3>0, <4>2
    <3> QED
      BY <3>5, <3>6
  <2>2. CASE ~Commit(d) /\ queue'[d] = queue[d]
    BY <1>2, <2>2, NoCommit DEF AddedOnce
  <2>3. CASE ~Commit(d) /\ SaveCode(d) /\ queue'[d] = Append(queue[d], Add(d, code[d]))
    <3>0. Add(d, code[d]) \in Mutation
      BY <1>0, <2>3, SavedCode
    <3>1. /\ Len(queue[d]) \in Nat /\ DOMAIN queue[d] = 1 .. Len(queue[d])
          /\ DOMAIN queue'[d] = 1 .. (Len(queue[d]) + 1)
          /\ \A k \in DOMAIN queue[d] : queue'[d][k] = queue[d][k]
      BY <1>0, <2>3, <3>0, AppendEffect
    <3>2. ~Registered(d)
      BY <2>3 DEF AddedOnce, SaveCode
    <3>3. users[d].code = nil /\ \A k \in DOMAIN queue[d] : queue[d][k].op # "add"
      BY <3>2 DEF Registered
    <3>4. \A k \in DOMAIN queue'[d] : queue'[d][k].op = "add" => k = Len(queue[d]) + 1
      BY <3>1, <3>3
    <3> QED
      BY <1>2, <2>3, <3>3, <3>4, NoCommit
  <2>4. ASSUME ~Commit(d), NEW t \in Attempt, NEW m \in Mutation, Sends(t, d, m),
               queue'[d] = Append(queue[d], m)
        PROVE  /\ users'[d].code = nil
               /\ \A j \in DOMAIN queue'[d] : queue'[d][j].op = "add" => j = i
    <3>1. /\ Len(queue[d]) \in Nat /\ DOMAIN queue[d] = 1 .. Len(queue[d])
          /\ DOMAIN queue'[d] = 1 .. (Len(queue[d]) + 1)
          /\ \A k \in DOMAIN queue[d] : queue'[d][k] = queue[d][k]
          /\ queue'[d][Len(queue[d]) + 1] = m
      BY <1>0, <2>4, AppendEffect
    <3>2. m.op = "update"
      <4>1. \A x, c : Update(x, c).op = "update"
        BY DEF Update
      <4>2. \E x, c : m = Update(x, c)
        BY <2>4 DEF Sends
      <4> QED
        BY <4>1, <4>2
    <3>3. \A k \in DOMAIN queue'[d] : queue'[d][k].op = "add" =>
            k \in DOMAIN queue[d] /\ queue[d][k].op = "add"
      BY <3>1, <3>2
    <3>4. users[d].code = nil /\ \A k \in DOMAIN queue[d] : queue[d][k].op = "add" => k = i
      BY <1>2, <3>3 DEF AddedOnce
    <3> QED
      BY <2>4, <3>3, <3>4, NoCommit
  <2> QED
    BY <2>1, <2>2, <2>3, <2>4, NoCommit
<1> QED
  BY <1>1, <1>2 DEF AddedOnce

(* A queued link of the own document will find it. *)
LEMMA EffectiveStep ==
  ASSUME Undisturbed, RInv, Distinct, FoundOwn, [Next]_vars, NEW d \in Device, Effective(d)
  PROVE  Effective(d)'
<1>0. IInv /\ OwnAdds
  BY DEF RInv
<1> SUFFICES ASSUME NEW i \in DOMAIN queue'[d], LinksOwn(d, i)', users'[d].code = nil
             PROVE  \E j \in DOMAIN queue'[d] : j < i /\ queue'[d][j].op = "add"
  BY DEF Effective
<1>1. users[d].code = nil
  BY <1>0, DocumentStays
<1>2. CASE Commit(d)
  <2>0. /\ Len(queue[d]) \in Nat /\ DOMAIN queue[d] = 1 .. Len(queue[d])
        /\ DOMAIN queue'[d] = 1 .. (Len(queue[d]) - 1)
        /\ \A k \in DOMAIN queue'[d] : queue'[d][k] = queue[d][k + 1]
    BY <1>0, <1>2, CommitEffect
  <2>1. i + 1 \in DOMAIN queue[d] /\ LinksOwn(d, i + 1)
    BY <2>0 DEF LinksOwn
  <2>2. PICK j \in DOMAIN queue[d] : j < i + 1 /\ queue[d][j].op = "add"
    BY <1>1, <2>1 DEF Effective
  <2>3. j # 1
    BY <1>2, <2>2, CommitOwn
  <2>4. j - 1 \in DOMAIN queue'[d] /\ j - 1 < i /\ (j - 1) + 1 = j
    BY <2>0, <2>2, <2>3
  <2>5. queue'[d][j - 1] = queue[d][(j - 1) + 1]
    BY <2>0, <2>4
  <2> QED
    BY <2>2, <2>4, <2>5
<1>3. CASE queue'[d] = queue[d]
  BY <1>1, <1>3 DEF Effective, LinksOwn
<1>4. ASSUME NEW m \in Mutation, queue'[d] = Append(queue[d], m),
             m.op = "update" /\ m.doc = d => Registered(d)
      PROVE  \E j \in DOMAIN queue'[d] : j < i /\ queue'[d][j].op = "add"
  <2>0. /\ Len(queue[d]) \in Nat /\ DOMAIN queue[d] = 1 .. Len(queue[d])
        /\ DOMAIN queue'[d] = 1 .. (Len(queue[d]) + 1)
        /\ \A k \in DOMAIN queue[d] : queue'[d][k] = queue[d][k]
        /\ queue'[d][Len(queue[d]) + 1] = m
    BY <1>0, <1>4, AppendEffect
  <2>1. CASE i \in DOMAIN queue[d]
    <3>1. LinksOwn(d, i)
      BY <2>0, <2>1 DEF LinksOwn
    <3>2. PICK j \in DOMAIN queue[d] : j < i /\ queue[d][j].op = "add"
      BY <1>1, <2>1, <3>1 DEF Effective
    <3> QED
      BY <2>0, <3>2
  <2>2. CASE i = Len(queue[d]) + 1
    <3>1. Registered(d)
      BY <1>4, <2>0, <2>2 DEF LinksOwn
    <3>2. PICK j \in DOMAIN queue[d] : queue[d][j].op = "add"
      BY <1>1, <3>1 DEF Registered
    <3>3. j \in DOMAIN queue'[d] /\ j < i /\ queue'[d][j] = queue[d][j]
      BY <2>0, <2>2, <3>2
    <3> QED
      BY <3>2, <3>3
  <2> QED
    BY <2>0, <2>1, <2>2
<1>5. CASE SaveCode(d) /\ queue'[d] = Append(queue[d], Add(d, code[d]))
  <2>1. Add(d, code[d]) \in Mutation /\ Add(d, code[d]).op # "update"
    BY <1>0, <1>5, SavedCode DEF Add
  <2> QED
    BY <1>4, <1>5, <2>1
<1>6. ASSUME NEW t \in Attempt, NEW m \in Mutation, Sends(t, d, m),
             queue'[d] = Append(queue[d], m)
      PROVE  \E j \in DOMAIN queue'[d] : j < i /\ queue'[d][j].op = "add"
  <2>1. CASE WriteOwn(t) /\ attempt[t].ownId # ""
    <3>1. attempt[t].pc = "writeOwn" /\ attempt[t].dev = d
      BY <1>6, <2>1 DEF WriteOwn, Sends
    <3>2. Registered(d)
      BY <2>1, <3>1 DEF FoundOwn
    <3> QED
      BY <1>4, <1>6, <3>2
  <2>2. CASE WritePartner(t) /\ attempt[t].partnerId # "" /\ m = Update(attempt[t].partnerId, code[d])
    <3>1. attempt[t].pc = "writePartner" /\ attempt[t].dev = d
      BY <1>6, <2>2 DEF WritePartner, Sends
    <3>2. code[attempt[t].partnerId] = attempt[t].target /\ attempt[t].target # code[d]
      BY <1>0, <2>2, <3>1 DEF IInv, Tasks, Ids, Running
    <3>3. m.doc # d
      BY <2>2, <3>2 DEF Update
    <3> QED
      BY <1>4, <1>6, <3>3
  <2> QED
    BY <1>6, <2>1, <2>2 DEF Sends
<1> QED
  BY <1>2, <1>3, <1>5, <1>6, NoCommit

(* A link of the own document is never undone. *)
LEMMA LinkedStays ==
  ASSUME Undisturbed, RInv, [Next]_vars, NEW d \in Device,
         AddedOnce(d), Effective(d), Linked(d)
  PROVE  Linked(d)'
<1>0. IInv
  BY DEF RInv
<1>1. CASE users[d].partner_code \in Code
  <2>1. users[d].code # nil
    BY <1>0, <1>1, CodeAssumption DEF IInv, Documents
  <2>2. CASE Commit(d)
    <3>1. 1 \in DOMAIN queue[d] /\ queue[d][1] \in Mutation
      <4>1. 1 \in DOMAIN queue[d]
        BY <1>0, <2>2, CommitEffect
      <4> QED
        BY <1>0, <4>1, QueueType
    <3>2. queue[d][1].op = "update"
      BY <2>1, <3>1 DEF AddedOnce, Mutation
    <3> QED
      BY <1>1, <2>1, <2>2, <3>2, CommitOwn DEF Linked
  <2> QED
    BY <1>1, <2>2, NoCommit DEF Linked
<1>2. ASSUME NEW i \in DOMAIN queue[d], LinksOwn(d, i)
      PROVE  Linked(d)'
  <2>1. CASE Commit(d)
    <3>0. i \in 1 .. Len(queue[d]) /\ Len(queue[d]) \in Nat
      BY <1>0, QueueType
    <3>1. CASE i = 1
      <4>1. ~ \E j \in DOMAIN queue[d] : j < i
        BY <1>0, <3>1, QueueType
      <4>2. users[d].code # nil
        BY <1>2, <4>1 DEF Effective
      <4> QED
        BY <1>2, <2>1, <3>1, <4>2, CommitOwn DEF Linked
    <3>2. CASE i # 1
      <4>1. i - 1 \in DOMAIN queue'[d] /\ (i - 1) + 1 = i
        BY <1>0, <2>1, <3>0, <3>2, CommitEffect
      <4>2. queue'[d][i - 1] = queue[d][(i - 1) + 1]
        BY <1>0, <2>1, <4>1, CommitEffect
      <4> QED
        BY <1>2, <4>1, <4>2 DEF Linked, LinksOwn
    <3> QED
      BY <3>1, <3>2
  <2>2. ASSUME NEW m \in Mutation, queue'[d] = Append(queue[d], m)
        PROVE  Linked(d)'
    <3>1. i \in DOMAIN queue'[d] /\ queue'[d][i] = queue[d][i]
      BY <1>0, <1>2, <2>2, AppendEffect
    <3> QED
      BY <1>2, <3>1 DEF Linked, LinksOwn
  <2>3. CASE SaveCode(d) /\ queue'[d] = Append(queue[d], Add(d, code[d]))
    BY <1>0, <2>2, <2>3, SavedCode
  <2>4. CASE queue'[d] = queue[d]
    BY <1>2, <2>4 DEF Linked, LinksOwn
  <2> QED
    BY <2>1, <2>2, <2>3, <2>4, NoCommit
<1> QED
  BY <1>1, <1>2 DEF Linked

-----------------------------------------------------------------------------
(* The main queue and the screen *)

(* A snapshot of the own document shows a partner if the document is       *)
(* linked, and only then.                                                  *)
LEMMA ViewLinked ==
  ASSUME IInv, NEW d \in Device, AddedOnce(d), Effective(d), NEW v \in View(d, d)
  PROVE  v \in Code <=> Linked(d)
<1> DEFINE own == {i \in DOMAIN queue[d] : queue[d][i].doc = d}
<1>1. CASE own = {}
  <2>1. v = users[d].partner_code
    BY <1>1 DEF View
  <2> QED
    BY <1>1, <2>1 DEF Linked, LinksOwn
<1>2. CASE own # {}
  <2>1. PICK i \in own : v = Written(queue[d][i]) /\ \A j \in own : j <= i
    BY <1>2 DEF View
  <2>2. PICK m \in Mutation : m = queue[d][i]
    BY <2>1, QueueType
  <2>3. CASE m.op = "update"
    BY <2>1, <2>2, <2>3 DEF Written, Linked, LinksOwn, Mutation
  <2>4. CASE m.op = "add"
    <3>1. v = "" /\ v \notin Code
      BY <2>1, <2>2, <2>4, CodeAssumption DEF Written
    <3>2. /\ users[d].code = nil
          /\ \A j \in DOMAIN queue[d] : queue[d][j].op = "add" => j = i
      BY <2>2, <2>4 DEF AddedOnce
    <3>3. users[d].partner_code \notin Code
      BY <3>2, CodeAssumption DEF IInv, Documents
    <3>4. ASSUME NEW k \in DOMAIN queue[d], LinksOwn(d, k)
          PROVE  FALSE
      <4>1. PICK j \in DOMAIN queue[d] : j < k /\ queue[d][j].op = "add"
        BY <3>2, <3>4 DEF Effective
      <4>2. k \in own /\ j = i
        BY <3>2, <3>4, <4>1 DEF LinksOwn
      <4>3. i < k /\ k <= i
        BY <2>1, <4>1, <4>2
      <4>4. i \in Nat /\ k \in Nat
        <5>1. queue[d] \in Seq(Mutation)
          BY DEF IInv, TypeOK
        <5>2. DOMAIN queue[d] = 1 .. Len(queue[d]) /\ Len(queue[d]) \in Nat
          BY <5>1, LenProperties
        <5> QED
          BY <2>1, <3>4, <5>2
      <4> QED
        BY <4>3, <4>4
    <3> QED
      BY <3>1, <3>3, <3>4 DEF Linked
  <2> QED
    BY <2>3, <2>4 DEF Mutation
<1> QED
  BY <1>1, <1>2

(* An empty main queue is in order. *)
LEMMA NoJobs == AllGood(<< >>) /\ NoneGood(<< >>) /\ Settled(<< >>)
BY NoIndex DEF AllGood, NoneGood, Settled

(* A job that shows a partner may always be queued; one that shows nobody  *)
(* only behind its like.                                                   *)
LEMMA JobQueued ==
  ASSUME NEW q \in Seq(MainJob), NEW job \in MainJob, NEW r, r = Append(q, job), Settled(q),
         job.val \in Code \/ (NoneGood(q) /\ job.job # "didConnect")
  PROVE  /\ Settled(r)
         /\ AllGood(q) /\ job.val \in Code => AllGood(r)
         /\ NoneGood(q) /\ job.val \notin Code => NoneGood(r)
<1>1. Len(q) \in Nat /\ DOMAIN q = 1 .. Len(q) /\ DOMAIN r = 1 .. (Len(q) + 1)
  BY AppendProperties, LenProperties
<1>2. (\A i \in DOMAIN q : r[i] = q[i]) /\ r[Len(q) + 1] = job
  BY <1>1, AppendProperties
<1>3. \A i \in DOMAIN r : i \in DOMAIN q \/ i = Len(q) + 1
  BY <1>1
<1>4. (\A i \in DOMAIN q : Good(r, i) <=> Good(q, i)) /\ (Good(r, Len(q) + 1) <=> job.val \in Code)
  BY <1>2 DEF Good
<1>5. \A i, j \in DOMAIN r : i <= j /\ Good(r, i) => Good(r, j)
  <2> SUFFICES ASSUME NEW i \in DOMAIN r, NEW j \in DOMAIN r, i <= j, Good(r, i)
               PROVE  Good(r, j)
    OBVIOUS
  <2>1. CASE j = Len(q) + 1
    BY <1>3, <1>4, <2>1 DEF NoneGood
  <2>2. CASE j \in DOMAIN q
    <3>1. i \in DOMAIN q
      BY <1>1, <2>2
    <3> QED
      BY <1>4, <2>2, <3>1 DEF Settled
  <2> QED
    BY <1>3, <2>1, <2>2
<1>6. \A i \in DOMAIN r : r[i].job = "didConnect" => Good(r, i)
  BY <1>2, <1>3, <1>4 DEF Settled
<1> QED
  BY <1>3, <1>4, <1>5, <1>6 DEF Settled, AllGood, NoneGood

(* A job that is taken from the queue leaves it in order; after one that   *)
(* shows a partner all do.                                                 *)
LEMMA JobTaken ==
  ASSUME NEW q \in Seq(MainJob), q # << >>, NEW r, r = Tail(q), Settled(q)
  PROVE  /\ Settled(r) /\ (NoneGood(q) => NoneGood(r)) /\ (AllGood(q) => AllGood(r))
         /\ Head(q).val \in Code => AllGood(q)
         /\ Head(q).job = "didConnect" => AllGood(q)
         /\ AllGood(q) => Head(q).val \in Code /\ ~NoneGood(q)
<1>1. Len(q) \in Nat /\ Len(q) # 0 /\ DOMAIN q = 1 .. Len(q)
  BY EmptySeq, LenProperties
<1>2. r \in Seq(MainJob) /\ Len(r) = Len(q) - 1 /\ Head(q) = q[1]
  BY <1>1, HeadTailProperties
<1>3. DOMAIN r = 1 .. (Len(q) - 1) /\ 1 \in DOMAIN q
  BY <1>1, <1>2, LenProperties
<1>4. \A i \in DOMAIN r : i + 1 \in DOMAIN q /\ r[i] = q[i + 1]
  BY <1>1, <1>2, <1>3, HeadTailProperties
<1>5. \A i \in DOMAIN r : Good(r, i) <=> Good(q, i + 1)
  BY <1>4 DEF Good
<1>6. \A i, j \in DOMAIN r : i <= j => i + 1 <= j + 1
  BY <1>1, <1>3
<1>7. Settled(r)
  BY <1>4, <1>5, <1>6 DEF Settled
<1>8. \A i \in DOMAIN q : 1 <= i
  BY <1>1
<1>9. Good(q, 1) => AllGood(q)
  BY <1>3, <1>8 DEF Settled, AllGood
<1> QED
  BY <1>2, <1>3, <1>4, <1>5, <1>7, <1>9 DEF Settled, AllGood, NoneGood, Good

(* What the next state owes to a device, and what it rests on. *)
Ready(d) == AddedOnce(d) /\ Effective(d) /\ Backed(d) /\ Screen(d) /\ Quiet(d)

(* A linked device stays linked, an unlinked one shows nobody: the screen  *)
(* and the jobs of the main queue stay in order.                           *)
LEMMA ScreenStep ==
  ASSUME Undisturbed, RInv, Distinct, Driven, [Next]_vars, NEW d \in Device, Ready(d)
  PROVE  Backed(d)' /\ Screen(d)'
<1>0. /\ IInv /\ IInv' /\ AddedOnce(d) /\ Effective(d) /\ Backed(d) /\ Screen(d) /\ Quiet(d)
      /\ app \in [Device -> App] /\ app[d] \in App
  BY RInvStep DEF RInv, IInv, TypeOK, Ready
<1>1. PICK q \in Seq(MainJob) : q = app[d].mainq
  BY <1>0 DEF App
<1>2. PICK r : r = app'[d].mainq
  OBVIOUS
<1>3. Linked(d) => Linked(d)'
  BY <1>0, LinkedStays
<1>4. /\ app[d].connected => AllGood(q) /\ Linked(d)
      /\ Settled(q) /\ (~NoneGood(q) => Linked(d))
  BY <1>0, <1>1 DEF Backed, Screen
<1>5. ASSUME app'[d].connected => AllGood(r) /\ Linked(d), Settled(r), ~NoneGood(r) => Linked(d)
      PROVE  Backed(d)' /\ Screen(d)'
  <2>1. Screen(d)'
    BY <1>2, <1>5 DEF Screen
  <2>2. Backed(d)'
    BY <1>2, <1>3, <1>5 DEF Backed
  <2> QED
    BY <2>1, <2>2
<1>6. CASE r = << >> /\ ~app'[d].connected
  BY <1>5, <1>6, NoJobs
<1>7. ASSUME NEW how, Die(d, how)
      PROVE  r = << >> /\ ~app'[d].connected
  BY <1>0, <1>2, <1>7 DEF Die, Process
<1>8. CASE app'[d] = Process(TRUE, "none", "getCode")
  BY <1>2, <1>6, <1>8 DEF Process
<1>9. CASE SameMain(d) /\ SameScreen(d)
  BY <1>1, <1>2, <1>4, <1>5, <1>9 DEF SameMain, SameScreen
<1>10. CASE Raises(d)
  <2>1. app[d].listening = d
    BY <1>0, <1>10 DEF Raises, Quiet
  <2>2. PICK v \in View(d, d) : r = Append(q, [job |-> "snapshot", val |-> v])
    BY <1>1, <1>2, <1>10, <2>1 DEF Raises
  <2>4. v \in Code \cup {"", " "}
    BY <1>0, ViewType DEF IInv
  <2>3. PICK job \in MainJob : job = [job |-> "snapshot", val |-> v]
    BY <2>4 DEF MainJob
  <2>12. job.val = v /\ job.job # "didConnect"
    BY <2>3
  <2>5. r = Append(q, job)
    BY <2>2, <2>3, Zenon
  <2>6. v \in Code <=> Linked(d)
    BY <1>0, ViewLinked
  <2>7. v \in Code \/ NoneGood(q)
    BY <1>4, <2>6
  <2>8. /\ Settled(r) /\ (AllGood(q) /\ v \in Code => AllGood(r))
        /\ NoneGood(q) /\ v \notin Code => NoneGood(r)
    BY <1>4, <2>5, <2>7, <2>12, JobQueued
  <2>9. app'[d].connected = app[d].connected
    BY <1>10 DEF Raises, SameScreen
  <2>10. app'[d].connected => AllGood(r) /\ Linked(d)
    BY <1>4, <2>6, <2>8, <2>9
  <2>11. ~NoneGood(r) => Linked(d)
    BY <2>6, <2>7, <2>8
  <2> QED
    BY <1>5, <2>8, <2>10, <2>11
<1>11. CASE Shows(d)
  <2>1. q # << >> /\ r = Tail(q)
    BY <1>1, <1>2, <1>11 DEF Shows
  <2>2. /\ Settled(r) /\ (NoneGood(q) => NoneGood(r)) /\ (AllGood(q) => AllGood(r))
        /\ Head(q).val \in Code => AllGood(q)
        /\ Head(q).job = "didConnect" => AllGood(q)
        /\ AllGood(q) => ~NoneGood(q)
    BY <1>4, <2>1, JobTaken
  <2>3. app'[d].connected => AllGood(q)
    BY <1>1, <1>11, <2>2 DEF Shows
  <2> QED
    BY <1>4, <1>5, <2>2, <2>3
<1>12. CASE Succeeds(d)
  <2>1. PICK t \in Attempt : /\ attempt[t].dev = d /\ attempt[t].pc = "remember"
                             /\ r = Append(q, [job |-> "didConnect", val |-> attempt[t].target])
    BY <1>1, <1>2, <1>12 DEF Succeeds
  <2>2. attempt[t].target \in Code
    BY <1>0, <2>1 DEF IInv, Tasks, Past
  <2>3. PICK job \in MainJob : job = [job |-> "didConnect", val |-> attempt[t].target]
    BY <2>2 DEF MainJob
  <2>4. job.val \in Code
    BY <2>2, <2>3
  <2>8. r = Append(q, job)
    BY <2>1, <2>3, Zenon
  <2>5. Settled(r) /\ (AllGood(q) => AllGood(r))
    BY <1>4, <2>4, <2>8, JobQueued
  <2>6. Linked(d)
    BY <2>1 DEF Driven
  <2>7. app'[d].connected = app[d].connected
    BY <1>12 DEF Succeeds, SameScreen
  <2> QED
    BY <1>4, <1>5, <2>5, <2>6, <2>7
<1> QED
  BY <1>0, <1>6, <1>7, <1>8, <1>9, <1>10, <1>11, <1>12, AppStep DEF Idles, Listens

(* A device listens to its own document, and only while it runs. *)
LEMMA QuietStep ==
  ASSUME RInv, Distinct, Driven, [Next]_vars, NEW d \in Device, Quiet(d)
  PROVE  Quiet(d)'
<1>0. IInv /\ app \in [Device -> App] /\ app[d] \in App
  BY DEF RInv, IInv, TypeOK
<1>1. ASSUME NEW how, Die(d, how)
      PROVE  Quiet(d)'
  <2>1. app'[d] = Process(FALSE, how, "off")
    BY <1>0, <1>1 DEF Die
  <2>2. /\ ~app'[d].connected /\ app'[d].mainq = << >> /\ app'[d].listening = nil
        /\ app'[d].boot = "off" /\ app'[d].answer = nil
    BY <2>1 DEF Process
  <2> QED
    BY <2>2 DEF Quiet
<1>2. CASE app'[d] = Process(TRUE, "none", "getCode")
  <2>1. /\ app'[d].up /\ app'[d].listening = nil
        /\ app'[d].boot = "getCode" /\ app'[d].answer = nil
    BY <1>2 DEF Process
  <2> QED
    BY <2>1 DEF Quiet
<1>3. ASSUME Runs(d), Idles(d) \/ Listens(d) \/ Raises(d) \/ Shows(d) \/ Succeeds(d)
      PROVE  Quiet(d)'
  <2>1. CASE ~app[d].up
    <3>1. /\ ~app[d].connected /\ app[d].mainq = << >>
          /\ app[d].listening = nil /\ app[d].boot = "off"
      BY <2>1 DEF Quiet
    <3>2. ~Succeeds(d)
      BY <2>1 DEF Succeeds, Driven, Running
    <3>3. Idles(d)
      BY <1>3, <3>1, <3>2 DEF Listens, Raises, Shows
    <3>4. app'[d].boot = "off" /\ app'[d].answer \in {nil, "", app[d].answer}
      BY <1>3, <3>1 DEF Runs
    <3> QED
      BY <2>1, <3>1, <3>3, <3>4 DEF Quiet, Idles, SameListener, SameMain, SameScreen
  <2>2. CASE app[d].up
    <3>1. app'[d].up
      BY <1>3, <2>2 DEF Runs
    <3>2. app'[d].boot = "lookup" => code'[d] # nil
      BY <1>0, <1>3, CodeStays DEF Runs, Quiet, IInv
    <3>4. app'[d].answer \in {nil, "", d}
      <4>1. CASE app[d].boot = "lookup" /\ app'[d].answer \in Matches(d, code[d])
        BY <1>0, <4>1, OwnMatch DEF Quiet
      <4>2. CASE app'[d].answer \in {nil, "", app[d].answer}
        BY <4>2 DEF Quiet
      <4> QED
        BY <1>3, <4>1, <4>2 DEF Runs
    <3>3. app'[d].listening \in {nil, d}
      <4>1. CASE Listens(d)
        BY <4>1, NilAnswer DEF Listens, Quiet
      <4>2. CASE SameListener(d)
        BY <4>2 DEF SameListener, Quiet
      <4> QED
        BY <1>3, <4>1, <4>2 DEF Idles, Raises, Shows, Succeeds
    <3> QED
      BY <3>1, <3>2, <3>3, <3>4 DEF Quiet
  <2> QED
    BY <2>1, <2>2
<1> QED
  BY <1>0, <1>1, <1>2, <1>3, AppStep

-----------------------------------------------------------------------------
(* Tasks *)

(* How a task b gets to where it is, after a. *)
Follows(a, b) ==
  /\ b.pc \in Running => a.pc \in Running
  /\ b.pc = "partnerId" => \/ a.pc = "partnerId" /\ b.ownId = a.ownId
                           \/ b.ownId \in Matches(a.dev, code[a.dev]) \cup {""}
  /\ b.pc = "writeOwn" => a.pc \in {"partnerId", "writeOwn"} /\ b.ownId = a.ownId
  /\ b.pc = "writePartner" => a.pc \in {"writeOwn", "writePartner"}
  /\ b.pc = "remember" => a.pc \in {"writePartner", "remember"}

(* Every step moves a task that way. *)
LEMMA TaskBefore ==
  ASSUME IInv, [Next]_vars, NEW t \in Attempt, attempt[t].pc # "unused"
  PROVE  Follows(attempt[t], attempt'[t])
<1>0. TypeOK /\ Tasks
  BY DEF IInv
<1>1. PICK a \in Task : a = attempt[t]
  BY <1>0 DEF TypeOK
<1>2. PICK b : b = attempt'[t]
  OBVIOUS
<1>3. SUFFICES Follows(a, b)
  BY <1>1, <1>2
<1>8. PICK e : e = a.dev
  OBVIOUS
<1>4. CASE b = a
  BY <1>4 DEF Follows
<1>5. CASE b = Dead(a)
  BY <1>5 DEF Dead, Task, Running, Follows
<1>6. CASE AttemptStep(t)
  <2>1. CASE a.pc = "exists" /\ (b = [a EXCEPT !.pc = "invalidPartnerCode"] \/ b = [a EXCEPT !.pc = "ownId"])
    <3>1. b.pc \in {"invalidPartnerCode", "ownId"}
      BY <2>1 DEF Task
    <3> QED
      BY <2>1, <3>1 DEF Running, Follows
  <2>2. CASE a.pc = "ownId" /\ \E x \in Matches(e, code[e]) \cup {""} :
               b = [a EXCEPT !.pc = "partnerId", !.ownId = x]
    <3>1. b.pc = "partnerId" /\ b.ownId \in Matches(e, code[e]) \cup {""}
      BY <2>2 DEF Task
    <3> QED
      BY <1>8, <2>2, <3>1 DEF Running, Follows
  <2>3. CASE a.pc = "partnerId" /\ \E x : b = [a EXCEPT !.pc = "writeOwn", !.partnerId = x]
    <3>1. b.pc = "writeOwn" /\ b.ownId = a.ownId
      BY <2>3 DEF Task
    <3> QED
      BY <2>3, <3>1 DEF Running, Follows
  <2>4. CASE a.pc = "writeOwn" /\ b = [a EXCEPT !.pc = "writePartner"]
    <3>1. b.pc = "writePartner"
      BY <2>4 DEF Task
    <3> QED
      BY <2>4, <3>1 DEF Running, Follows
  <2>5. CASE a.pc = "writePartner" /\ b = [a EXCEPT !.pc = "remember"]
    <3>1. b.pc = "remember"
      BY <2>5 DEF Task
    <3> QED
      BY <2>5, <3>1 DEF Running, Follows
  <2>6. CASE a.pc = "remember" /\ b = [a EXCEPT !.pc = "success"]
    <3>1. b.pc = "success"
      BY <2>6 DEF Task
    <3> QED
      BY <2>6, <3>1 DEF Running, Follows
  <2>7. CASE a.pc \in Running /\ \E x, y : b = [a EXCEPT !.pc = "missing", !.ownId = x]
                                        \/ b = [a EXCEPT !.pc = "missing", !.partnerId = y]
    <3>1. b.pc = "missing"
      BY <2>7 DEF Task
    <3> QED
      BY <2>7, <3>1 DEF Running, Follows
  <2>8. CASE \/ a.pc = "ownId" /\ b = [a EXCEPT !.pc = "missing", !.ownId = nil]
             \/ a.pc = "partnerId" /\ b = [a EXCEPT !.pc = "missing", !.partnerId = nil]
    BY <2>7, <2>8 DEF Running
  <2> QED
    BY <1>0, <1>1, <1>2, <1>8, <1>4, <1>5, <1>6, <2>1, <2>2, <2>3, <2>4, <2>5, <2>6, <2>8,
       OwnStep
<1> QED
  BY <1>0, <1>1, <1>2, <1>4, <1>5, <1>6, OtherTasks

(* A new task is a tap in a running process. *)
LEMMA TaskFresh ==
  ASSUME IInv, [Next]_vars, NEW t \in Attempt, attempt[t].pc = "unused"
  PROVE  /\ attempt'[t].pc \in {"unused", "callMySelf", "exists"}
         /\ attempt'[t].pc = "exists" => app'[attempt'[t].dev].up
<1>0. TypeOK /\ app \in [Device -> App] /\ attempt \in [Attempt -> Task]
  BY DEF IInv, TypeOK
<1>1. CASE attempt'[t] = attempt[t]
  BY <1>1
<1>2. CASE AttemptStep(t)
  <2>1. PICK e \in Device, c \in Code \cup {""}, via \in {"main", "settings"} : Confirm(t, e, c, via)
    BY <1>2 DEF AttemptStep, CheckExisting, FindOwn, FindPartner, FindMissing, WriteOwn, WritePartner, Remember
  <2>2. attempt'[t].pc \in {"callMySelf", "exists"} /\ attempt'[t].dev = e
    BY <1>0, <2>1 DEF Confirm, Idle
  <2>3. PICK p : app' = [app EXCEPT ![e].panel = p]
    BY <2>1 DEF Confirm
  <2>5. app[e] \in App /\ app'[e] = [app[e] EXCEPT !.panel = p]
    BY <1>0, <2>3
  <2>6. app'[e].up = app[e].up
    BY <2>5 DEF App
  <2>4. app'[e].up
    BY <2>1, <2>6 DEF Confirm
  <2> QED
    BY <2>2, <2>4
<1> QED
  BY <1>0, <1>1, <1>2, OtherTasks DEF Running

(* A task that has found its own document belongs to a registered device. *)
LEMMA FoundOwnStep ==
  ASSUME Undisturbed, RInv, Distinct, FoundOwn, [Next]_vars
  PROVE  FoundOwn'
<1>0. IInv /\ TypeOK /\ Tasks
  BY DEF RInv, IInv
<1> SUFFICES ASSUME NEW t \in Attempt, attempt'[t].pc \in {"partnerId", "writeOwn"},
                    attempt'[t].ownId # ""
             PROVE  Registered(attempt[t].dev)'
  BY DEF FoundOwn
<1>1. attempt[t].pc # "unused"
  BY <1>0, TaskFresh
<1>2. PICK d \in Device : d = attempt[t].dev /\ code[d] # nil
  BY <1>0, <1>1 DEF Tasks
<1>3. attempt'[t].dev = d
  BY <1>0, <1>1, <1>2, TaskStays
<1>4. Follows(attempt[t], attempt'[t])
  BY <1>0, <1>1, TaskBefore
<1>5. Registered(d)
  <2>1. CASE attempt[t].pc \in {"partnerId", "writeOwn"} /\ attempt'[t].ownId = attempt[t].ownId
    BY <1>2, <2>1 DEF FoundOwn
  <2>2. CASE attempt'[t].ownId \in Matches(d, code[d])
    <3>1. d \in Matches(d, code[d])
      BY <1>0, <1>2, <2>2, OwnMatch
    <3>2. CASE users[d].code = code[d]
      BY <1>2, <3>2 DEF Registered
    <3>3. ASSUME NEW i \in DOMAIN queue[d], queue[d][i] = Add(d, code[d])
          PROVE  Registered(d)
      <4>1. Add(d, code[d]).op = "add"
        BY DEF Add
      <4> QED
        BY <3>3, <4>1 DEF Registered
    <3> QED
      BY <3>1, <3>2, <3>3 DEF Matches
  <2> QED
    BY <1>2, <1>4, <2>1, <2>2 DEF Follows
<1>6. Registered(d)'
  BY <1>5, RegisteredStays
<1> QED
  BY <1>3, <1>6

(* The first write of a task links the document of its device. *)
LEMMA FirstWrite ==
  ASSUME RInv, Distinct, [Next]_vars, NEW t \in Attempt, NEW d \in Device,
         attempt[t].dev = d, attempt[t].pc = "writeOwn", attempt'[t].pc = "writePartner"
  PROVE  Linked(d)'
<1>0. IInv /\ TypeOK /\ Tasks /\ Ids /\ attempt \in [Attempt -> Task] /\ attempt[t] \in Task
  BY DEF RInv, IInv, TypeOK
<1>1. AttemptStep(t)
  BY <1>0, OtherTasks DEF Dead, Task
<1>2. WriteOwn(t)
  BY <1>1 DEF AttemptStep, Confirm, CheckExisting, FindOwn, FindPartner, FindMissing, WritePartner, Remember
<1>3. ~Die(d, "path")
  <2>1. ASSUME Die(d, "path")
        PROVE  attempt'[t].pc = "dead"
    BY <1>0, <2>1 DEF Die, Running, Task
  <2> QED
    BY <2>1
<1>4. /\ attempt[t].ownId # ""
      /\ queue' = [queue EXCEPT ![d] = Append(@, Update(attempt[t].ownId, attempt[t].target))]
  BY <1>2, <1>3 DEF WriteOwn, QueueUpdate
<1>5. attempt[t].ownId = d
  BY <1>0, <1>4 DEF Ids, Tasks, Distinct
<1>6. attempt[t].target \in Code
  BY <1>0 DEF Tasks, Past
<1>7. PICK m \in Mutation : m = Update(d, attempt[t].target)
  BY <1>6 DEF Update, Mutation
<1>8. queue'[d] = Append(queue[d], m)
  BY <1>0, <1>4, <1>5, <1>7 DEF TypeOK
<1>9. /\ Len(queue[d]) + 1 \in DOMAIN queue'[d]
      /\ queue'[d][Len(queue[d]) + 1] = m
  BY <1>0, <1>8, AppendEffect
<1>10. m.op = "update" /\ m.doc = d
  BY <1>7 DEF Update
<1> QED
  BY <1>9, <1>10 DEF Linked, LinksOwn

(* A task runs in a process, and past its first write it is linked. *)
LEMMA DrivenStep ==
  ASSUME Undisturbed, CInv, [Next]_vars
  PROVE  Driven'
<1>0. RInv /\ IInv /\ TypeOK /\ Tasks /\ Driven /\ Distinct /\ app \in [Device -> App]
  BY DEF CInv, RInv, IInv, TypeOK
<1> SUFFICES ASSUME NEW t \in Attempt
             PROVE  /\ attempt'[t].pc \in Running => app'[attempt'[t].dev].up
                    /\ attempt'[t].pc \in {"writePartner", "remember"} => Linked(attempt[t].dev)'
  BY DEF Driven
<1>1. CASE attempt[t].pc = "unused"
  BY <1>0, <1>1, TaskFresh DEF Running
<1>2. CASE attempt[t].pc # "unused"
  <2>1. PICK d \in Device : d = attempt[t].dev
    BY <1>0, <1>2 DEF Tasks
  <2>2. attempt'[t].dev = d
    BY <1>0, <1>2, <2>1, TaskStays
  <2>3. Follows(attempt[t], attempt'[t])
    BY <1>0, <1>2, TaskBefore
  <2>4. ASSUME attempt'[t].pc \in Running
        PROVE  app'[d].up
    <3>1. attempt[t].pc \in Running /\ app[d].up
      BY <1>0, <2>1, <2>3, <2>4 DEF Follows, Driven
    <3>2. ASSUME NEW how, Die(d, how)
          PROVE  FALSE
      <4>1. attempt'[t] = [attempt[t] EXCEPT !.pc = "dead"] /\ attempt[t] \in Task
        BY <1>0, <2>1, <3>1, <3>2 DEF Die, TypeOK
      <4>2. attempt'[t].pc = "dead"
        BY <4>1 DEF Task
      <4> QED
        BY <2>4, <4>2 DEF Running
    <3>3. CASE app'[d] = Process(TRUE, "none", "getCode")
      BY <3>3 DEF Process
    <3> QED
      BY <1>0, <3>1, <3>2, <3>3, AppStep DEF Runs
  <2>5. ASSUME attempt'[t].pc \in {"writePartner", "remember"}
        PROVE  Linked(d)'
    <3>1. CASE attempt[t].pc \in {"writePartner", "remember"}
      <4>1. Linked(d) /\ AddedOnce(d) /\ Effective(d)
        BY <1>0, <2>1, <3>1 DEF Driven, CInv
      <4> QED
        BY <1>0, <4>1, LinkedStays
    <3>2. CASE attempt[t].pc = "writeOwn" /\ attempt'[t].pc = "writePartner"
      BY <1>0, <2>1, <3>2, FirstWrite
    <3> QED
      BY <2>3, <2>5, <3>1, <3>2 DEF Follows
  <2> QED
    BY <2>2, <2>4, <2>5
<1> QED
  BY <1>1, <1>2

-----------------------------------------------------------------------------
(* The invariant and what it shows *)

(* Nothing is linked, shown or running in the initial state. *)
LEMMA InitCInv == Init => CInv
<1> SUFFICES ASSUME Init PROVE CInv
  OBVIOUS
<1>1. RInv
  BY InitRInv
<1>2. \A t \in Attempt : attempt[t].pc = "unused"
  BY DEF Init, Idle
<1>3. FoundOwn /\ Driven
  BY <1>2 DEF FoundOwn, Driven, Running
<1>4. Distinct
  BY DEF Init, Distinct
<1>5. ASSUME NEW d \in Device
      PROVE  AddedOnce(d) /\ Effective(d) /\ Backed(d) /\ Screen(d) /\ Quiet(d)
  <2>1. DOMAIN queue[d] = {} /\ app[d] = Process(FALSE, "none", "off") /\ users[d].code = nil
    BY NoIndex DEF Init
  <2>2. /\ ~app[d].up /\ ~app[d].saving /\ ~app[d].connected /\ app[d].mainq = << >>
        /\ app[d].listening = nil /\ app[d].boot = "off" /\ app[d].answer = nil
    BY <2>1 DEF Process
  <2>3. AddedOnce(d) /\ Effective(d) /\ Quiet(d)
    BY <2>1, <2>2 DEF AddedOnce, Effective, Quiet
  <2>4. Backed(d) /\ Screen(d)
    BY <2>2, NoJobs DEF Backed, Screen
  <2> QED
    BY <2>3, <2>4
<1> QED
  BY <1>1, <1>3, <1>4, <1>5 DEF CInv

(* CInv is inductive where nothing disturbs the writes. *)
LEMMA CInvStep ==
  ASSUME Undisturbed, CInv, [Next]_vars
  PROVE  CInv'
<1>0. RInv /\ IInv /\ Distinct /\ FoundOwn /\ Driven
  BY DEF CInv, RInv
<1>1. RInv' /\ Distinct' /\ FoundOwn' /\ Driven'
  BY <1>0, RInvStep, DistinctStep, FoundOwnStep, DrivenStep
<1>2. ASSUME NEW d \in Device
      PROVE  (AddedOnce(d) /\ Effective(d) /\ Backed(d) /\ Screen(d) /\ Quiet(d))'
  <2>1. Ready(d) /\ AddedOnce(d) /\ Effective(d) /\ Quiet(d)
    BY DEF CInv, Ready
  <2>2. AddedOnce(d)' /\ Effective(d)'
    BY <1>0, <2>1, AddedOnceStep, EffectiveStep
  <2>3. Backed(d)' /\ Screen(d)'
    BY <1>0, <2>1, ScreenStep
  <2>4. Quiet(d)'
    BY <1>0, <2>1, QuietStep
  <2> QED
    BY <2>2, <2>3, <2>4
<1> QED
  BY <1>1, <1>2 DEF CInv

(* A step under the invariant takes no running app back to the invitation  *)
(* screen.                                                                 *)
LEMMA StaysConnected ==
  ASSUME CInv, [Next]_vars, NEW d \in Device, app[d].connected, app'[d].up
  PROVE  app'[d].connected
<1>0. IInv /\ Screen(d) /\ Quiet(d) /\ app \in [Device -> App] /\ app[d] \in App
  BY DEF CInv, RInv, IInv, TypeOK
<1>1. ASSUME NEW how, Die(d, how)
      PROVE  FALSE
  BY <1>0, <1>1 DEF Die, Process
<1>2. app[d].up
  BY <1>0 DEF Quiet
<1>3. CASE SameScreen(d)
  BY <1>3 DEF SameScreen
<1>4. CASE Shows(d)
  <2>1. PICK q \in Seq(MainJob) : q = app[d].mainq
    BY <1>0 DEF App
  <2>2. AllGood(q) /\ Settled(q) /\ q # << >>
    BY <1>0, <1>4, <2>1 DEF Screen, Shows
  <2>3. Head(q).val \in Code
    BY <2>2, JobTaken
  <2> QED
    BY <1>4, <2>1, <2>3 DEF Shows
<1> QED
  BY <1>0, <1>1, <1>2, <1>3, <1>4, AppStep DEF Idles, Listens, Raises, Succeeds

(* While an app runs and shows a partner it goes on showing one, for any   *)
(* number of devices, codes and taps, with crashes, relaunches, failing    *)
(* and offline lookups: no snapshot taken before the link is delivered     *)
(* after it (getPartnerCodeFromServer, MainView.connectPartner).  Codes    *)
(* must be distinct and every write applied exactly once.                  *)
THEOREM NeverDisconnected == Undisturbed => (Spec => NeverDisconnects)
<1> SUFFICES ASSUME Undisturbed PROVE Spec => NeverDisconnects
  OBVIOUS
<1>1. CInv /\ [Next]_vars => CInv'
  BY CInvStep
<1>2. CInv /\ [Next]_vars =>
        [\A d \in Device : app[d].connected /\ app[d].up' => app[d].connected']_vars
  BY StaysConnected
<1> QED
  BY <1>1, <1>2, InitCInv, PTL DEF Spec, NeverDisconnects

-----------------------------------------------------------------------------
(* Partners.  Above, v was any code.  With three devices a second task may *)
(* replace one partner by another; what follows is about users of whom     *)
(* none typed, or had typed by another, the codes of two others.           *)

(* The code v of a device may become the partner_code of d. *)
Mate(d, v) == Agreed(code[d], v) /\ \E y \in Device : code[y] = v

Faithful == \A d \in Device : \A v, w \in Code : Mate(d, v) /\ Mate(d, w) => v = w

(* What isExistingCode let pass is the code of a device. *)
Sighted ==
  \A t \in Attempt : attempt[t].pc \in Past => \E y \in Device : code[y] = attempt[t].target

(* The i-th job of a main queue is a callback of the listener. *)
Callback(q, i) == q[i].job = "snapshot"

(* A partner that UserDefaults has, or is about to get, is a mate, and the *)
(* own document is linked.                                                 *)
Informed(d) ==
  /\ partner_code[d] \in Code => Mate(d, partner_code[d]) /\ Linked(d)
  /\ \A i \in DOMAIN app[d].mainq :
       Good(app[d].mainq, i) => Mate(d, app[d].mainq[i].val)

(* What the listener was told has reached UserDefaults and the screen, or  *)
(* is on its way there.                                                    *)
Reported(d) ==
  app[d].raised # nil =>
    LET q == app[d].mainq IN
    /\ partner_code[d] # nil \/ \E i \in DOMAIN q : Callback(q, i)
    /\ app[d].raised \in Code => \/ app[d].connected /\ partner_code[d] \in Code
                                 \/ \E i \in DOMAIN q : Callback(q, i) /\ Good(q, i)

AInv == /\ CInv /\ LInv /\ Sighted
        /\ \A d \in Device : Informed(d) /\ Reported(d)

-----------------------------------------------------------------------------
(* Mates *)

(* Codes that somebody typed are codes. *)
LEMMA AgreedCodes ==
  ASSUME IInv, NEW a, NEW b, Agreed(a, b)
  PROVE  a # nil /\ b # nil
<1>1. ASSUME NEW x, NEW y, Asked(x, y)
      PROVE  x # nil /\ y # nil
  BY <1>1 DEF Asked, IInv, Tasks
<1> QED
  BY <1>1 DEF Agreed

(* Mates have codes. *)
LEMMA MateCodes ==
  ASSUME IInv, NEW d \in Device, NEW v, Mate(d, v)
  PROVE  code[d] \in Code /\ v \in Code
<1>1. code[d] # nil /\ v # nil
  BY AgreedCodes DEF Mate
<1> QED
  BY <1>1 DEF Mate, IInv, TypeOK

(* Mates stay mates. *)
LEMMA MateStays ==
  ASSUME IInv, [Next]_vars, NEW d \in Device, NEW v, Mate(d, v)
  PROVE  Mate(d, v)'
<1>0. TypeOK /\ Tasks
  BY DEF IInv
<1>1. PICK c : c = code[d]
  OBVIOUS
<1>2. c # nil /\ v # nil
  BY <1>1, MateCodes, CodeAssumption
<1>3. Agreed(c, v)'
  BY <1>0, <1>1, AgreedStays DEF Mate
<1>4. code'[d] = c
  BY <1>0, <1>1, <1>2, CodeStays
<1>5. PICK y \in Device : code[y] = v
  BY DEF Mate
<1>6. code'[y] = v
  BY <1>0, <1>2, <1>5, CodeStays
<1> QED
  BY <1>3, <1>4, <1>6 DEF Mate

(* Who has two mates has had them before. *)
LEMMA FaithfulBefore ==
  ASSUME IInv, [Next]_vars, Faithful'
  PROVE  Faithful
BY MateStays DEF Faithful

(* The partner_code of a document is that of a mate. *)
LEMMA ServerMate ==
  ASSUME LInv, NEW d \in Device, users[d].partner_code \in Code
  PROVE  Mate(d, users[d].partner_code)
<1>0. IInv /\ Documents /\ Consent /\ PartnerExists
  BY DEF LInv, RInv, IInv
<1>1. users[d].code = code[d] /\ Agreed(users[d].code, users[d].partner_code)
  BY <1>0, CodeAssumption DEF Documents, Consent, Agreed
<1>2. PICK y \in Device : users[y].code = users[d].partner_code
  BY <1>0 DEF PartnerExists
<1>3. code[y] = users[d].partner_code
  BY <1>0, <1>2, CodeAssumption DEF Documents
<1> QED
  BY <1>1, <1>3 DEF Mate

(* So is the one that a queued write puts there. *)
LEMMA QueuedMate ==
  ASSUME LInv, NEW e \in Device, NEW i \in DOMAIN queue[e], queue[e][i].op = "update"
  PROVE  Mate(queue[e][i].doc, queue[e][i].val)
<1>0. RInv /\ IInv /\ Documents /\ Writes /\ Anchored
  BY DEF LInv, RInv, IInv
<1>1. PICK m \in Mutation : m = queue[e][i] /\ Queued(e, m)
  BY <1>0, QueueType
<1>2. m.op = "update" /\ m.doc \in Device /\ m.val \in Code
  BY <1>1 DEF Mutation
<1>3. Agreed(code[m.doc], m.val)
  BY <1>0, <1>1, <1>2 DEF Writes, Sound
<1>4. Announced(e, m.val, i)
  BY <1>0, <1>1, <1>2 DEF Anchored
<1>5. ASSUME NEW j \in DOMAIN queue[e], queue[e][j] = Add(e, m.val)
      PROVE  code[e] = m.val
  <2>1. queue[e][j].op = "add" /\ queue[e][j].val = m.val
    BY <1>5 DEF Add
  <2>2. queue[e][j] = Add(e, code[e])
    BY <1>0, <2>1, AddIsOwn
  <2>3. Add(e, code[e]).val = code[e]
    BY DEF Add
  <2> QED
    BY <2>1, <2>2, <2>3
<1>6. ASSUME NEW y \in Device, users[y].code = m.val
      PROVE  code[y] = m.val
  BY <1>0, <1>2, <1>6, CodeAssumption DEF Documents
<1>7. \E y \in Device : code[y] = m.val
  BY <1>4, <1>5, <1>6 DEF Announced, Exists
<1> QED
  BY <1>1, <1>3, <1>7 DEF Mate

(* A snapshot of the own document shows nobody or a mate. *)
LEMMA ViewMate ==
  ASSUME LInv, NEW d \in Device, NEW v \in View(d, d), v \in Code
  PROVE  Mate(d, v)
<1>0. IInv
  BY DEF LInv, RInv
<1> DEFINE own == {i \in DOMAIN queue[d] : queue[d][i].doc = d}
<1>1. CASE own = {}
  <2>1. v = users[d].partner_code
    BY <1>1 DEF View
  <2> QED
    BY <2>1, ServerMate
<1>2. CASE own # {}
  <2>1. PICK i \in own : v = Written(queue[d][i])
    BY <1>2 DEF View
  <2>2. queue[d][i].op = "update" /\ v = queue[d][i].val
    BY <1>0, <2>1, QueueType, CodeAssumption DEF Written, Mutation
  <2> QED
    BY <2>1, <2>2, QueuedMate
<1> QED
  BY <1>1, <1>2

(* The target of a task that was found is that of a mate. *)
LEMMA TaskMate ==
  ASSUME IInv, Sighted, NEW t \in Attempt, attempt[t].pc \in Past
  PROVE  attempt[t].dev \in Device /\ Mate(attempt[t].dev, attempt[t].target)
<1>1. attempt[t].pc # "unused"
  BY DEF Past
<1>2. /\ attempt[t].dev \in Device /\ attempt[t].dev # nil
      /\ attempt[t].target # code[attempt[t].dev]
  BY <1>1, DeviceAssumption DEF IInv, Tasks
<1>3. Asked(code[attempt[t].dev], attempt[t].target)
  BY <1>2 DEF Asked
<1> QED
  BY <1>2, <1>3 DEF Mate, Agreed, Sighted

(* A code that was found is that of a device. *)
LEMMA SightedStep ==
  ASSUME RInv, Sighted, [Next]_vars
  PROVE  Sighted'
<1>0. IInv /\ TypeOK /\ Tasks /\ RInv' /\ Documents' /\ Located' /\ TypeOK' /\ Tasks'
  BY RInvStep DEF RInv, IInv
<1> SUFFICES ASSUME NEW t \in Attempt, attempt'[t].pc \in Past
             PROVE  \E y \in Device : code'[y] = attempt'[t].target
  BY DEF Sighted
<1>1. attempt[t].pc # "unused"
  BY <1>0, TaskFresh DEF Past
<1>2. CASE attempt[t].pc \in Past
  <2>1. PICK y \in Device : code[y] = attempt[t].target
    BY <1>2 DEF Sighted
  <2>2. code[y] # nil
    BY <1>0, <1>1, <2>1 DEF Tasks
  <2>3. code'[y] = code[y] /\ attempt'[t].target = attempt[t].target
    BY <1>0, <1>1, <2>2, CodeStays, TaskStays
  <2> QED
    BY <2>1, <2>3
<1>3. CASE attempt'[t].pc = "ownId"
  <2>1. PICK y \in cache'[attempt'[t].dev] : users'[y].code = attempt'[t].target
    BY <1>0, <1>3 DEF Located, Seen
  <2>2. attempt'[t].dev \in Device /\ attempt'[t].target # nil
    BY <1>0, <1>3 DEF Tasks
  <2>3. y \in Device
    BY <1>0, <2>1, <2>2 DEF TypeOK
  <2>4. code'[y] = attempt'[t].target
    BY <1>0, <2>1, <2>2, <2>3 DEF Documents
  <2> QED
    BY <2>3, <2>4
<1>4. ASSUME attempt[t].pc \notin Past
      PROVE  attempt'[t].pc = "ownId"
  <2>1. PICK a \in Task : a = attempt[t]
    BY <1>0 DEF TypeOK
  <2>2. PICK b : b = attempt'[t]
    OBVIOUS
  <2>3. a.pc \notin Past /\ b.pc \in Past /\ a.pc # "unused"
    BY <1>1, <1>4, <2>1, <2>2
  <2>4. b # a /\ b # Dead(a)
    BY <2>3 DEF Dead, Task, Past
  <2>5. AttemptStep(t)
    BY <1>0, <2>1, <2>2, <2>4, OtherTasks
  <2>6. \/ b = [a EXCEPT !.pc = "invalidPartnerCode"]
        \/ b = [a EXCEPT !.pc = "ownId"]
    BY <1>0, <2>1, <2>2, <2>3, <2>4, <2>5, OwnStep DEF Past
  <2> QED
    BY <2>2, <2>3, <2>6 DEF Task, Past
<1> QED
  BY <1>2, <1>3, <1>4

-----------------------------------------------------------------------------
(* What a step does to what a device knows *)

Keeps(d) ==
  /\ partner_code'[d] = partner_code[d] /\ SameMain(d) /\ SameScreen(d)
  /\ app'[d].raised \in {nil, app[d].raised}
  /\ app'[d].fetches > 0 => app[d].fetches > 0

Ends(d) == partner_code'[d] = partner_code[d] /\ \E how : Die(d, how)

Starts(d) == partner_code'[d] = partner_code[d] /\ app'[d] = Process(TRUE, "none", "getCode")

(* Everything that changes UserDefaults, the main queue or the screen. *)
LEMMA KnowledgeStep ==
  ASSUME IInv, [Next]_vars, NEW d \in Device
  PROVE  \/ Keeps(d) \/ Ends(d) \/ Starts(d)
         \/ Snapshot(d) \/ OnSnapshot(d) \/ DidConnectedPartner(d)
         \/ \E t \in Attempt : attempt[t].dev = d /\ Remember(t)
<1>0. /\ app \in [Device -> App] /\ app[d] \in App /\ app[d].fetches \in Nat
      /\ partner_code \in [Device -> Code \cup {nil, ""}]
  BY DEF IInv, TypeOK, App
<1>1. CASE app'[d] = app[d] /\ partner_code'[d] = partner_code[d]
  BY <1>1 DEF Keeps, SameMain, SameScreen
<1>2. ASSUME partner_code'[d] # partner_code[d]
      PROVE  OnSnapshot(d) \/ \E t \in Attempt : attempt[t].dev = d /\ Remember(t)
  <2>1. ASSUME NEW e \in Device, DeviceStep(e)
        PROVE  OnSnapshot(e)
    BY <1>2, <2>1 DEF DeviceStep, Launch, Reappear, Kill, BootGetCode, ShowCode, SaveCode,
                Lookup, Listen, LookupMissing, LookupError, Snapshot,
                DidConnectedPartner, RequestPartnerClothes, RequestNobodysClothes,
                OpenInput, CloseInput, Commit, CommitUnacknowledged, Reject, Die
  <2>2. ASSUME NEW e \in Device, OnSnapshot(e)
        PROVE  e = d
    BY <1>0, <1>2, <2>2 DEF OnSnapshot
  <2>3. ASSUME NEW t \in Attempt, AttemptStep(t)
        PROVE  Remember(t)
    BY <1>2, <2>3 DEF AttemptStep, Confirm, CheckExisting, FindOwn, FindPartner, FindMissing,
                WriteOwn, WritePartner, QueueUpdate, Die
  <2>4. ASSUME NEW t \in Attempt, Remember(t)
        PROVE  attempt[t].dev = d
    BY <1>0, <1>2, <2>4 DEF Remember
  <2>5. CASE UNCHANGED vars
    BY <1>2, <2>5 DEF vars
  <2> QED
    BY <2>1, <2>2, <2>3, <2>4, <2>5 DEF Next
<1>3. ASSUME NEW p, app' = [app EXCEPT ![d].panel = p], partner_code' = partner_code
      PROVE  Keeps(d)
  BY <1>0, <1>3 DEF Keeps, SameMain, SameScreen, App
<1>4. ASSUME NEW how, Die(d, how)
      PROVE  Ends(d)
  BY <1>4 DEF Ends, Die
<1>5. CASE DeviceStep(d)
  <2>1. CASE Launch(d)
    BY <1>0, <2>1 DEF Launch, Starts
  <2>2. CASE Reappear(d)
    BY <1>0, <2>2 DEF Reappear, Keeps, SameMain, SameScreen, App
  <2>3. CASE Kill(d) \/ LookupMissing(d) \/ LookupError(d) \/ RequestNobodysClothes(d)
    BY <1>4, <2>3 DEF Kill, LookupMissing, LookupError, RequestNobodysClothes
  <2>4. CASE BootGetCode(d) \/ ShowCode(d)
    <3>1. PICK next : GetCode(d, next) /\ partner_code' = partner_code
      BY <2>4 DEF BootGetCode, ShowCode
    <3>2. CASE app' = [app EXCEPT ![d].boot = next]
      BY <1>0, <3>1, <3>2 DEF Keeps, SameMain, SameScreen, App
    <3>3. CASE app' = [app EXCEPT ![d].boot = next, ![d].saving = TRUE]
      BY <1>0, <3>1, <3>3 DEF Keeps, SameMain, SameScreen, App
    <3> QED
      BY <3>1, <3>2, <3>3 DEF GetCode
  <2>5. CASE SaveCode(d)
    BY <1>0, <2>5 DEF SaveCode, Keeps, SameMain, SameScreen, App
  <2>6. CASE Lookup(d)
    <3>1. PICK x : app' = [app EXCEPT ![d].boot = "answered", ![d].answer = x]
      BY <2>6 DEF Lookup
    <3>2. partner_code' = partner_code
      BY <2>6 DEF Lookup
    <3> QED
      BY <1>0, <3>1, <3>2 DEF Keeps, SameMain, SameScreen, App
  <2>11. CASE Listen(d)
    BY <1>0, <2>11 DEF Listen, Keeps, SameMain, SameScreen, App
  <2>7. CASE RequestPartnerClothes(d)
    <3>1. PICK w : app' = [app EXCEPT ![d].fetches = app[d].fetches - 1, ![d].watched = w]
      BY <1>0, <2>7 DEF RequestPartnerClothes
    <3>2. app[d].fetches > 0 /\ partner_code' = partner_code
      BY <2>7 DEF RequestPartnerClothes
    <3> QED
      BY <1>0, <3>1, <3>2 DEF Keeps, SameMain, SameScreen, App
  <2>8. CASE OpenInput(d) \/ CloseInput(d)
    BY <1>3, <2>8 DEF OpenInput, CloseInput
  <2>9. CASE Commit(d) \/ Reject(d)
    BY <1>1, <2>9 DEF Commit, Reject
  <2>10. CASE CommitUnacknowledged(d)
    BY <1>0, <2>10 DEF CommitUnacknowledged, Keeps, SameMain, SameScreen, App
  <2> QED
    BY <1>5, <2>1, <2>2, <2>3, <2>4, <2>5, <2>6, <2>7, <2>8, <2>9, <2>10, <2>11 DEF DeviceStep
<1>6. ASSUME NEW t \in Attempt, NEW c, NEW via, Confirm(t, d, c, via)
      PROVE  Keeps(d)
  BY <1>3, <1>6 DEF Confirm
<1>7. ASSUME NEW t \in Attempt, attempt[t].dev = d, attempt[t].pc # "unused", AttemptStep(t),
             app'[d] # app[d]
      PROVE  Ends(d) \/ Remember(t)
  <2>1. CASE CheckExisting(t)
    BY <1>7, <2>1 DEF CheckExisting
  <2>2. CASE FindOwn(t) \/ FindPartner(t) \/ FindMissing(t)
    BY <1>4, <1>7, <2>2 DEF FindOwn, FindPartner, FindMissing
  <2>3. CASE WriteOwn(t) \/ WritePartner(t)
    BY <1>4, <1>7, <2>3 DEF WriteOwn, WritePartner, QueueUpdate
  <2>4. ASSUME NEW e \in Device, NEW c, NEW via, Confirm(t, e, c, via)
        PROVE  FALSE
    BY <1>7, <2>4 DEF Confirm
  <2> QED
    BY <1>7, <2>1, <2>2, <2>3, <2>4 DEF AttemptStep
<1> QED
  BY <1>1, <1>2, <1>5, <1>6, <1>7, Actor

(* The parts of a job. *)
LEMMA JobType ==
  ASSUME NEW q \in Seq(MainJob), NEW i \in DOMAIN q
  PROVE  q[i].job \in {"snapshot", "didConnect"} /\ q[i].val \in Code \cup {"", " "}
<1>1. q[i] \in MainJob
  BY LenProperties, ElementOfSeq
<1> QED
  BY <1>1 DEF MainJob

(* One job more. *)
LEMMA JobAdded ==
  ASSUME NEW q \in Seq(MainJob), NEW job \in MainJob, NEW r, r = Append(q, job)
  PROVE  /\ \A i \in DOMAIN q : i \in DOMAIN r /\ r[i] = q[i]
         /\ Len(q) + 1 \in DOMAIN r /\ r[Len(q) + 1] = job
         /\ \A i \in DOMAIN r : r[i] = job \/ (i \in DOMAIN q /\ r[i] = q[i])
<1>1. Len(q) \in Nat /\ DOMAIN q = 1 .. Len(q) /\ DOMAIN r = 1 .. (Len(q) + 1)
  BY AppendProperties, LenProperties
<1>2. (\A i \in DOMAIN q : r[i] = q[i]) /\ r[Len(q) + 1] = job
  BY <1>1, AppendProperties
<1> QED
  BY <1>1, <1>2

(* One job less. *)
LEMMA JobRemoved ==
  ASSUME NEW q \in Seq(MainJob), q # << >>, NEW r, r = Tail(q)
  PROVE  /\ 1 \in DOMAIN q /\ Head(q) = q[1]
         /\ \A i \in DOMAIN r : i + 1 \in DOMAIN q /\ r[i] = q[i + 1]
         /\ \A i \in DOMAIN q : i = 1 \/ \E k \in DOMAIN r : r[k] = q[i]
<1>1. Len(q) \in Nat /\ Len(q) # 0 /\ DOMAIN q = 1 .. Len(q)
  BY EmptySeq, LenProperties
<1>2. r \in Seq(MainJob) /\ Len(r) = Len(q) - 1 /\ Head(q) = q[1]
  BY <1>1, HeadTailProperties
<1>3. DOMAIN r = 1 .. (Len(q) - 1) /\ 1 \in DOMAIN q
  BY <1>1, <1>2, LenProperties
<1>4. \A i \in DOMAIN r : i + 1 \in DOMAIN q /\ r[i] = q[i + 1]
  BY <1>1, <1>2, <1>3, HeadTailProperties
<1>5. ASSUME NEW i \in DOMAIN q, i # 1
      PROVE  \E k \in DOMAIN r : r[k] = q[i]
  <2>1. i - 1 \in DOMAIN r /\ (i - 1) + 1 = i
    BY <1>1, <1>3, <1>5
  <2>2. r[i - 1] = q[(i - 1) + 1]
    BY <1>4, <2>1
  <2> QED
    BY <2>1, <2>2
<1> QED
  BY <1>2, <1>3, <1>4, <1>5

(* A snapshot is taken of the own document. *)
LEMMA SnapshotEffect ==
  ASSUME IInv, NEW d \in Device, Quiet(d), Snapshot(d)
  PROVE  /\ SameScreen(d) /\ partner_code' = partner_code /\ app'[d].fetches = app[d].fetches
         /\ \E v \in View(d, d) : \E job \in MainJob :
              /\ job.job = "snapshot" /\ job.val = v /\ app'[d].raised = v
              /\ app'[d].mainq = Append(app[d].mainq, job)
<1>0. app \in [Device -> App] /\ app[d] \in App /\ TypeOK
  BY DEF IInv, TypeOK
<1>1. app[d].listening = d
  BY DEF Snapshot, Quiet
<1>2. PICK v \in View(d, d) : app' = [app EXCEPT
        ![d].raised = v,
        ![d].mainq = Append(@, [job |-> "snapshot", val |-> v])]
  BY <1>1 DEF Snapshot
<1>3. v \in Code \cup {"", " "}
  BY <1>0, ViewType
<1>4. PICK job \in MainJob : job = [job |-> "snapshot", val |-> v]
  BY <1>3 DEF MainJob
<1>5. PICK q : q = Append(app[d].mainq, job)
  OBVIOUS
<1>6. app'[d] = [app[d] EXCEPT !.raised = v, !.mainq = q]
  BY <1>0, <1>2, <1>4, <1>5
<1>7. /\ app'[d].connected = app[d].connected /\ app'[d].fetches = app[d].fetches
      /\ app'[d].raised = v /\ app'[d].mainq = q
  BY <1>0, <1>6 DEF App
<1>8. job.job = "snapshot" /\ job.val = v
  BY <1>4
<1>9. partner_code' = partner_code
  BY DEF Snapshot
<1> QED
  BY <1>5, <1>7, <1>8, <1>9 DEF SameScreen

(* The callback shows and stores what the snapshot had. *)
LEMMA CallbackEffect ==
  ASSUME IInv, NEW d \in Device, OnSnapshot(d)
  PROVE  LET q == app[d].mainq IN
         /\ q # << >> /\ Callback(q, 1) /\ q[1].val \in Code \cup {"", " "}
         /\ app'[d].mainq = Tail(q) /\ app'[d].raised = app[d].raised
         /\ q[1].val \in Code => /\ partner_code'[d] = q[1].val /\ app'[d].connected
         /\ q[1].val \notin Code => /\ partner_code'[d] = "" /\ ~app'[d].connected
                                    /\ app'[d].fetches = app[d].fetches
<1>0. /\ app \in [Device -> App] /\ app[d] \in App /\ app[d].mainq \in Seq(MainJob)
      /\ partner_code \in [Device -> Code \cup {nil, ""}]
  BY DEF IInv, TypeOK, App
<1>1. PICK q \in Seq(MainJob) : q = app[d].mainq
  BY <1>0
<1>2. q # << >>
  BY <1>1 DEF OnSnapshot
<1>3. 1 \in DOMAIN q /\ Head(q) = q[1]
  BY <1>2, JobRemoved
<1>4. q[1].val \in Code \cup {"", " "}
  BY <1>3, JobType
<1>5. PICK temp : temp = IF q[1].val # " " THEN q[1].val ELSE ""
  OBVIOUS
<1>6. PICK more : /\ app' = [app EXCEPT ![d].mainq = Tail(@), ![d].connected = (temp # ""),
                                       ![d].fetches = more]
                  /\ temp = "" => more = app[d].fetches
                  /\ partner_code' = [partner_code EXCEPT ![d] = temp]
  BY <1>0, <1>1, <1>3, <1>5 DEF OnSnapshot
<1>7. app'[d] = [app[d] EXCEPT !.mainq = Tail(app[d].mainq), !.connected = (temp # ""),
                               !.fetches = more]
  BY <1>0, <1>6
<1>8. /\ app'[d].mainq = Tail(q) /\ app'[d].raised = app[d].raised
      /\ app'[d].fetches = more
  BY <1>0, <1>1, <1>7 DEF App
<1>9. app'[d].connected = (temp # "")
  BY <1>0, <1>7 DEF App
<1>10. partner_code'[d] = temp
  BY <1>0, <1>6
<1>11. /\ q[1].val \in Code => temp = q[1].val /\ temp # ""
       /\ q[1].val \notin Code => temp = ""
  BY <1>4, <1>5, CodeAssumption
<1>12. Callback(q, 1)
  BY <1>1, <1>3 DEF OnSnapshot, Callback
<1> QED
  BY <1>1, <1>2, <1>4, <1>6, <1>8, <1>9, <1>10, <1>11, <1>12

(* didConnectedPartner shows the partner and stores nothing. *)
LEMMA ConnectedEffect ==
  ASSUME IInv, NEW d \in Device, DidConnectedPartner(d)
  PROVE  LET q == app[d].mainq IN
         /\ q # << >> /\ ~Callback(q, 1) /\ app'[d].mainq = Tail(q)
         /\ app'[d].raised = app[d].raised /\ app'[d].connected
         /\ partner_code' = partner_code
<1>0. /\ app \in [Device -> App] /\ app[d] \in App /\ app[d].mainq \in Seq(MainJob)
  BY DEF IInv, TypeOK, App
<1>1. app'[d] = [app[d] EXCEPT !.mainq = Tail(app[d].mainq), !.connected = TRUE,
                               !.fetches = app[d].fetches + 1]
  BY <1>0 DEF DidConnectedPartner
<1>2. app'[d].mainq = Tail(app[d].mainq) /\ app'[d].raised = app[d].raised
  BY <1>0, <1>1 DEF App
<1>3. app'[d].connected
  BY <1>0, <1>1 DEF App
<1>4. app[d].mainq # << >> /\ Head(app[d].mainq) = app[d].mainq[1]
  BY <1>0, JobRemoved DEF DidConnectedPartner
<1> QED
  BY <1>2, <1>3, <1>4 DEF DidConnectedPartner, Callback

(* The end of connectWithPartner stores the partner and may tell MainView. *)
LEMMA RememberEffect ==
  ASSUME IInv, NEW d \in Device, NEW t \in Attempt, attempt[t].dev = d, Remember(t)
  PROVE  /\ SameScreen(d) /\ app'[d].raised = app[d].raised /\ app'[d].fetches = app[d].fetches
         /\ partner_code'[d] = attempt[t].target /\ attempt[t].target \in Code
         /\ attempt[t].pc = "remember" /\ attempt'[t].pc = "success"
         /\ \/ SameMain(d)
            \/ \E job \in MainJob : /\ job.job = "didConnect" /\ job.val = attempt[t].target
                                    /\ app'[d].mainq = Append(app[d].mainq, job)
<1>0. /\ app \in [Device -> App] /\ app[d] \in App /\ attempt \in [Attempt -> Task]
      /\ partner_code \in [Device -> Code \cup {nil, ""}] /\ attempt[t] \in Task
  BY DEF IInv, TypeOK
<1>1. attempt[t].pc = "remember"
  BY DEF Remember
<1>2. attempt[t].target \in Code
  BY <1>1 DEF IInv, Tasks, Past
<1>3. PICK job \in MainJob : job = [job |-> "didConnect", val |-> attempt[t].target]
  BY <1>2 DEF MainJob
<1>4. PICK q : /\ app' = [app EXCEPT ![d].mainq = q]
               /\ q = app[d].mainq \/ q = Append(app[d].mainq, job)
  BY <1>0, <1>3 DEF Remember
<1>5. app'[d] = [app[d] EXCEPT !.mainq = q]
  BY <1>0, <1>4
<1>6. /\ app'[d].connected = app[d].connected /\ app'[d].raised = app[d].raised
      /\ app'[d].fetches = app[d].fetches /\ app'[d].mainq = q
  BY <1>0, <1>5 DEF App
<1>7. partner_code'[d] = attempt[t].target
  BY <1>0 DEF Remember
<1>8. attempt'[t] = [attempt[t] EXCEPT !.pc = "success"]
  BY <1>0 DEF Remember
<1>9. attempt'[t].pc = "success"
  BY <1>0, <1>8 DEF Task
<1>10. job.job = "didConnect" /\ job.val = attempt[t].target
  BY <1>3
<1> QED
  BY <1>1, <1>2, <1>4, <1>6, <1>7, <1>9, <1>10 DEF SameScreen, SameMain

(* A process that has just ended or begun knows nothing. *)
LEMMA Blank ==
  ASSUME IInv, NEW d \in Device, Ends(d) \/ Starts(d)
  PROVE  /\ app'[d].mainq = << >> /\ app'[d].raised = nil /\ app'[d].fetches = 0
         /\ ~app'[d].connected /\ partner_code'[d] = partner_code[d]
<1>1. app \in [Device -> App]
  BY DEF IInv, TypeOK
<1> QED
  BY <1>1 DEF Ends, Starts, Die, Process

-----------------------------------------------------------------------------
(* UserDefaults and the screen agree with the document *)

(* Only mates are stored, and only on a linked device. *)
LEMMA InformedStep ==
  ASSUME Undisturbed, AInv, [Next]_vars, NEW d \in Device
  PROVE  Informed(d)'
<1>0. /\ RInv /\ IInv /\ LInv /\ Sighted /\ Driven /\ Informed(d) /\ Backed(d) /\ Screen(d)
      /\ Quiet(d) /\ AddedOnce(d) /\ Effective(d)
  BY DEF AInv, CInv, RInv
<1>1. PICK q \in Seq(MainJob) : q = app[d].mainq
  BY <1>0 DEF IInv, TypeOK, App
<1>2. PICK r : r = app'[d].mainq
  OBVIOUS
<1>3. /\ partner_code[d] \in Code => Mate(d, partner_code[d]) /\ Linked(d)
      /\ \A i \in DOMAIN q : q[i].val \in Code => Mate(d, q[i].val)
  BY <1>0, <1>1 DEF Informed, Good
<1>4. ASSUME partner_code'[d] \in Code => Mate(d, partner_code'[d]) /\ Linked(d),
             \A i \in DOMAIN r : r[i].val \in Code => Mate(d, r[i].val)
      PROVE  Informed(d)'
  <2>1. Linked(d) => Linked(d)'
    BY <1>0, LinkedStays
  <2>2. \A v : Mate(d, v) => Mate(d, v)'
    BY <1>0, MateStays
  <2>3. partner_code'[d] \in Code => Mate(d, partner_code[d])' /\ Linked(d)'
    <3>1. PICK v : v = partner_code'[d]
      OBVIOUS
    <3>2. v \in Code => Mate(d, v)'
      BY <1>4, <2>2, <3>1
    <3> QED
      BY <1>4, <2>1, <3>1, <3>2 DEF Mate
  <2>4. ASSUME NEW i \in DOMAIN r, r[i].val \in Code
        PROVE  Mate(d, app[d].mainq[i].val)'
    <3>1. PICK v : v = r[i].val
      OBVIOUS
    <3>2. Mate(d, v)'
      BY <1>4, <2>2, <2>4, <3>1
    <3> QED
      BY <1>2, <3>1, <3>2 DEF Mate
  <2> QED
    BY <1>2, <2>3, <2>4 DEF Informed, Good
<1>5. CASE Keeps(d)
  BY <1>1, <1>2, <1>3, <1>4, <1>5 DEF Keeps, SameMain
<1>6. CASE Ends(d) \/ Starts(d)
  BY <1>0, <1>2, <1>3, <1>4, <1>6, Blank, NoIndex
<1>7. CASE Snapshot(d)
  <2>1. PICK v \in View(d, d), job \in MainJob : job.val = v /\ r = Append(q, job)
    BY <1>0, <1>1, <1>2, <1>7, SnapshotEffect
  <2>2. v \in Code => Mate(d, v)
    BY <1>0, ViewMate
  <2>3. \A i \in DOMAIN r : r[i] = job \/ (i \in DOMAIN q /\ r[i] = q[i])
    BY <2>1, JobAdded
  <2>4. partner_code' = partner_code
    BY <1>0, <1>7, SnapshotEffect
  <2> QED
    BY <1>3, <1>4, <2>1, <2>2, <2>3, <2>4
<1>8. ASSUME q # << >>, r = Tail(q)
      PROVE  /\ 1 \in DOMAIN q /\ \A i \in DOMAIN r : r[i].val \in Code => Mate(d, r[i].val)
  BY <1>3, <1>8, JobRemoved
<1>9. CASE OnSnapshot(d)
  <2>1. /\ q # << >> /\ r = Tail(q)
        /\ q[1].val \in Code => partner_code'[d] = q[1].val
        /\ q[1].val \notin Code => partner_code'[d] = ""
    BY <1>0, <1>1, <1>2, <1>9, CallbackEffect
  <2>2. q[1].val \in Code => Mate(d, q[1].val) /\ Linked(d)
    BY <1>0, <1>1, <1>3, <1>8, <2>1 DEF Backed, NoneGood, Good
  <2> QED
    BY <1>4, <1>8, <2>1, <2>2, CodeAssumption
<1>10. CASE DidConnectedPartner(d)
  <2>1. q # << >> /\ r = Tail(q) /\ partner_code' = partner_code
    BY <1>0, <1>1, <1>2, <1>10, ConnectedEffect
  <2> QED
    BY <1>3, <1>4, <1>8, <2>1
<1>11. ASSUME NEW t \in Attempt, attempt[t].dev = d, Remember(t)
       PROVE  Informed(d)'
  <2>1. /\ partner_code'[d] = attempt[t].target /\ attempt[t].pc = "remember"
        /\ \/ r = q
           \/ \E job \in MainJob : job.val = attempt[t].target /\ r = Append(q, job)
    BY <1>0, <1>1, <1>2, <1>11, RememberEffect DEF SameMain
  <2>2. Mate(d, attempt[t].target) /\ Linked(d)
    BY <1>0, <1>11, <2>1, TaskMate DEF Driven, Past
  <2>3. ASSUME NEW job \in MainJob, job.val = attempt[t].target, r = Append(q, job)
        PROVE  \A i \in DOMAIN r : r[i] = job \/ (i \in DOMAIN q /\ r[i] = q[i])
    BY <2>3, JobAdded
  <2>4. \A i \in DOMAIN r : r[i].val \in Code => Mate(d, r[i].val)
    BY <1>3, <2>1, <2>2, <2>3
  <2> QED
    BY <1>4, <2>1, <2>2, <2>4
<1> QED
  BY <1>0, <1>5, <1>6, <1>7, <1>9, <1>10, <1>11, KnowledgeStep

(* What the listener was told arrives. *)
LEMMA ReportedStep ==
  ASSUME AInv, [Next]_vars, NEW d \in Device
  PROVE  Reported(d)'
<1>0. /\ RInv /\ IInv /\ LInv /\ Sighted /\ Reported(d) /\ Screen(d) /\ Quiet(d)
  BY DEF AInv, CInv, RInv
<1>1. PICK q \in Seq(MainJob) : q = app[d].mainq
  BY <1>0 DEF IInv, TypeOK, App
<1>2. PICK r : r = app'[d].mainq
  OBVIOUS
<1>3. app[d].raised # nil =>
        /\ partner_code[d] # nil \/ \E i \in DOMAIN q : Callback(q, i)
        /\ app[d].raised \in Code => \/ app[d].connected /\ partner_code[d] \in Code
                                     \/ \E i \in DOMAIN q : Callback(q, i) /\ Good(q, i)
  BY <1>0, <1>1 DEF Reported
<1>4. ASSUME app'[d].raised # nil =>
        /\ partner_code'[d] # nil \/ \E i \in DOMAIN r : Callback(r, i)
        /\ app'[d].raised \in Code => \/ app'[d].connected /\ partner_code'[d] \in Code
                                      \/ \E i \in DOMAIN r : Callback(r, i) /\ Good(r, i)
      PROVE  Reported(d)'
  BY <1>2, <1>4 DEF Reported
<1>5. CASE Keeps(d)
  BY <1>1, <1>2, <1>3, <1>4, <1>5 DEF Keeps, SameMain, SameScreen
<1>6. CASE Ends(d) \/ Starts(d)
  BY <1>0, <1>4, <1>6, Blank
<1>7. CASE Snapshot(d)
  <2>1. PICK v \in View(d, d), job \in MainJob :
          /\ job.job = "snapshot" /\ job.val = v /\ app'[d].raised = v
          /\ r = Append(q, job)
    BY <1>0, <1>1, <1>2, <1>7, SnapshotEffect
  <2>2. Len(q) + 1 \in DOMAIN r /\ r[Len(q) + 1] = job
    BY <2>1, JobAdded
  <2>3. Callback(r, Len(q) + 1) /\ (v \in Code => Good(r, Len(q) + 1))
    BY <2>1, <2>2 DEF Callback, Good
  <2> QED
    BY <1>4, <2>1, <2>2, <2>3
<1>8. ASSUME q # << >>, r = Tail(q), NEW i \in DOMAIN q, i # 1
      PROVE  \E k \in DOMAIN r : /\ Callback(q, i) => Callback(r, k)
                                 /\ Good(q, i) => Good(r, k)
  <2>1. PICK k \in DOMAIN r : r[k] = q[i]
    BY <1>8, JobRemoved
  <2> QED
    BY <2>1 DEF Callback, Good
<1>9. CASE OnSnapshot(d)
  <2>1. /\ q # << >> /\ r = Tail(q) /\ app'[d].raised = app[d].raised
        /\ q[1].val \in Code => partner_code'[d] = q[1].val /\ app'[d].connected
        /\ q[1].val \notin Code => partner_code'[d] = ""
    BY <1>0, <1>1, <1>2, <1>9, CallbackEffect
  <2>2. partner_code'[d] # nil
    BY <2>1, CodeAssumption DEF nil
  <2>3. 1 \in DOMAIN q /\ Head(q) = q[1]
    BY <2>1, JobRemoved
  <2>4. CASE q[1].val \in Code
    BY <1>4, <2>1, <2>2, <2>4
  <2>5. CASE q[1].val \notin Code
    <3>1. ~app[d].connected /\ ~Good(q, 1)
      BY <1>0, <1>1, <2>3, <2>5 DEF Screen, AllGood, Good
    <3>2. app[d].raised # nil /\ app[d].raised \in Code =>
            \E k \in DOMAIN r : Callback(r, k) /\ Good(r, k)
      BY <1>3, <1>8, <2>1, <3>1
    <3> QED
      BY <1>4, <2>1, <2>2, <3>2
  <2> QED
    BY <2>4, <2>5
<1>10. CASE DidConnectedPartner(d)
  <2>1. /\ q # << >> /\ r = Tail(q) /\ app'[d].raised = app[d].raised /\ ~Callback(q, 1)
        /\ partner_code' = partner_code /\ app'[d].connected
    BY <1>0, <1>1, <1>2, <1>10, ConnectedEffect
  <2>2. \A i \in DOMAIN q : Callback(q, i) =>
          \E k \in DOMAIN r : Callback(r, k) /\ (Good(q, i) => Good(r, k))
    BY <1>8, <2>1
  <2> QED
    BY <1>3, <1>4, <2>1, <2>2
<1>11. ASSUME NEW t \in Attempt, attempt[t].dev = d, Remember(t)
       PROVE  Reported(d)'
  <2>1. /\ partner_code'[d] = attempt[t].target /\ attempt[t].target \in Code
        /\ app'[d].raised = app[d].raised /\ app'[d].connected = app[d].connected
        /\ r = q \/ \E job \in MainJob : r = Append(q, job)
    BY <1>0, <1>1, <1>2, <1>11, RememberEffect DEF SameMain, SameScreen
  <2>2. \A i \in DOMAIN q : i \in DOMAIN r /\ r[i] = q[i]
    BY <2>1, JobAdded
  <2>3. \A i \in DOMAIN q : i \in DOMAIN r /\ (Callback(q, i) => Callback(r, i))
                            /\ (Good(q, i) => Good(r, i))
    BY <2>2 DEF Callback, Good
  <2> QED
    BY <1>3, <1>4, <2>1, <2>3, CodeAssumption
<1> QED
  BY <1>0, <1>5, <1>6, <1>7, <1>9, <1>10, <1>11, KnowledgeStep

(* Nobody knows anything in the initial state. *)
LEMMA InitAInv ==
  ASSUME Undisturbed, Init
  PROVE  AInv
<1>1. CInv /\ LInv
  BY InitCInv, LInvStep DEF Undisturbed, NothingRefused
<1>2. Sighted
  BY DEF Init, Idle, Sighted, Past
<1>3. ASSUME NEW d \in Device
      PROVE  Informed(d) /\ Reported(d)
  <2>1. app[d] = Process(FALSE, "none", "off") /\ partner_code[d] = nil
    BY DEF Init
  <2>2. app[d].mainq = << >> /\ app[d].raised = nil
    BY <2>1 DEF Process
  <2>3. partner_code[d] \notin Code
    BY <2>1, CodeAssumption
  <2> QED
    BY <2>2, <2>3, NoIndex DEF Informed, Reported
<1> QED
  BY <1>1, <1>2, <1>3 DEF AInv

(* AInv is inductive where nothing disturbs the writes. *)
LEMMA AInvStep ==
  ASSUME Undisturbed, AInv, [Next]_vars
  PROVE  AInv'
<1>1. CInv' /\ LInv' /\ Sighted'
  BY CInvStep, LInvStep, SightedStep DEF AInv, CInv, Undisturbed, NothingRefused
<1>2. \A d \in Device : Informed(d)' /\ Reported(d)'
  BY InformedStep, ReportedStep
<1> QED
  BY <1>1, <1>2 DEF AInv

(* It makes UserDefaults and the screen agree with the document, where the *)
(* partner can only be one.                                                *)
LEMMA AgreesLocally ==
  ASSUME AInv, Faithful
  PROVE  LocalAgrees
<1>0. IInv /\ LInv
  BY DEF AInv, LInv, RInv
<1> SUFFICES ASSUME AtRest, NEW d \in Device,
                    app[d].raised = users[d].partner_code, app[d].mainq = << >>
             PROVE  /\ partner_code[d] = Shown(users[d].partner_code)
                    /\ app[d].connected = (Shown(users[d].partner_code) # "")
  BY DEF LocalAgrees
<1>1. Informed(d) /\ Reported(d) /\ Backed(d)
  BY DEF AInv, CInv
<1>2. /\ users[d].partner_code \in Code \cup {"", " "} /\ app[d].connected \in BOOLEAN
      /\ partner_code[d] \in Code \cup {nil, ""}
  BY <1>0 DEF IInv, TypeOK, User, App
<1>3. users[d].partner_code # nil
  BY <1>2, CodeAssumption DEF nil
<1>4. ~ \E i : i \in DOMAIN app[d].mainq
  BY NoIndex
<1>5. partner_code[d] # nil
  BY <1>1, <1>3, <1>4 DEF Reported
<1>6. CASE users[d].partner_code \in Code
  <2>1. app[d].connected /\ partner_code[d] \in Code
    BY <1>1, <1>3, <1>4, <1>6 DEF Reported
  <2>2. partner_code[d] = users[d].partner_code
    BY <1>0, <1>1, <1>6, <2>1, ServerMate DEF Informed, Faithful
  <2>3. Shown(users[d].partner_code) = users[d].partner_code /\ users[d].partner_code # ""
    BY <1>6, CodeAssumption DEF Shown
  <2> QED
    BY <2>1, <2>2, <2>3
<1>7. CASE users[d].partner_code \notin Code
  <2>1. DOMAIN queue[d] = {}
    BY NoIndex DEF AtRest
  <2>2. ~Linked(d)
    BY <1>7, <2>1 DEF Linked
  <2>3. partner_code[d] = "" /\ ~app[d].connected
    BY <1>1, <1>2, <1>5, <2>2 DEF Informed, Backed
  <2>4. Shown(users[d].partner_code) = ""
    BY <1>2, <1>7 DEF Shown
  <2> QED
    BY <1>2, <2>3, <2>4
<1> QED
  BY <1>6, <1>7

(* When nothing is under way, UserDefaults and the screen say what the own *)
(* document says, although connectWithPartner and the listener write both  *)
(* without coordination: for any number of devices, codes and taps, with   *)
(* crashes, failing and offline lookups, as long as nobody typed, or had   *)
(* typed by another, the codes of two others.                              *)
THEOREM FaithfulAgree == Undisturbed => (Spec => [](Faithful => LocalAgrees))
<1> SUFFICES ASSUME Undisturbed PROVE Spec => [](Faithful => LocalAgrees)
  OBVIOUS
<1>1. Init => AInv
  BY InitAInv
<1>2. AInv /\ [Next]_vars => AInv'
  BY AInvStep
<1>3. AInv => (Faithful => LocalAgrees)
  BY AgreesLocally
<1> QED
  BY <1>1, <1>2, <1>3, PTL DEF Spec

(* A couple's two devices, and no third one. *)
TwoDevices == \A x, y, z \in Device : x # z /\ y # z => x = y

(* Two devices are faithful. *)
LEMMA TwoFaithful ==
  ASSUME TwoDevices, IInv
  PROVE  Faithful
<1> SUFFICES ASSUME NEW d \in Device, NEW v \in Code, NEW w \in Code, Mate(d, v), Mate(d, w)
             PROVE  v = w
  BY DEF Faithful
<1>1. ASSUME NEW a, NEW b, Agreed(a, b)
      PROVE  a # b
  BY <1>1 DEF Agreed, Asked
<1>2. PICK y \in Device, z \in Device : code[y] = v /\ code[z] = w
  BY DEF Mate
<1>3. y # d /\ z # d
  BY <1>1, <1>2 DEF Mate
<1> QED
  BY <1>2, <1>3 DEF TwoDevices

(* Two devices always agree with their documents, however often and on     *)
(* whichever of them a code is typed.                                      *)
THEOREM LocalAlwaysAgrees == Undisturbed /\ TwoDevices => (Spec => []LocalAgrees)
<1> SUFFICES ASSUME Undisturbed, TwoDevices PROVE Spec => []LocalAgrees
  OBVIOUS
<1>1. IInv => Faithful
  BY TwoFaithful
<1>2. Undisturbed
  OBVIOUS
<1> QED
  BY <1>1, <1>2, FaithfulAgree, Invariance, PTL

-----------------------------------------------------------------------------
(* The two halves of a couple.  connectWithPartner writes them one after   *)
(* the other: the second follows the first unless the process ends between *)
(* the two, and then the task that was interrupted can be named.           *)

(* The document of y has the partner v, or a queued write gives it to it. *)
Bound(y, v) ==
  users[y].partner_code = v \/ \E e \in Device : Queued(e, Update(y, v))

(* A task that writes has looked the partner's document up: the lookup     *)
(* failed, or the document is on the server.                               *)
Equipped ==
  \A t \in Attempt : LET a == attempt[t] IN
    a.pc \in {"writeOwn", "writePartner"} =>
      a.partnerId = "" \/ (a.partnerId \in Device /\ users[a.partnerId].code # nil)

(* An update of another's document finds it on the server. *)
Foreign ==
  \A e \in Device, m \in Mutation :
    Queued(e, m) /\ m.op = "update" /\ m.doc # e => users[m.doc].code # nil

(* A task of x is about to bind the partner v. *)
Pending(x, v) ==
  \E t \in Attempt : /\ attempt[t].dev = x /\ attempt[t].target = v
                     /\ attempt[t].pc = "writePartner"

(* A bound document's partner is bound to it, or will be, or the process   *)
(* that was to do it has ended.                                            *)
Mutual ==
  \A x, y \in Device : code[y] # nil /\ Bound(x, code[y]) =>
    Bound(y, code[x]) \/ Pending(x, code[y]) \/ Interrupted(x, code[y])

MInv == AInv /\ Equipped /\ Foreign /\ (Faithful => Mutual)

-----------------------------------------------------------------------------
(* Bonds *)

(* The parts of an update, and an update from its parts. *)
LEMMA UpdateParts ==
  ASSUME NEW y \in Device, NEW v \in Code
  PROVE  /\ Update(y, v) \in Mutation
         /\ Update(y, v).op = "update" /\ Update(y, v).doc = y /\ Update(y, v).val = v
         /\ \A m \in Mutation : m.op = "update" /\ m.doc = y /\ m.val = v => m = Update(y, v)
BY DEF Update, Mutation

(* Who is bound is bound to a mate. *)
LEMMA BoundMate ==
  ASSUME LInv, NEW y \in Device, NEW v \in Code, Bound(y, v)
  PROVE  Mate(y, v)
<1>1. CASE users[y].partner_code = v
  BY <1>1, ServerMate
<1>2. ASSUME NEW e \in Device, Queued(e, Update(y, v))
      PROVE  Mate(y, v)
  <2>1. PICK i \in DOMAIN queue[e] : queue[e][i] = Update(y, v)
    BY <1>2 DEF Queued
  <2> QED
    BY <2>1, UpdateParts, QueuedMate
<1> QED
  BY <1>1, <1>2 DEF Bound

(* A bond lasts where the partner can only be one. *)
LEMMA BoundStays ==
  ASSUME Undisturbed, AInv, Foreign, Faithful, [Next]_vars,
         NEW y \in Device, NEW v \in Code, Bound(y, v)
  PROVE  Bound(y, v)'
<1>0. /\ RInv /\ IInv /\ LInv /\ TypeOK /\ Documents /\ OwnAdds
      /\ users \in [Device -> User] /\ users[y] \in User
      /\ AddedOnce(y) /\ Effective(y)
  BY DEF AInv, CInv, RInv, IInv, TypeOK
<1>1. ASSUME users[y].partner_code = v
      PROVE  users'[y].partner_code = v
  <2>1. users[y].code # nil
    BY <1>0, <1>1, CodeAssumption DEF Documents
  <2>2. ASSUME NEW e \in Device, Applies(e)
        PROVE  users'[y].partner_code = v
    <3>1. PICK m \in Mutation : m = Head(queue[e]) /\ Queued(e, m) /\ users' = Applied(m)
      BY <1>0, <2>2, HeadQueued DEF Applies
    <3>2. PICK i \in DOMAIN queue[e] : queue[e][i] = m
      BY <3>1 DEF Queued
    <3>3. m.op \in {"add", "update"} /\ m.doc \in Device /\ m.val \in Code
      BY DEF Mutation
    <3>4. CASE m.doc # y
      BY <1>0, <1>1, <3>1, <3>3, <3>4 DEF Applied, User
    <3>5. m.op = "add" => m.doc # y
      BY <1>0, <2>1, <3>1, <3>2 DEF OwnAdds, AddedOnce
    <3>6. CASE m.op = "update" /\ m.doc = y
      <4>1. Mate(y, m.val) /\ Mate(y, v)
        BY <1>0, <1>1, <3>2, <3>6, QueuedMate, ServerMate
      <4>2. m.val = v
        BY <3>3, <4>1 DEF Faithful
      <4> QED
        BY <1>0, <2>1, <3>1, <3>6, <4>2 DEF Applied, User
    <3> QED
      BY <3>3, <3>4, <3>5, <3>6
  <2> QED
    BY <1>0, <1>1, <2>2, UsersStay
<1>2. ASSUME NEW e \in Device, Queued(e, Update(y, v))
      PROVE  users'[y].partner_code = v \/ Queued(e, Update(y, v))'
  <2>1. PICK m \in Mutation : m = Update(y, v) /\ m.op = "update" /\ m.doc = y /\ m.val = v
    BY UpdateParts
  <2>2. PICK i \in DOMAIN queue[e] : queue[e][i] = m
    BY <1>2, <2>1 DEF Queued
  <2>3. ASSUME NEW k \in DOMAIN queue'[e], queue'[e][k] = m
        PROVE  Queued(e, Update(y, v))'
    BY <2>1, <2>3 DEF Queued, Update
  <2>4. CASE Commit(e)
    <3>1. /\ queue[e] \in Seq(Mutation) /\ Len(queue[e]) \in Nat /\ Len(queue[e]) >= 1
          /\ DOMAIN queue[e] = 1 .. Len(queue[e])
          /\ DOMAIN queue'[e] = 1 .. (Len(queue[e]) - 1)
          /\ \A k \in DOMAIN queue'[e] : queue'[e][k] = queue[e][k + 1]
      BY <1>0, <2>4, CommitEffect
    <3>2. CASE i = 1
      <4>1. Head(queue[e]) = m
        BY <2>2, <3>1, <3>2
      <4>2. users' = Applied(m)
        BY <2>4, <4>1 DEF Commit
      <4>3. e = y => LinksOwn(y, i)
        BY <2>1, <2>2 DEF LinksOwn
      <4>4. \A j \in DOMAIN queue[e] : ~(j < i)
        BY <3>1, <3>2
      <4>5. users[y].code # nil
        BY <1>0, <1>2, <2>1, <2>2, <4>3, <4>4 DEF Effective, Foreign
      <4> QED
        BY <1>0, <2>1, <4>2, <4>5 DEF Applied, User
    <3>3. CASE i # 1
      <4>1. i - 1 \in DOMAIN queue'[e] /\ (i - 1) + 1 = i
        BY <3>1, <3>3
      <4>2. queue'[e][i - 1] = queue[e][(i - 1) + 1]
        BY <3>1, <4>1
      <4> QED
        BY <2>2, <2>3, <4>1, <4>2
    <3> QED
      BY <3>2, <3>3
  <2>5. CASE ~Commit(e)
    <3>1. queue'[e] = queue[e] \/ \E n \in Mutation : queue'[e] = Append(queue[e], n)
      BY <1>0, <2>5, NoCommit, SavedCode
    <3>2. i \in DOMAIN queue'[e] /\ queue'[e][i] = queue[e][i]
      BY <1>0, <3>1, AppendEffect
    <3> QED
      BY <2>2, <2>3, <3>2
  <2> QED
    BY <2>4, <2>5
<1> QED
  BY <1>1, <1>2 DEF Bound

(* A new bond is the write of a task. *)
LEMMA BoundBefore ==
  ASSUME IInv, [Next]_vars, NEW x \in Device, NEW v \in Code, Bound(x, v)'
  PROVE  \/ Bound(x, v)
         \/ \E t \in Attempt :
              WriteOwn(t) /\ attempt[t].ownId = x /\ attempt[t].target = v
         \/ \E t \in Attempt :
              WritePartner(t) /\ attempt[t].partnerId = x /\ code[attempt[t].dev] = v
<1>0. TypeOK /\ users \in [Device -> User] /\ users[x] \in User
  BY DEF IInv, TypeOK
<1>1. PICK m \in Mutation : m = Update(x, v) /\ m.op = "update" /\ m.doc = x /\ m.val = v
  BY UpdateParts
<1>2. ASSUME users'[x].partner_code = v
      PROVE  Bound(x, v)
  <2>1. ASSUME NEW e \in Device, Applies(e)
        PROVE  Bound(x, v)
    <3>1. PICK n \in Mutation : n = Head(queue[e]) /\ Queued(e, n) /\ users' = Applied(n)
      BY <1>0, <2>1, HeadQueued DEF Applies
    <3>2. n.op \in {"add", "update"} /\ n.doc \in Device /\ n.val \in Code
      BY DEF Mutation
    <3>3. \/ users[x].partner_code = v
          \/ n.op = "update" /\ n.doc = x /\ n.val = v
      BY <1>0, <1>2, <3>1, <3>2, CodeAssumption DEF Applied, User
    <3> QED
      BY <3>1, <3>3, UpdateParts DEF Bound
  <2> QED
    BY <1>0, <1>2, <2>1, UsersStay DEF Bound
<1>3. ASSUME NEW e \in Device, Queued(e, m)'
      PROVE  \/ Queued(e, m)
             \/ \E t \in Attempt :
                  WriteOwn(t) /\ attempt[t].ownId = x /\ attempt[t].target = v
             \/ \E t \in Attempt :
                  WritePartner(t) /\ attempt[t].partnerId = x /\ code[attempt[t].dev] = v
  <2>1. ASSUME NEW y, NEW w, m = Update(y, w)
        PROVE  y = x /\ w = v
    BY <1>1, <2>1 DEF Update
  <2>2. m # Add(e, code[e])
    BY <1>1 DEF Add
  <2>3. ASSUME NEW t \in Attempt, attempt[t].dev = e,
               WriteOwn(t), m = Update(attempt[t].ownId, attempt[t].target)
        PROVE  WriteOwn(t) /\ attempt[t].ownId = x /\ attempt[t].target = v
    BY <2>1, <2>3
  <2>4. ASSUME NEW t \in Attempt, attempt[t].dev = e,
               WritePartner(t), m = Update(attempt[t].partnerId, code[e])
        PROVE  WritePartner(t) /\ attempt[t].partnerId = x /\ code[attempt[t].dev] = v
    BY <2>1, <2>4
  <2>5. \/ Queued(e, m)
        \/ SaveCode(e) /\ m = Add(e, code[e])
        \/ \E t \in Attempt :
             /\ attempt[t].dev = e
             /\ \/ /\ WriteOwn(t) /\ attempt[t].ownId # ""
                   /\ m = Update(attempt[t].ownId, attempt[t].target)
                \/ /\ WritePartner(t) /\ attempt[t].partnerId # ""
                   /\ m = Update(attempt[t].partnerId, code[e])
    BY <1>3, QueuedBefore
  <2> QED
    BY <2>2, <2>3, <2>4, <2>5, Zenon
<1>4. ASSUME NEW e \in Device, Queued(e, Update(x, v))'
      PROVE  Queued(e, m)'
  BY <1>1, <1>4 DEF Queued, Update
<1> QED
  BY <1>1, <1>2, <1>3, <1>4 DEF Bound

-----------------------------------------------------------------------------
(* What a task writes to *)

(* The partner's document stays where it was found. *)
LEMMA EquippedStep ==
  ASSUME RInv, Equipped, [Next]_vars
  PROVE  Equipped'
<1>0. IInv /\ TypeOK /\ Tasks /\ OwnAdds
  BY DEF RInv, IInv
<1> DEFINE Has(x) == x = "" \/ (x \in Device /\ users[x].code # nil)
<1> SUFFICES ASSUME NEW t \in Attempt, attempt'[t].pc \in {"writeOwn", "writePartner"}
             PROVE  \/ attempt'[t].partnerId = ""
                    \/ /\ attempt'[t].partnerId \in Device
                       /\ users'[attempt'[t].partnerId].code # nil
  BY DEF Equipped
<1> DEFINE a == attempt[t]
           b == attempt'[t]
<1>1. a \in Task /\ attempt \in [Attempt -> Task]
  BY <1>0 DEF TypeOK
<1>2. ASSUME NEW x, Has(x)
      PROVE  x = "" \/ (x \in Device /\ users'[x].code # nil)
  BY <1>0, <1>2, DocumentStays
<1>3. a.pc \in {"writeOwn", "writePartner"} => Has(a.partnerId)
  BY DEF Equipped
<1>4. ASSUME NEW x \in Matches(a.dev, a.target) \cup {""}, a.pc = "partnerId"
      PROVE  Has(x)
  <2>1. a.dev \in Device /\ a.target # nil /\ a.target # code[a.dev]
    BY <1>0, <1>4 DEF Tasks, Running
  <2> QED
    BY <1>0, <1>4, <2>1, FoundOnServer
<1>5. Has(b.partnerId)
  <2>1. CASE b = a
    BY <1>3, <2>1
  <2>2. ASSUME b = Dead(a)
        PROVE  FALSE
    BY <1>1, <2>2 DEF Dead, Task
  <2>3. CASE AttemptStep(t)
    <3>1. ASSUME NEW e, NEW c, NEW via, Confirm(t, e, c, via)
          PROVE  FALSE
      BY <1>1, <3>1 DEF Confirm, Idle
    <3>2. ASSUME CheckExisting(t) \/ FindOwn(t) \/ Remember(t)
          PROVE  FALSE
      <4>1. ASSUME CheckExisting(t)
            PROVE  b.pc \in {"invalidPartnerCode", "ownId"}
        <5>1. PICK pc \in {"invalidPartnerCode", "ownId"} :
                attempt' = [attempt EXCEPT ![t].pc = pc]
          BY <4>1 DEF CheckExisting
        <5> QED
          BY <1>1, <5>1 DEF Task
      <4>2. ASSUME FindOwn(t)
            PROVE  b.pc \in {"missing", "partnerId"}
        <5>1. ASSUME NEW x,
                     attempt' = [attempt EXCEPT ![t].ownId = x,
                                   ![t].pc = IF x = nil THEN "missing" ELSE "partnerId"]
              PROVE  b.pc \in {"missing", "partnerId"}
          BY <1>1, <5>1 DEF Task
        <5>2. ASSUME attempt' = [attempt EXCEPT ![t].pc = "partnerId", ![t].ownId = ""]
              PROVE  b.pc \in {"missing", "partnerId"}
          BY <1>1, <5>2 DEF Task
        <5> QED
          BY <4>2, <5>1, <5>2 DEF FindOwn
      <4>3. ASSUME Remember(t)
            PROVE  b.pc = "success"
        BY <1>1, <4>3 DEF Remember, Task
      <4> QED
        BY <3>2, <4>1, <4>2, <4>3
    <3>3. ASSUME FindMissing(t)
          PROVE  FALSE
      <4>1. b = Dead(a)
        BY <3>3 DEF FindMissing, Die, Running, Dead
      <4> QED
        BY <2>2, <4>1
    <3>4. CASE FindPartner(t)
      <4>1. ASSUME NEW found \in Answers(a.dev, a.target), NEW x \in FirstOf(found),
                   attempt' = [attempt EXCEPT ![t].partnerId = x,
                                 ![t].pc = IF x = nil THEN "missing" ELSE "writeOwn"]
            PROVE  x \in Matches(a.dev, a.target) /\ b.partnerId = x
        <5>1. b.partnerId = x /\ (x = nil => b.pc = "missing")
          BY <1>1, <4>1 DEF Task
        <5> QED
          BY <5>1, FirstFound
      <4>2. ASSUME attempt' = [attempt EXCEPT ![t].pc = "writeOwn", ![t].partnerId = ""]
            PROVE  b.partnerId = ""
        BY <1>1, <4>2 DEF Task
      <4> QED
        BY <1>4, <3>4, <4>1, <4>2 DEF FindPartner
    <3>5. CASE WriteOwn(t) \/ WritePartner(t)
      <4>1. a.pc \in {"writeOwn", "writePartner"}
        BY <3>5 DEF WriteOwn, WritePartner
      <4>2. ASSUME NEW id, NEW val, NEW next, QueueUpdate(t, id, val, next)
            PROVE  b.partnerId = a.partnerId
        <5>1. ASSUME attempt' = [attempt EXCEPT ![t].pc = next]
              PROVE  b.partnerId = a.partnerId
          BY <1>1, <5>1 DEF Task
        <5>2. ASSUME Die(a.dev, "path")
              PROVE  b = a \/ b = Dead(a)
          BY <5>2 DEF Die, Dead
        <5> QED
          BY <2>2, <4>2, <5>1, <5>2 DEF QueueUpdate
      <4> QED
        BY <1>3, <3>5, <4>1, <4>2 DEF WriteOwn, WritePartner
    <3> QED
      BY <2>3, <3>1, <3>2, <3>3, <3>4, <3>5 DEF AttemptStep
  <2> QED
    BY <1>0, <2>1, <2>2, <2>3, OtherTasks
<1> QED
  BY <1>2, <1>5

(* A task writes to its own document first. *)
LEMMA OwnIdIsOwn ==
  ASSUME IInv, Distinct, NEW t \in Attempt, attempt[t].ownId # "",
         attempt[t].pc \in {"partnerId", "writeOwn", "writePartner"}
  PROVE  attempt[t].dev \in Device /\ attempt[t].ownId = attempt[t].dev
BY DEF IInv, Ids, Tasks, Distinct

(* An update of another's document is the second write of a task. *)
LEMMA ForeignStep ==
  ASSUME RInv, Distinct, Equipped, Foreign, [Next]_vars
  PROVE  Foreign'
<1>0. IInv /\ IInv'
  BY RInvStep DEF RInv
<1> SUFFICES ASSUME NEW e \in Device, NEW m \in Mutation, Queued(e, m)',
                    m.op = "update", m.doc # e
             PROVE  users'[m.doc].code # nil
  BY DEF Foreign
<1>1. m.doc \in Device
  BY DEF Mutation
<1>2. m # Add(e, code[e])
  BY DEF Add
<1>3. ASSUME NEW t \in Attempt, attempt[t].dev = e, WriteOwn(t), attempt[t].ownId # "",
             m = Update(attempt[t].ownId, attempt[t].target)
      PROVE  FALSE
  <2>1. attempt[t].ownId = e
    BY <1>0, <1>3, OwnIdIsOwn DEF WriteOwn
  <2> QED
    BY <1>3, <2>1 DEF Update
<1>4. ASSUME NEW t \in Attempt, WritePartner(t), attempt[t].partnerId # "",
             m = Update(attempt[t].partnerId, code[e])
      PROVE  users[m.doc].code # nil
  <2>1. m.doc = attempt[t].partnerId
    BY <1>4 DEF Update
  <2> QED
    BY <1>4, <2>1 DEF WritePartner, Equipped
<1>5. \/ Queued(e, m)
      \/ SaveCode(e) /\ m = Add(e, code[e])
      \/ \E t \in Attempt :
           /\ attempt[t].dev = e
           /\ \/ /\ WriteOwn(t) /\ attempt[t].ownId # ""
                 /\ m = Update(attempt[t].ownId, attempt[t].target)
              \/ /\ WritePartner(t) /\ attempt[t].partnerId # ""
                 /\ m = Update(attempt[t].partnerId, code[e])
  BY <1>0, QueuedBefore
<1>6. users[m.doc].code # nil
  BY <1>2, <1>3, <1>4, <1>5 DEF Foreign
<1> QED
  BY <1>0, <1>1, <1>6, DocumentStays

(* A trace that an interrupted task has left stays. *)
LEMMA InterruptedStays ==
  ASSUME IInv, [Next]_vars, NEW x, NEW v, Interrupted(x, v)
  PROVE  Interrupted(x, v)'
<1>0. TypeOK
  BY DEF IInv
<1>1. PICK t \in Attempt : /\ attempt[t].dev = x /\ attempt[t].target = v
                          /\ attempt[t].pc = "dead" /\ attempt[t].partnerId # nil
  BY DEF Interrupted
<1>2. ~AttemptStep(t)
  BY <1>1 DEF AttemptStep, Confirm, CheckExisting, FindOwn, FindPartner, FindMissing,
              WriteOwn, WritePartner, Remember
<1>3. attempt'[t] = attempt[t]
  BY <1>0, <1>1, <1>2, OtherTasks DEF Running
<1> QED
  BY <1>1, <1>3 DEF Interrupted

(* A task between its two writes waits, writes or is interrupted. *)
LEMMA WriterStep ==
  ASSUME IInv, Equipped, [Next]_vars, NEW t \in Attempt, attempt[t].pc = "writePartner"
  PROVE  \/ attempt'[t] = attempt[t]
         \/ WritePartner(t) /\ attempt[t].partnerId \in Device
         \/ Interrupted(attempt[t].dev, attempt[t].target)'
<1>0. TypeOK /\ attempt[t] \in Task
  BY DEF IInv, TypeOK
<1>1. attempt[t].partnerId # nil
  BY NilAnswer DEF Equipped
<1>2. ASSUME attempt'[t] = Dead(attempt[t])
      PROVE  Interrupted(attempt[t].dev, attempt[t].target)'
  <2>1. /\ attempt'[t].dev = attempt[t].dev /\ attempt'[t].target = attempt[t].target
        /\ attempt'[t].pc = "dead" /\ attempt'[t].partnerId # nil
    BY <1>0, <1>1, <1>2 DEF Dead, Task
  <2> QED
    BY <2>1 DEF Interrupted
<1>3. CASE AttemptStep(t)
  <2>1. WritePartner(t)
    BY <1>3 DEF AttemptStep, Confirm, CheckExisting, FindOwn, FindPartner, FindMissing,
                WriteOwn, Remember
  <2>2. ASSUME attempt[t].partnerId = ""
        PROVE  attempt'[t] = Dead(attempt[t])
    BY <2>1, <2>2 DEF WritePartner, QueueUpdate, Die, Dead, Running
  <2>3. attempt[t].partnerId = "" \/ attempt[t].partnerId \in Device
    BY DEF Equipped
  <2> QED
    BY <1>2, <2>1, <2>2, <2>3
<1> QED
  BY <1>0, <1>2, <1>3, OtherTasks

-----------------------------------------------------------------------------
(* A partner's partner *)

(* The partner that a task has written is bound. *)
LEMMA SecondWrite ==
  ASSUME IInv, Distinct, Equipped, [Next]_vars, NEW t \in Attempt, WritePartner(t),
         attempt[t].partnerId \in Device, NEW y \in Device, code[y] = attempt[t].target
  PROVE  \E v \in Code : v = code[attempt[t].dev] /\ Bound(y, v)'
<1>0. TypeOK /\ Tasks /\ Ids /\ queue \in [Device -> Seq(Mutation)]
  BY DEF IInv, TypeOK
<1>1. attempt[t].pc = "writePartner" /\ attempt[t].partnerId # ""
  BY NilAnswer DEF WritePartner
<1>2. PICK d \in Device : d = attempt[t].dev /\ code[d] # nil /\ attempt[t].target # nil
  BY <1>0, <1>1 DEF Tasks
<1>3. attempt[t].partnerId = y
  <2>1. code[attempt[t].partnerId] = attempt[t].target
    BY <1>0, <1>1 DEF Ids
  <2> QED
    BY <1>1, <1>2, <2>1 DEF Distinct
<1>4. PICK v \in Code : v = code[d]
  BY <1>0, <1>2 DEF TypeOK
<1>5. queue' = [queue EXCEPT ![d] = Append(@, Update(y, v))]
  BY <1>1, <1>2, <1>3, <1>4 DEF WritePartner, QueueUpdate
<1>6. PICK m \in Mutation : m = Update(y, v)
  BY UpdateParts
<1>7. queue'[d] = Append(queue[d], m)
  BY <1>0, <1>2, <1>5, <1>6
<1>8. /\ Len(queue[d]) + 1 \in DOMAIN queue'[d]
      /\ queue'[d][Len(queue[d]) + 1] = m
  <2>1. /\ Len(queue[d]) \in Nat /\ DOMAIN queue'[d] = 1 .. (Len(queue[d]) + 1)
        /\ queue'[d][Len(queue[d]) + 1] = m
    BY <1>2, <1>7, AppendEffect
  <2> QED
    BY <2>1
<1>9. Queued(d, Update(y, v))'
  BY <1>6, <1>8 DEF Queued, Update
<1>10. Bound(y, v)'
  BY <1>2, <1>9 DEF Bound
<1> QED
  BY <1>2, <1>4, <1>10

(* Who is bound stays bound to somebody who is, or will be, bound to it. *)
LEMMA MutualStep ==
  ASSUME Undisturbed, MInv, [Next]_vars, Faithful
  PROVE  Mutual'
<1>0. /\ AInv /\ RInv /\ IInv /\ LInv /\ TypeOK /\ Tasks /\ Ids /\ Distinct /\ Equipped
      /\ Foreign /\ Sighted /\ Driven /\ Mutual
  BY DEF MInv, AInv, CInv, RInv, IInv
<1>D. Distinct' /\ LInv' /\ TypeOK' /\ IInv'
  BY <1>0, DistinctStep, LInvStep DEF Undisturbed, NothingRefused, LInv, RInv, IInv
<1> SUFFICES ASSUME NEW x \in Device, NEW y \in Device, code'[y] # nil, Bound(x, code[y])'
             PROVE  Bound(y, code[x])' \/ Pending(x, code[y])' \/ Interrupted(x, code[y])'
  BY DEF Mutual
<1>1. PICK v \in Code : v = code'[y]
  BY <1>D DEF TypeOK
<1>2. Bound(x, v)'
  BY <1>1 DEF Bound, Queued, Update
<1>3. ASSUME NEW w \in Code, w = code'[x],
             Bound(y, w)' \/ Pending(x, v)' \/ Interrupted(x, v)'
      PROVE  Bound(y, code[x])' \/ Pending(x, code[y])' \/ Interrupted(x, code[y])'
  BY <1>1, <1>3 DEF Bound, Queued, Update, Pending, Interrupted
<1>4. CASE Bound(x, v)
  <2>1. Mate(x, v)
    BY <1>0, <1>4, BoundMate
  <2>2. PICK w \in Code : w = code[x]
    BY <1>0, <2>1, MateCodes
  <2>3. w = code'[x]
    BY <1>0, <2>2, CodeStays, CodeAssumption
  <2>4. code[y] = v
    <3>1. PICK z \in Device : code[z] = v
      BY <2>1 DEF Mate
    <3>2. v # nil
      BY CodeAssumption
    <3>3. code'[z] = v
      BY <1>0, <3>1, <3>2, CodeStays
    <3> QED
      BY <1>1, <1>D, <3>1, <3>2, <3>3 DEF Distinct
  <2>5. CASE Bound(y, w)
    BY <1>0, <1>3, <2>2, <2>3, <2>5, BoundStays
  <2>6. ASSUME NEW t \in Attempt, attempt[t].dev = x, attempt[t].target = v,
               attempt[t].pc = "writePartner"
        PROVE  Bound(y, w)' \/ Pending(x, v)' \/ Interrupted(x, v)'
    <3>1. CASE attempt'[t] = attempt[t]
      BY <2>6, <3>1 DEF Pending
    <3>2. CASE WritePartner(t) /\ attempt[t].partnerId \in Device
      BY <1>0, <2>2, <2>4, <2>6, <3>2, SecondWrite
    <3>3. CASE Interrupted(attempt[t].dev, attempt[t].target)'
      BY <1>0, <2>6, <3>3, TaskStays DEF Interrupted
    <3> QED
      BY <1>0, <2>6, <3>1, <3>2, <3>3, WriterStep
  <2>7. CASE Interrupted(x, v)
    BY <1>0, <1>3, <2>2, <2>3, <2>7, InterruptedStays
  <2>8. Bound(y, w) \/ Pending(x, v) \/ Interrupted(x, v)
    BY <1>0, <1>4, <2>2, <2>4, CodeAssumption DEF Mutual
  <2> QED
    BY <1>3, <2>2, <2>3, <2>5, <2>6, <2>7, <2>8 DEF Pending
<1>5. ASSUME NEW t \in Attempt, WriteOwn(t), attempt[t].ownId = x, attempt[t].target = v
      PROVE  Bound(y, code[x])' \/ Pending(x, code[y])' \/ Interrupted(x, code[y])'
  <2>0. attempt \in [Attempt -> Task] /\ attempt[t] \in Task
    BY <1>0 DEF TypeOK
  <2>1. attempt[t].pc = "writeOwn" /\ attempt[t].ownId # "" /\ attempt[t].dev = x
    BY <1>0, <1>5, OwnIdIsOwn, NilAnswer DEF WriteOwn
  <2>2. attempt'[t] = [attempt[t] EXCEPT !.pc = "writePartner"]
    BY <2>0, <1>5, <2>1 DEF WriteOwn, QueueUpdate
  <2>3. /\ attempt'[t].dev = x /\ attempt'[t].target = v /\ attempt'[t].pc = "writePartner"
    BY <1>5, <2>0, <2>1, <2>2 DEF Task
  <2> QED
    BY <1>1, <2>3 DEF Pending
<1>6. ASSUME NEW t \in Attempt, WritePartner(t), attempt[t].partnerId = x,
             code[attempt[t].dev] = v
      PROVE  Bound(y, code[x])' \/ Pending(x, code[y])' \/ Interrupted(x, code[y])'
  <2>1. attempt[t].pc = "writePartner" /\ attempt[t].pc \in Past
    BY <1>6 DEF WritePartner, Past
  <2>2. attempt[t].dev \in Device /\ code[attempt[t].dev] # nil
    BY <1>0, <2>1 DEF Tasks
  <2>3. attempt[t].dev = y
    BY <1>0, <1>1, <1>6, <1>D, <2>2, CodeStays DEF Distinct
  <2>4. PICK w \in Code : w = attempt[t].target /\ w = code[x]
    BY <1>0, <1>6, <2>1, DeviceAssumption DEF Ids, Tasks
  <2>5. Mate(y, w)
    BY <1>0, <2>1, <2>3, <2>4, TaskMate
  <2>6. Linked(y)
    BY <1>0, <2>1, <2>3 DEF Driven
  <2>7. \E u \in Code : Bound(y, u)
    <3>1. ASSUME NEW i \in DOMAIN queue[y], LinksOwn(y, i)
          PROVE  queue[y][i].val \in Code /\ Queued(y, Update(y, queue[y][i].val))
      <4>1. PICK m \in Mutation : m = queue[y][i] /\ Queued(y, m)
        BY <1>0, QueueType
      <4>2. m.op = "update" /\ m.doc = y /\ m.val \in Code
        BY <3>1, <4>1 DEF LinksOwn, Mutation
      <4> QED
        BY <4>1, <4>2, UpdateParts
    <3> QED
      BY <2>6, <3>1 DEF Linked, Bound
  <2>8. Bound(y, w)
    BY <1>0, <2>5, <2>7, BoundMate DEF Faithful
  <2>9. Bound(y, w)'
    BY <1>0, <2>8, BoundStays
  <2>10. w = code'[x]
    BY <1>0, <2>4, CodeStays, CodeAssumption
  <2> QED
    BY <1>3, <2>9, <2>10
<1> QED
  BY <1>0, <1>2, <1>4, <1>5, <1>6, BoundBefore

(* Nothing is bound in the initial state. *)
LEMMA InitMInv ==
  ASSUME Undisturbed, Init
  PROVE  MInv
<1>1. AInv
  BY InitAInv
<1>2. Equipped
  BY DEF Init, Idle, Equipped
<1>3. \A d \in Device : DOMAIN queue[d] = {}
  BY NoIndex DEF Init
<1>4. Foreign
  BY <1>3 DEF Foreign, Queued
<1>5. Mutual
  BY DEF Init, Mutual
<1> QED
  BY <1>1, <1>2, <1>4, <1>5 DEF MInv

(* MInv is inductive where the server applies every write once. *)
LEMMA MInvStep ==
  ASSUME Undisturbed, MInv, [Next]_vars
  PROVE  MInv'
<1>0. AInv /\ CInv /\ RInv /\ IInv /\ Distinct /\ Equipped /\ Foreign
  BY DEF MInv, AInv, CInv, RInv
<1>1. AInv' /\ Equipped' /\ Foreign'
  BY <1>0, AInvStep, EquippedStep, ForeignStep
<1>2. Faithful' => Mutual'
  BY <1>0, FaithfulBefore, MutualStep
<1> QED
  BY <1>1, <1>2 DEF MInv

(* At rest, what is bound is written. *)
LEMMA MutualAtRest ==
  ASSUME MInv, Faithful
  PROVE  CoupleMutual
<1>0. TypeOK /\ Documents /\ Mutual
  BY DEF MInv, AInv, CInv, RInv, IInv
<1> SUFFICES ASSUME AtRest, NEW x \in Device, NEW y \in Device,
                    users[x].partner_code = users[y].code,
                    ~Interrupted(x, users[y].code)
             PROVE  users[y].partner_code = users[x].code
  BY DEF CoupleMutual
<1>1. users[x] \in User /\ users[y] \in User
  BY <1>0 DEF TypeOK
<1>2. users[y].code \in Code
  BY <1>1, CodeAssumption DEF User, nil
<1>3. users[y].code = code[y] /\ code[y] # nil
  BY <1>0, <1>2, CodeAssumption DEF Documents
<1>4. users[x].code = code[x]
  BY <1>0, <1>2, CodeAssumption DEF Documents
<1>5. Bound(x, code[y]) /\ ~Interrupted(x, code[y])
  BY <1>3 DEF Bound
<1>6. \A t \in Attempt : attempt[t].pc # "writePartner"
  BY DEF AtRest, Running
<1>7. Bound(y, code[x])
  BY <1>0, <1>3, <1>5, <1>6 DEF Mutual, Pending
<1>8. \A e \in Device : DOMAIN queue[e] = {}
  BY NoIndex DEF AtRest
<1> QED
  BY <1>4, <1>7, <1>8 DEF Bound, Queued

(* A partner's partner is me once the writes of connectWithPartner have    *)
(* arrived, although these are two updates of two documents in no          *)
(* transaction: for any number of devices, codes and taps, with offline    *)
(* and failed lookups, taps on both sides at once, kills and traps, as     *)
(* long as nobody typed, or had typed by another, the codes of two others  *)
(* and the server applies every write once.  Half a couple can only be     *)
(* what a process left that ended between the two writes of a task.        *)
THEOREM FaithfulMutual == Undisturbed => (Spec => [](Faithful => CoupleMutual))
<1> SUFFICES ASSUME Undisturbed PROVE Spec => [](Faithful => CoupleMutual)
  OBVIOUS
<1>1. Init => MInv
  BY InitMInv
<1>2. MInv /\ [Next]_vars => MInv'
  BY MInvStep
<1>3. MInv => (Faithful => CoupleMutual)
  BY MutualAtRest
<1> QED
  BY <1>1, <1>2, <1>3, PTL DEF Spec

(* Two devices become a couple both ways, or not at all, or one of them    *)
(* ended its process between the two writes of connectWithPartner.         *)
THEOREM CoupleAlwaysMutual == Undisturbed /\ TwoDevices => (Spec => []CoupleMutual)
<1> SUFFICES ASSUME Undisturbed, TwoDevices PROVE Spec => []CoupleMutual
  OBVIOUS
<1>1. IInv => Faithful
  BY TwoFaithful
<1>2. Undisturbed
  OBVIOUS
<1> QED
  BY <1>1, <1>2, FaithfulMutual, Invariance, PTL
=============================================================================
