-------------------------------- MODULE Chat --------------------------------
(***************************************************************************)
(* The comments a couple exchanges: CommentInputView.sendMessage adds a    *)
(* document to the Firestore collection "message", messageData listens to  *)
(* the whole collection, ordered by timestamp, and appends the added       *)
(* documents that concern the user to the list MessageListView shows.      *)
(*                                                                         *)
(* The timestamp is what the wall clock of the sender's device says: the   *)
(* clocks of two devices may differ, and one may be set back between two   *)
(* comments.  The order of the query holds inside one snapshot only: what  *)
(* a later one adds is appended, whatever its timestamp.                   *)
(*                                                                         *)
(* CommentsView disappears while the picker is open; when it comes back it *)
(* has a new messageData with an empty list and a new listener (the old    *)
(* ones are never removed).                                                *)
(*                                                                         *)
(* Each tap on the button is a task of its own, and sendMessage is bound   *)
(* to no actor: the steps of two tasks and of the user's typing may        *)
(* interleave.  Where the compiler keeps such a function on the main       *)
(* queue, its steps follow one another, which is a special case.           *)
(***************************************************************************)
EXTENDS Naturals, Sequences, SequencesExt

CONSTANTS
  User,     \* users, by their code
  Send,     \* taps on the button; each adds one document
  Text,     \* what a user may type
  Time,     \* what Date() may be on a device
  MaxOpen,  \* bound: how often CommentsView appears, per user
  MaxLink,  \* bound: changes of partner_code, per user
  MaxRefused \* bound: documents the server refuses

ASSUME ChatAssumption ==
  /\ "" \notin User /\ "" \notin Text /\ IsFiniteSet(Send)
  /\ Time \subseteq Nat
  /\ MaxOpen \in Nat /\ MaxLink \in Nat /\ MaxRefused \in Nat

VARIABLES
  comment,       \* the text field of each user, one per life of CommentsView
  partner_code,  \* UserDefaults "partner_code"
  task,          \* the sendMessage tasks and the documents they make
  outbox,        \* Firestore's queue of addDocument writes of each user
  message,       \* the documents of the collection on the server
  known,         \* the documents of the server in each client's cache
  open,          \* is CommentsView on the screen?
  told,          \* the documents the listener of messageData was told
  messages,      \* messageData.messages, oldest first
  typed,         \* texts typed while no task of the user ran (history)
  opens, links   \* bounds

vars == <<comment, partner_code, task, outbox, message, known, open,
          told, messages, typed, opens, links>>

(* `before` is a history variable: what the sender had sent or had on the  *)
(* screen when the button was tapped.                                      *)
Document == [pc : {"unused", "tapped", "composed", "added", "done"},
             life : Nat,  \* of the CommentsView that was tapped
             from : User \cup {""}, to : User \cup {""}, text : Text \cup {""},
             timestamp : Nat, refused : BOOLEAN, before : SUBSET Send]

(* One type for each variable. *)
TypeOK ==
  /\ comment \in [User -> [0..MaxOpen -> Text \cup {""}]]
  /\ partner_code \in [User -> User \cup {""}]
  /\ task \in [Send -> Document]
  /\ outbox \in [User -> Seq(Send)]
  /\ message \in SUBSET Send
  /\ known \in [User -> SUBSET Send]
  /\ open \in [User -> BOOLEAN]
  /\ told \in [User -> SUBSET Send]
  /\ messages \in [User -> Seq(Send)]
  /\ typed \in [User -> SUBSET Text]
  /\ opens \in [User -> Nat] /\ links \in [User -> Nat]

Unused == [pc |-> "unused", life |-> 0, from |-> "", to |-> "", text |-> "",
           timestamp |-> 0, refused |-> FALSE, before |-> {}]

Init ==
  /\ comment = [u \in User |-> [n \in 0..MaxOpen |-> ""]]
  /\ partner_code = [u \in User |-> ""]
  /\ task = [s \in Send |-> Unused]
  /\ outbox = [u \in User |-> <<>>]
  /\ message = {}
  /\ known = [u \in User |-> {}]
  /\ open = [u \in User |-> FALSE]
  /\ told = [u \in User |-> {}]
  /\ messages = [u \in User |-> <<>>]
  /\ typed = [u \in User |-> {}]
  /\ opens = [u \in User |-> 0] /\ links = [u \in User |-> 0]

-----------------------------------------------------------------------------
(* The screen *)

(* Pairing: the user gets a partner, or another one. *)
Linked(u, p) ==
  /\ u # p /\ partner_code[u] # p
  /\ links[u] < MaxLink
  /\ partner_code' = [partner_code EXCEPT ![u] = p]
  /\ links' = [links EXCEPT ![u] = @ + 1]
  /\ UNCHANGED <<comment, task, outbox, message, known, open, told,
                 messages, typed, opens>>

(* CommentsView appears: new state, and a new messageData that listens. *)
Open(u) ==
  /\ ~open[u]
  /\ partner_code[u] # ""
  /\ opens[u] < MaxOpen
  /\ open' = [open EXCEPT ![u] = TRUE]
  /\ told' = [told EXCEPT ![u] = {}]
  /\ messages' = [messages EXCEPT ![u] = <<>>]
  /\ opens' = [opens EXCEPT ![u] = @ + 1]
  /\ typed' = [typed EXCEPT ![u] = {}]
  /\ UNCHANGED <<comment, partner_code, task, outbox, message, known, links>>

(* The picker opens. *)
Close(u) ==
  /\ open[u]
  /\ open' = [open EXCEPT ![u] = FALSE]
  /\ UNCHANGED <<comment, partner_code, task, outbox, message, known,
                 told, messages, typed, opens, links>>

-----------------------------------------------------------------------------
(* Sending *)

Sending(u) ==
  \E s \in Send : task[s].from = u /\ task[s].pc \in {"tapped", "composed", "added"}

Type(u, x) ==
  /\ open[u]
  /\ comment[u][opens[u]] = ""
  /\ comment' = [comment EXCEPT ![u][opens[u]] = x]
  /\ typed' = IF Sending(u) THEN typed ELSE [typed EXCEPT ![u] = @ \cup {x}]
  /\ UNCHANGED <<partner_code, task, outbox, message, known, open,
                 told, messages, opens, links>>

(* The button; it is grey, but not disabled, while the field is empty. *)
Tap(s, u) ==
  /\ task[s].pc = "unused"
  /\ open[u]
  /\ task' = [task EXCEPT ![s] =
       [Unused EXCEPT !.pc = "tapped", !.life = opens[u], !.from = u,
          !.before = ToSet(messages[u])
                     \cup {r \in Send : task[r].from = u /\ task[r].pc = "done"}]]
  /\ UNCHANGED <<comment, partner_code, outbox, message, known, open,
                 told, messages, typed, opens, links>>

(* Mutant: the partner's code is written as an optional, not unwrapped. *)
ComposeOptional(s) ==
  LET u == task[s].from IN
  /\ task[s].pc = "tapped"
  /\ \E now \in Time :
       task' = [task EXCEPT
         ![s].pc = "composed",
         ![s].to = "Optional",
         ![s].text = comment[u][task[s].life],
         ![s].timestamp = now]
  /\ UNCHANGED <<comment, partner_code, outbox, message, known, open, told,
                 messages, typed, opens, links>>

(* Mutant: the field is cleared as soon as it is tapped, before it is read. *)
ComposeLate(s) ==
  LET u == task[s].from IN
  /\ task[s].pc = "tapped"
  /\ \E now \in Time :
       task' = [task EXCEPT
         ![s].pc = "composed",
         ![s].to = partner_code[u],
         ![s].timestamp = now]
  /\ UNCHANGED <<comment, partner_code, outbox, message, known, open, told,
                 messages, typed, opens, links>>

(* The codes, the text and the date, read when the task runs. *)
Compose(s) ==
  LET u == task[s].from IN
  /\ task[s].pc = "tapped"
  /\ \E now \in Time :
       task' = [task EXCEPT
         ![s].pc = "composed",
         ![s].to = partner_code[u],
         ![s].text = comment[u][task[s].life],
         ![s].timestamp = now]
  /\ UNCHANGED <<comment, partner_code, outbox, message, known, open, told,
                 messages, typed, opens, links>>

AddDocument(s) ==
  /\ task[s].pc = "composed"
  /\ outbox' = [outbox EXCEPT ![task[s].from] = Append(@, s)]
  /\ task' = [task EXCEPT ![s].pc = "added"]
  /\ UNCHANGED <<comment, partner_code, message, known, open, told,
                 messages, typed, opens, links>>

ClearComment(s) ==
  /\ task[s].pc = "added"
  /\ comment' = [comment EXCEPT ![task[s].from][task[s].life] = ""]
  /\ task' = [task EXCEPT ![s].pc = "done"]
  /\ UNCHANGED <<partner_code, outbox, message, known, open, told,
                 messages, typed, opens, links>>

-----------------------------------------------------------------------------
(* Firestore: writes are committed in order; a client learns of the        *)
(* documents of others when it syncs, and shows its own at once.           *)

Commit(u) ==
  /\ outbox[u] # <<>>
  /\ message' = message \cup {Head(outbox[u])}
  /\ known' = [known EXCEPT ![u] = @ \cup {Head(outbox[u])}]
  /\ outbox' = [outbox EXCEPT ![u] = Tail(@)]
  /\ UNCHANGED <<comment, partner_code, task, open, told, messages,
                 typed, opens, links>>

(* Mutant: the refused document stays in the sender's cache. *)
RejectCached(u) ==
  /\ outbox[u] # <<>>
  /\ Cardinality({s \in Send : task[s].refused}) < MaxRefused
  /\ task' = [task EXCEPT ![Head(outbox[u])].refused = TRUE]
  /\ known' = [known EXCEPT ![u] = @ \cup {Head(outbox[u])}]
  /\ outbox' = [outbox EXCEPT ![u] = Tail(@)]
  /\ UNCHANGED <<comment, partner_code, message, told, open, messages,
                 typed, opens, links>>

(* The server refuses the document: it leaves the sender's client, whose   *)
(* listener is told of the removal but looks at added documents only.      *)
(* sendMessage has not waited for the outcome.                             *)
Reject(u) ==
  /\ outbox[u] # <<>>
  /\ Cardinality({s \in Send : task[s].refused}) < MaxRefused
  /\ task' = [task EXCEPT ![Head(outbox[u])].refused = TRUE]
  /\ told' = [told EXCEPT ![u] = @ \ {Head(outbox[u])}]
  /\ outbox' = [outbox EXCEPT ![u] = Tail(@)]
  /\ UNCHANGED <<comment, partner_code, message, known, open, messages,
                 typed, opens, links>>

(* A listener of this or of a former messageData is there. *)
Sync(u) ==
  /\ opens[u] > 0
  /\ known[u] # message
  /\ known' = [known EXCEPT ![u] = message]
  /\ UNCHANGED <<comment, partner_code, task, outbox, message, open,
                 told, messages, typed, opens, links>>

Added(u) == (known[u] \cup ToSet(outbox[u])) \ told[u]

(* order(by: "timestamp"); those of the same time by their random ids. *)
Ordered(S) ==
  {q \in SetToSeqs(S) : \A i, j \in DOMAIN q :
     i < j => task[q[i]].timestamp <= task[q[j]].timestamp}

(* Mutant: the comments of all users count. *)
ConcernsAll(u, s) == TRUE

(* Mutant: only what the user has sent counts. *)
ConcernsSent(u, s) == task[s].from = u

Concerns(u, s) == task[s].from = u \/ task[s].to = u

(* Mutant: every snapshot is taken as a whole, not by its changes. *)
OnSnapshotWhole(u) ==
  /\ open[u]
  /\ Added(u) # {}
  /\ told' = [told EXCEPT ![u] = @ \cup Added(u)]
  /\ \E docs \in Ordered({s \in known[u] \cup ToSet(outbox[u]) : Concerns(u, s)}) :
       messages' = [messages EXCEPT ![u] = @ \o docs]
  /\ UNCHANGED <<comment, partner_code, task, outbox, message, known,
                 open, typed, opens, links>>

(* Mutant: the list grows at its other end. *)
OnSnapshotReversed(u) ==
  /\ open[u]
  /\ Added(u) # {}
  /\ told' = [told EXCEPT ![u] = @ \cup Added(u)]
  /\ \E docs \in Ordered({s \in Added(u) : Concerns(u, s)}) :
       messages' = [messages EXCEPT ![u] = Reverse(docs) \o @]
  /\ UNCHANGED <<comment, partner_code, task, outbox, message, known,
                 open, typed, opens, links>>

(* The callback of the listener: from the cache first, then whenever       *)
(* something is added.  It goes through the added documents in their order *)
(* and appends those that concern the user.                                *)
OnSnapshot(u) ==
  /\ open[u]
  /\ Added(u) # {}
  /\ told' = [told EXCEPT ![u] = @ \cup Added(u)]
  /\ \E docs \in Ordered({s \in Added(u) : Concerns(u, s)}) :
       messages' = [messages EXCEPT ![u] = @ \o docs]
  /\ UNCHANGED <<comment, partner_code, task, outbox, message, known,
                 open, typed, opens, links>>

-----------------------------------------------------------------------------

Next ==
  \/ \E u \in User :
       \/ Open(u) \/ Close(u) \/ Commit(u) \/ Reject(u) \/ Sync(u) \/ OnSnapshot(u)
       \/ \E p \in User : Linked(u, p)
       \/ \E x \in Text : Type(u, x)
       \/ \E s \in Send : Tap(s, u)
  \/ \E s \in Send : Compose(s) \/ AddDocument(s) \/ ClearComment(s)

Spec == Init /\ [][Next]_vars

(* Tasks that were started run, Firestore sends and tells. *)
Fairness ==
  /\ \A s \in Send : WF_vars(Compose(s)) /\ WF_vars(AddDocument(s)) /\ WF_vars(ClearComment(s))
  /\ \A u \in User : WF_vars(Commit(u)) /\ WF_vars(Sync(u)) /\ WF_vars(OnSnapshot(u))

FairSpec == Spec /\ Fairness

-----------------------------------------------------------------------------
(* Properties *)

(* r was sent, or seen by the sender of s, before s was tapped, and u's    *)
(* list shows it after s.                                                  *)
Swapped(u, r, s) ==
  /\ r \in task[s].before
  /\ \E i, j \in DOMAIN messages[u] : i < j /\ messages[u][i] = s /\ messages[u][j] = r

(* A comment stands after the one it answers, and after the earlier ones  *)
(* of its sender, on every screen and however often the list was rebuilt   *)
(* or continued, although a snapshot is appended unsorted and the clocks   *)
(* may jump: only stamps that contradict the order, or are equal, undo it. *)
ReplyOrder ==
  \A u \in User : \A r, s \in Send :
    task[r].timestamp < task[s].timestamp => ~Swapped(u, r, s)

(* A comment that the server has refused appears on no further screen: the *)
(* sender's list may keep it until CommentsView comes back, then it is     *)
(* gone, and nobody else ever sees it.                                     *)
RefusedNeverShown ==
  [][\A u \in User : \A s \in Send :
       task[s].refused /\ s \notin ToSet(messages[u]) => s \notin ToSet(messages'[u])]_vars

(* Once everything is delivered the list holds every comment from or to    *)
(* the user that is on the server, once: added documents of the cache, of  *)
(* the server and of own writes overlap.  Nothing else is in it but own    *)
(* comments that the server has refused, which only their sender ever saw. *)
ListComplete ==
  \A u \in User :
    open[u] /\ outbox[u] = <<>> /\ known[u] = message /\ Added(u) = {} =>
      /\ {s \in message : task[s].from = u \/ task[s].to = u} \subseteq ToSet(messages[u])
      /\ \A s \in ToSet(messages[u]) :
           \/ s \in message /\ (task[s].from = u \/ task[s].to = u)
           \/ task[s].refused /\ task[s].from = u
      /\ IsInjective(messages[u])

(* A text that was typed while nothing was being sent is in the field or   *)
(* in a comment: overlapping tasks may send it twice, or send nothing with *)
(* it, but none clears what none has read.                                 *)
TypedKept ==
  \A u \in User : \A x \in typed[u] :
    \/ comment[u][opens[u]] = x
    \/ \E s \in Send : task[s].from = u /\ task[s].life = opens[u] /\ task[s].text = x

(* README: chat in real time.  In the end an open list shows every comment *)
(* to the user that was sent and not refused.                              *)
Received ==
  \A u \in User : <>[](open[u] =>
    \A s \in Send : task[s].pc = "done" /\ ~task[s].refused /\ task[s].to = u => s \in ToSet(messages[u]))
=============================================================================
