----------------------------- MODULE ChatProofs -----------------------------
(***************************************************************************)
(* For any numbers of users, comments and texts, any clocks, and however   *)
(* often lists are built, partners change and the server refuses: the      *)
(* types of Chat, what becomes of a text that was typed, that a list is    *)
(* complete once everything is delivered, the order of the comments, and   *)
(* that a refused one is not shown again.                                  *)
(*                                                                         *)
(* None of these is inductive.  They speak of lists on screens, and what   *)
(* makes them true is where a document is on its way there: with its task, *)
(* in one outbox, on the server, in the caches, refused.  The invariant is *)
(* built up in four parts: Base (types and tasks), Kept (the text field),  *)
(* Delivery and Listed (where a document is, and which list has it), and   *)
(* Order (a comment never overtakes one that was there when it was made,   *)
(* whatever the clocks of the devices say).                                *)
(***************************************************************************)
EXTENDS Chat, TLAPS, SequenceTheorems, FiniteSetTheorems

Stamped == {"composed", "added", "done"}
Sent    == {"added", "done"}

(* What a task is before it has read, and whom it belongs to afterwards. *)
TaskOK(s) ==
  /\ task[s].pc = "unused" => task[s].from = "" /\ task[s].before = {}
  /\ task[s].pc # "unused" => task[s].from \in User /\ task[s].life <= opens[task[s].from]
  /\ task[s].pc \notin Stamped => task[s].text = ""

Base == TypeOK /\ (\A s \in Send : TaskOK(s)) /\ (\A u \in User : opens[u] <= MaxOpen)

(* A comment of this life of the view has the text x. *)
Said(u, x) == \E s \in Send : task[s].from = u /\ task[s].life = opens[u] /\ task[s].text = x

(* The field has it, and no task that has read the field will clear it. *)
Held(u, x) ==
  /\ comment[u][opens[u]] = x
  /\ \A s \in Send : task[s].from = u /\ task[s].life = opens[u] => task[s].pc \notin {"composed", "added"}

Kept == \A u \in User : \A x \in typed[u] : Said(u, x) \/ Held(u, x)

(* The documents that the client of u has. *)
Has(u) == known[u] \cup ToSet(outbox[u])

(* A document that was added is in one place: in its sender's outbox, on   *)
(* the server, where its sender knows of it, or refused.                   *)
Posted(s) ==
  /\ task[s].refused => task[s].pc \in Sent
  /\ s \in message => task[s].pc \in Sent /\ ~task[s].refused
  /\ task[s].pc \in Sent => task[s].refused \/ s \in Has(task[s].from)

Waiting(u) ==
  /\ IsInjective(outbox[u])
  /\ \A s \in ToSet(outbox[u]) : /\ task[s].from = u /\ task[s].pc \in Sent
                                 /\ s \notin message /\ ~task[s].refused

Delivery ==
  /\ \A s \in Send : Posted(s)
  /\ \A u \in User : Waiting(u) /\ known[u] \subseteq message

(* A list has what its listener was told and what concerns its user, and   *)
(* otherwise only own documents that were refused.                         *)
ListOf(u) ==
  /\ told[u] \subseteq Has(u)
  /\ IsInjective(messages[u])
  /\ \A s \in told[u] : Concerns(u, s) => s \in ToSet(messages[u])
  /\ \A s \in ToSet(messages[u]) :
       /\ Concerns(u, s) /\ task[s].pc \in Sent
       /\ s \in told[u] \/ (task[s].refused /\ task[s].from = u)

Listed == \A u \in User : ListOf(u)

(* a stands before b in q. *)
Precedes(q, a, b) == \E i, j \in DOMAIN q : i < j /\ q[i] = a /\ q[j] = b

(* r was there when s was tapped.  Nowhere does s come without r, unless r *)
(* was refused; and a list that shows s first has stamps that say so.      *)
Behind(s, r) ==
  /\ r # s /\ task[r].pc \in Sent
  /\ task[r].from = task[s].from \/ r \in known[task[s].from]
  /\ s \in message => r \in message \/ task[r].refused

BehindAt(v, s, r) ==
  /\ s \in Has(v) => r \in Has(v) \/ task[r].refused
  /\ s \in ToSet(messages[v]) => r \in told[v] \/ task[r].refused
  /\ ~Precedes(outbox[v], s, r)
  /\ task[r].timestamp < task[s].timestamp => ~Precedes(messages[v], s, r)

Order ==
  \A s \in Send : \A r \in task[s].before :
    Behind(s, r) /\ \A v \in User : BehindAt(v, s, r)
-----------------------------------------------------------------------------
(* Sequences as sets and as orders. *)

(* The elements of a sequence. *)
LEMMA SeqSet ==
  ASSUME NEW S, NEW q \in Seq(S)
  PROVE  /\ Len(q) \in Nat /\ DOMAIN q = 1..Len(q)
         /\ ToSet(q) \subseteq S
         /\ \A i \in 1..Len(q) : q[i] \in ToSet(q)
         /\ \A x \in ToSet(q) : \E i \in 1..Len(q) : q[i] = x
BY LenProperties, ElementOfSeq DEF ToSet

(* The empty sequence has no elements and no order. *)
LEMMA EmptySet ==
  /\ ToSet(<< >>) = {} /\ IsInjective(<< >>)
  /\ \A a, b : ~Precedes(<< >>, a, b)
<1>1. DOMAIN << >> = {}
  OBVIOUS
<1> QED
  BY <1>1 DEF ToSet, IsInjective, Precedes

(* One element more. *)
LEMMA AppendSet ==
  ASSUME NEW S, NEW q \in Seq(S), NEW x \in S
  PROVE  /\ Append(q, x) \in Seq(S) /\ ToSet(Append(q, x)) = ToSet(q) \cup {x}
         /\ IsInjective(q) /\ x \notin ToSet(q) => IsInjective(Append(q, x))
         /\ \A a, b : Precedes(Append(q, x), a, b) =>
                        Precedes(q, a, b) \/ (a \in ToSet(q) /\ b = x)
<1> DEFINE p == Append(q, x)
<1>1. /\ Len(q) \in Nat /\ DOMAIN q = 1..Len(q)
      /\ p \in Seq(S) /\ Len(p) = Len(q) + 1 /\ DOMAIN p = 1..(Len(q) + 1)
      /\ p[Len(q) + 1] = x /\ \A i \in 1..Len(q) : p[i] = q[i]
  BY LenProperties, AppendProperties
<1> HIDE DEF p
<1>2. DOMAIN p = DOMAIN q \cup {Len(q) + 1} /\ \A i \in DOMAIN q : p[i] = q[i] /\ i < Len(q) + 1
  BY <1>1
<1>3. ToSet(p) = ToSet(q) \cup {x}
  BY <1>1, <1>2 DEF ToSet
<1>4. IsInjective(q) /\ x \notin ToSet(q) => IsInjective(p)
  BY <1>1, <1>2 DEF IsInjective, ToSet
<1>5. \A a, b : Precedes(p, a, b) => Precedes(q, a, b) \/ (a \in ToSet(q) /\ b = x)
  <2> SUFFICES ASSUME NEW a, NEW b, NEW i \in DOMAIN p, NEW j \in DOMAIN p, i < j, p[i] = a, p[j] = b
               PROVE  Precedes(q, a, b) \/ (a \in ToSet(q) /\ b = x)
    BY DEF Precedes
  <2>1. i \in DOMAIN q
    BY <1>1
  <2>2. CASE j \in DOMAIN q
    BY <1>2, <2>1, <2>2 DEF Precedes
  <2>3. CASE j = Len(q) + 1
    BY <1>1, <1>2, <2>1, <2>3 DEF ToSet
  <2> QED
    BY <1>2, <2>2, <2>3
<1> QED
  BY <1>1, <1>3, <1>4, <1>5 DEF p

(* The first element goes. *)
LEMMA TailSet ==
  ASSUME NEW S, NEW q \in Seq(S), q # << >>, IsInjective(q)
  PROVE  /\ Tail(q) \in Seq(S) /\ IsInjective(Tail(q))
         /\ Head(q) \in S /\ Head(q) \in ToSet(q)
         /\ ToSet(Tail(q)) = ToSet(q) \ {Head(q)}
         /\ \A a, b : Precedes(Tail(q), a, b) => Precedes(q, a, b)
         /\ \A b \in ToSet(q) \ {Head(q)} : Precedes(q, Head(q), b)
<1> DEFINE p == Tail(q)
           h == Head(q)
<1>1. /\ Len(q) \in Nat /\ Len(q) > 0 /\ DOMAIN q = 1..Len(q)
      /\ h = q[1] /\ h \in S /\ p \in Seq(S)
      /\ DOMAIN p = 1..(Len(q) - 1) /\ \A i \in 1..(Len(q) - 1) : p[i] = q[i + 1]
  BY LenProperties, HeadTailProperties, EmptySeq
<1> HIDE DEF p, h
<1>2. \A i \in DOMAIN p : i \in Nat /\ i + 1 \in DOMAIN q /\ p[i] = q[i + 1] /\ i + 1 # 1
  BY <1>1
<1>3. \A i \in DOMAIN q : i \in Nat /\ (i = 1 \/ (i - 1 \in DOMAIN p /\ q[i] = p[i - 1] /\ 1 < i))
  BY <1>1
<1>4. 1 \in DOMAIN q /\ h \in ToSet(q)
  BY <1>1 DEF ToSet
<1>5. IsInjective(p)
  BY <1>2 DEF IsInjective
<1>6. ToSet(p) = ToSet(q) \ {h}
  <2>1. ASSUME NEW x \in ToSet(p) PROVE x \in ToSet(q) \ {h}
    <3>1. PICK i \in DOMAIN p : x = p[i]
      BY <2>1 DEF ToSet
    <3>2. q[i + 1] = x /\ i + 1 \in DOMAIN q /\ i + 1 # 1
      BY <1>2, <3>1
    <3> QED
      BY <1>1, <1>4, <3>2 DEF ToSet, IsInjective
  <2>2. ASSUME NEW x \in ToSet(q) \ {h} PROVE x \in ToSet(p)
    <3>1. PICK i \in DOMAIN q : x = q[i]
      BY <2>2 DEF ToSet
    <3>2. i # 1
      BY <1>1, <3>1
    <3> QED
      BY <1>3, <3>1, <3>2 DEF ToSet
  <2> QED
    BY <2>1, <2>2
<1>7. \A a, b : Precedes(p, a, b) => Precedes(q, a, b)
  <2> SUFFICES ASSUME NEW a, NEW b, NEW i \in DOMAIN p, NEW j \in DOMAIN p, i < j, p[i] = a, p[j] = b
               PROVE  Precedes(q, a, b)
    BY DEF Precedes
  <2>1. i + 1 \in DOMAIN q /\ j + 1 \in DOMAIN q /\ i + 1 < j + 1 /\ q[i + 1] = a /\ q[j + 1] = b
    BY <1>2
  <2> QED
    BY <2>1 DEF Precedes
<1>8. \A b \in ToSet(q) \ {h} : Precedes(q, h, b)
  <2> SUFFICES ASSUME NEW b \in ToSet(q) \ {h} PROVE Precedes(q, h, b)
    OBVIOUS
  <2>1. PICK i \in DOMAIN q : b = q[i]
    BY DEF ToSet
  <2>2. 1 < i
    BY <1>1, <1>3, <2>1
  <2> QED
    BY <1>1, <1>4, <2>1, <2>2 DEF Precedes
<1> QED
  BY <1>1, <1>4, <1>5, <1>6, <1>7, <1>8 DEF p, h

(* Two sequences without a common element, one after the other. *)
LEMMA ConcatSet ==
  ASSUME NEW S, NEW p \in Seq(S), NEW q \in Seq(S)
  PROVE  /\ p \o q \in Seq(S) /\ ToSet(p \o q) = ToSet(p) \cup ToSet(q)
         /\ IsInjective(p) /\ IsInjective(q) /\ ToSet(p) \cap ToSet(q) = {} => IsInjective(p \o q)
         /\ \A a, b : Precedes(p \o q, a, b) =>
              Precedes(p, a, b) \/ Precedes(q, a, b) \/ (a \in ToSet(p) /\ b \in ToSet(q))
<1> DEFINE c == p \o q
           m == Len(p)
           n == Len(q)
<1>1. /\ m \in Nat /\ n \in Nat /\ DOMAIN p = 1..m /\ DOMAIN q = 1..n
      /\ c \in Seq(S) /\ DOMAIN c = 1..(m + n)
      /\ \A i \in 1..(m + n) : c[i] = IF i <= m THEN p[i] ELSE q[i - m]
  BY LenProperties, ConcatProperties
<1> HIDE DEF c, m, n
<1>2. \A i \in DOMAIN c : \/ i \in DOMAIN p /\ c[i] = p[i] /\ i <= m
                          \/ i - m \in DOMAIN q /\ c[i] = q[i - m] /\ i > m
  BY <1>1
<1>3. \A i \in DOMAIN p : i \in DOMAIN c /\ c[i] = p[i]
  BY <1>1
<1>4. \A i \in DOMAIN q : i + m \in DOMAIN c /\ c[i + m] = q[i]
  BY <1>1
<1>5. ToSet(c) = ToSet(p) \cup ToSet(q)
  <2>1. ASSUME NEW x \in ToSet(c) PROVE x \in ToSet(p) \cup ToSet(q)
    BY <1>2 DEF ToSet
  <2>2. ASSUME NEW x \in ToSet(p) PROVE x \in ToSet(c)
    BY <1>3 DEF ToSet
  <2>3. ASSUME NEW x \in ToSet(q) PROVE x \in ToSet(c)
    BY <1>4 DEF ToSet
  <2> QED
    BY <2>1, <2>2, <2>3
<1>6. ASSUME IsInjective(p), IsInjective(q), ToSet(p) \cap ToSet(q) = {} PROVE IsInjective(c)
  <2> SUFFICES ASSUME NEW i \in DOMAIN c, NEW j \in DOMAIN c, c[i] = c[j] PROVE i = j
    BY DEF IsInjective
  <2>0. i \in Nat /\ j \in Nat
    BY <1>1
  <2>1. CASE i <= m /\ j <= m
    BY <1>1, <1>2, <1>6, <2>1 DEF IsInjective
  <2>2. CASE i > m /\ j > m
    <3>1. i - m \in DOMAIN q /\ j - m \in DOMAIN q /\ q[i - m] = q[j - m]
      BY <1>1, <2>2
    <3>2. i - m = j - m
      BY <1>6, <3>1 DEF IsInjective
    <3> QED
      BY <1>1, <2>0, <3>2
  <2>3. CASE i <= m /\ j > m
    <3>1. i \in DOMAIN p /\ c[i] = p[i] /\ j - m \in DOMAIN q /\ c[j] = q[j - m]
      BY <1>1, <2>3
    <3> QED
      BY <1>6, <3>1 DEF ToSet
  <2>4. CASE i > m /\ j <= m
    <3>1. j \in DOMAIN p /\ c[j] = p[j] /\ i - m \in DOMAIN q /\ c[i] = q[i - m]
      BY <1>1, <2>4
    <3> QED
      BY <1>6, <3>1 DEF ToSet
  <2> QED
    BY <1>1, <2>0, <2>1, <2>2, <2>3, <2>4
<1>7. \A a, b : Precedes(c, a, b) =>
              Precedes(p, a, b) \/ Precedes(q, a, b) \/ (a \in ToSet(p) /\ b \in ToSet(q))
  <2> SUFFICES ASSUME NEW a, NEW b, NEW i \in DOMAIN c, NEW j \in DOMAIN c, i < j, c[i] = a, c[j] = b
               PROVE  Precedes(p, a, b) \/ Precedes(q, a, b) \/ (a \in ToSet(p) /\ b \in ToSet(q))
    BY DEF Precedes
  <2>0. i \in Nat /\ j \in Nat
    BY <1>1
  <2>1. CASE j <= m
    <3>1. i \in DOMAIN p /\ j \in DOMAIN p /\ p[i] = a /\ p[j] = b
      BY <1>1, <2>0, <2>1
    <3> QED
      BY <3>1 DEF Precedes
  <2>2. CASE i > m
    <3>1. i - m \in DOMAIN q /\ j - m \in DOMAIN q /\ q[i - m] = a /\ q[j - m] = b /\ i - m < j - m
      BY <1>1, <2>0, <2>2
    <3> QED
      BY <3>1 DEF Precedes
  <2>3. CASE i <= m /\ j > m
    <3>1. i \in DOMAIN p /\ p[i] = a /\ j - m \in DOMAIN q /\ q[j - m] = b
      BY <1>1, <2>0, <2>3
    <3> QED
      BY <3>1 DEF ToSet
  <2> QED
    BY <1>1, <2>0, <2>1, <2>2, <2>3
<1> QED
  BY <1>1, <1>5, <1>6, <1>7 DEF c

(* What the query answers: the documents of S, each once, by their times. *)
LEMMA OrderedSet ==
  ASSUME NEW S, IsFiniteSet(S), NEW q \in Ordered(S)
  PROVE  /\ q \in Seq(S) /\ ToSet(q) = S /\ IsInjective(q)
         /\ \A a, b : Precedes(q, a, b) => task[a].timestamp <= task[b].timestamp
<1> DEFINE n == Cardinality(S)
<1>1. n \in Nat
  BY FS_CardinalityType
<1>2. /\ q \in [1..n -> S] /\ \A i, j \in 1..n : i # j => q[i] # q[j]
      /\ \A i, j \in DOMAIN q : i < j => task[q[i]].timestamp <= task[q[j]].timestamp
  BY DEF Ordered, SetToSeqs
<1> HIDE DEF n
<1>3. q \in Seq(S)
  BY <1>1, <1>2, SeqDef
<1>4. q \in Injection(1..n, S)
  BY <1>2 DEF Injection, IsInjective
<1>5. Cardinality(1..n) = n
  BY <1>1, FS_Interval
<1>6. q \in Surjection(1..n, S)
  BY <1>4, <1>5, FS_Injection DEF n
<1>7. ToSet(q) = S
  BY <1>2, <1>6 DEF ToSet, Surjection
<1>8. IsInjective(q)
  BY <1>2 DEF IsInjective
<1> QED
  BY <1>2, <1>3, <1>7, <1>8 DEF Precedes

-----------------------------------------------------------------------------
(* Base: types and tasks *)

(* The fields of a task. *)
LEMMA DocumentFields ==
  ASSUME TypeOK, NEW s \in Send
  PROVE  /\ task \in [Send -> Document]
         /\ task[s].pc \in {"unused", "tapped", "composed", "added", "done"}
         /\ task[s].life \in Nat /\ task[s].from \in User \cup {""} /\ task[s].to \in User \cup {""}
         /\ task[s].text \in Text \cup {""} /\ task[s].timestamp \in Nat
         /\ task[s].refused \in BOOLEAN /\ task[s].before \in SUBSET Send
<1>1. task \in [Send -> Document] /\ task[s] \in Document
  BY DEF TypeOK
<1> QED
  BY <1>1 DEF Document

(* Only the field `pc` of the task s changes, to p. *)
MovesTo(s, p) ==
  /\ \A r \in Send : r # s => task'[r] = task[r]
  /\ task'[s].pc = p /\ task'[s].life = task[s].life /\ task'[s].from = task[s].from
  /\ task'[s].to = task[s].to /\ task'[s].text = task[s].text
  /\ task'[s].timestamp = task[s].timestamp /\ task'[s].refused = task[s].refused
  /\ task'[s].before = task[s].before

(* What a tap, a reading and a refusal do to the tasks. *)
Tapped(s, u) ==
  /\ \A r \in Send : r # s => task'[r] = task[r]
  /\ task'[s].pc = "tapped" /\ task'[s].life = opens[u] /\ task'[s].from = u
  /\ task'[s].to = "" /\ task'[s].text = "" /\ task'[s].timestamp = 0 /\ task'[s].refused = FALSE
  /\ task'[s].before = ToSet(messages[u])
                     \cup {r \in Send : task[r].from = u /\ task[r].pc = "done"}

Composed(s) ==
  /\ \A r \in Send : r # s => task'[r] = task[r]
  /\ task'[s].pc = "composed" /\ task'[s].life = task[s].life /\ task'[s].from = task[s].from
  /\ task'[s].to = partner_code[task[s].from]
  /\ task'[s].text = comment[task[s].from][task[s].life]
  /\ task'[s].timestamp \in Time
  /\ task'[s].refused = task[s].refused /\ task'[s].before = task[s].before

Refused(s) ==
  /\ \A r \in Send : r # s => task'[r] = task[r]
  /\ task'[s].pc = task[s].pc /\ task'[s].life = task[s].life /\ task'[s].from = task[s].from
  /\ task'[s].to = task[s].to /\ task'[s].text = task[s].text
  /\ task'[s].timestamp = task[s].timestamp /\ task'[s].refused
  /\ task'[s].before = task[s].before

(* At the start no button was tapped. *)
LEMMA InitBase == Init => Base
<1> SUFFICES ASSUME Init PROVE Base
  OBVIOUS
<1>1. Unused \in Document /\ Unused.pc = "unused" /\ Unused.from = "" /\ Unused.before = {}
      /\ Unused.text = "" /\ Unused.refused = FALSE
  BY ChatAssumption DEF Unused, Document
<1>2. \A s \in Send : task[s] = Unused
  BY DEF Init
<1>3. task \in [Send -> Document]
  BY <1>1 DEF Init
<1>4. \A s \in Send : TaskOK(s)
  BY <1>1, <1>2 DEF TaskOK
<1>5. TypeOK
  <2>1. comment \in [User -> [0..MaxOpen -> Text \cup {""}]] /\ partner_code \in [User -> User \cup {""}]
    BY DEF Init
  <2>2. << >> \in Seq(Send)
    BY EmptySeq
  <2>3. outbox \in [User -> Seq(Send)] /\ messages \in [User -> Seq(Send)]
    BY <2>2 DEF Init
  <2>4. message \in SUBSET Send
    BY DEF Init
  <2>5. opens \in [User -> Nat] /\ links \in [User -> Nat]
    BY DEF Init
  <2>6. known \in [User -> SUBSET Send] /\ told \in [User -> SUBSET Send] /\ typed \in [User -> SUBSET Text]
    BY DEF Init
  <2>7. open \in [User -> BOOLEAN]
    BY DEF Init
  <2> QED
    BY <1>3, <2>1, <2>3, <2>4, <2>5, <2>6, <2>7 DEF TypeOK
<1>6. \A u \in User : opens[u] <= MaxOpen
  <2>0. MaxOpen \in Nat
    BY ChatAssumption
  <2>1. 0 <= MaxOpen
    BY <2>0
  <2>2. \A u \in User : opens[u] = 0
    BY DEF Init
  <2> QED
    BY <2>1, <2>2
<1> QED
  BY <1>4, <1>5, <1>6 DEF Base

(* Taps. *)
LEMMA TapBase ==
  ASSUME Base, NEW s \in Send, NEW u \in User, Tap(s, u)
  PROVE  Base' /\ Tapped(s, u)
<1>1. task \in [Send -> Document] /\ messages[u] \in Seq(Send) /\ opens[u] \in Nat /\ open[u]
  BY DEF Base, TypeOK, Tap
<1>2. ToSet(messages[u]) \subseteq Send
  BY <1>1, SeqSet
<1> DEFINE b == ToSet(messages[u]) \cup {r \in Send : task[r].from = u /\ task[r].pc = "done"}
           t == [Unused EXCEPT !.pc = "tapped", !.life = opens[u], !.from = u, !.before = b]
<1>3. task' = [task EXCEPT ![s] = t]
  BY DEF Tap
<1>4. b \in SUBSET Send
  BY <1>2
<1> HIDE DEF b
<1>5. /\ t.pc = "tapped" /\ t.life = opens[u] /\ t.from = u /\ t.to = "" /\ t.text = ""
      /\ t.timestamp = 0 /\ t.refused = FALSE /\ t.before = b
      /\ t \in Document
  BY <1>1, <1>4 DEF Unused, Document
<1> HIDE DEF t
<1>6. task' \in [Send -> Document] /\ task'[s] = t /\ \A r \in Send : r # s => task'[r] = task[r]
  BY <1>1, <1>3, <1>5
<1>7. Tapped(s, u)
  BY <1>5, <1>6 DEF Tapped, b
<1>8. UNCHANGED <<comment, partner_code, outbox, message, known, open,
                  told, messages, typed, opens, links>>
  BY DEF Tap
<1>9. TypeOK'
  BY <1>6, <1>8 DEF Base, TypeOK
<1>10. TaskOK(s)'
  <2>1. opens'[u] = opens[u] /\ opens[u] <= opens[u]
    BY <1>1, <1>8
  <2> QED
    BY <1>5, <1>6, <2>1 DEF TaskOK
<1>11. \A r \in Send : r # s => TaskOK(r)'
  BY <1>6, <1>8 DEF Base, TaskOK
<1> QED
  BY <1>7, <1>8, <1>9, <1>10, <1>11 DEF Base

(* A document that is filled in. *)
Fill(d, to, x, n) == [d EXCEPT !.pc = "composed", !.to = to, !.text = x, !.timestamp = n]

FilledFrom(t, d, to, x, n) ==
  /\ t \in Document /\ t.pc = "composed" /\ t.life = d.life /\ t.from = d.from
  /\ t.to = to /\ t.text = x /\ t.timestamp = n
  /\ t.refused = d.refused /\ t.before = d.before

(* It keeps the other fields. *)
LEMMA Filled ==
  ASSUME NEW d \in Document, NEW to \in User \cup {""}, NEW x \in Text \cup {""}, NEW n \in Nat
  PROVE  FilledFrom(Fill(d, to, x, n), d, to, x, n)
BY DEF Document, Fill, FilledFrom

(* The task reads the codes, the field and the clock. *)
LEMMA ComposeBase ==
  ASSUME Base, NEW s \in Send, Compose(s)
  PROVE  /\ Base' /\ Composed(s) /\ task[s].pc = "tapped"
         /\ UNCHANGED <<comment, partner_code, outbox, message, known, open, told,
                        messages, typed, opens, links>>
<1> DEFINE u == task[s].from
<1>1. task[s].pc = "tapped" /\ TypeOK /\ TaskOK(s)
  BY DEF Compose, Base
<1>2. u \in User /\ task[s].life <= opens[u]
  BY <1>1 DEF TaskOK
<1>3. opens[u] \in Nat /\ opens[u] <= MaxOpen /\ task[s].life \in Nat /\ MaxOpen \in Nat
  BY <1>1, <1>2, DocumentFields, ChatAssumption DEF Base, TypeOK
<1>4. task[s].life \in 0..MaxOpen
  BY <1>2, <1>3
<1>5. comment[u][task[s].life] \in Text \cup {""} /\ partner_code[u] \in User \cup {""}
  BY <1>1, <1>2, <1>4 DEF TypeOK
<1>6. UNCHANGED <<comment, partner_code, outbox, message, known, open, told,
                  messages, typed, opens, links>>
  BY DEF Compose
<1>7. PICK now \in Time :
        task' = [task EXCEPT ![s].pc = "composed", ![s].to = partner_code[u],
                             ![s].text = comment[u][task[s].life], ![s].timestamp = now]
  BY DEF Compose
<1> DEFINE t == Fill(task[s], partner_code[u], comment[u][task[s].life], now)
<1>8. task[s] \in Document /\ task \in [Send -> Document]
  BY <1>1 DEF TypeOK
<1>9. task' = [task EXCEPT ![s] = t]
  BY <1>7, <1>8 DEF Fill
<1>10. /\ t \in Document
       /\ t.pc = "composed" /\ t.life = task[s].life /\ t.from = task[s].from
       /\ t.to = partner_code[u] /\ t.text = comment[u][task[s].life]
       /\ t.timestamp = now /\ t.refused = task[s].refused /\ t.before = task[s].before
  <2>1. now \in Nat
    BY ChatAssumption
  <2>2. FilledFrom(t, task[s], partner_code[u], comment[u][task[s].life], now)
    BY <1>5, <1>8, <2>1, Filled
  <2> QED
    BY <2>2 DEF FilledFrom
<1> HIDE DEF t
<1>11. task' \in [Send -> Document] /\ task'[s] = t /\ \A r \in Send : r # s => task'[r] = task[r]
  BY <1>8, <1>9, <1>10
<1>12. Composed(s)
  BY <1>10, <1>11 DEF Composed
<1>13. TypeOK'
  BY <1>1, <1>6, <1>11 DEF TypeOK
<1>14. TaskOK(s)'
  BY <1>1, <1>2, <1>6, <1>10, <1>11 DEF TaskOK, Stamped, Sent
<1>15. \A r \in Send : r # s => TaskOK(r)'
  BY <1>6, <1>11 DEF Base, TaskOK
<1> QED
  BY <1>1, <1>6, <1>12, <1>13, <1>14, <1>15 DEF Base

(* A step of a task that only moves on. *)
LEMMA MoveTask ==
  ASSUME Base, NEW s \in Send, NEW p \in Sent, task[s].pc \in Stamped,
         task' = [task EXCEPT ![s].pc = p], UNCHANGED opens
  PROVE  task' \in [Send -> Document] /\ MovesTo(s, p) /\ \A r \in Send : TaskOK(r)'
<1>1. task[s] \in Document /\ task \in [Send -> Document]
  BY DEF Base, TypeOK
<1> DEFINE t == [task[s] EXCEPT !.pc = p]
<1>2. task' = [task EXCEPT ![s] = t]
  BY <1>1
<1>3. /\ t \in Document /\ t.pc = p /\ t.life = task[s].life /\ t.from = task[s].from
      /\ t.to = task[s].to /\ t.text = task[s].text
      /\ t.timestamp = task[s].timestamp /\ t.refused = task[s].refused /\ t.before = task[s].before
  BY <1>1 DEF Document, Sent
<1> HIDE DEF t
<1>4. task' \in [Send -> Document] /\ task'[s] = t /\ \A r \in Send : r # s => task'[r] = task[r]
  BY <1>1, <1>2, <1>3
<1>5. MovesTo(s, p)
  BY <1>3, <1>4 DEF MovesTo
<1>6. TaskOK(s)'
  BY <1>3, <1>4 DEF Base, TaskOK, Stamped, Sent
<1>7. \A r \in Send : r # s => TaskOK(r)'
  BY <1>4 DEF Base, TaskOK
<1> QED
  BY <1>4, <1>5, <1>6, <1>7

(* addDocument. *)
LEMMA AddBase ==
  ASSUME Base, NEW s \in Send, AddDocument(s)
  PROVE  /\ Base' /\ MovesTo(s, "added") /\ task[s].pc = "composed" /\ task[s].from \in User
         /\ outbox' = [outbox EXCEPT ![task[s].from] = Append(@, s)]
         /\ UNCHANGED <<comment, partner_code, message, known, open, told,
                        messages, typed, opens, links>>
<1>1. /\ task[s].pc = "composed" /\ outbox' = [outbox EXCEPT ![task[s].from] = Append(@, s)]
      /\ task' = [task EXCEPT ![s].pc = "added"]
      /\ UNCHANGED <<comment, partner_code, message, known, open, told,
                     messages, typed, opens, links>>
  BY DEF AddDocument
<1>2. task[s].from \in User
  BY <1>1 DEF Base, TaskOK
<1>3. task' \in [Send -> Document] /\ MovesTo(s, "added") /\ \A r \in Send : TaskOK(r)'
  BY <1>1, MoveTask DEF Stamped, Sent
<1>4. outbox[task[s].from] \in Seq(Send)
  BY <1>2 DEF Base, TypeOK
<1>5. Append(outbox[task[s].from], s) \in Seq(Send)
  BY <1>4, AppendProperties
<1>6. outbox' \in [User -> Seq(Send)]
  BY <1>1, <1>5 DEF Base, TypeOK
<1>7. TypeOK'
  BY <1>1, <1>3, <1>6 DEF Base, TypeOK
<1> QED
  BY <1>1, <1>2, <1>3, <1>7 DEF Base

(* The field is cleared. *)
LEMMA ClearBase ==
  ASSUME Base, NEW s \in Send, ClearComment(s)
  PROVE  /\ Base' /\ MovesTo(s, "done") /\ task[s].pc = "added" /\ task[s].from \in User
         /\ comment' = [comment EXCEPT ![task[s].from][task[s].life] = ""]
         /\ UNCHANGED <<partner_code, outbox, message, known, open, told,
                        messages, typed, opens, links>>
<1>1. /\ task[s].pc = "added" /\ comment' = [comment EXCEPT ![task[s].from][task[s].life] = ""]
      /\ task' = [task EXCEPT ![s].pc = "done"]
      /\ UNCHANGED <<partner_code, outbox, message, known, open, told,
                     messages, typed, opens, links>>
  BY DEF ClearComment
<1>2. task[s].from \in User
  BY <1>1 DEF Base, TaskOK
<1>3. task' \in [Send -> Document] /\ MovesTo(s, "done") /\ \A r \in Send : TaskOK(r)'
  BY <1>1, MoveTask DEF Stamped, Sent
<1>4. comment' \in [User -> [0..MaxOpen -> Text \cup {""}]]
  BY <1>1, <1>2 DEF Base, TypeOK
<1>5. TypeOK'
  BY <1>1, <1>3, <1>4 DEF Base, TypeOK
<1> QED
  BY <1>1, <1>2, <1>3, <1>5 DEF Base

(* The head of an outbox. *)
LEMMA HeadOut ==
  ASSUME Base, NEW u \in User, outbox[u] # << >>
  PROVE  Head(outbox[u]) \in Send /\ Tail(outbox[u]) \in Seq(Send)
<1>1. outbox[u] \in Seq(Send)
  BY DEF Base, TypeOK
<1> QED
  BY <1>1, HeadTailProperties

(* The server takes a document. *)
LEMMA CommitBase ==
  ASSUME Base, NEW u \in User, Commit(u)
  PROVE  Base'
<1>1. /\ outbox[u] # << >> /\ message' = message \cup {Head(outbox[u])}
      /\ known' = [known EXCEPT ![u] = @ \cup {Head(outbox[u])}]
      /\ outbox' = [outbox EXCEPT ![u] = Tail(@)]
      /\ UNCHANGED <<comment, partner_code, task, open, told, messages, typed, opens, links>>
  BY DEF Commit
<1>2. Head(outbox[u]) \in Send /\ Tail(outbox[u]) \in Seq(Send)
  BY <1>1, HeadOut
<1>3. TypeOK'
  BY <1>1, <1>2 DEF Base, TypeOK
<1>4. \A s \in Send : TaskOK(s)'
  BY <1>1 DEF Base, TaskOK
<1> QED
  BY <1>1, <1>3, <1>4 DEF Base

(* The server refuses one. *)
LEMMA RejectBase ==
  ASSUME Base, NEW u \in User, Reject(u)
  PROVE  /\ Base' /\ Refused(Head(outbox[u])) /\ outbox[u] # << >>
         /\ told' = [told EXCEPT ![u] = @ \ {Head(outbox[u])}]
         /\ outbox' = [outbox EXCEPT ![u] = Tail(@)]
         /\ UNCHANGED <<comment, partner_code, message, known, open, messages,
                        typed, opens, links>>
<1>0. outbox[u] # << >>
  BY DEF Reject
<1> PICK h \in Send : h = Head(outbox[u])
  BY <1>0, HeadOut
<1>1. /\ outbox[u] # << >> /\ task' = [task EXCEPT ![h].refused = TRUE]
      /\ told' = [told EXCEPT ![u] = @ \ {h}]
      /\ outbox' = [outbox EXCEPT ![u] = Tail(@)]
      /\ UNCHANGED <<comment, partner_code, message, known, open, messages,
                     typed, opens, links>>
  BY DEF Reject
<1>2. Tail(outbox[u]) \in Seq(Send)
  BY <1>1, HeadOut
<1>3. task \in [Send -> Document] /\ task[h] \in Document
  BY DEF Base, TypeOK
<1> DEFINE t == [task[h] EXCEPT !.refused = TRUE]
<1>4. task' = [task EXCEPT ![h] = t]
  BY <1>1, <1>3
<1>5. /\ t \in Document /\ t.pc = task[h].pc /\ t.life = task[h].life /\ t.from = task[h].from
      /\ t.to = task[h].to /\ t.text = task[h].text /\ t.timestamp = task[h].timestamp
      /\ t.refused /\ t.before = task[h].before
  BY <1>3 DEF Document
<1> HIDE DEF t
<1>6. task' \in [Send -> Document] /\ task'[h] = t /\ \A r \in Send : r # h => task'[r] = task[r]
  BY <1>2, <1>3, <1>4, <1>5
<1>7. Refused(h)
  BY <1>5, <1>6 DEF Refused
<1>8. TypeOK'
  BY <1>1, <1>2, <1>6 DEF Base, TypeOK
<1>9. TaskOK(h)'
  BY <1>1, <1>2, <1>5, <1>6 DEF Base, TaskOK
<1>10. \A r \in Send : r # h => TaskOK(r)'
  BY <1>1, <1>6 DEF Base, TaskOK
<1> QED
  BY <1>1, <1>7, <1>8, <1>9, <1>10 DEF Base

(* What a snapshot appends. *)
News(u) == {s \in Added(u) : Concerns(u, s)}

(* A list grows by the new documents that concern its user, in order. *)
LEMMA SnapshotBase ==
  ASSUME Base, NEW u \in User, OnSnapshot(u)
  PROVE  /\ Base' /\ told' = [told EXCEPT ![u] = @ \cup Added(u)]
         /\ Added(u) \subseteq Send /\ messages[u] \in Seq(Send)
         /\ \E docs \in Ordered(News(u)) :
              docs \in Seq(Send) /\ messages' = [messages EXCEPT ![u] = @ \o docs]
         /\ IsFiniteSet(News(u))
         /\ UNCHANGED <<comment, partner_code, task, outbox, message, known,
                        open, typed, opens, links>>
<1>1. PICK docs \in Ordered(News(u)) :
        /\ told' = [told EXCEPT ![u] = @ \cup Added(u)]
        /\ messages' = [messages EXCEPT ![u] = @ \o docs]
        /\ UNCHANGED <<comment, partner_code, task, outbox, message, known,
                       open, typed, opens, links>>
  BY DEF OnSnapshot, News
<1>2. outbox[u] \in Seq(Send) /\ messages[u] \in Seq(Send) /\ known[u] \subseteq Send
  BY DEF Base, TypeOK
<1>3. Added(u) \subseteq Send
  BY <1>2, SeqSet DEF Added
<1>4. News(u) \subseteq Send /\ IsFiniteSet(Send)
  BY <1>3, ChatAssumption DEF News
<1>5. IsFiniteSet(News(u))
  BY <1>4, FS_Subset
<1>6. docs \in Seq(News(u))
  BY <1>5, OrderedSet
<1>7. docs \in Seq(Send)
  BY <1>4, <1>6, SeqMonotonic
<1>8. messages[u] \o docs \in Seq(Send)
  BY <1>2, <1>7, ConcatProperties
<1>9. messages' \in [User -> Seq(Send)]
  BY <1>1, <1>8 DEF Base, TypeOK
<1>10. told' \in [User -> SUBSET Send]
  BY <1>1, <1>3 DEF Base, TypeOK
<1>11. TypeOK'
  BY <1>1, <1>9, <1>10 DEF Base, TypeOK
<1>12. \A s \in Send : TaskOK(s)'
  BY <1>1 DEF Base, TaskOK
<1>13. Base'
  BY <1>1, <1>11, <1>12 DEF Base
<1> QED
  BY <1>1, <1>2, <1>3, <1>5, <1>7, <1>13

(* The screen: partners, the view, and typing. *)
LEMMA ScreenBase ==
  ASSUME Base, NEW u \in User,
         \/ Open(u) \/ Close(u) \/ Sync(u)
         \/ \E p \in User : Linked(u, p)
         \/ \E x \in Text : Type(u, x)
  PROVE  Base' /\ UNCHANGED task
<1>0. UNCHANGED task
  BY DEF Open, Close, Sync, Linked, Type
<1>1. CASE Open(u)
  <2>1. /\ opens[u] < MaxOpen /\ opens' = [opens EXCEPT ![u] = opens[u] + 1]
        /\ opens \in [User -> Nat] /\ MaxOpen \in Nat
    BY <1>1, ChatAssumption DEF Open, Base, TypeOK
  <2>2. opens[u] + 1 \in Nat /\ opens[u] + 1 <= MaxOpen /\ opens[u] <= opens[u] + 1
    BY <2>1
  <2>3. opens' \in [User -> Nat] /\ \A v \in User : opens'[v] <= MaxOpen
    BY <2>1, <2>2 DEF Base
  <2>4. \A v \in User : opens[v] \in Nat /\ opens[v] <= opens'[v]
    BY <2>1, <2>2
  <2>5. << >> \in Seq(Send)
    BY EmptySeq
  <2>6. TypeOK'
    BY <1>1, <2>3, <2>5 DEF Open, Base, TypeOK
  <2>7. ASSUME NEW s \in Send PROVE TaskOK(s)'
    <3>1. TaskOK(s) /\ task'[s] = task[s] /\ task[s].life \in Nat
      BY <1>0, DocumentFields DEF Base
    <3>2. ASSUME task[s].pc # "unused" PROVE task[s].life <= opens'[task[s].from]
      <4>1. task[s].from \in User /\ task[s].life <= opens[task[s].from]
        BY <3>1, <3>2 DEF TaskOK
      <4>2. /\ opens[task[s].from] \in Nat /\ opens'[task[s].from] \in Nat
            /\ opens[task[s].from] <= opens'[task[s].from]
        BY <2>3, <2>4, <4>1
      <4> QED
        BY <3>1, <4>1, <4>2
    <3> QED
      BY <3>1, <3>2 DEF TaskOK
  <2> QED
    BY <1>0, <2>3, <2>6, <2>7 DEF Base
<1>2. CASE ~Open(u)
  <2>1. UNCHANGED <<opens, task, outbox, message, messages, told>>
    BY <1>2 DEF Close, Sync, Linked, Type
  <2>2. TypeOK'
    <3>1. CASE Close(u)
      BY <3>1 DEF Close, Base, TypeOK
    <3>2. CASE Sync(u)
      BY <3>2 DEF Sync, Base, TypeOK
    <3>3. CASE \E p \in User : Linked(u, p)
      <4>1. PICK p \in User : Linked(u, p)
        BY <3>3
      <4>2. partner_code' \in [User -> User \cup {""}]
        BY <4>1 DEF Linked, Base, TypeOK
      <4>3. links' = [links EXCEPT ![u] = links[u] + 1] /\ links \in [User -> Nat]
        BY <4>1 DEF Linked, Base, TypeOK
      <4>4. links[u] + 1 \in Nat
        BY <4>3
      <4> QED
        BY <4>1, <4>2, <4>3, <4>4 DEF Linked, Base, TypeOK
    <3>4. CASE \E x \in Text : Type(u, x)
      <4>1. PICK x \in Text : Type(u, x)
        BY <3>4
      <4>2. comment' \in [User -> [0..MaxOpen -> Text \cup {""}]]
        BY <4>1 DEF Type, Base, TypeOK
      <4>3. typed' \in [User -> SUBSET Text]
        BY <4>1 DEF Type, Base, TypeOK
      <4> QED
        BY <4>1, <4>2, <4>3 DEF Type, Base, TypeOK
    <3> QED
      BY <1>2, <3>1, <3>2, <3>3, <3>4
  <2>3. \A s \in Send : TaskOK(s)'
    BY <2>1 DEF Base, TaskOK
  <2> QED
    BY <2>1, <2>2, <2>3 DEF Base
<1> QED
  BY <1>0, <1>1, <1>2

(* Every step keeps types and tasks. *)
LEMMA BaseStep == Base /\ [Next]_vars => Base'
<1> SUFFICES ASSUME Base, [Next]_vars PROVE Base'
  OBVIOUS
<1>1. CASE UNCHANGED vars
  BY <1>1 DEF vars, Base, TypeOK, TaskOK
<1>2. CASE Next
  BY <1>2, ScreenBase, CommitBase, RejectBase, SnapshotBase, TapBase, ComposeBase, AddBase, ClearBase
     DEF Next
<1> QED
  BY <1>1, <1>2

(* Every variable of Chat keeps its type, for any clocks, any number of    *)
(* users and comments, and whatever the server refuses.                    *)
THEOREM TypeCorrect == Spec => []TypeOK
<1>1. Base => TypeOK
  BY DEF Base
<1> QED
  BY <1>1, InitBase, BaseStep, PTL DEF Spec

-----------------------------------------------------------------------------
(* Kept: the text field *)

(* A typed text is one of Text, so it is not empty. *)
LEMMA TypedText ==
  ASSUME Base, NEW u \in User, NEW x \in typed[u]
  PROVE  x # "" /\ x \in Text
BY ChatAssumption DEF Base, TypeOK

(* The present life of the view has a field. *)
LEMMA OpensIn ==
  ASSUME Base, NEW u \in User
  PROVE  opens[u] \in 0..MaxOpen
<1>1. opens[u] \in Nat /\ opens[u] <= MaxOpen /\ MaxOpen \in Nat
  BY ChatAssumption DEF Base, TypeOK
<1> QED
  BY <1>1

(* Typing does not hide a text that was typed before. *)
LEMMA TypeKept ==
  ASSUME Base, Kept, NEW u \in User, NEW y \in Text, Type(u, y)
  PROVE  Kept'
<1>1. /\ UNCHANGED <<task, opens>> /\ comment[u][opens[u]] = ""
      /\ comment' = [comment EXCEPT ![u][opens[u]] = y]
      /\ typed' = IF Sending(u) THEN typed ELSE [typed EXCEPT ![u] = @ \cup {y}]
  BY DEF Type
<1>2. /\ comment \in [User -> [0..MaxOpen -> Text \cup {""}]] /\ typed \in [User -> SUBSET Text]
      /\ opens[u] \in 0..MaxOpen
  BY OpensIn DEF Base, TypeOK
<1>3. comment'[u][opens[u]] = y /\ \A v \in User : v # u => comment'[v] = comment[v]
  BY <1>1, <1>2
<1> SUFFICES ASSUME NEW v \in User, NEW x \in typed'[v] PROVE Said(v, x)' \/ Held(v, x)'
  BY DEF Kept
<1>4. CASE x \in typed[v]
  <2>1. Said(v, x) \/ Held(v, x)
    BY <1>4 DEF Kept
  <2>2. CASE Said(v, x)
    BY <1>1, <2>2 DEF Said
  <2>3. CASE Held(v, x)
    <3>1. v # u
      BY <1>1, <1>4, <2>3, TypedText DEF Held
    <3> QED
      BY <1>1, <1>3, <2>3, <3>1 DEF Held
  <2> QED
    BY <2>1, <2>2, <2>3
<1>5. CASE x \notin typed[v]
  <2>1. ~Sending(u) /\ v = u /\ x = y
    BY <1>1, <1>2, <1>5
  <2> QED
    BY <1>1, <1>3, <2>1 DEF Held, Sending
<1> QED
  BY <1>4, <1>5

(* A view that opens starts anew; the other users' fields stay. *)
LEMMA OpenKept ==
  ASSUME Base, Kept, NEW u \in User, Open(u)
  PROVE  Kept'
<1>1. UNCHANGED <<task, comment>> /\ typed' = [typed EXCEPT ![u] = {}]
      /\ opens' = [opens EXCEPT ![u] = @ + 1]
  BY DEF Open
<1>2. typed'[u] = {} /\ \A v \in User : v # u => typed'[v] = typed[v] /\ opens'[v] = opens[v]
  BY <1>1 DEF Base, TypeOK
<1> SUFFICES ASSUME NEW v \in User, NEW x \in typed'[v] PROVE Said(v, x)' \/ Held(v, x)'
  BY DEF Kept
<1>3. v # u /\ x \in typed[v]
  BY <1>2
<1>4. Said(v, x) \/ Held(v, x)
  BY <1>3 DEF Kept
<1> QED
  BY <1>1, <1>2, <1>3, <1>4 DEF Said, Held

(* A tap starts a task that has read nothing yet. *)
LEMMA TapKept ==
  ASSUME Base, Kept, NEW s \in Send, NEW u \in User, Tap(s, u)
  PROVE  Kept'
<1>1. Tapped(s, u) /\ UNCHANGED <<comment, typed, opens>> /\ task[s].pc = "unused"
  BY TapBase DEF Tap
<1>2. task[s].text = ""
  BY <1>1 DEF Base, TaskOK, Stamped
<1> SUFFICES ASSUME NEW v \in User, NEW x \in typed'[v] PROVE Said(v, x)' \/ Held(v, x)'
  BY DEF Kept
<1>3. x \in typed[v] /\ x # ""
  BY <1>1, TypedText
<1>4. Said(v, x) \/ Held(v, x)
  BY <1>3 DEF Kept
<1>5. CASE Said(v, x)
  <2>1. PICK r \in Send : task[r].from = v /\ task[r].life = opens[v] /\ task[r].text = x
    BY <1>5 DEF Said
  <2>2. task'[r].from = v /\ task'[r].life = opens'[v] /\ task'[r].text = x
    BY <1>1, <1>2, <1>3, <2>1 DEF Tapped
  <2> QED
    BY <2>2 DEF Said
<1>6. CASE Held(v, x)
  BY <1>1, <1>6 DEF Held, Tapped
<1> QED
  BY <1>4, <1>5, <1>6

(* A task that reads the field has its text. *)
LEMMA ComposeKept ==
  ASSUME Base, Kept, NEW s \in Send, Compose(s)
  PROVE  Kept'
<1>1. Composed(s) /\ UNCHANGED <<comment, typed, opens>> /\ task[s].pc = "tapped"
  BY ComposeBase
<1>2. task[s].text = ""
  BY <1>1 DEF Base, TaskOK, Stamped
<1> SUFFICES ASSUME NEW v \in User, NEW x \in typed'[v] PROVE Said(v, x)' \/ Held(v, x)'
  BY DEF Kept
<1>3. x \in typed[v] /\ x # ""
  BY <1>1, TypedText
<1>4. Said(v, x) \/ Held(v, x)
  BY <1>3 DEF Kept
<1>5. CASE Said(v, x)
  <2>1. PICK r \in Send : task[r].from = v /\ task[r].life = opens[v] /\ task[r].text = x
    BY <1>5 DEF Said
  <2>2. task'[r].from = v /\ task'[r].life = opens'[v] /\ task'[r].text = x
    BY <1>1, <1>2, <1>3, <2>1 DEF Composed
  <2> QED
    BY <2>2 DEF Said
<1>6. CASE Held(v, x) /\ task[s].from = v /\ task[s].life = opens[v]
  BY <1>1, <1>6 DEF Held, Composed, Said
<1>7. CASE Held(v, x) /\ ~(task[s].from = v /\ task[s].life = opens[v])
  BY <1>1, <1>7 DEF Held, Composed
<1> QED
  BY <1>4, <1>5, <1>6, <1>7

(* Adding the document touches no field. *)
LEMMA AddKept ==
  ASSUME Base, Kept, NEW s \in Send, AddDocument(s)
  PROVE  Kept'
<1>1. MovesTo(s, "added") /\ UNCHANGED <<comment, typed, opens>> /\ task[s].pc = "composed"
  BY AddBase
<1> SUFFICES ASSUME NEW v \in User, NEW x \in typed'[v] PROVE Said(v, x)' \/ Held(v, x)'
  BY DEF Kept
<1>2. Said(v, x) \/ Held(v, x)
  BY <1>1 DEF Kept
<1>3. CASE Said(v, x)
  <2>1. PICK r \in Send : task[r].from = v /\ task[r].life = opens[v] /\ task[r].text = x
    BY <1>3 DEF Said
  <2>2. task'[r].from = v /\ task'[r].life = opens'[v] /\ task'[r].text = x
    BY <1>1, <2>1 DEF MovesTo
  <2> QED
    BY <2>2 DEF Said
<1>4. CASE Held(v, x)
  BY <1>1, <1>4 DEF Held, MovesTo
<1> QED
  BY <1>2, <1>3, <1>4

(* The field that is cleared has been read, or belongs to another life. *)
LEMMA ClearKept ==
  ASSUME Base, Kept, NEW s \in Send, ClearComment(s)
  PROVE  Kept'
<1>1. /\ MovesTo(s, "done") /\ UNCHANGED <<typed, opens>> /\ task[s].pc = "added" /\ task[s].from \in User
      /\ comment' = [comment EXCEPT ![task[s].from][task[s].life] = ""]
  BY ClearBase
<1> SUFFICES ASSUME NEW v \in User, NEW x \in typed'[v] PROVE Said(v, x)' \/ Held(v, x)'
  BY DEF Kept
<1>2. Said(v, x) \/ Held(v, x)
  BY <1>1 DEF Kept
<1>3. CASE Said(v, x)
  <2>1. PICK r \in Send : task[r].from = v /\ task[r].life = opens[v] /\ task[r].text = x
    BY <1>3 DEF Said
  <2>2. task'[r].from = v /\ task'[r].life = opens'[v] /\ task'[r].text = x
    BY <1>1, <2>1 DEF MovesTo
  <2> QED
    BY <2>2 DEF Said
<1>4. CASE Held(v, x)
  <2>1. task[s].from = v => task[s].life # opens[v]
    BY <1>1, <1>4 DEF Held
  <2>2. comment \in [User -> [0..MaxOpen -> Text \cup {""}]]
    BY DEF Base, TypeOK
  <2>3. comment'[v][opens[v]] = comment[v][opens[v]]
    <3>1. CASE task[s].from # v
      BY <1>1, <2>2, <3>1
    <3>2. CASE task[s].from = v
      <4>1. comment'[v] = [comment[v] EXCEPT ![task[s].life] = ""] /\ task[s].life # opens[v]
        BY <1>1, <2>1, <2>2, <3>2
      <4>2. comment[v] \in [0..MaxOpen -> Text \cup {""}] /\ opens[v] \in 0..MaxOpen
        BY <2>2, OpensIn
      <4> QED
        BY <4>1, <4>2
    <3> QED
      BY <3>1, <3>2
  <2> QED
    BY <1>1, <1>4, <2>3 DEF Held, MovesTo
<1> QED
  BY <1>2, <1>3, <1>4

(* A refusal changes neither texts nor fields. *)
LEMMA RejectKept ==
  ASSUME Base, Kept, NEW u \in User, Reject(u)
  PROVE  Kept'
<1>0. outbox[u] # << >>
  BY DEF Reject
<1> PICK h \in Send : h = Head(outbox[u])
  BY <1>0, HeadOut
<1>1. Refused(h) /\ UNCHANGED <<comment, typed, opens>>
  BY RejectBase
<1> SUFFICES ASSUME NEW v \in User, NEW x \in typed'[v] PROVE Said(v, x)' \/ Held(v, x)'
  BY DEF Kept
<1>2. Said(v, x) \/ Held(v, x)
  BY <1>1 DEF Kept
<1>3. CASE Said(v, x)
  <2>1. PICK r \in Send : task[r].from = v /\ task[r].life = opens[v] /\ task[r].text = x
    BY <1>3 DEF Said
  <2>2. task'[r].from = v /\ task'[r].life = opens'[v] /\ task'[r].text = x
    BY <1>1, <2>1 DEF Refused
  <2> QED
    BY <2>2 DEF Said
<1>4. CASE Held(v, x)
  BY <1>1, <1>4 DEF Held, Refused
<1> QED
  BY <1>2, <1>3, <1>4

(* Steps that leave tasks and fields alone. *)
LEMMA SameKept ==
  ASSUME Kept, UNCHANGED <<task, comment, typed, opens>>
  PROVE  Kept'
BY DEF Kept, Said, Held

(* Every step keeps what was typed. *)
LEMMA KeptStep == Base /\ Kept /\ [Next]_vars => Kept'
<1> SUFFICES ASSUME Base, Kept, [Next]_vars PROVE Kept'
  OBVIOUS
<1>1. CASE UNCHANGED vars
  BY <1>1, SameKept DEF vars
<1>2. ASSUME NEW u \in User, Close(u) \/ Commit(u) \/ Sync(u) \/ OnSnapshot(u) \/ \E p \in User : Linked(u, p)
      PROVE  Kept'
  <2>1. UNCHANGED <<task, comment, typed, opens>>
    BY <1>2 DEF Close, Commit, Sync, OnSnapshot, Linked
  <2> QED
    BY <2>1, SameKept
<1>3. CASE Next
  BY <1>2, <1>3, OpenKept, TypeKept, TapKept, ComposeKept, AddKept, ClearKept, RejectKept DEF Next
<1> QED
  BY <1>1, <1>3

(* A text that was typed while nothing was being sent is in the field or   *)
(* in a comment, whichever tasks of sendMessage overlap.                   *)
THEOREM TypedAlwaysKept == Spec => []TypedKept
<1>1. Init => Kept
  BY DEF Init, Kept
<1>2. Base /\ Kept => TypedKept
  BY DEF Kept, TypedKept, Said, Held
<1> QED
  BY <1>1, <1>2, InitBase, BaseStep, KeptStep, PTL DEF Spec

-----------------------------------------------------------------------------
(* Delivery: where a document is *)

(* Types that the steps below use. *)
LEMMA StoreTypes ==
  ASSUME Base, NEW u \in User
  PROVE  /\ outbox[u] \in Seq(Send) /\ ToSet(outbox[u]) \subseteq Send
         /\ messages[u] \in Seq(Send) /\ ToSet(messages[u]) \subseteq Send
         /\ known[u] \subseteq Send /\ told[u] \subseteq Send /\ message \subseteq Send
         /\ Has(u) \subseteq Send
<1>1. /\ outbox[u] \in Seq(Send) /\ messages[u] \in Seq(Send)
      /\ known[u] \subseteq Send /\ told[u] \subseteq Send /\ message \subseteq Send
  BY DEF Base, TypeOK
<1>2. ToSet(outbox[u]) \subseteq Send /\ ToSet(messages[u]) \subseteq Send
  BY <1>1, SeqSet
<1> QED
  BY <1>1, <1>2 DEF Has

(* The first document of an outbox, and what is left without it. *)
Popped(u, h) ==
  /\ h \in Send /\ h = Head(outbox[u]) /\ h \in ToSet(outbox[u])
  /\ task[h].from = u /\ task[h].pc \in Sent /\ h \notin message /\ ~task[h].refused
  /\ IsInjective(Tail(outbox[u]))
  /\ ToSet(Tail(outbox[u])) = ToSet(outbox[u]) \ {h}
  /\ \A a, b : Precedes(Tail(outbox[u]), a, b) => Precedes(outbox[u], a, b)
  /\ \A b \in ToSet(outbox[u]) \ {h} : Precedes(outbox[u], h, b)

(* It is a document of its owner that is nowhere else. *)
LEMMA PopOut ==
  ASSUME Base, Delivery, NEW u \in User, outbox[u] # << >>
  PROVE  \E h \in Send : Popped(u, h)
<1>1. outbox[u] \in Seq(Send) /\ IsInjective(outbox[u])
  BY StoreTypes DEF Delivery, Waiting
<1>2. /\ Head(outbox[u]) \in Send /\ Head(outbox[u]) \in ToSet(outbox[u])
      /\ IsInjective(Tail(outbox[u])) /\ ToSet(Tail(outbox[u])) = ToSet(outbox[u]) \ {Head(outbox[u])}
      /\ \A a, b : Precedes(Tail(outbox[u]), a, b) => Precedes(outbox[u], a, b)
      /\ \A b \in ToSet(outbox[u]) \ {Head(outbox[u])} : Precedes(outbox[u], Head(outbox[u]), b)
  BY <1>1, TailSet
<1>3. LET h == Head(outbox[u]) IN
        task[h].from = u /\ task[h].pc \in Sent /\ h \notin message /\ ~task[h].refused
  BY <1>2 DEF Delivery, Waiting
<1> QED
  BY <1>2, <1>3 DEF Popped

(* A step that touches one task, before it has added its document. *)
LEMMA YoungDelivery ==
  ASSUME Base, Delivery, NEW s \in Send,
         \A r \in Send : r # s => task'[r] = task[r],
         task[s].pc \notin Sent, task'[s].pc \notin Sent, ~task'[s].refused,
         UNCHANGED <<message, outbox, known>>
  PROVE  Delivery'
<1>1. s \notin message
  BY DEF Delivery, Posted
<1>2. Posted(s)'
  BY <1>1 DEF Posted
<1>3. ASSUME NEW r \in Send, r # s PROVE Posted(r)'
  <2>1. task'[r] = task[r] /\ Posted(r)
    BY <1>3 DEF Delivery
  <2> QED
    BY <2>1 DEF Posted, Has
<1>4. ASSUME NEW u \in User PROVE Waiting(u)' /\ known'[u] \subseteq message'
  <2>1. Waiting(u) /\ known[u] \subseteq message /\ ToSet(outbox[u]) \subseteq Send
    BY StoreTypes DEF Delivery
  <2>2. s \notin ToSet(outbox[u])
    BY <2>1 DEF Waiting
  <2>3. \A r \in ToSet(outbox[u]) : task'[r] = task[r]
    BY <2>1, <2>2
  <2> QED
    BY <2>1, <2>3 DEF Waiting
<1> QED
  BY <1>2, <1>3, <1>4 DEF Delivery

(* addDocument puts the document into the outbox. *)
LEMMA AddDelivery ==
  ASSUME Base, Delivery, NEW s \in Send, AddDocument(s)
  PROVE  Delivery'
<1>1. /\ MovesTo(s, "added") /\ task[s].pc = "composed"
      /\ outbox' = [outbox EXCEPT ![task[s].from] = Append(@, s)]
      /\ UNCHANGED <<message, known>>
  BY AddBase
<1> PICK w \in User : w = task[s].from
  BY AddBase
<1>2. s \notin message /\ ~task[s].refused
  BY <1>1 DEF Delivery, Posted, Sent
<1>3. \A v \in User : s \notin ToSet(outbox[v])
  BY <1>1 DEF Delivery, Waiting, Sent
<1>4. /\ outbox[w] \in Seq(Send) /\ outbox'[w] = Append(outbox[w], s)
      /\ \A v \in User : v # w => outbox'[v] = outbox[v]
  BY <1>1 DEF Base, TypeOK
<1>5. /\ ToSet(outbox'[w]) = ToSet(outbox[w]) \cup {s}
      /\ IsInjective(outbox[w]) => IsInjective(outbox'[w])
  BY <1>3, <1>4, AppendSet
<1>6. \A v \in User : Has(v) \subseteq Has(v)' /\ (v = w => s \in Has(v)')
  BY <1>1, <1>4, <1>5 DEF Has
<1>7. Posted(s)'
  <2>1. task'[s].pc = "added" /\ task'[s].from = w /\ ~task'[s].refused
    BY <1>1, <1>2 DEF MovesTo
  <2> QED
    BY <1>1, <1>2, <1>6, <2>1 DEF Posted, Sent
<1>8. ASSUME NEW r \in Send, r # s PROVE Posted(r)'
  <2>1. task'[r] = task[r] /\ Posted(r)
    BY <1>1, <1>8 DEF Delivery, MovesTo
  <2>2. task[r].pc \in Sent => task[r].from \in User
    BY DEF Base, TaskOK, Sent
  <2> QED
    BY <1>1, <1>6, <2>1, <2>2 DEF Posted
<1>9. ASSUME NEW v \in User PROVE Waiting(v)' /\ known'[v] \subseteq message'
  <2>1. Waiting(v) /\ known[v] \subseteq message /\ ToSet(outbox[v]) \subseteq Send
    BY StoreTypes DEF Delivery
  <2>2. \A r \in ToSet(outbox[v]) : task'[r] = task[r]
    BY <1>1, <1>3, <2>1 DEF MovesTo
  <2>3. CASE v # w
    BY <1>1, <1>4, <2>1, <2>2, <2>3 DEF Waiting
  <2>4. CASE v = w
    <3>1. IsInjective(outbox'[v])
      BY <1>5, <2>1, <2>4 DEF Waiting
    <3>2. task'[s].from = w /\ task'[s].pc \in Sent /\ s \notin message' /\ ~task'[s].refused
      BY <1>1, <1>2 DEF MovesTo, Sent
    <3>3. \A r \in ToSet(outbox[v]) : /\ task'[r].from = v /\ task'[r].pc \in Sent
                                      /\ r \notin message' /\ ~task'[r].refused
      BY <1>1, <2>1, <2>2 DEF Waiting
    <3>4. ToSet(outbox'[v]) = ToSet(outbox[v]) \cup {s}
      BY <1>5, <2>4
    <3> QED
      BY <1>1, <2>1, <2>4, <3>1, <3>2, <3>3, <3>4 DEF Waiting
  <2> QED
    BY <2>3, <2>4
<1> QED
  BY <1>7, <1>8, <1>9 DEF Delivery

(* A task that ends moves no document. *)
LEMMA ClearDelivery ==
  ASSUME Base, Delivery, NEW s \in Send, ClearComment(s)
  PROVE  Delivery'
<1>1. MovesTo(s, "done") /\ task[s].pc = "added" /\ UNCHANGED <<message, outbox, known>>
  BY ClearBase
<1>2. ASSUME NEW r \in Send
      PROVE  /\ task'[r].from = task[r].from /\ task'[r].refused = task[r].refused
             /\ task'[r].pc \in Sent <=> task[r].pc \in Sent
  BY <1>1 DEF MovesTo, Sent
<1>3. ASSUME NEW r \in Send PROVE Posted(r)'
  <2>1. Posted(r)
    BY DEF Delivery
  <2> QED
    BY <1>1, <1>2, <2>1 DEF Posted, Has
<1>4. ASSUME NEW v \in User PROVE Waiting(v)' /\ known'[v] \subseteq message'
  <2>1. Waiting(v) /\ known[v] \subseteq message /\ ToSet(outbox[v]) \subseteq Send
    BY StoreTypes DEF Delivery
  <2> QED
    BY <1>1, <1>2, <2>1 DEF Waiting
<1> QED
  BY <1>3, <1>4 DEF Delivery

(* What a commit moves: no client loses a document. *)
LEMMA CommitEffect ==
  ASSUME Base, Delivery, NEW u \in User, Commit(u)
  PROVE  \E h \in Send :
           /\ Popped(u, h) /\ message' = message \cup {h}
           /\ known'[u] = known[u] \cup {h} /\ outbox'[u] = Tail(outbox[u])
           /\ \A v \in User : v # u => known'[v] = known[v] /\ outbox'[v] = outbox[v]
           /\ \A v \in User : Has(v)' = Has(v)
           /\ UNCHANGED <<comment, partner_code, task, open, told, messages,
                          typed, opens, links>>
<1>1. /\ outbox[u] # << >> /\ message' = message \cup {Head(outbox[u])}
      /\ known' = [known EXCEPT ![u] = @ \cup {Head(outbox[u])}]
      /\ outbox' = [outbox EXCEPT ![u] = Tail(@)]
      /\ UNCHANGED <<comment, partner_code, task, open, told, messages, typed, opens, links>>
  BY DEF Commit
<1>2. PICK h \in Send : Popped(u, h)
  BY <1>1, PopOut
<1>3. h = Head(outbox[u]) /\ h \in ToSet(outbox[u]) /\ ToSet(Tail(outbox[u])) = ToSet(outbox[u]) \ {h}
  BY <1>2 DEF Popped
<1>4. /\ known'[u] = known[u] \cup {h} /\ outbox'[u] = Tail(outbox[u])
      /\ \A v \in User : v # u => known'[v] = known[v] /\ outbox'[v] = outbox[v]
  BY <1>1, <1>3 DEF Base, TypeOK
<1>5. \A v \in User : Has(v)' = Has(v)
  <2>1. Has(u)' = Has(u)
    BY <1>3, <1>4 DEF Has
  <2>2. \A v \in User : v # u => Has(v)' = Has(v)
    BY <1>4 DEF Has
  <2> QED
    BY <2>1, <2>2
<1> QED
  BY <1>1, <1>2, <1>3, <1>4, <1>5

(* The server has it, and its sender knows. *)
LEMMA CommitDelivery ==
  ASSUME Base, Delivery, NEW u \in User, Commit(u)
  PROVE  Delivery'
<1>1. PICK h \in Send :
        /\ Popped(u, h) /\ message' = message \cup {h}
        /\ known'[u] = known[u] \cup {h} /\ outbox'[u] = Tail(outbox[u])
        /\ \A v \in User : v # u => known'[v] = known[v] /\ outbox'[v] = outbox[v]
        /\ \A v \in User : Has(v)' = Has(v)
        /\ UNCHANGED task
  BY CommitEffect
<1>2. ASSUME NEW r \in Send PROVE Posted(r)'
  <2>1. Posted(r)
    BY DEF Delivery
  <2>2. task[r].pc \in Sent => task[r].from \in User
    BY DEF Base, TaskOK, Sent
  <2>3. r \in message' => task[r].pc \in Sent /\ ~task[r].refused
    BY <1>1, <2>1 DEF Posted, Popped
  <2> QED
    BY <1>1, <2>1, <2>2, <2>3 DEF Posted
<1>3. ASSUME NEW v \in User PROVE Waiting(v)' /\ known'[v] \subseteq message'
  <2>1. Waiting(v) /\ known[v] \subseteq message
    BY DEF Delivery
  <2>2. CASE v # u
    <3>1. h \notin ToSet(outbox[v])
      BY <1>1, <2>1, <2>2 DEF Waiting, Popped
    <3> QED
      BY <1>1, <2>1, <2>2, <3>1 DEF Waiting
  <2>3. CASE v = u
    BY <1>1, <2>1, <2>3 DEF Waiting, Popped
  <2> QED
    BY <2>2, <2>3
<1> QED
  BY <1>2, <1>3 DEF Delivery

(* What a refusal removes: one document, from its sender's client only. *)
LEMMA RejectEffect ==
  ASSUME Base, Delivery, NEW u \in User, Reject(u)
  PROVE  \E h \in Send :
           /\ Popped(u, h) /\ Refused(h) /\ outbox'[u] = Tail(outbox[u])
           /\ told'[u] = told[u] \ {h}
           /\ \A v \in User : v # u => told'[v] = told[v] /\ outbox'[v] = outbox[v]
           /\ \A v \in User : h \notin known[v] /\ (v # u => h \notin Has(v))
           /\ \A v \in User : Has(v)' = Has(v) \ {h}
           /\ UNCHANGED <<comment, partner_code, message, known, open, messages,
                          typed, opens, links>>
<1>1. /\ outbox[u] # << >> /\ Refused(Head(outbox[u]))
      /\ told' = [told EXCEPT ![u] = @ \ {Head(outbox[u])}]
      /\ outbox' = [outbox EXCEPT ![u] = Tail(@)]
      /\ UNCHANGED <<comment, partner_code, message, known, open, messages,
                     typed, opens, links>>
  BY RejectBase
<1>2. PICK h \in Send : Popped(u, h)
  BY <1>1, PopOut
<1>3. /\ h = Head(outbox[u]) /\ h \in ToSet(outbox[u]) /\ ToSet(Tail(outbox[u])) = ToSet(outbox[u]) \ {h}
      /\ h \notin message /\ task[h].from = u
  BY <1>2 DEF Popped
<1>4. /\ told'[u] = told[u] \ {h} /\ outbox'[u] = Tail(outbox[u])
      /\ \A v \in User : v # u => told'[v] = told[v] /\ outbox'[v] = outbox[v]
  BY <1>1, <1>3 DEF Base, TypeOK
<1>5. \A v \in User : h \notin known[v] /\ (v # u => h \notin ToSet(outbox[v]))
  BY <1>3 DEF Delivery, Waiting
<1>6. \A v \in User : v # u => h \notin Has(v)
  BY <1>5 DEF Has
<1>7. \A v \in User : Has(v)' = Has(v) \ {h}
  <2>1. Has(u)' = Has(u) \ {h}
    BY <1>1, <1>3, <1>4, <1>5 DEF Has
  <2>2. \A v \in User : v # u => Has(v)' = Has(v)
    BY <1>1, <1>4 DEF Has
  <2> QED
    BY <1>6, <2>1, <2>2
<1>8. Refused(h)
  BY <1>1, <1>3
<1> QED
  BY <1>1, <1>2, <1>4, <1>5, <1>6, <1>7, <1>8

(* It is refused and nowhere else. *)
LEMMA RejectDelivery ==
  ASSUME Base, Delivery, NEW u \in User, Reject(u)
  PROVE  Delivery'
<1>1. PICK h \in Send :
        /\ Popped(u, h) /\ Refused(h) /\ outbox'[u] = Tail(outbox[u])
        /\ \A v \in User : v # u => outbox'[v] = outbox[v]
        /\ \A v \in User : h \notin known[v] /\ (v # u => h \notin Has(v))
        /\ \A v \in User : Has(v)' = Has(v) \ {h}
        /\ UNCHANGED <<message, known>>
  BY RejectEffect
<1>2. Posted(h)'
  <2>1. task'[h].pc \in Sent /\ task'[h].refused /\ h \notin message'
    BY <1>1 DEF Popped, Refused
  <2> QED
    BY <2>1 DEF Posted
<1>3. ASSUME NEW r \in Send, r # h PROVE Posted(r)'
  <2>1. Posted(r) /\ task'[r] = task[r]
    BY <1>1, <1>3 DEF Delivery, Refused
  <2>2. task[r].pc \in Sent => task[r].from \in User
    BY DEF Base, TaskOK, Sent
  <2>3. task[r].pc \in Sent => task[r].refused \/ r \in Has(task[r].from)'
    BY <1>1, <1>3, <2>1, <2>2 DEF Posted
  <2> QED
    BY <1>1, <2>1, <2>3 DEF Posted
<1>4. ASSUME NEW v \in User PROVE Waiting(v)' /\ known'[v] \subseteq message'
  <2>1. Waiting(v) /\ known[v] \subseteq message /\ ToSet(outbox[v]) \subseteq Send
    BY StoreTypes DEF Delivery
  <2>2. CASE v # u
    <3>1. h \notin ToSet(outbox[v])
      BY <1>1, <2>2 DEF Has
    <3>2. \A r \in ToSet(outbox[v]) : task'[r] = task[r]
      BY <1>1, <2>1, <3>1 DEF Refused
    <3> QED
      BY <1>1, <2>1, <2>2, <3>2 DEF Waiting
  <2>3. CASE v = u
    <3>1. ToSet(outbox'[v]) = ToSet(outbox[v]) \ {h} /\ IsInjective(outbox'[v])
      BY <1>1, <2>3 DEF Popped
    <3>2. \A r \in ToSet(outbox'[v]) : task'[r] = task[r]
      BY <1>1, <2>1, <3>1 DEF Refused
    <3> QED
      BY <1>1, <2>1, <2>3, <3>1, <3>2 DEF Waiting
  <2> QED
    BY <2>2, <2>3
<1> QED
  BY <1>2, <1>3, <1>4 DEF Delivery

(* A client that syncs loses nothing. *)
LEMMA SyncEffect ==
  ASSUME Base, Delivery, NEW u \in User, Sync(u)
  PROVE  /\ known'[u] = message /\ \A v \in User : v # u => known'[v] = known[v]
         /\ \A v \in User : known[v] \subseteq known'[v] /\ Has(v) \subseteq Has(v)'
         /\ UNCHANGED <<task, outbox, message, told, messages>>
<1>1. known' = [known EXCEPT ![u] = message] /\ UNCHANGED <<task, outbox, message, told, messages>>
  BY DEF Sync
<1>2. known'[u] = message /\ \A v \in User : v # u => known'[v] = known[v]
  BY <1>1 DEF Base, TypeOK
<1>3. \A v \in User : known[v] \subseteq known'[v]
  BY <1>2 DEF Delivery
<1>4. \A v \in User : Has(v) \subseteq Has(v)'
  BY <1>1, <1>3 DEF Has
<1> QED
  BY <1>1, <1>2, <1>3, <1>4

(* It knows what the server has. *)
LEMMA SyncDelivery ==
  ASSUME Base, Delivery, NEW u \in User, Sync(u)
  PROVE  Delivery'
<1>1. /\ known'[u] = message /\ \A v \in User : v # u => known'[v] = known[v]
      /\ \A v \in User : Has(v) \subseteq Has(v)'
      /\ UNCHANGED <<task, outbox, message>>
  BY SyncEffect
<1>2. ASSUME NEW r \in Send PROVE Posted(r)'
  <2>1. Posted(r)
    BY DEF Delivery
  <2>2. task[r].pc \in Sent => task[r].from \in User
    BY DEF Base, TaskOK, Sent
  <2> QED
    BY <1>1, <2>1, <2>2 DEF Posted
<1>3. \A v \in User : Waiting(v)' /\ known'[v] \subseteq message'
  BY <1>1 DEF Delivery, Waiting
<1> QED
  BY <1>2, <1>3 DEF Delivery

(* Steps that move no document. *)
LEMMA SameDelivery ==
  ASSUME Delivery, UNCHANGED <<task, message, outbox, known>>
  PROVE  Delivery'
<1>1. \A s \in Send : Posted(s)'
  BY DEF Delivery, Posted, Has
<1>2. \A u \in User : Waiting(u)' /\ known'[u] \subseteq message'
  BY DEF Delivery, Waiting
<1> QED
  BY <1>1, <1>2 DEF Delivery

(* At the start there is no document. *)
LEMMA InitDelivery == Init => Delivery
<1> SUFFICES ASSUME Init PROVE Delivery
  OBVIOUS
<1>1. \A s \in Send : task[s].pc = "unused" /\ task[s].refused = FALSE
  BY DEF Init, Unused
<1>2. message = {} /\ \A u \in User : outbox[u] = << >> /\ known[u] = {}
  BY DEF Init
<1>3. \A s \in Send : Posted(s)
  BY <1>1, <1>2 DEF Posted, Sent
<1>4. \A u \in User : Waiting(u)
  BY <1>2, EmptySet DEF Waiting
<1> QED
  BY <1>2, <1>3, <1>4 DEF Delivery

(* Every document stays in its place or moves to the next one. *)
LEMMA DeliveryStep == Base /\ Delivery /\ [Next]_vars => Delivery'
<1> SUFFICES ASSUME Base, Delivery, [Next]_vars PROVE Delivery'
  OBVIOUS
<1>1. CASE UNCHANGED vars
  BY <1>1, SameDelivery DEF vars
<1>2. ASSUME NEW u \in User,
             \/ Open(u) \/ Close(u) \/ OnSnapshot(u)
             \/ \E p \in User : Linked(u, p)
             \/ \E x \in Text : Type(u, x)
      PROVE  Delivery'
  <2>1. UNCHANGED <<task, message, outbox, known>>
    BY <1>2 DEF Open, Close, OnSnapshot, Linked, Type
  <2> QED
    BY <2>1, SameDelivery
<1>3. ASSUME NEW s \in Send, NEW u \in User, Tap(s, u) PROVE Delivery'
  <2>1. Tapped(s, u) /\ task[s].pc = "unused" /\ UNCHANGED <<message, outbox, known>>
    BY <1>3, TapBase DEF Tap
  <2> QED
    BY <2>1, YoungDelivery DEF Tapped, Sent
<1>4. ASSUME NEW s \in Send, Compose(s) PROVE Delivery'
  <2>1. Composed(s) /\ task[s].pc = "tapped" /\ UNCHANGED <<message, outbox, known>>
    BY <1>4, ComposeBase
  <2>2. ~task[s].refused
    BY <2>1 DEF Delivery, Posted, Sent
  <2>3. ~task'[s].refused
    BY <2>1, <2>2 DEF Composed
  <2> QED
    BY <2>1, <2>3, YoungDelivery DEF Composed, Sent
<1>5. CASE Next
  BY <1>2, <1>3, <1>4, <1>5, AddDelivery, ClearDelivery, CommitDelivery, RejectDelivery, SyncDelivery
     DEF Next
<1> QED
  BY <1>1, <1>5

-----------------------------------------------------------------------------
(* Listed: what is on the screen *)

(* What a client has was added and is not refused. *)
LEMMA HasSent ==
  ASSUME Base, Delivery, NEW v \in User, NEW s \in Has(v)
  PROVE  s \in Send /\ task[s].pc \in Sent /\ ~task[s].refused
<1>1. Has(v) \subseteq Send
  BY StoreTypes
<1>2. CASE s \in known[v]
  BY <1>1, <1>2 DEF Delivery, Posted
<1>3. CASE s \in ToSet(outbox[v])
  BY <1>1, <1>3 DEF Delivery, Waiting
<1> QED
  BY <1>2, <1>3 DEF Has

(* The documents on the screen, and those its listener was told. *)
LEMMA ListSent ==
  ASSUME Base, Delivery, Listed, NEW v \in User, NEW s \in told[v] \cup ToSet(messages[v])
  PROVE  s \in Send /\ task[s].pc \in Sent
<1>1. ToSet(messages[v]) \subseteq Send
  BY StoreTypes
<1>2. CASE s \in told[v]
  BY <1>2, HasSent DEF Listed, ListOf
<1>3. CASE s \in ToSet(messages[v])
  BY <1>1, <1>3 DEF Listed, ListOf
<1> QED
  BY <1>2, <1>3

(* Lists stay when no client loses a document and the documents on them    *)
(* keep their codes and their fate.                                        *)
LEMMA SameListed ==
  ASSUME Base, Delivery, Listed, UNCHANGED <<told, messages>>,
         \A v \in User : Has(v) \subseteq Has(v)',
         \A r \in Send : task[r].pc \in Sent =>
           /\ task'[r].from = task[r].from /\ task'[r].to = task[r].to
           /\ task'[r].pc \in Sent /\ task'[r].refused = task[r].refused
  PROVE  Listed'
<1> SUFFICES ASSUME NEW v \in User PROVE ListOf(v)'
  BY DEF Listed
<1>1. ListOf(v)
  BY DEF Listed
<1>2. \A s \in told[v] \cup ToSet(messages[v]) :
        /\ task'[s].from = task[s].from /\ task'[s].to = task[s].to
        /\ task'[s].pc \in Sent /\ task'[s].refused = task[s].refused
  BY ListSent
<1>3. \A s \in told[v] \cup ToSet(messages[v]) : Concerns(v, s)' <=> Concerns(v, s)
  BY <1>2 DEF Concerns
<1>4. told'[v] \subseteq Has(v)' /\ IsInjective(messages'[v])
  BY <1>1 DEF ListOf
<1>5. \A s \in told'[v] : Concerns(v, s)' => s \in ToSet(messages'[v])
  BY <1>1, <1>3 DEF ListOf
<1>6. ASSUME NEW s \in ToSet(messages'[v])
      PROVE  /\ Concerns(v, s)' /\ task'[s].pc \in Sent
             /\ s \in told'[v] \/ (task'[s].refused /\ task'[s].from = v)
  <2>1. s \in ToSet(messages[v])
    OBVIOUS
  <2>2. Concerns(v, s) /\ (s \in told[v] \/ (task[s].refused /\ task[s].from = v))
    BY <1>1, <2>1 DEF ListOf
  <2> QED
    BY <1>2, <1>3, <2>1, <2>2
<1> QED
  BY <1>4, <1>5, <1>6 DEF ListOf

(* A view that opens has an empty list. *)
LEMMA OpenListed ==
  ASSUME Base, Listed, NEW u \in User, Open(u)
  PROVE  Listed'
<1>1. /\ told' = [told EXCEPT ![u] = {}] /\ messages' = [messages EXCEPT ![u] = << >>]
      /\ UNCHANGED <<task, outbox, known>>
  BY DEF Open
<1>2. /\ told'[u] = {} /\ messages'[u] = << >>
      /\ \A v \in User : v # u => told'[v] = told[v] /\ messages'[v] = messages[v]
  BY <1>1 DEF Base, TypeOK
<1>3. ListOf(u)'
  BY <1>2, EmptySet DEF ListOf
<1>4. ASSUME NEW v \in User, v # u PROVE ListOf(v)'
  <2>1. ListOf(v)
    BY DEF Listed
  <2> QED
    BY <1>1, <1>2, <1>4, <2>1 DEF ListOf, Has, Concerns
<1> QED
  BY <1>3, <1>4 DEF Listed

(* A refused document leaves its sender's client, not its sender's list. *)
LEMMA RejectListed ==
  ASSUME Base, Delivery, Listed, NEW u \in User, Reject(u)
  PROVE  Listed'
<1>1. PICK h \in Send :
        /\ Popped(u, h) /\ Refused(h) /\ told'[u] = told[u] \ {h}
        /\ \A v \in User : v # u => told'[v] = told[v]
        /\ \A v \in User : v # u => h \notin Has(v)
        /\ \A v \in User : Has(v)' = Has(v) \ {h}
        /\ UNCHANGED messages
  BY RejectEffect
<1> SUFFICES ASSUME NEW v \in User PROVE ListOf(v)'
  BY DEF Listed
<1>2. ListOf(v) /\ ToSet(messages[v]) \subseteq Send /\ told[v] \subseteq Send
  BY StoreTypes DEF Listed
<1>3. \A s \in Send : task'[s].from = task[s].from /\ task'[s].to = task[s].to /\ task'[s].pc = task[s].pc
  BY <1>1 DEF Refused
<1>4. \A s \in Send : Concerns(v, s)' <=> Concerns(v, s)
  BY <1>3 DEF Concerns
<1>5. told'[v] = told[v] \ {h}
  <2>1. v # u => h \notin told[v]
    BY <1>1, <1>2 DEF ListOf
  <2> QED
    BY <1>1, <2>1
<1>6. told'[v] \subseteq Has(v)' /\ IsInjective(messages'[v])
  BY <1>1, <1>2, <1>5 DEF ListOf
<1>7. \A s \in told'[v] : Concerns(v, s)' => s \in ToSet(messages'[v])
  BY <1>1, <1>2, <1>4, <1>5 DEF ListOf
<1>8. ASSUME NEW s \in ToSet(messages'[v])
      PROVE  /\ Concerns(v, s)' /\ task'[s].pc \in Sent
             /\ s \in told'[v] \/ (task'[s].refused /\ task'[s].from = v)
  <2>1. s \in ToSet(messages[v]) /\ s \in Send
    BY <1>1, <1>2
  <2>2. Concerns(v, s) /\ task[s].pc \in Sent /\ (s \in told[v] \/ (task[s].refused /\ task[s].from = v))
    BY <1>2, <2>1 DEF ListOf
  <2>3. CASE s # h
    BY <1>1, <1>3, <1>4, <1>5, <2>1, <2>2, <2>3 DEF Refused
  <2>4. CASE s = h
    <3>1. s \in told[v]
      BY <1>1, <2>2, <2>4 DEF Popped
    <3>2. v = u
      BY <1>1, <1>2, <2>4, <3>1 DEF ListOf
    <3>3. task'[s].refused /\ task[s].from = u
      BY <1>1, <2>4 DEF Refused, Popped
    <3> QED
      BY <1>3, <1>4, <2>1, <2>2, <3>2, <3>3
  <2> QED
    BY <2>3, <2>4
<1> QED
  BY <1>6, <1>7, <1>8 DEF ListOf

(* What a snapshot does to a list and to what its listener was told. *)
Extended(u, docs) ==
  /\ told'[u] = told[u] \cup Added(u) /\ messages'[u] = messages[u] \o docs
  /\ \A v \in User : v # u => told'[v] = told[v] /\ messages'[v] = messages[v]
  /\ ToSet(docs) = News(u) /\ IsInjective(docs) /\ docs \in Seq(Send)
  /\ \A a, b : Precedes(docs, a, b) => task[a].timestamp <= task[b].timestamp
  /\ ToSet(messages'[u]) = ToSet(messages[u]) \cup News(u)
  /\ IsInjective(messages[u]) /\ ToSet(messages[u]) \cap News(u) = {} => IsInjective(messages'[u])
  /\ \A a, b : Precedes(messages'[u], a, b) =>
       \/ Precedes(messages[u], a, b) \/ Precedes(docs, a, b)
       \/ a \in ToSet(messages[u]) /\ b \in News(u)

(* It is so. *)
LEMMA SnapshotEffect ==
  ASSUME Base, NEW u \in User, OnSnapshot(u)
  PROVE  /\ \E docs : Extended(u, docs)
         /\ UNCHANGED <<task, outbox, message, known>>
<1>1. PICK docs \in Ordered(News(u)) :
        /\ docs \in Seq(Send) /\ messages' = [messages EXCEPT ![u] = @ \o docs]
        /\ told' = [told EXCEPT ![u] = @ \cup Added(u)] /\ messages[u] \in Seq(Send)
        /\ IsFiniteSet(News(u))
        /\ UNCHANGED <<task, outbox, message, known>>
  BY SnapshotBase
<1>2. /\ told'[u] = told[u] \cup Added(u) /\ messages'[u] = messages[u] \o docs
      /\ \A v \in User : v # u => told'[v] = told[v] /\ messages'[v] = messages[v]
  BY <1>1 DEF Base, TypeOK
<1>3. /\ ToSet(docs) = News(u) /\ IsInjective(docs)
      /\ \A a, b : Precedes(docs, a, b) => task[a].timestamp <= task[b].timestamp
  BY <1>1, OrderedSet
<1>4. /\ ToSet(messages[u] \o docs) = ToSet(messages[u]) \cup ToSet(docs)
      /\ IsInjective(messages[u]) /\ IsInjective(docs) /\ ToSet(messages[u]) \cap ToSet(docs) = {}
           => IsInjective(messages[u] \o docs)
      /\ \A a, b : Precedes(messages[u] \o docs, a, b) =>
           \/ Precedes(messages[u], a, b) \/ Precedes(docs, a, b)
           \/ a \in ToSet(messages[u]) /\ b \in ToSet(docs)
  BY <1>1, ConcatSet
<1>5. Extended(u, docs)
  BY <1>1, <1>2, <1>3, <1>4 DEF Extended
<1> QED
  BY <1>1, <1>5

(* A list that grows has every document once. *)
LEMMA SnapshotListed ==
  ASSUME Base, Delivery, Listed, NEW u \in User, OnSnapshot(u)
  PROVE  Listed'
<1>1. PICK docs : Extended(u, docs) /\ UNCHANGED <<task, outbox, known>>
  BY SnapshotEffect
<1>2. ListOf(u) /\ Added(u) = Has(u) \ told[u] /\ News(u) = {s \in Added(u) : Concerns(u, s)}
  BY DEF Listed, Added, Has, News
<1>3. ToSet(messages[u]) \cap News(u) = {}
  <2> SUFFICES ASSUME NEW s \in ToSet(messages[u]), s \in News(u) PROVE FALSE
    OBVIOUS
  <2>1. s \in Has(u) /\ s \notin told[u]
    BY <1>2
  <2>2. ~task[s].refused
    BY <2>1, HasSent
  <2> QED
    BY <1>2, <2>1, <2>2 DEF ListOf
<1>4. /\ told'[u] = told[u] \cup Added(u) /\ ToSet(messages'[u]) = ToSet(messages[u]) \cup News(u)
      /\ IsInjective(messages'[u])
  BY <1>1, <1>2, <1>3 DEF Extended, ListOf
<1>5. ListOf(u)'
  <2>1. Has(u)' = Has(u) /\ \A s : Concerns(u, s)' <=> Concerns(u, s)
    BY <1>1 DEF Has, Concerns
  <2>2. told'[u] \subseteq Has(u)'
    BY <1>2, <1>4, <2>1 DEF ListOf
  <2>3. \A s \in told'[u] : Concerns(u, s)' => s \in ToSet(messages'[u])
    BY <1>2, <1>4, <2>1 DEF ListOf
  <2>4. ASSUME NEW s \in ToSet(messages'[u])
        PROVE  /\ Concerns(u, s)' /\ task'[s].pc \in Sent
               /\ s \in told'[u] \/ (task'[s].refused /\ task'[s].from = u)
    <3>1. CASE s \in ToSet(messages[u])
      BY <1>1, <1>2, <1>4, <2>1, <3>1 DEF ListOf
    <3>2. CASE s \in News(u)
      <4>1. s \in Has(u) /\ s \in told'[u] /\ Concerns(u, s)
        BY <1>2, <1>4, <3>2
      <4>2. task[s].pc \in Sent
        BY <4>1, HasSent
      <4> QED
        BY <1>1, <2>1, <4>1, <4>2
    <3> QED
      BY <1>4, <3>1, <3>2
  <2> QED
    BY <1>4, <2>2, <2>3, <2>4 DEF ListOf
<1>6. ASSUME NEW v \in User, v # u PROVE ListOf(v)'
  <2>1. ListOf(v) /\ told'[v] = told[v] /\ messages'[v] = messages[v]
    BY <1>1, <1>6 DEF Listed, Extended
  <2> QED
    BY <1>1, <2>1 DEF ListOf, Has, Concerns
<1> QED
  BY <1>5, <1>6 DEF Listed

(* Every step keeps the lists right. *)
LEMMA ListedStep == Base /\ Delivery /\ Listed /\ [Next]_vars => Listed'
<1> SUFFICES ASSUME Base, Delivery, Listed, [Next]_vars PROVE Listed'
  OBVIOUS
<1>1. ASSUME UNCHANGED <<task, told, messages, outbox, known>> PROVE Listed'
  <2>1. \A v \in User : Has(v)' = Has(v)
    BY <1>1 DEF Has
  <2> QED
    BY <1>1, <2>1, SameListed
<1>2. CASE UNCHANGED vars
  BY <1>1, <1>2 DEF vars
<1>3. ASSUME NEW u \in User,
             Close(u) \/ (\E p \in User : Linked(u, p)) \/ (\E x \in Text : Type(u, x))
      PROVE  Listed'
  <2>1. UNCHANGED <<task, told, messages, outbox, known>>
    BY <1>3 DEF Close, Linked, Type
  <2> QED
    BY <1>1, <2>1
<1>4. ASSUME NEW u \in User, Commit(u) PROVE Listed'
  <2>1. UNCHANGED <<task, told, messages>> /\ \A v \in User : Has(v)' = Has(v)
    BY <1>4, CommitEffect
  <2> QED
    BY <2>1, SameListed
<1>5. ASSUME NEW u \in User, Sync(u) PROVE Listed'
  BY <1>5, SyncEffect, SameListed
<1>6. ASSUME NEW s \in Send, NEW u \in User, Tap(s, u) PROVE Listed'
  <2>1. Tapped(s, u) /\ task[s].pc = "unused" /\ UNCHANGED <<outbox, known, told, messages>>
    BY <1>6, TapBase DEF Tap
  <2>2. \A v \in User : Has(v)' = Has(v)
    BY <2>1 DEF Has
  <2>3. \A r \in Send : task[r].pc \in Sent => task'[r] = task[r]
    BY <2>1 DEF Tapped, Sent
  <2> QED
    BY <2>1, <2>2, <2>3, SameListed
<1>7. ASSUME NEW s \in Send, Compose(s) PROVE Listed'
  <2>1. Composed(s) /\ task[s].pc = "tapped" /\ UNCHANGED <<outbox, known, told, messages>>
    BY <1>7, ComposeBase
  <2>2. \A v \in User : Has(v)' = Has(v)
    BY <2>1 DEF Has
  <2>3. \A r \in Send : task[r].pc \in Sent => task'[r] = task[r]
    BY <2>1 DEF Composed, Sent
  <2> QED
    BY <2>1, <2>2, <2>3, SameListed
<1>8. ASSUME NEW s \in Send, AddDocument(s) PROVE Listed'
  <2>1. /\ MovesTo(s, "added") /\ task[s].pc = "composed" /\ UNCHANGED <<known, told, messages>>
        /\ outbox' = [outbox EXCEPT ![task[s].from] = Append(@, s)]
    BY <1>8, AddBase
  <2>2. \A v \in User : Has(v) \subseteq Has(v)'
    <3> SUFFICES ASSUME NEW v \in User PROVE ToSet(outbox[v]) \subseteq ToSet(outbox'[v])
      BY <2>1 DEF Has
    <3>1. outbox \in [User -> Seq(Send)]
      BY DEF Base, TypeOK
    <3>2. outbox'[v] = outbox[v] \/ outbox'[v] = Append(outbox[v], s)
      BY <2>1, <3>1
    <3>3. ToSet(Append(outbox[v], s)) = ToSet(outbox[v]) \cup {s}
      BY <3>1, AppendSet
    <3> QED
      BY <3>2, <3>3
  <2>3. \A r \in Send : task[r].pc \in Sent => task'[r] = task[r]
    BY <2>1 DEF MovesTo, Sent
  <2> QED
    BY <2>1, <2>2, <2>3, SameListed
<1>9. ASSUME NEW s \in Send, ClearComment(s) PROVE Listed'
  <2>1. MovesTo(s, "done") /\ UNCHANGED <<outbox, known, told, messages>>
    BY <1>9, ClearBase
  <2>2. \A v \in User : Has(v)' = Has(v)
    BY <2>1 DEF Has
  <2>3. \A r \in Send : task[r].pc \in Sent =>
          /\ task'[r].from = task[r].from /\ task'[r].to = task[r].to
          /\ task'[r].pc \in Sent /\ task'[r].refused = task[r].refused
    BY <2>1 DEF MovesTo, Sent
  <2> QED
    BY <2>1, <2>2, <2>3, SameListed
<1>10. CASE Next
  BY <1>3, <1>4, <1>5, <1>6, <1>7, <1>8, <1>9, <1>10, OpenListed, RejectListed, SnapshotListed DEF Next
<1> QED
  BY <1>2, <1>10

(* At the start the lists are empty. *)
LEMMA InitListed == Init => Listed
<1> SUFFICES ASSUME Init, NEW u \in User PROVE ListOf(u)
  BY DEF Listed
<1>1. told[u] = {} /\ messages[u] = << >>
  BY DEF Init
<1> QED
  BY <1>1, EmptySet DEF ListOf

(* Once everything is delivered a list has every comment from or to its    *)
(* user that is on the server, once, and besides only own ones that were   *)
(* refused: the additions of the cache, of the server and of own writes,   *)
(* which readMessages appends without looking, never overlap.              *)
THEOREM ListAlwaysComplete == Spec => []ListComplete
<1>1. ASSUME Base, Delivery, Listed PROVE ListComplete
  <2> SUFFICES ASSUME NEW u \in User, outbox[u] = << >>, known[u] = message, Added(u) = {}
               PROVE  /\ {s \in message : task[s].from = u \/ task[s].to = u} \subseteq ToSet(messages[u])
                      /\ \A s \in ToSet(messages[u]) :
                           \/ s \in message /\ (task[s].from = u \/ task[s].to = u)
                           \/ task[s].refused /\ task[s].from = u
                      /\ IsInjective(messages[u])
    BY DEF ListComplete
  <2>1. ListOf(u)
    BY <1>1 DEF Listed
  <2>2. ToSet(outbox[u]) = {}
    BY EmptySet
  <2>3. told[u] = message
    BY <2>1, <2>2 DEF Added, Has, ListOf
  <2> QED
    BY <2>1, <2>3 DEF ListOf, Concerns
<1> QED
  BY <1>1, InitBase, InitDelivery, InitListed, BaseStep, DeliveryStep, ListedStep, PTL DEF Spec

-----------------------------------------------------------------------------
(* Order *)

(* What stands in an order is an element. *)
LEMMA PrecedesIn ==
  ASSUME NEW q, NEW a, NEW b, Precedes(q, a, b)
  PROVE  a \in ToSet(q) /\ b \in ToSet(q)
BY DEF Precedes, ToSet

(* The parts of Order that a step of task s, or of a client, starts from. *)
LEMMA OrderParts ==
  ASSUME Base, Order, NEW s \in Send, NEW r \in task[s].before
  PROVE  /\ r \in Send /\ Behind(s, r) /\ \A v \in User : BehindAt(v, s, r)
         /\ task[s].pc # "unused" /\ task[s].from \in User
         /\ task[r].pc \in Sent /\ task[r].from \in User
<1>1. r \in Send
  BY DocumentFields DEF Base
<1>2. Behind(s, r) /\ \A v \in User : BehindAt(v, s, r)
  BY DEF Order
<1>3. task[s].pc # "unused" /\ task[s].from \in User
  BY DEF Base, TaskOK
<1>4. task[r].pc \in Sent /\ task[r].from \in User
  BY <1>1, <1>2 DEF Behind, Base, TaskOK, Sent
<1> QED
  BY <1>1, <1>2, <1>3, <1>4

(* A tap: what was there is older, and the new comment is nowhere. *)
LEMMA TapOrder ==
  ASSUME Base, Delivery, Listed, Order, NEW s \in Send, NEW u \in User, Tap(s, u)
  PROVE  Order'
<1>1. /\ Tapped(s, u) /\ task[s].pc = "unused"
      /\ UNCHANGED <<outbox, message, known, told, messages>>
  BY TapBase DEF Tap
<1>2. /\ s \notin message
      /\ \A v \in User : s \notin Has(v) /\ s \notin ToSet(messages[v]) /\ s \notin ToSet(outbox[v])
  <2>1. task[s].pc \notin Sent
    BY <1>1 DEF Sent
  <2> QED
    BY <2>1, HasSent, ListSent DEF Delivery, Posted, Has
<1>3. \A v \in User : Has(v)' = Has(v)
  BY <1>1 DEF Has
<1>4. ASSUME NEW r \in task'[s].before
      PROVE  Behind(s, r)' /\ \A v \in User : BehindAt(v, s, r)'
  <2>1. r \in ToSet(messages[u]) \/ (r \in Send /\ task[r].from = u /\ task[r].pc = "done")
    BY <1>1, <1>4 DEF Tapped
  <2>2. r \in Send /\ task[r].pc \in Sent /\ (task[r].from = u \/ r \in known[u])
    <3>1. CASE r \in ToSet(messages[u])
      <4>1. r \in Send /\ task[r].pc \in Sent
        BY <3>1, ListSent
      <4>2. r \in Has(u) \/ task[r].from = u
        BY <3>1 DEF Listed, ListOf
      <4>3. r \in ToSet(outbox[u]) => task[r].from = u
        BY DEF Delivery, Waiting
      <4> QED
        BY <4>1, <4>2, <4>3 DEF Has
    <3>2. CASE r \in Send /\ task[r].from = u /\ task[r].pc = "done"
      BY <3>2 DEF Sent
    <3> QED
      BY <2>1, <3>1, <3>2
  <2>3. r # s
    BY <1>1, <2>2 DEF Sent
  <2>4. task'[r] = task[r] /\ task'[s].from = u /\ task'[s].pc = "tapped"
    BY <1>1, <2>2, <2>3 DEF Tapped
  <2>5. Behind(s, r)'
    BY <1>1, <1>2, <2>2, <2>3, <2>4 DEF Behind
  <2>6. \A v \in User : BehindAt(v, s, r)'
    BY <1>1, <1>2, <1>3, PrecedesIn DEF BehindAt
  <2> QED
    BY <2>5, <2>6
<1>5. ASSUME NEW t \in Send, t # s, NEW r \in task'[t].before
      PROVE  Behind(t, r)' /\ \A v \in User : BehindAt(v, t, r)'
  <2>1. task'[t] = task[t] /\ r \in task[t].before
    BY <1>1, <1>5 DEF Tapped
  <2>2. r \in Send /\ task[r].pc \in Sent /\ Behind(t, r) /\ \A v \in User : BehindAt(v, t, r)
    BY <2>1, OrderParts
  <2>3. task'[r] = task[r]
    BY <1>1, <2>2 DEF Tapped, Sent
  <2> QED
    BY <1>1, <1>3, <2>1, <2>2, <2>3 DEF Behind, BehindAt
<1> QED
  BY <1>4, <1>5 DEF Order

(* The stamp is set while the comment is nowhere but in its task. *)
LEMMA ComposeOrder ==
  ASSUME Base, Delivery, Listed, Order, NEW s \in Send, Compose(s)
  PROVE  Order'
<1>1. /\ Composed(s) /\ task[s].pc = "tapped"
      /\ UNCHANGED <<outbox, message, known, told, messages>>
  BY ComposeBase
<1>2. \A v \in User : Has(v)' = Has(v)
  BY <1>1 DEF Has
<1>3. ASSUME NEW t \in Send
      PROVE  /\ task'[t].from = task[t].from /\ task'[t].before = task[t].before
             /\ task'[t].refused = task[t].refused
             /\ task[t].pc \in Sent => task'[t] = task[t]
  BY <1>1 DEF Composed, Sent
<1>4. \A v \in User : s \notin ToSet(messages[v])
  BY <1>1, ListSent DEF Sent
<1>5. ASSUME NEW t \in Send, NEW r \in task'[t].before
      PROVE  Behind(t, r)' /\ \A v \in User : BehindAt(v, t, r)'
  <2>0. r \in task[t].before
    BY <1>3, <1>5
  <2>1. r \in Send /\ task[r].pc \in Sent /\ Behind(t, r) /\ \A v \in User : BehindAt(v, t, r)
    BY <2>0, OrderParts
  <2>2. task'[r] = task[r]
    BY <1>3, <2>1
  <2>3. Behind(t, r)'
    BY <1>1, <1>3, <2>1, <2>2 DEF Behind
  <2>4. ASSUME NEW v \in User PROVE BehindAt(v, t, r)'
    <3>1. task'[r].timestamp < task'[t].timestamp => ~Precedes(messages'[v], t, r)
      <4>1. CASE t = s
        BY <1>1, <1>4, <4>1, PrecedesIn
      <4>2. CASE t # s
        BY <1>1, <2>1, <2>2, <4>2 DEF BehindAt, Composed
      <4> QED
        BY <4>1, <4>2
    <3> QED
      BY <1>1, <1>2, <2>1, <2>2, <3>1 DEF BehindAt
  <2> QED
    BY <2>3, <2>4
<1> QED
  BY <1>5 DEF Order

(* A comment enters the outbox behind those that its sender sent before,   *)
(* and those of others that its sender has seen are known there.           *)
LEMMA AddOrder ==
  ASSUME Base, Delivery, Order, NEW s \in Send, AddDocument(s)
  PROVE  Order'
<1>1. /\ MovesTo(s, "added") /\ task[s].pc = "composed"
      /\ outbox' = [outbox EXCEPT ![task[s].from] = Append(@, s)]
      /\ UNCHANGED <<message, known, told, messages>>
  BY AddBase
<1> PICK w \in User : w = task[s].from
  BY AddBase
<1>2. /\ outbox[w] \in Seq(Send) /\ outbox'[w] = Append(outbox[w], s)
      /\ \A v \in User : v # w => outbox'[v] = outbox[v]
  BY <1>1 DEF Base, TypeOK
<1>3. /\ ToSet(outbox'[w]) = ToSet(outbox[w]) \cup {s}
      /\ \A a, b : Precedes(outbox'[w], a, b) => Precedes(outbox[w], a, b) \/ b = s
  BY <1>2, AppendSet
<1>4. Has(w)' = Has(w) \cup {s} /\ \A v \in User : v # w => Has(v)' = Has(v)
  BY <1>1, <1>2, <1>3 DEF Has
<1>5. ASSUME NEW t \in Send
      PROVE  /\ task'[t].from = task[t].from /\ task'[t].before = task[t].before
             /\ task'[t].refused = task[t].refused /\ task'[t].timestamp = task[t].timestamp
             /\ task[t].pc \in Sent => task'[t].pc \in Sent
             /\ task'[t].pc \in Stamped <=> task[t].pc \in Stamped
  BY <1>1 DEF MovesTo, Sent, Stamped
<1>6. ASSUME NEW t \in Send, NEW r \in task'[t].before
      PROVE  Behind(t, r)' /\ \A v \in User : BehindAt(v, t, r)'
  <2>0. r \in task[t].before
    BY <1>5, <1>6
  <2>1. /\ r \in Send /\ task[r].pc \in Sent /\ Behind(t, r) /\ \A v \in User : BehindAt(v, t, r)
    BY <2>0, OrderParts
  <2>2. r # s
    BY <1>1, <2>1 DEF Sent
  <2>3. Behind(t, r)'
    BY <1>1, <1>5, <2>1 DEF Behind
  <2>4. ASSUME NEW v \in User PROVE BehindAt(v, t, r)'
    <3>1. BehindAt(v, t, r)
      BY <2>1
    <3>2. t \in Has(v)' => r \in Has(v)' \/ task'[r].refused
      <4>1. CASE t \in Has(v)
        BY <1>4, <1>5, <2>1, <3>1, <4>1 DEF BehindAt
      <4>2. CASE t = s /\ v = w
        <5>1. task[r].from = w \/ r \in known[w]
          BY <2>1, <4>2 DEF Behind
        <5>2. task[r].from = w => task[r].refused \/ r \in Has(w)
          BY <2>1 DEF Delivery, Posted
        <5> QED
          BY <1>4, <1>5, <2>1, <4>2, <5>1, <5>2 DEF Has
      <4> QED
        BY <1>4, <4>1, <4>2
    <3>3. ~Precedes(outbox'[v], t, r)
      BY <1>2, <1>3, <2>2, <3>1 DEF BehindAt
    <3>4. /\ t \in ToSet(messages'[v]) => r \in told'[v] \/ task'[r].refused
          /\ task'[r].timestamp < task'[t].timestamp => ~Precedes(messages'[v], t, r)
      BY <1>1, <1>5, <2>1, <3>1 DEF BehindAt
    <3> QED
      BY <3>2, <3>3, <3>4 DEF BehindAt
  <2> QED
    BY <2>3, <2>4
<1> QED
  BY <1>6 DEF Order

(* A task that ends changes no order. *)
LEMMA ClearOrder ==
  ASSUME Base, Order, NEW s \in Send, ClearComment(s)
  PROVE  Order'
<1>1. /\ MovesTo(s, "done") /\ task[s].pc = "added"
      /\ UNCHANGED <<outbox, message, known, told, messages>>
  BY ClearBase
<1>2. \A v \in User : Has(v)' = Has(v)
  BY <1>1 DEF Has
<1>3. ASSUME NEW t \in Send
      PROVE  /\ task'[t].from = task[t].from /\ task'[t].before = task[t].before
             /\ task'[t].refused = task[t].refused /\ task'[t].timestamp = task[t].timestamp
             /\ task[t].pc \in Sent => task'[t].pc \in Sent
             /\ task'[t].pc \in Stamped <=> task[t].pc \in Stamped
  BY <1>1 DEF MovesTo, Sent, Stamped
<1>4. ASSUME NEW t \in Send, NEW r \in task'[t].before
      PROVE  Behind(t, r)' /\ \A v \in User : BehindAt(v, t, r)'
  <2>0. r \in task[t].before
    BY <1>3, <1>4
  <2>1. r \in Send /\ Behind(t, r) /\ \A v \in User : BehindAt(v, t, r)
    BY <2>0, OrderParts
  <2>2. Behind(t, r)'
    BY <1>1, <1>3, <2>1 DEF Behind
  <2>3. \A v \in User : BehindAt(v, t, r)'
    BY <1>1, <1>2, <1>3, <2>1 DEF BehindAt
  <2> QED
    BY <2>2, <2>3
<1> QED
  BY <1>4 DEF Order

(* The head of an outbox follows nothing that still waits. *)
LEMMA CommitOrder ==
  ASSUME Base, Delivery, Order, NEW u \in User, Commit(u)
  PROVE  Order'
<1>1. PICK h \in Send :
        /\ Popped(u, h) /\ message' = message \cup {h}
        /\ known'[u] = known[u] \cup {h} /\ outbox'[u] = Tail(outbox[u])
        /\ \A v \in User : v # u => known'[v] = known[v] /\ outbox'[v] = outbox[v]
        /\ \A v \in User : Has(v)' = Has(v)
        /\ UNCHANGED <<task, told, messages>>
  BY CommitEffect
<1>2. \A v \in User : known[v] \subseteq known'[v]
  BY <1>1
<1>3. \A v \in User : \A a, b : Precedes(outbox'[v], a, b) => Precedes(outbox[v], a, b)
  BY <1>1 DEF Popped
<1>4. ASSUME NEW t \in Send, NEW r \in task'[t].before
      PROVE  Behind(t, r)' /\ \A v \in User : BehindAt(v, t, r)'
  <2>0. r \in task[t].before
    BY <1>1, <1>4
  <2>1. /\ r \in Send /\ Behind(t, r) /\ \A v \in User : BehindAt(v, t, r)
        /\ task[t].from \in User /\ task[r].pc \in Sent
    BY <2>0, OrderParts
  <2>2. t \in message' => r \in message' \/ task[r].refused
    <3>1. CASE t \in message
      BY <1>1, <2>1, <3>1 DEF Behind
    <3>2. CASE t = h
      <4>1. task[t].from = u /\ task[t].pc \in Sent
        BY <1>1, <3>2 DEF Popped
      <4>2. r # h
        BY <2>1, <3>2 DEF Behind
      <4>3. r \notin ToSet(outbox[u])
        BY <1>1, <2>1, <3>2, <4>2 DEF Popped, BehindAt
      <4>4. task[r].from = u => task[r].refused \/ r \in known[u]
        BY <2>1, <4>3 DEF Delivery, Posted, Has
      <4>5. r \in known[u] \/ task[r].refused
        BY <2>1, <4>1, <4>4 DEF Behind
      <4> QED
        BY <1>1, <4>5 DEF Delivery
    <3> QED
      BY <1>1, <3>1, <3>2
  <2>3. Behind(t, r)'
    BY <1>1, <1>2, <2>1, <2>2 DEF Behind
  <2>4. \A v \in User : BehindAt(v, t, r)'
    BY <1>1, <1>3, <2>1 DEF BehindAt
  <2> QED
    BY <2>3, <2>4
<1> QED
  BY <1>4 DEF Order

(* A refusal excuses the document that is missing. *)
LEMMA RejectOrder ==
  ASSUME Base, Delivery, Order, NEW u \in User, Reject(u)
  PROVE  Order'
<1>1. PICK h \in Send :
        /\ Popped(u, h) /\ Refused(h) /\ outbox'[u] = Tail(outbox[u])
        /\ told'[u] = told[u] \ {h}
        /\ \A v \in User : v # u => told'[v] = told[v] /\ outbox'[v] = outbox[v]
        /\ \A v \in User : Has(v)' = Has(v) \ {h}
        /\ UNCHANGED <<message, known, messages>>
  BY RejectEffect
<1>2. \A v \in User : \A a, b : Precedes(outbox'[v], a, b) => Precedes(outbox[v], a, b)
  BY <1>1 DEF Popped
<1>3. ASSUME NEW t \in Send
      PROVE  /\ task'[t].from = task[t].from /\ task'[t].before = task[t].before
             /\ task[t].refused \/ t = h => task'[t].refused
             /\ task'[t].timestamp = task[t].timestamp /\ task'[t].pc = task[t].pc
  BY <1>1 DEF Refused
<1>4. ASSUME NEW t \in Send, NEW r \in task'[t].before
      PROVE  Behind(t, r)' /\ \A v \in User : BehindAt(v, t, r)'
  <2>0. r \in task[t].before
    BY <1>3, <1>4
  <2>1. r \in Send /\ Behind(t, r) /\ \A v \in User : BehindAt(v, t, r)
    BY <2>0, OrderParts
  <2>2. Behind(t, r)'
    BY <1>1, <1>3, <2>1 DEF Behind
  <2>3. ASSUME NEW v \in User PROVE BehindAt(v, t, r)'
    <3>1. BehindAt(v, t, r)
      BY <2>1
    <3>2. t \in Has(v)' => r \in Has(v)' \/ task'[r].refused
      BY <1>1, <1>3, <2>1, <3>1 DEF BehindAt
    <3>3. t \in ToSet(messages'[v]) => r \in told'[v] \/ task'[r].refused
      BY <1>1, <1>3, <2>1, <3>1 DEF BehindAt
    <3> QED
      BY <1>1, <1>2, <1>3, <2>1, <3>1, <3>2, <3>3 DEF BehindAt
  <2> QED
    BY <2>2, <2>3
<1> QED
  BY <1>4 DEF Order

(* A client that syncs gets a comment with what it follows. *)
LEMMA SyncOrder ==
  ASSUME Base, Delivery, Order, NEW u \in User, Sync(u)
  PROVE  Order'
<1>1. /\ known'[u] = message /\ \A v \in User : v # u => known'[v] = known[v]
      /\ \A v \in User : known[v] \subseteq known'[v] /\ Has(v) \subseteq Has(v)'
      /\ UNCHANGED <<task, outbox, message, told, messages>>
  BY SyncEffect
<1>2. ASSUME NEW t \in Send, NEW r \in task'[t].before
      PROVE  Behind(t, r)' /\ \A v \in User : BehindAt(v, t, r)'
  <2>1. r \in Send /\ Behind(t, r) /\ (\A v \in User : BehindAt(v, t, r)) /\ task[t].from \in User
    BY <1>1, <1>2, OrderParts
  <2>2. Behind(t, r)'
    BY <1>1, <2>1 DEF Behind
  <2>3. ASSUME NEW v \in User PROVE BehindAt(v, t, r)'
    <3>1. BehindAt(v, t, r)
      BY <2>1
    <3>2. t \in Has(v)' => r \in Has(v)' \/ task'[r].refused
      <4>1. CASE t \in Has(v)
        BY <1>1, <3>1, <4>1 DEF BehindAt
      <4>2. CASE t \in Has(v)' /\ t \notin Has(v)
        <5>1. v = u /\ t \in message
          BY <1>1, <4>2 DEF Has
        <5>2. r \in message \/ task[r].refused
          BY <2>1, <5>1 DEF Behind
        <5> QED
          BY <1>1, <5>1, <5>2 DEF Has
      <4> QED
        BY <4>1, <4>2
    <3> QED
      BY <1>1, <3>1, <3>2 DEF BehindAt
  <2> QED
    BY <2>2, <2>3
<1> QED
  BY <1>2 DEF Order

(* The snapshot that appends a comment also has what it follows, and in    *)
(* one snapshot the stamps decide.                                         *)
LEMMA SnapshotOrder ==
  ASSUME Base, Delivery, Listed, Order, NEW u \in User, OnSnapshot(u)
  PROVE  Order'
<1>1. PICK docs : Extended(u, docs) /\ UNCHANGED <<task, outbox, message, known>>
  BY SnapshotEffect
<1>2. Added(u) = Has(u) \ told[u] /\ News(u) \subseteq Added(u)
  BY DEF Added, Has, News
<1>3. \A v \in User : Has(v)' = Has(v)
  BY <1>1 DEF Has
<1>4. ASSUME NEW t \in Send, NEW r \in task'[t].before
      PROVE  Behind(t, r)' /\ \A v \in User : BehindAt(v, t, r)'
  <2>1. r \in Send /\ Behind(t, r) /\ \A v \in User : BehindAt(v, t, r)
    BY <1>1, <1>4, OrderParts
  <2>2. Behind(t, r)'
    BY <1>1, <2>1 DEF Behind
  <2>3. ASSUME NEW v \in User, v # u PROVE BehindAt(v, t, r)'
    <3>1. BehindAt(v, t, r) /\ told'[v] = told[v] /\ messages'[v] = messages[v]
      BY <1>1, <2>1, <2>3 DEF Extended
    <3> QED
      BY <1>1, <1>3, <3>1 DEF BehindAt
  <2>4. BehindAt(u, t, r)'
    <3>1. BehindAt(u, t, r)
      BY <2>1
    <3>2. t \in ToSet(messages'[u]) => r \in told'[u] \/ task[r].refused
      <4>1. CASE t \in ToSet(messages[u])
        BY <1>1, <3>1, <4>1 DEF BehindAt, Extended
      <4>2. CASE t \in News(u)
        <5>1. r \in Has(u) \/ task[r].refused
          BY <1>2, <3>1, <4>2 DEF BehindAt
        <5> QED
          BY <1>1, <1>2, <5>1 DEF Extended
      <4> QED
        BY <1>1, <4>1, <4>2 DEF Extended
    <3>3. ASSUME task[r].timestamp < task[t].timestamp, Precedes(messages'[u], t, r) PROVE FALSE
      <4>1. \/ Precedes(messages[u], t, r) \/ Precedes(docs, t, r)
            \/ t \in ToSet(messages[u]) /\ r \in News(u)
        BY <1>1, <3>3 DEF Extended
      <4>2. ~Precedes(messages[u], t, r)
        BY <3>1, <3>3 DEF BehindAt
      <4>3. CASE Precedes(docs, t, r)
        <5>1. task[t].timestamp <= task[r].timestamp
          BY <1>1, <4>3 DEF Extended
        <5>2. task[t].timestamp \in Nat /\ task[r].timestamp \in Nat
          BY <2>1, DocumentFields DEF Base
        <5> QED
          BY <3>3, <5>1, <5>2
      <4>4. CASE t \in ToSet(messages[u]) /\ r \in News(u)
        <5>1. r \in told[u] \/ task[r].refused
          BY <3>1, <4>4 DEF BehindAt
        <5>2. r \in Has(u) /\ r \notin told[u]
          BY <1>2, <4>4
        <5> QED
          BY <5>1, <5>2, HasSent
      <4> QED
        BY <4>1, <4>2, <4>3, <4>4
    <3> QED
      BY <1>1, <1>3, <3>1, <3>2, <3>3 DEF BehindAt
  <2> QED
    BY <2>2, <2>3, <2>4
<1> QED
  BY <1>4 DEF Order

(* An empty list has no order. *)
LEMMA OpenOrder ==
  ASSUME Base, Order, NEW u \in User, Open(u)
  PROVE  Order'
<1>1. /\ told' = [told EXCEPT ![u] = {}] /\ messages' = [messages EXCEPT ![u] = << >>]
      /\ UNCHANGED <<task, outbox, message, known>>
  BY DEF Open
<1>2. /\ messages'[u] = << >>
      /\ \A v \in User : v # u => told'[v] = told[v] /\ messages'[v] = messages[v]
  BY <1>1 DEF Base, TypeOK
<1>3. ASSUME NEW t \in Send, NEW r \in task'[t].before
      PROVE  Behind(t, r)' /\ \A v \in User : BehindAt(v, t, r)'
  <2>1. r \in Send /\ Behind(t, r) /\ (\A v \in User : BehindAt(v, t, r))
    BY <1>1, <1>3, OrderParts
  <2>2. Behind(t, r)'
    BY <1>1, <2>1 DEF Behind
  <2>3. BehindAt(u, t, r)'
    <3>1. BehindAt(u, t, r) /\ t \notin ToSet(messages'[u]) /\ ~Precedes(messages'[u], t, r)
      BY <1>2, <2>1, EmptySet
    <3> QED
      BY <1>1, <3>1 DEF BehindAt, Has
  <2>4. ASSUME NEW v \in User, v # u PROVE BehindAt(v, t, r)'
    <3>1. BehindAt(v, t, r) /\ told'[v] = told[v] /\ messages'[v] = messages[v]
      BY <1>2, <2>1, <2>4
    <3> QED
      BY <1>1, <3>1 DEF BehindAt, Has
  <2> QED
    BY <2>2, <2>3, <2>4
<1> QED
  BY <1>3 DEF Order

(* Steps that leave documents and lists alone. *)
LEMMA SameOrder ==
  ASSUME Order, UNCHANGED <<task, outbox, message, known, told, messages>>
  PROVE  Order'
<1>2. ASSUME NEW t \in Send, NEW r \in task'[t].before
      PROVE  Behind(t, r)' /\ \A v \in User : BehindAt(v, t, r)'
  <2>1. Behind(t, r) /\ (\A v \in User : BehindAt(v, t, r))
    BY <1>2 DEF Order
  <2> QED
    BY <2>1 DEF Behind, BehindAt, Has
<1> QED
  BY <1>2 DEF Order

(* Every step keeps the order. *)
LEMMA OrderStep == Base /\ Delivery /\ Listed /\ Order /\ [Next]_vars => Order'
<1> SUFFICES ASSUME Base, Delivery, Listed, Order, [Next]_vars PROVE Order'
  OBVIOUS
<1>1. CASE UNCHANGED vars
  BY <1>1, SameOrder DEF vars
<1>2. ASSUME NEW u \in User,
             Close(u) \/ (\E p \in User : Linked(u, p)) \/ (\E x \in Text : Type(u, x))
      PROVE  Order'
  <2>1. UNCHANGED <<task, outbox, message, known, told, messages>>
    BY <1>2 DEF Close, Linked, Type
  <2> QED
    BY <2>1, SameOrder
<1>3. CASE Next
  BY <1>2, <1>3, OpenOrder, TapOrder, ComposeOrder, AddOrder, ClearOrder, CommitOrder, RejectOrder,
     SyncOrder, SnapshotOrder DEF Next
<1> QED
  BY <1>1, <1>3

(* At the start nothing was there before. *)
LEMMA InitOrder == Init => Order
<1> SUFFICES ASSUME Init PROVE Order
  OBVIOUS
<1>1. \A s \in Send : task[s].pc = "unused" /\ task[s].before = {}
  BY DEF Init, Unused
<1> QED
  BY <1>1 DEF Order

(* On every screen a comment stands after those that its sender had sent   *)
(* or had seen when it was made, on the screens of third parties too:      *)
(* outbox, server and caches keep the order, a snapshot is sorted, and     *)
(* none is appended after one that follows it.  Nothing is assumed of the  *)
(* clocks: where a list swaps two comments, their stamps are not in order. *)
THEOREM RepliesAlwaysOrdered == Spec => []ReplyOrder
<1>1. ASSUME Base, Order PROVE ReplyOrder
  <2> SUFFICES ASSUME NEW u \in User, NEW r \in Send, NEW s \in Send, r \in task[s].before,
                      task[r].timestamp < task[s].timestamp, Precedes(messages[u], s, r)
               PROVE  FALSE
    BY DEF ReplyOrder, Swapped, Precedes
  <2>1. BehindAt(u, s, r)
    BY <1>1, OrderParts
  <2> QED
    BY <2>1 DEF BehindAt
<1> QED
  BY <1>1, InitBase, InitDelivery, InitListed, InitOrder, BaseStep, DeliveryStep, ListedStep, OrderStep,
     PTL DEF Spec

(* A comment that was refused appears on no further screen, and on its     *)
(* sender's not again once it is gone: no client has it any more, in its   *)
(* cache or in its outbox, so no listener is told of it, however often the *)
(* list is built anew.                                                     *)
THEOREM RefusedStaysHidden == Spec => RefusedNeverShown
<1>1. ASSUME Base, Delivery, [Next]_vars, NEW u \in User, NEW s \in Send,
             task[s].refused, s \notin ToSet(messages[u])
      PROVE  s \notin ToSet(messages'[u])
  <2>1. CASE UNCHANGED messages
    BY <1>1, <2>1
  <2>2. ASSUME NEW v \in User, Open(v) PROVE s \notin ToSet(messages'[u])
    <3>1. messages'[u] = messages[u] \/ messages'[u] = << >>
      BY <1>1, <2>2 DEF Open, Base, TypeOK
    <3> QED
      BY <1>1, <3>1, EmptySet
  <2>3. ASSUME NEW v \in User, OnSnapshot(v) PROVE s \notin ToSet(messages'[u])
    <3>1. PICK docs : Extended(v, docs)
      BY <1>1, <2>3, SnapshotEffect
    <3>2. News(v) \subseteq Has(v)
      BY DEF News, Added, Has
    <3>3. s \notin News(v)
      BY <1>1, <3>2, HasSent
    <3> QED
      BY <1>1, <3>1, <3>3 DEF Extended
  <2>4. CASE UNCHANGED vars
    BY <2>1, <2>4 DEF vars
  <2>5. CASE Next
    BY <2>1, <2>2, <2>3, <2>5
       DEF Next, Close, Commit, Reject, Sync, Linked, Type, Tap, Compose, AddDocument, ClearComment
  <2> QED
    BY <1>1, <2>4, <2>5
<1>2. Base /\ Delivery /\ [Next]_vars =>
        [\A u \in User : \A s \in Send :
           task[s].refused /\ s \notin ToSet(messages[u]) => s \notin ToSet(messages'[u])]_vars
  BY <1>1
<1> QED
  BY <1>2, InitBase, InitDelivery, BaseStep, DeliveryStep, PTL DEF Spec, RefusedNeverShown
=============================================================================
