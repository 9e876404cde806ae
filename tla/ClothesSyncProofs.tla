------------------------- MODULE ClothesSyncProofs --------------------------
(***************************************************************************)
(* For any users, categories and cloths, any number of uploads, listeners  *)
(* and partners: types, nothing is invented on the partner's screen, the   *)
(* own screen shows what is saved, open edits are kept and, for users with *)
(* one partner, the partner's screen shows every cloth that is saved.      *)
(*                                                                         *)
(* Each property has a layer of the inductive invariant.  Base: types, and *)
(* every job of a main queue is for listeners on its document.  Genuine:   *)
(* all that is under way was saved by the owner of the document.  OwnInv:  *)
(* listeners on one document know the same, and the request that each      *)
(* button of the picker makes is answered in three stages by the youngest  *)
(* listener.  PartnerInv: the last job for a document carries what its     *)
(* listeners were told last.                                               *)
(***************************************************************************)
EXTENDS ClothesSync, TLAPS, SequenceTheorems, WellFoundedInduction

(* The smallest number of a set that has one. *)
LEMMA FirstLeast ==
  ASSUME NEW S \in SUBSET Nat, S # {}
  PROVE  First(S) \in S /\ \A j \in S : First(S) <= j
<1> DEFINE R == OpToRel(<, Nat)
<1>1. IsWellFoundedOn(R, Nat)
  BY NatLessThanWellFounded
<1>2. \A x, y \in Nat : <<y, x>> \in R <=> y < x
  BY DEF OpToRel
<1> HIDE DEF R
<1>3. \E x \in S : \A y \in S : ~(<<y, x>> \in R)
  BY <1>1, WFMin, Zenon
<1>4. PICK x \in S : \A y \in S : ~(<<y, x>> \in R)
  BY <1>3, Zenon
<1>5. x \in Nat /\ \A y \in S : y \in Nat
  OBVIOUS
<1>6. \A y \in S : ~(y < x)
  BY <1>2, <1>4, <1>5, Zenon
<1>7. \A y \in S : x <= y
  BY <1>5, <1>6
<1> QED
  BY <1>7 DEF First

-----------------------------------------------------------------------------
(* What the steps do to the listeners and to the main queue *)

Indices(s) == 1..Len(s)

(* The others keep their listeners and their main queues. *)
OthersSame(u) ==
  \A v \in User : v # u => listeners'[v] = listeners[v] /\ mainq'[v] = mainq[v]

(* t is s with one element more. *)
Grown(t, s, x) ==
  /\ Len(t) = Len(s) + 1 /\ t[Len(s) + 1] = x
  /\ \A i \in Indices(s) : t[i] = s[i]

NewListener(o, for, heard, told) ==
  [of |-> o, for |-> for, acc |-> Naked, heard |-> heard, told |-> told]

Job(o, data, due) == [of |-> o, data |-> data, due |-> due]

(* Listeners and jobs are numbered from 1. *)
LEMMA SeqFacts ==
  ASSUME NEW S, NEW s \in Seq(S)
  PROVE  /\ Len(s) \in Nat /\ DOMAIN s = Indices(s)
         /\ \A i \in Indices(s) : s[i] \in S
         /\ s # << >> => Len(s) > 0
BY LenProperties, ElementOfSeq, EmptySeq DEF Indices

(* A sequence that grows at its end. *)
LEMMA AppendFacts ==
  ASSUME NEW S, NEW s \in Seq(S), NEW x \in S
  PROVE  Append(s, x) \in Seq(S) /\ Grown(Append(s, x), s, x)
BY AppendProperties, LenProperties DEF Grown, Indices

(* A sequence that loses its first element. *)
LEMMA TailFacts ==
  ASSUME NEW S, NEW s \in Seq(S), s # << >>
  PROVE  /\ Tail(s) \in Seq(S) /\ Len(Tail(s)) = Len(s) - 1
         /\ Head(s) = s[1] /\ 1 \in Indices(s)
         /\ \A i \in Indices(Tail(s)) : i + 1 \in Indices(s) /\ Tail(s)[i] = s[i + 1]
         /\ Len(s) \in Nat /\ Len(s) > 0
<1>1. Tail(s) \in Seq(S) /\ Len(Tail(s)) = Len(s) - 1
      /\ \A i \in 1..Len(Tail(s)) : Tail(s)[i] = s[i + 1]
  BY HeadTailProperties
<1>2. Len(s) \in Nat /\ Len(s) > 0
  BY SeqFacts
<1>3. Head(s) = s[1]
  BY <1>2
<1> QED
  BY <1>1, <1>2, <1>3 DEF Indices

(* The parts of a listener and of a job. *)
LEMMA FieldTypes ==
  ASSUME TypeOK, NEW u \in User
  PROVE  /\ \A i \in Indices(listeners[u]) :
              /\ listeners[u][i] \in Listener /\ listeners[u][i].of \in User
              /\ listeners[u][i].for \in {"mine", "theirs"}
              /\ listeners[u][i].acc \in Items /\ listeners[u][i].told \in Doc
              /\ listeners[u][i].heard \in BOOLEAN
         /\ \A k \in Indices(mainq[u]) :
              /\ mainq[u][k] \in Callback /\ mainq[u][k].of \in User
              /\ mainq[u][k].data \in Doc /\ mainq[u][k].due \in SUBSET Nat
<1>1. listeners[u] \in Seq(Listener) /\ mainq[u] \in Seq(Callback)
  BY DEF TypeOK
<1>2. /\ \A i \in Indices(listeners[u]) : listeners[u][i] \in Listener
      /\ \A k \in Indices(mainq[u]) : mainq[u][k] \in Callback
  BY <1>1, SeqFacts
<1>3. \A l \in Listener : /\ l.of \in User /\ l.for \in {"mine", "theirs"}
                          /\ l.acc \in Items /\ l.told \in Doc /\ l.heard \in BOOLEAN
  BY DEF Listener
<1>4. \A j \in Callback : j.of \in User /\ j.data \in Doc /\ j.due \in SUBSET Nat
  BY DEF Callback
<1> QED
  BY <1>2, <1>3, <1>4

(* What a client shows of a document is a document. *)
LEMMA SeenType ==
  ASSUME TypeOK, NEW u \in User, NEW o \in User
  PROVE  Seen(u, o) \in Doc
<1>1. outbox[u] \in Seq(Items) /\ clothes[o] \in Doc
  BY DEF TypeOK
<1>2. CASE u = o /\ outbox[u] # << >>
  <2>1. outbox[u][Len(outbox[u])] \in Items
    BY <1>1, <1>2, SeqFacts DEF Indices
  <2> QED
    BY <1>2, <2>1 DEF Seen, Saved, Doc
<1>3. CASE ~(u = o /\ outbox[u] # << >>)
  BY <1>1, <1>3, Zenon DEF Seen
<1> QED
  BY <1>2, <1>3

(* A dictionary that was filled is a dictionary. *)
LEMMA DecodeType ==
  ASSUME NEW acc \in Items, NEW data \in Doc
  PROVE  /\ Decode(acc, data) \in Items /\ data.items \in Items
         /\ \A c \in Category : Decode(acc, data)[c] = IF data.items[c] = None THEN acc[c]
                                                       ELSE data.items[c]
BY DEF Decode, Items, Doc

(* A listener is added: the first on a document hears nothing yet, another *)
(* one is told what those before it know.                                  *)
LEMMA ListenEffect ==
  ASSUME TypeOK, NEW u \in User, NEW o \in User, NEW for \in {"mine", "theirs"},
         Listen(u, o, for)
  PROVE  /\ listeners' \in [User -> Seq(Listener)] /\ mainq' \in [User -> Seq(Callback)]
         /\ OthersSame(u)
         /\ u = o => Told(u, o) \cap Due(u, o) = {}
         /\ \/ Told(u, o) = {} /\ Grown(listeners'[u], listeners[u], NewListener(o, for, FALSE, NoDoc)) /\ mainq' = mainq
            \/ \E j \in Told(u, o) :
                 /\ Grown(listeners'[u], listeners[u],
                          NewListener(o, for, TRUE, listeners[u][j].told))
                 /\ Grown(mainq'[u], mainq[u],
                          Job(o, listeners[u][j].told, {Len(listeners[u]) + 1}))
<1> DEFINE new  == NewListener(o, for, FALSE, NoDoc)
           j    == CHOOSE i \in Told(u, o) : TRUE
           d    == listeners[u][j].told
           more == NewListener(o, for, TRUE, d)
           job  == Job(o, d, {Len(listeners[u]) + 1})
<1>1. /\ listeners \in [User -> Seq(Listener)] /\ listeners[u] \in Seq(Listener)
      /\ mainq \in [User -> Seq(Callback)] /\ mainq[u] \in Seq(Callback)
  BY DEF TypeOK
<1>2. Naked \in Items /\ NoDoc \in Doc
  BY DEF Naked, NoDoc, Items, Doc
<1>3. new \in Listener
  BY <1>2 DEF Listener, NewListener
<1>4. u = o => Told(u, o) \cap Due(u, o) = {}
  BY DEF Listen
<1>5. CASE Told(u, o) = {}
  <2>1. listeners' = [listeners EXCEPT ![u] = Append(listeners[u], new)] /\ mainq' = mainq
    BY <1>5 DEF Listen, NewListener
  <2> HIDE DEF new
  <2>2. Append(listeners[u], new) \in Seq(Listener)
        /\ Grown(Append(listeners[u], new), listeners[u], new)
    BY <1>1, <1>3, AppendFacts
  <2>3. listeners' \in [User -> Seq(Listener)] /\ listeners'[u] = Append(listeners[u], new)
        /\ OthersSame(u)
    BY <1>1, <2>1, <2>2 DEF OthersSame
  <2>4. Grown(listeners'[u], listeners[u], new)
    BY <2>2, <2>3, Zenon
  <2> QED
    BY <1>1, <1>4, <1>5, <2>1, <2>3, <2>4 DEF new
<1>6. CASE Told(u, o) # {}
  <2>1. j \in Told(u, o) /\ j \in Indices(listeners[u])
    BY <1>1, <1>6, SeqFacts DEF Told
  <2>2. listeners[u][j] \in Listener
    BY <1>1, <2>1, SeqFacts
  <2>3. d \in Doc
    BY <2>2 DEF Listener
  <2>4. Len(listeners[u]) + 1 \in Nat
    BY <1>1, SeqFacts
  <2>5. more \in Listener /\ job \in Callback
    BY <1>2, <2>3, <2>4 DEF Listener, Callback, NewListener, Job
  <2>6. listeners' = [listeners EXCEPT ![u] = Append(listeners[u], more)]
        /\ mainq' = [mainq EXCEPT ![u] = Append(mainq[u], job)]
    <3>1. [new EXCEPT !.heard = TRUE, !.told = d] = more
      <4> HIDE DEF d
      <4>1. more \in Listener /\ more.of = o /\ more.for = for /\ more.acc = Naked
            /\ more.heard = TRUE /\ more.told = d
        BY <2>5 DEF NewListener
      <4>2. new \in Listener /\ new.of = o /\ new.for = for /\ new.acc = Naked
        BY <1>3 DEF NewListener
      <4> HIDE DEF more, new
      <4> QED
        BY <2>3, <4>1, <4>2 DEF Listener
    <3>2. listeners' = [listeners EXCEPT ![u] = Append(listeners[u],
                          [new EXCEPT !.heard = TRUE, !.told = d])]
          /\ mainq' = [mainq EXCEPT ![u] = Append(mainq[u], job)]
      BY <1>6 DEF Listen, NewListener, Job
    <3> HIDE DEF new, more, job, d, j
    <3> QED
      BY <3>1, <3>2, Zenon
  <2> HIDE DEF new, more, job, d, j
  <2>7. /\ Append(listeners[u], more) \in Seq(Listener) /\ Append(mainq[u], job) \in Seq(Callback)
        /\ Grown(Append(listeners[u], more), listeners[u], more)
        /\ Grown(Append(mainq[u], job), mainq[u], job)
    BY <1>1, <2>5, AppendFacts
  <2>8. /\ listeners' \in [User -> Seq(Listener)] /\ listeners'[u] = Append(listeners[u], more)
        /\ mainq' \in [User -> Seq(Callback)] /\ mainq'[u] = Append(mainq[u], job)
        /\ OthersSame(u)
    BY <1>1, <2>6, <2>7 DEF OthersSame
  <2>9. Grown(listeners'[u], listeners[u], more) /\ Grown(mainq'[u], mainq[u], job)
    BY <2>7, <2>8, Zenon
  <2> QED
    BY <1>4, <2>1, <2>8, <2>9 DEF more, job, d
<1> QED
  BY <1>5, <1>6

(* The listeners that are due are told what the client shows. *)
Informs(u, o) ==
  /\ Len(listeners'[u]) = Len(listeners[u])
  /\ \A i \in Indices(listeners[u]) :
       /\ listeners'[u][i].of = listeners[u][i].of
       /\ listeners'[u][i].for = listeners[u][i].for
       /\ listeners'[u][i].acc = listeners[u][i].acc
       /\ i \in Due(u, o) => listeners'[u][i].heard /\ listeners'[u][i].told = Seen(u, o)
       /\ i \notin Due(u, o) => listeners'[u][i] = listeners[u][i]

(* All listeners that are due are told together, by one job. *)
LEMMA SnapshotEffect ==
  ASSUME TypeOK, NEW u \in User, NEW o \in User, Snapshot(u, o)
  PROVE  /\ listeners' \in [User -> Seq(Listener)] /\ mainq' \in [User -> Seq(Callback)]
         /\ OthersSame(u) /\ Informs(u, o) /\ Grown(mainq'[u], mainq[u], Job(o, Seen(u, o), Due(u, o)))
         /\ Due(u, o) # {} /\ Due(u, o) \subseteq Indices(listeners[u])
<1> DEFINE d   == Seen(u, o)
           D   == Due(u, o)
           job == Job(o, d, D)
           l   == listeners[u]
           n   == [i \in DOMAIN l |-> IF i \in D THEN [l[i] EXCEPT !.heard = TRUE, !.told = d]
                                      ELSE l[i]]
<1>1. /\ listeners \in [User -> Seq(Listener)] /\ l \in Seq(Listener)
      /\ mainq \in [User -> Seq(Callback)] /\ mainq[u] \in Seq(Callback)
  BY DEF TypeOK
<1>2. d \in Doc
  BY SeenType
<1>3. DOMAIN l = Indices(l) /\ Len(l) \in Nat /\ (\A i \in Indices(l) : l[i] \in Listener)
  BY <1>1, SeqFacts
<1>4. D \subseteq Indices(l) /\ D \subseteq Nat
  BY <1>3 DEF Due, Indices
<1>5. /\ D # {} /\ mainq' = [mainq EXCEPT ![u] = Append(mainq[u], job)]
      /\ listeners' = [listeners EXCEPT ![u] = n]
  BY DEF Snapshot, Job
<1> HIDE DEF l, d, D
<1>6. job \in Callback
  BY <1>2, <1>4 DEF Callback, Job
<1>7. \A i \in Indices(l) :
        /\ n[i] \in Listener /\ n[i].of = l[i].of /\ n[i].for = l[i].for /\ n[i].acc = l[i].acc
        /\ i \in D => n[i].heard /\ n[i].told = d
        /\ i \notin D => n[i] = l[i]
  <2> TAKE i \in Indices(l)
  <2>1. l[i] \in Listener /\ i \in DOMAIN l
    BY <1>3
  <2>2. CASE i \in D
    <3>1. n[i] = [l[i] EXCEPT !.heard = TRUE, !.told = d]
      BY <2>1, <2>2
    <3> HIDE DEF n
    <3> QED
      BY <1>2, <2>1, <2>2, <3>1 DEF Listener
  <2>3. CASE i \notin D
    <3>1. n[i] = l[i]
      BY <2>1, <2>3
    <3> HIDE DEF n
    <3> QED
      BY <2>1, <2>3, <3>1
  <2> QED
    BY <2>2, <2>3
<1>8. n \in Seq(Listener) /\ Len(n) = Len(l)
  <2>1. n \in [1..Len(l) -> Listener]
    BY <1>3, <1>7 DEF Indices
  <2> HIDE DEF n
  <2> QED
    BY <1>3, <2>1, IsASeq
<1> HIDE DEF n, job
<1>9. listeners' \in [User -> Seq(Listener)] /\ listeners'[u] = n
  BY <1>1, <1>5, <1>8
<1>10. Append(mainq[u], job) \in Seq(Callback) /\ Grown(Append(mainq[u], job), mainq[u], job)
  BY <1>1, <1>6, AppendFacts
<1>11. mainq' \in [User -> Seq(Callback)] /\ mainq'[u] = Append(mainq[u], job) /\ OthersSame(u)
  BY <1>1, <1>5, <1>10 DEF OthersSame
<1>12. Informs(u, o)
  BY <1>7, <1>8, <1>9, Zenon DEF Informs, l, d, D
<1>13. Grown(mainq'[u], mainq[u], job)
  BY <1>10, <1>11, Zenon
<1> QED
  BY <1>4, <1>5, <1>9, <1>11, <1>12, <1>13 DEF D, l, d, job

(* A listener fills the screen whose document it follows, and a job of the *)
(* main queue is for listeners on the document that it carries.            *)
Screens(u, l) == \A i \in Indices(l) : l[i].for = "mine" <=> l[i].of = u

Fits(l, j) == j.due # {} /\ \A i \in j.due : i \in Indices(l) /\ l[i].of = j.of

Wired(u) ==
  /\ Screens(u, listeners[u])
  /\ \A k \in Indices(mainq[u]) : Fits(listeners[u], mainq[u][k])

(* Of the listeners of u only i has changed, and only its dictionary. *)
Filled(u, i, acc) ==
  /\ Len(listeners'[u]) = Len(listeners[u])
  /\ listeners'[u][i].acc = acc
  /\ \A j \in Indices(listeners[u]) :
       /\ listeners'[u][j].of = listeners[u][j].of
       /\ listeners'[u][j].for = listeners[u][j].for
       /\ listeners'[u][j].heard = listeners[u][j].heard
       /\ listeners'[u][j].told = listeners[u][j].told
       /\ j # i => listeners'[u][j] = listeners[u][j]

(* The first job of u is done. *)
Popped(u) ==
  /\ Len(mainq'[u]) = Len(mainq[u]) - 1
  /\ \A k \in Indices(mainq'[u]) : /\ k + 1 \in Indices(mainq[u])
                                   /\ mainq'[u][k] = mainq[u][k + 1]

(* The first job of u is done for listener i. *)
Trimmed(u, i) ==
  /\ Len(mainq'[u]) = Len(mainq[u])
  /\ mainq'[u][1].due = mainq[u][1].due \ {i}
  /\ mainq'[u][1].of = mainq[u][1].of /\ mainq'[u][1].data = mainq[u][1].data
  /\ \A k \in Indices(mainq[u]) : k # 1 => mainq'[u][k] = mainq[u][k]

(* The callback of listener i has run. *)
Fired(u, i) ==
  /\ 1 \in Indices(mainq[u]) /\ i \in mainq[u][1].due /\ i \in Indices(listeners[u])
  /\ \A j \in mainq[u][1].due : i <= j
  /\ Filled(u, i, Decode(listeners[u][i].acc, mainq[u][1].data))
  /\ \/ mainq[u][1].due = {i} /\ Popped(u)
     \/ mainq[u][1].due # {i} /\ Trimmed(u, i)
  /\ mine' = IF listeners[u][i].for = "mine"
             THEN [mine EXCEPT ![u] = Decode(listeners[u][i].acc, mainq[u][1].data)] ELSE mine
  /\ theirs' = IF listeners[u][i].for = "theirs"
               THEN [theirs EXCEPT ![u] = Decode(listeners[u][i].acc, mainq[u][1].data)]
               ELSE theirs

(* Callbacks run in order, those of one job by the age of the listeners. *)
LEMMA CallbackEffect ==
  ASSUME TypeOK, NEW u \in User, Wired(u), OnSnapshot(u)
  PROVE  /\ listeners' \in [User -> Seq(Listener)] /\ mainq' \in [User -> Seq(Callback)]
         /\ mine' \in [User -> Items] /\ theirs' \in [User -> Items]
         /\ OthersSame(u)
         /\ \E i \in Indices(listeners[u]) : Fired(u, i)
<1> DEFINE q   == mainq[u]
           job == Head(mainq[u])
           i   == First(job.due)
           l   == listeners[u]
           acc == Decode(l[i].acc, job.data)
           r   == IF job.due = {i} THEN Tail(q) ELSE [q EXCEPT ![1].due = job.due \ {i}]
           m   == [l EXCEPT ![i].acc = acc]
<1>1. /\ listeners \in [User -> Seq(Listener)] /\ l \in Seq(Listener)
      /\ mainq \in [User -> Seq(Callback)] /\ q \in Seq(Callback)
      /\ mine \in [User -> Items] /\ theirs \in [User -> Items]
  BY DEF TypeOK
<1>2. q # << >>
  BY DEF OnSnapshot
<1>3. /\ Tail(q) \in Seq(Callback) /\ Len(Tail(q)) = Len(q) - 1
      /\ job = q[1] /\ 1 \in Indices(q) /\ Len(q) \in Nat
      /\ \A k \in Indices(Tail(q)) : k + 1 \in Indices(q) /\ Tail(q)[k] = q[k + 1]
  BY <1>1, <1>2, TailFacts
<1>4. job \in Callback
  BY <1>1, <1>3, SeqFacts
<1>5. job.due \in SUBSET Nat /\ job.data \in Doc
  BY <1>4 DEF Callback
<1>6. job.due # {} /\ job.due \subseteq Indices(l)
  BY <1>3 DEF Wired, Fits
<1>7. i \in job.due /\ (\A j \in job.due : i <= j) /\ i \in Indices(l)
  BY <1>5, <1>6, FirstLeast
<1>8. l[i] \in Listener /\ DOMAIN l = Indices(l) /\ Len(l) \in Nat
      /\ \A j \in Indices(l) : l[j] \in Listener
  BY <1>1, <1>7, SeqFacts
<1>9. acc \in Items
  BY <1>5, <1>8, DecodeType DEF Listener
<1>10. /\ listeners' = [listeners EXCEPT ![u] = m]
       /\ mine' = IF l[i].for = "mine" THEN [mine EXCEPT ![u] = acc] ELSE mine
       /\ theirs' = IF l[i].for = "theirs" THEN [theirs EXCEPT ![u] = acc] ELSE theirs
       /\ mainq' = [mainq EXCEPT ![u] = r]
  BY DEF OnSnapshot
<1> HIDE DEF i, acc, job
<1>11. m \in Seq(Listener) /\ Len(m) = Len(l) /\ m[i].acc = acc
       /\ \A j \in Indices(l) :
            /\ m[j].of = l[j].of /\ m[j].for = l[j].for
            /\ m[j].heard = l[j].heard /\ m[j].told = l[j].told
            /\ j # i => m[j] = l[j]
  <2> DEFINE x == [l[i] EXCEPT !.acc = acc]
  <2>1. x \in Listener /\ x.of = l[i].of /\ x.for = l[i].for /\ x.heard = l[i].heard
        /\ x.told = l[i].told /\ x.acc = acc
    BY <1>8, <1>9 DEF Listener
  <2>2. m = [l EXCEPT ![i] = x]
    OBVIOUS
  <2> HIDE DEF x, m, l
  <2>3. m \in Seq(Listener) /\ Len(m) = Len(l)
        /\ \A j \in 1..Len(l) : m[j] = IF j = i THEN x ELSE l[j]
    BY <1>1, <1>7, <1>8, <2>1, <2>2, ExceptSeq DEF Indices
  <2> QED
    BY <1>7, <2>1, <2>3 DEF Indices
<1>12. CASE job.due = {i}
  <2>1. r = Tail(q)
    BY <1>12
  <2> HIDE DEF r, m, q, l
  <2>2. listeners' \in [User -> Seq(Listener)] /\ listeners'[u] = m /\ OthersSame(u)
    BY <1>1, <1>3, <1>10, <1>11, <2>1 DEF OthersSame
  <2>3. mainq' \in [User -> Seq(Callback)] /\ mainq'[u] = Tail(q)
    BY <1>1, <1>3, <1>10, <2>1
  <2>4. mine' \in [User -> Items] /\ theirs' \in [User -> Items]
    BY <1>1, <1>9, <1>10
  <2>5. Popped(u)
    BY <1>3, <2>3, Zenon DEF Popped, q
  <2>6. Filled(u, i, acc)
    BY <1>11, <2>2, Zenon DEF Filled, l
  <2>7. Fired(u, i)
    BY <1>3, <1>7, <1>10, <1>12, <2>5, <2>6, Zenon DEF Fired, l, q, acc
  <2> QED
    BY <1>7, <2>2, <2>3, <2>4, <2>7 DEF l
<1>13. CASE job.due # {i}
  <2> DEFINE y == [q[1] EXCEPT !.due = job.due \ {i}]
  <2>1. y \in Callback /\ y.due = q[1].due \ {i} /\ y.of = q[1].of /\ y.data = q[1].data
    BY <1>3, <1>4, <1>5 DEF Callback
  <2>2. r = [q EXCEPT ![1] = y]
    BY <1>13
  <2> HIDE DEF r, y, m, q, l
  <2>3. r \in Seq(Callback) /\ Len(r) = Len(q)
        /\ \A k \in 1..Len(q) : r[k] = IF k = 1 THEN y ELSE q[k]
    BY <1>1, <1>3, <2>1, <2>2, ExceptSeq, SeqFacts DEF Indices
  <2>4. listeners' \in [User -> Seq(Listener)] /\ listeners'[u] = m /\ OthersSame(u)
    BY <1>1, <1>10, <1>11, <2>3 DEF OthersSame
  <2>5. mainq' \in [User -> Seq(Callback)] /\ mainq'[u] = r
    BY <1>1, <1>10, <2>3
  <2>6. mine' \in [User -> Items] /\ theirs' \in [User -> Items]
    BY <1>1, <1>9, <1>10
  <2>7. r[1] = y /\ \A k \in Indices(q) : k # 1 => r[k] = q[k]
    BY <1>3, <2>3 DEF Indices
  <2>8. Trimmed(u, i)
    BY <2>1, <2>3, <2>5, <2>7, Zenon DEF Trimmed, q
  <2>9. Filled(u, i, acc)
    BY <1>11, <2>4, Zenon DEF Filled, l
  <2>10. Fired(u, i)
    BY <1>3, <1>7, <1>10, <1>13, <2>8, <2>9, Zenon DEF Fired, l, q, acc
  <2> QED
    BY <1>7, <2>4, <2>5, <2>6, <2>10 DEF l
<1> QED
  BY <1>12, <1>13

-----------------------------------------------------------------------------
(* Types, and which listener is for which screen *)

(* The partner is somebody else, and there is one to ask for. *)
Coded(u) == partner_code[u] # u /\ (fetches[u] > 0 => partner_code[u] # "nil")

Routed == \A u \in User : Coded(u) /\ Wired(u)

Base == TypeOK /\ Routed

(* Before anything is loaded. *)
LEMMA InitBase == Init => Base
<1> SUFFICES ASSUME Init PROVE Base
  OBVIOUS
<1>1. Naked \in Items
  BY DEF Naked, Items
<1>2. /\ mine \in [User -> Items] /\ theirs \in [User -> Items]
      /\ sheet \in [User -> BOOLEAN] /\ calm \in [User -> BOOLEAN]
      /\ partner_code \in [User -> User \cup {"nil"}]
      /\ requests \in [User -> Nat] /\ fetches \in [User -> Nat] /\ links \in [User -> Nat]
      /\ clothes \in [User -> Doc]
  BY <1>1 DEF Init, NoDoc, Doc
<1>3. /\ listeners \in [User -> Seq(Listener)] /\ mainq \in [User -> Seq(Callback)]
      /\ outbox \in [User -> Seq(Items)] /\ saved \in [User -> Seq(Items)]
  BY EmptySeq DEF Init
<1>4. \A u \in User : listeners[u] = << >> /\ mainq[u] = << >> /\ partner_code[u] = "nil"
                      /\ fetches[u] = 0
  BY DEF Init
<1>5. Indices(<< >>) = {}
  BY EmptySeq DEF Indices
<1>6. Routed
  BY <1>4, <1>5, UserAssumption DEF Routed, Coded, Wired, Screens
<1> QED
  BY <1>2, <1>3, <1>6 DEF Base, TypeOK

(* What a step that touches neither listeners nor jobs leaves as it is. *)
LEMMA WiredSame ==
  ASSUME Routed, UNCHANGED <<listeners, mainq, partner_code, fetches>>
  PROVE  Routed'
BY DEF Routed, Coded, Wired

(* The picker. *)
LEMMA DressingBase ==
  ASSUME Base, NEW u \in Editor, Dressing(u)
  PROVE  Base' /\ UNCHANGED <<listeners, mainq, partner_code, fetches, theirs, clothes>>
<1>1. u \in User
  BY UserAssumption
<1>2. UNCHANGED <<listeners, mainq, partner_code, fetches, theirs, clothes, links>>
  BY DEF Dressing, OpenSheet, Reset, Finish, Cancel, TakeOff, Wear
<1>3. Routed'
  BY <1>2, WiredSame DEF Base
<1>4. mine[u] \in Items /\ outbox[u] \in Seq(Items) /\ saved[u] \in Seq(Items)
      /\ requests[u] \in Nat
  BY <1>1 DEF Base, TypeOK
<1>5. mine' \in [User -> Items]
  <2>1. CASE UNCHANGED mine
    BY <2>1 DEF Base, TypeOK
  <2>2. CASE Reset(u)
    <3> DEFINE m == [c \in Category |-> IF mine[u][c] = None THEN None ELSE Blank]
    <3>1. m \in Items
      BY DEF Items
    <3>2. mine' = [mine EXCEPT ![u] = m]
      BY <2>2 DEF Reset
    <3> HIDE DEF m
    <3> QED
      BY <1>1, <3>1, <3>2 DEF Base, TypeOK
  <2>3. ASSUME NEW c \in Category, NEW k \in Cloth \cup {None},
               mine' = [mine EXCEPT ![u][c] = k]
        PROVE  mine' \in [User -> Items]
    <3>1. [mine[u] EXCEPT ![c] = k] \in Items
      BY <1>4, <2>3 DEF Items
    <3> QED
      BY <1>1, <2>3, <3>1 DEF Base, TypeOK
  <2> QED
    BY <2>1, <2>2, <2>3 DEF Dressing, OpenSheet, Finish, Cancel, TakeOff, Wear
<1>6. sheet' \in [User -> BOOLEAN] /\ calm' \in [User -> BOOLEAN]
  <2>1. UpToDate(u) \in BOOLEAN
    BY DEF UpToDate
  <2>2. /\ sheet' = sheet \/ (\E b \in BOOLEAN : sheet' = [sheet EXCEPT ![u] = b])
        /\ calm' = calm \/ (\E b \in BOOLEAN : calm' = [calm EXCEPT ![u] = b])
    BY <2>1, Zenon DEF Dressing, OpenSheet, Reset, Finish, Cancel, TakeOff, Wear
  <2> QED
    BY <1>1, <2>2 DEF Base, TypeOK
<1>7. requests' \in [User -> Nat]
  <2>1. requests[u] + 1 \in Nat
    BY <1>4
  <2>2. requests' = requests \/ requests' = [requests EXCEPT ![u] = requests[u] + 1]
    BY DEF Dressing, OpenSheet, Reset, Finish, Cancel, TakeOff, Wear
  <2> QED
    BY <1>1, <2>1, <2>2 DEF Base, TypeOK
<1>8. outbox' \in [User -> Seq(Items)] /\ saved' \in [User -> Seq(Items)]
  <2>1. Append(outbox[u], mine[u]) \in Seq(Items) /\ Append(saved[u], mine[u]) \in Seq(Items)
    BY <1>4, AppendFacts
  <2>2. CASE Finish(u)
    BY <1>1, <2>1, <2>2 DEF Finish, Base, TypeOK
  <2>3. CASE UNCHANGED <<outbox, saved>>
    BY <2>3 DEF Base, TypeOK
  <2> QED
    BY <2>2, <2>3 DEF Dressing, OpenSheet, Reset, Cancel, TakeOff, Wear
<1> QED
  BY <1>2, <1>3, <1>5, <1>6, <1>7, <1>8 DEF Base, TypeOK

(* Another partner. *)
LEMMA LinkedBase ==
  ASSUME Base, NEW u \in Viewer, NEW p \in User, Linked(u, p)
  PROVE  Base' /\ UNCHANGED <<listeners, mainq, theirs, clothes, saved, outbox>>
<1>1. u \in User
  BY UserAssumption
<1>2. /\ UNCHANGED <<mine, theirs, sheet, calm, requests, listeners, mainq, outbox, clothes, saved>>
      /\ partner_code' = [partner_code EXCEPT ![u] = p]
      /\ fetches' = [fetches EXCEPT ![u] = fetches[u] + 1]
      /\ links' = [links EXCEPT ![u] = links[u] + 1] /\ u # p
  BY DEF Linked
<1>3. TypeOK'
  <2>1. fetches[u] + 1 \in Nat /\ links[u] + 1 \in Nat
    BY <1>1 DEF Base, TypeOK
  <2>2. partner_code' \in [User -> User \cup {"nil"}]
    BY <1>1, <1>2 DEF Base, TypeOK
  <2>3. fetches' \in [User -> Nat] /\ links' \in [User -> Nat]
    BY <1>1, <1>2, <2>1 DEF Base, TypeOK
  <2> QED
    BY <1>2, <2>2, <2>3 DEF Base, TypeOK
<1>4. Routed'
  <2> SUFFICES ASSUME NEW v \in User PROVE Coded(v)' /\ Wired(v)'
    BY DEF Routed
  <2>1. partner_code'[v] # v /\ (fetches'[v] > 0 => partner_code'[v] # "nil")
    BY <1>1, <1>2, UserAssumption DEF Base, TypeOK, Routed, Coded, Wired
  <2> QED
    BY <1>2, <2>1 DEF Base, Routed, Coded, Wired
<1> QED
  BY <1>2, <1>3, <1>4 DEF Base

(* The server takes a write. *)
LEMMA CommitBase ==
  ASSUME Base, NEW u \in User, Commit(u)
  PROVE  Base'
<1>1. outbox[u] \in Seq(Items) /\ outbox[u] # << >>
  BY DEF Base, TypeOK, Commit
<1>2. Tail(outbox[u]) \in Seq(Items) /\ Head(outbox[u]) \in Items
  BY <1>1, HeadTailProperties
<1>3. Saved(Head(outbox[u])) \in Doc
  BY <1>2 DEF Saved, Doc
<1>4. clothes' \in [User -> Doc] /\ outbox' \in [User -> Seq(Items)]
  BY <1>2, <1>3 DEF Commit, Base, TypeOK
<1>5. Routed'
  BY WiredSame DEF Commit, Base
<1> QED
  BY <1>4, <1>5 DEF Commit, Base, TypeOK

(* Listeners that differ in what they have heard only. *)
LEMMA SameScreens ==
  ASSUME NEW u, NEW l, NEW m, Len(m) = Len(l),
         \A i \in Indices(l) : m[i].of = l[i].of /\ m[i].for = l[i].for
  PROVE  /\ Screens(u, l) => Screens(u, m)
         /\ \A j : Fits(l, j) => Fits(m, j)
BY DEF Screens, Fits, Indices

(* One listener more. *)
LEMMA MoreScreens ==
  ASSUME NEW u, NEW l \in Seq(Listener), NEW m, NEW x, Grown(m, l, x),
         x.for = "mine" <=> x.of = u
  PROVE  /\ Screens(u, l) => Screens(u, m)
         /\ \A j : Fits(l, j) => Fits(m, j)
         /\ \A d : Fits(m, Job(x.of, d, {Len(l) + 1}))
<1>1. Len(l) \in Nat
  BY SeqFacts
<1>2. /\ \A i \in Indices(m) : i \in Indices(l) \/ i = Len(l) + 1
      /\ \A i \in Indices(l) : i \in Indices(m)
      /\ Len(l) + 1 \in Indices(m)
  BY <1>1 DEF Grown, Indices
<1>3. m[Len(l) + 1] = x /\ \A i \in Indices(l) : m[i] = l[i]
  BY DEF Grown
<1>4. Screens(u, l) => Screens(u, m)
  BY <1>2, <1>3 DEF Screens
<1>5. \A j : Fits(l, j) => Fits(m, j)
  BY <1>2, <1>3 DEF Fits
<1>6. ASSUME NEW d PROVE Fits(m, Job(x.of, d, {Len(l) + 1}))
  BY <1>2, <1>3 DEF Fits, Job
<1> QED
  BY <1>4, <1>5, <1>6

(* One job more. *)
LEMMA MoreJobs ==
  ASSUME NEW l, NEW q \in Seq(Callback), NEW r, NEW x, Grown(r, q, x), Fits(l, x),
         \A k \in Indices(q) : Fits(l, q[k])
  PROVE  \A k \in Indices(r) : Fits(l, r[k])
<1>1. Len(q) \in Nat
  BY SeqFacts
<1>2. \A k \in Indices(r) : k \in Indices(q) \/ k = Len(q) + 1
  BY <1>1 DEF Grown, Indices
<1> QED
  BY <1>2 DEF Grown

(* A listener is added. *)
LEMMA ListenWired ==
  ASSUME Base, NEW u \in User, NEW o \in User, NEW for \in {"mine", "theirs"},
         for = "mine" <=> o = u, Listen(u, o, for)
  PROVE  \A v \in User : Wired(v)'
<1> SUFFICES ASSUME NEW v \in User PROVE Wired(v)'
  OBVIOUS
<1>1. TypeOK /\ Wired(v)
  BY DEF Base, Routed
<1>2. listeners[u] \in Seq(Listener) /\ mainq[u] \in Seq(Callback)
  BY <1>1 DEF TypeOK
<1>3. CASE v # u
  <2>1. listeners'[v] = listeners[v] /\ mainq'[v] = mainq[v]
    BY <1>1, <1>3, ListenEffect DEF OthersSame
  <2> QED
    BY <1>1, <2>1, Zenon DEF Wired
<1>4. CASE v = u
  <2> DEFINE l == listeners[u]
             m == listeners'[u]
  <2>1. PICK heard, told : Grown(m, l, NewListener(o, for, heard, told))
    BY <1>1, ListenEffect
  <2> DEFINE x == NewListener(o, for, heard, told)
  <2>2. x.of = o /\ x.for = for
    BY DEF NewListener
  <2>3. Grown(m, l, x)
    BY <2>1
  <2> HIDE DEF x, l, m
  <2>4. /\ Screens(u, l) => Screens(u, m)
        /\ \A j : Fits(l, j) => Fits(m, j)
        /\ \A d : Fits(m, Job(o, d, {Len(l) + 1}))
    BY <1>2, <2>2, <2>3, MoreScreens DEF l
  <2>5. Screens(u, m) /\ \A k \in Indices(mainq[u]) : Fits(m, mainq[u][k])
    BY <1>1, <1>4, <2>4 DEF Wired, l
  <2>6. CASE mainq' = mainq
    BY <1>4, <2>5, <2>6 DEF Wired, m
  <2>7. CASE \E d : Grown(mainq'[u], mainq[u], Job(o, d, {Len(l) + 1}))
    <3>1. PICK d : Grown(mainq'[u], mainq[u], Job(o, d, {Len(l) + 1}))
      BY <2>7
    <3> DEFINE j == Job(o, d, {Len(l) + 1})
    <3>2. Fits(m, j) /\ Grown(mainq'[u], mainq[u], j)
      BY <2>4, <3>1
    <3> HIDE DEF j
    <3>3. \A k \in Indices(mainq'[u]) : Fits(m, mainq'[u][k])
      BY <1>2, <2>5, <3>2, MoreJobs
    <3> QED
      BY <1>4, <2>5, <3>3 DEF Wired, m
  <2> QED
    BY <1>1, <2>6, <2>7, ListenEffect DEF l
<1> QED
  BY <1>3, <1>4

(* requestClothes. *)
LEMMA RequestClothesBase ==
  ASSUME Base, NEW u \in User, RequestClothes(u)
  PROVE  Base'
<1>1. /\ requests[u] > 0 /\ requests' = [requests EXCEPT ![u] = requests[u] - 1]
      /\ Listen(u, u, "mine")
      /\ UNCHANGED <<mine, theirs, sheet, calm, partner_code, fetches, outbox, clothes, saved, links>>
  BY DEF RequestClothes
<1>2. requests' \in [User -> Nat]
  <2>1. requests[u] - 1 \in Nat
    BY <1>1 DEF Base, TypeOK
  <2> QED
    BY <1>1, <2>1 DEF Base, TypeOK
<1>3. listeners' \in [User -> Seq(Listener)] /\ mainq' \in [User -> Seq(Callback)]
  BY <1>1, ListenEffect DEF Base
<1>4. \A v \in User : Wired(v)'
  BY <1>1, ListenWired
<1>5. \A v \in User : Coded(v)'
  BY <1>1 DEF Base, Routed, Coded
<1> QED
  BY <1>1, <1>2, <1>3, <1>4, <1>5 DEF Base, TypeOK, Routed

(* requestPartnerClothes. *)
LEMMA RequestPartnerClothesBase ==
  ASSUME Base, NEW u \in User, RequestPartnerClothes(u)
  PROVE  Base' /\ partner_code[u] \in User /\ partner_code[u] # u
<1>1. /\ fetches[u] > 0 /\ fetches' = [fetches EXCEPT ![u] = fetches[u] - 1]
      /\ Listen(u, partner_code[u], "theirs")
      /\ UNCHANGED <<mine, theirs, sheet, calm, partner_code, requests, outbox, clothes, saved, links>>
  BY DEF RequestPartnerClothes
<1>2. partner_code[u] \in User /\ partner_code[u] # u
  BY <1>1 DEF Base, TypeOK, Routed, Coded
<1>3. fetches' \in [User -> Nat]
  <2>1. fetches[u] - 1 \in Nat
    BY <1>1 DEF Base, TypeOK
  <2> QED
    BY <1>1, <2>1 DEF Base, TypeOK
<1>4. listeners' \in [User -> Seq(Listener)] /\ mainq' \in [User -> Seq(Callback)]
  BY <1>1, <1>2, ListenEffect DEF Base
<1>5. \A v \in User : Wired(v)'
  BY <1>1, <1>2, ListenWired
<1>6. \A v \in User : Coded(v)'
  BY <1>1, <1>2 DEF Base, Routed, Coded, TypeOK
<1> QED
  BY <1>1, <1>2, <1>3, <1>4, <1>5, <1>6 DEF Base, TypeOK, Routed

(* Firestore tells the listeners. *)
LEMMA SnapshotBase ==
  ASSUME Base, NEW u \in User, NEW o \in User, Snapshot(u, o)
  PROVE  Base'
<1>1. TypeOK /\ listeners[u] \in Seq(Listener) /\ mainq[u] \in Seq(Callback)
  BY DEF Base, TypeOK
<1>2. Len(listeners[u]) \in Nat /\ Len(mainq[u]) \in Nat
      /\ (\A i \in Indices(listeners[u]) : listeners[u][i] \in Listener)
  BY <1>1, SeqFacts
<1>3. listeners' \in [User -> Seq(Listener)] /\ mainq' \in [User -> Seq(Callback)]
  BY <1>1, SnapshotEffect
<1>4. OthersSame(u) /\ Informs(u, o) /\ Grown(mainq'[u], mainq[u], Job(o, Seen(u, o), Due(u, o)))
      /\ Due(u, o) # {} /\ Due(u, o) \subseteq Indices(listeners[u])
  BY <1>1, SnapshotEffect
<1>5. UNCHANGED <<mine, theirs, sheet, calm, partner_code, requests, fetches, outbox,
                  clothes, saved, links>>
  BY DEF Snapshot
<1>6. \A v \in User : Coded(v)'
  BY <1>5 DEF Base, Routed, Coded
<1>7. ASSUME NEW v \in User PROVE Wired(v)'
  <2>1. Wired(v)
    BY DEF Base, Routed
  <2>2. CASE v # u
    <3>1. listeners'[v] = listeners[v] /\ mainq'[v] = mainq[v]
      BY <1>4, <2>2 DEF OthersSame
    <3> QED
      BY <2>1, <3>1, Zenon DEF Wired
  <2>3. CASE v = u
    <3>1. /\ Screens(u, listeners[u]) => Screens(u, listeners'[u])
          /\ \A j : Fits(listeners[u], j) => Fits(listeners'[u], j)
      BY <1>4, SameScreens DEF Informs
    <3>2. Fits(listeners[u], Job(o, Seen(u, o), Due(u, o)))
      <4>1. \A i \in Due(u, o) : i \in Indices(listeners[u]) /\ listeners[u][i].of = o
        BY <1>4 DEF Due
      <4> QED
        BY <1>4, <4>1 DEF Fits, Job
    <3>3. \A k \in Indices(mainq[u]) : Fits(listeners'[u], mainq[u][k])
      BY <2>1, <2>3, <3>1 DEF Wired
    <3>4. \A k \in Indices(mainq'[u]) : Fits(listeners'[u], mainq'[u][k])
      BY <1>1, <1>4, <3>1, <3>2, <3>3, MoreJobs
    <3> QED
      BY <2>1, <2>3, <3>1, <3>4 DEF Wired
  <2> QED
    BY <2>2, <2>3
<1> QED
  BY <1>3, <1>5, <1>6, <1>7 DEF Base, TypeOK, Routed

(* A callback runs. *)
LEMMA CallbackBase ==
  ASSUME Base, NEW u \in User, OnSnapshot(u)
  PROVE  Base'
<1>1. TypeOK /\ Wired(u) /\ mainq[u] \in Seq(Callback)
  BY DEF Base, Routed, TypeOK
<1>2. Len(mainq[u]) \in Nat
  BY <1>1, SeqFacts
<1>3. /\ listeners' \in [User -> Seq(Listener)] /\ mainq' \in [User -> Seq(Callback)]
      /\ mine' \in [User -> Items] /\ theirs' \in [User -> Items] /\ OthersSame(u)
  BY <1>1, CallbackEffect
<1>4. PICK i \in Indices(listeners[u]) : Fired(u, i)
  BY <1>1, CallbackEffect
<1>5. UNCHANGED <<sheet, calm, partner_code, requests, fetches, outbox, clothes, saved, links>>
  BY DEF OnSnapshot
<1>6. \A v \in User : Coded(v)'
  BY <1>5 DEF Base, Routed, Coded
<1>7. ASSUME NEW v \in User PROVE Wired(v)'
  <2>1. Wired(v)
    BY DEF Base, Routed
  <2>2. CASE v # u
    <3>1. listeners'[v] = listeners[v] /\ mainq'[v] = mainq[v]
      BY <1>3, <2>2 DEF OthersSame
    <3> QED
      BY <2>1, <3>1, Zenon DEF Wired
  <2>3. CASE v = u
    <3>1. /\ Screens(u, listeners[u]) => Screens(u, listeners'[u])
          /\ \A j : Fits(listeners[u], j) => Fits(listeners'[u], j)
      BY <1>4, SameScreens DEF Fired, Filled
    <3>2. \A k \in Indices(mainq[u]) : Fits(listeners'[u], mainq[u][k])
      BY <2>1, <2>3, <3>1 DEF Wired
    <3>3. CASE Popped(u)
      <4>1. \A k \in Indices(mainq'[u]) : Fits(listeners'[u], mainq'[u][k])
        BY <3>2, <3>3 DEF Popped
      <4> QED
        BY <2>1, <2>3, <3>1, <4>1 DEF Wired
    <3>4. CASE Trimmed(u, i) /\ mainq[u][1].due # {i}
      <4>1. /\ mainq'[u][1].due # {} /\ mainq'[u][1].due \subseteq mainq[u][1].due
            /\ mainq'[u][1].of = mainq[u][1].of /\ 1 \in Indices(mainq[u])
        BY <1>4, <3>4 DEF Trimmed, Fired
      <4>2. Fits(listeners'[u], mainq'[u][1])
        BY <3>2, <4>1 DEF Fits
      <4>3. \A k \in Indices(mainq'[u]) : Fits(listeners'[u], mainq'[u][k])
        <5>1. Indices(mainq'[u]) = Indices(mainq[u])
          BY <3>4, Zenon DEF Trimmed, Indices
        <5> QED
          BY <3>2, <3>4, <4>2, <5>1 DEF Trimmed
      <4> QED
        BY <2>1, <2>3, <3>1, <4>3 DEF Wired
    <3> QED
      BY <1>4, <3>3, <3>4 DEF Fired
  <2> QED
    BY <2>2, <2>3
<1> QED
  BY <1>3, <1>5, <1>6, <1>7 DEF Base, TypeOK, Routed

(* Base is inductive. *)
LEMMA NextBase == Base /\ [Next]_vars => Base'
<1> SUFFICES ASSUME Base, [Next]_vars PROVE Base'
  OBVIOUS
<1>1. CASE UNCHANGED vars
  BY <1>1 DEF vars, Base, TypeOK, Routed, Coded, Wired
<1>2. ASSUME NEW u \in User, Loading(u) PROVE Base'
  BY <1>2, RequestClothesBase, RequestPartnerClothesBase, CommitBase, CallbackBase,
     SnapshotBase DEF Loading
<1> QED
  BY <1>1, <1>2, DressingBase, LinkedBase DEF Next

(* Every reachable state has the stated types: a job of the main queue is  *)
(* never for a listener that is not there, and nothing is asked for while  *)
(* there is no partner.                                                    *)
THEOREM TypeCorrect == Spec => []TypeOK
<1>1. Spec => []Base
  BY InitBase, NextBase, PTL DEF Spec
<1>2. Base => TypeOK
  BY DEF Base
<1> QED
  BY <1>1, <1>2, PTL

-----------------------------------------------------------------------------
(* Nothing is invented: what a listener has heard, what waits in the main  *)
(* queue and what is under way to the server was saved by the owner of the *)
(* document, for that category                                             *)

(* The outfits s have every cloth of items, in its category. *)
From(s, items) ==
  \A c \in Category : items[c] \in Cloth => \E i \in Indices(s) : s[i][c] = items[c]

Honest(S, l) == From(S[l.of], l.acc) /\ From(S[l.of], l.told.items)

Uploaded(p) ==
  /\ From(saved[p], clothes[p].items)
  /\ \A i \in Indices(outbox[p]) : From(saved[p], outbox[p][i])

Informed(u) ==
  /\ \A i \in Indices(listeners[u]) : Honest(saved, listeners[u][i])
  /\ \A k \in Indices(mainq[u]) : From(saved[mainq[u][k].of], mainq[u][k].data.items)

(* What u sees of the partner is from somebody else. *)
Visited(S, u, items) ==
  \A c \in Category : items[c] \in Cloth =>
    \E p \in User \ {u} : \E i \in Indices(S[p]) : S[p][i][c] = items[c]

Genuine == \A u \in User : Uploaded(u) /\ Informed(u) /\ Visited(saved, u, theirs[u])

(* Nothing comes from nowhere. *)
LEMMA FromNaked == \A s : From(s, Naked) /\ From(s, NoDoc.items)
<1>1. None \notin Cloth
  BY ClothAssumption DEF None
<1> QED
  BY <1>1 DEF From, Naked, NoDoc

(* One outfit more. *)
LEMMA FromMore ==
  ASSUME NEW s \in Seq(Items), NEW x, NEW t, Grown(t, s, x)
  PROVE  (\A items : From(s, items) => From(t, items)) /\ From(t, x)
<1>1. Len(s) \in Nat
  BY SeqFacts
<1>2. (\A i \in Indices(s) : i \in Indices(t) /\ t[i] = s[i])
      /\ Len(s) + 1 \in Indices(t) /\ t[Len(s) + 1] = x
  BY <1>1 DEF Grown, Indices
<1> QED
  BY <1>2 DEF From

(* Decoding adds what the document has to what was there. *)
LEMMA FromDecode ==
  ASSUME NEW acc \in Items, NEW data \in Doc, NEW s, From(s, acc), From(s, data.items)
  PROVE  From(s, Decode(acc, data))
BY DecodeType DEF From

(* What somebody else has saved. *)
LEMMA FromVisited ==
  ASSUME NEW S, NEW u \in User, NEW p \in User, p # u, NEW items, From(S[p], items)
  PROVE  Visited(S, u, items)
BY DEF From, Visited

(* More outfits have been saved. *)
LEMMA SavedMore ==
  ASSUME TypeOK, NEW u \in User, NEW x \in Items, saved' = [saved EXCEPT ![u] = Append(@, x)]
  PROVE  /\ \A p \in User : \A items : From(saved[p], items) => From(saved'[p], items)
         /\ From(saved'[u], x)
         /\ \A v \in User : \A items : Visited(saved, v, items) => Visited(saved', v, items)
<1>1. saved[u] \in Seq(Items) /\ saved \in [User -> Seq(Items)]
  BY DEF TypeOK
<1>2. Append(saved[u], x) \in Seq(Items) /\ Grown(Append(saved[u], x), saved[u], x)
  BY <1>1, AppendFacts
<1>3. saved'[u] = Append(saved[u], x) /\ \A p \in User : p # u => saved'[p] = saved[p]
  BY <1>1
<1>4. Grown(saved'[u], saved[u], x)
  BY <1>2, <1>3, Zenon
<1>5. (\A items : From(saved[u], items) => From(saved'[u], items)) /\ From(saved'[u], x)
  BY <1>1, <1>4, FromMore
<1>6. \A p \in User : \A items : From(saved[p], items) => From(saved'[p], items)
  BY <1>3, <1>5
<1>7. \A p \in User : \A i \in Indices(saved[p]) : i \in Indices(saved'[p]) /\ saved'[p][i] = saved[p][i]
  <2>1. Len(saved[u]) \in Nat
    BY <1>1, SeqFacts
  <2>2. \A i \in Indices(saved[u]) : i \in Indices(saved'[u]) /\ saved'[u][i] = saved[u][i]
    BY <1>4, <2>1 DEF Grown, Indices
  <2> QED
    BY <1>3, <2>2
<1>8. \A v \in User : \A items : Visited(saved, v, items) => Visited(saved', v, items)
  <2> SUFFICES ASSUME NEW v \in User, NEW items, Visited(saved, v, items), NEW c \in Category,
                      items[c] \in Cloth
               PROVE  \E p \in User \ {v} : \E i \in Indices(saved'[p]) : saved'[p][i][c] = items[c]
    BY DEF Visited
  <2>1. PICK p \in User \ {v} : \E i \in Indices(saved[p]) : saved[p][i][c] = items[c]
    BY DEF Visited
  <2>2. \E i \in Indices(saved'[p]) : saved'[p][i][c] = items[c]
    BY <1>7, <2>1
  <2> QED
    BY <2>1, <2>2
<1> QED
  BY <1>5, <1>6, <1>8

(* Nothing is there at first. *)
LEMMA InitGenuine == Init => Genuine
<1> SUFFICES ASSUME Init, NEW u \in User
             PROVE  Uploaded(u) /\ Informed(u) /\ Visited(saved, u, theirs[u])
  BY DEF Genuine
<1>1. /\ listeners[u] = << >> /\ mainq[u] = << >> /\ outbox[u] = << >>
      /\ clothes[u] = NoDoc /\ theirs[u] = Naked
  BY DEF Init
<1>2. Indices(<< >>) = {}
  BY EmptySeq DEF Indices
<1>3. None \notin Cloth
  BY ClothAssumption DEF None
<1>4. Visited(saved, u, Naked)
  BY <1>3 DEF Visited, Naked
<1> QED
  BY <1>1, <1>2, <1>4, FromNaked DEF Uploaded, Informed

(* Only what is finished is saved and uploaded. *)
LEMMA FinishGenuine ==
  ASSUME Base, Genuine, NEW u \in User, Finish(u)
  PROVE  Genuine'
<1> SUFFICES ASSUME NEW v \in User
             PROVE  (Uploaded(v) /\ Informed(v) /\ Visited(saved, v, theirs[v]))'
  BY DEF Genuine
<1>1. TypeOK /\ mine[u] \in Items /\ outbox[u] \in Seq(Items) /\ outbox \in [User -> Seq(Items)]
      /\ listeners[v] \in Seq(Listener) /\ mainq[v] \in Seq(Callback)
  BY DEF Base, TypeOK
<1>2. /\ outbox' = [outbox EXCEPT ![u] = Append(outbox[u], mine[u])]
      /\ saved' = [saved EXCEPT ![u] = Append(saved[u], mine[u])]
      /\ UNCHANGED <<theirs, listeners, mainq, clothes>>
  BY DEF Finish
<1>3. /\ \A p \in User : \A items : From(saved[p], items) => From(saved'[p], items)
      /\ From(saved'[u], mine[u])
      /\ \A w \in User : \A items : Visited(saved, w, items) => Visited(saved', w, items)
  BY <1>1, <1>2, SavedMore
<1>4. Uploaded(v) /\ Informed(v) /\ Visited(saved, v, theirs[v])
  BY DEF Genuine
<1>5. Uploaded(v)'
  <2>1. From(saved'[v], clothes'[v].items)
    BY <1>2, <1>3, <1>4 DEF Uploaded
  <2>2. CASE v # u
    <3>1. outbox'[v] = outbox[v]
      BY <1>1, <1>2, <2>2
    <3> QED
      BY <1>3, <1>4, <2>1, <3>1 DEF Uploaded
  <2>3. CASE v = u
    <3>1. outbox'[u] = Append(outbox[u], mine[u]) /\ Grown(Append(outbox[u], mine[u]), outbox[u], mine[u])
      BY <1>1, <1>2, AppendFacts
    <3>2. Grown(outbox'[u], outbox[u], mine[u])
      BY <3>1, Zenon
    <3>3. \A i \in Indices(outbox'[u]) : i \in Indices(outbox[u]) \/ i = Len(outbox[u]) + 1
      BY <1>1, <3>2, SeqFacts DEF Grown, Indices
    <3>4. \A i \in Indices(outbox'[u]) : From(saved'[u], outbox'[u][i])
      BY <1>3, <1>4, <2>3, <3>2, <3>3 DEF Uploaded, Grown
    <3> QED
      BY <2>1, <2>3, <3>4 DEF Uploaded
  <2> QED
    BY <2>2, <2>3
<1>6. Informed(v)'
  <2>1. \A i \in Indices(listeners[v]) : listeners[v][i].of \in User
    BY <1>1, FieldTypes
  <2>2. \A k \in Indices(mainq[v]) : mainq[v][k].of \in User
    BY <1>1, FieldTypes
  <2>3. \A i \in Indices(listeners[v]) : Honest(saved', listeners[v][i])
    BY <1>3, <1>4, <2>1 DEF Informed, Honest
  <2>4. \A k \in Indices(mainq[v]) : From(saved'[mainq[v][k].of], mainq[v][k].data.items)
    BY <1>3, <1>4, <2>2 DEF Informed
  <2> QED
    BY <1>2, <2>3, <2>4 DEF Informed
<1>7. Visited(saved, v, theirs[v])'
  BY <1>2, <1>3, <1>4
<1> QED
  BY <1>5, <1>6, <1>7

(* What is on the server was in the outbox. *)
LEMMA CommitGenuine ==
  ASSUME Base, Genuine, NEW u \in User, Commit(u)
  PROVE  Genuine'
<1>1. outbox[u] \in Seq(Items) /\ outbox[u] # << >> /\ outbox \in [User -> Seq(Items)]
      /\ clothes \in [User -> Doc]
  BY DEF Base, TypeOK, Commit
<1>2. /\ clothes' = [clothes EXCEPT ![u] = Saved(Head(outbox[u]))]
      /\ outbox' = [outbox EXCEPT ![u] = Tail(outbox[u])]
      /\ UNCHANGED <<theirs, listeners, mainq, saved>>
  BY DEF Commit
<1>3. Head(outbox[u]) = outbox[u][1] /\ 1 \in Indices(outbox[u])
      /\ \A i \in Indices(Tail(outbox[u])) : /\ i + 1 \in Indices(outbox[u])
                                             /\ Tail(outbox[u])[i] = outbox[u][i + 1]
  BY <1>1, TailFacts
<1> SUFFICES ASSUME NEW v \in User
             PROVE  (Uploaded(v) /\ Informed(v) /\ Visited(saved, v, theirs[v]))'
  BY DEF Genuine
<1>4. Uploaded(v) /\ Informed(v) /\ Visited(saved, v, theirs[v])
  BY DEF Genuine
<1>5. Uploaded(v)'
  <2>1. CASE v # u
    <3>1. clothes'[v] = clothes[v] /\ outbox'[v] = outbox[v]
      BY <1>1, <1>2, <2>1
    <3> QED
      BY <1>2, <1>4, <3>1, Zenon DEF Uploaded
  <2>2. CASE v = u
    <3>1. clothes'[u].items = outbox[u][1] /\ outbox'[u] = Tail(outbox[u])
      BY <1>1, <1>2, <1>3 DEF Saved
    <3> QED
      BY <1>2, <1>3, <1>4, <2>2, <3>1 DEF Uploaded
  <2> QED
    BY <2>1, <2>2
<1> QED
  BY <1>2, <1>4, <1>5, Zenon DEF Informed

(* A step that saves nothing and leaves the server and the screen alone. *)
LEMMA HeardGenuine ==
  ASSUME Genuine, UNCHANGED <<saved, outbox, clothes, theirs>>, NEW u \in User,
         \A v \in User : v # u => listeners'[v] = listeners[v] /\ mainq'[v] = mainq[v],
         Informed(u)'
  PROVE  Genuine'
<1> SUFFICES ASSUME NEW v \in User
             PROVE  (Uploaded(v) /\ Informed(v) /\ Visited(saved, v, theirs[v]))'
  BY DEF Genuine
<1>1. Uploaded(v) /\ Informed(v) /\ Visited(saved, v, theirs[v])
  BY DEF Genuine
<1>2. Uploaded(v)' /\ Visited(saved, v, theirs[v])'
  BY <1>1 DEF Uploaded
<1>3. CASE v = u
  BY <1>2, <1>3
<1>4. CASE v # u
  <2>1. listeners'[v] = listeners[v] /\ mainq'[v] = mainq[v]
    BY <1>4
  <2> QED
    BY <1>1, <1>2, <2>1, Zenon DEF Informed
<1> QED
  BY <1>3, <1>4

(* What a client shows was saved by the owner. *)
LEMMA SeenFrom ==
  ASSUME Base, Genuine, NEW u \in User, NEW o \in User
  PROVE  From(saved[o], Seen(u, o).items)
<1>1. outbox[u] \in Seq(Items) /\ Uploaded(o)
  BY DEF Base, TypeOK, Genuine
<1>2. CASE u = o /\ outbox[u] # << >>
  <2>1. Len(outbox[u]) \in Indices(outbox[u])
    BY <1>1, <1>2, SeqFacts DEF Indices
  <2> QED
    BY <1>1, <1>2, <2>1 DEF Seen, Saved, Uploaded
<1>3. CASE ~(u = o /\ outbox[u] # << >>)
  BY <1>1, <1>3 DEF Seen, Uploaded
<1> QED
  BY <1>2, <1>3

(* A new listener has heard nothing, or what an older one has. *)
LEMMA ListenGenuine ==
  ASSUME Base, Genuine, NEW u \in User, NEW o \in User, NEW for \in {"mine", "theirs"},
         Listen(u, o, for), UNCHANGED <<saved, outbox, clothes, theirs>>
  PROVE  Genuine'
<1> DEFINE l == listeners[u]
           m == listeners'[u]
           q == mainq[u]
           r == mainq'[u]
<1>1. TypeOK /\ l \in Seq(Listener) /\ q \in Seq(Callback) /\ Informed(u)
  BY DEF Base, TypeOK, Genuine
<1>2. Len(l) \in Nat /\ Len(q) \in Nat
  BY <1>1, SeqFacts
<1>3. OthersSame(u)
  BY <1>1, ListenEffect
<1>4. ASSUME NEW heard, NEW told, From(saved[o], told.items),
             Grown(m, l, NewListener(o, for, heard, told))
      PROVE  \A i \in Indices(m) : Honest(saved, m[i])
  <2> DEFINE x == NewListener(o, for, heard, told)
  <2>1. x.of = o /\ x.acc = Naked /\ x.told = told
    BY DEF NewListener
  <2>2. Honest(saved, x)
    BY <1>4, <2>1, FromNaked, Zenon DEF Honest
  <2>3. Grown(m, l, x)
    BY <1>4
  <2> HIDE DEF x, l, m
  <2>4. \A i \in Indices(m) : i \in Indices(l) \/ i = Len(l) + 1
    BY <1>2, <2>3 DEF Grown, Indices
  <2>5. \A i \in Indices(l) : Honest(saved, l[i])
    BY <1>1 DEF Informed, l
  <2> QED
    BY <2>2, <2>3, <2>4, <2>5 DEF Grown
<1>5. CASE Told(u, o) = {} /\ Grown(m, l, NewListener(o, for, FALSE, NoDoc)) /\ mainq' = mainq
  <2>1. \A i \in Indices(m) : Honest(saved, m[i])
    BY <1>4, <1>5, FromNaked
  <2>2. Informed(u)'
    BY <1>1, <1>5, <2>1 DEF Informed
  <2> QED
    BY <1>3, <2>2, HeardGenuine DEF OthersSame
<1>6. CASE \E j \in Told(u, o) :
             /\ Grown(m, l, NewListener(o, for, TRUE, l[j].told))
             /\ Grown(r, q, Job(o, l[j].told, {Len(l) + 1}))
  <2>1. PICK j \in Told(u, o) : /\ Grown(m, l, NewListener(o, for, TRUE, l[j].told))
                                /\ Grown(r, q, Job(o, l[j].told, {Len(l) + 1}))
    BY <1>6
  <2>2. j \in Indices(l) /\ l[j].of = o
    BY <1>1, SeqFacts DEF Told
  <2>3. From(saved[o], l[j].told.items)
    BY <1>1, <2>2 DEF Informed, Honest
  <2>4. \A i \in Indices(m) : Honest(saved, m[i])
    BY <1>4, <2>1, <2>3
  <2> DEFINE x == Job(o, l[j].told, {Len(l) + 1})
  <2>5. x.of = o /\ x.data = l[j].told
    BY DEF Job
  <2>6. Grown(r, q, x)
    BY <2>1
  <2>7. \A k \in Indices(q) : From(saved[q[k].of], q[k].data.items)
    BY <1>1 DEF Informed
  <2> HIDE DEF x, l, q, r
  <2>8. \A k \in Indices(r) : k \in Indices(q) \/ k = Len(q) + 1
    BY <1>2, <2>6 DEF Grown, Indices
  <2>9. \A k \in Indices(r) : From(saved[r[k].of], r[k].data.items)
    BY <2>3, <2>5, <2>6, <2>7, <2>8 DEF Grown
  <2>10. Informed(u)'
    BY <2>4, <2>9 DEF Informed, m, r
  <2> QED
    BY <1>3, <2>10, HeardGenuine DEF OthersSame
<1> QED
  BY <1>1, <1>5, <1>6, ListenEffect

(* A snapshot shows what was saved. *)
LEMMA SnapshotGenuine ==
  ASSUME Base, Genuine, NEW u \in User, NEW o \in User, Snapshot(u, o)
  PROVE  Genuine'
<1> DEFINE q == mainq[u]
           r == mainq'[u]
           x == Job(o, Seen(u, o), Due(u, o))
<1>1. TypeOK /\ q \in Seq(Callback) /\ Informed(u) /\ UNCHANGED <<saved, outbox, clothes, theirs>>
  BY DEF Base, TypeOK, Genuine, Snapshot
<1>2. OthersSame(u) /\ Informs(u, o) /\ Grown(r, q, x)
  BY <1>1, SnapshotEffect
<1>3. From(saved[o], Seen(u, o).items)
  BY SeenFrom
<1>4. \A i \in Due(u, o) : listeners[u][i].of = o
  BY DEF Due
<1>5. \A i \in Indices(listeners'[u]) : Honest(saved, listeners'[u][i])
  <2>1. Indices(listeners'[u]) = Indices(listeners[u])
    BY <1>2, Zenon DEF Informs, Indices
  <2> SUFFICES ASSUME NEW i \in Indices(listeners[u]) PROVE Honest(saved, listeners'[u][i])
    BY <2>1
  <2>2. Honest(saved, listeners[u][i])
    BY <1>1 DEF Informed
  <2>3. CASE i \in Due(u, o)
    BY <1>2, <1>3, <1>4, <2>2, <2>3, Zenon DEF Informs, Honest
  <2>4. CASE i \notin Due(u, o)
    BY <1>2, <2>2, <2>4 DEF Informs
  <2> QED
    BY <2>3, <2>4
<1>6. x.of = o /\ x.data = Seen(u, o)
  BY DEF Job
<1>7. \A k \in Indices(q) : From(saved[q[k].of], q[k].data.items)
  BY <1>1 DEF Informed
<1> HIDE DEF x, q, r
<1>8. \A k \in Indices(r) : k \in Indices(q) \/ k = Len(q) + 1
  BY <1>1, <1>2, SeqFacts DEF Grown, Indices
<1>9. \A k \in Indices(r) : From(saved[r[k].of], r[k].data.items)
  BY <1>2, <1>3, <1>6, <1>7, <1>8 DEF Grown
<1>10. Informed(u)'
  BY <1>1, <1>5, <1>9 DEF Informed, r
<1> QED
  BY <1>1, <1>2, <1>10, HeardGenuine DEF OthersSame

(* A callback keeps what was heard, and shows it. *)
LEMMA CallbackGenuine ==
  ASSUME Base, Genuine, NEW u \in User, OnSnapshot(u)
  PROVE  Genuine'
<1>1. TypeOK /\ Wired(u) /\ mainq[u] \in Seq(Callback) /\ Informed(u)
      /\ theirs \in [User -> Items]
  BY DEF Base, Routed, TypeOK, Genuine
<1>2. OthersSame(u)
  BY <1>1, CallbackEffect
<1>3. PICK i \in Indices(listeners[u]) : Fired(u, i)
  BY <1>1, CallbackEffect
<1>4. UNCHANGED <<outbox, clothes, saved>>
  BY DEF OnSnapshot
<1> DEFINE j   == mainq[u][1]
           o   == listeners[u][i].of
           acc == Decode(listeners[u][i].acc, j.data)
<1>5. 1 \in Indices(mainq[u]) /\ i \in j.due
  BY <1>3 DEF Fired
<1>6. j.of = o
  BY <1>1, <1>5 DEF Wired, Fits
<1>7. listeners[u][i].acc \in Items /\ j.data \in Doc /\ o \in User
  BY <1>1, <1>5, FieldTypes
<1>8. From(saved[o], listeners[u][i].acc) /\ From(saved[o], listeners[u][i].told.items)
      /\ From(saved[o], j.data.items)
  BY <1>1, <1>5, <1>6 DEF Informed, Honest
<1>9. From(saved[o], acc)
  BY <1>7, <1>8, FromDecode
<1>10. Informed(u)'
  <2>1. \A n \in Indices(listeners'[u]) : Honest(saved, listeners'[u][n])
    <3>1. Indices(listeners'[u]) = Indices(listeners[u])
      BY <1>3, Zenon DEF Fired, Filled, Indices
    <3> SUFFICES ASSUME NEW n \in Indices(listeners[u]) PROVE Honest(saved, listeners'[u][n])
      BY <3>1
    <3>2. CASE n = i
      <4>1. listeners'[u][i].of = o /\ listeners'[u][i].told = listeners[u][i].told
            /\ listeners'[u][i].acc = acc
        BY <1>3, Zenon DEF Fired, Filled
      <4> HIDE DEF acc, o
      <4> QED
        BY <1>8, <1>9, <3>2, <4>1, Zenon DEF Honest
    <3>3. CASE n # i
      BY <1>1, <1>3, <3>3, Zenon DEF Fired, Filled, Informed
    <3> QED
      BY <3>2, <3>3
  <2>2. CASE Popped(u)
    <3>1. \A k \in Indices(mainq'[u]) : From(saved[mainq'[u][k].of], mainq'[u][k].data.items)
      BY <1>1, <2>2 DEF Informed, Popped
    <3> QED
      BY <1>4, <2>1, <3>1 DEF Informed
  <2>3. CASE Trimmed(u, i)
    <3>1. Indices(mainq'[u]) = Indices(mainq[u])
      BY <2>3, Zenon DEF Trimmed, Indices
    <3>2. \A k \in Indices(mainq'[u]) : /\ mainq'[u][k].of = mainq[u][k].of
                                        /\ mainq'[u][k].data = mainq[u][k].data
      BY <2>3, <3>1 DEF Trimmed
    <3>3. \A k \in Indices(mainq'[u]) : From(saved[mainq'[u][k].of], mainq'[u][k].data.items)
      BY <1>1, <3>1, <3>2 DEF Informed
    <3> QED
      BY <1>4, <2>1, <3>3 DEF Informed
  <2> QED
    BY <1>3, <2>2, <2>3 DEF Fired
<1>11. ASSUME NEW v \in User PROVE Visited(saved, v, theirs'[v])
  <2>1. Visited(saved, v, theirs[v])
    BY DEF Genuine
  <2>2. CASE v = u /\ listeners[u][i].for = "theirs"
    <3>1. o # u
      BY <1>1, <2>2 DEF Wired, Screens
    <3>2. theirs'[u] = acc
      BY <1>1, <1>3, <2>2 DEF Fired
    <3>3. Visited(saved, u, acc)
      <4> HIDE DEF acc, o
      <4> QED
        BY <1>7, <1>9, <3>1, FromVisited
    <3> QED
      BY <2>2, <3>2, <3>3
  <2>3. CASE ~(v = u /\ listeners[u][i].for = "theirs")
    <3>1. theirs'[v] = theirs[v]
      BY <1>1, <1>3, <2>3 DEF Fired
    <3> QED
      BY <2>1, <3>1
  <2> QED
    BY <2>2, <2>3
<1> SUFFICES ASSUME NEW v \in User
             PROVE  (Uploaded(v) /\ Informed(v) /\ Visited(saved, v, theirs[v]))'
  BY DEF Genuine
<1>12. Uploaded(v) /\ Informed(v)
  BY DEF Genuine
<1>13. Uploaded(v)'
  BY <1>4, <1>12 DEF Uploaded
<1>14. Informed(v)'
  <2>1. CASE v # u
    <3>1. listeners'[v] = listeners[v] /\ mainq'[v] = mainq[v]
      BY <1>2, <2>1 DEF OthersSame
    <3> QED
      BY <1>4, <1>12, <3>1, Zenon DEF Informed
  <2> QED
    BY <1>10, <2>1
<1> QED
  BY <1>4, <1>11, <1>13, <1>14

(* Genuine is inductive. *)
LEMMA NextGenuine == Base /\ Genuine /\ [Next]_vars => Genuine'
<1> SUFFICES ASSUME Base, Genuine, [Next]_vars PROVE Genuine'
  OBVIOUS
<1>1. ASSUME UNCHANGED <<theirs, listeners, mainq, outbox, clothes, saved>> PROVE Genuine'
  BY <1>1 DEF Genuine, Uploaded, Informed
<1>2. ASSUME NEW u \in Editor, Dressing(u) PROVE Genuine'
  <2>1. CASE Finish(u)
    BY <2>1, FinishGenuine, UserAssumption
  <2>2. CASE ~Finish(u)
    BY <1>1, <1>2, <2>2 DEF Dressing, OpenSheet, Reset, Cancel, TakeOff, Wear
  <2> QED
    BY <2>1, <2>2
<1>3. ASSUME NEW u \in Viewer, NEW p \in User, Linked(u, p) PROVE Genuine'
  BY <1>1, <1>3 DEF Linked
<1>4. ASSUME NEW u \in User, RequestClothes(u) PROVE Genuine'
  BY <1>4, ListenGenuine DEF RequestClothes
<1>5. ASSUME NEW u \in User, RequestPartnerClothes(u) PROVE Genuine'
  BY <1>5, ListenGenuine, RequestPartnerClothesBase DEF RequestPartnerClothes
<1>6. CASE UNCHANGED vars
  BY <1>1, <1>6 DEF vars
<1> QED
  BY <1>2, <1>3, <1>4, <1>5, <1>6, CommitGenuine, CallbackGenuine, SnapshotGenuine
  DEF Next, Loading

(* ClothesManager and ClothesViewModel: whatever is edited, cancelled and  *)
(* delivered, by however many listeners, a cloth on the partner's          *)
(* character was uploaded by somebody else for that category.              *)
THEOREM NothingEverInvented == Spec => []NothingInvented
<1>1. Init => Base /\ Genuine
  BY InitBase, InitGenuine
<1>2. Base /\ Genuine /\ [Next]_vars => (Base /\ Genuine)'
  BY NextBase, NextGenuine
<1>3. Base /\ Genuine => NothingInvented
  <2> SUFFICES ASSUME Base, Genuine, NEW u \in User, NEW c \in Category, theirs[u][c] \in Cloth
               PROVE  \E p \in User \ {u} : \E i \in DOMAIN saved[p] : saved[p][i][c] = theirs[u][c]
    BY DEF NothingInvented
  <2>1. \A p \in User : DOMAIN saved[p] = Indices(saved[p])
    BY SeqFacts DEF Base, TypeOK
  <2>2. PICK p \in User \ {u} : \E i \in Indices(saved[p]) : saved[p][i][c] = theirs[u][c]
    BY DEF Genuine, Visited
  <2> QED
    BY <2>1, <2>2
<1> QED
  BY <1>1, <1>2, <1>3, PTL DEF Spec

-----------------------------------------------------------------------------
(* The own screen: what was edited stays while the picker is open, and     *)
(* what was saved is shown in the end                                      *)

(* The listeners l on o's document have all heard d. *)
Current(l, o, d) == \A i \in Indices(l) : l[i].of = o => l[i].heard /\ l[i].told = d

(* No job of q carries o's document. *)
Free(q, o) == \A k \in Indices(q) : q[k].of # o

(* Listeners on one document know the same. *)
Agree(x, y) == x.heard = y.heard /\ (x.heard => x.told = y.told)

Uniform(l) == \A i, j \in Indices(l) : l[i].of = l[j].of => Agree(l[i], l[j])

(* Jobs are for listeners that have been told. *)
Reached(l, q) == \A k \in Indices(q) : \A i \in q[k].due : l[i].heard

(* While the picker is open, after it was opened with all callbacks done,  *)
(* nothing is under way to the own screen.                                 *)
Undisturbed(u) ==
  calm[u] => /\ sheet[u] /\ requests[u] = 0
             /\ Current(listeners[u], u, Seen(u, u))
             /\ Free(mainq[u], u)

(* n is the youngest listener of l on the document of u. *)
Youngest(l, u, n) ==
  /\ n \in Indices(l) /\ l[n].of = u
  /\ \A i \in Indices(l) : i > n => l[i].of # u

(* Job k is the last one of q for the document of u, and the only one for  *)
(* listener n, which has heard nothing else before.                        *)
Coming(l, q, u, n, d, k) ==
  /\ k \in Indices(q) /\ q[k].of = u /\ q[k].data = d /\ n \in q[k].due
  /\ \A j \in Indices(q) : (j # k => n \notin q[j].due) /\ (j > k => q[j].of # u)
  /\ l[n].acc = Naked

(* The three stages of the request that each button of the picker makes:   *)
(* nothing heard, the callback waits, the outfit is shown.                 *)
Answered(l, q, u, n, d, items) ==
  \/ ~l[n].heard /\ l[n].acc = Naked
  \/ /\ l[n].heard /\ l[n].told = d
     /\ \/ \E k \in Indices(q) : Coming(l, q, u, n, d, k)
        \/ Free(q, u) /\ items = Decode(Naked, d)

Restored(u) ==
  ~sheet[u] /\ requests[u] = 0 =>
    \E n \in Indices(listeners[u]) :
      /\ Youngest(listeners[u], u, n)
      /\ Answered(listeners[u], mainq[u], u, n, Seen(u, u), mine[u])

(* The own screen of a user that is not followed. *)
Idle(u) ==
  /\ requests[u] = 0 /\ outbox[u] = << >> /\ clothes[u] = NoDoc /\ mine[u] = Naked
  /\ \A i \in Indices(listeners[u]) : listeners[u][i].of # u

Spread(u) == Uniform(listeners[u]) /\ Reached(listeners[u], mainq[u])

Screen(u) == /\ Spread(u) /\ Undisturbed(u)
             /\ u \in Editor => Restored(u)
             /\ u \notin Editor => Idle(u)

OwnInv == \A u \in User : Screen(u)

(* No listener is due when all have heard what the client shows. *)
LEMMA DueCurrent ==
  ASSUME TypeOK, NEW u \in User, NEW o \in User
  PROVE  /\ Due(u, o) = {} <=> Current(listeners[u], o, Seen(u, o))
         /\ \A i \in Indices(listeners[u]) : listeners[u][i].of = o /\ i \notin Due(u, o) =>
              listeners[u][i].heard /\ listeners[u][i].told = Seen(u, o)
         /\ \A i \in Due(u, o) : i \in Indices(listeners[u]) /\ listeners[u][i].of = o
<1>1. listeners[u] \in Seq(Listener)
  BY DEF TypeOK
<1>2. DOMAIN listeners[u] = Indices(listeners[u])
  BY <1>1, SeqFacts
<1>3. \A i : i \in Due(u, o) <=>
        /\ i \in Indices(listeners[u]) /\ listeners[u][i].of = o
        /\ ~(listeners[u][i].heard /\ listeners[u][i].told = Seen(u, o))
  BY <1>2 DEF Due
<1> QED
  BY <1>3 DEF Current

(* The listeners on o's document that have been told something. *)
LEMMA ToldFacts ==
  ASSUME TypeOK, NEW u \in User, NEW o \in User
  PROVE  /\ \A i \in Told(u, o) : /\ i \in Indices(listeners[u]) /\ listeners[u][i].of = o
                                  /\ listeners[u][i].heard = TRUE
         /\ \A i \in Indices(listeners[u]) : listeners[u][i].of = o /\ i \notin Told(u, o) =>
              listeners[u][i].heard = FALSE
<1>1. listeners[u] \in Seq(Listener)
  BY DEF TypeOK
<1>2. DOMAIN listeners[u] = Indices(listeners[u])
  BY <1>1, SeqFacts
<1>3. \A i \in Indices(listeners[u]) : listeners[u][i].heard \in BOOLEAN
  BY FieldTypes
<1>4. \A i : i \in Told(u, o) <=> /\ i \in Indices(listeners[u]) /\ listeners[u][i].of = o
                                  /\ listeners[u][i].heard
  BY <1>2 DEF Told
<1> QED
  BY <1>3, <1>4, Zenon

(* After a snapshot all listeners on the document have heard it. *)
LEMMA SnapshotTells ==
  ASSUME TypeOK, NEW u \in User, NEW o \in User, Snapshot(u, o)
  PROVE  /\ Len(listeners'[u]) = Len(listeners[u])
         /\ \A i \in Indices(listeners[u]) :
              /\ listeners'[u][i].of = listeners[u][i].of
              /\ listeners'[u][i].acc = listeners[u][i].acc
              /\ listeners[u][i].of = o =>
                   listeners'[u][i].heard = TRUE /\ listeners'[u][i].told = Seen(u, o)
              /\ listeners[u][i].of # o => listeners'[u][i] = listeners[u][i]
<1>1. Informs(u, o) /\ listeners' \in [User -> Seq(Listener)]
  BY SnapshotEffect
<1>2. \A i \in Indices(listeners[u]) : listeners[u][i].of = o /\ i \notin Due(u, o) =>
        listeners[u][i].heard /\ listeners[u][i].told = Seen(u, o)
  BY DueCurrent
<1>3. \A i \in Due(u, o) : listeners[u][i].of = o
  BY DueCurrent
<1>4. \A i \in Indices(listeners[u]) : listeners[u][i].of = o =>
        listeners'[u][i].heard /\ listeners'[u][i].told = Seen(u, o)
  BY <1>1, <1>2, Zenon DEF Informs
<1>5. \A i \in Indices(listeners[u]) : listeners'[u][i].heard \in BOOLEAN
  <2>1. listeners'[u] \in Seq(Listener) /\ Indices(listeners'[u]) = Indices(listeners[u])
    BY <1>1 DEF Informs, Indices
  <2>2. \A i \in Indices(listeners[u]) : listeners'[u][i] \in Listener
    BY <2>1, SeqFacts
  <2> QED
    BY <2>2 DEF Listener
<1>6. \A i \in Indices(listeners[u]) : listeners[u][i].of = o => listeners'[u][i].heard = TRUE
  BY <1>4, <1>5, Zenon
<1> QED
  BY <1>1, <1>3, <1>4, <1>6, Zenon DEF Informs

(* One listener more that knows what the others know. *)
LEMMA UniformMore ==
  ASSUME NEW l \in Seq(Listener), NEW m, NEW x, Grown(m, l, x), Uniform(l),
         \A i \in Indices(l) : l[i].of = x.of => Agree(l[i], x)
  PROVE  Uniform(m)
<1>1. Len(l) \in Nat
  BY SeqFacts
<1>2. \A i \in Indices(m) : i \in Indices(l) \/ i = Len(l) + 1
  BY <1>1 DEF Grown, Indices
<1>3. m[Len(l) + 1] = x /\ \A i \in Indices(l) : m[i] = l[i]
  BY DEF Grown
<1> SUFFICES ASSUME NEW i \in Indices(m), NEW j \in Indices(m), m[i].of = m[j].of
             PROVE  m[i].heard = m[j].heard /\ (m[i].heard => m[i].told = m[j].told)
  BY DEF Uniform, Agree
<1>4. CASE i \in Indices(l) /\ j \in Indices(l)
  <2>1. m[i] = l[i] /\ m[j] = l[j]
    BY <1>3, <1>4
  <2>2. l[i].of = l[j].of
    BY <2>1
  <2>3. Agree(l[i], l[j])
    BY <1>4, <2>2, Zenon DEF Uniform
  <2> QED
    BY <2>1, <2>3, Zenon DEF Agree
<1>5. CASE i \in Indices(l) /\ j = Len(l) + 1
  BY <1>3, <1>5, Zenon DEF Agree
<1>6. CASE i = Len(l) + 1 /\ j \in Indices(l)
  BY <1>3, <1>6, Zenon DEF Agree
<1>7. CASE i = Len(l) + 1 /\ j = Len(l) + 1
  BY <1>7, Zenon
<1> QED
  BY <1>2, <1>4, <1>5, <1>6, <1>7

(* A new listener is told what its elders know; its job is the last one. *)
LEMMA ListenSpread ==
  ASSUME Base, NEW u \in User, Spread(u), NEW o \in User, NEW for \in {"mine", "theirs"},
         Listen(u, o, for)
  PROVE  Spread(u)'
<1> DEFINE l == listeners[u]
           m == listeners'[u]
           q == mainq[u]
           r == mainq'[u]
<1>1. TypeOK /\ l \in Seq(Listener) /\ q \in Seq(Callback) /\ Wired(u)
      /\ Uniform(l) /\ Reached(l, q)
  BY DEF Base, Routed, TypeOK, Spread
<1>2. Len(l) \in Nat /\ Len(q) \in Nat
  BY <1>1, SeqFacts
<1>3. /\ \A i \in Told(u, o) : i \in Indices(l) /\ l[i].of = o /\ l[i].heard = TRUE
      /\ \A i \in Indices(l) : l[i].of = o /\ i \notin Told(u, o) => l[i].heard = FALSE
  BY <1>1, ToldFacts
<1>4. \A k \in Indices(q) : \A i \in q[k].due : i \in Indices(l)
  BY <1>1 DEF Wired, Fits
<1>5. CASE Told(u, o) = {} /\ Grown(m, l, NewListener(o, for, FALSE, NoDoc)) /\ mainq' = mainq
  <2> DEFINE x == NewListener(o, for, FALSE, NoDoc)
  <2>1. x.of = o /\ x.heard = FALSE
    BY DEF NewListener
  <2>2. Grown(m, l, x)
    BY <1>5
  <2> HIDE DEF x, l, m, q
  <2>3. \A i \in Indices(l) : l[i].of = x.of => Agree(l[i], x)
    BY <1>3, <1>5, <2>1 DEF Agree
  <2>4. Uniform(m)
    BY <1>1, <2>2, <2>3, UniformMore
  <2>5. Reached(m, q)
    BY <1>1, <1>4, <2>2 DEF Reached, Grown
  <2> QED
    BY <1>5, <2>4, <2>5 DEF Spread, m, q
<1>6. CASE \E j \in Told(u, o) :
             /\ Grown(m, l, NewListener(o, for, TRUE, l[j].told))
             /\ Grown(r, q, Job(o, l[j].told, {Len(l) + 1}))
  <2>1. PICK j \in Told(u, o) : /\ Grown(m, l, NewListener(o, for, TRUE, l[j].told))
                                /\ Grown(r, q, Job(o, l[j].told, {Len(l) + 1}))
    BY <1>6
  <2> DEFINE x == NewListener(o, for, TRUE, l[j].told)
             y == Job(o, l[j].told, {Len(l) + 1})
  <2>2. x.of = o /\ x.heard = TRUE /\ x.told = l[j].told /\ y.due = {Len(l) + 1}
    BY DEF NewListener, Job
  <2>3. Grown(m, l, x) /\ Grown(r, q, y)
    BY <2>1
  <2> HIDE DEF x, y, l, m, q, r
  <2>4. j \in Indices(l) /\ l[j].of = o /\ l[j].heard = TRUE
    BY <1>3
  <2>5. \A i \in Indices(l) : l[i].of = o => l[i].heard = TRUE /\ l[i].told = l[j].told
    BY <1>1, <2>4, Zenon DEF Uniform, Agree
  <2>6. \A i \in Indices(l) : l[i].of = x.of => Agree(l[i], x)
    BY <2>2, <2>5, Zenon DEF Agree
  <2>7. Uniform(m)
    BY <1>1, <2>3, <2>6, UniformMore
  <2>8. \A k \in Indices(r) : k \in Indices(q) \/ k = Len(q) + 1
    BY <1>2, <2>3 DEF Grown, Indices
  <2>9. Reached(m, r)
    <3> SUFFICES ASSUME NEW k \in Indices(r), NEW i \in r[k].due PROVE m[i].heard
      BY DEF Reached
    <3>1. CASE k \in Indices(q)
      BY <1>1, <1>4, <2>3, <3>1 DEF Reached, Grown
    <3>2. CASE k = Len(q) + 1
      BY <2>2, <2>3, <3>2, Zenon DEF Grown
    <3> QED
      BY <2>8, <3>1, <3>2
  <2> QED
    BY <2>7, <2>9 DEF Spread, m, r
<1> QED
  BY <1>1, <1>5, <1>6, ListenEffect

(* A snapshot tells all listeners on the document the same. *)
LEMMA SnapshotSpread ==
  ASSUME Base, NEW u \in User, Spread(u), NEW o \in User, Snapshot(u, o)
  PROVE  Spread(u)'
<1> DEFINE l == listeners[u]
           m == listeners'[u]
           q == mainq[u]
           r == mainq'[u]
           y == Job(o, Seen(u, o), Due(u, o))
<1>1. TypeOK /\ q \in Seq(Callback) /\ Wired(u) /\ Uniform(l) /\ Reached(l, q)
  BY DEF Base, Routed, TypeOK, Spread
<1>2. /\ Len(m) = Len(l)
      /\ \A i \in Indices(l) :
           /\ m[i].of = l[i].of
           /\ l[i].of = o => m[i].heard = TRUE /\ m[i].told = Seen(u, o)
           /\ l[i].of # o => m[i] = l[i]
  BY <1>1, SnapshotTells
<1>3. Grown(r, q, y) /\ y.due = Due(u, o)
  BY <1>1, SnapshotEffect DEF Job
<1>4. \A i \in Due(u, o) : i \in Indices(l) /\ l[i].of = o
  BY <1>1, DueCurrent
<1>5. \A k \in Indices(q) : \A i \in q[k].due : i \in Indices(l)
  BY <1>1 DEF Wired, Fits
<1> HIDE DEF l, m, q, r, y
<1>6. Indices(m) = Indices(l)
  BY <1>2 DEF Indices
<1>7. Uniform(m)
  <2> SUFFICES ASSUME NEW i \in Indices(l), NEW j \in Indices(l), m[i].of = m[j].of
               PROVE  m[i].heard = m[j].heard /\ (m[i].heard => m[i].told = m[j].told)
    BY <1>6 DEF Uniform, Agree
  <2>1. CASE l[i].of = o
    <3>1. l[j].of = o
      BY <1>2, <2>1
    <3> QED
      BY <1>2, <2>1, <3>1, Zenon
  <2>2. CASE l[i].of # o
    <3>1. l[j].of # o /\ l[i].of = l[j].of
      BY <1>2, <2>2
    <3> QED
      BY <1>1, <1>2, <2>2, <3>1, Zenon DEF Uniform, Agree
  <2> QED
    BY <2>1, <2>2
<1>8. Reached(m, r)
  <2> SUFFICES ASSUME NEW k \in Indices(r), NEW i \in r[k].due PROVE m[i].heard
    BY DEF Reached
  <2>1. k \in Indices(q) \/ k = Len(q) + 1
    BY <1>1, <1>3, SeqFacts DEF Grown, Indices
  <2>2. CASE k \in Indices(q)
    <3>1. i \in q[k].due /\ i \in Indices(l)
      BY <1>3, <1>5, <2>2 DEF Grown
    <3>2. l[i].heard
      BY <1>1, <2>2, <3>1 DEF Reached
    <3> QED
      BY <1>2, <3>1, <3>2, Zenon
  <2>3. CASE k = Len(q) + 1
    <3>1. i \in Indices(l) /\ l[i].of = o
      BY <1>3, <1>4, <2>3 DEF Grown
    <3> QED
      BY <1>2, <3>1, Zenon
  <2> QED
    BY <2>1, <2>2, <2>3
<1> QED
  BY <1>7, <1>8 DEF Spread, m, r

(* A callback changes nothing of what listeners were told. *)
LEMMA CallbackSpread ==
  ASSUME Base, NEW u \in User, Spread(u), OnSnapshot(u)
  PROVE  Spread(u)'
<1> DEFINE l == listeners[u]
           m == listeners'[u]
           q == mainq[u]
           r == mainq'[u]
<1>1. TypeOK /\ Wired(u) /\ Uniform(l) /\ Reached(l, q)
  BY DEF Base, Routed, Spread
<1>2. PICK i \in Indices(l) : Fired(u, i)
  BY <1>1, CallbackEffect
<1>3. /\ Len(m) = Len(l)
      /\ \A j \in Indices(l) : m[j].of = l[j].of /\ m[j].heard = l[j].heard /\ m[j].told = l[j].told
  BY <1>2 DEF Fired, Filled
<1>4. \A k \in Indices(q) : \A j \in q[k].due : j \in Indices(l)
  BY <1>1 DEF Wired, Fits
<1>5. \A k \in Indices(r) : \A j \in r[k].due : \E n \in Indices(q) : j \in q[n].due
  <2>1. CASE Popped(u)
    BY <2>1 DEF Popped
  <2>2. CASE Trimmed(u, i)
    <3>1. Indices(r) = Indices(q)
      BY <2>2, Zenon DEF Trimmed, Indices
    <3>2. \A k \in Indices(q) : r[k].due \subseteq q[k].due
      BY <2>2 DEF Trimmed
    <3> QED
      BY <3>1, <3>2
  <2> QED
    BY <1>2, <2>1, <2>2 DEF Fired
<1> HIDE DEF l, m, q, r
<1>6. Indices(m) = Indices(l)
  BY <1>3 DEF Indices
<1>7. Uniform(m)
  <2> SUFFICES ASSUME NEW a \in Indices(l), NEW b \in Indices(l), m[a].of = m[b].of
               PROVE  m[a].heard = m[b].heard /\ (m[a].heard => m[a].told = m[b].told)
    BY <1>6 DEF Uniform, Agree
  <2>1. l[a].of = l[b].of
    BY <1>3
  <2>2. l[a].heard = l[b].heard /\ (l[a].heard => l[a].told = l[b].told)
    BY <1>1, <2>1 DEF Uniform, Agree
  <2> QED
    BY <1>3, <2>2, Zenon
<1>8. Reached(m, r)
  <2> SUFFICES ASSUME NEW k \in Indices(r), NEW j \in r[k].due PROVE m[j].heard
    BY DEF Reached
  <2>1. PICK n \in Indices(q) : j \in q[n].due
    BY <1>5
  <2>2. l[j].heard /\ j \in Indices(l)
    BY <1>1, <1>4, <2>1 DEF Reached
  <2> QED
    BY <1>3, <2>2, Zenon
<1> QED
  BY <1>7, <1>8 DEF Spread, m, r

(* A step beside the own document: listeners on it stay as they are, and   *)
(* no job for it is added.                                                 *)
LEMMA Beside ==
  ASSUME NEW u, NEW d, NEW items, NEW l, NEW m, NEW q \in Seq(Callback), NEW r,
         Len(l) \in Nat, Len(m) \in Nat, Len(l) <= Len(m),
         \A i \in Indices(l) : m[i].of = l[i].of /\ (l[i].of = u => m[i] = l[i]),
         \A i \in Indices(m) : i \notin Indices(l) => m[i].of # u,
         r = q \/ \E y : Grown(r, q, y) /\ y.of # u /\ (\A i \in y.due : m[i].of # u)
  PROVE  /\ Current(l, u, d) => Current(m, u, d)
         /\ Free(q, u) => Free(r, u)
         /\ \A n : Youngest(l, u, n) => Youngest(m, u, n)
         /\ \A n : Youngest(l, u, n) /\ Answered(l, q, u, n, d, items)
                     => Answered(m, r, u, n, d, items)
<1>1. \A i \in Indices(l) : i \in Indices(m)
  BY DEF Indices
<1>2. Current(l, u, d) => Current(m, u, d)
  BY <1>1 DEF Current
<1>3. Len(q) \in Nat
  BY SeqFacts
<1>4. \A k \in Indices(q) : k \in Indices(r) /\ r[k] = q[k]
  BY <1>3 DEF Grown, Indices
<1>5. \A k \in Indices(r) : k \in Indices(q) \/ (r[k].of # u /\ \A i \in r[k].due : m[i].of # u)
  <2>1. CASE r = q
    BY <2>1
  <2>2. CASE \E y : Grown(r, q, y) /\ y.of # u /\ (\A i \in y.due : m[i].of # u)
    <3>1. PICK y : Grown(r, q, y) /\ y.of # u /\ (\A i \in y.due : m[i].of # u)
      BY <2>2
    <3>2. \A k \in Indices(r) : k \in Indices(q) \/ k = Len(q) + 1
      BY <1>3, <3>1 DEF Grown, Indices
    <3> QED
      BY <3>1, <3>2 DEF Grown
  <2> QED
    BY <2>1, <2>2
<1>6. Free(q, u) => Free(r, u)
  BY <1>4, <1>5 DEF Free
<1>7. ASSUME NEW n, Youngest(l, u, n) PROVE Youngest(m, u, n) /\ m[n] = l[n] /\ m[n].of = u
  BY <1>1, <1>7 DEF Youngest
<1>8. ASSUME NEW n, Youngest(l, u, n), Answered(l, q, u, n, d, items)
      PROVE  Answered(m, r, u, n, d, items)
  <2>1. m[n] = l[n] /\ m[n].of = u
    BY <1>7, <1>8
  <2>2. CASE \E k \in Indices(q) : Coming(l, q, u, n, d, k)
    <3>1. PICK k \in Indices(q) : Coming(l, q, u, n, d, k)
      BY <2>2
    <3>2. k \in Indices(r) /\ r[k].of = u /\ r[k].data = d /\ n \in r[k].due /\ m[n].acc = Naked
      BY <1>4, <2>1, <3>1 DEF Coming
    <3>3. ASSUME NEW j \in Indices(r) PROVE (j # k => n \notin r[j].due) /\ (j > k => r[j].of # u)
      <4>1. CASE j \in Indices(q)
        BY <1>4, <3>1, <4>1 DEF Coming
      <4>2. CASE j \notin Indices(q)
        BY <1>5, <2>1, <4>2
      <4> QED
        BY <4>1, <4>2
    <3>4. Coming(m, r, u, n, d, k)
      BY <3>2, <3>3 DEF Coming
    <3> QED
      BY <1>8, <2>1, <3>2, <3>4 DEF Answered
  <2>3. CASE ~\E k \in Indices(q) : Coming(l, q, u, n, d, k)
    BY <1>6, <1>8, <2>1, <2>3, Zenon DEF Answered
  <2> QED
    BY <2>2, <2>3
<1> QED
  BY <1>2, <1>6, <1>7, <1>8

(* What a step leaves alone keeps its screen. *)
LEMMA ScreenKept ==
  ASSUME NEW v \in User, Screen(v), Seen(v, v)' = Seen(v, v),
         listeners'[v] = listeners[v], mainq'[v] = mainq[v], sheet'[v] = sheet[v],
         calm'[v] = calm[v], requests'[v] = requests[v], mine'[v] = mine[v],
         v \notin Editor => outbox'[v] = outbox[v] /\ clothes'[v] = clothes[v]
  PROVE  Screen(v)'
<1>1. Spread(v)'
  BY Zenon DEF Screen, Spread
<1>2. Undisturbed(v)'
  BY Zenon DEF Screen, Undisturbed
<1>3. v \in Editor => Restored(v)'
  BY Zenon DEF Screen, Restored
<1>4. v \notin Editor => Idle(v)'
  BY Zenon DEF Screen, Idle
<1> QED
  BY <1>1, <1>2, <1>3, <1>4 DEF Screen

(* What a client shows depends on the outbox and on the server. *)
LEMMA SeenKept ==
  ASSUME NEW v, outbox'[v] = outbox[v], clothes'[v] = clothes[v]
  PROVE  Seen(v, v)' = Seen(v, v)
BY Zenon DEF Seen

(* The picker. *)
LEMMA DressingScreen ==
  ASSUME Base, OwnInv, NEW u \in Editor, Dressing(u)
  PROVE  OwnInv'
<1> SUFFICES ASSUME NEW v \in User PROVE Screen(v)'
  BY DEF OwnInv
<1>1. TypeOK /\ Screen(v) /\ u \in User /\ Wired(u) /\ requests[u] \in Nat
  BY UserAssumption DEF Base, Routed, OwnInv, TypeOK
<1>2. UNCHANGED <<listeners, mainq, clothes>>
  BY DEF Dressing, OpenSheet, Reset, Finish, Cancel, TakeOff, Wear
<1>3. CASE v # u
  <2>1. outbox'[v] = outbox[v] /\ sheet'[v] = sheet[v] /\ calm'[v] = calm[v]
        /\ requests'[v] = requests[v] /\ mine'[v] = mine[v]
    BY <1>1, <1>3 DEF Dressing, OpenSheet, Reset, Finish, Cancel, TakeOff, Wear, TypeOK
  <2>2. Seen(v, v)' = Seen(v, v)
    BY <1>2, <2>1, SeenKept
  <2> QED
    BY <1>1, <1>2, <2>1, <2>2, ScreenKept
<1>4. CASE v = u
  <2>1. Spread(u)'
    BY <1>1, <1>2, <1>4 DEF Screen, Spread
  <2>2. CASE OpenSheet(u)
    <3>1. sheet'[u] = TRUE /\ calm'[u] = UpToDate(u)
          /\ UNCHANGED <<outbox, requests>>
      BY <1>1, <2>2 DEF OpenSheet, TypeOK
    <3>2. Seen(u, u)' = Seen(u, u)
      BY <1>2, <3>1, SeenKept
    <3>3. ASSUME UpToDate(u)
          PROVE  requests[u] = 0 /\ Current(listeners[u], u, Seen(u, u)) /\ Free(mainq[u], u)
      <4>1. requests[u] = 0 /\ mainq[u] = << >> /\ Due(u, u) = {}
        BY <3>3 DEF UpToDate
      <4>2. Current(listeners[u], u, Seen(u, u))
        BY <1>1, <4>1, DueCurrent
      <4>3. Indices(<< >>) = {}
        BY EmptySeq DEF Indices
      <4> QED
        BY <4>1, <4>2, <4>3 DEF Free
    <3>4. Undisturbed(u)'
      BY <1>2, <3>1, <3>2, <3>3, Zenon DEF Undisturbed
    <3>5. Restored(u)'
      BY <3>1 DEF Restored
    <3> QED
      BY <1>4, <2>1, <3>4, <3>5 DEF Screen
  <2>3. CASE Finish(u) \/ Cancel(u)
    <3>1. calm'[u] = FALSE /\ requests'[u] = requests[u] + 1
      BY <1>1, <2>3 DEF Finish, Cancel, TypeOK
    <3>2. Undisturbed(u)' /\ Restored(u)'
      BY <1>1, <3>1 DEF Undisturbed, Restored
    <3> QED
      BY <1>4, <2>1, <3>2 DEF Screen
  <2>4. CASE sheet[u] /\ UNCHANGED <<sheet, calm, requests, outbox>>
    <3>1. Seen(u, u)' = Seen(u, u)
      BY <1>2, <2>4, SeenKept
    <3>2. Undisturbed(u)'
      BY <1>1, <1>2, <1>4, <2>4, <3>1, Zenon DEF Screen, Undisturbed
    <3>3. Restored(u)'
      BY <2>4 DEF Restored
    <3> QED
      BY <1>4, <2>1, <3>2, <3>3 DEF Screen
  <2> QED
    BY <2>2, <2>3, <2>4 DEF Dressing, Reset, TakeOff, Wear
<1> QED
  BY <1>3, <1>4

(* Another partner changes nothing of the own screens. *)
LEMMA LinkedScreen ==
  ASSUME Base, OwnInv, NEW u \in Viewer, NEW p \in User, Linked(u, p)
  PROVE  OwnInv'
<1>1. UNCHANGED <<mine, sheet, calm, requests, listeners, mainq, outbox, clothes>>
  BY DEF Linked
<1> QED
  BY <1>1, ScreenKept, SeenKept DEF OwnInv

(* A write that reaches the server changes nothing of what its writer      *)
(* sees.                                                                   *)
LEMMA CommitSeen ==
  ASSUME TypeOK, NEW u \in User, Commit(u)
  PROVE  Seen(u, u)' = Seen(u, u)
<1> DEFINE s == outbox[u]
<1>1. s \in Seq(Items) /\ s # << >> /\ outbox'[u] = Tail(s) /\ clothes'[u] = Saved(Head(s))
  BY DEF TypeOK, Commit
<1>2. /\ Tail(s) \in Seq(Items) /\ Len(Tail(s)) = Len(s) - 1
      /\ Head(s) = s[1] /\ 1 \in Indices(s)
      /\ \A i \in Indices(Tail(s)) : i + 1 \in Indices(s) /\ Tail(s)[i] = s[i + 1]
      /\ Len(s) \in Nat /\ Len(s) > 0
  BY <1>1, TailFacts
<1>3. Seen(u, u) = Saved(s[Len(s)])
  BY <1>1 DEF Seen
<1>4. CASE Tail(s) = << >>
  <2>1. Len(s) = 1
    <3>1. Len(<< >>) = 0
      BY EmptySeq
    <3>2. Len(Tail(s)) = 0
      BY <1>4, <3>1, Zenon
    <3> QED
      BY <1>2, <3>2
  <2>2. Seen(u, u)' = Saved(Head(s))
    BY <1>1, <1>4 DEF Seen
  <2> QED
    BY <1>2, <1>3, <2>1, <2>2
<1>5. CASE Tail(s) # << >>
  <2>1. Len(Tail(s)) > 0
    BY <1>2, <1>5, SeqFacts
  <2>2. Len(Tail(s)) \in Indices(Tail(s)) /\ Len(Tail(s)) + 1 = Len(s)
    BY <1>2, <2>1 DEF Indices
  <2>3. Tail(s)[Len(Tail(s))] = s[Len(s)]
    BY <1>2, <2>2
  <2>4. Seen(u, u)' = Saved(Tail(s)[Len(Tail(s))])
    BY <1>1, <1>5, Zenon DEF Seen
  <2> QED
    BY <1>3, <2>3, <2>4
<1> QED
  BY <1>4, <1>5

(* The server takes a write. *)
LEMMA CommitScreen ==
  ASSUME Base, OwnInv, NEW u \in User, Commit(u)
  PROVE  OwnInv'
<1> SUFFICES ASSUME NEW v \in User PROVE Screen(v)'
  BY DEF OwnInv
<1>1. TypeOK /\ Screen(v) /\ outbox[u] # << >>
      /\ UNCHANGED <<mine, sheet, calm, requests, listeners, mainq>>
  BY DEF Base, OwnInv, Commit
<1>2. CASE v # u
  <2>1. outbox'[v] = outbox[v] /\ clothes'[v] = clothes[v]
    BY <1>1, <1>2 DEF Commit, TypeOK
  <2> QED
    BY <1>1, <2>1, ScreenKept, SeenKept
<1>3. CASE v = u
  <2>1. v \in Editor
    BY <1>1, <1>3 DEF Screen, Idle
  <2>2. Seen(v, v)' = Seen(v, v)
    BY <1>1, <1>3, CommitSeen
  <2> QED
    BY <1>1, <2>1, <2>2, ScreenKept
<1> QED
  BY <1>2, <1>3

(* The steps of u that concern only its listeners and its main queue. *)
LEMMA OthersScreen ==
  ASSUME Base, OwnInv, NEW u \in User, OthersSame(u), Screen(u)',
         UNCHANGED <<outbox, clothes, sheet, calm>>,
         \A v \in User : v # u => requests'[v] = requests[v] /\ mine'[v] = mine[v]
  PROVE  OwnInv'
<1> SUFFICES ASSUME NEW v \in User, v # u PROVE Screen(v)'
  BY DEF OwnInv
<1> QED
  BY ScreenKept, SeenKept DEF OwnInv, OthersSame

(* requestClothes: its listener is the youngest, and gets what is saved. *)
LEMMA RequestClothesScreen ==
  ASSUME Base, OwnInv, NEW u \in User, RequestClothes(u)
  PROVE  OwnInv'
<1> DEFINE l == listeners[u]
           m == listeners'[u]
           q == mainq[u]
           r == mainq'[u]
           d == Seen(u, u)
           n == Len(l) + 1
<1>1. TypeOK /\ Screen(u) /\ l \in Seq(Listener) /\ q \in Seq(Callback) /\ Wired(u)
  BY DEF Base, Routed, OwnInv, TypeOK
<1>2. /\ requests[u] > 0 /\ Listen(u, u, "mine")
      /\ UNCHANGED <<mine, sheet, calm, outbox, clothes>>
      /\ \A v \in User : v # u => requests'[v] = requests[v]
  BY <1>1 DEF RequestClothes, TypeOK
<1>3. OthersSame(u)
  BY <1>1, <1>2, ListenEffect
<1>4. u \in Editor /\ ~calm[u]
  BY <1>1, <1>2 DEF Screen, Idle, Undisturbed, TypeOK
<1>5. Spread(u)'
  BY <1>1, <1>2, ListenSpread DEF Screen
<1>6. Undisturbed(u)'
  BY <1>2, <1>4 DEF Undisturbed
<1>7. d' = d
  BY <1>2, SeenKept
<1>8. Len(l) \in Nat /\ Len(q) \in Nat
  BY <1>1, SeqFacts
<1>9. \E x \in Indices(m) : Youngest(m, u, x) /\ Answered(m, r, u, x, d, mine[u])
  <2>1. ASSUME NEW x, x.of = u, Grown(m, l, x)
        PROVE  Youngest(m, u, n) /\ n \in Indices(m) /\ m[n] = x
    <3>1. Len(m) = n /\ m[n] = x
      BY <2>1 DEF Grown
    <3> HIDE DEF m, l
    <3>2. n \in Indices(m) /\ \A i \in Indices(m) : ~(i > n)
      BY <1>8, <3>1 DEF Indices
    <3> QED
      BY <2>1, <3>1, <3>2 DEF Youngest
  <2>2. CASE Told(u, u) = {} /\ Grown(m, l, NewListener(u, "mine", FALSE, NoDoc)) /\ mainq' = mainq
    <3> DEFINE x == NewListener(u, "mine", FALSE, NoDoc)
    <3>1. x.of = u /\ x.heard = FALSE /\ x.acc = Naked
      BY DEF NewListener
    <3>2. Grown(m, l, x)
      BY <2>2
    <3> HIDE DEF x
    <3>3. Youngest(m, u, n) /\ n \in Indices(m) /\ m[n] = x
      BY <2>1, <3>1, <3>2
    <3>4. Answered(m, r, u, n, d, mine[u])
      BY <3>1, <3>3, Zenon DEF Answered
    <3> QED
      BY <3>3, <3>4
  <2>3. CASE \E j \in Told(u, u) :
               /\ Grown(m, l, NewListener(u, "mine", TRUE, l[j].told))
               /\ Grown(r, q, Job(u, l[j].told, {Len(l) + 1}))
    <3>1. PICK j \in Told(u, u) : /\ Grown(m, l, NewListener(u, "mine", TRUE, l[j].told))
                                  /\ Grown(r, q, Job(u, l[j].told, {Len(l) + 1}))
      BY <2>3
    <3>2. l[j].told = d
      <4>1. j \notin Due(u, u) /\ j \in Indices(l) /\ l[j].of = u
        <5>1. Told(u, u) \cap Due(u, u) = {}
          BY <1>2 DEF Listen
        <5>2. j \in Indices(l) /\ l[j].of = u
          BY <1>1, ToldFacts
        <5> QED
          BY <5>1, <5>2
      <4> QED
        BY <1>1, <4>1, DueCurrent
    <3> DEFINE x == NewListener(u, "mine", TRUE, d)
               y == Job(u, d, {n})
               k == Len(q) + 1
    <3>3. x.of = u /\ x.heard = TRUE /\ x.told = d /\ x.acc = Naked
      BY DEF NewListener
    <3>4. y.of = u /\ y.data = d /\ y.due = {n}
      BY DEF Job
    <3>5. Grown(m, l, x) /\ Grown(r, q, y)
      BY <3>1, <3>2
    <3> HIDE DEF x, y
    <3>6. Youngest(m, u, n) /\ n \in Indices(m) /\ m[n] = x
      BY <2>1, <3>3, <3>5
    <3>7. \A i \in Indices(q) : n \notin q[i].due
      <4>1. n \notin Indices(l)
        BY <1>8 DEF Indices
      <4> QED
        BY <1>1, <4>1 DEF Wired, Fits
    <3> HIDE DEF d, m, l, q, r, n
    <3>8. Len(r) = k /\ r[k] = y /\ \A i \in Indices(q) : r[i] = q[i]
      BY <3>5 DEF Grown
    <3>9. k \in Indices(r) /\ \A i \in Indices(r) : (i # k => i \in Indices(q)) /\ ~(i > k)
      BY <1>8, <3>8 DEF Indices
    <3>10. Coming(m, r, u, n, d, k)
      <4>1. r[k].of = u /\ r[k].data = d /\ n \in r[k].due
        BY <3>4, <3>8
      <4>2. m[n].acc = Naked
        BY <3>3, <3>6
      <4>3. \A i \in Indices(r) : (i # k => n \notin r[i].due) /\ (i > k => r[i].of # u)
        BY <3>7, <3>8, <3>9
      <4> HIDE DEF k
      <4> QED
        BY <3>9, <4>1, <4>2, <4>3, Zenon DEF Coming
    <3>11. Answered(m, r, u, n, d, mine[u])
      BY <3>3, <3>6, <3>9, <3>10, Zenon DEF Answered
    <3> QED
      BY <3>6, <3>11
  <2> QED
    BY <1>1, <1>2, <2>2, <2>3, ListenEffect
<1>10. Restored(u)'
  <2> HIDE DEF d
  <2>1. \E x \in Indices(m) : Youngest(m, u, x) /\ Answered(m, r, u, x, d', mine'[u])
    BY <1>2, <1>7, <1>9
  <2> QED
    BY <2>1 DEF Restored, d
<1>11. Screen(u)'
  BY <1>4, <1>5, <1>6, <1>10 DEF Screen
<1> QED
  BY <1>2, <1>3, <1>11, OthersScreen

(* A step of u beside its own document. *)
LEMMA BesideScreen ==
  ASSUME Base, OwnInv, NEW u \in User, OthersSame(u), Spread(u)',
         UNCHANGED <<outbox, clothes, sheet, calm, requests, mine>>,
         Len(listeners[u]) <= Len(listeners'[u]), Len(listeners'[u]) \in Nat,
         \A i \in Indices(listeners[u]) :
           /\ listeners'[u][i].of = listeners[u][i].of
           /\ listeners[u][i].of = u => listeners'[u][i] = listeners[u][i],
         \A i \in Indices(listeners'[u]) : i \notin Indices(listeners[u]) => listeners'[u][i].of # u,
         \/ mainq'[u] = mainq[u]
         \/ \E y : Grown(mainq'[u], mainq[u], y) /\ y.of # u
                   /\ (\A i \in y.due : listeners'[u][i].of # u)
  PROVE  OwnInv'
<1> DEFINE l == listeners[u]
           m == listeners'[u]
           q == mainq[u]
           r == mainq'[u]
           d == Seen(u, u)
<1>1. Screen(u) /\ l \in Seq(Listener) /\ q \in Seq(Callback)
  BY DEF Base, OwnInv, TypeOK
<1>2. Len(l) \in Nat
  BY <1>1, SeqFacts
<1>3. d' = d
  BY SeenKept
<1>4. /\ Current(l, u, d) => Current(m, u, d)
      /\ Free(q, u) => Free(r, u)
      /\ \A n : Youngest(l, u, n) => Youngest(m, u, n)
      /\ \A n : Youngest(l, u, n) /\ Answered(l, q, u, n, d, mine[u])
                  => Answered(m, r, u, n, d, mine[u])
  <2> HIDE DEF d
  <2> QED
    BY <1>1, <1>2, Beside
<1>5. Undisturbed(u)'
  <2> SUFFICES ASSUME calm'[u]
               PROVE  sheet'[u] /\ requests'[u] = 0 /\ Current(m, u, d') /\ Free(r, u)
    BY DEF Undisturbed
  <2>1. sheet[u] /\ requests[u] = 0 /\ Current(l, u, d) /\ Free(q, u)
    BY <1>1 DEF Screen, Undisturbed
  <2> HIDE DEF d
  <2> QED
    BY <1>3, <1>4, <2>1
<1>6. u \in Editor => Restored(u)'
  <2> SUFFICES ASSUME u \in Editor, ~sheet'[u], requests'[u] = 0
               PROVE  \E n \in Indices(m) : Youngest(m, u, n) /\ Answered(m, r, u, n, d', mine'[u])
    BY DEF Restored
  <2>1. PICK n \in Indices(l) : Youngest(l, u, n) /\ Answered(l, q, u, n, d, mine[u])
    BY <1>1 DEF Screen, Restored
  <2> HIDE DEF d
  <2>2. Youngest(m, u, n) /\ Answered(m, r, u, n, d', mine'[u])
    BY <1>3, <1>4, <2>1
  <2>3. n \in Indices(m)
    BY <2>2 DEF Youngest
  <2> QED
    BY <2>2, <2>3
<1>7. u \notin Editor => Idle(u)'
  <2> SUFFICES ASSUME Idle(u) PROVE \A i \in Indices(m) : m[i].of # u
    BY <1>1 DEF Screen, Idle
  <2> QED
    BY DEF Idle
<1>8. Screen(u)'
  BY <1>5, <1>6, <1>7 DEF Screen
<1> QED
  BY <1>8, OthersScreen

(* requestPartnerClothes. *)
LEMMA RequestPartnerClothesScreen ==
  ASSUME Base, OwnInv, NEW u \in User, RequestPartnerClothes(u)
  PROVE  OwnInv'
<1> DEFINE l == listeners[u]
           m == listeners'[u]
           o == partner_code[u]
<1>1. TypeOK /\ Spread(u) /\ l \in Seq(Listener)
  BY DEF Base, OwnInv, Screen, TypeOK
<1>2. Listen(u, o, "theirs") /\ UNCHANGED <<outbox, clothes, sheet, calm, requests, mine>>
  BY DEF RequestPartnerClothes
<1>3. o \in User /\ o # u
  BY RequestPartnerClothesBase
<1> HIDE DEF o
<1>4. Spread(u)'
  BY <1>1, <1>2, <1>3, ListenSpread
<1>5. Len(l) \in Nat
  BY <1>1, SeqFacts
<1>6. \E x : x.of = o /\ Grown(m, l, x)
  <2>1. \A heard, told : NewListener(o, "theirs", heard, told).of = o
    BY DEF NewListener
  <2>2. \E heard, told : Grown(m, l, NewListener(o, "theirs", heard, told))
    BY <1>1, <1>2, <1>3, ListenEffect
  <2> QED
    BY <2>1, <2>2
<1>7. PICK x : x.of = o /\ Grown(m, l, x)
  BY <1>6
<1>8. /\ Len(m) = Len(l) + 1 /\ m[Len(l) + 1] = x /\ \A i \in Indices(l) : m[i] = l[i]
  BY <1>7 DEF Grown
<1>9. \A i \in Indices(m) : i \notin Indices(l) => i = Len(l) + 1
  BY <1>5, <1>8 DEF Indices
<1>10. \/ mainq'[u] = mainq[u]
       \/ \E y : Grown(mainq'[u], mainq[u], y) /\ y.of # u /\ (\A i \in y.due : m[i].of # u)
  <2>1. CASE mainq' = mainq
    BY <2>1
  <2>2. CASE \E j : Grown(mainq'[u], mainq[u], Job(o, l[j].told, {Len(l) + 1}))
    <3>1. PICK j : Grown(mainq'[u], mainq[u], Job(o, l[j].told, {Len(l) + 1}))
      BY <2>2
    <3> DEFINE y == Job(o, l[j].told, {Len(l) + 1})
    <3>2. y.of = o /\ y.due = {Len(l) + 1}
      BY DEF Job
    <3>3. Grown(mainq'[u], mainq[u], y)
      BY <3>1
    <3> HIDE DEF y, l, m
    <3> QED
      BY <1>3, <1>7, <1>8, <3>2, <3>3
  <2> QED
    BY <1>1, <1>2, <1>3, <2>1, <2>2, ListenEffect
<1>11. OthersSame(u)
  BY <1>1, <1>2, <1>3, ListenEffect
<1>12. Len(l) <= Len(m) /\ Len(m) \in Nat
  BY <1>5, <1>8
<1>13. /\ \A i \in Indices(l) : m[i].of = l[i].of /\ (l[i].of = u => m[i] = l[i])
       /\ \A i \in Indices(m) : i \notin Indices(l) => m[i].of # u
  BY <1>3, <1>7, <1>8, <1>9
<1> QED
  BY <1>2, <1>4, <1>10, <1>11, <1>12, <1>13, BesideScreen

(* A snapshot of somebody else's document, or the first one of the own. *)
LEMMA SnapshotScreen ==
  ASSUME Base, OwnInv, NEW u \in User, NEW o \in User, Snapshot(u, o)
  PROVE  OwnInv'
<1> DEFINE l == listeners[u]
           m == listeners'[u]
           q == mainq[u]
           r == mainq'[u]
           d == Seen(u, u)
           y == Job(o, Seen(u, o), Due(u, o))
<1>1. TypeOK /\ Screen(u) /\ l \in Seq(Listener) /\ q \in Seq(Callback) /\ Wired(u)
  BY DEF Base, Routed, OwnInv, TypeOK
<1>2. UNCHANGED <<outbox, clothes, sheet, calm, requests, mine>>
  BY DEF Snapshot
<1>3. Spread(u)'
  BY <1>1, SnapshotSpread DEF Screen
<1>4. /\ Len(m) = Len(l)
      /\ \A i \in Indices(l) :
           /\ m[i].of = l[i].of /\ m[i].acc = l[i].acc
           /\ l[i].of = o => m[i].heard = TRUE /\ m[i].told = Seen(u, o)
           /\ l[i].of # o => m[i] = l[i]
  BY <1>1, SnapshotTells
<1>5. OthersSame(u) /\ Grown(r, q, y) /\ Due(u, o) # {}
  BY <1>1, SnapshotEffect
<1>6. y.of = o /\ y.data = Seen(u, o) /\ y.due = Due(u, o)
  BY DEF Job
<1>7. \A i \in Due(u, o) : i \in Indices(l) /\ l[i].of = o
  BY <1>1, DueCurrent
<1>8. Len(l) \in Nat /\ Len(q) \in Nat
  BY <1>1, SeqFacts
<1>9. Indices(m) = Indices(l)
  BY <1>4, Zenon DEF Indices
<1> HIDE DEF y
<1>10. CASE o # u
  <2>1. \A i \in y.due : m[i].of # u
    BY <1>4, <1>6, <1>7, <1>10
  <2>2. \E z : Grown(r, q, z) /\ z.of # u /\ (\A i \in z.due : m[i].of # u)
    BY <1>5, <1>6, <1>10, <2>1
  <2>3. /\ \A i \in Indices(l) : m[i].of = l[i].of /\ (l[i].of = u => m[i] = l[i])
        /\ \A i \in Indices(m) : i \notin Indices(l) => m[i].of # u
    BY <1>4, <1>9, <1>10
  <2>4. Len(l) <= Len(m) /\ Len(m) \in Nat
    BY <1>4, <1>8
  <2> QED
    BY <1>2, <1>3, <1>5, <2>2, <2>3, <2>4, BesideScreen
<1>11. CASE o = u
  <2>1. ~Current(l, u, d)
    BY <1>1, <1>5, <1>11, DueCurrent
  <2>2. u \in Editor
    BY <1>1, <1>5, <1>7, <1>11 DEF Screen, Idle
  <2>3. ~calm[u]
    BY <1>1, <2>1 DEF Screen, Undisturbed
  <2>4. Undisturbed(u)'
    BY <1>2, <2>3 DEF Undisturbed
  <2>5. d' = d
    BY <1>2, SeenKept
  <2>6. Restored(u)'
    <3> SUFFICES ASSUME ~sheet'[u], requests'[u] = 0
                 PROVE  \E n \in Indices(m) : Youngest(m, u, n) /\ Answered(m, r, u, n, d', mine'[u])
      BY DEF Restored
    <3>1. PICK n \in Indices(l) : Youngest(l, u, n) /\ Answered(l, q, u, n, d, mine[u])
      BY <1>1, <1>2, <2>2 DEF Screen, Restored
    <3>2. ~(l[n].heard /\ l[n].told = d)
      <4> SUFFICES ASSUME l[n].heard, l[n].told = d PROVE FALSE
        OBVIOUS
      <4>1. l[n].of = u
        BY <3>1 DEF Youngest
      <4>2. Current(l, u, d)
        <5>1. Uniform(l)
          BY <1>1 DEF Screen, Spread
        <5> HIDE DEF d, l
        <5>2. ASSUME NEW i \in Indices(l), l[i].of = u PROVE l[i].heard /\ l[i].told = d
          <6>1. Agree(l[n], l[i])
            BY <4>1, <5>1, <5>2 DEF Uniform
          <6> QED
            BY <6>1, Zenon DEF Agree
        <5> QED
          BY <5>2 DEF Current
      <4> QED
        BY <2>1, <4>2
    <3>3. ~l[n].heard /\ l[n].acc = Naked
      BY <3>1, <3>2 DEF Answered
    <3>4. n \in Due(u, u)
      BY <1>1, <1>11, <3>1, <3>3, DueCurrent DEF Youngest
    <3>5. \A k \in Indices(q) : n \notin q[k].due
      BY <1>1, <3>3 DEF Screen, Spread, Reached
    <3> DEFINE k == Len(q) + 1
    <3> HIDE DEF d, l, m, q, r
    <3>6. Len(r) = k /\ r[k] = y /\ \A i \in Indices(q) : r[i] = q[i]
      BY <1>5 DEF Grown
    <3>7. k \in Indices(r) /\ \A i \in Indices(r) : (i # k => i \in Indices(q)) /\ ~(i > k)
      BY <1>8, <3>6 DEF Indices
    <3>8. m[n].heard = TRUE /\ m[n].told = d /\ m[n].acc = Naked /\ m[n].of = u
      BY <1>4, <1>11, <3>1, <3>3 DEF Youngest, d
    <3>9. Youngest(m, u, n) /\ n \in Indices(m)
      BY <1>4, <1>9, <3>1 DEF Youngest
    <3>10. Coming(m, r, u, n, d, k)
      <4>1. r[k].of = u /\ r[k].data = d /\ n \in r[k].due
        BY <1>6, <1>11, <3>4, <3>6 DEF d
      <4>2. \A i \in Indices(r) : (i # k => n \notin r[i].due) /\ (i > k => r[i].of # u)
        BY <3>5, <3>6, <3>7
      <4> HIDE DEF k
      <4> QED
        BY <3>7, <3>8, <4>1, <4>2, Zenon DEF Coming
    <3>11. Answered(m, r, u, n, d', mine'[u])
      BY <2>5, <3>7, <3>8, <3>10, Zenon DEF Answered
    <3> QED
      BY <3>9, <3>11
  <2>7. Screen(u)'
    BY <1>3, <2>2, <2>4, <2>6 DEF Screen
  <2> QED
    BY <1>2, <1>5, <2>7, OthersScreen
<1> QED
  BY <1>10, <1>11

(* The jobs that are left after a callback. *)
LEMMA JobsLeft ==
  ASSUME NEW u \in User, NEW i, Fired(u, i), mainq[u] \in Seq(Callback), NEW o
  PROVE  /\ Free(mainq[u], o) => Free(mainq'[u], o)
         /\ \A k \in Indices(mainq[u]) : k # 1 =>
              \E h \in Indices(mainq'[u]) :
                /\ mainq'[u][h] = mainq[u][k]
                /\ \A j \in Indices(mainq'[u]) : j # h => \E g \in Indices(mainq[u]) :
                     /\ g # k /\ (j > h => g > k)
                     /\ mainq'[u][j].of = mainq[u][g].of /\ mainq'[u][j].data = mainq[u][g].data
                     /\ mainq'[u][j].due \subseteq mainq[u][g].due
<1> DEFINE q == mainq[u]
           r == mainq'[u]
<1>1. Len(q) \in Nat
  BY SeqFacts
<1>2. CASE Popped(u)
  <2>1. Len(r) = Len(q) - 1 /\ \A k \in Indices(r) : k + 1 \in Indices(q) /\ r[k] = q[k + 1]
    BY <1>2 DEF Popped
  <2> HIDE DEF q, r
  <2>2. Free(q, o) => Free(r, o)
    BY <2>1 DEF Free
  <2>3. ASSUME NEW k \in Indices(q), k # 1
        PROVE  k - 1 \in Indices(r) /\ r[k - 1] = q[k]
               /\ \A j \in Indices(r) : j # k - 1 => /\ j + 1 \in Indices(q) /\ j + 1 # k
                                                      /\ (j > k - 1 => j + 1 > k)
                                                      /\ r[j] = q[j + 1]
    <3>1. k \in Nat /\ k - 1 \in Indices(r)
      BY <1>1, <2>1, <2>3 DEF Indices
    <3>2. (k - 1) + 1 = k
      BY <3>1
    <3>3. r[k - 1] = q[k]
      BY <2>1, <3>1, <3>2
    <3>4. \A j \in Indices(r) : j \in Nat
      BY DEF Indices
    <3>5. \A j \in Nat : j # k - 1 => j + 1 # k /\ (j > k - 1 => j + 1 > k)
      BY <3>1
    <3> QED
      BY <2>1, <3>1, <3>3, <3>4, <3>5
  <2>4. ASSUME NEW k \in Indices(q), k # 1
        PROVE  \E h \in Indices(r) :
                 /\ r[h] = q[k]
                 /\ \A j \in Indices(r) : j # h => \E g \in Indices(q) :
                      /\ g # k /\ (j > h => g > k)
                      /\ r[j].of = q[g].of /\ r[j].data = q[g].data /\ r[j].due \subseteq q[g].due
    <3> DEFINE h == k - 1
    <3>1. h \in Indices(r) /\ r[h] = q[k]
      BY <2>3, <2>4
    <3>2. ASSUME NEW j \in Indices(r), j # h
          PROVE  \E g \in Indices(q) :
                   /\ g # k /\ (j > h => g > k)
                   /\ r[j].of = q[g].of /\ r[j].data = q[g].data /\ r[j].due \subseteq q[g].due
      <4>1. /\ j + 1 \in Indices(q) /\ j + 1 # k /\ (j > h => j + 1 > k)
            /\ r[j] = q[j + 1]
        BY <2>3, <2>4, <3>2
      <4> HIDE DEF h
      <4> QED
        BY <4>1
    <3> HIDE DEF h
    <3> QED
      BY <3>1, <3>2
  <2> QED
    BY <2>2, <2>4 DEF q, r
<1>3. CASE Trimmed(u, i)
  <2>1. /\ Len(r) = Len(q) /\ r[1].due \subseteq q[1].due
        /\ r[1].of = q[1].of /\ r[1].data = q[1].data
        /\ \A k \in Indices(q) : k # 1 => r[k] = q[k]
    BY <1>3 DEF Trimmed
  <2> HIDE DEF q, r
  <2>2. Indices(r) = Indices(q)
    BY <2>1, Zenon DEF Indices
  <2>3. \A k \in Indices(q) : r[k].of = q[k].of /\ r[k].data = q[k].data /\ r[k].due \subseteq q[k].due
    BY <2>1
  <2>4. Free(q, o) => Free(r, o)
    BY <2>2, <2>3 DEF Free
  <2>5. ASSUME NEW k \in Indices(q), k # 1
        PROVE  \E h \in Indices(r) :
                 /\ r[h] = q[k]
                 /\ \A j \in Indices(r) : j # h => \E g \in Indices(q) :
                      /\ g # k /\ (j > h => g > k)
                      /\ r[j].of = q[g].of /\ r[j].data = q[g].data /\ r[j].due \subseteq q[g].due
    BY <2>1, <2>2, <2>3, <2>5
  <2> QED
    BY <2>4, <2>5 DEF q, r
<1> QED
  BY <1>2, <1>3 DEF Fired

(* A callback for another document leaves the own screen alone; one for    *)
(* the own document brings it forward, that of the youngest listener last. *)
LEMMA CallbackScreen ==
  ASSUME Base, OwnInv, NEW u \in User, OnSnapshot(u)
  PROVE  OwnInv' /\ (calm[u] => mine'[u] = mine[u])
<1> DEFINE l == listeners[u]
           m == listeners'[u]
           q == mainq[u]
           r == mainq'[u]
           d == Seen(u, u)
<1>1. TypeOK /\ Screen(u) /\ q \in Seq(Callback) /\ Wired(u) /\ mine \in [User -> Items]
  BY DEF Base, Routed, OwnInv, TypeOK
<1>2. UNCHANGED <<outbox, clothes, sheet, calm, requests>>
  BY DEF OnSnapshot
<1>3. PICK i \in Indices(l) : Fired(u, i)
  BY <1>1, CallbackEffect
<1>4. OthersSame(u)
  BY <1>1, CallbackEffect
<1>5. d' = d
  BY <1>2, SeenKept
<1>6. Spread(u)'
  BY <1>1, CallbackSpread DEF Screen
<1>7. /\ Len(m) = Len(l) /\ m[i].acc = Decode(l[i].acc, q[1].data)
      /\ \A j \in Indices(l) : /\ m[j].of = l[j].of /\ m[j].heard = l[j].heard
                               /\ m[j].told = l[j].told /\ (j # i => m[j] = l[j])
  BY <1>3 DEF Fired, Filled
<1>8. 1 \in Indices(q) /\ i \in q[1].due /\ (\A j \in q[1].due : i <= j)
  BY <1>3 DEF Fired
<1>9. \A k \in Indices(q) : \A j \in q[k].due : j \in Indices(l) /\ l[j].of = q[k].of
  BY <1>1 DEF Wired, Fits
<1>10. l[i].of = q[1].of /\ (l[i].for = "mine" <=> l[i].of = u)
  BY <1>1, <1>8, <1>9 DEF Wired, Screens
<1>11. /\ \A v \in User : v # u => mine'[v] = mine[v]
       /\ q[1].of # u => mine'[u] = mine[u]
       /\ q[1].of = u => mine'[u] = Decode(l[i].acc, q[1].data)
  BY <1>1, <1>3, <1>10 DEF Fired
<1>12. Indices(m) = Indices(l)
  BY <1>7, Zenon DEF Indices
<1>13. Free(q, u) => Free(r, u) /\ q[1].of # u
  BY <1>1, <1>3, <1>8, JobsLeft DEF Free
<1>14. Current(l, u, d) => Current(m, u, d)
  <2> HIDE DEF l, m, d
  <2> SUFFICES ASSUME Current(l, u, d), NEW j \in Indices(l), m[j].of = u
               PROVE  m[j].heard /\ m[j].told = d
    BY <1>12 DEF Current
  <2>1. l[j].heard /\ l[j].told = d
    BY <1>7 DEF Current
  <2> QED
    BY <1>7, <2>1, Zenon
<1>15. calm[u] => q[1].of # u
  BY <1>1, <1>13 DEF Screen, Undisturbed
<1>16. Undisturbed(u)'
  <2> SUFFICES ASSUME calm'[u]
               PROVE  sheet'[u] /\ requests'[u] = 0 /\ Current(m, u, d') /\ Free(r, u)
    BY DEF Undisturbed
  <2>1. sheet[u] /\ requests[u] = 0 /\ Current(l, u, d) /\ Free(q, u)
    BY <1>1, <1>2 DEF Screen, Undisturbed
  <2> HIDE DEF d
  <2> QED
    BY <1>2, <1>5, <1>13, <1>14, <2>1
<1>17. u \notin Editor => Idle(u)'
  <2> SUFFICES ASSUME Idle(u) PROVE mine'[u] = Naked /\ \A j \in Indices(m) : m[j].of # u
    BY <1>1, <1>2 DEF Screen, Idle
  <2>1. \A j \in Indices(l) : l[j].of # u
    BY DEF Idle
  <2> QED
    BY <1>7, <1>10, <1>11, <1>12, <2>1 DEF Idle
<1>18. ASSUME ~sheet[u], requests[u] = 0, u \in Editor
       PROVE  \E n \in Indices(m) : Youngest(m, u, n) /\ Answered(m, r, u, n, d, mine'[u])
  <2>1. PICK n \in Indices(l) : Youngest(l, u, n) /\ Answered(l, q, u, n, d, mine[u])
    BY <1>1, <1>18 DEF Screen, Restored
  <2>2. n \in Indices(l) /\ l[n].of = u /\ (\A j \in Indices(l) : j > n => l[j].of # u)
    BY <2>1 DEF Youngest
  <2>3. Youngest(m, u, n) /\ n \in Indices(m)
    BY <1>7, <1>12, <2>2 DEF Youngest
  <2>4. Uniform(l) /\ Reached(l, q)
    BY <1>1 DEF Screen, Spread
  <2> SUFFICES Answered(m, r, u, n, d, mine'[u])
    BY <2>3
  <2> HIDE DEF l, m, q, r, d
  <2>5. CASE ~l[n].heard
    <3>1. l[n].acc = Naked
      BY <2>1, <2>5 DEF Answered
    <3>2. l[i].heard
      BY <1>8, <2>4 DEF Reached
    <3>3. q[1].of # u
      <4> SUFFICES ASSUME l[i].of = u PROVE FALSE
        BY <1>10
      <4>1. Agree(l[i], l[n])
        BY <1>3, <2>2, <2>4 DEF Uniform
      <4> QED
        BY <2>5, <3>2, <4>1, Zenon DEF Agree
    <3>4. n # i
      BY <1>10, <2>2, <3>3
    <3>5. m[n] = l[n]
      BY <1>7, <2>2, <3>4
    <3> QED
      BY <2>5, <3>1, <3>5, Zenon DEF Answered
  <2>6. CASE l[n].heard /\ l[n].told = d /\ \E k \in Indices(q) : Coming(l, q, u, n, d, k)
    <3>1. PICK k \in Indices(q) : Coming(l, q, u, n, d, k)
      BY <2>6
    <3>2. /\ q[k].of = u /\ q[k].data = d /\ n \in q[k].due /\ l[n].acc = Naked
          /\ \A j \in Indices(q) : (j # k => n \notin q[j].due) /\ (j > k => q[j].of # u)
      BY <3>1 DEF Coming
    <3>3. m[n].heard /\ m[n].told = d
      BY <1>7, <2>2, <2>6, Zenon
    <3>4. CASE k # 1
      <4>1. i # n
        BY <1>8, <3>2, <3>4
      <4>2. m[n].acc = Naked
        BY <1>7, <2>2, <3>2, <4>1
      <4>3. PICK h \in Indices(r) :
              /\ r[h] = q[k]
              /\ \A j \in Indices(r) : j # h => \E g \in Indices(q) :
                   /\ g # k /\ (j > h => g > k)
                   /\ r[j].of = q[g].of /\ r[j].due \subseteq q[g].due
        BY <1>1, <1>3, <3>4, JobsLeft DEF q, r
      <4>4. \A j \in Indices(r) : (j # h => n \notin r[j].due) /\ (j > h => r[j].of # u)
        <5> SUFFICES ASSUME NEW j \in Indices(r), j # h
                     PROVE  n \notin r[j].due /\ (j > h => r[j].of # u)
          BY DEF Indices
        <5>1. PICK g \in Indices(q) : /\ g # k /\ (j > h => g > k)
                                      /\ r[j].of = q[g].of /\ r[j].due \subseteq q[g].due
          BY <4>3
        <5> QED
          BY <3>2, <5>1
      <4>5. Coming(m, r, u, n, d, h)
        BY <3>2, <4>2, <4>3, <4>4 DEF Coming
      <4> QED
        BY <3>3, <4>5, Zenon DEF Answered
    <3>5. CASE k = 1 /\ i = n
      <4>1. q[1].due = {n}
        <5>1. \A j \in q[1].due : j \in Indices(l) /\ l[j].of = u /\ n <= j
          BY <1>8, <1>9, <3>2, <3>5
        <5>2. \A j \in q[1].due : ~(j > n)
          BY <2>2, <5>1
        <5>3. n \in Nat /\ \A j \in Indices(l) : j \in Nat
          BY <2>2 DEF Indices
        <5>4. ASSUME NEW j \in q[1].due PROVE j = n
          <6>1. j \in Nat /\ n <= j /\ ~(j > n)
            BY <5>1, <5>2, <5>3
          <6> QED
            BY <5>3, <6>1
        <5> QED
          BY <3>2, <3>5, <5>4
      <4>2. Popped(u)
        BY <1>3, <3>5, <4>1 DEF Fired, q
      <4>3. \A j \in Indices(r) : j + 1 \in Indices(q) /\ r[j] = q[j + 1]
        BY <4>2 DEF Popped, q, r
      <4>4. \A j \in Indices(r) : j + 1 > 1
        BY DEF Indices
      <4>5. Free(r, u)
        BY <3>2, <3>5, <4>3, <4>4 DEF Free
      <4>6. mine'[u] = Decode(Naked, d)
        BY <1>11, <3>2, <3>5, Zenon
      <4> QED
        BY <3>3, <4>5, <4>6, Zenon DEF Answered
    <3>6. CASE k = 1 /\ i # n
      <4>1. q[1].due # {i} /\ n \in q[1].due \ {i}
        BY <3>2, <3>6
      <4>2. /\ Len(r) = Len(q) /\ r[1].due = q[1].due \ {i}
            /\ r[1].of = q[1].of /\ r[1].data = q[1].data
            /\ \A j \in Indices(q) : j # 1 => r[j] = q[j]
        BY <1>3, <4>1 DEF Fired, Trimmed, q, r
      <4>3. Indices(r) = Indices(q)
        BY <4>2, Zenon DEF Indices
      <4>4. m[n].acc = Naked
        BY <1>7, <2>2, <3>2, <3>6
      <4>5. \A j \in Indices(r) : (j # 1 => n \notin r[j].due) /\ (j > 1 => r[j].of # u)
        <5> SUFFICES ASSUME NEW j \in Indices(q), j # 1
                     PROVE  n \notin r[j].due /\ (j > 1 => r[j].of # u)
          BY <4>3
        <5> QED
          BY <3>2, <3>6, <4>2
      <4>6. Coming(m, r, u, n, d, 1)
        BY <1>8, <3>2, <3>6, <4>1, <4>2, <4>3, <4>4, <4>5 DEF Coming
      <4> QED
        BY <1>8, <3>3, <4>3, <4>6, Zenon DEF Answered
    <3> QED
      BY <3>4, <3>5, <3>6
  <2>7. CASE l[n].heard /\ l[n].told = d /\ Free(q, u) /\ mine[u] = Decode(Naked, d)
    <3>1. m[n].heard /\ m[n].told = d
      BY <1>7, <2>2, <2>7, Zenon
    <3> QED
      BY <1>11, <1>13, <2>7, <3>1, Zenon DEF Answered
  <2> QED
    BY <2>1, <2>5, <2>6, <2>7, Zenon DEF Answered
<1>19. u \in Editor => Restored(u)'
  <2> SUFFICES ASSUME u \in Editor, ~sheet'[u], requests'[u] = 0
               PROVE  \E n \in Indices(m) : Youngest(m, u, n) /\ Answered(m, r, u, n, d', mine'[u])
    BY DEF Restored
  <2> HIDE DEF d
  <2> QED
    BY <1>2, <1>5, <1>18
<1>20. Screen(u)'
  BY <1>6, <1>16, <1>17, <1>19 DEF Screen
<1> QED
  BY <1>2, <1>4, <1>11, <1>15, <1>20, OthersScreen

(* At first the own outfit has been asked for. *)
LEMMA InitScreen == Init => OwnInv
<1> SUFFICES ASSUME Init, NEW u \in User PROVE Screen(u)
  BY DEF OwnInv
<1>1. /\ listeners[u] = << >> /\ mainq[u] = << >> /\ outbox[u] = << >> /\ clothes[u] = NoDoc
      /\ mine[u] = Naked /\ calm[u] = FALSE /\ requests[u] = IF u \in Editor THEN 1 ELSE 0
  BY DEF Init
<1>2. Indices(<< >>) = {}
  BY EmptySeq DEF Indices
<1>3. Spread(u)
  BY <1>1, <1>2 DEF Spread, Uniform, Reached
<1>4. Undisturbed(u)
  BY <1>1 DEF Undisturbed
<1>5. u \in Editor => Restored(u)
  BY <1>1 DEF Restored
<1>6. u \notin Editor => Idle(u)
  BY <1>1, <1>2 DEF Idle
<1> QED
  BY <1>3, <1>4, <1>5, <1>6 DEF Screen

(* OwnInv is inductive. *)
LEMMA NextScreen == Base /\ OwnInv /\ [Next]_vars => OwnInv'
<1> SUFFICES ASSUME Base, OwnInv, [Next]_vars PROVE OwnInv'
  OBVIOUS
<1>1. CASE UNCHANGED vars
  BY <1>1, ScreenKept, SeenKept DEF vars, OwnInv
<1>2. ASSUME NEW u \in User, Loading(u) PROVE OwnInv'
  BY <1>2, RequestClothesScreen, RequestPartnerClothesScreen, CommitScreen, CallbackScreen,
     SnapshotScreen DEF Loading
<1> QED
  BY <1>1, <1>2, DressingScreen, LinkedScreen DEF Next

(* Both hold in every reachable state. *)
LEMMA ScreenInvariance == Spec => [](Base /\ OwnInv)
<1>1. Init => Base /\ OwnInv
  BY InitBase, InitScreen
<1>2. (Base /\ OwnInv) /\ [Next]_vars => (Base /\ OwnInv)'
  BY NextBase, NextScreen
<1> QED
  BY <1>1, <1>2, PTL DEF Spec

(* finishOutfitButton and cancelOutfitButton: once everything is delivered *)
(* and the picker is closed, users see the outfit that they have saved,    *)
(* however many listeners with outdated dictionaries there are.            *)
THEOREM OwnScreenAlwaysAgrees == Spec => []OwnScreenAgrees
<1>1. Base /\ OwnInv => OwnScreenAgrees
  <2> SUFFICES ASSUME Base, OwnInv, NEW u \in User, Quiet(u, u), ~sheet[u]
               PROVE  Visible(mine[u]) = Visible(Outfit(u))
    BY DEF OwnScreenAgrees
  <2>1. TypeOK /\ Screen(u)
    BY DEF Base, OwnInv
  <2>2. outbox[u] = << >> /\ requests[u] = 0 /\ mainq[u] = << >> /\ Due(u, u) = {}
    BY DEF Quiet
  <2>3. Seen(u, u) = clothes[u]
    BY <2>2 DEF Seen
  <2>4. Current(listeners[u], u, Seen(u, u))
    BY <2>1, <2>2, DueCurrent
  <2>5. CASE u \in Editor
    <3>1. PICK n \in Indices(listeners[u]) :
            /\ Youngest(listeners[u], u, n)
            /\ Answered(listeners[u], mainq[u], u, n, Seen(u, u), mine[u])
      BY <2>1, <2>2, <2>5 DEF Screen, Restored
    <3>2. listeners[u][n].heard
      BY <2>4, <3>1 DEF Current, Youngest
    <3>3. Indices(mainq[u]) = {}
      BY <2>2, EmptySeq DEF Indices
    <3>4. mine[u] = Decode(Naked, Seen(u, u))
      BY <3>1, <3>2, <3>3, Zenon DEF Answered
    <3> QED
      BY <2>3, <3>4 DEF Outfit
  <2>6. CASE u \notin Editor
    <3>1. mine[u] = Naked /\ clothes[u] = NoDoc
      BY <2>1, <2>6 DEF Screen, Idle
    <3>2. Decode(Naked, NoDoc) = Naked
      BY DEF Decode, Naked, NoDoc
    <3> QED
      BY <3>1, <3>2 DEF Outfit
  <2> QED
    BY <2>5, <2>6
<1> QED
  BY <1>1, ScreenInvariance, PTL

(* The completion of requestClothes replaces selectedItems: it never       *)
(* undoes an edit when the picker was opened after all callbacks had run.  *)
THEOREM EditsAlwaysKept == Spec => EditsKept
<1>1. Base /\ OwnInv /\ [Next]_vars =>
        [\A u \in User : calm[u] /\ OnSnapshot(u) => mine'[u] = mine[u]]_vars
  BY CallbackScreen
<1> QED
  BY <1>1, ScreenInvariance, PTL DEF Spec, EditsKept

-----------------------------------------------------------------------------
(* The partner's screen, for users that have one partner only *)

(* One partner, ever: a couple alone, or codes that are set once. *)
OnePartner ==
  MaxLink <= 1 \/ \A u, p, q \in User : p # u /\ q # u => p = q

(* Every cloth and every reset of d is among items. *)
Shows(items, d) == \A c \in Category : d.items[c] # None => items[c] = d.items[c]

Followed(u) ==
  /\ links[u] = 0 => partner_code[u] = "nil" /\ fetches[u] = 0
  /\ partner_code[u] # "nil" => \/ fetches[u] > 0
                                \/ \E i \in Indices(listeners[u]) : listeners[u][i].of # u
  /\ \A i \in Indices(listeners[u]) : listeners[u][i].of \in {u, partner_code[u]}

LastJob(q, p, d) ==
  \E k \in Indices(q) : /\ q[k].of = p /\ q[k].data = d
                        /\ \A j \in Indices(q) : j > k => q[j].of # p

Presented(u) ==
  \A i \in Indices(listeners[u]) :
    listeners[u][i].of # u /\ listeners[u][i].heard =>
      \/ LastJob(mainq[u], listeners[u][i].of, listeners[u][i].told)
      \/ Free(mainq[u], listeners[u][i].of) /\ Shows(theirs[u], listeners[u][i].told)

PartnerInv == \A u \in User : Followed(u) /\ Presented(u)

(* One job more. *)
LEMMA LastJobMore ==
  ASSUME NEW q \in Seq(Callback), NEW r, NEW y, Grown(r, q, y), NEW p
  PROVE  /\ y.of = p => LastJob(r, p, y.data)
         /\ y.of # p => /\ \A d : LastJob(q, p, d) => LastJob(r, p, d)
                        /\ Free(q, p) => Free(r, p)
<1> DEFINE n == Len(q) + 1
<1>1. Len(q) \in Nat
  BY SeqFacts
<1>2. Len(r) = n /\ r[n] = y /\ \A k \in Indices(q) : r[k] = q[k]
  BY DEF Grown
<1>3. /\ n \in Indices(r) /\ \A k \in Indices(q) : k \in Indices(r)
      /\ \A k \in Indices(r) : (k \in Indices(q) \/ k = n) /\ ~(k > n)
  BY <1>1, <1>2 DEF Indices
<1> HIDE DEF n
<1>4. y.of = p => LastJob(r, p, y.data)
  BY <1>2, <1>3 DEF LastJob
<1>5. ASSUME y.of # p, NEW d, LastJob(q, p, d) PROVE LastJob(r, p, d)
  <2>1. PICK k \in Indices(q) : /\ q[k].of = p /\ q[k].data = d
                                /\ \A j \in Indices(q) : j > k => q[j].of # p
    BY <1>5 DEF LastJob
  <2>2. \A j \in Indices(r) : j > k => r[j].of # p
    BY <1>2, <1>3, <1>5, <2>1
  <2>3. k \in Indices(r) /\ r[k].of = p /\ r[k].data = d
    BY <1>2, <1>3, <2>1
  <2> QED
    BY <2>2, <2>3 DEF LastJob
<1>6. y.of # p /\ Free(q, p) => Free(r, p)
  BY <1>2, <1>3 DEF Free
<1> QED
  BY <1>4, <1>5, <1>6

(* What a listener shows is shown, or is coming. *)
Ready(x, q, items) ==
  x.heard => LastJob(q, x.of, x.told) \/ (Free(q, x.of) /\ Shows(items, x.told))

(* Presented, listener by listener. *)
LEMMA PresentedReady ==
  ASSUME NEW u
  PROVE  Presented(u) <=> \A i \in Indices(listeners[u]) :
           listeners[u][i].of # u => Ready(listeners[u][i], mainq[u], theirs[u])
BY DEF Presented, Ready

(* The same after the step. *)
LEMMA PresentedReadyNext ==
  ASSUME NEW u
  PROVE  Presented(u)' <=> \A i \in Indices(listeners'[u]) :
           listeners'[u][i].of # u => Ready(listeners'[u][i], mainq'[u], theirs'[u])
BY DEF Presented, Ready

(* A step that leaves the partner's screen of v alone. *)
LEMMA PartnerKept ==
  ASSUME NEW v, Followed(v), Presented(v),
         listeners'[v] = listeners[v], mainq'[v] = mainq[v], theirs'[v] = theirs[v],
         partner_code'[v] = partner_code[v], fetches'[v] = fetches[v], links'[v] = links[v]
  PROVE  Followed(v)' /\ Presented(v)'
BY Zenon DEF Followed, Presented

(* At first nobody has a partner. *)
LEMMA InitPartner == Init => PartnerInv
<1> SUFFICES ASSUME Init, NEW u \in User PROVE Followed(u) /\ Presented(u)
  BY DEF PartnerInv
<1>1. listeners[u] = << >> /\ partner_code[u] = "nil" /\ fetches[u] = 0
  BY DEF Init
<1>2. Indices(<< >>) = {}
  BY EmptySeq DEF Indices
<1> QED
  BY <1>1, <1>2 DEF Followed, Presented

(* A partner is found: the first one, or the same again. *)
LEMMA LinkedPartner ==
  ASSUME OnePartner, Base, PartnerInv, NEW u \in Viewer, NEW p \in User, Linked(u, p)
  PROVE  PartnerInv'
<1>1. /\ UNCHANGED <<listeners, mainq, theirs>> /\ u # p /\ links[u] < MaxLink
      /\ partner_code' = [partner_code EXCEPT ![u] = p]
      /\ fetches' = [fetches EXCEPT ![u] = fetches[u] + 1]
      /\ links' = [links EXCEPT ![u] = links[u] + 1]
  BY DEF Linked
<1>2. u \in User /\ TypeOK
  BY UserAssumption DEF Base
<1> SUFFICES ASSUME NEW v \in User PROVE Followed(v)' /\ Presented(v)'
  BY DEF PartnerInv
<1>3. Followed(v) /\ Presented(v)
  BY DEF PartnerInv
<1>4. CASE v # u
  <2>1. partner_code'[v] = partner_code[v] /\ fetches'[v] = fetches[v] /\ links'[v] = links[v]
    BY <1>1, <1>4 DEF Base, TypeOK
  <2> QED
    BY <1>1, <1>3, <2>1, PartnerKept
<1>5. CASE v = u
  <2>1. partner_code'[u] = p /\ fetches'[u] = fetches[u] + 1 /\ links'[u] = links[u] + 1
        /\ fetches[u] \in Nat /\ links[u] \in Nat
    BY <1>1, <1>2 DEF TypeOK
  <2>2. fetches'[u] > 0 /\ links'[u] # 0
    BY <2>1
  <2>3. ASSUME NEW i \in Indices(listeners[u]), listeners[u][i].of # u
        PROVE  listeners[u][i].of = p
    <3>1. listeners[u][i].of \in User /\ listeners[u][i].of = partner_code[u]
      BY <1>2, <1>3, <1>5, <2>3, FieldTypes DEF Followed
    <3>2. links[u] # 0
      BY <1>3, <1>5, <3>1, UserAssumption DEF Followed
    <3>3. ~(MaxLink <= 1)
      BY <1>1, <2>1, <3>2, SyncBounds
    <3> QED
      BY <1>1, <1>2, <2>3, <3>1, <3>3 DEF OnePartner
  <2>4. Followed(u)'
    BY <1>1, <2>1, <2>2, <2>3 DEF Followed
  <2>5. Presented(u)'
    BY <1>1, <1>3, <1>5 DEF Presented
  <2> QED
    BY <1>5, <2>4, <2>5
<1> QED
  BY <1>4, <1>5

(* Steps of u that concern its listeners and its main queue only. *)
LEMMA OthersPartner ==
  ASSUME PartnerInv, NEW u \in User, OthersSame(u), Followed(u)', Presented(u)',
         UNCHANGED <<partner_code, links>>,
         \A v \in User : v # u => theirs'[v] = theirs[v] /\ fetches'[v] = fetches[v]
  PROVE  PartnerInv'
<1> SUFFICES ASSUME NEW v \in User, v # u PROVE Followed(v)' /\ Presented(v)'
  BY DEF PartnerInv
<1> QED
  BY PartnerKept DEF PartnerInv, OthersSame

(* requestClothes adds nothing to the partner's screen. *)
LEMMA RequestClothesPartner ==
  ASSUME Base, PartnerInv, NEW u \in User, RequestClothes(u)
  PROVE  PartnerInv'
<1> DEFINE l == listeners[u]
           m == listeners'[u]
           q == mainq[u]
           r == mainq'[u]
<1>1. TypeOK /\ l \in Seq(Listener) /\ q \in Seq(Callback) /\ Followed(u) /\ Presented(u)
  BY DEF Base, TypeOK, PartnerInv
<1>2. Listen(u, u, "mine") /\ UNCHANGED <<theirs, partner_code, fetches, links>>
  BY DEF RequestClothes
<1>3. OthersSame(u)
  BY <1>1, <1>2, ListenEffect
<1>4. Len(l) \in Nat
  BY <1>1, SeqFacts
<1>5. PICK x : x.of = u /\ Grown(m, l, x)
  <2>1. \A heard, told : NewListener(u, "mine", heard, told).of = u
    BY DEF NewListener
  <2>2. \E heard, told : Grown(m, l, NewListener(u, "mine", heard, told))
    BY <1>1, <1>2, ListenEffect
  <2> QED
    BY <2>1, <2>2
<1>6. r = q \/ \E y : y.of = u /\ Grown(r, q, y)
  <2>1. \A d, due : Job(u, d, due).of = u
    BY DEF Job
  <2>2. r = q \/ \E d, due : Grown(r, q, Job(u, d, due))
    BY <1>1, <1>2, ListenEffect
  <2> QED
    BY <2>1, <2>2
<1>7. \A i \in Indices(l) : l[i].of # u => Ready(l[i], q, theirs[u])
  BY <1>1, PresentedReady
<1>8. /\ \A p : p # u => \A d : LastJob(q, p, d) => LastJob(r, p, d)
      /\ \A p : p # u => (Free(q, p) => Free(r, p))
  BY <1>1, <1>6, LastJobMore
<1> HIDE DEF l, m, q, r
<1>9. \A i \in Indices(l) : l[i].of # u => Ready(l[i], r, theirs[u])
  BY <1>7, <1>8, Zenon DEF Ready
<1>10. /\ m[Len(l) + 1] = x /\ (\A i \in Indices(l) : m[i] = l[i] /\ i \in Indices(m))
       /\ \A i \in Indices(m) : i \in Indices(l) \/ i = Len(l) + 1
  BY <1>4, <1>5 DEF Grown, Indices
<1>11. \A i \in Indices(m) : m[i].of # u => i \in Indices(l) /\ m[i] = l[i]
  BY <1>5, <1>10
<1>12. Presented(u)'
  <2>1. \A i \in Indices(m) : m[i].of # u => Ready(m[i], r, theirs'[u])
    BY <1>2, <1>9, <1>11
  <2> QED
    BY <2>1, PresentedReadyNext DEF m, r
<1>13. Followed(u)'
  <2>1. partner_code[u] # "nil" => fetches[u] > 0 \/ \E i \in Indices(m) : m[i].of # u
    BY <1>1, <1>10 DEF Followed, l
  <2>2. \A i \in Indices(m) : m[i].of \in {u, partner_code[u]}
    BY <1>1, <1>11 DEF Followed, l
  <2> QED
    BY <1>1, <1>2, <2>1, <2>2 DEF Followed, m
<1> QED
  BY <1>2, <1>3, <1>12, <1>13, OthersPartner

(* requestPartnerClothes: the new listener shows what the others do. *)
LEMMA RequestPartnerClothesPartner ==
  ASSUME Base, OwnInv, PartnerInv, NEW u \in User, RequestPartnerClothes(u)
  PROVE  PartnerInv'
<1> DEFINE l == listeners[u]
           m == listeners'[u]
           q == mainq[u]
           r == mainq'[u]
           p == partner_code[u]
<1>1. TypeOK /\ l \in Seq(Listener) /\ q \in Seq(Callback) /\ Followed(u) /\ Presented(u) /\ Spread(u)
  BY DEF Base, TypeOK, PartnerInv, OwnInv, Screen
<1>2. Listen(u, p, "theirs") /\ UNCHANGED <<theirs, partner_code, links>>
      /\ (\A v \in User : v # u => fetches'[v] = fetches[v]) /\ fetches[u] > 0
  BY <1>1 DEF RequestPartnerClothes, TypeOK
<1>3. p \in User /\ p # u
  BY RequestPartnerClothesBase
<1> HIDE DEF p
<1>4. OthersSame(u)
  BY <1>1, <1>2, <1>3, ListenEffect
<1>5. Len(l) \in Nat
  BY <1>1, SeqFacts
<1>6. \A i \in Indices(l) : l[i].of # u => l[i].of = p /\ Ready(l[i], q, theirs[u])
  BY <1>1, PresentedReady DEF Followed, p
<1>7. ASSUME NEW x, x.of = p, Grown(m, l, x)
      PROVE  /\ \A i \in Indices(l) : m[i] = l[i]
             /\ \A i \in Indices(m) : m[i].of # u => (i \in Indices(l) /\ m[i] = l[i]) \/ m[i] = x
             /\ Followed(u)'
  <2>1. /\ m[Len(l) + 1] = x /\ (\A i \in Indices(l) : m[i] = l[i]) /\ Len(l) + 1 \in Indices(m)
        /\ \A i \in Indices(m) : i \in Indices(l) \/ i = Len(l) + 1
    <3> HIDE DEF l, m
    <3> QED
      BY <1>5, <1>7 DEF Grown, Indices
  <2>2. \E i \in Indices(m) : m[i].of # u
    BY <1>3, <1>7, <2>1
  <2>3. \A i \in Indices(m) : m[i].of \in {u, p}
    BY <1>6, <1>7, <2>1
  <2>4. links[u] # 0
    BY <1>1, <1>2 DEF Followed
  <2>5. Followed(u)'
    BY <1>2, <2>2, <2>3, <2>4 DEF Followed, p
  <2> QED
    BY <2>1, <2>5
<1>8. Followed(u)' /\ Presented(u)'
  <2>1. CASE Grown(m, l, NewListener(p, "theirs", FALSE, NoDoc)) /\ mainq' = mainq
    <3> DEFINE x == NewListener(p, "theirs", FALSE, NoDoc)
    <3>1. x.of = p /\ x.heard = FALSE
      BY DEF NewListener
    <3>2. Grown(m, l, x)
      BY <2>1
    <3> HIDE DEF x
    <3>3. Ready(x, q, theirs[u])
      BY <3>1, Zenon DEF Ready
    <3>4. \A i \in Indices(m) : m[i].of # u => Ready(m[i], r, theirs'[u])
      BY <1>2, <1>6, <1>7, <2>1, <3>1, <3>2, <3>3
    <3> QED
      BY <1>7, <3>1, <3>2, <3>4, PresentedReadyNext
  <2>2. CASE \E j \in Told(u, p) :
               /\ Grown(m, l, NewListener(p, "theirs", TRUE, l[j].told))
               /\ Grown(r, q, Job(p, l[j].told, {Len(l) + 1}))
    <3>1. PICK j \in Told(u, p) : /\ Grown(m, l, NewListener(p, "theirs", TRUE, l[j].told))
                                  /\ Grown(r, q, Job(p, l[j].told, {Len(l) + 1}))
      BY <2>2
    <3> DEFINE t == l[j].told
               x == NewListener(p, "theirs", TRUE, t)
               y == Job(p, t, {Len(l) + 1})
    <3>2. x.of = p /\ x.told = t /\ y.of = p /\ y.data = t
      BY DEF NewListener, Job
    <3>3. Grown(m, l, x) /\ Grown(r, q, y)
      BY <3>1
    <3>4. j \in Indices(l) /\ l[j].of = p /\ l[j].heard = TRUE
      BY <1>1, <1>3, ToldFacts
    <3>5. \A i \in Indices(l) : l[i].of = p => l[i].told = t
      BY <1>1, <3>4, Zenon DEF Spread, Uniform, Agree
    <3> HIDE DEF x, y, t, l, m, q, r
    <3>6. LastJob(r, p, t)
      BY <1>1, <3>2, <3>3, LastJobMore
    <3>7. \A i \in Indices(m) : m[i].of # u => m[i].of = p /\ m[i].told = t
      BY <1>6, <1>7, <3>2, <3>3, <3>5
    <3>8. \A i \in Indices(m) : m[i].of # u => Ready(m[i], r, theirs'[u])
      BY <3>6, <3>7, Zenon DEF Ready
    <3> QED
      BY <1>7, <3>2, <3>3, <3>8, PresentedReadyNext DEF m, r
  <2> QED
    BY <1>1, <1>2, <1>3, <2>1, <2>2, ListenEffect
<1> QED
  BY <1>2, <1>4, <1>8, OthersPartner

(* A snapshot of the partner's document is the last job for it. *)
LEMMA SnapshotPartner ==
  ASSUME Base, PartnerInv, NEW u \in User, NEW o \in User, Snapshot(u, o)
  PROVE  PartnerInv'
<1> DEFINE l == listeners[u]
           m == listeners'[u]
           q == mainq[u]
           r == mainq'[u]
           y == Job(o, Seen(u, o), Due(u, o))
<1>1. TypeOK /\ q \in Seq(Callback) /\ Followed(u) /\ Presented(u)
  BY DEF Base, TypeOK, PartnerInv
<1>2. UNCHANGED <<theirs, partner_code, fetches, links>>
  BY DEF Snapshot
<1>3. /\ Len(m) = Len(l)
      /\ \A i \in Indices(l) :
           /\ m[i].of = l[i].of
           /\ l[i].of = o => m[i].told = Seen(u, o)
           /\ l[i].of # o => m[i] = l[i]
  BY <1>1, SnapshotTells
<1>4. OthersSame(u) /\ Grown(r, q, y)
  BY <1>1, SnapshotEffect
<1>5. y.of = o /\ y.data = Seen(u, o)
  BY DEF Job
<1>6. \A i \in Indices(l) : l[i].of # u => Ready(l[i], q, theirs[u])
  BY <1>1, PresentedReady
<1> HIDE DEF y, l, m, q, r
<1>7. Indices(m) = Indices(l)
  BY <1>3, Zenon DEF Indices
<1>8. /\ LastJob(r, o, Seen(u, o))
      /\ \A p : p # o => (\A d : LastJob(q, p, d) => LastJob(r, p, d))
      /\ \A p : p # o => (Free(q, p) => Free(r, p))
  BY <1>1, <1>4, <1>5, LastJobMore
<1>9. ASSUME NEW i \in Indices(l), l[i].of # u PROVE Ready(m[i], r, theirs[u])
  <2>1. CASE l[i].of = o
    BY <1>3, <1>8, <2>1, Zenon DEF Ready
  <2>2. CASE l[i].of # o
    <3>1. m[i] = l[i] /\ Ready(l[i], q, theirs[u])
      BY <1>3, <1>6, <1>9, <2>2
    <3>2. Ready(l[i], r, theirs[u])
      BY <1>8, <2>2, <3>1, Zenon DEF Ready
    <3> QED
      BY <3>1, <3>2
  <2> QED
    BY <2>1, <2>2
<1>10. Presented(u)'
  <2>1. \A i \in Indices(m) : m[i].of # u => Ready(m[i], r, theirs'[u])
    BY <1>2, <1>3, <1>7, <1>9
  <2> QED
    BY <2>1, PresentedReadyNext DEF m, r
<1>11. Followed(u)'
  <2>1. /\ partner_code[u] # "nil" => fetches[u] > 0 \/ \E i \in Indices(m) : m[i].of # u
        /\ \A i \in Indices(m) : m[i].of \in {u, partner_code[u]}
    BY <1>1, <1>3, <1>7 DEF Followed, l
  <2> QED
    BY <1>1, <1>2, <2>1 DEF Followed, m
<1> QED
  BY <1>2, <1>4, <1>10, <1>11, OthersPartner

(* A callback for the partner's document shows what it carries. *)
LEMMA CallbackPartner ==
  ASSUME Base, PartnerInv, NEW u \in User, OnSnapshot(u)
  PROVE  PartnerInv'
<1> DEFINE l == listeners[u]
           m == listeners'[u]
           q == mainq[u]
           r == mainq'[u]
<1>1. TypeOK /\ q \in Seq(Callback) /\ Wired(u) /\ Followed(u) /\ Presented(u)
      /\ theirs \in [User -> Items]
  BY DEF Base, Routed, TypeOK, PartnerInv
<1>2. UNCHANGED <<partner_code, fetches, links>>
  BY DEF OnSnapshot
<1>3. PICK i \in Indices(l) : Fired(u, i)
  BY <1>1, CallbackEffect
<1>4. OthersSame(u)
  BY <1>1, CallbackEffect
<1>5. /\ Len(m) = Len(l)
      /\ \A j \in Indices(l) : m[j].of = l[j].of /\ m[j].heard = l[j].heard /\ m[j].told = l[j].told
  BY <1>3 DEF Fired, Filled
<1>6. 1 \in Indices(q) /\ i \in q[1].due
  BY <1>3 DEF Fired
<1>7. l[i].of = q[1].of /\ (l[i].for = "mine" <=> l[i].of = u) /\ l[i].for \in {"mine", "theirs"}
      /\ l[i].acc \in Items /\ q[1].data \in Doc
  BY <1>1, <1>6, FieldTypes DEF Wired, Fits, Screens
<1>8. /\ \A v \in User : v # u => theirs'[v] = theirs[v]
      /\ q[1].of = u => theirs'[u] = theirs[u]
      /\ q[1].of # u => theirs'[u] = Decode(l[i].acc, q[1].data)
  BY <1>1, <1>3, <1>7 DEF Fired
<1>9. q[1].of # u => Shows(theirs'[u], q[1].data)
  <2>1. Shows(Decode(l[i].acc, q[1].data), q[1].data)
    BY <1>7, DecodeType DEF Shows
  <2> QED
    BY <1>8, <2>1
<1>10. \A j \in Indices(l) : l[j].of # u => Ready(l[j], q, theirs[u])
  BY <1>1, PresentedReady
<1>11. Indices(m) = Indices(l)
  BY <1>5, Zenon DEF Indices
<1>12. ASSUME NEW j \in Indices(l), l[j].of # u, l[j].heard
       PROVE  \/ LastJob(r, l[j].of, l[j].told)
              \/ Free(r, l[j].of) /\ Shows(theirs'[u], l[j].told)
  <2> DEFINE p == l[j].of
             t == l[j].told
  <2>1. CASE LastJob(q, p, t)
    <3> HIDE DEF p, t
    <3>1. PICK k \in Indices(q) : /\ q[k].of = p /\ q[k].data = t
                                  /\ \A g \in Indices(q) : g > k => q[g].of # p
      BY <2>1 DEF LastJob
    <3>2. CASE k # 1
      <4>1. PICK h \in Indices(r) :
              /\ r[h] = q[k]
              /\ \A n \in Indices(r) : n # h => \E g \in Indices(q) :
                   g # k /\ (n > h => g > k) /\ r[n].of = q[g].of
        BY <1>1, <1>3, <3>2, JobsLeft
      <4>2. ASSUME NEW n \in Indices(r), n > h PROVE r[n].of # p
        <5>1. n # h
          BY <4>2 DEF Indices
        <5>2. PICK g \in Indices(q) : g > k /\ r[n].of = q[g].of
          BY <4>1, <4>2, <5>1
        <5> QED
          BY <3>1, <5>2
      <4>3. LastJob(r, p, t)
        BY <3>1, <4>1, <4>2 DEF LastJob
      <4> QED
        BY <4>3 DEF p, t
    <3>3. CASE k = 1 /\ Popped(u)
      <4>1. \A n \in Indices(r) : n + 1 \in Indices(q) /\ r[n] = q[n + 1]
        BY <3>3 DEF Popped
      <4>2. \A n \in Indices(r) : n + 1 > 1
        BY DEF Indices
      <4>3. Free(r, p)
        BY <3>1, <3>3, <4>1, <4>2 DEF Free
      <4>4. Shows(theirs'[u], t)
        BY <1>9, <1>12, <3>1, <3>3 DEF p
      <4> QED
        BY <4>3, <4>4 DEF p, t
    <3>4. CASE k = 1 /\ Trimmed(u, i)
      <4>1. /\ Len(r) = Len(q) /\ r[1].of = q[1].of /\ r[1].data = q[1].data
            /\ \A n \in Indices(q) : n # 1 => r[n] = q[n]
        BY <3>4 DEF Trimmed
      <4>2. Indices(r) = Indices(q)
        BY <4>1, Zenon DEF Indices
      <4>3. \A n \in Indices(r) : n > 1 => r[n].of # p
        BY <3>1, <3>4, <4>1, <4>2
      <4>4. LastJob(r, p, t)
        BY <1>6, <3>1, <3>4, <4>1, <4>2, <4>3 DEF LastJob
      <4> QED
        BY <4>4 DEF p, t
    <3> QED
      BY <1>3, <3>2, <3>3, <3>4 DEF Fired
  <2>2. CASE Free(q, p) /\ Shows(theirs[u], t)
    <3>1. q[1].of # p
      BY <1>6, <2>2 DEF Free
    <3>2. q[1].of = u
      BY <1>1, <1>3, <1>7, <1>12, <3>1 DEF Followed
    <3>3. theirs'[u] = theirs[u]
      BY <1>8, <3>2
    <3>4. Free(r, p)
      BY <1>1, <1>3, <2>2, JobsLeft
    <3> QED
      BY <2>2, <3>3, <3>4
  <2> QED
    BY <1>10, <1>12, <2>1, <2>2, Zenon DEF Ready
<1>13. Presented(u)'
  <2>1. ASSUME NEW j \in Indices(l), m[j].of # u PROVE Ready(m[j], r, theirs'[u])
    BY <1>5, <1>12, <2>1, Zenon DEF Ready
  <2> QED
    BY <1>11, <2>1, PresentedReadyNext
<1>14. Followed(u)'
  <2>1. /\ partner_code[u] # "nil" => fetches[u] > 0 \/ \E j \in Indices(m) : m[j].of # u
        /\ \A j \in Indices(m) : m[j].of \in {u, partner_code[u]}
    BY <1>1, <1>5, <1>11 DEF Followed
  <2> QED
    BY <1>1, <1>2, <2>1 DEF Followed
<1> QED
  BY <1>2, <1>4, <1>8, <1>13, <1>14, OthersPartner

(* PartnerInv is inductive. *)
LEMMA NextPartner == OnePartner /\ Base /\ OwnInv /\ PartnerInv /\ [Next]_vars => PartnerInv'
<1> SUFFICES ASSUME OnePartner, Base, OwnInv, PartnerInv, [Next]_vars PROVE PartnerInv'
  OBVIOUS
<1>1. ASSUME UNCHANGED <<listeners, mainq, theirs, partner_code, fetches, links>>
      PROVE  PartnerInv'
  BY <1>1, PartnerKept DEF PartnerInv
<1>2. ASSUME NEW u \in Editor, Dressing(u) PROVE PartnerInv'
  BY <1>1, <1>2 DEF Dressing, OpenSheet, Reset, Finish, Cancel, TakeOff, Wear
<1>3. ASSUME NEW u \in User, Commit(u) PROVE PartnerInv'
  BY <1>1, <1>3 DEF Commit
<1>4. CASE UNCHANGED vars
  BY <1>1, <1>4 DEF vars
<1> QED
  BY <1>2, <1>3, <1>4, LinkedPartner, RequestClothesPartner, RequestPartnerClothesPartner,
     SnapshotPartner, CallbackPartner DEF Next, Loading

(* The completion of requestPartnerClothes: users that have one partner    *)
(* see every cloth and every reset of the saved outfit once everything is  *)
(* delivered, however often they were linked and however many listeners    *)
(* there are.                                                              *)
THEOREM PresentItemsAlwaysShown == OnePartner => (Spec => []PresentItemsShown)
<1> SUFFICES ASSUME OnePartner PROVE Spec => []PresentItemsShown
  OBVIOUS
<1>1. Init => Base /\ OwnInv /\ PartnerInv
  BY InitBase, InitScreen, InitPartner
<1>2. (Base /\ OwnInv /\ PartnerInv) /\ [Next]_vars => (Base /\ OwnInv /\ PartnerInv)'
  BY NextBase, NextScreen, NextPartner
<1>3. Base /\ OwnInv /\ PartnerInv => PresentItemsShown
  <2> SUFFICES ASSUME Base, PartnerInv, NEW u \in User, partner_code[u] # "nil",
                      Quiet(u, partner_code[u]), NEW c \in Category,
                      Outfit(partner_code[u])[c] # None
               PROVE  theirs[u][c] = Outfit(partner_code[u])[c]
    BY DEF PresentItemsShown
  <2> DEFINE p == partner_code[u]
  <2>1. TypeOK /\ Followed(u) /\ Presented(u) /\ p \in User /\ p # u /\ clothes[p] \in Doc
    BY DEF Base, Routed, Coded, TypeOK, PartnerInv
  <2>2. fetches[u] = 0 /\ mainq[u] = << >> /\ Due(u, p) = {}
    BY DEF Quiet
  <2>3. PICK i \in Indices(listeners[u]) : listeners[u][i].of # u
    BY <2>1, <2>2 DEF Followed
  <2>4. listeners[u][i].of = p
    BY <2>1, <2>3 DEF Followed
  <2>5. Seen(u, p) = clothes[p]
    BY <2>1 DEF Seen
  <2>6. Current(listeners[u], p, clothes[p])
    BY <2>1, <2>2, <2>5, DueCurrent
  <2>7. listeners[u][i].heard /\ listeners[u][i].told = clothes[p]
    BY <2>4, <2>6 DEF Current
  <2>8. Indices(mainq[u]) = {}
    BY <2>2, EmptySeq DEF Indices
  <2>9. Shows(theirs[u], clothes[p])
    BY <2>1, <2>3, <2>7, <2>8, Zenon DEF Presented, LastJob
  <2>10. Naked \in Items /\ Naked[c] = None
    BY DEF Naked, Items
  <2>11. Outfit(p)[c] = clothes[p].items[c]
    BY <2>1, <2>10, DecodeType DEF Outfit
  <2> QED
    BY <2>9, <2>11 DEF Shows
<1> QED
  BY <1>1, <1>2, <1>3, PTL DEF Spec
=============================================================================
