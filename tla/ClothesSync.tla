----------------------------- MODULE ClothesSync -----------------------------
(***************************************************************************)
(* How an outfit travels from the user who picks it to the partner's       *)
(* screen: ClothesManager, ClothesViewModel and the buttons of MainView    *)
(* that open, finish and cancel the picker.                                *)
(*                                                                         *)
(* Every user has one document of the Firestore collection "clothes".  A   *)
(* screen shows what the listeners of loadClothes last delivered; a        *)
(* listener is never removed, and each keeps the dictionary (returnValue)  *)
(* it fills over all its snapshots.  One screen may have several listeners *)
(* on one document, and listeners on the documents of former partners.     *)
(*                                                                         *)
(* Who is whose partner is decided by Pairing; here partner_code changes   *)
(* by the action Linked.                                                   *)
(***************************************************************************)
EXTENDS Naturals, Sequences, FiniteSets

CONSTANTS
  User,       \* users, by their code
  Editor,     \* bound: the users whose own screen is followed
  Viewer,     \* bound: the users whose partner's screen is followed
  Category,   \* ClothCategory.allCases
  Cloth,      \* a cloth with its colour, as far as a listener tells it apart
  MaxSave,    \* bound: uploads per user
  MaxListen,  \* bound: listeners and waiting requests per user
  MaxLink     \* bound: changes of partner_code per user

ASSUME UserAssumption  == Editor \subseteq User /\ Viewer \subseteq User /\ "nil" \notin User
ASSUME ClothAssumption == Cloth \cap {"none", "blank"} = {}
ASSUME SyncBounds      == MaxSave \in Nat /\ MaxListen \in Nat /\ MaxLink \in Nat

None  == "none"   \* no entry in the dictionary; saved as the pair "", ""
Blank == "blank"  \* the pair " ", " " that clearSelectedItem puts there

VARIABLES
  mine,         \* selectedItems of each user's PickerCombineViewModel
  theirs,       \* selectedItems of each user's partnerClothViewModel
  sheet,        \* is the picker open? (sheetMode # .none)
  calm,         \* was it opened after all callbacks had run? (history)
  partner_code, \* UserDefaults "partner_code"
  requests,     \* requestClothes tasks that have not run yet
  fetches,      \* requestPartnerClothes tasks that have not run yet
  listeners,    \* the listeners of each user, in the order they were added
  mainq,        \* the callbacks in the main queue of each user
  outbox,       \* Firestore's queue of setData writes of each user
  clothes,      \* the documents of the collection "clothes" on the server
  saved,        \* all that each user has uploaded so far, in order (history)
  links         \* how often partner_code was set

vars == <<mine, theirs, sheet, calm, partner_code, requests, fetches, listeners,
          mainq, outbox, clothes, saved, links>>

-----------------------------------------------------------------------------
(* Types *)

Items    == [Category -> Cloth \cup {None, Blank}]
Doc      == [exists : BOOLEAN, items : Items]
Listener == [of   : User,                  \* whose document
             for  : {"mine", "theirs"},    \* which screen it fills
             acc  : Items,                 \* returnValue
             heard : BOOLEAN,              \* was it called at least once?
             told : Doc]                   \* what it was last told
Callback == [of : User, data : Doc, due : SUBSET Nat]

(* One type for each variable. *)
TypeOK ==
  /\ mine \in [User -> Items]
  /\ theirs \in [User -> Items]
  /\ sheet \in [User -> BOOLEAN]
  /\ calm \in [User -> BOOLEAN]
  /\ partner_code \in [User -> User \cup {"nil"}]
  /\ requests \in [User -> Nat]
  /\ fetches \in [User -> Nat]
  /\ listeners \in [User -> Seq(Listener)]
  /\ mainq \in [User -> Seq(Callback)]
  /\ outbox \in [User -> Seq(Items)]
  /\ clothes \in [User -> Doc]
  /\ saved \in [User -> Seq(Items)]
  /\ links \in [User -> Nat]

Naked     == [c \in Category |-> None]
NoDoc     == [exists |-> FALSE, items |-> Naked]
Saved(i)  == [exists |-> TRUE, items |-> i]

(* MainView has appeared: connectPartner asks for the own clothes. *)
Init ==
  /\ mine = [u \in User |-> Naked]
  /\ theirs = [u \in User |-> Naked]
  /\ sheet = [u \in User |-> FALSE]
  /\ calm = [u \in User |-> FALSE]
  /\ partner_code = [u \in User |-> "nil"]
  /\ requests = [u \in User |-> IF u \in Editor THEN 1 ELSE 0]
  /\ fetches = [u \in User |-> 0]
  /\ listeners = [u \in User |-> <<>>]
  /\ mainq = [u \in User |-> <<>>]
  /\ outbox = [u \in User |-> <<>>]
  /\ clothes = [u \in User |-> NoDoc]
  /\ saved = [u \in User |-> <<>>]
  /\ links = [u \in User |-> 0]

-----------------------------------------------------------------------------
(* What Firestore shows: the writer's own client shows a write at once. *)

(* Mutant: own writes are shown only once the server has them. *)
SeenLate(u, o) == clothes[o]

Seen(u, o) ==
  IF u = o /\ outbox[u] # <<>> THEN Saved(outbox[u][Len(outbox[u])]) ELSE clothes[o]

(* The listeners on o's document that have been told something already. *)
Told(u, o) ==
  {i \in DOMAIN listeners[u] : listeners[u][i].of = o /\ listeners[u][i].heard}

Due(u, o) ==
  {i \in DOMAIN listeners[u] : /\ listeners[u][i].of = o
                               /\ listeners[u][i].heard => listeners[u][i].told # Seen(u, o)}

(* Every callback on the own document has run and none is due. *)
UpToDate(u) == requests[u] = 0 /\ mainq[u] = <<>> /\ Due(u, u) = {}

-----------------------------------------------------------------------------
(* The picker. *)

(* Bound: one more request still fits. *)
Room(u) == requests[u] + fetches[u] + Len(listeners[u]) < MaxListen

OpenSheet(u) ==
  /\ ~sheet[u]
  /\ sheet' = [sheet EXCEPT ![u] = TRUE]
  /\ calm' = [calm EXCEPT ![u] = UpToDate(u)]
  /\ UNCHANGED <<mine, theirs, partner_code, requests, fetches, listeners,
                 mainq, outbox, clothes, saved, links>>

(* selectItem or setColor: another cloth, or the same in another colour. *)
Wear(u, c, k) ==
  /\ sheet[u]
  /\ mine[u][c] # k
  /\ mine' = [mine EXCEPT ![u][c] = k]
  /\ UNCHANGED <<theirs, sheet, calm, partner_code, requests, fetches, listeners,
                 mainq, outbox, clothes, saved, links>>

(* selectItem of the cloth that is worn: the entry is removed. *)
TakeOff(u, c) ==
  /\ sheet[u]
  /\ mine[u][c] \in Cloth
  /\ mine' = [mine EXCEPT ![u][c] = None]
  /\ UNCHANGED <<theirs, sheet, calm, partner_code, requests, fetches, listeners,
                 mainq, outbox, clothes, saved, links>>

(* clearSelectedItem: every entry that is there becomes blank. *)
Reset(u) ==
  /\ sheet[u]
  /\ mine' = [mine EXCEPT ![u] =
       [c \in Category |-> IF @[c] = None THEN None ELSE Blank]]
  /\ UNCHANGED <<theirs, sheet, calm, partner_code, requests, fetches, listeners,
                 mainq, outbox, clothes, saved, links>>

(* finishOutfitButton: save the outfit, close, ask for it again. *)
Finish(u) ==
  /\ sheet[u]
  /\ Len(saved[u]) < MaxSave
  /\ Room(u)
  /\ outbox' = [outbox EXCEPT ![u] = Append(@, mine[u])]
  /\ sheet' = [sheet EXCEPT ![u] = FALSE]
  /\ calm' = [calm EXCEPT ![u] = FALSE]
  /\ requests' = [requests EXCEPT ![u] = @ + 1]
  /\ saved' = [saved EXCEPT ![u] = Append(@, mine[u])]
  /\ UNCHANGED <<mine, theirs, partner_code, fetches, listeners, mainq,
                 clothes, links>>

(* Mutant: cancelling only closes the picker. *)
CancelCloses(u) ==
  /\ sheet[u]
  /\ sheet' = [sheet EXCEPT ![u] = FALSE]
  /\ calm' = [calm EXCEPT ![u] = FALSE]
  /\ UNCHANGED <<mine, theirs, partner_code, requests, fetches, listeners,
                 mainq, outbox, clothes, saved, links>>

(* Mutant: cancelling uploads the edits like finishing does. *)
CancelSaves(u) ==
  /\ sheet[u]
  /\ Room(u)
  /\ outbox' = [outbox EXCEPT ![u] = Append(@, mine[u])]
  /\ sheet' = [sheet EXCEPT ![u] = FALSE]
  /\ calm' = [calm EXCEPT ![u] = FALSE]
  /\ requests' = [requests EXCEPT ![u] = @ + 1]
  /\ UNCHANGED <<mine, theirs, partner_code, fetches, listeners, mainq,
                 clothes, saved, links>>

(* cancelOutfitButton: close, and ask for what was saved. *)
Cancel(u) ==
  /\ sheet[u]
  /\ Room(u)
  /\ sheet' = [sheet EXCEPT ![u] = FALSE]
  /\ calm' = [calm EXCEPT ![u] = FALSE]
  /\ requests' = [requests EXCEPT ![u] = @ + 1]
  /\ UNCHANGED <<mine, theirs, partner_code, fetches, listeners, mainq,
                 outbox, clothes, saved, links>>

-----------------------------------------------------------------------------
(* Firestore: writes reach the server in order; all listeners on a         *)
(* document are told together.                                             *)

Commit(u) ==
  /\ outbox[u] # <<>>
  /\ clothes' = [clothes EXCEPT ![u] = Saved(Head(outbox[u]))]
  /\ outbox' = [outbox EXCEPT ![u] = Tail(@)]
  /\ UNCHANGED <<mine, theirs, sheet, calm, partner_code, requests, fetches,
                 listeners, mainq, saved, links>>

Snapshot(u, o) ==
  /\ Due(u, o) # {}
  /\ mainq' = [mainq EXCEPT ![u] =
       Append(@, [of |-> o, data |-> Seen(u, o), due |-> Due(u, o)])]
  /\ listeners' = [listeners EXCEPT ![u] =
       [i \in DOMAIN @ |-> IF i \in Due(u, o)
                           THEN [@[i] EXCEPT !.heard = TRUE, !.told = Seen(u, o)] ELSE @[i]]]
  /\ UNCHANGED <<mine, theirs, sheet, calm, partner_code, requests, fetches, outbox,
                 clothes, saved, links>>

-----------------------------------------------------------------------------
(* Loading: loadClothes adds a listener with a dictionary of its own.  If  *)
(* the document is listened to already, the new listener is told at once   *)
(* what the others know.  The client works in order: it has shown an own   *)
(* write to the old listeners before it adds a new one.                    *)

Listen(u, o, for) ==
  LET new  == [of |-> o, for |-> for, acc |-> Naked,
               heard |-> FALSE, told |-> NoDoc]
      peer == listeners[u][CHOOSE i \in Told(u, o) : TRUE]
      next == Len(listeners[u]) + 1
  IN  /\ u = o => Told(u, o) \cap Due(u, o) = {}
      /\ \/ /\ Told(u, o) = {}
            /\ listeners' = [listeners EXCEPT ![u] = Append(@, new)]
            /\ UNCHANGED mainq
         \/ /\ Told(u, o) # {}
            /\ listeners' = [listeners EXCEPT ![u] =
                 Append(@, [new EXCEPT !.heard = TRUE, !.told = peer.told])]
            /\ mainq' = [mainq EXCEPT ![u] =
                 Append(@, [of |-> o, data |-> peer.told, due |-> {next}])]

(* Mutant: runs although no task was started. *)
RequestClothesUnasked(u) ==
  /\ requests' = [requests EXCEPT ![u] = @ - 1]
  /\ UNCHANGED <<mine, theirs, sheet, calm, partner_code, fetches, listeners, mainq,
                 outbox, clothes, saved, links>>

RequestClothes(u) ==
  /\ requests[u] > 0
  /\ requests' = [requests EXCEPT ![u] = @ - 1]
  /\ Listen(u, u, "mine")
  /\ UNCHANGED <<mine, theirs, sheet, calm, partner_code, fetches, outbox,
                 clothes, saved, links>>

(* Pairing: partner_code is set and a requestPartnerClothes task starts. *)
Linked(u, p) ==
  /\ u # p
  /\ links[u] < MaxLink
  /\ Room(u)
  /\ partner_code' = [partner_code EXCEPT ![u] = p]
  /\ fetches' = [fetches EXCEPT ![u] = @ + 1]
  /\ links' = [links EXCEPT ![u] = @ + 1]
  /\ UNCHANGED <<mine, theirs, sheet, calm, requests, listeners, mainq, outbox,
                 clothes, saved>>

RequestPartnerClothes(u) ==
  /\ fetches[u] > 0
  /\ fetches' = [fetches EXCEPT ![u] = @ - 1]
  /\ Listen(u, partner_code[u], "theirs")
  /\ UNCHANGED <<mine, theirs, sheet, calm, partner_code, requests, outbox,
                 clothes, saved, links>>

(* Mutant: an entry is filled once and not overwritten. *)
DecodeOnce(acc, data) ==
  [c \in Category |-> IF acc[c] # None THEN acc[c] ELSE data.items[c]]

(* Mutant: the pair " ", " " of a reset is skipped like the empty one. *)
DecodeTrimmed(acc, data) ==
  [c \in Category |-> IF data.items[c] \in {None, Blank} THEN acc[c] ELSE data.items[c]]

(* The loop over ClothCategory.allCases: a pair of empty strings leaves    *)
(* the entry of the dictionary as it is, and so does a missing document.   *)
Decode(acc, data) ==
  [c \in Category |-> IF data.items[c] = None THEN acc[c] ELSE data.items[c]]

First(due) == CHOOSE i \in due : \A j \in due : i <= j

(* The listener's callback, the completion of requestClothes or of         *)
(* requestPartnerClothes included.                                         *)
OnSnapshot(u) ==
  /\ mainq[u] # <<>>
  /\ LET job == Head(mainq[u])
         i   == First(job.due)
         acc == Decode(listeners[u][i].acc, job.data)
     IN  /\ listeners' = [listeners EXCEPT ![u][i].acc = acc]
         /\ mine' = IF listeners[u][i].for = "mine"
                    THEN [mine EXCEPT ![u] = acc] ELSE mine
         /\ theirs' = IF listeners[u][i].for = "theirs"
                      THEN [theirs EXCEPT ![u] = acc] ELSE theirs
         /\ mainq' = [mainq EXCEPT ![u] =
              IF job.due = {i} THEN Tail(@)
              ELSE [@ EXCEPT ![1].due = job.due \ {i}]]
  /\ UNCHANGED <<sheet, calm, partner_code, requests, fetches, outbox, clothes, saved, links>>

-----------------------------------------------------------------------------

Dressing(u) ==
  \/ OpenSheet(u) \/ Reset(u) \/ Finish(u) \/ Cancel(u)
  \/ \E c \in Category : TakeOff(u, c) \/ \E k \in Cloth : Wear(u, c, k)

Loading(u) ==
  \/ RequestClothes(u) \/ RequestPartnerClothes(u) \/ Commit(u) \/ OnSnapshot(u)
  \/ \E o \in User : Snapshot(u, o)

Next ==
  \/ \E u \in Editor : Dressing(u)
  \/ \E u \in Viewer, p \in User : Linked(u, p)
  \/ \E u \in User : Loading(u)

Spec == Init /\ [][Next]_vars

(* Tasks that were started run, Firestore sends what is queued and tells   *)
(* its listeners, the main queue drains; nobody has to tap anything.       *)
Fairness ==
  \A u \in User :
    /\ WF_vars(RequestClothes(u)) /\ WF_vars(RequestPartnerClothes(u))
    /\ WF_vars(Commit(u)) /\ WF_vars(OnSnapshot(u))
    /\ \A o \in User : WF_vars(Snapshot(u, o))

FairSpec == Spec /\ Fairness

-----------------------------------------------------------------------------
(* Properties *)

(* ClothView and isValidItem draw nothing for a blank entry. *)
Visible(items) == [c \in Category |-> IF items[c] = Blank THEN None ELSE items[c]]

(* What the document of o says, read afresh. *)
Outfit(o) == Decode(Naked, clothes[o])

(* All that o has saved has been delivered to u and shown. *)
Quiet(u, o) ==
  /\ outbox[o] = <<>>
  /\ requests[u] = 0 /\ fetches[u] = 0
  /\ mainq[u] = <<>>
  /\ Due(u, o) = {}

(* Once everything is delivered and the picker is closed, a user sees      *)
(* exactly the outfit that is saved, whichever edits were finished or      *)
(* cancelled: the request each of the two buttons makes is answered after  *)
(* the callbacks of the older listeners, whose dictionaries are outdated.  *)
OwnScreenAgrees ==
  \A u \in User :
    Quiet(u, u) /\ ~sheet[u] => Visible(mine[u]) = Visible(Outfit(u))

(* Every cloth, and every reset, of the partner's saved outfit has reached *)
(* the screen once everything is delivered.                                *)
PresentItemsShown ==
  \A u \in User : LET p == partner_code[u] IN
    p # "nil" /\ Quiet(u, p) =>
      \A c \in Category : Outfit(p)[c] # None => theirs[u][c] = Outfit(p)[c]

(* README: what the partner changes is shared in real time.  Once all is   *)
(* delivered the screen shows the partner's outfit, nothing else.          *)
PartnerSeesOutfit ==
  \A u \in User : LET p == partner_code[u] IN
    p # "nil" /\ Quiet(u, p) => Visible(theirs[u]) = Visible(Outfit(p))

(* A cloth on the partner's character was uploaded with the finish button  *)
(* for that category by somebody else: cancelled edits stay private, and   *)
(* the listeners never mix up documents, screens or categories.            *)
NothingInvented ==
  \A u \in User, c \in Category : theirs[u][c] \in Cloth =>
    \E p \in User \ {u} : \E i \in DOMAIN saved[p] : saved[p][i][c] = theirs[u][c]

(* The callbacks replace selectedItems although the picker may be open.    *)
(* They never undo an edit, as long as the picker was opened when they had *)
(* all run: neither the upload of the outfit that was finished before, nor *)
(* anything the partner does, brings a new one about.                      *)
EditsKept ==
  [][\A u \in User : calm[u] /\ OnSnapshot(u) => mine'[u] = mine[u]]_vars

(* README: in real time.  Whatever the partner has saved last is on the    *)
(* screen in the end, and stays.                                           *)
Delivered ==
  \A u \in User : <>[](\A p \in User : partner_code[u] = p =>
    \A c \in Category :
      saved[p] # <<>> /\ saved[p][Len(saved[p])][c] # None =>
        theirs[u][c] = saved[p][Len(saved[p])][c])
=============================================================================
