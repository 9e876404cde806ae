# POMPOM: a TLA+ verification project

POMPOM is an iOS app (SwiftUI, Firebase Firestore) with which a couple matches
tomorrow's clothes. There is no server code of its own: two installations share
state through three Firestore collections, and all coordination is done by the
clients, with listeners, detached tasks and `UserDefaults`. What can go wrong
goes wrong between these parts, and that is what this project models.

Paths below are relative to `src/POMPOM/POMPOM/`.

## 1. Inventory

| Component | State | Operations | Talks to |
|---|---|---|---|
| Codes and pairing: `API/CodeManager`, `API/ConnectionManager`, `UI/Code/*` | `UserDefaults` `code`, `partner_code`; documents `users/{id}` with `code`, `partner_code` | `getCode`, `saveCode`, `connectWithPartner`, `getPartnerCodeFromServer`, `deletePartnerCode` | Firestore; tells `MainView` through a completion and through `NetworkDelegate` |
| Clothes: `API/ClothesManager`, `UI/Cloth/ClothesViewModel` | documents `clothes/{code}`; `selectedItems` of two view models; one dictionary per listener | `saveClothes`, `loadClothes`, `requestClothes`, `requestPartnerClothes`, `clearSelectedItem` | Firestore; started by `MainView`, reads `partner_code` |
| Picker: `UI/Cloth/ClothPicker/*` | `currentCategory`, `currentHex`, grids, two subjects, memories of `removeDuplicates` | `setCategory`, `setColor`, `selectItem`, `uploadItem` | inherits `selectedItems`; Combine pipelines call each other synchronously |
| Comments: `Models/Message`, `UI/Comment/*` | collection `message`; `messageData.messages`; the text field | `sendMessage`, `readMessages` | Firestore; reads `code`, `partner_code` |
| Main screen: `UI/Main/*` | `isConnectedPartner`, panels, `sheetMode`, `showAlert` | `connectPartner`, `didConnectedPartner`, the buttons | starts all of the above |
| Settings, onboarding | first-launch flag | a second code input, a further `getCode` | `CodeManager` |
| Alert: `Util/Reusable/CustomAlert` | `showAlert`, timers | `showAlertwith`, the timer | main screen, settings |
| Comment card: `Util/Reusable/AdjustableModalView`, `KeyboardObserver` | `curHeight`, keyboard height | drag, keyboard notifications | comments |
| Drawing, layout, colours: `ClothView(Model)`, `MessageBubbleView`, `Color`, `SheetView` | none that lasts | pure | - |
| Stubs: `AuthManager`, `NotificationManager`, `PickerViewModel` | - | never used | - |

`Pods/` is vendored. One part of it decides what the app may rely on, the C++
core of the Firestore client (`Pods/FirebaseFirestore/Firestore/core/src`, `core/`
below):

| Component | State | Operations | Talks to |
|---|---|---|---|
| Writes: `core/remote/remote_store`, `write_stream`, `stream`, `core/local/leveldb_mutation_queue`, `core/core/sync_engine` | mutation queue (persisted), `write_pipeline_`, stream state, `handshake_complete_`, idleness timer | `WriteMutations`, `FillWritePipeline`, the callbacks of the stream, backoff, `RestartNetwork` | the server, one ordered stream each way |
| Queries: `core/remote/remote_store`, `remote_event`, `online_state_tracker`, `core/local/local_store`, `core/core/view`, `query_listener`, `event_manager` | remote document cache, snapshot version and target keys (persisted), pending responses, view, listeners, online state with its ten second timer | `AddSnapshotListener`, `GetDocuments`, the callbacks of the watch stream, the timers | the server over a second stream; the mutation queue |

The Firestore server is not in the repository. It is modelled from what the
client depends on and marked *external* in `PROJECT.json`. The other pods (gRPC,
BoringSSL, abseil, leveldb, ...) are transport, cryptography and storage below
the client.

### How the parts run

* Callbacks of listeners run on the main queue. `Task { }` in a view starts on
  the main actor; the `async` methods of the plain structs `CodeManager` and
  `ConnectionManager` belong to no actor, so after their first `await` they run
  on the concurrent executor, interleaved with the main queue.
* Writes (`addDocument`, `updateData`, `setData`) are never awaited. They enter
  a persisted queue; the writer's own listeners see them at once. A write whose
  acknowledgement is lost is sent, and applied, again.
* All handlers of the Firestore client run on one worker queue, one at a time.
* No listener is ever removed.

### What is hard

1. A new code is stored locally before it is saved remotely, while another task
   already looks for the document.
2. A link is two independent updates, and both the task and the listener write
   `partner_code` and `isConnectedPartner`.
3. `requestPartnerClothes` reads `partner_code` when it runs, not when started.
4. Several listeners with private, accumulating dictionaries write one screen.
5. A category tap is published to five pipelines, one of which publishes to two
   further ones; duplicates are filtered per pipeline, not per cloth.
6. Comments are ordered by the sender's clock inside a snapshot and by arrival
   between snapshots.
7. Kills, offline answers, failed queries, refused writes, lost
   acknowledgements, colliding codes.
8. In the Firestore client a response carries no name, it is taken for the first
   write of the pipeline; the acknowledgement of a write and the document with
   the write in it come over two streams, in either order; timers race answers.

`PROJECT.json` lists these as hazards, each at its line with the properties that
would notice it.

## 2. Modules

| Module | Models |
|---|---|
| `Pairing` | launch, codes, connecting, the listener on the own document |
| `Couples` | abstract: what connecting amounts to on the server; `Pairing` implements it |
| `PairingProofs`, `RegistrationProofs`, `ConnectionProofs` | theorems about `Pairing`, each module on top of the one before |
| `ClothesSync` | saving, listening to and showing outfits |
| `Picker` | `PickerCombineViewModel` and its pipelines |
| `Chat` | sending and listing comments |
| `WriteQueue` | abstract: what the app relies on when it hands over a write |
| `WriteStream` | the write half of the Firestore client; implements `WriteQueue` |
| `FirestoreClient` | `WriteStream` composed with the watch stream, the cache, a view and its listeners |
| `ClothesSyncProofs`, `PickerProofs`, `ChatProofs` | theorems about the module of that name |
| `WriteStreamProofs`, `FirestoreProofs` | theorems about `WriteStream` and, from them, about `FirestoreClient` |
| `MCPairing`, `MCClothesSync`, `MCPicker`, `MCChat`, `MCFirestore` | instances for TLC: symmetry sets and constants |

A definition whose comment starts with *Mutant* is a plausible slip of the code
used to show that a property can fail; no specification refers to it.

### Pairing

`app[d]` holds what dies with the process: the progress of `connectPartner`
(`boot`), the dispatched `saveCode` (`saving`), the listener and its last value,
the main queue, `isConnectedPartner`, the input panel, and the
`requestPartnerClothes` tasks that have not run. `code` and `partner_code` are
`UserDefaults`, `queue` and `cache` the durable state of the Firestore client,
`users` the server. `attempt[t]` is one tap on the button of a code input; its
`pc` stops at every `await` of `connectWithPartner` and also between its last
three statements, because the listener's callback may run there. An answer of
`getDocuments` is computed by Firestore and taken up after the `await`: between
the two (`boot = "answered"`, or the `pc` `"missing"` for an empty answer) the
dispatched `saveCode` or another task may run, so a device may trap on an answer
from before its registration. What a task does with an id that it has found is
local to it and part of the answer's step. `View` is what the listener on the own
document shows: the server's document with the device's own queued writes on top,
its `addDocument` among them. A trap (`documents[0]`) or a raised exception
(`document("")`) is a `Die` with its reason. The faults are switched on by the constant `Fault`: a kill, an offline
answer, a failed query, a refused write, and a write that is applied while its
acknowledgement is lost (`CommitUnacknowledged`, once per process).

`Couples` is the registry of codes behind it: a document is registered, somebody
asks, a document is linked to a partner of whom one of the two asked. The
refinement mapping `Couple` takes `codes` and `partner` from the server's
documents and `asked` from the attempts: the pairs of a device's code and
another code that was typed on it.

Abstractions: a device's name is also the id of its document; an orphan document
left by a kill between `addDocument` and `UserDefaults.set` is left out; the
listeners that repeated `connectPartner` calls put on one own document are one;
the action sheet is merged with the tap that opens it; messages of failed
attempts are left out.

### ClothesSync

`mine[u]` and `theirs[u]` are the dictionaries behind the two characters.
`listeners[u]` is the list of all listeners ever added, each with the `acc` that
is `returnValue`. `Listen` answers a new listener at once with what older ones
on the same document know. `Decode` is the loop over the categories: it keeps an
entry whose new value is the pair of empty strings. `partner_code` changes by
`Linked`, which stands for `Pairing`. `saved` is a history variable. `Editor`
and `Viewer` bound whose screens are followed. One category suffices: `Decode`
treats each on its own. `calm` is a second history variable: whether the
picker is open and was opened when every callback had run (`UpToDate`). It is
the condition under which edits are safe (`EditsKept`).

### Picker

One action per tap. `SetCategory` includes the colour that the fifth pipeline
sends on. `inOrder` says whether pipelines are called in the order they were set
up, which is how Combine behaves and what it does not document. `assigned` and
`painted` are the memories of the two colour pipelines, what their
`removeDuplicates` let through last, beside `currentHex`, which is shown. Grids,
palette and `isColorEnable` follow one category, `grid`.

### Chat

`task[s]` is both the running `sendMessage` and the document it makes. Its three
steps (read, add, clear) may interleave with other taps and with typing;
compilers that keep such a function on the main queue give a special case.
Its `timestamp` is any value of `Time`: `Date()` is a wall clock, which differs
between devices and may be set back between two comments of one. `known` is the
client's cache, `told` what the present listener was told,
`messages` the list on the screen. `comment` has one field per life of
`CommentsView`, because a task outlives the view whose field it clears. `before`
and `typed` are history variables. The view's callback is taken together with
the snapshot that causes it: nothing else writes the list. `Reject` is the server
refusing a document: it leaves the cache of its sender, but the listener only
looks at additions, so the list on the screen keeps it.

### WriteStream, WriteQueue and FirestoreClient

`WriteStream` has one action per handler of `RemoteStore` and `Stream` on the
write side. `requests` and `responses` are what is under way; a break empties
both. `FillWritePipeline` is the trailing call of most handlers and part of each
of them. `OnWriteStreamClose` is an error that is retried,
`OnWriteStreamRefused` a permanent one, which is held against the first write.
`RestartWriteStream` serves both `RestartNetwork` and a relaunch: after either,
only the queue is left. `Healthy` is folded into `Open`. `WriteQueue` hides all
that: `applied` counts the writes of the queue that the server has applied since
the last break, which are the acknowledgements under way (`Len(Acks)`).

`FirestoreClient` extends it by the read side for one query with one document.
A version is a position in the server's `log`, so `At(version)` is the document.
`cache.committed` is the mark of a document that came from an acknowledgement
and not from the watch stream. `view.mutated` and `ComputeDocumentChanges` follow
`View` with its rule that a view that shows a local write waits for the watch
stream. `Emit` is the common end of every handler: the view becomes stale when
the state becomes Offline, and listeners that wait are called when
`ShouldRaiseInitialEvent` allows. A `getDocuments` is a listener that waits for
sync and removes itself.

Assumptions on the server: it reads a stream in order and nothing more of one
that was closed; versions on one stream do not go back, though the first
snapshot of a new target may be old. Left out: credentials, stream tokens,
existence filters, limbo resolution (the app deletes nothing), limits,
transactions, `EnableNetwork` and `DisableNetwork`, and a listen that the server
rejects: it removes the target with an error, and `ProcessTargetError` calls all
listeners of the query with it and drops them (see section 5). `Settles` holds for
a server that rejects no listen. The failure counter of the tracker is capped at the limit with which it is compared.

## 3. Properties and runs

Runs that pass (the first of each module also checks its `TypeOK`):

| Run | Instance | Shows |
|---|---|---|
| `pairing` | 2 devices, 2 codes, 2 taps, no faults; 1.0 M states | `Consent`, `PartnerExists`, `CoupleMutual`, `LocalAgrees`, `IndexTrapOnlyUnregistered`, `NeverDisconnects`, `ImplementsCouples` |
| `pairing_faults` | 1 tap, two launches, every fault but lost acknowledgements; 3.0 M states | `Consent`, `IndexTrapOnlyUnregistered` |
| `pairing_live` | 1 tap, fairness, lost acknowledgements; 648 k states | `Converges` |
| `clothes` | an editor and a viewer, 2 cloths, 2 saves, 2 links, 3 listeners each, fairness; 0.4 M states | `OwnScreenAgrees`, `PresentItemsShown`, `NothingInvented`, `Delivered`, `EditsKept` |
| `picker` | 3 categories, 4 cloths, 2 colours; all 1.4 M reachable states | `NamesFit`, `SwitchKeepsOutfit`, `ColourInStep` |
| `chat` | 2 users, 2 comments, each with either of 2 times, one may be refused, lists built twice; 5.7 M states | `ReplyOrder`, `TypedKept`, `ListComplete`, `RefusedNeverShown` |
| `chat_live` | 3 users, 1 comment, which may be refused, fairness; 150 k states | `ListComplete`, `Received` |
| `firestore` | a pipeline of 2, 2 own writes and one of another client, one fault, one refusal, a listener and a get, fairness; 277 k states | `ResponsesMatch`, `IdleUnneeded`, `TimersUnneeded`, `ViewAgrees`, `ReadYourWrites`, `ImplementsWriteQueue`, `NoFlicker`, `Settles` |

Runs that refute what the repository says (see `findings`):

| Run | Property | What happens |
|---|---|---|
| `lost_code` | `CodeIsSaved` | the lookup answers before the dispatched save has run, traps, and the stored code is never saved |
| `empty_path` | `NoEmptyPath` | an older snapshot puts `""` back between the link and the request for the partner's clothes |
| `stale_cloth` | `PartnerSeesOutfit` | a cloth that was taken off stays on the partner's screen |
| `former_partner` | `PresentItemsShown` | the listener on a former partner still paints |

`PresentItemsShown` appears in both tables: it holds for a couple and fails as
soon as there was another partner before.

Behaviours of the code that the models show and no document speaks of: a third
user who types the code of one half of a couple takes that half over, and the
other half keeps a partner who is not theirs (`CoupleMutual` with three
devices); a process that ends between the two writes of a link, by a kill, a failed
lookup of the partner or an exception of another task, leaves half a couple
(`Interrupted` in `CoupleMutual`); a device may trap on an empty answer although
its code has been registered since that answer (`IndexTrapOnlyUnregistered` speaks
of the answer); after a reload or a reset a tap on the highlighted colour may do
nothing until the next switch (`ColourInStep`); after a
reset and a switch of category a cloth may be worn in the colour `" "`; with
clocks that differ or are set back a list that is rebuilt may show an answer before
its question, or the later of two comments of one sender first (`ReplyOrder` says
that only such stamps do); text typed while a comment is being sent may be wiped;
a comment that the server refuses stays in its sender's list until that is built
anew (`RefusedNeverShown`); a picker that is
opened while a callback on the own document waits may lose its edits (hence the
condition of `EditsKept`). `addDocument` of the own document may be applied
twice, and when a partner has linked it in between, the second time erases the
link: `CoupleMutual` fails with lost acknowledgements, so `pairing` is run without
them; the screens agree with the documents all the same (`Converges`), and
`ImplementsCouples` allows it (`CouplesImplemented` holds with this fault too).
In the Firestore client, removing the listener of a get that was answered offline
resets the online state without starting its timer: a get that follows while the
stream is still connecting is not bounded by ten seconds.

### Bounds

* Two devices and two taps contain every race of two tasks on two documents,
  both users typing at once included. A third device changes the outcome: then
  `CoupleMutual` fails as described above and `LocalAgrees` too, because
  `Remember` may overwrite a newer partner.
* `MaxMain = 2` lets a stale snapshot wait in front of a fresh one; `MaxAppear`
  allows a restart where faults do. Codes differ in the runs (`FreshCode`); with
  codes that may collide `pairing_faults` has 4.9 M states and passes too, but takes
  long, and the theorems on its two properties allow collisions.
* Three listeners are the first load and two saves or cancels, so that older
  listeners with outdated dictionaries exist beside a newer one. Two links are
  what one connection makes: the task and the listener each start a request.
  Two cloths let a save replace one by another.
* Two colours and two cloths per category are what `removeDuplicates` and the
  toggle of `selectItem` tell apart; `Picker` has no numeric bound.
* Two comments are a question and an answer, or two of one sender, spread over
  snapshots in all ways. Two times let their stamps agree with the order, tie or
  contradict it. The third user of
  `chat_live` is the stranger whose list must stay empty. `MaxOpen` is how often
  a list is built: the second time it starts from the cache.
* A pipeline of two with two writes makes it full and lets one write wait in each
  place, but not overflow; `WriteStream` alone was also run with three writes, and
  the theorems hold for every limit. One write of another
  client suffices to make the cache older than the server, one fault to break or
  restart either stream at any point, one refusal to hit either write. One get
  overlaps with the listener or stands alone.
* Deadlock is checked for `Picker` only. In the other modules the bounds end a
  run, and the app may really stop when nobody taps.

### Fairness

Only what the runtime and Firestore do by themselves is weakly fair: a started
task runs, a dispatched block runs, the main queue drains, a queued write is
sent, a change is told to its listeners. Taps, launches, links and faults are
never forced. The liveness runs of the app have no faults but a lost
acknowledgement and a refusal: with a kill or without a connection nothing can be
promised. In `FirestoreClient` `WriteWork` and `WatchWork` are weakly fair: the
worker queue runs its tasks, an open connection carries its messages, a backoff
elapses, the server answers. Timers, breaks and restarts are not forced, and
`MaxFaults` ends them, as a network that comes back in the end would.

## 4. Proofs

The theorems hold for every value of the constants: any numbers of devices,
users, codes, cloths, comments, taps, listeners and writes, and every bound. They
rest on the named assumptions on the constants next to their declarations, and on
nothing else but the hypotheses given below. These assumptions say that names are
not the empty string or another special value of the code, that bounds are natural
numbers, and in `Chat` that the comments are finitely many (`Send` is a set of
names, and in one run of the app only finitely many of them are used).

Hardly any property is inductive as it stands: it speaks of the server or of a
screen, and the facts that make it true are in tasks, queues and listeners on the
way there. Each proof module therefore builds up an inductive invariant in layers,
each of which uses the ones before it. The layers were run through TLC on the
instances of section 3 before they were proved.

| Module | Theorems (the property each one states) |
|---|---|
| `PairingProofs` | `TypeCorrect` (`TypeOK`), `ConsentHolds` (`Consent`), `CouplesImplemented` (`ImplementsCouples`) |
| `RegistrationProofs` | `TrapsOnlyUnregistered` (`IndexTrapOnlyUnregistered`), `PartnerAlwaysExists` (`PartnerExists`) |
| `ConnectionProofs` | `NeverDisconnected` (`NeverDisconnects`), `FaithfulAgree` and `LocalAlwaysAgrees` (`LocalAgrees`), `FaithfulMutual` and `CoupleAlwaysMutual` (`CoupleMutual`) |
| `ClothesSyncProofs` | `TypeCorrect` (`TypeOK`), `NothingEverInvented` (`NothingInvented`), `OwnScreenAlwaysAgrees` (`OwnScreenAgrees`), `EditsAlwaysKept` (`EditsKept`), `PresentItemsAlwaysShown` (`PresentItemsShown`) |
| `PickerProofs` | `TypeCorrect` (`TypeOK`), `NamesAlwaysFit` (`NamesFit`), `SwitchHarmless` (`SwitchKeepsOutfit`), `ColourStaysInStep` (`ColourInStep`) |
| `ChatProofs` | `TypeCorrect` (`TypeOK`), `TypedAlwaysKept` (`TypedKept`), `ListAlwaysComplete` (`ListComplete`), `RepliesAlwaysOrdered` (`ReplyOrder`), `RefusedStaysHidden` (`RefusedNeverShown`) |
| `WriteStreamProofs` | `StreamImplementsQueue` (`ImplementsWriteQueue`), and `ResponsesMatch` and `IdleUnneeded` for the write half alone |
| `FirestoreProofs` | `ClientTypeCorrect` (`TypeOK`), `ClientResponsesMatch` (`ResponsesMatch`), `ClientIdleUnneeded` (`IdleUnneeded`), `ClientImplementsQueue` (`ImplementsWriteQueue`), `ClientTimersUnneeded` (`TimersUnneeded`), `ClientViewAgrees` (`ViewAgrees`), `ClientReadYourWrites` (`ReadYourWrites`), `ClientNoFlicker` (`NoFlicker`) |

### Pairing

All five faults and colliding codes are allowed unless a hypothesis excludes them.

*Consent and the registry* (`PairingProofs`, invariant `IInv`). `IInv` adds to
`Consent`

* `Documents`: a document on the server carries its device's code, and one that
  is not there has no partner;
* `SavesStored`: a dispatched save belongs to a stored code;
* `Tasks`: a task belongs to a device with a code, and while it runs its target
  is not this code;
* `Ids`: an id that a task has found belongs to the code it looked for, or is
  `""`;
* `Writes`: a write in a queue adds the own code, or links two codes of which one
  was typed by the user of the other.

`Invariance` proves `IInv` inductive, with one lemma per conjunct and lemmas on
what a step may change (`OtherTasks`, `CodeStays`, `UsersStay`, `TaskStays`).
The decisive step is `ConsentStep`: a commit writes what was queued, what was
queued was asked for, and attempts and codes stay. `CouplesImplemented` rests on
`IInv` too: only `Commit` and `CommitUnacknowledged` write a document
(`AppliesStep`), no pair that was asked for is forgotten (`AskedStays`), and the
only step that adds one is the tap `Confirm`, which leaves the documents alone
(`TapEffect`, `OneTap`, `PairsStep`).

*Lookups* (`RegistrationProofs`, `RInv`). A lookup falls back on the local cache,
offline or not. `CacheOwn` says that the own document is in it once it is
registered, `Located` that the partner which `isExistingCode` found is in it while
the ids are fetched, `Down` that an ended process runs nothing that could register
late. With them Firestore answers no lookup of a registered code with nothing,
under every fault. (The trap itself comes a step later, when the code may have been
registered.)
`PartnerAlwaysExists` has the hypothesis that the server refuses no write
(`NothingRefused`): a refused registration would leave a link to it behind. It
follows the order of a device's queue: a link to the own code comes after the
registration (`Anchored`), and a code that a task looks for is on the server
(`Sought`).

*The screen* (`ConnectionProofs`, `CInv`). `NeverDisconnected` has the hypothesis
`Undisturbed`: codes are fresh, no write is refused, none is applied twice. Each
part is needed, and TLC finds the counterexample without it: a refused link (two
devices) or a second `addDocument` (two devices) takes `partner_code` away again,
and with one code on two documents a device may link the other document than the
one it listens to (three devices). The invariant follows the link backwards: a screen that shows
a partner, a job in the main queue that will make it do so (`Backed`), and a task
past its first write (`Driven`) all imply that the own document is linked on the
server or by a write in the queue (`Linked`), and such a write finds its document
(`Effective`, `AddedOnce`). A stale snapshot can then not follow a fresh one
(`Screen`). Kills, offline answers and failed queries are allowed.

*What partners agree on* (`ConnectionProofs`, `AInv` and `MInv`). `LocalAgrees` and
`CoupleMutual` are false once a user is linked to a second partner (section 3).
`Mate(d, v)` says that `v` is the code of a device and was typed on `d`, or the code
of `d` on that device; `Faithful`, that nobody has two mates. Mates stay mates, so a
state that is `Faithful` came from `Faithful` ones only, and the theorems hold in
each such state, for any number of devices, codes and taps (`FaithfulAgree`,
`FaithfulMutual`). Two devices are always `Faithful` (`TwoFaithful`), which gives
`LocalAlwaysAgrees` and `CoupleAlwaysMutual` without this condition.

* `LocalAgrees` needs `Undisturbed`; kills, offline and failing lookups are allowed.
  `AInv` adds to `CInv` that whatever `UserDefaults` has, or a job of the main queue
  carries, is a mate (`Informed`; on the server and in the queues this follows from
  `Consent` and `PartnerExists`), and that what the listener was told has reached
  `UserDefaults` and the screen or is still in the main queue (`Reported`). With
  one mate at most, all places that name a partner name the same one, whoever
  wrote last.
* `CoupleMutual` needs `Undisturbed` as well: TLC refutes it for two devices and one
  tap with each of the faults `reject` and `resend`. With kills, offline and failing
  lookups it holds. `MInv` says that a document which is bound to `y`, on the server
  or by a queued write, has `y` bound to it as well, or its task stands between its
  two writes, or its process ended under a task that had looked up both documents
  (`Mutual`). The hard steps are the commit of one half, which must not unbind the
  other (`BoundStays`, `BoundBefore`), and the step of a task between its writes: it
  waits, binds the partner, or leaves a trace that stays (`WriterStep`,
  `InterruptedStays`). That its second write takes effect rests on `Equipped` and
  `Foreign`, the partner's document being on the server.

The layers were first run through TLC for two devices and two taps, offline, and for
one tap with kills, offline and failing lookups.

### Clothes, picker, comments

*Clothes.* `Base`: types, and every job of a main queue is for listeners on its
document. `Genuine`: whatever is under way, in a dictionary or on a screen was
uploaded by the owner of the document. `OwnInv`: listeners on one document know
the same, and the request that each button of the picker makes is answered by the
youngest listener in three stages (nothing heard, the callback waits, shown); until then no older one can
leave something else on the screen for good. `PartnerInv`: the last job for a
document carries what its listeners were told last. `PresentItemsAlwaysShown` has
the hypothesis `OnePartner` (`MaxLink <= 1`, or nobody else to link with), since
with a former partner the run `former_partner` refutes it.

*Picker.* `IInv` adds that the grid follows the category and that the stored
outfit fits as well. `SwitchHarmless` holds because the colour that a switch sends
on is that of the cloth in the new category. `ColourStaysInStep` needs that the
first colour pipeline drops no colour but the one that is shown
(`ShownIsAssigned`), and does not depend on the order of the pipelines.

*Comments.* `Base`: types and what a task owns. `Kept`: a typed text is in a
comment, or in the field and no task that has read the field will clear it.
`Delivery`: a document that was added is in exactly one place, its sender's
outbox, the server, or refused. `Listed`: a list holds what its listener was told
and concerns its user, once, and otherwise only own refused comments. `Order`:
nowhere, in an outbox, a cache, on the server or in a list, does a comment come
without one that was there when it was tapped, unless that was refused, and a list
that shows the two swapped has stamps that do not grow. Nothing is assumed about
the clocks. `RefusedStaysHidden` follows from `Delivery`: no client has a refused
document in its cache or outbox, so no listener is told of it. A snapshot brings some
ordering of the added documents by their times, of which `Ordered` is the set;
nothing is assumed about equal times.

### Firestore client

*Writes* (`WInv`). Batch ids in the queue grow (`BatchIds`), so that the pipeline
is always a prefix of the queue, as long as it may be (`PipelineFull`); before the
handshake only the handshake is under way (`Greeting`); after it the i-th response
is about the i-th write of the pipeline, a refusal is the last one, and the
requests are about the rest (`Answers`). The refinement maps the acknowledgements
under way to the applied writes of `WriteQueue`.

*Reads.* The client adds nothing that disturbs the write half (`ClientStep`), so
`WInv` is the first of five layers. `ConnInv`: the timers, and `pending` counts
the requests and responses under way of the watch stream. `VInv`: acknowledgements
carry the positions of their writes in the log, in order. `CacheInv`: the cache is
no newer than the server and has each completed write, or the queue still has it.
`ViewInv`: the view shows the local store, and listeners were told the view.
`ClientReadYourWrites` and `ClientNoFlicker` follow from the versions.

### Only model-checked

* The liveness properties `Converges`, `Delivered`, `Received` and `Settles`:
  fairness and `ENABLED` are outside the prover.
* The four properties that the code violates.

Every other invariant, action property and refinement that a run checks is stated
by a theorem.

## 5. Not modelled

* Layout, drawing, wording and logging; the comment card and the keyboard, whose
  heights no other part reads; `Color(hex:)` and `Color.hex`, which are pure and
  never composed.
* Code that nothing reaches: `AuthManager`, `NotificationManager`,
  `PickerViewModel`, `setNewCode`, and the unlinking of a couple
  (`deletePartnerCode`, `updatePartnerCodeBy`), whose button is commented out.
* The alert: a second alert within two seconds is hidden by the timer of the
  first one, or toggled off. Nothing else depends on the flag.
* The id of a comment, its time in milliseconds, with which two comments may
  collide in a `ForEach`.
* A property that forbids a one-sided link after a refused or interrupted half:
  `Pairing` has both (`Reject`, `Kill`), and nothing in the code prevents it.
  `CoupleMutual` says that, where no write is refused or repeated, an interrupted
  task is the only cause.
* Properties that would promise more than the code does or a document says: edits in
  a picker that was opened while a callback waits, text typed while a comment is
  being sent, the colour of a cloth after a reset.
* In `FirestoreClient`, a listen that the server rejects (`ProcessTargetError`,
  `SyncEngine::HandleRejectedListen`): all listeners of the query are called with the
  error and dropped. The app's callbacks print the error or return, and its screens
  stay as they are until a listener is added again. To model it takes what the server
  answers to requests that cross the rejection, which the client's code does not tell.
  The effect on `getDocuments`, a failing lookup, is the fault `error` of `Pairing`.
* The pods other than the Firestore client, and of that client what section 2
  names. They make up nearly all lines of `src/`: third-party code below the
  interface the app uses, partly generated, and none of it POMPOM's. The map
  therefore covers a small share of the repository's lines, and most of the
  app's own that carry logic.

## 6. Plan

No property that a run checks is left that the prover could reach. Should the
button for unlinking come back, `deletePartnerCode` belongs into `Pairing`, with an
action of `Couples` for it; `Linked` is then undone by a step, and `NeverDisconnects`
and the bonds of `Mutual` have to be stated between two unlinkings.
