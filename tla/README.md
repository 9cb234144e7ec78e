# ESP32-WROVER Internet radio: a TLA+ verification project

The TUNER is an ESP32 that plays Internet radio, or acts as a Bluetooth
speaker, with an encoder, a few buttons and an e-paper display. A second
device, the REMOTE, drives it over an authenticated TCP protocol (RTCP). This
directory models the parts of `src/src` in which the order of things matters:
two tasks that share one decoder, a loop that is re-entered from the middle of
its own work, lists that are written to flash record by record, and sessions
that end inside a command. TLC checks the models on small instances; TLAPS
proves the most important results for every value of the constants.

Paths like `audio.cpp:453` are below `src/src/`.

## 1. Inventory

### How the program runs

* The **loop task** (Arduino `loop()`, core 1) owns the application: inputs,
  screens, lists, WiFi, REMOTE commands, web portal. It is one thread, but two
  of its calls wait and poll the RTCP server while they wait: the display (its
  BUSY hook, `main.cpp:308-311`) and the save of Recent
  (`stations.cpp:34, 418-437`). A REMOTE command can therefore run *inside* a
  physical action, or inside another REMOTE command.
* The **audio task** (core 1, higher priority, created once) claims deferred
  starts, opens streams and feeds the decoder (`audio.cpp:858-951`).
* The **Bluetooth stack's task** calls back into `AudioPlayer` with connection,
  audio and AVRCP states.
* The **WiFi framework's task** queues events for the loop.
* The **encoder's interrupt** decodes the knob and counts detents for the loop.

### Components

| Component | State it keeps | Operations | What makes it correct |
| --- | --- | --- | --- |
| AudioPlayer (`audio.cpp`) | decoder chain, `audioMutex`, source, playback state, mute, deferred slot, Bluetooth lifecycle | play, stop, pause, resume, volume, enable/disable Bluetooth, defer/cancel/clear, callbacks, the audio task | the decoder is never used while it is replaced; a slot's outcome is about its own admission; a cancelled start stays silent; no stream survives a change to Bluetooth; nothing plays muted |
| Application loop (`main.cpp`) | mode, selection, the record of the pending REMOTE start, what REMOTEs are told | inputs, REMOTE executors, `serviceDeferredCatalogStart`, display waits | the record follows the slot; only real starts are shown; physical controls win; every start is resolved |
| Station lists (`stations.cpp`) | saved, Favorites, Recent in RAM and NVS, `catalogRevision` | add, remove, move to the front, save, load | flash follows RAM; a restart damages at most the list being saved; no duplicates; pages that went stale in this boot refused |
| RTCP server (`rtcp_server.cpp`) | connection state, keys, counters, negotiation, mailboxes, source state | accept, handshake, one record a poll, deferred commands, close | no nonce twice; each record answered once; nothing of one session serves another; no lock-out |
| Full-control, catalog, BTX, D-009 records (`rtcp_*.cpp`) | projections and generations | admit, encode | a command acts on what its sender saw |
| Remote browser (`remote_browser.cpp`) | one job, its mirror, retry and deadline, three result lists | start, select, cancel, poll | each job ends; a token means what was shown |
| WiFi manager (`net_manager.cpp`) | event queue, connection state, credentials | event callback, update, connect | what is shown of a connection is consistent whatever was dropped; an attempt saves only what got an address, unless it began over an earlier link |
| Screens and physical browser (`main.cpp`, `browser.cpp`, `display.cpp`) | mode, two cursors, browse lists, what the panel shows | handle*Input, the requests, `updateUI`, `projectRtcpMenu` | the panel shows the screen whose keys are active; the menu told to the REMOTE is valid whatever was edited under the cursor |
| Bluetooth authority (`bluetooth_playback_authority.h`, the callbacks in `audio.cpp`, `rtcp_btx.cpp`) | A2DP and AVRCP observations, connection, generation, revision, texts | callbacks, begin/cancel navigation, admit, state response | a command acts on the phone its sender saw; texts are of the connected phone; late callbacks change nothing |
| Guards (`correctness_guards.h`, `volume_target.h`) | none | index and volume arithmetic | in range |
| Input (`input.cpp`) | decoder state, counter of detents, Play's press | the interrupt, `update`, `getEvent`, `takePendingEncoderSteps` | no detent is lost or made up; a press is one command; the overlay that shows a volume comes and goes |
| Web portal, streams, time, discovery, diagnostics | see `PROJECT.json` | | |

### Hard behaviours

Interleavings of the two tasks and the callbacks around `audioMutex`; requests
cancelled, cleared and admitted again under the same identifier; re-entrance
from the display and from NVS writes; restarts between two NVS writes; indexes
and pages used after the list changed; sessions that end inside a command;
starts that must be resolved although both tasks compete for one mutex. The
list, each at its line and with the properties that cover it, is `hazards` in
`PROJECT.json`; a hazard without a property says why.

## 2. Modules

| Module | Models | Runs |
| --- | --- | --- |
| `AudioPlayer` | both tasks and the callbacks in `audio.cpp` | `player_safety` |
| `DeferredSlot` | what the player promises of its one-slot mailbox (abstract) | through `MailboxSpec` in `player_safety` |
| `TunerControl` | `main.cpp`'s loop over `AudioPlayer` (EXTENDS it) | `tuner_*` |
| `StationStore` | `stations.cpp` and all of its callers | `store_*` |
| `RtcpSession` | `rtcp_server.cpp` and the admission of a source selection | `rtcp_*` |
| `RemoteBrowser` | `remote_browser.cpp` and its executor in `main.cpp` | `browser_safety` |
| `NowPlaying` | `rtcp_d009.cpp`'s projection and everything in `main.cpp` that changes what it shows | `now_safety` |
| `Navigation` | every screen of `main.cpp` with its keys, `browser.cpp`'s requests, the panel and the menu told to the REMOTE | `nav_safety` |
| `WifiConnectivity` | `net_manager.cpp`, `wifi_connectivity_model.h`, `setupWiFi`, the configuration portal | `wifi_safety` |
| `BluetoothAuthority` | the Bluetooth callbacks and commands of `audio.cpp`, `bluetooth_playback_authority.h`, `rtcp_btx.cpp` | `bt_safety` |
| `InputControl` | `input.cpp` and the volume overlay of `main.cpp` | `input_safety` |
| `TunerControlProofs` | theorems of `AudioPlayer` and of `TunerControl`, which extends it | |
| `RemoteViewProofs` | theorems of what the REMOTE is shown and acts on: `NowPlaying` and `RemoteBrowser` | |
| `StationStoreProofs`, `RtcpSessionProofs`, `NavigationProofs`, `WifiConnectivityProofs`, `BluetoothAuthorityProofs`, `InputControlProofs` | theorems of the module they are named after | |
| `MC*` | small instances: model values, symmetry, capacities | |

### AudioPlayer

Variables carry the names of the fields they model (`deferred` is
`deferredPlay_`, `lifecycle` is `bluetoothLifecycle`). `taskPc` and `loopPc`
say where the two tasks are inside a function: a step is a stretch of code in
which its task can neither block nor be preempted by a step that could tell
the difference. Both tasks are pinned to one core and the audio task has the
higher priority, except while it opens a stream (`cooperativeOpen`, equal
priorities); therefore its commit under the slot's critical section is atomic
with the state it writes, while every blocking call - taking `audioMutex`,
opening the source, the decoder's `begin()`, which reads the network - ends a
step. `pause()` and `resume()` look at the state and act on it in two steps.

A start that passed its last revalidation tears the old chain down and
constructs the decoder (`Construct`); `begin()` then reads the stream and drives
the output while the player still has its old source (`audio.cpp:526-550`): in
that state `decoder` is "beginning", and only `TaskBegin` or `PlayBegin` changes
the source or tears down again. Bluetooth may be that old source, which is why
`NoStreamSurvivesBluetooth` does not say that no decoder exists under Bluetooth:
it says that no stream of before does, and that the one decoder there can be
belongs to a start admitted after the loop last took the chain. That such a
start exists at all is the disagreement `tuner_output` shows.

`DeferredSlot` is the specification of the mailbox alone: an admission waits,
may run, ends in one outcome or is cancelled, and is cleared. `MailboxSpec` is
its instance under the refinement mapping that forgets everything but the
slot; TLC checks it and TLAPS proves it.

History variables: `admissions` numbers the admissions (a slot carries the
number as `ticket`), `started` holds the tickets whose stream was started,
`withdrawn` those cancelled before the last revalidation, `takeover` the last
ticket admitted before the loop last took the chain.

### TunerControl

One action per physical control and per REMOTE command, each running the
player's operation and going to the wait, if any, that the code performs next
(`mainPc`). During a wait the hook polls the server as often as it likes, so
any REMOTE command may run there; the loop's own poll takes one record
(`polled`). `start` is `deferredCatalogStart`, `pick` the station it names,
`projected` the context that was last published to REMOTEs and against which
playback commands are admitted - it is stale while a nested command runs
before the next publication. `Keys` and `Commands` restrict the alphabet of a
run: `tuner_safety` uses all of it.

### StationStore

Lists are sequences of `[name, url]` records. A change shifts the list in RAM,
advances the revision and pushes a save; `Put` performs one NVS write, the
count first, then name and URL of each record. Saves form a stack because the
save of Recent polls the server, whose commands save Favorites or the saved
stations. `Restart` may fall between any two writes and loads what flash then
holds. The REMOTE names records by position in the page it last fetched
(`page`), the physical screens by their cursor (`screen`), the web portal by any
index at all. The REMOTE is another device: a restart leaves it its page, which
carries the boot it was read in (`boot`, history). `catalogRevision` is not
saved and begins anew at each boot, so such a page can pass the fence over other
stations; `RemoteActsOnWhatItSaw` speaks of the pages of this boot.

### RtcpSession

One connection at a time, numbered; its keys are that number, 0 when cleared.
A record is taken, executed and answered in one poll, except the selection of
a source: the player has changed its source, the display is being drawn
(`serving`), and its wait polls the server, so records, a close, an accept and
a handshake may all happen before `SourceDone` ends the transition and writes
the answer to whoever is connected. A second selection in that time is refused
(`transition`). `Drop` stands for every close: the peer leaves, a deadline
passes, a record is refused.

### RemoteBrowser

The search is a state machine the loop polls: `job` is the stage being fetched,
`client` whether an HTTP attempt runs, `retryWait` whether the one delayed
retry is due later. An attempt ends in an answer, a final refusal or a failure;
a failure goes to the next mirror, to the retry or to the end of the job
(`failureAction`). `expired` and `retryDue` say that the clock has passed the
job's deadline and the retry's delay. The REMOTE holds `page`, the results it
last fetched with their generation and revision, and every command carries both
(`Fenced`). Cancellation has one body and several causes: the REMOTE, the end
of its session, a play, the physical browser, a new search.

### NowPlaying

`projection` is what a REMOTE can read: the last published view with its media
generation and metadata revision, and the mark `preincremented` by which an
invalidation pays for the change that follows it. Of the selected station and the
station count it keeps what `admit` draws from them, the stations that Next and
Previous lead to (`targets`). It is made of state that others change at any time: `selected`, `name` and `discovered` of the loop, the
`source`, `playback` and `title` of the player, the saved `stations`, the
deferred `start`. `Publish` is the loop's own publication; a service, a
playback command and a source command publish themselves. The REMOTE holds
`seen`, the last record it read, and sends only what that record offered, with
its generation (`Command`).

A deferred start is cancelled, fails to open, or passes its last revalidation
(`StartCommits`); from there the audio task holds `audioMutex` (`committing`) and
no cancellation stops it, so that it may begin to play although its slot says
"cancelled", and nothing presents it then. `news` is history: "unpublished" after
the loop, or a commit, changed what plays, until the loop publishes; "unknown"
after the audio task started a station, until its success is presented.
`misled` remembers whether a command was ever admitted although the projection
had moved to another context or station, or, without news, although the player's
context or stream was not what its sender was shown.

The model begins after the first publication of the loop. Two stations of one
name are one station here, as they are to the projection: it compares names, so
a deferred start of a namesake keeps the generation.

### Navigation

`mode` is `currentMode`, `selected` is `selectedStation` - a row of the station
list, or a station's index once something plays - and `cursor` is the one
`browseIndex` all the other lists share. A key is handled as `handleInput`
does, by screen. Most handlers end in a redraw; the wait for the panel, in
which the REMOTE is served, is then the same state as the next turn of the
loop. A handler that waits with work left says so in `wait`: for countries,
genres or results, for the write of Recent, or for the poll after a served
start. All REMOTE commands may run there, and change `mode` under the handler
(`RemoteBluetooth`, `RemoteRadio`, `RemoteSkip`). `panel` is the screen drawn
last, `lastKnown` and `settling` are the two fields by which `updateUI` decides
to redraw. A request tries the mirrors in order (`Answered`): a server failure
goes to the next, a client failure or unusable JSON ends it; the lists may be
empty, which is an error.

`MenuView` is `projectRtcpMenu` and `Encodes` what `menuState` insists on. The
lists of stations, Favorites and Recent have an owner of their own
(`StationStore`) and may be of any length when a step looks at them.

### WifiConnectivity

Three actors: the framework's task, which changes `status` and `raised` the
event; its handler, which stamps and queues the event or drops it
(`HandleEvent`); and the loop, which drains one event a step (`ProcessEvent`),
then believes the status (`UpdateStatus`). `connect()` is a sequence of steps
of the loop, each of which the link may change between: `Connect`, `Poll`,
`WaitEnds`, `Verify`, `SaveConfig`. `phase` says for whom it runs: the two
attempts of the boot, or a form of the portal. `Restart` may come at any step;
only `flash` stays. `configPortalActive`, which no step of the manager reads, is
left out: `OpenPortal` is the end of the boot without a network. `WiFi.begin()` only asks for the old connection to be given
up: `Connect` leaves the status as it is or takes it down, and while it stays the
`link` is that of the earlier credentials. History: `proven`, the credentials
that ever got an address; `overOld`, that the attempt in progress began with a
link up or coming up; `savedOverOld`, that such an attempt wrote the flash.

### BluetoothAuthority

The library calls back from its own task, one event at a time (`raised`), after
it has moved its own connection (`link`); each callback is one critical section
of the code and one action. The loop is at `pc`: switching the sink, or sending
the command in `job`, with callbacks between any two of its steps, and a station
that the audio task starts; only a switch of the sink keeps that out. The REMOTE
keeps the state it was last told (`seen`), and its command carries that state's
generation and playback; it is admitted when it is received and again when it
is executed. `peer` is history: the phone whose connection was reported last.
Counters end at `Limit`, from where `advance` makes them zero for good, and zero
is neither told nor admitted.

### InputControl

`turned` is where the knob is, in transitions of its contacts; it moves by one
at any time, back as well as forth, which is also what a bounce does. The
interrupt is raised (`edge`) and its handler reads one contact (`ReadClk`) and
then the other (`ReadDt`), between which the knob may move again; up to `Lag`
transitions may pass before the handler gets to them. `seen` is the position the
decoder's last reading belongs to, `taken` what the loop has had of the counter,
`missed` that a transition was skipped or a detent found no room: the code then
discards what it has of the detent, and the books are closed. The loop runs on
the core of the handler and never inside it (`Masked`). `owed` is the number of
presses of Play less their commands.

Of the screens only two kinds are told apart, those whose knob is the volume and
the others; `overlaid` is whether the panel's lower strip shows the volume. The
REMOTE may enter a screen at its places in the loop and while the overlay is
drawn, and may leave the drawing to `updateUI` (`undrawn`).

## 3. What the runs show

| Run | Result | Shows |
| --- | --- | --- |
| `player_safety` | pass, 373 k states | decoder lifetime, true outcomes, withdrawn starts stay silent, no stream survives a change to Bluetooth, nothing plays muted, take-overs are final, refinement of the mailbox |
| `tuner_safety` | pass, 2.9 M states | the loop's record and the player's slot agree; what is shown as playing was started and not cancelled |
| `tuner_liveness` | pass, 46 k states | every admitted start is resolved and its slot freed; every audio call returns |
| `store_safety` | pass, 1.9 M states | settled lists are what a boot reads; a restart damages only the list being saved, by one record that was never in it and one lost, or two of each around a torn record; pages that went stale in this boot never act; Recent is what was played last |
| `rtcp_safety` | pass, 544 k states | nonces, answers, negotiation, repeated requests, transitions, the generation fence |
| `browser_safety` | pass, 41 k states | a loading stage is being fetched or about to be; a token means what was shown; every job ends |
| `now_safety` | pass, 4.8 M states | an admitted playback command acts on the context and stream its sender was shown, but for what the player has not told the loop; an unchanged metadata revision means unchanged content |
| `nav_safety` | pass, 2.2 M states | the menu told to the REMOTE always encodes, names only countries that exist and contains its cursor; between the handlers the panel shows the screen whose keys are active, whatever the REMOTE did in a wait |
| `wifi_safety` | pass, 5.8 M states | a connection is shown with an address and a time not before the last loss, also after an overflow; what is in the flash has got an address, unless an attempt over an earlier link wrote it |
| `bt_safety` | pass, 5.8 M states | an admitted command is for the phone its sender saw; an unchanged revision means unchanged texts; nothing known of a phone survives its connection; a stopped sink leaves the player stopped |
| `input_safety` | pass, 4.5 M states | no detent is lost or made up by bounces, torn readings and a loop that takes them meanwhile, as long as the handler keeps up; one command for each press of Play, none for one held at boot; no overlay is left on a screen with a volume |
| `tuner_output` | violation | a REMOTE start admitted under Bluetooth plays over the sink (`audio.cpp` says both "can't both own the peripheral at once") |

Type invariants are stated where a proof or a hazard rests on them: `TypeOK` of the
player and `NowTypeOK`, which `TypeCorrect` and `NowIsTyped` prove, and those of
`Navigation`, `WifiConnectivity`, `BluetoothAuthority` and `InputControl`, which
runs check and theorems prove; the other modules spend their properties on what a
type does not say.

Each property of a passing run has a mutant: a plausible bug in one mapped
definition under which TLC finds the property violated.

### Bounds

* `player_safety`: two request identifiers, two URLs, two admissions. Two
  admissions are enough for the reuse of an identifier while its first start
  still runs, which is the longest hazard of the slot; the number of plays,
  stops, pauses, source changes and callbacks is not bounded.
* `tuner_*`: one admission, one URL. One start meets every control at every
  wait; longer histories of the slot are the player's and are proved there. The
  reuse of an identifier over two admissions was also checked with a smaller
  alphabet.
* `store_safety`: four stations, capacity 1 for saved stations, 2 for Favorites
  and 3 for Recent, seven revisions before the restart (four changes; the boot
  takes the first three) and four after it (one change), four plays, one
  restart. Shifting, dropping and filling all happen; a list of three is the
  shortest that loses two records to one restart, and with the fourth station
  Recent drives one out. `MaxRevision` bounds `catalogRevision` in each boot.
* `rtcp_safety`: two sessions, five records, two request numbers, three
  generations: two records negotiate, one selects, and two remain for what
  happens inside it and after it.
* `browser_safety`: two searches, eight revisions, two stations, one result to
  a page, three mirrors and four attempts as in the code. Eight revisions let
  one search go through all its stages, or one stage be searched again, which
  is when a token could mean another station.

* `now_safety`: two names, a list of at most two stations, five generations and
  eight revisions: enough for a start that is invalidated, overtaken by a
  physical station and served late, with a REMOTE that read before it.

* `nav_safety`: two letters, of which one has countries, two or one of them; one
  genre, result, saved station, favorite and recent; two mirrors and a window of
  two rows. The lists are then empty, shorter and longer than the window, and
  may shrink under a cursor at their end. The number of steps is not
  bounded.
* `wifi_safety`: a queue of two, one poll of an attempt, a clock of two
  instants, two credentials. Two events overflow the queue with a loss and its
  repair; two instants tell before from after. Attempts, link changes and
  restarts are not bounded.
* `bt_safety`: two phones, both counters end at five: the second phone may come
  after the first has left, and either counter may end anywhere in that. Callbacks,
  switches and commands are not bounded.

* `input_safety`: four transitions to a detent, as in the code, one detent each
  way from where the knob was at boot - two from end to end, more than the counter,
  which is full at one up and two down instead of at its 16 bits, can hold - and a
  handler that may be two transitions late, so that it also misses one. Presses,
  screens and overlays are not bounded.

Every bound stands in the guards of the actions that begin something, never of
those that end it, so that the bounded model does not stop half-way: no run
switches deadlock checking off.

### Fairness

`tuner_liveness` assumes weak fairness of each step of the tasks' own
functions: code that is running goes on. It assumes strong fairness of the two
steps that take `audioMutex`, which is contended: the audio task has the higher
priority when it waits, and it delays outside the mutex after a bounded burst
of decoding (`audio.cpp:863-951`), so neither can be passed over for ever. The
end of a display or NVS wait is fair because both are bounded. No fairness is
assumed of inputs, REMOTE commands, callbacks or the success of a network
operation; an open, or a decoder's `begin()`, that never returns is excluded by
the sources' timeouts.

`browser_safety` assumes that time passes (a deadline and a delay are reached)
and that the loop polls the job (`main.cpp` does in every turn), nothing of the
transport: an attempt may stay without an answer until the deadline.

## 4. What is proved

`TunerControlProofs`, about `AudioPlayer` (for any sets of requests and URLs,
and any number of admissions): `TypeCorrect`, `DecoderIsNeverShared`, `OutcomesAreTrue`,
`WithdrawnIsFinal`, `BluetoothOutlastsStreams`, `PlayingIsHeard`, `TakeoversAreFinal`,
`PlayerImplementsMailbox`.

The argument: the invariants are not inductive one by one. The inductive
invariant `IInv` is the conjunction of the decoder's lifetime (who holds
`audioMutex` in each `taskPc` and `loopPc`), of the slot (which ticket the
task's copy `work` may hold, and when it is the slot's), of what has been
started (a ticket is started at most once and only from `begin`), of what is
still allowed to start, and of Bluetooth (which lifecycle states go with which
source). Each action has a lemma or a step per conjunct it can disturb; the
helper operators of the slot and the chain have lemmas of their own.

The same module, about `TunerControl`: `TunerImplementsPlayer` (each step of the loop is a step
of the player or leaves it alone, so that all of the above holds of the
composed system), `StartsAreTracked` and `PresentedStartsAreReal`. They add an
invariant of the loop's record (`start` is active exactly while the slot holds
its ticket) to the player's.

The only assumptions are those of the modules (`NoUrl \notin Urls`, ...).

`RtcpSessionProofs`: `NoncesAreFresh` and `SelectionsAreFenced`. The first needs
that keys are loaded only while records are served, that the counter is beyond
every answer encrypted with them, and that nothing has been encrypted with the
keys of a handshake still under way; the second, that everything told or
replaced under the present generation is of the source known now. The other four
speak of the history of records and answers, and share the lemma that every step
is one of four (`StepKinds`: a record answered in the poll that took it, the
source command that waits for the display, its end, and steps without a record):

* `TransitionsAreOwned`: `TransitionIsOwned` is inductive beside the records.
* `RepeatsAreRefused`: what the poll compares a command with is the latest of its
  kind and session, if that was executed (`LatestIsRemembered`).
* `BtxIsNegotiated`: what each stage of the negotiation has seen (`ProgressOK`:
  the window is open only if the latest record asks for capabilities).
* `RecordsAreAnswered`: an answer is to a record taken, no two to the same, and in
  a session being served only the command that waits has none (`AnsweredInv`).

`NegotiatedByProbe` and `RepeatIsRefused` say by position what "the last" and
"the one before" mean (`InARow`), because the prover knows nothing of a filtered
sequence.

`StationStoreProofs`, for any stations and any capacities of the lists:

* `SavedListsAreLoaded`. `StoreInv` says how far each namespace of the flash
  follows its list: the count and the fields a save has written hold the list of
  now (`FlashFollows`), and a namespace without a save holds all of it. It needs
  that at most one save is in progress, or that of Recent and, in the poll inside
  it, one of another list (`SavesOK`).
* `RemoteCommandsMeanWhatWasShown`. A page of this boot whose revision is the
  present one shows the list as it is (`Fenced`): every change of a list advances
  the revision. A restart leaves the page and makes it one of an earlier boot, of
  which the theorem says nothing.
* `RestartsDamageLittle`, the action property. A save knows the list before it,
  which differs from the list of now by one change (`BeforeOK`, `OneChange`), and
  the fields it has not written hold that list (`Behind`). From there it counts
  what the boot can read that neither list holds (`ForeignIsBounded`) and what
  both hold and the boot no longer reads (`LostIsBounded`). The first attempt at
  this proof failed for a reason: "at most one record is lost" is true of a list
  of two and false of a list of three, where a restart in the middle of a shift
  can tear one record and lose another. The property now says what holds for
  every capacity (one, or two when a record is torn), and the run has a list of
  three.
* `RecentIsWhatWasPlayedLast`. The k-th entry of Recent is the k-th station
  counted back in the history of plays (`HistoryOK`). It needs that the lists hold
  no station twice, what `addToRecent` returns position by position
  (`AddedToRecentFacts`, `AddedToRecentMovesUp`), and the rank of a station in the
  history as the size of a finite set (`RankOfListed`, `RankOfOthers`).

`RemoteViewProofs`, about `RemoteBrowser` and `NowPlaying`, for any number of
searches and revisions:

* `LoadingIsAlwaysWorked`. `JobInv`: what the worker, the outcome and the status
  of the search may be together; the property is inductive with it.
* `PlaysAreShown`. Within a search the revision never goes back and the results
  never change without it; a search that ended is never entered again
  (`PageInv`).
* `NowIsTyped`, `CommandsActOnWhatWasShown` and
  `EqualRevisionsMeanEqualContent`. `NowInv` relates the projection and what the
  REMOTE last read (`Owes`): equal revisions mean equal contents, an equal
  generation under which the REMOTE was offered something means the same station
  and context, and a projection without a context offers nothing, so that a
  generation advanced ahead by an invalidation admits no command before what
  replaced it is published. `Abreast` relates the loop to the player: a stream
  the loop can know of has the name the loop gives it, and without news the
  projection says so or has been invalidated.

`NavigationProofs`, for any numbers of stations, countries, genres and results:

* `ScreensAreTyped`.
* `PanelShowsTheScreen`. A handler that waits for the flash leaves panel and
  screen apart until its last step, and a redraw would no longer be due if the
  player's state came back to what was drawn last. `PanelInv` says that it cannot:
  a screen entered undrawn is marked (`Marked`) by `settling` or by "buffering",
  which is no state of the player.
* `MenuAlwaysEncodes`. The countries are freed when a station plays while the
  filtered indices into them stay; `FilterInv` says from which screens and waits
  the list of countries can still be reached, and that there the indices are
  inside it. `EveryPlaceIsTaken` and `MatchingIsInList` say what
  `applyLetterFilter` returns, by the least-number principle (`LeastNumber`,
  from the library's well-founded minimum, since its induction cannot be
  used). `Matching` is written out as "the i-th smallest index" because the
  prover has no definition of the library's sorting and filtering.

`WifiConnectivityProofs`: `WifiTypeCorrect`, `SavedHasConnected` and
`SinceCorrect`. The last one needs an invariant of the queue (`StampsInOrder`:
the stamps wait in order, none before the last disconnection the model knows of
and none after now) and one of the model's parts that only holds one way while
the events are drained (`ShownTogether`). The queue may drop any of them. The
model's clock does not wrap. For `SavedHasConnected`, `CredentialInv`: a status of
connected proves the credentials of the link, and during an attempt that began
without a link (`Attempted`) that link is the attempt's own; what is about to be
saved then has got an address, although the link may be lost before the save.

`BluetoothAuthorityProofs`: `BluetoothTypeCorrect`, `CommandsReachTheSeenPhone`,
`TextsAreCurrent` and `SinkOffIsQuiet`. They rest on the sink (`SinkInv`: a sink
that is off calls no more, and Bluetooth becomes the source only from such a
sink), on the agreement of the library and the loop about the phone (`LinkInv`)
and on the fences (`Fenced`, `Dated`: what carries the present generation or
revision speaks of the phone or the texts of now; `EpochMoves` and `TextMoves`
say that whatever replaces them moves the counter on or ends it). No bound of
the counters is assumed.

`InputControlProofs`: `InputTypeCorrect`, `EveryDetentCounts`,
`EachPressIsOneCommand` and `OverlaysEnd`, for any number of transitions to a
detent, any limit of the counter and a lag of one or two. The second rests on the
contacts: neighbouring positions differ in one of them (`NextContacts`), so that a
torn reading is one of the two positions (`TornReading`) and a transition moves
the accumulator by one (`DecodedIsMoved`); `CountInv` then keeps the books.

Every invariant and every action property of the passing runs is a theorem.
Only model-checked are the three liveness properties (`JobEnds`, `StartIsResolved`
and `LoopReturns`), which are out of the prover's reach, and the disagreement
that the violation run shows.

## 5. What is not modelled

Layout and drawing, HTML, the cryptography's arithmetic, byte layouts of
records, codecs and buffers, metadata text, diagnostics and allocation
policies: no decision the properties are about depends on them. NVS writes
always succeed. The volume is a control step without its value, and
`InputControl` counts the detents it is given. Deadlines are
nondeterministic: they may pass whenever the code would look at them. Serial
commands repeat the physical controls. Components with status `not_modelled` or
`partly` in `PROJECT.json` say what is left.

Seen in the code and not made into properties, because no document promises
otherwise: a start that fails after the old chain was torn down leaves
`playbackState` as it was, without a decoder (`audio.cpp:534`); a failed
Bluetooth cleanup refuses every later source change until a restart, while
stations can still be played (`audio.cpp:774`).

## 6. Plan

In this order; the most important behaviour comes first.

1. Proofs: an abstract specification of the lists (a catalog that a restart
   leaves as it was before or after the change, or damaged by as much as
   `RestartDamageIsBounded` allows) that `StationStore` implements; the agreement of the menu's
   rows and the list they are drawn from, for the screens that do agree.
2. Time and discovery: the clock's synchronization and the mDNS record, when the
   WiFi manager's states call for them.

## 7. Remarks

Disagreements with a document or a comment, and surprises, met while modelling
and not kept as runs.

* A REMOTE start cancelled because its session closed after the audio task's
  last revalidation (`audio.cpp:459-478`) still starts and goes on playing,
  although `REMOTE_FULL_CONTROL_PROTOCOL.md:52` says it is cancelled on close;
  `PresentedIsReal` shows that it is at least never presented as playing.
* `serviceDeferredCatalogStart` polls the server before it writes Recent
  (`main.cpp:690-694`): a source command in that poll clears the URL, and the
  entry pairs the station's name with another URL.
* The audio task commits a deferred start (source, title) before the service
  sets the name (`main.cpp:680`), and the loop publishes in between
  (`main.cpp:787`): the successor's title is shown under the predecessor's name
  and generation for that while, although `main.cpp:1145` wants stale metadata
  gone before a new station begins. A pause the REMOTE sends in that while is
  admitted (`main.cpp:338-349` and `audio.cpp:656` look at nothing but the
  player's state) and mutes the successor. So does one admitted after a change
  by the keys and before the loop's next publication, over Bluetooth as well,
  whose state it overwrites. `ActsOnWhatItSaw` says that there are no other
  cases. If the start was cancelled after its last revalidation
  (`audio.cpp:459`), its success is reported to nobody (`audio.cpp:882-887`): the
  station plays under its predecessor's name until something else is started.
* A source that is changed there and back on the device between two requests of
  a REMOTE keeps its generation (`rtcp_server.cpp:485-503` compares only when
  asked), although `REMOTE_FULL_CONTROL.md:83-85` says that a physical change
  advances it.
* `REMOTE_FULL_CONTROL_PROTOCOL.md` gives a browser job a 30-second deadline and
  two mirror attempts, the code forty seconds and four
  (`remote_browser_transport_policy.h`).
* An older REMOTE start that has succeeded is shown over the physical station
  that plays meanwhile (`main.cpp:670`), although
  `REMOTE_FULL_CONTROL_PROTOCOL.md:62` gives physical controls priority.
* `catalogRevision` is not saved and starts again at each boot
  (`stations.cpp:25, 308, 372`), while the fence compares nothing else
  (`main.cpp:597`, `rtcp_catalog.cpp:165`): a page the REMOTE read before a
  restart of the TUNER passes it as soon as as many changes were made as before,
  and its position then names another station. `RemoteActsOnWhatItSaw` is about
  the pages of one boot; whether the REMOTE keeps a page across the session it
  was read in is decided in its own program, which is not here.
* A restart during a save can lose a saved station the change did not touch
  (`stations.cpp:422`; `README.md:210` says lists persist).
* The Favorites screen keeps its cursor when the REMOTE or the web portal
  removes a favorite, so that Play then removes another station than the one
  drawn (`main.cpp:1591`).
* The answer to a source command is written to whoever is connected when it
  ends, perhaps the next session (`rtcp_server.cpp:519`).
* A long press on the station-letter screen goes back to the countries with the
  letter's row (`main.cpp:1416`), so that a click there reads
  `filteredCountryIndices` past `filteredCountryCount` and picks a country that
  is not listed, although `main.cpp:81` has `browseIndex` "Reset to 0 whenever
  entering any of these modes".
* The volume overlay is drawn 250 ms after the last detent on whatever screen is
  there by then (`main.cpp:803-807`), and at its end only the radio's and
  Bluetooth's screens are redrawn (`main.cpp:1738-1757`): a click in those 250 ms
  leaves the volume on the station list, although `main.cpp:1735-1738` counts on
  its being cleared. `OverlayEnds` therefore speaks of screens with a volume.
* Screens: a REMOTE start admitted while the browse menus are open streams
  while genres and results are fetched, although `main.cpp:1229-1231` counts on
  one `stop()` for the whole flow; a REMOTE source command during a request is
  overridden by the screen the request ends in, while Bluetooth goes on; a
  failed switch to or from Bluetooth draws the error without `MODE_ERROR`, so
  that the next key acts on the screen below it; a failed REMOTE Next sets
  `MODE_ERROR` and draws nothing; a REMOTE play leaves the browse memory
  allocated until the next browse; `item.active` of the station list compares a
  station with `selectedStation` while that is a row (`main.cpp:485`).
* Input: a detent, a key and the release of Play that one update finds share one
  event, and the last one written wins: the detent has left the counter and no
  handler sees it (`input.cpp:286-324`). While the idle clock is shown a key or a
  detent only wakes the list (`main.cpp:772-774`).
* WiFi: `connect()` tests `WiFi.status()` right after `WiFi.begin()`
  (`net_manager.cpp:93-102`), which only asks for the old connection to be given
  up: while the status still says connected the wait is skipped, and the new
  credentials are written without having been tried (116-124), although
  `web_portal.cpp:398` means to refuse what does not connect. How long the status
  stays is the framework's affair; `SavedHadAddress` therefore speaks of the
  attempts that begin with no link up, and `savedOverOld` marks the others. Also:
  when the saved network does not answer for twenty seconds at boot and
  config.h's does, config.h's credentials replace the saved ones, under a
  comment about a first boot (`main.cpp:884-890`); a refused form leaves its
  credentials in RAM as the connected ones; a form blocks the loop for up to
  twenty seconds; `STA_STOPPED` has a handler and nothing that causes it; a
  disconnection and an address that are both dropped leave a connection's time
  before the loss, which is not shown then.
* Bluetooth: the phone may change between the admission of a REMOTE's command
  and its sending (`audio.cpp:1067-1073`); a STOPPED that comes between the
  start of a navigation and its failure stays masked as playing, although the
  exception is meant for an accepted Next or Previous
  (`bluetooth_playback_authority.h:25`); a second navigation that fails ends
  the exception of the first; a phone that is disconnecting is told without its
  texts under the revision that had them (`rtcp_btx.cpp:192-196`);
  `bluetoothPlaybackPaused` is written after the command and may overwrite what
  the phone has answered by then (`audio.cpp:1074`).
