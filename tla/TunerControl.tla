----------------------------- MODULE TunerControl -----------------------------
(***************************************************************************)
(* The application loop of src/src/main.cpp around the audio player:       *)
(* physical input, REMOTE commands and the service of the one deferred     *)
(* REMOTE start (deferredCatalogStart) take turns in one task, but REMOTE  *)
(* commands also run inside the display's and the persistence's waits,     *)
(* through the hooks that poll the RTCP server there.                      *)
(*                                                                         *)
(* Abstracted: the browse screens, Favorites, Recent, the station list and *)
(* the idle clock are one "menu"; a station is its URL, and a name is the  *)
(* URL it belongs to; the catalog revision is whether the catalog changed  *)
(* since the pending start was admitted; the RTCP session is any sequence  *)
(* of commands and closes.                                                 *)
(***************************************************************************)
EXTENDS AudioPlayer

CONSTANTS
  Keys,      \* the physical controls in use
  Commands   \* the REMOTE commands in use

VARIABLES
  mode,        \* currentMode
  shown,       \* nowPlayingName
  discovered,  \* nowPlayingContext.discovered
  projected,   \* the context last published to the RTCP server
  start,       \* deferredCatalogStart
  pick,        \* the station of the physical play in progress
  mainPc,      \* where loop() is
  remote,      \* the REMOTE command waiting for the audio player
  refreshing,  \* a REMOTE source command waits for the display
  dropped,     \* history: tickets cancelled while waiting or starting
  presented    \* history: tickets shown as playing by the service

uiVars == <<mode, shown, discovered>>
controlVars == <<mainPc, pick>>
recordVars == <<dropped, presented>>
mainVars == <<uiVars, projected, start, controlVars, remote, refreshing,
              recordVars>>
playerVars == vars
tunerVars == <<playerVars, mainVars>>

-----------------------------------------------------------------------------
NoStart == [active |-> FALSE, request |-> NoRequest, station |-> NoUrl,
            saved |-> FALSE, browser |-> FALSE, fresh |-> FALSE]

Starts == [active: BOOLEAN, request: Requests \union {NoRequest},
           station: Urls \union {NoUrl}, saved: BOOLEAN, browser: BOOLEAN,
           fresh: BOOLEAN]

NoCommand == [op |-> "none", station |-> NoUrl]

NoPick == [station |-> NoUrl, saved |-> FALSE]

TunerInit ==
  /\ Init
  /\ mode = "menu" /\ shown = NoUrl /\ discovered = FALSE
  /\ projected = "none" /\ start = NoStart
  /\ pick = NoPick
  /\ mainPc = "input" /\ remote = NoCommand /\ refreshing = FALSE
  /\ dropped = {} /\ presented = {}

(* publishRtcpProjection.                                                  *)
Context(source, isDiscovered) ==
  CASE source = "bluetooth" -> "bluetooth"
    [] source = "radio" -> IF isDiscovered THEN "discovered" ELSE "fixed"
    [] OTHER -> "none"

Publish == projected' = Context(currentSource, discovered')

(* invalidateMediaContext: a new station is about to replace the context.  *)
Invalidate == projected' = "none"

(* Every change of a collection advances the catalog revision.             *)
EditCatalog == start' = [start EXCEPT !.fresh = FALSE]

(* The tickets a cancellation reaches while they wait or start.            *)
Drop == dropped' = IF deferred.status \in Live
                     THEN dropped \union {deferred.ticket} ELSE dropped


-----------------------------------------------------------------------------
(* handleInput.  Handlers that call the audio player wait for its return.  *)

At(pc) ==
  mainPc = pc /\ loopPc = "idle" /\ remote.op \in {"none", "polled"} /\ ~refreshing

Goto(pc) == mainPc' = pc /\ remote' = NoCommand /\ UNCHANGED refreshing

InputNone ==
  /\ At("input") /\ Goto("service")
  /\ UNCHANGED <<playerVars, uiVars, projected, start, pick,
                 recordVars>>

(* playStation, from the station list or with Next and Previous.           *)
InputStation(u) ==
  /\ At("input") /\ (mode = "menu" \/ (mode = "playing" /\ ~discovered))
  /\ PlayCall(u) /\ Drop /\ Goto("play")
  /\ pick' = [station |-> u, saved |-> TRUE]
  /\ Invalidate /\ UNCHANGED <<uiVars, start, presented>>

(* playDiscoveredStation writes Recent, polling REMOTE, before it plays.   *)
InputDiscovered(u) ==
  /\ At("input") /\ mode = "menu"
  /\ EditCatalog /\ Goto("discover")
  /\ pick' = [station |-> u, saved |-> FALSE]
  /\ UNCHANGED <<playerVars, uiVars, projected, recordVars>>

PlayDiscovered ==
  /\ At("discover") /\ PlayCall(pick.station) /\ Drop /\ Goto("play")
  /\ Invalidate /\ UNCHANGED <<uiVars, start, pick, presented>>

ShowPlayed(station, isSaved) ==
  IF loopResult
    THEN mode' = "playing" /\ shown' = station /\ discovered' = ~isSaved
    ELSE mode' = "error" /\ UNCHANGED <<shown, discovered>>

InputPlayed ==
  /\ At("play") /\ ShowPlayed(pick.station, pick.saved) /\ Goto("display") /\ pick' = NoPick
  /\ UNCHANGED <<playerVars, projected, start, recordVars>>

(* enterBrowseLetter stops playback, shows that it loads, polling REMOTE   *)
(* in the display's wait, and then uses the network.                       *)
InputBrowse ==
  /\ At("input") /\ mode = "menu"
  /\ StopCall /\ Drop /\ Goto("browse")
  /\ UNCHANGED <<uiVars, projected, start, pick, presented>>

InputBrowsed ==
  /\ At("browse") /\ mode' \in {"menu", "error"} /\ Goto("display")
  /\ UNCHANGED <<playerVars, shown, discovered, projected, start, pick,
                 recordVars>>

InputBluetooth ==
  /\ At("input") /\ mode = "menu"
  /\ EnableBluetooth /\ Drop /\ Goto("enable")
  /\ UNCHANGED <<uiVars, projected, start, pick, presented>>

InputEnabled ==
  /\ At("enable") /\ Goto("display")
  /\ mode' = IF loopResult THEN "bluetooth" ELSE mode
  /\ UNCHANGED <<playerVars, shown, discovered, projected, start, pick,
                 recordVars>>

InputRadio ==
  /\ At("input") /\ mode = "bluetooth"
  /\ DisableBluetooth /\ Drop /\ Goto("disable")
  /\ UNCHANGED <<uiVars, projected, start, pick, presented>>

InputDisabled ==
  /\ At("disable") /\ Goto("display")
  /\ mode' = IF loopResult THEN "menu" ELSE mode
  /\ UNCHANGED <<playerVars, shown, discovered, projected, start, pick,
                 recordVars>>

InputPause ==
  /\ At("input") /\ mode = "playing"
  /\ (PauseCheck \/ ResumeCheck)
  /\ Goto("display")
  /\ UNCHANGED <<uiVars, projected, start, pick, recordVars>>

InputVolume ==
  /\ At("input") /\ mode \in {"playing", "bluetooth"}
  /\ SetVolume /\ Goto("service")
  /\ UNCHANGED <<uiVars, projected, start, pick, recordVars>>

(* Next on a discovered station adds what is playing to Favorites.         *)
InputFavorite ==
  /\ At("input") /\ mode = "playing" /\ discovered
  /\ EditCatalog /\ Goto("service")
  /\ UNCHANGED <<playerVars, uiVars, projected, pick, recordVars>>

(* Leaving the player or the error screen; browsing and editing the lists. *)
InputMenu ==
  /\ At("input") /\ mode \in {"menu", "playing", "error"}
  /\ mode' = "menu" /\ Goto("display")
  /\ \/ UNCHANGED start
     \/ mode = "menu" /\ EditCatalog
  /\ UNCHANGED <<playerVars, shown, discovered, projected, pick,
                 recordVars>>

Displayed ==
  /\ At("display") /\ Goto("service")
  /\ UNCHANGED <<playerVars, uiVars, projected, start, pick,
                 recordVars>>

Input ==
  \/ "station" \in Keys /\ \E u \in Urls : InputStation(u)
  \/ "discovered" \in Keys /\ \E u \in Urls : InputDiscovered(u)
  \/ "browse" \in Keys /\ InputBrowse
  \/ "source" \in Keys /\ (InputBluetooth \/ InputRadio)
  \/ "pause" \in Keys /\ InputPause
  \/ "volume" \in Keys /\ InputVolume
  \/ "favorite" \in Keys /\ InputFavorite
  \/ "menu" \in Keys /\ InputMenu
  \/ InputNone \/ PlayDiscovered \/ InputPlayed \/ InputBrowsed
  \/ InputEnabled \/ InputDisabled \/ Displayed

-----------------------------------------------------------------------------
(* serviceDeferredCatalogStart, between the other duties of a loop.        *)

StartStatus == StatusOf(start.request)

(* The loop services the start three times and polls REMOTE in between;    *)
(* then it may refresh the display, and the next iteration begins.         *)
Onwards ==
  \/ Goto("input") /\ UNCHANGED projected
  \/ Goto("poll") /\ Publish
  \/ Goto("refresh") /\ UNCHANGED projected  \* updateUI

ServicePending ==
  /\ At("service") /\ UNCHANGED <<uiVars, playerVars>>
  /\ start.active => (StartStatus \in Live /\ (start.browser \/ start.fresh))
  /\ Onwards
  /\ UNCHANGED <<start, pick, recordVars>>

(* The catalog changed: the start is given up, whatever the audio task did *)
(* since its status was read.                                              *)
ServiceStale ==
  /\ At("service") /\ start.active
  /\ StartStatus \in Live /\ ~start.browser /\ ~start.fresh
  /\ Goto("fence")
  /\ UNCHANGED <<playerVars, uiVars, projected, start, pick,
                 recordVars>>

ServiceFence ==
  /\ At("fence") /\ CancelDeferredPlay /\ Drop /\ Goto("clear")
  /\ UNCHANGED <<uiVars, projected, start, pick, presented>>

(* A success is shown and published; REMOTE is polled before Recent is     *)
(* written, and again while it is written.                                 *)
ServiceSucceeded ==
  /\ At("service") /\ start.active /\ StartStatus = "succeeded"
  /\ mode' = "playing" /\ shown' = start.station /\ discovered' = ~start.saved
  /\ presented' = presented \union {deferred.ticket}
  /\ Publish /\ Goto("recent")
  /\ UNCHANGED <<playerVars, start, pick, dropped>>

ServiceRecent ==
  /\ At("recent")
  /\ IF start.saved
       THEN Goto("clear") /\ UNCHANGED start
       ELSE EditCatalog /\ Goto("persist")
  /\ UNCHANGED <<playerVars, uiVars, projected, pick, recordVars>>

ServicePersisted ==
  /\ At("persist") /\ Goto("clear")
  /\ UNCHANGED <<playerVars, uiVars, projected, start, pick,
                 recordVars>>

ServiceFailed ==
  /\ At("service") /\ start.active /\ StartStatus = "failed"
  /\ mode' = "error" /\ Goto("failed")
  /\ UNCHANGED <<playerVars, shown, discovered, projected, start, pick,
                 recordVars>>

ServiceFailureShown ==
  /\ At("failed") /\ Goto("clear")
  /\ UNCHANGED <<playerVars, uiVars, projected, start, pick,
                 recordVars>>

ServiceCancelled ==
  /\ At("service") /\ start.active /\ StartStatus \in {"none", "cancelled"}
  /\ Goto("clear")
  /\ UNCHANGED <<playerVars, uiVars, projected, start, pick,
                 recordVars>>

ServiceClearPlayed ==  \* Mutant: a cancelled start keeps the slot.
  /\ At("clear")
  /\ IF deferred.request = start.request /\ deferred.status \in {"succeeded", "failed"}
       THEN ClearDeferredPlay(start.request)
       ELSE UNCHANGED playerVars
  /\ start' = NoStart /\ UNCHANGED uiVars /\ Publish
  /\ \E pc \in {"input", "poll", "refresh"} : Goto(pc)
  /\ UNCHANGED <<pick, recordVars>>

ServiceClear ==
  /\ At("clear")
  /\ IF deferred.request = start.request /\ deferred.status \notin Live
       THEN ClearDeferredPlay(start.request)
       ELSE UNCHANGED playerVars
  /\ start' = NoStart /\ UNCHANGED uiVars /\ Publish
  /\ \E pc \in {"input", "poll", "refresh"} : Goto(pc)
  /\ UNCHANGED <<pick, recordVars>>

Polled ==
  /\ \/ At("poll") /\ Goto("service")
     \/ At("refresh") /\ Goto("input")
  /\ UNCHANGED <<playerVars, uiVars, projected, start, pick,
                 recordVars>>

Service ==
  \/ ServicePending \/ ServiceStale \/ ServiceFence \/ ServiceSucceeded
  \/ ServiceRecent \/ ServicePersisted \/ ServiceFailed \/ ServiceFailureShown
  \/ ServiceCancelled \/ ServiceClear \/ Polled
-----------------------------------------------------------------------------
(* REMOTE commands: at a poll of the loop, or at one of the hooks while a  *)
(* display refresh or a write to Recent waits.                             *)

Hooks == {"discover", "browse", "display", "persist", "failed", "refresh"}

Polling ==
  /\ mainPc \in Hooks \union {"poll", "recent"}
  /\ loopPc = "idle" /\ remote.op = "none"

(* The loop's own poll takes one record; a hook polls again and again.     *)
Handled ==
  remote' = IF mainPc \in Hooks \/ refreshing'
              THEN NoCommand ELSE [NoCommand EXCEPT !.op = "polled"]

Begun(op, station) == remote' = [op |-> op, station |-> station]

(* executeRtcpCatalog and executeRtcpBrowser, operation play: the revision *)
(* the command expects is the current one, the slot is free.               *)
RemotePlay(r, u, isBrowser) ==
  /\ Polling /\ ~start.active /\ DeferPlay(r, u)
  /\ \E isSaved \in BOOLEAN :
       /\ isBrowser => ~isSaved
       /\ start' = [active |-> TRUE, request |-> r, station |-> u,
                    saved |-> isSaved, browser |-> isBrowser, fresh |-> TRUE]
  /\ UNCHANGED refreshing /\ Handled
  /\ Invalidate /\ UNCHANGED <<uiVars, controlVars, recordVars>>

(* A REMOTE or a web request edits a collection.                           *)
RemoteEdit ==
  /\ Polling /\ EditCatalog
  /\ UNCHANGED <<playerVars, uiVars, projected, controlVars, remote,
                 refreshing, recordVars>>

(* executeRtcpSource.  Selecting the current source, or a source while     *)
(* another selection is in progress, is answered before it.                *)
RemoteBluetooth ==
  /\ Polling /\ ~refreshing /\ currentSource # "bluetooth"
  /\ EnableBluetooth /\ Drop /\ Begun("bluetooth", NoUrl)
  /\ UNCHANGED <<uiVars, projected, start, controlVars, refreshing,
                 presented>>

RemoteRadio ==
  /\ Polling /\ ~refreshing /\ currentSource = "bluetooth"
  /\ DisableBluetooth /\ Drop /\ Begun("radio", NoUrl)
  /\ UNCHANGED <<uiVars, projected, start, controlVars, refreshing,
                 presented>>

RemoteSourceDone ==
  /\ loopPc = "idle" /\ remote.op \in {"bluetooth", "radio"}
  /\ refreshing' = loopResult /\ Handled
  /\ mode' = IF ~loopResult THEN mode
             ELSE IF remote.op = "bluetooth" THEN "bluetooth" ELSE "menu"
  /\ UNCHANGED <<playerVars, shown, discovered, projected, start,
                 controlVars, recordVars>>

(* The display was refreshed, REMOTE being polled meanwhile.               *)
RemoteSourceShown ==
  /\ Polling /\ refreshing /\ refreshing' = FALSE /\ Handled
  /\ UNCHANGED uiVars /\ Publish
  /\ UNCHANGED <<playerVars, start, controlVars, recordVars>>

(* executeRtcpPlayback.  D-009 admits pause and resume for a radio and     *)
(* previous and next for a fixed radio, by what was published last.        *)
RemotePause ==
  /\ Polling /\ projected \in {"fixed", "discovered"}
  /\ (PauseCheck \/ ResumeCheck)
  /\ Begun("pause", NoUrl)
  /\ UNCHANGED <<uiVars, projected, start, controlVars, refreshing,
                 recordVars>>

RemotePaused ==
  /\ loopPc = "idle" /\ remote.op = "pause"
  /\ UNCHANGED refreshing /\ Handled
  /\ UNCHANGED uiVars /\ Publish
  /\ UNCHANGED <<playerVars, start, controlVars, recordVars>>

RemoteSkip(u) ==
  /\ Polling /\ projected = "fixed"
  /\ PlayCall(u) /\ Drop /\ Begun("skip", u)
  /\ Invalidate
  /\ UNCHANGED <<uiVars, start, controlVars, refreshing, presented>>

RemoteSkipped ==
  /\ loopPc = "idle" /\ remote.op = "skip"
  /\ UNCHANGED refreshing /\ Handled
  /\ ShowPlayed(remote.station, TRUE) /\ Publish
  /\ UNCHANGED <<playerVars, start, controlVars, recordVars>>

(* A playback command the state does not allow only publishes.             *)
RemoteIgnored ==
  /\ Polling /\ projected \in {"fixed", "discovered"}
  /\ UNCHANGED refreshing /\ Handled
  /\ UNCHANGED uiVars /\ Publish
  /\ UNCHANGED <<playerVars, start, controlVars, recordVars>>

RemoteVolume ==
  /\ Polling /\ SetVolume
  /\ UNCHANGED refreshing /\ Handled
  /\ UNCHANGED <<uiVars, projected, start, controlVars, recordVars>>

(* The session ends, perhaps in the poll that took a command:              *)
(* cancelDeferredCatalogStart.                                             *)
Closing ==
  /\ mainPc \in Hooks \union {"poll", "recent"} /\ loopPc = "idle"
  /\ remote.op \in {"none", "polled"} /\ start.active

CloseForgetsStart ==  \* Mutant: the record is dropped with the session.
  /\ Closing /\ CancelDeferredPlay /\ Drop /\ start' = NoStart
  /\ UNCHANGED <<uiVars, projected, controlVars, remote, refreshing, presented>>

RemoteClose ==
  /\ Closing /\ CancelDeferredPlay /\ Drop
  /\ UNCHANGED <<uiVars, projected, start, controlVars, remote, refreshing,
                 presented>>

Remote ==
  \/ \E r \in Requests, u \in Urls, b \in BOOLEAN : RemotePlay(r, u, b)
  \/ "skip" \in Commands /\ \E u \in Urls : RemoteSkip(u)
  \/ "edit" \in Commands /\ RemoteEdit
  \/ "source" \in Commands /\ (RemoteBluetooth \/ RemoteRadio)
  \/ "pause" \in Commands /\ (RemotePause \/ RemoteIgnored)
  \/ "volume" \in Commands /\ RemoteVolume
  \/ "close" \in Commands /\ RemoteClose
  \/ RemoteSourceDone \/ RemoteSourceShown \/ RemotePaused \/ RemoteSkipped

-----------------------------------------------------------------------------
Concurrent ==
  (AudioTask \/ LoopStep \/ BluetoothStack) /\ UNCHANGED mainVars

TunerNext == Concurrent \/ Input \/ Service \/ Remote

(* A wait of the display or the persistence ends, however many REMOTE      *)
(* commands run inside it.                                                 *)
WaitEnds ==
  \/ PlayDiscovered \/ InputBrowsed \/ Displayed \/ ServiceRecent \/ ServicePersisted
  \/ ServiceFailureShown \/ Polled

(* The audio task is scheduled above the loop task, so it gets the mutex   *)
(* when it waits for it; it delays without the mutex after 10 ms of        *)
(* decoding, so the loop task gets it too.  Opens and Bluetooth starts are *)
(* bounded by their time-outs.                                             *)
TunerFairness ==
  /\ WF_tunerVars(Claim /\ UNCHANGED mainVars)
  /\ WF_tunerVars(TaskOpen /\ UNCHANGED mainVars)
  /\ WF_tunerVars(TaskCheck /\ UNCHANGED mainVars)
  /\ SF_tunerVars(TaskRecheck /\ UNCHANGED mainVars)
  /\ WF_tunerVars((TaskBegin \/ Report \/ DecodeEnd) /\ UNCHANGED mainVars)
  /\ SF_tunerVars(LoopStep /\ UNCHANGED mainVars)
  /\ WF_tunerVars(RemoteSourceDone \/ RemotePaused \/ RemoteSkipped)
  /\ WF_tunerVars(InputNone \/ InputPlayed \/ InputEnabled \/ InputDisabled)
  /\ WF_tunerVars(Service)
  /\ SF_tunerVars(WaitEnds) /\ SF_tunerVars(RemoteSourceShown)

TunerSpec == TunerInit /\ [][TunerNext]_tunerVars
FairTunerSpec == TunerSpec /\ TunerFairness

-----------------------------------------------------------------------------
(* The loop's record and the audio player's slot agree in every state: no  *)
(* order of commands, closes and fences leaks a busy slot (every later     *)
(* REMOTE play would be refused) or loses track of a start.                *)
SlotIsTracked ==
  /\ start.active <=> deferred.status # "none"
  /\ start.active =>
       start.request = deferred.request /\ start.station = deferred.url

(* What the service shows as playing was really started, and was never     *)
(* cancelled while it waited or started, even if the cancellation came too *)
(* late to stop the stream.                                                *)
PresentedIsReal == presented \subseteq started \ dropped

(* Every admitted start is resolved and its slot freed.                    *)
StartIsResolved == start.active ~> ~start.active

(* Every audio call of the loop task returns: audioMutex starves nobody.   *)
LoopReturns == loopPc # "idle" ~> loopPc = "idle"

(* audio.cpp: the radio's output and the Bluetooth sink "can't both own    *)
(* the peripheral at once".                                                *)
OneOutputOwner == ~(btEnabled /\ decoder \in {"beginning", "running"})

=============================================================================
