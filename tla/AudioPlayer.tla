----------------------------- MODULE AudioPlayer -----------------------------
(***************************************************************************)
(* The audio player of src/src/audio.cpp: one persistent audio task and    *)
(* the Arduino loop task share a decoder chain under audioMutex and a      *)
(* one-slot mailbox (deferredPlay_) under a short critical section;        *)
(* Bluetooth stack callbacks write the playback state under neither.       *)
(*                                                                         *)
(* The two tasks are pinned to the same core and the audio task has the    *)
(* higher priority except while it opens a stream, so a step below is a    *)
(* stretch of code in which its task can neither block nor be preempted    *)
(* by a step that could tell the difference.                               *)
(*                                                                         *)
(* Abstracted: codecs, volume levels, buffers, metadata text, diagnostics. *)
(* A network open and a decoder start may succeed or fail at will.         *)
(***************************************************************************)
EXTENDS Naturals

CONSTANTS
  Requests,      \* request identifiers a REMOTE may use, all different from 0
  Urls,          \* stream addresses
  NoUrl,         \* the empty currentURL
  NoRequest,     \* request 0: a physical start, or an empty slot
  MaxAdmissions  \* bound on the number of deferred starts ever admitted

ASSUME ConstantsAssumption ==
  /\ NoUrl \notin Urls
  /\ NoRequest \notin Requests
  /\ MaxAdmissions \in Nat

VARIABLES
  deferred,      \* deferredPlay_; "ticket" numbers its admission (history)
  audioMutex,    \* "free", or the task that holds it
  taskPc,        \* where the audio task is
  work,          \* the audio task's copy of the slot it claimed
  played,        \* what playDeferredNow returned to the audio task
  loopPc,        \* where the loop task is inside an AudioPlayer call
  loopUrl,       \* the URL of the loop task's play()
  loopResult,    \* what the loop task's last call returned
  decoder,       \* mp3Decoder: "none" (null), "beginning" (constructed, its
                 \* begin() has not returned), "running" or "ended"
  currentURL, currentSource, playbackState,
  muted,         \* the radio output's gain is held at 0
  btEnabled, lifecycle,
  btxSource,     \* bluetoothRtcpState.source
  btxConnected,  \* bluetoothRtcpState.connection = connected
  admissions,    \* history: number of admissions so far
  started,       \* history: tickets whose stream was started
  withdrawn,     \* history: tickets cancelled before their start was committed
  takeover       \* history: admissions made before the loop last took the chain

slotVars == <<deferred, admissions, withdrawn>>
taskVars == <<taskPc, work, played>>
loopVars == <<loopPc, loopUrl, loopResult>>
chainVars == <<decoder, currentURL, currentSource, playbackState, muted>>
btVars == <<btEnabled, lifecycle, btxSource, btxConnected>>
historyVars == <<started, takeover>>
vars == <<slotVars, audioMutex, taskVars, loopVars, chainVars, btVars,
          historyVars>>

-----------------------------------------------------------------------------
Statuses == {"none", "queued", "running", "succeeded", "failed", "cancelled"}
Live == {"queued", "running"}
Tickets == 0..MaxAdmissions  \* 0: no admission

EmptySlot == [request |-> NoRequest, status |-> "none", url |-> NoUrl,
              ticket |-> 0]

Slots == [request: Requests \union {NoRequest}, status: Statuses,
          url: Urls \union {NoUrl}, ticket: Tickets]

Init ==
  /\ deferred = EmptySlot
  /\ audioMutex = "free"
  /\ taskPc = "scan" /\ work = EmptySlot /\ played = FALSE
  /\ loopPc = "idle" /\ loopUrl = NoUrl /\ loopResult = FALSE
  /\ decoder = "none" /\ currentURL = NoUrl
  /\ currentSource = "none" /\ playbackState = "stopped" /\ muted = FALSE
  /\ btEnabled = FALSE /\ lifecycle = "inactive"
  /\ btxSource = "none" /\ btxConnected = FALSE
  /\ admissions = 0 /\ started = {} /\ withdrawn = {} /\ takeover = 0

-----------------------------------------------------------------------------
(* The deferred slot.                                                      *)

StatusOf(request) == IF deferred.request = request THEN deferred.status
                                                   ELSE "none"

(* Mutant: a start that ended but was not cleared yet may be overwritten.   *)
DeferReplaces == deferred.status \notin Live

DeferAccepts == deferred.status = "none"

(* A start that passed its last revalidation can no longer be withdrawn.   *)
Committed ==
  \/ taskPc = "begin" /\ work.ticket = deferred.ticket
  \/ deferred.ticket \in started

(* Mutant: only a start that nobody claimed yet is cancelled.               *)
CancelsQueued == deferred.status = "queued"

Cancels == deferred.status \in Live

CancelSlot ==
  /\ deferred' = IF Cancels THEN [deferred EXCEPT !.status = "cancelled"]
                            ELSE deferred
  /\ withdrawn' = IF deferred.status \in Live /\ ~Committed
                    THEN withdrawn \union {deferred.ticket} ELSE withdrawn
  /\ UNCHANGED admissions

DeferPlay(request, url) ==
  /\ loopPc = "idle" /\ DeferAccepts /\ admissions < MaxAdmissions
  /\ admissions' = admissions + 1
  /\ deferred' = [request |-> request, status |-> "queued", url |-> url,
                  ticket |-> admissions']
  /\ UNCHANGED <<withdrawn, audioMutex, taskVars, loopVars, chainVars, btVars,
                 historyVars>>

ClearDeferredPlay(request) ==
  /\ loopPc = "idle"
  /\ deferred.request = request /\ deferred.status \notin Live
  /\ deferred' = EmptySlot
  /\ UNCHANGED <<admissions, withdrawn, audioMutex, taskVars, loopVars,
                 chainVars, btVars, historyVars>>

CancelDeferredPlay ==
  /\ loopPc = "idle" /\ CancelSlot
  /\ UNCHANGED <<audioMutex, taskVars, loopVars, chainVars, btVars,
                 historyVars>>

-----------------------------------------------------------------------------
(* The decoder chain, changed by whoever holds audioMutex.                 *)

(* Mutant: the take may time out, and its result is ignored.               *)
TakeMutexOrNot(owner) == audioMutex' = owner

(* xSemaphoreTake(audioMutex, portMAX_DELAY).                              *)
TakeMutex(owner) == audioMutex = "free" /\ audioMutex' = owner

(* Mutant: the decoder is forgotten.                                       *)
TeardownKeepsDecoder == UNCHANGED decoder /\ currentURL' = NoUrl

Teardown == decoder' = "none" /\ currentURL' = NoUrl

(* setBluetoothRtcpSource: a new source forgets the connection.            *)
SetBtxSource(source) ==
  /\ btxSource' = source
  /\ btxConnected' = (btxSource = source /\ btxConnected)

(* The middle of playDeferredNow: the old chain makes room for the new    *)
(* one, whose ring buffer and decoder are allocated.                       *)
Construct(url) ==
  /\ decoder' = "beginning" /\ currentURL' = url
  /\ UNCHANGED <<currentSource, playbackState, muted, btVars>>

(* The allocations or the decoder's begin() may fail, and then only the    *)
(* chain is torn down.                                                     *)
StartFails ==
  /\ Teardown
  /\ UNCHANGED <<currentSource, playbackState, muted, btVars>>

StartKeepsMuted ==  \* Mutant: the gain of a paused stream is kept.
  /\ decoder' = "running"
  /\ currentSource' = "radio" /\ playbackState' = "playing"
  /\ UNCHANGED <<currentURL, muted, btEnabled, lifecycle>>
  /\ SetBtxSource("radio")

(* begin() returned: only now does the player leave its old source.        *)
StartSucceeds ==
  /\ decoder' = "running"
  /\ currentSource' = "radio" /\ playbackState' = "playing"
  /\ muted' = FALSE
  /\ SetBtxSource("radio")
  /\ UNCHANGED <<currentURL, btEnabled, lifecycle>>

-----------------------------------------------------------------------------
(* The audio task.                                                         *)

Claim ==
  /\ taskPc = "scan" /\ deferred.status = "queued"
  /\ deferred' = [deferred EXCEPT !.status = "running"]
  /\ work' = deferred' /\ taskPc' = "open"
  /\ UNCHANGED <<admissions, withdrawn, audioMutex, played, loopVars,
                 chainVars, btVars, historyVars>>

(* The network open happens outside audioMutex.                            *)
TaskOpen ==
  /\ taskPc = "open"
  /\ \/ taskPc' = "opened" /\ UNCHANGED played
     \/ taskPc' = "report" /\ played' = FALSE
  /\ UNCHANGED <<slotVars, audioMutex, work, loopVars, chainVars, btVars,
                 historyVars>>

(* Mutant: a cancelled request still counts as long as it keeps the slot.  *)
KeepsSlot == StatusOf(work.request) # "none"

StillRunning == StatusOf(work.request) = "running"

(* The first revalidation, before audioMutex is asked for.                 *)
TaskCheck ==
  /\ taskPc = "opened"
  /\ IF StillRunning
       THEN taskPc' = "locking" /\ UNCHANGED played
       ELSE taskPc' = "report" /\ played' = FALSE
  /\ UNCHANGED <<slotVars, audioMutex, work, loopVars, chainVars, btVars,
                 historyVars>>

(* The second revalidation, under audioMutex: the request still runs and   *)
(* the old chain is torn down, or the opened source is dropped.  A failed  *)
(* allocation gives the mutex back before anybody could ask for it.        *)
TaskRecheck ==
  /\ taskPc = "locking"
  /\ \/ /\ StillRunning /\ TakeMutex("task")
        /\ Construct(work.url) /\ taskPc' = "begin" /\ UNCHANGED played
     \/ /\ StillRunning /\ audioMutex = "free" /\ StartFails
        /\ taskPc' = "report" /\ played' = FALSE /\ UNCHANGED audioMutex
     \/ /\ ~StillRunning /\ audioMutex = "free"
        /\ taskPc' = "report" /\ played' = FALSE
        /\ UNCHANGED <<audioMutex, chainVars, btVars>>
  /\ UNCHANGED <<slotVars, work, loopVars, historyVars>>

TaskBeginKeepsMutex ==  \* Mutant: the failure returns with audioMutex held.
  /\ taskPc = "begin"
  /\ \/ /\ StartSucceeds /\ played' = TRUE /\ audioMutex' = "free"
        /\ started' = started \union {work.ticket}
     \/ StartFails /\ played' = FALSE /\ UNCHANGED <<started, audioMutex>>
  /\ taskPc' = "report"
  /\ UNCHANGED <<slotVars, work, loopVars, takeover>>

(* begin() reads the stream and drives the output before it returns.       *)
TaskBegin ==
  /\ taskPc = "begin"
  /\ \/ /\ StartSucceeds /\ played' = TRUE
        /\ started' = started \union {work.ticket}
     \/ StartFails /\ played' = FALSE /\ UNCHANGED started
  /\ audioMutex' = "free" /\ taskPc' = "report"
  /\ UNCHANGED <<slotVars, work, loopVars, takeover>>

(* Mutants: the outcome goes to whatever now has the request identifier;   *)
(* or a start that was not played is not reported.                         *)
ReportByRequest == deferred.request = work.request
ReportPlayedOnly == StatusOf(work.request) = "running" /\ played

ReportApplies == StatusOf(work.request) = "running"

Report ==
  /\ taskPc = "report"
  /\ deferred' =
       IF ReportApplies
         THEN [deferred EXCEPT !.status = IF played THEN "succeeded"
                                                    ELSE "failed"]
         ELSE deferred
  /\ taskPc' = "scan" /\ work' = EmptySlot /\ played' = FALSE
  /\ UNCHANGED <<admissions, withdrawn, audioMutex, loopVars, chainVars,
                 btVars, historyVars>>

IsDecoding ==
  currentSource = "radio" /\ playbackState = "playing" /\ decoder = "running"

(* With nothing queued, the task takes audioMutex and calls the decoder if *)
(* there is something to decode; otherwise the lock and the unlock leave   *)
(* no trace.                                                               *)
DecodeBegin ==
  /\ taskPc = "scan" /\ deferred.status # "queued" /\ IsDecoding
  /\ TakeMutex("task") /\ taskPc' = "decoding"
  /\ UNCHANGED <<slotVars, work, played, loopVars, chainVars, btVars,
                 historyVars>>

(* mp3Decoder->loop() goes on, or ends the stream.                         *)
DecodeEnd ==
  /\ taskPc = "decoding"
  /\ \/ UNCHANGED <<decoder, playbackState>>
     \/ decoder' = "ended" /\ playbackState' = "stopped"
  /\ audioMutex' = "free" /\ taskPc' = "scan"
  /\ UNCHANGED <<slotVars, work, played, loopVars, currentURL, currentSource,
                 muted, btVars, historyVars>>

AudioTask ==
  \/ Claim \/ TaskOpen \/ TaskCheck \/ TaskRecheck \/ TaskBegin \/ Report
  \/ DecodeBegin \/ DecodeEnd

-----------------------------------------------------------------------------
(* Calls of the loop task.  Each starts when the previous one returned.    *)

Return(result) == loopPc' = "idle" /\ loopResult' = result /\ loopUrl' = NoUrl

PlayCall(url) ==
  /\ loopPc = "idle" /\ CancelSlot
  /\ loopPc' = "playOpen" /\ loopUrl' = url
  /\ UNCHANGED <<loopResult, audioMutex, taskVars, chainVars, btVars,
                 historyVars>>

PlayOpen ==
  /\ loopPc = "playOpen"
  /\ \/ loopPc' = "playLock" /\ UNCHANGED <<loopUrl, loopResult>>
     \/ Return(FALSE)
  /\ UNCHANGED <<slotVars, audioMutex, taskVars, chainVars, btVars,
                 historyVars>>

PlayCommit ==
  /\ loopPc = "playLock"
  /\ \/ /\ TakeMutex("loop") /\ Construct(loopUrl) /\ loopPc' = "playBegin"
        /\ UNCHANGED <<loopUrl, loopResult, takeover>>
     \/ /\ audioMutex = "free" /\ StartFails /\ Return(FALSE)
        /\ takeover' = admissions /\ UNCHANGED audioMutex
  /\ UNCHANGED <<slotVars, taskVars, started>>

PlayBegin ==
  /\ loopPc = "playBegin"
  /\ \/ StartSucceeds /\ Return(TRUE)
     \/ StartFails /\ Return(FALSE)
  /\ audioMutex' = "free" /\ takeover' = admissions
  /\ UNCHANGED <<slotVars, taskVars, started>>

StopCall ==
  /\ loopPc = "idle" /\ CancelSlot /\ loopPc' = "stopLock"
  /\ UNCHANGED <<loopUrl, loopResult, audioMutex, taskVars, chainVars, btVars,
                 historyVars>>

StopBegin ==
  /\ loopPc = "stopLock" /\ TakeMutex("loop") /\ loopPc' = "stopFinish"
  /\ playbackState' = "stopped" /\ Teardown
  /\ UNCHANGED <<slotVars, taskVars, loopUrl, loopResult, currentSource,
                 muted, btVars, historyVars>>

StopFinish ==
  /\ loopPc = "stopFinish"
  /\ currentSource' = "none" /\ SetBtxSource("none")
  /\ audioMutex' = "free" /\ Return(TRUE) /\ takeover' = admissions
  /\ UNCHANGED <<slotVars, taskVars, decoder, currentURL, playbackState,
                 muted, btEnabled, lifecycle, started>>

EnableBluetooth ==
  /\ loopPc = "idle" /\ CancelSlot
  /\ CASE btEnabled /\ lifecycle = "active" -> Return(TRUE)
       [] lifecycle = "cleanup_failed" -> Return(FALSE)
       [] OTHER -> loopPc' = "enableLock" /\ UNCHANGED <<loopUrl, loopResult>>
  /\ UNCHANGED <<audioMutex, taskVars, chainVars, btVars, historyVars>>

EnableBegin ==
  /\ loopPc = "enableLock" /\ TakeMutex("loop") /\ loopPc' = "enableStart"
  /\ lifecycle' = "starting" /\ Teardown /\ SetBtxSource("bluetooth")
  /\ UNCHANGED <<slotVars, taskVars, loopUrl, loopResult, currentSource,
                 playbackState, muted, btEnabled, historyVars>>

(* The state both Bluetooth exits leave: an incomplete cleanup is final.   *)
BluetoothOff(cleaned) ==
  /\ btEnabled' = FALSE
  /\ lifecycle' = IF cleaned THEN "inactive" ELSE "cleanup_failed"
  /\ currentSource' = "none" /\ playbackState' = "stopped"
  /\ SetBtxSource("none")
  /\ UNCHANGED <<decoder, currentURL, muted>>

BluetoothOn ==
  /\ btEnabled' = TRUE /\ lifecycle' = "active"
  /\ currentSource' = "bluetooth" /\ playbackState' = "playing"
  /\ UNCHANGED <<decoder, currentURL, muted, btxSource, btxConnected>>

EnableEnd ==
  /\ loopPc = "enableStart"
  /\ \/ BluetoothOn /\ Return(TRUE)
     \/ \E cleaned \in BOOLEAN : BluetoothOff(cleaned) /\ Return(FALSE)
  /\ audioMutex' = "free" /\ takeover' = admissions
  /\ UNCHANGED <<slotVars, taskVars, started>>

DisableBluetooth ==
  /\ loopPc = "idle" /\ CancelSlot
  /\ CASE ~btEnabled /\ lifecycle = "inactive" -> Return(TRUE)
       [] lifecycle = "cleanup_failed" -> Return(FALSE)
       [] OTHER -> loopPc' = "disableLock" /\ UNCHANGED <<loopUrl, loopResult>>
  /\ UNCHANGED <<audioMutex, taskVars, chainVars, btVars, historyVars>>

DisableBegin ==
  /\ loopPc = "disableLock" /\ TakeMutex("loop") /\ loopPc' = "disableStop"
  /\ lifecycle' = "stopping"
  /\ UNCHANGED <<slotVars, taskVars, loopUrl, loopResult, chainVars,
                 btEnabled, btxSource, btxConnected, historyVars>>

DisableEnd ==
  /\ loopPc = "disableStop"
  /\ \E cleaned \in BOOLEAN : BluetoothOff(cleaned) /\ Return(cleaned)
  /\ audioMutex' = "free" /\ takeover' = admissions
  /\ UNCHANGED <<slotVars, taskVars, started>>

(* pause() and resume() test and then write the state without a lock.      *)
PauseCheck ==
  /\ loopPc = "idle" /\ playbackState = "playing"
  /\ muted' = TRUE /\ loopPc' = "pauseWrite"
  /\ UNCHANGED <<slotVars, audioMutex, taskVars, loopUrl, loopResult, decoder,
                 currentURL, currentSource, playbackState, btVars,
                 historyVars>>

PauseWrite ==
  /\ loopPc = "pauseWrite" /\ loopPc' = "idle" /\ playbackState' = "paused"
  /\ UNCHANGED <<slotVars, audioMutex, taskVars, loopUrl, loopResult, decoder,
                 currentURL, currentSource, muted, btVars, historyVars>>

ResumeCheck ==
  /\ loopPc = "idle" /\ playbackState = "paused"
  /\ muted' = FALSE /\ loopPc' = "resumeWrite"
  /\ UNCHANGED <<slotVars, audioMutex, taskVars, loopUrl, loopResult, decoder,
                 currentURL, currentSource, playbackState, btVars,
                 historyVars>>

ResumeWrite ==
  /\ loopPc = "resumeWrite" /\ loopPc' = "idle" /\ playbackState' = "playing"
  /\ UNCHANGED <<slotVars, audioMutex, taskVars, loopUrl, loopResult, decoder,
                 currentURL, currentSource, muted, btVars, historyVars>>

(* setVolume restores the radio gain unless the radio is paused.           *)
SetVolume ==
  /\ loopPc = "idle"
  /\ currentSource # "bluetooth" /\ playbackState # "paused"
  /\ muted' = FALSE
  /\ UNCHANGED <<slotVars, audioMutex, taskVars, loopVars, decoder,
                 currentURL, currentSource, playbackState, btVars,
                 historyVars>>

LoopCall ==
  \/ \E r \in Requests, u \in Urls : DeferPlay(r, u)
  \/ \E r \in Requests : ClearDeferredPlay(r)
  \/ CancelDeferredPlay
  \/ \E u \in Urls : PlayCall(u)
  \/ StopCall \/ EnableBluetooth \/ DisableBluetooth
  \/ PauseCheck \/ ResumeCheck \/ SetVolume

LoopStep ==
  \/ PlayOpen \/ PlayCommit \/ PlayBegin \/ StopBegin \/ StopFinish
  \/ EnableBegin \/ EnableEnd \/ DisableBegin \/ DisableEnd
  \/ PauseWrite \/ ResumeWrite

-----------------------------------------------------------------------------
(* Callbacks of the Bluetooth stack, on its own task.  The playback state  *)
(* they report is that of the authority in bluetooth_playback_authority.h. *)

BluetoothConnection ==
  /\ btxSource = "bluetooth" /\ btxConnected' \in BOOLEAN
  /\ UNCHANGED <<slotVars, audioMutex, taskVars, loopVars, chainVars,
                 btEnabled, lifecycle, btxSource, historyVars>>

BluetoothPlayback ==
  /\ btxSource = "bluetooth" /\ btxConnected
  /\ playbackState' \in {"playing", "paused", "stopped"}
  /\ UNCHANGED <<slotVars, audioMutex, taskVars, loopVars, decoder,
                 currentURL, currentSource, muted, btVars, historyVars>>

BluetoothStack == BluetoothConnection \/ BluetoothPlayback

-----------------------------------------------------------------------------
Next == AudioTask \/ LoopCall \/ LoopStep \/ BluetoothStack

Spec == Init /\ [][Next]_vars

-----------------------------------------------------------------------------
TaskPcs == {"scan", "open", "opened", "locking", "begin", "report", "decoding"}
LoopPcs == {"idle", "playOpen", "playLock", "playBegin", "stopLock",
            "stopFinish", "enableLock", "enableStart", "disableLock", "disableStop",
            "pauseWrite", "resumeWrite"}

FlagsOK ==
  /\ played \in BOOLEAN /\ loopResult \in BOOLEAN /\ muted \in BOOLEAN
  /\ btEnabled \in BOOLEAN /\ btxConnected \in BOOLEAN

(* Every variable has its type.                                            *)
TypeOK ==
  /\ FlagsOK
  /\ deferred \in Slots /\ work \in Slots
  /\ audioMutex \in {"free", "task", "loop"}
  /\ taskPc \in TaskPcs
  /\ loopPc \in LoopPcs /\ loopUrl \in Urls \union {NoUrl}
  /\ decoder \in {"none", "beginning", "running", "ended"}
  /\ currentURL \in Urls \union {NoUrl}
  /\ currentSource \in {"none", "radio", "bluetooth"}
  /\ playbackState \in {"stopped", "playing", "paused"}
  /\ lifecycle \in {"inactive", "starting", "active", "stopping",
                    "cleanup_failed"}
  /\ btxSource \in {"none", "radio", "bluetooth"}
  /\ admissions \in Tickets /\ takeover \in Tickets
  /\ started \subseteq Tickets /\ withdrawn \subseteq Tickets

(* No use after free: while the audio task is inside mp3Decoder->loop() or *)
(* begin(), it alone holds audioMutex, no loop call is inside its own      *)
(* critical section, and the decoder it drives is alive.  A constructed    *)
(* decoder is seen only by the task whose begin() is running it.           *)
DecoderLifetime ==
  /\ (audioMutex = "task") <=> (taskPc \in {"begin", "decoding"})
  /\ (audioMutex = "loop") <=>
       (loopPc \in {"playBegin", "stopFinish", "enableStart", "disableStop"})
  /\ taskPc = "decoding" => decoder = "running"
  /\ decoder = "beginning" <=> (taskPc = "begin" \/ loopPc = "playBegin")

(* The status a REMOTE's start ends with tells the truth: "succeeded" only *)
(* if the stream admitted under that very ticket was started, "failed"     *)
(* only if it was not, whatever was cancelled, cleared and admitted again  *)
(* under the same request identifier meanwhile.                            *)
OutcomeIsTrue ==
  /\ deferred.status = "succeeded" => deferred.ticket \in started
  /\ deferred.status = "failed" => deferred.ticket \notin started

(* A start withdrawn before the audio task revalidated it under audioMutex *)
(* is never played, even when the audio task is already opening it.        *)
WithdrawnNeverStarts == withdrawn \intersect started = {}

(* Once the loop task has taken the chain - a physical play, a stop or a   *)
(* change of source returned - no start admitted before that is played.    *)
TakeoverIsFinal ==
  [][\A t \in started' \ started : t > takeover']_vars

(* A start of the audio task that was admitted after the loop last took    *)
(* the chain, or a physical play, has its decoder's begin() running.       *)
NewerStart ==
  \/ taskPc = "begin" /\ work.ticket > takeover
  \/ loopPc = "playBegin"

(* While Bluetooth is the source its sink is up and no decoder is left of  *)
(* what played or was starting when it took over.  The one decoder there   *)
(* can be belongs to a start newer than that, whose begin() has not        *)
(* returned: if it succeeds the source changes with it, else it is gone.   *)
NoStreamSurvivesBluetooth ==
  currentSource = "bluetooth" =>
    /\ btEnabled /\ lifecycle \in {"active", "stopping"}
    /\ decoder # "none" => (decoder = "beginning" /\ NewerStart)

(* A station that plays is heard: no order of pauses, volume changes, new  *)
(* stations and source changes leaves the gain of a playing stream at 0.   *)
PlayingIsAudible ==
  (/\ currentSource = "radio" /\ decoder = "running"
   /\ playbackState = "playing" /\ loopPc # "pauseWrite") => ~muted

(* The audio task implements the mailbox's promise.                        *)
Mailbox == INSTANCE DeferredSlot WITH
  Bound <- MaxAdmissions, status <- deferred.status, ticket <- deferred.ticket,
  holder <- IF taskPc \in {"scan", "decoding"} THEN 0 ELSE work.ticket,
  granted <- taskPc = "begin", begun <- started
MailboxSpec == Mailbox!SlotSpec
=============================================================================
