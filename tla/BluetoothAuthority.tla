-------------------------- MODULE BluetoothAuthority --------------------------
(***************************************************************************)
(* What the TUNER knows of the phone: the Bluetooth half of                *)
(* src/src/audio.cpp with bluetooth_playback_authority.h and rtcp_btx.cpp. *)
(* The A2DP library calls back from a task of its own; every callback and  *)
(* every snapshot is one critical section.  The loop switches the sink,    *)
(* presses keys at the phone and serves a REMOTE, whose commands carry the *)
(* generation and the playback it was last told.                           *)
(*                                                                         *)
(* External: the library.  It moves its own connection first and calls     *)
(* back afterwards, one event at a time; a stopped sink calls no more.     *)
(* Abstracted: a text is the phone it came from, and title and artist,     *)
(* which are handled alike, are one field; previous is next; the 64-bit    *)
(* counters end at Limit and stay zero from there, as advance() does.      *)
(***************************************************************************)
EXTENDS Naturals

CONSTANTS
  Phones,
  NoPhone,
  Limit      \* UINT64_MAX of the source generation and the revision

ASSUME BluetoothConstants == NoPhone \notin Phones /\ Limit \in Nat \ {0}

VARIABLES
  lifecycle,  \* bluetoothLifecycle; btEnabled is "active"
  source,     \* bluetoothRtcpState
  connection,
  generation,
  revision,
  playback,
  authority,  \* BluetoothPlaybackAuthority
  text,       \* bluetoothTitle or bluetoothArtist
  paused,     \* bluetoothPlaybackPaused
  state,      \* playbackState
  up,         \* the library runs
  link,       \* the phone it is connected to
  raised,     \* the event it is about to call back with
  pc,         \* where the loop is
  job,        \* the command it is sending
  mailbox,    \* btx_mailbox_
  seen,       \* the state the REMOTE was last told
  peer        \* History: the phone whose connection was reported last.

sinkVars == <<lifecycle, up>>
sourceVars == <<source, connection, generation, revision, text, peer>>
playVars == <<playback, authority, paused, state>>
libraryVars == <<link, raised>>
remoteVars == <<mailbox, seen>>
btVars == <<sinkVars, sourceVars, playVars, libraryVars, remoteVars, pc, job>>

Playbacks == {"unknown", "stopped", "playing", "paused"}
Operations == {"play", "pause", "next"}
None == <<>>

-----------------------------------------------------------------------------
(* BluetoothPlaybackAuthority.                                             *)
Reset == [authoritative |-> FALSE, pending |-> FALSE,
          playback |-> "unknown", a2dp |-> "unknown"]

observeA2dp(a, observed) ==
  [a EXCEPT !.a2dp = observed,
            !.playback = IF ~a.authoritative \/ a.pending THEN observed ELSE @,
            !.pending = @ /\ observed = "playing"]

(* STOPPED is taken for a track change while a navigation is under way and *)
(* the stream runs, and for a pause when the stream was suspended.         *)
observeAvrc(a, observed) ==
  LET known == [a EXCEPT !.authoritative = TRUE]
      conclusive == [known EXCEPT !.pending = FALSE]
  IN  IF observed = "invalid" THEN Reset
      ELSE IF observed # "stopped" THEN [conclusive EXCEPT !.playback = observed]
      ELSE IF a.pending /\ a.a2dp = "playing" THEN [known EXCEPT !.playback = "playing"]
      ELSE [conclusive EXCEPT !.playback = IF a.a2dp = "paused" THEN "paused" ELSE "stopped"]

(* rtcp_btx::advance: zero is the end of the counter, and stays.           *)
advance(n) == IF n = 0 \/ n = Limit THEN 0 ELSE n + 1

StateOf(observed) == IF observed \in {"playing", "paused"} THEN observed ELSE "stopped"

-----------------------------------------------------------------------------
BtInit ==
  /\ lifecycle = "inactive" /\ source = "none" /\ connection = "not_applicable"
  /\ generation = 1 /\ revision = 1 /\ playback = "unknown" /\ authority = Reset
  /\ text = NoPhone /\ paused = FALSE /\ state = "stopped"
  /\ up = FALSE /\ link = NoPhone /\ raised = None
  /\ pc = "idle" /\ job = None /\ mailbox = None /\ seen = None /\ peer = NoPhone

SetSource(to) ==
  IF to = source THEN UNCHANGED <<sourceVars, playback, authority>>
  ELSE /\ source' = to
       /\ connection' = IF to = "bluetooth" THEN "unknown" ELSE "not_applicable"
       /\ generation' = advance(generation) /\ revision' = advance(revision)
       /\ playback' = "unknown" /\ authority' = Reset
       /\ text' = NoPhone /\ peer' = NoPhone

-----------------------------------------------------------------------------
(* The loop switches the sink.                                             *)
EnableBluetooth ==
  /\ pc = "idle" /\ lifecycle = "inactive"
  /\ lifecycle' = "starting" /\ up' = TRUE /\ pc' = "starting"
  /\ SetSource("bluetooth")
  /\ UNCHANGED <<paused, state, libraryVars, remoteVars, job>>

BluetoothStarts ==
  /\ pc = "starting" /\ pc' = "idle" /\ lifecycle' = "active"
  /\ paused' = FALSE /\ state' = "playing"
  /\ UNCHANGED <<sourceVars, playback, authority, up, libraryVars, remoteVars, job>>

(* stopRestartableChecked: a sink it could not clean up may go on calling. *)
SinkStops(cleaned) ==
  /\ up' = ~cleaned
  /\ link' = IF cleaned THEN NoPhone ELSE link
  /\ raised' = IF cleaned THEN None ELSE raised

StartFails(cleaned) ==
  /\ pc = "starting" /\ pc' = "quieting"
  /\ SinkStops(cleaned) /\ SetSource("none") /\ paused' = FALSE
  /\ UNCHANGED <<lifecycle, state, remoteVars, job>>

DisableBluetooth ==
  /\ pc = "idle" /\ lifecycle = "active"
  /\ lifecycle' = "stopping" /\ pc' = "stopping"
  /\ UNCHANGED <<up, sourceVars, playVars, libraryVars, remoteVars, job>>

BluetoothStops(cleaned) ==
  /\ pc = "stopping" /\ pc' = "quieting"
  /\ SinkStops(cleaned) /\ SetSource("none")
  /\ UNCHANGED <<lifecycle, paused, state, remoteVars, job>>

Quiet ==
  /\ pc = "quieting" /\ pc' = "idle" /\ state' = "stopped"
  /\ lifecycle' = IF up THEN "cleanup_failed" ELSE "inactive"
  /\ UNCHANGED <<up, sourceVars, playback, authority, paused, libraryVars, remoteVars, job>>

(* A station starts, also the one a REMOTE deferred before Bluetooth came, *)
(* in the audio task: at any time but in a switch, which has audioMutex.   *)
RadioStarts ==
  /\ pc \notin {"starting", "stopping", "quieting"}
  /\ SetSource("radio") /\ state' = "playing"
  /\ UNCHANGED <<sinkVars, paused, libraryVars, remoteVars, pc, job>>

RadioStops ==
  /\ pc = "idle" /\ SetSource("none") /\ state' = "stopped"
  /\ UNCHANGED <<sinkVars, paused, libraryVars, remoteVars, pc, job>>

-----------------------------------------------------------------------------
(* The library.  A text is of the phone that is connected, or of one that  *)
(* has just left.                                                          *)
Raise(event) ==
  /\ up /\ raised = None /\ raised' = <<event>>
  /\ UNCHANGED <<sinkVars, sourceVars, playVars, remoteVars, pc, job>>

PhoneMoves(phone) ==
  /\ IF phone = NoPhone THEN link # NoPhone ELSE link = NoPhone
  /\ link' = phone
  /\ Raise([kind |-> "connection", phone |-> phone,
            value |-> IF phone = NoPhone THEN "disconnected" ELSE "connected"])

(* CONNECTING and DISCONNECTING.                                           *)
PhoneChanges ==
  /\ link' = NoPhone
  /\ Raise([kind |-> "connection", phone |-> NoPhone, value |-> "unknown"])

StreamMoves(observed) ==
  /\ Raise([kind |-> "a2dp", phone |-> NoPhone, value |-> observed])
  /\ UNCHANGED link

StatusMoves(observed) ==
  /\ Raise([kind |-> "avrc", phone |-> NoPhone, value |-> observed])
  /\ UNCHANGED link

TextComes(phone, valid) ==
  /\ phone = link \/ link = NoPhone
  /\ Raise([kind |-> "metadata", phone |-> phone, value |-> valid])
  /\ UNCHANGED link

-----------------------------------------------------------------------------
(* The callbacks.                                                          *)
CallsBack(kind) ==
  /\ raised # None /\ raised[1].kind = kind /\ raised' = None
  /\ UNCHANGED <<sinkVars, source, link, remoteVars, pc, job>>

Attended == source = "bluetooth" /\ connection = "connected"

ConnectionWithoutEpoch ==   \* Mutant: a new phone keeps the generation.
  /\ CallsBack("connection") /\ UNCHANGED <<paused, state, generation>>
  /\ LET observed == raised[1].value IN
     IF source = "bluetooth" /\ connection # observed
       THEN /\ connection' = observed /\ playback' = "unknown" /\ authority' = Reset
            /\ peer' = raised[1].phone
            /\ IF observed = "unknown" THEN UNCHANGED <<revision, text>>
               ELSE revision' = advance(revision) /\ text' = NoPhone
       ELSE UNCHANGED <<connection, revision, text, peer, playback, authority>>

(* A phone that came or went starts an epoch: the generation the REMOTE    *)
(* knows is over and its texts are gone.                                   *)
bluetoothConnectionCallback ==
  /\ CallsBack("connection") /\ UNCHANGED <<paused, state>>
  /\ LET observed == raised[1].value IN
     IF source = "bluetooth" /\ connection # observed
       THEN /\ connection' = observed /\ playback' = "unknown" /\ authority' = Reset
            /\ peer' = raised[1].phone
            /\ IF observed = "unknown" THEN UNCHANGED <<generation, revision, text>>
               ELSE /\ generation' = advance(generation) /\ revision' = advance(revision)
                    /\ text' = NoPhone
       ELSE UNCHANGED <<connection, generation, revision, text, peer, playback, authority>>

PublishAlways(observed) ==  \* Mutant: callbacks are believed in any mode.
  /\ UNCHANGED <<connection, generation, revision, text, peer>>
  /\ authority' = observed /\ playback' = observed.playback
  /\ paused' = (observed.playback # "playing") /\ state' = StateOf(observed.playback)

Publish(observed) ==
  /\ UNCHANGED <<connection, generation, revision, text, peer>>
  /\ IF Attended
       THEN /\ authority' = observed /\ playback' = observed.playback
            /\ paused' = (observed.playback # "playing")
            /\ state' = StateOf(observed.playback)
       ELSE UNCHANGED playVars

bluetoothAudioCallback ==
  CallsBack("a2dp") /\ Publish(observeA2dp(authority, raised[1].value))

bluetoothPlaybackCallback ==
  CallsBack("avrc") /\ Publish(observeAvrc(authority, raised[1].value))

TextWithoutRevision ==      \* Mutant: clearing an invalid text is no change.
  /\ CallsBack("metadata") /\ UNCHANGED <<connection, generation, peer, playVars>>
  /\ LET told == IF raised[1].value THEN raised[1].phone ELSE NoPhone IN
     IF Attended
       THEN /\ text' = told
            /\ revision' = IF told \in {text, NoPhone} THEN revision ELSE advance(revision)
       ELSE UNCHANGED <<text, revision>>

(* An invalid text clears the field; only a change is a new revision.      *)
setBluetoothMetadata ==
  /\ CallsBack("metadata") /\ UNCHANGED <<connection, generation, peer, playVars>>
  /\ LET told == IF raised[1].value THEN raised[1].phone ELSE NoPhone IN
     IF Attended
       THEN /\ text' = told
            /\ revision' = IF told = text THEN revision ELSE advance(revision)
       ELSE UNCHANGED <<text, revision>>

-----------------------------------------------------------------------------
(* The REMOTE.                                                             *)
Counted == generation # 0 /\ revision # 0

admit(c) ==
  /\ c.generation = generation /\ c.playback = playback /\ Attended
  /\ c.operation = "play" => playback \in {"stopped", "paused"}
  /\ c.operation = "pause" => playback = "playing"

Report ==
  /\ pc = "idle" /\ Counted
  /\ seen' = <<[generation |-> generation, revision |-> revision,
                connected |-> Attended,
                playback |-> IF Attended THEN playback ELSE "unknown",
                text |-> IF Attended THEN text ELSE NoPhone, peer |-> peer]>>
  /\ UNCHANGED <<sinkVars, sourceVars, playVars, libraryVars, mailbox, pc, job>>

CommandOf(operation) ==
  [operation |-> operation, generation |-> seen[1].generation,
   playback |-> seen[1].playback, peer |-> seen[1].peer]

(* The poll that receives a command goes straight on to execute it.        *)
ReceiveCommand(operation) ==
  /\ pc = "idle" /\ seen # None
  /\ Counted /\ admit(CommandOf(operation))
  /\ mailbox' = <<CommandOf(operation)>> /\ pc' = "serving"
  /\ UNCHANGED <<sinkVars, sourceVars, playVars, libraryVars, seen, job>>

Job(operation, by, wanted, got) ==
  [operation |-> operation, by |-> by, wanted |-> wanted, got |-> got]

(* serviceBluetooth: the command is admitted again, for the callbacks that *)
(* came in between.                                                        *)
executeBluetoothRtcp ==
  /\ pc = "serving" /\ mailbox' = None
  /\ LET c == mailbox[1] IN
     IF Counted /\ admit(c)
       THEN pc' = "sending" /\ job' = <<Job(c.operation, "remote", c.peer, peer)>>
       ELSE pc' = "idle" /\ UNCHANGED job
  /\ UNCHANGED <<sinkVars, sourceVars, playVars, libraryVars, seen>>

Press(operation) ==
  /\ pc = "idle" /\ lifecycle = "active" /\ pc' = "sending"
  /\ operation # "next" => operation = (IF paused THEN "play" ELSE "pause")
  /\ job' = <<Job(operation, "key", NoPhone, NoPhone)>>
  /\ UNCHANGED <<sinkVars, sourceVars, playVars, libraryVars, remoteVars>>

-----------------------------------------------------------------------------
(* Sending.  A REMOTE's command looks at the connection once more, without *)
(* the lock; the library takes a command only for a connected phone.       *)
MaySend == job[1].by = "key" \/ (lifecycle = "active" /\ link # NoPhone)

Done == pc' = "idle" /\ job' = None

GiveUp ==
  /\ pc = "sending" /\ ~MaySend /\ Done
  /\ UNCHANGED <<sinkVars, sourceVars, playVars, libraryVars, remoteVars>>

SendPlayPause(submitted) ==
  /\ pc = "sending" /\ MaySend /\ job[1].operation # "next"
  /\ submitted => link # NoPhone
  /\ IF submitted THEN pc' = "noting" /\ UNCHANGED job ELSE Done
  /\ UNCHANGED <<sinkVars, sourceVars, playVars, libraryVars, remoteVars>>

(* After the command was submitted, and after callbacks it may have caused.*)
NotePause ==
  /\ pc = "noting" /\ Done /\ paused' = (job[1].operation = "pause")
  /\ UNCHANGED <<sinkVars, sourceVars, playback, authority, state, libraryVars, remoteVars>>

BeginNavigation ==
  /\ pc = "sending" /\ MaySend /\ job[1].operation = "next"
  /\ authority' = [authority EXCEPT !.pending = TRUE] /\ pc' = "navigating"
  /\ UNCHANGED <<sinkVars, sourceVars, playback, paused, state, libraryVars, remoteVars, job>>

SendNavigation(submitted) ==
  /\ pc = "navigating" /\ (submitted => link # NoPhone) /\ Done
  /\ authority' = [authority EXCEPT !.pending = @ /\ submitted]
  /\ UNCHANGED <<sinkVars, sourceVars, playback, paused, state, libraryVars, remoteVars>>

-----------------------------------------------------------------------------
Switches ==
  \/ EnableBluetooth \/ BluetoothStarts \/ DisableBluetooth \/ Quiet
  \/ \E cleaned \in BOOLEAN : StartFails(cleaned) \/ BluetoothStops(cleaned)
  \/ RadioStarts \/ RadioStops

Library ==
  \/ \E phone \in Phones \union {NoPhone} : PhoneMoves(phone)
  \/ PhoneChanges
  \/ \E observed \in Playbacks : StreamMoves(observed)
  \/ \E observed \in (Playbacks \ {"unknown"}) \union {"invalid"} : StatusMoves(observed)
  \/ \E phone \in Phones, valid \in BOOLEAN : TextComes(phone, valid)
  \/ bluetoothConnectionCallback \/ bluetoothAudioCallback
  \/ bluetoothPlaybackCallback \/ setBluetoothMetadata

Commands ==
  \/ Report \/ executeBluetoothRtcp
  \/ \E operation \in Operations : ReceiveCommand(operation) \/ Press(operation)
  \/ GiveUp \/ NotePause \/ BeginNavigation
  \/ \E submitted \in BOOLEAN : SendPlayPause(submitted) \/ SendNavigation(submitted)

BtNext == Switches \/ Library \/ Commands

BtSpec == BtInit /\ [][BtNext]_btVars

-----------------------------------------------------------------------------
(* Types, and what the state response insists on: not_applicable goes with *)
(* every source but Bluetooth, and nothing is known of a phone that is not *)
(* connected (stateResponse would answer nothing).                         *)
BtTypeOK ==
  /\ lifecycle \in {"inactive", "starting", "active", "stopping", "cleanup_failed"}
  /\ source \in {"none", "radio", "bluetooth"}
  /\ connection \in {"not_applicable", "unknown", "disconnected", "connected"}
  /\ (connection = "not_applicable") = (source # "bluetooth")
  /\ ~Attended => playback = "unknown" /\ peer = NoPhone
  /\ generation \in 0..Limit /\ revision \in 0..Limit
  /\ playback \in Playbacks /\ authority.playback \in Playbacks
  /\ state \in {"stopped", "playing", "paused"} /\ paused \in BOOLEAN
  /\ text \in Phones \union {NoPhone} /\ link \in Phones \union {NoPhone}

(* A REMOTE's command that is admitted goes to the phone whose state its   *)
(* sender was shown, however many phones came and went in between          *)
(* (the generation fence of rtcp_btx.cpp, admit).                          *)
ActsOnSeenPhone == job # None /\ job[1].by = "remote" => job[1].wanted = job[1].got

(* The texts told are of the phone whose connection is told, and a REMOTE  *)
(* that finds the revision it knows has the texts of now.                  *)
MetadataIsCurrent ==
  /\ Attended => text \in {NoPhone, peer}
  /\ seen # None /\ seen[1].connected /\ Attended /\ seen[1].revision = revision
       => seen[1].text = text

(* With the sink off and the loop at rest no callback has left the player  *)
(* playing: what comes late is refused before the player is stopped.       *)
QuietWhenOff == pc = "idle" /\ source = "none" => state = "stopped"

=============================================================================
