----------------------- MODULE BluetoothAuthorityProofs -----------------------
(***************************************************************************)
(* Theorems of BluetoothAuthority, for every set of phones and every limit *)
(* of the counters: no order of callbacks, switches and commands lets a    *)
(* REMOTE act on a phone it has not been shown.                            *)
(***************************************************************************)
EXTENDS BluetoothAuthority, Integers, TLAPS

USE DEF sinkVars, sourceVars, playVars, libraryVars, remoteVars, btVars

-----------------------------------------------------------------------------
(* Types.                                                                  *)
Authorities ==
  [authoritative: BOOLEAN, pending: BOOLEAN, playback: Playbacks, a2dp: Playbacks]

(* What the library may call back with.                                    *)
EventOK(event) ==
  /\ event.kind \in {"connection", "a2dp", "avrc", "metadata"}
  /\ event.kind = "connection" =>
       /\ event.value \in {"connected", "disconnected", "unknown"}
       /\ event.phone \in Phones \union {NoPhone}
       /\ event.value = "connected" <=> event.phone # NoPhone
  /\ event.kind = "a2dp" => event.value \in Playbacks
  /\ event.kind = "avrc" => event.value \in Playbacks \union {"invalid"}
  /\ event.kind = "metadata" => event.phone \in Phones

TypeInv ==
  /\ BtTypeOK /\ authority \in Authorities
  /\ raised # None => EventOK(raised[1])

LEMMA ObserveType ==
  ASSUME NEW a \in Authorities, NEW observed \in Playbacks
  PROVE  observeA2dp(a, observed) \in Authorities /\ observeAvrc(a, observed) \in Authorities
  BY DEF Authorities, observeA2dp, observeAvrc, Playbacks, Reset

LEMMA ResetType ==
  /\ Reset \in Authorities /\ Reset.playback \in Playbacks
  /\ observeAvrc(authority, "invalid") = Reset
  BY DEF Authorities, Reset, Playbacks, observeAvrc

LEMMA AdvanceBounds ==
  ASSUME NEW n \in 0..Limit
  PROVE  advance(n) \in 0..Limit /\ (advance(n) = 0 \/ advance(n) = n + 1)
  BY BluetoothConstants DEF advance

(* A change of the source forgets the phone and begins a generation.       *)
LEMMA SourceChange ==
  ASSUME TypeInv, NEW to \in {"none", "radio", "bluetooth"}, SetSource(to)
  PROVE  /\ source' = to
         /\ \/ to = source /\ UNCHANGED <<sourceVars, playback, authority>>
            \/ /\ to # source
               /\ connection' = IF to = "bluetooth" THEN "unknown" ELSE "not_applicable"
               /\ generation' = advance(generation) /\ revision' = advance(revision)
               /\ playback' = "unknown" /\ authority' = Reset
               /\ text' = NoPhone /\ peer' = NoPhone /\ ~Attended'
  BY DEF SetSource, Attended

(* What the REMOTE and the keys do leaves the source and the library.      *)
LEMMA CommandsFrame ==
  ASSUME Commands
  PROVE  UNCHANGED <<sinkVars, sourceVars, libraryVars, playback, state>>
  BY DEF Commands, Report, ReceiveCommand, executeBluetoothRtcp, Press, GiveUp,
         SendPlayPause, NotePause, BeginNavigation, SendNavigation

LEMMA SourceType ==
  ASSUME TypeInv, NEW to \in {"none", "radio", "bluetooth"}, SetSource(to)
  PROVE  /\ source' = to /\ authority' \in Authorities
         /\ connection' \in {"not_applicable", "unknown", "disconnected", "connected"}
         /\ (connection' = "not_applicable") = (source' # "bluetooth")
         /\ ~Attended' => playback' = "unknown" /\ peer' = NoPhone
         /\ generation' \in 0..Limit /\ revision' \in 0..Limit
         /\ playback' \in Playbacks /\ text' \in Phones \union {NoPhone}
  <1>1. generation \in 0..Limit /\ revision \in 0..Limit /\ authority \in Authorities
    BY DEF TypeInv, BtTypeOK
  <1>2. CASE to = source /\ UNCHANGED <<sourceVars, playback, authority>>
    BY <1>1, <1>2 DEF TypeInv, BtTypeOK, Attended
  <1>3. CASE ~(to = source /\ UNCHANGED <<sourceVars, playback, authority>>)
    BY <1>1, <1>3, SourceChange, ResetType, AdvanceBounds DEF Playbacks, Attended
  <1> QED BY <1>2, <1>3

LEMMA SwitchesType == TypeInv /\ Switches => TypeInv'
  <1> SUFFICES ASSUME TypeInv, Switches PROVE TypeInv'
    OBVIOUS
  <1> USE DEF TypeInv, BtTypeOK
  <1>1. CASE EnableBluetooth BY <1>1, SourceType DEF EnableBluetooth, Authorities
  <1>2. CASE BluetoothStarts BY <1>2 DEF BluetoothStarts, Attended
  <1>3. CASE DisableBluetooth BY <1>3 DEF DisableBluetooth, Attended
  <1>4. CASE Quiet BY <1>4 DEF Quiet, Attended
  <1>5. ASSUME NEW cleaned \in BOOLEAN, StartFails(cleaned) PROVE TypeInv'
    BY <1>5, SourceType DEF StartFails, SinkStops, Authorities
  <1>6. ASSUME NEW cleaned \in BOOLEAN, BluetoothStops(cleaned) PROVE TypeInv'
    BY <1>6, SourceType DEF BluetoothStops, SinkStops, Authorities
  <1>7. CASE RadioStarts BY <1>7, SourceType DEF RadioStarts, Authorities
  <1>8. CASE RadioStops BY <1>8, SourceType DEF RadioStops, Authorities
  <1> QED BY <1>1, <1>2, <1>3, <1>4, <1>5, <1>6, <1>7, <1>8 DEF Switches

LEMMA RaisedType ==
  ASSUME TypeInv, NEW event, Raise(event), EventOK(event),
         link' \in Phones \union {NoPhone}
  PROVE  TypeInv'
  <1>1. raised' = <<event>> /\ raised'[1] = event BY DEF Raise
  <1>2. BtTypeOK' BY DEF TypeInv, BtTypeOK, Raise, Attended
  <1>3. authority' \in Authorities BY DEF TypeInv, Raise
  <1> QED BY <1>1, <1>2, <1>3 DEF TypeInv, EventOK

LEMMA LibraryType == TypeInv /\ Library => TypeInv'
  <1> SUFFICES ASSUME TypeInv, Library PROVE TypeInv'
    OBVIOUS
  <1>1. ASSUME NEW phone \in Phones \union {NoPhone}, PhoneMoves(phone) PROVE TypeInv'
    BY <1>1, RaisedType DEF PhoneMoves, EventOK
  <1>2. CASE PhoneChanges BY <1>2, RaisedType DEF PhoneChanges, EventOK
  <1>3. ASSUME NEW observed \in Playbacks, StreamMoves(observed) PROVE TypeInv'
    BY <1>3, RaisedType DEF StreamMoves, EventOK, TypeInv, BtTypeOK
  <1>4. ASSUME NEW observed \in (Playbacks \ {"unknown"}) \union {"invalid"},
               StatusMoves(observed)
        PROVE  TypeInv'
    BY <1>4, RaisedType DEF StatusMoves, EventOK, TypeInv, BtTypeOK
  <1>5. ASSUME NEW phone \in Phones, NEW valid \in BOOLEAN, TextComes(phone, valid)
        PROVE  TypeInv'
    BY <1>5, RaisedType DEF TextComes, EventOK, TypeInv, BtTypeOK
  <1> USE DEF CallsBack
  <1>6. CASE bluetoothConnectionCallback
    <2> DEFINE observed == raised[1].value
    <2>1. /\ observed \in {"connected", "disconnected", "unknown"}
          /\ raised[1].phone \in Phones \union {NoPhone}
          /\ observed = "connected" <=> raised[1].phone # NoPhone
      BY <1>6 DEF bluetoothConnectionCallback, TypeInv, EventOK
    <2>2. CASE source = "bluetooth" /\ connection # observed
      <3>1. /\ connection' = observed /\ peer' = raised[1].phone
            /\ playback' = "unknown" /\ authority' = Reset /\ raised' = None
            /\ UNCHANGED <<sinkVars, source, link, paused, state>>
        BY <1>6, <2>2 DEF bluetoothConnectionCallback
      <3>2. /\ generation' \in {generation, advance(generation)}
            /\ revision' \in {revision, advance(revision)}
            /\ text' \in {text, NoPhone}
        BY <1>6, <2>2 DEF bluetoothConnectionCallback
      <3>3. generation' \in 0..Limit /\ revision' \in 0..Limit
        BY <3>2, AdvanceBounds DEF TypeInv, BtTypeOK
      <3>4. ~Attended' => peer' = NoPhone
        BY <2>1, <2>2, <3>1 DEF Attended
      <3> QED
        BY <2>1, <2>2, <3>1, <3>2, <3>3, <3>4, ResetType
        DEF TypeInv, BtTypeOK, Attended, Playbacks
    <2>3. CASE ~(source = "bluetooth" /\ connection # observed)
      BY <1>6, <2>3
      DEF bluetoothConnectionCallback, TypeInv, BtTypeOK, Attended
    <2> QED BY <2>2, <2>3
  <1>7. ASSUME NEW observed \in Authorities, Publish(observed),
               UNCHANGED <<sinkVars, source, link, remoteVars, pc, job>>, raised' = None
        PROVE  TypeInv'
    <2>1. observed.playback \in Playbacks BY DEF Authorities
    <2>2. CASE Attended
      BY <1>7, <2>1, <2>2 DEF Publish, TypeInv, BtTypeOK, Attended, StateOf
    <2>3. CASE ~Attended
      BY <1>7, <2>3 DEF Publish, playVars, TypeInv, BtTypeOK, Attended
    <2> QED BY <2>2, <2>3
  <1>8. CASE bluetoothAudioCallback
    <2>1. raised[1].value \in Playbacks
      BY <1>8 DEF bluetoothAudioCallback, TypeInv, EventOK
    <2>2. observeA2dp(authority, raised[1].value) \in Authorities
      BY <2>1, ObserveType DEF TypeInv
    <2> QED BY <1>7, <1>8, <2>2 DEF bluetoothAudioCallback
  <1>9. CASE bluetoothPlaybackCallback
    <2>1. raised[1].value \in Playbacks \union {"invalid"}
      BY <1>9 DEF bluetoothPlaybackCallback, TypeInv, EventOK
    <2>2. observeAvrc(authority, raised[1].value) \in Authorities
      BY <2>1, ObserveType, ResetType DEF TypeInv
    <2> QED BY <1>7, <1>9, <2>2 DEF bluetoothPlaybackCallback
  <1>10. CASE setBluetoothMetadata
    <2>1. raised[1].phone \in Phones
      BY <1>10 DEF setBluetoothMetadata, TypeInv, EventOK
    <2> QED
      BY <1>10, <2>1, AdvanceBounds
      DEF setBluetoothMetadata, TypeInv, BtTypeOK, Attended
  <1> QED BY <1>1, <1>2, <1>3, <1>4, <1>5, <1>6, <1>8, <1>9, <1>10 DEF Library

LEMMA CommandsType == TypeInv /\ Commands => TypeInv'
  <1> SUFFICES ASSUME TypeInv, Commands PROVE TypeInv'
    OBVIOUS
  <1>1. UNCHANGED <<sinkVars, sourceVars, libraryVars, playback, state>>
    BY CommandsFrame
  <1>2. paused' \in BOOLEAN /\ authority' \in Authorities
    BY DEF Commands, Report, ReceiveCommand, executeBluetoothRtcp, Press, GiveUp,
           SendPlayPause, NotePause, BeginNavigation, SendNavigation,
           TypeInv, BtTypeOK, Authorities
  <1>3. authority'.playback \in Playbacks BY <1>2 DEF Authorities
  <1> QED BY <1>1, <1>2, <1>3 DEF TypeInv, BtTypeOK, Attended

LEMMA TypeStep == TypeInv /\ [BtNext]_btVars => TypeInv'
  <1>1. TypeInv /\ UNCHANGED btVars => TypeInv'
    BY DEF TypeInv, BtTypeOK, Attended
  <1> QED BY <1>1, SwitchesType, LibraryType, CommandsType DEF BtNext

LEMMA TypeBegins == BtInit => TypeInv
  <1>1. 1 \in 0..Limit BY BluetoothConstants
  <1> QED
    BY <1>1, ResetType DEF BtInit, TypeInv, BtTypeOK, Attended, Playbacks

(* Every variable keeps its type, and what a state response insists on     *)
(* holds of every snapshot: nothing is known of a phone that is not        *)
(* connected (rtcp_btx.cpp, stateResponse).                                *)
THEOREM BluetoothTypeCorrect == BtSpec => []BtTypeOK
  <1>1. TypeInv => BtTypeOK BY DEF TypeInv
  <1> QED BY TypeBegins, TypeStep, <1>1, PTL DEF BtSpec

-----------------------------------------------------------------------------
(* The library and the loop agree on the phone.  A sink that is off calls  *)
(* no more; Bluetooth becomes the source only from such a sink; and while  *)
(* it is the source, the phone whose connection was reported is the one    *)
(* the library is connected to, unless a report is still under way.        *)
SinkInv ==
  /\ lifecycle = "inactive" => ~up
  /\ ~up => link = NoPhone /\ raised = None
  /\ source = "bluetooth" => up
  /\ pc = "starting" => source = "bluetooth"
  /\ pc = "stopping" => lifecycle # "inactive"

Reported == raised = None \/ raised[1].kind # "connection"

LinkInv ==
  source = "bluetooth" =>
    /\ Reported => IF connection = "connected" THEN link = peer /\ link # NoPhone
                   ELSE link = NoPhone
    /\ ~Reported => link = raised[1].phone
                    /\ (raised[1].value = "connected" => connection # "connected")
    /\ raised # None /\ raised[1].kind = "metadata" /\ connection = "connected"
         => raised[1].phone = peer

LEMMA SinkStep == TypeInv /\ SinkInv /\ BtNext => SinkInv'
  <1> SUFFICES ASSUME TypeInv, SinkInv, BtNext PROVE SinkInv'
    OBVIOUS
  <1> USE DEF SinkInv
  <1>1. CASE EnableBluetooth BY <1>1, SourceChange DEF EnableBluetooth
  <1>2. CASE BluetoothStarts BY <1>2 DEF BluetoothStarts
  <1>3. CASE DisableBluetooth BY <1>3 DEF DisableBluetooth
  <1>4. CASE Quiet BY <1>4 DEF Quiet
  <1>5. ASSUME NEW cleaned \in BOOLEAN, StartFails(cleaned) PROVE SinkInv'
    BY <1>5, SourceChange DEF StartFails, SinkStops
  <1>6. ASSUME NEW cleaned \in BOOLEAN, BluetoothStops(cleaned) PROVE SinkInv'
    BY <1>6, SourceChange DEF BluetoothStops, SinkStops
  <1>7. CASE RadioStarts BY <1>7, SourceChange DEF RadioStarts
  <1>8. CASE RadioStops BY <1>8, SourceChange DEF RadioStops
  <1>9. CASE Library
    <2>1. UNCHANGED <<lifecycle, up, source, pc>>
      BY <1>9
      DEF Library, PhoneMoves, PhoneChanges, StreamMoves, StatusMoves, TextComes,
          Raise, CallsBack, bluetoothConnectionCallback, bluetoothAudioCallback,
          bluetoothPlaybackCallback, setBluetoothMetadata
    <2>2. up
      BY <1>9
      DEF Library, PhoneMoves, PhoneChanges, StreamMoves, StatusMoves, TextComes,
          Raise, CallsBack, bluetoothConnectionCallback, bluetoothAudioCallback,
          bluetoothPlaybackCallback, setBluetoothMetadata
    <2> QED BY <2>1, <2>2
  <1>10. CASE Commands
    <2>1. pc' \notin {"starting", "stopping"}
      BY <1>10
      DEF Commands, Report, ReceiveCommand, executeBluetoothRtcp, Press, GiveUp, Done,
          SendPlayPause, NotePause, BeginNavigation, SendNavigation
    <2> QED BY <1>10, <2>1, CommandsFrame
  <1> QED
    BY <1>1, <1>2, <1>3, <1>4, <1>5, <1>6, <1>7, <1>8, <1>9, <1>10
    DEF BtNext, Switches

LEMMA LinkStep == TypeInv /\ SinkInv /\ LinkInv /\ BtNext => LinkInv'
  <1> SUFFICES ASSUME TypeInv, SinkInv, LinkInv, BtNext PROVE LinkInv'
    OBVIOUS
  <1> USE DEF LinkInv, Reported
  <1>1. CASE EnableBluetooth
    BY <1>1, SourceChange DEF EnableBluetooth, SinkInv
  <1>2. ASSUME UNCHANGED <<sourceVars, libraryVars>> PROVE LinkInv'
    BY <1>2
  <1>3. ASSUME source' # "bluetooth" PROVE LinkInv'
    BY <1>3
  <1>4. CASE BluetoothStarts BY <1>2, <1>4 DEF BluetoothStarts
  <1>5. CASE DisableBluetooth BY <1>2, <1>5 DEF DisableBluetooth
  <1>6. CASE Quiet BY <1>2, <1>6 DEF Quiet
  <1>7. ASSUME NEW cleaned \in BOOLEAN, StartFails(cleaned) \/ BluetoothStops(cleaned)
        PROVE  LinkInv'
    BY <1>3, <1>7, SourceChange DEF StartFails, BluetoothStops
  <1>8. CASE RadioStarts \/ RadioStops
    BY <1>3, <1>8, SourceChange DEF RadioStarts, RadioStops
  <1>9. CASE Commands BY <1>2, <1>9, CommandsFrame
  <1>10. ASSUME NEW phone \in Phones \union {NoPhone}, PhoneMoves(phone) PROVE LinkInv'
    <2> DEFINE event == [kind |-> "connection", phone |-> phone,
                         value |-> IF phone = NoPhone THEN "disconnected" ELSE "connected"]
    <2>1. /\ raised = None /\ raised' = <<event>> /\ raised'[1] = event
          /\ link' = phone /\ UNCHANGED sourceVars
          /\ phone # NoPhone => link = NoPhone
      BY <1>10 DEF PhoneMoves, Raise
    <2>2. /\ event.kind = "connection" /\ event.phone = phone
          /\ event.value = "connected" => phone # NoPhone
      OBVIOUS
    <2>3. ~Reported' BY <2>1, <2>2 DEF None
    <2>4. source = "bluetooth" /\ phone # NoPhone => connection # "connected" BY <2>1
    <2> HIDE DEF event
    <2> QED BY <2>1, <2>2, <2>3, <2>4
  <1>11. CASE PhoneChanges
    <2> DEFINE event == [kind |-> "connection", phone |-> NoPhone, value |-> "unknown"]
    <2>1. /\ raised' = <<event>> /\ raised'[1] = event
          /\ link' = NoPhone /\ UNCHANGED sourceVars
      BY <1>11 DEF PhoneChanges, Raise
    <2>2. event.kind = "connection" /\ event.phone = NoPhone /\ event.value = "unknown"
      OBVIOUS
    <2>3. ~Reported' BY <2>1, <2>2 DEF None
    <2> HIDE DEF event
    <2> QED BY <2>1, <2>2, <2>3
  <1>12. ASSUME NEW observed, StreamMoves(observed) \/ StatusMoves(observed) PROVE LinkInv'
    BY <1>12 DEF StreamMoves, StatusMoves, Raise
  <1>13. ASSUME NEW phone \in Phones, NEW valid, TextComes(phone, valid) PROVE LinkInv'
    BY <1>13 DEF TextComes, Raise
  <1>14. CASE bluetoothConnectionCallback
    <2>1. raised # None /\ EventOK(raised[1]) /\ raised[1].kind = "connection"
      BY <1>14 DEF bluetoothConnectionCallback, CallsBack, TypeInv
    <2>2. /\ raised[1].value \in {"connected", "disconnected", "unknown"}
          /\ raised[1].value = "connected" <=> raised[1].phone # NoPhone
      BY <2>1 DEF EventOK
    <2>3. /\ raised' = None /\ UNCHANGED <<source, link>>
          /\ IF source = "bluetooth" /\ connection # raised[1].value
               THEN connection' = raised[1].value /\ peer' = raised[1].phone
               ELSE UNCHANGED <<connection, peer>>
      BY <1>14 DEF bluetoothConnectionCallback, CallsBack
    <2> QED BY <2>1, <2>2, <2>3
  <1>15. CASE bluetoothAudioCallback \/ bluetoothPlaybackCallback \/ setBluetoothMetadata
    BY <1>15
    DEF bluetoothAudioCallback, bluetoothPlaybackCallback, setBluetoothMetadata,
        CallsBack, Publish
  <1> QED
    BY <1>1, <1>4, <1>5, <1>6, <1>7, <1>8, <1>9, <1>10, <1>11, <1>12, <1>13, <1>14,
       <1>15 DEF BtNext, Switches, Library

-----------------------------------------------------------------------------
(* Generations and revisions.  What the REMOTE was told, and the command   *)
(* it made of it, is of a generation and a revision that have been; one    *)
(* that is still the present one speaks of the phone, and of the texts, of *)
(* now, because whatever replaces them moves the counter on, or ends it.   *)
Fenced(told) ==
  /\ told.generation \in 1..Limit
  /\ generation = 0 \/ told.generation <= generation
  /\ told.generation = generation /\ Attended => told.peer = peer

Dated(told) ==
  /\ told.revision \in 1..Limit
  /\ revision = 0 \/ told.revision <= revision
  /\ told.revision = revision /\ told.connected /\ Attended => told.text = text

EpochInv ==
  /\ seen # None => Fenced(seen[1])
  /\ mailbox # None => Fenced(mailbox[1])
  /\ pc = "serving" => mailbox # None
  /\ ActsOnSeenPhone

TextInv ==
  /\ Attended => text \in {NoPhone, peer}
  /\ seen # None => Dated(seen[1])

(* The phone and the generation change together.                           *)
LEMMA EpochMoves ==
  ASSUME TypeInv, BtNext
  PROVE  \/ UNCHANGED <<generation, peer, Attended>>
         \/ generation' = generation /\ ~Attended'
         \/ generation' = advance(generation)
  <1>1. CASE Commands BY <1>1, CommandsFrame DEF Attended
  <1>2. CASE Switches
    BY <1>2, SourceChange
    DEF Switches, EnableBluetooth, BluetoothStarts, StartFails, DisableBluetooth,
        BluetoothStops, Quiet, RadioStarts, RadioStops, Attended
  <1>3. ASSUME UNCHANGED <<source, connection, generation, peer>>
        PROVE  UNCHANGED <<generation, peer, Attended>>
    BY <1>3 DEF Attended
  <1>4. CASE Library /\ ~bluetoothConnectionCallback
    BY <1>3, <1>4
    DEF Library, PhoneMoves, PhoneChanges, StreamMoves, StatusMoves, TextComes, Raise,
        CallsBack, bluetoothAudioCallback, bluetoothPlaybackCallback, Publish,
        setBluetoothMetadata
  <1>5. CASE bluetoothConnectionCallback
    BY <1>5 DEF bluetoothConnectionCallback, CallsBack, Attended
  <1> QED BY <1>1, <1>2, <1>4, <1>5 DEF BtNext

LEMMA StillFenced ==
  ASSUME TypeInv, BtNext, NEW told, Fenced(told)
  PROVE  Fenced(told)'
  <1>1. generation \in 0..Limit /\ Limit \in Nat BY BluetoothConstants DEF TypeInv, BtTypeOK
  <1>2. CASE UNCHANGED <<generation, peer, Attended>> BY <1>2 DEF Fenced
  <1>3. CASE generation' = generation /\ ~Attended' BY <1>3 DEF Fenced
  <1>4. CASE generation' = advance(generation)
    <2>1. generation' = 0 \/ (generation # 0 /\ generation' = generation + 1)
      BY <1>1, <1>4 DEF advance
    <2> QED BY <1>1, <2>1 DEF Fenced
  <1> QED BY <1>2, <1>3, <1>4, EpochMoves

(* The texts and the revision change together.                             *)
LEMMA TextMoves ==
  ASSUME TypeInv, BtNext
  PROVE  \/ UNCHANGED <<revision, text, Attended>>
         \/ revision' = revision /\ ~Attended'
         \/ revision' = advance(revision)
  <1>1. CASE Commands BY <1>1, CommandsFrame DEF Attended
  <1>2. CASE Switches
    BY <1>2, SourceChange
    DEF Switches, EnableBluetooth, BluetoothStarts, StartFails, DisableBluetooth,
        BluetoothStops, Quiet, RadioStarts, RadioStops, Attended
  <1>3. ASSUME UNCHANGED <<source, connection, revision, text>>
        PROVE  UNCHANGED <<revision, text, Attended>>
    BY <1>3 DEF Attended
  <1>4. CASE Library /\ ~bluetoothConnectionCallback /\ ~setBluetoothMetadata
    BY <1>3, <1>4
    DEF Library, PhoneMoves, PhoneChanges, StreamMoves, StatusMoves, TextComes, Raise,
        CallsBack, bluetoothAudioCallback, bluetoothPlaybackCallback, Publish
  <1>5. CASE bluetoothConnectionCallback
    BY <1>5 DEF bluetoothConnectionCallback, CallsBack, Attended
  <1>6. CASE setBluetoothMetadata
    BY <1>3, <1>6 DEF setBluetoothMetadata, CallsBack
  <1> QED BY <1>1, <1>2, <1>4, <1>5, <1>6 DEF BtNext

LEMMA StillDated ==
  ASSUME TypeInv, BtNext, NEW told, Dated(told)
  PROVE  Dated(told)'
  <1>1. revision \in 0..Limit /\ Limit \in Nat BY BluetoothConstants DEF TypeInv, BtTypeOK
  <1>2. CASE UNCHANGED <<revision, text, Attended>> BY <1>2 DEF Dated
  <1>3. CASE revision' = revision /\ ~Attended' BY <1>3 DEF Dated
  <1>4. CASE revision' = advance(revision)
    <2>1. revision' = 0 \/ (revision # 0 /\ revision' = revision + 1)
      BY <1>1, <1>4 DEF advance
    <2> QED BY <1>1, <2>1 DEF Dated
  <1> QED BY <1>2, <1>3, <1>4, TextMoves

LEMMA EpochStep == TypeInv /\ EpochInv /\ [BtNext]_btVars => EpochInv'
  <1> SUFFICES ASSUME TypeInv, EpochInv, [BtNext]_btVars PROVE EpochInv'
    OBVIOUS
  <1>1. CASE UNCHANGED btVars
    BY <1>1 DEF EpochInv, Fenced, Attended, ActsOnSeenPhone
  <1>2. ASSUME BtNext,
               seen' = seen \/ (seen' # None /\ Fenced(seen[1])'),
               mailbox' = mailbox \/ mailbox' = None
                 \/ (mailbox' # None /\ Fenced(mailbox[1])'),
               pc' = "serving" => (pc = "serving" /\ mailbox' = mailbox) \/ mailbox' # None,
               job' = job \/ job' = None \/ (job' # None /\ ActsOnSeenPhone')
        PROVE  EpochInv'
    <2>1. \A told : Fenced(told) =>
            /\ told.generation \in 1..Limit
            /\ generation' = 0 \/ told.generation <= generation'
            /\ told.generation = generation' /\ Attended' => told.peer = peer'
      BY <1>2, StillFenced DEF Fenced
    <2>2. (seen # None => Fenced(seen[1]))' BY <1>2, <2>1 DEF EpochInv, Fenced
    <2>3. (mailbox # None => Fenced(mailbox[1]))' BY <1>2, <2>1 DEF EpochInv, Fenced
    <2>4. (pc = "serving" => mailbox # None)' BY <1>2 DEF EpochInv
    <2>5. ActsOnSeenPhone' BY <1>2 DEF EpochInv, ActsOnSeenPhone
    <2> QED BY <2>2, <2>3, <2>4, <2>5 DEF EpochInv
  <1>3. CASE Switches
    <2>1. UNCHANGED <<seen, mailbox, job>> /\ (pc' = "serving" => pc = "serving")
      BY <1>3
      DEF Switches, EnableBluetooth, BluetoothStarts, StartFails, DisableBluetooth,
          BluetoothStops, Quiet, RadioStarts, RadioStops
    <2> QED BY <1>2, <1>3, <2>1 DEF BtNext
  <1>4. CASE Library
    <2>1. UNCHANGED <<seen, mailbox, job, pc>>
      BY <1>4
      DEF Library, PhoneMoves, PhoneChanges, StreamMoves, StatusMoves, TextComes,
          Raise, CallsBack, bluetoothConnectionCallback, bluetoothAudioCallback,
          bluetoothPlaybackCallback, setBluetoothMetadata
    <2> QED BY <1>2, <1>4, <2>1 DEF BtNext
  <1>5. CASE Report
    <2>1. generation \in 1..Limit
      BY <1>5, BluetoothConstants DEF Report, Counted, TypeInv, BtTypeOK
    <2>2. /\ seen' # None
          /\ seen'[1].generation = generation /\ seen'[1].peer = peer
          /\ UNCHANGED <<source, connection, generation, peer, mailbox, job, pc>>
      BY <1>5 DEF Report, None
    <2>3. pc' # "serving" BY <1>5 DEF Report
    <2>4. Fenced(seen[1])' BY <2>1, <2>2 DEF Fenced, Attended
    <2> QED BY <1>2, <1>5, <2>2, <2>3, <2>4 DEF BtNext, Commands
  <1>6. ASSUME NEW operation \in Operations, ReceiveCommand(operation) PROVE EpochInv'
    <2>1. Fenced(seen[1]) BY <1>6 DEF ReceiveCommand, EpochInv
    <2>2. /\ mailbox' # None /\ mailbox'[1] = CommandOf(operation)
          /\ UNCHANGED <<seen, job, sourceVars>>
      BY <1>6 DEF ReceiveCommand, None
    <2>3. /\ mailbox'[1].generation = seen[1].generation
          /\ mailbox'[1].peer = seen[1].peer
      BY <2>2 DEF CommandOf
    <2>4. Fenced(mailbox[1])' BY <2>1, <2>2, <2>3 DEF Fenced, Attended
    <2> QED BY <1>2, <1>6, <2>2, <2>4 DEF BtNext, Commands
  <1>7. CASE executeBluetoothRtcp
    <2>1. Fenced(mailbox[1]) BY <1>7 DEF executeBluetoothRtcp, EpochInv
    <2>2. mailbox' = None /\ seen' = seen /\ pc' # "serving"
      BY <1>7 DEF executeBluetoothRtcp
    <2>3. CASE Counted /\ admit(mailbox[1])
      <3>1. mailbox[1].peer = peer BY <2>1, <2>3 DEF admit, Fenced
      <3>2. job' = <<Job(mailbox[1].operation, "remote", mailbox[1].peer, peer)>>
        BY <1>7, <2>3 DEF executeBluetoothRtcp
      <3>3. job' # None /\ job'[1].wanted = job'[1].got BY <3>1, <3>2 DEF Job, None
      <3> QED BY <1>2, <1>7, <2>2, <3>3 DEF BtNext, Commands, ActsOnSeenPhone
    <2>4. CASE ~(Counted /\ admit(mailbox[1]))
      <3>1. job' = job BY <1>7, <2>4 DEF executeBluetoothRtcp
      <3> QED BY <1>2, <1>7, <2>2, <3>1 DEF BtNext, Commands
    <2> QED BY <2>3, <2>4
  <1>8. ASSUME NEW operation \in Operations, Press(operation) PROVE EpochInv'
    <2>1. /\ UNCHANGED <<seen, mailbox>> /\ pc' # "serving"
          /\ job' = <<Job(operation, "key", NoPhone, NoPhone)>>
      BY <1>8 DEF Press
    <2>2. job' # None /\ job'[1].wanted = job'[1].got BY <2>1 DEF Job, None
    <2> QED BY <1>2, <1>8, <2>1, <2>2 DEF BtNext, Commands, ActsOnSeenPhone
  <1>9. CASE \/ GiveUp \/ NotePause \/ BeginNavigation
             \/ \E submitted \in BOOLEAN :
                  SendPlayPause(submitted) \/ SendNavigation(submitted)
    <2>1. UNCHANGED <<seen, mailbox>> /\ pc' # "serving" /\ (job' = job \/ job' = None)
      BY <1>9
      DEF GiveUp, NotePause, BeginNavigation, SendPlayPause, SendNavigation, Done
    <2> QED BY <1>2, <1>9, <2>1 DEF BtNext, Commands
  <1> QED
    BY <1>1, <1>3, <1>4, <1>5, <1>6, <1>7, <1>8, <1>9 DEF BtNext, Commands

LEMMA TextStep == TypeInv /\ SinkInv /\ LinkInv /\ TextInv /\ [BtNext]_btVars => TextInv'
  <1> SUFFICES ASSUME TypeInv, SinkInv, LinkInv, TextInv, [BtNext]_btVars PROVE TextInv'
    OBVIOUS
  <1>1. CASE UNCHANGED btVars BY <1>1 DEF TextInv, Dated, Attended
  <1>2. CASE BtNext
    <2>1. (Attended => text \in {NoPhone, peer})'
      <3> USE DEF TextInv
      <3>1. ASSUME UNCHANGED <<source, connection, text, peer>>
            PROVE  (Attended => text \in {NoPhone, peer})'
        BY <3>1 DEF Attended
      <3>2. CASE Commands BY <3>1, <3>2, CommandsFrame
      <3>3. CASE Switches
        BY <3>1, <3>3, SourceChange
        DEF Switches, EnableBluetooth, BluetoothStarts, StartFails, DisableBluetooth,
            BluetoothStops, Quiet, RadioStarts, RadioStops
      <3>4. CASE Library /\ ~bluetoothConnectionCallback /\ ~setBluetoothMetadata
        BY <3>1, <3>4
        DEF Library, PhoneMoves, PhoneChanges, StreamMoves, StatusMoves, TextComes,
            Raise, CallsBack, bluetoothAudioCallback, bluetoothPlaybackCallback, Publish
      <3>5. CASE bluetoothConnectionCallback
        BY <3>5 DEF bluetoothConnectionCallback, CallsBack, Attended
      <3>6. CASE setBluetoothMetadata
        BY <3>6 DEF setBluetoothMetadata, CallsBack, Attended, LinkInv
      <3> QED BY <1>2, <3>2, <3>3, <3>4, <3>5, <3>6 DEF BtNext
    <2>2. (seen # None => Dated(seen[1]))'
      <3>1. CASE Report
        <4>1. revision \in 1..Limit
          BY <3>1, BluetoothConstants DEF Report, Counted, TypeInv, BtTypeOK
        <4>2. /\ seen'[1].revision = revision
              /\ seen'[1].text = IF Attended THEN text ELSE NoPhone
              /\ UNCHANGED <<source, connection, revision, text>>
          BY <3>1 DEF Report
        <4> QED BY <4>1, <4>2 DEF Dated, Attended
      <3>2. CASE ~Report
        <4>1. seen' = seen
          BY <1>2, <3>2
          DEF BtNext, Switches, Library, Commands, EnableBluetooth, BluetoothStarts,
              StartFails, DisableBluetooth, BluetoothStops, Quiet, RadioStarts,
              RadioStops, PhoneMoves, PhoneChanges, StreamMoves, StatusMoves, TextComes,
              Raise, CallsBack, bluetoothConnectionCallback, bluetoothAudioCallback,
              bluetoothPlaybackCallback, setBluetoothMetadata, ReceiveCommand,
              executeBluetoothRtcp, Press, GiveUp, NotePause, BeginNavigation,
              SendPlayPause, SendNavigation
        <4> QED BY <1>2, <4>1, StillDated DEF TextInv
      <3> QED BY <3>1, <3>2
    <2> QED BY <2>1, <2>2 DEF TextInv
  <1> QED BY <1>1, <1>2

-----------------------------------------------------------------------------
(* Without a source the player is stopped, but for the steps in which a    *)
(* switch that failed or ended has not come to stopping it.                *)
QuietInv == source = "none" /\ pc # "quieting" => state = "stopped"

LEMMA QuietStep == TypeInv /\ SinkInv /\ QuietInv /\ [BtNext]_btVars => QuietInv'
  <1> SUFFICES ASSUME TypeInv, SinkInv, QuietInv, [BtNext]_btVars PROVE QuietInv'
    OBVIOUS
  <1> USE DEF QuietInv
  <1>1. CASE UNCHANGED btVars BY <1>1
  <1>2. CASE Commands
    <2>1. pc # "quieting"
      BY <1>2
      DEF Commands, Report, ReceiveCommand, executeBluetoothRtcp, Press, GiveUp,
          SendPlayPause, NotePause, BeginNavigation, SendNavigation
    <2> QED BY <1>2, <2>1, CommandsFrame
  <1>3. CASE Switches
    BY <1>3, SourceChange
    DEF Switches, EnableBluetooth, BluetoothStarts, StartFails, DisableBluetooth,
        BluetoothStops, Quiet, RadioStarts, RadioStops, SinkInv
  <1>4. CASE Library
    <2>1. UNCHANGED <<source, pc>> /\ (source = "none" => state' = state)
      BY <1>4
      DEF Library, PhoneMoves, PhoneChanges, StreamMoves, StatusMoves, TextComes, Raise,
          CallsBack, bluetoothConnectionCallback, bluetoothAudioCallback,
          bluetoothPlaybackCallback, setBluetoothMetadata, Publish, Attended
    <2> QED BY <2>1
  <1> QED BY <1>1, <1>2, <1>3, <1>4 DEF BtNext

-----------------------------------------------------------------------------
BtInv == TypeInv /\ SinkInv /\ LinkInv /\ EpochInv /\ TextInv /\ QuietInv

LEMMA BtAlways == BtSpec => []BtInv
  <1>1. BtInit => BtInv
    <2> SUFFICES ASSUME BtInit PROVE BtInv
      OBVIOUS
    <2>1. SinkInv /\ LinkInv BY DEF BtInit, SinkInv, LinkInv
    <2>2. EpochInv /\ TextInv /\ QuietInv
      BY DEF BtInit, EpochInv, TextInv, QuietInv, ActsOnSeenPhone, Attended
    <2> QED BY <2>1, <2>2, TypeBegins DEF BtInv
  <1>2. BtInv /\ [BtNext]_btVars => BtInv'
    <2> SUFFICES ASSUME BtInv, [BtNext]_btVars PROVE BtInv'
      OBVIOUS
    <2>1. TypeInv' /\ EpochInv' /\ TextInv' /\ QuietInv'
      BY TypeStep, EpochStep, TextStep, QuietStep DEF BtInv
    <2>2. CASE BtNext
      BY <2>1, <2>2, SinkStep, LinkStep DEF BtInv
    <2>3. CASE UNCHANGED btVars
      <3>1. SinkInv' BY <2>3 DEF BtInv, SinkInv
      <3>2. LinkInv' BY <2>3 DEF BtInv, LinkInv, Reported
      <3> QED BY <2>1, <3>1, <3>2 DEF BtInv
    <2> QED BY <2>2, <2>3
  <1> QED BY <1>1, <1>2, PTL DEF BtSpec

(* A REMOTE's command is only ever sent to the phone its sender was shown, *)
(* although phones come and go between the state it was told, the command  *)
(* and its execution (rtcp_btx.cpp, admit).                                *)
THEOREM CommandsReachTheSeenPhone == BtSpec => []ActsOnSeenPhone
  <1>1. BtInv => ActsOnSeenPhone BY DEF BtInv, EpochInv
  <1> QED BY BtAlways, <1>1, PTL

(* The texts are of the phone that is told as connected, and a REMOTE that *)
(* finds the revision it knows has them (audio.cpp, the Bluetooth          *)
(* callbacks).                                                             *)
THEOREM TextsAreCurrent == BtSpec => []MetadataIsCurrent
  <1>1. BtInv => MetadataIsCurrent BY DEF BtInv, TextInv, Dated, MetadataIsCurrent
  <1> QED BY BtAlways, <1>1, PTL

(* No callback that comes late leaves the player playing when the loop has *)
(* switched the sink off (audio.cpp, disableBluetooth).                    *)
THEOREM SinkOffIsQuiet == BtSpec => []QuietWhenOff
  <1>1. BtInv => QuietWhenOff BY DEF BtInv, QuietInv, QuietWhenOff
  <1> QED BY BtAlways, <1>1, PTL
=============================================================================
