-------------------------- MODULE RtcpSessionProofs --------------------------
(***************************************************************************)
(* Theorems of RtcpSession, for every number of sessions, records and      *)
(* source changes.                                                         *)
(***************************************************************************)
EXTENDS RtcpSession, Integers, SequenceTheorems, FiniteSetTheorems, TLAPS

USE DEF linkVars, sourceVars, historyVars, sessionVars

-----------------------------------------------------------------------------
(* Keys and counters.  A session's keys are loaded only while records are  *)
(* served; the counter is beyond every answer encrypted with the keys that *)
(* are loaded, and nothing is encrypted with those of a handshake that is  *)
(* still under way.                                                        *)
Handshaking == state \in {"client_hello", "client_finish"}

KeysOK ==
  /\ session \in Nat /\ tx \in Nat /\ keys \in {0, session}
  /\ state # "records" => keys = 0
  /\ Handshaking => session # 0

AnswersOK ==
  /\ \A a \in answers : a.keys \in Nat /\ a.keys <= session /\ a.counter \in Nat
  /\ \A a \in answers : a.keys # 0 /\ a.keys = keys => a.counter < tx
  /\ Handshaking => \A a \in answers : a.keys # session

NonceInv == KeysOK /\ AnswersOK /\ NonceNeverReused

LEMMA CloseIsFresh ==
  ASSUME NonceInv, CloseClient, answers' = answers
  PROVE  NonceInv'
  BY DEF NonceInv, KeysOK, AnswersOK, Handshaking, NonceNeverReused, CloseClient

LEMMA WrittenIsFresh ==
  ASSUME NonceInv, NEW asked, Written(asked)
  PROVE  NonceInv'
  <1> DEFINE answer == [asked |-> asked, to |-> session, keys |-> keys, counter |-> tx]
  <1>1. /\ answers' = answers \union {answer} /\ tx' = tx + 1
        /\ UNCHANGED <<state, session, keys>>
    BY DEF Written
  <1>2. answer.keys = keys /\ answer.counter = tx OBVIOUS
  <1> HIDE DEF answer
  <1> USE DEF NonceInv, KeysOK, AnswersOK, Handshaking
  <1>3. KeysOK' BY <1>1
  <1>4. AnswersOK' BY <1>1, <1>2
  <1>5. NonceNeverReused'
    <2> SUFFICES ASSUME NEW a \in answers', NEW b \in answers',
                        a.keys = b.keys, a.keys # 0, a.counter = b.counter
                 PROVE  a = b
      BY DEF NonceNeverReused
    <2>1. CASE a \in answers /\ b \in answers BY <2>1 DEF NonceNeverReused
    <2>2. CASE a = answer /\ b \in answers BY <1>2, <2>2
    <2>3. CASE a \in answers /\ b = answer BY <1>2, <2>3
    <2>4. CASE a = answer /\ b = answer BY <2>4
    <2> QED BY <1>1, <2>1, <2>2, <2>3, <2>4
  <1> QED BY <1>3, <1>4, <1>5

LEMMA ReplyIsFresh ==
  ASSUME NonceInv, NEW progress, NEW remembered, Reply(progress, remembered)
  PROVE  NonceInv'
  BY CloseIsFresh, WrittenIsFresh DEF Reply

LEMMA NonceStep == NonceInv /\ [SessionNext]_sessionVars => NonceInv'
  <1> SUFFICES ASSUME NonceInv, [SessionNext]_sessionVars PROVE NonceInv'
    OBVIOUS
  <1>1. ASSUME UNCHANGED <<state, session, keys, tx, answers>> PROVE NonceInv'
    BY <1>1 DEF NonceInv, KeysOK, AnswersOK, Handshaking, NonceNeverReused
  <1>2. CASE UNCHANGED sessionVars BY <1>1, <1>2
  <1>3. CASE Begin
    BY <1>3
    DEF Begin, NonceInv, KeysOK, AnswersOK, Handshaking, NonceNeverReused
  <1>4. CASE AcceptClient
    BY <1>4
    DEF AcceptClient, NonceInv, KeysOK, AnswersOK, Handshaking, NonceNeverReused
  <1>5. CASE ClientHello
    BY <1>5
    DEF ClientHello, NonceInv, KeysOK, AnswersOK, Handshaking, NonceNeverReused
  <1>6. CASE ClientFinish
    BY <1>6
    DEF ClientFinish, NonceInv, KeysOK, AnswersOK, Handshaking, NonceNeverReused
  <1>7. CASE Drop BY <1>7, CloseIsFresh DEF Drop
  <1>8. CASE Capability BY <1>8, ReplyIsFresh DEF Capability
  <1>9. ASSUME NEW kind \in {"read", "menu"}, Read(kind) PROVE NonceInv'
    BY <1>9, ReplyIsFresh DEF Read
  <1>10. ASSUME NEW kind \in Deduplicated, NEW id \in Ids, Command(kind, id)
         PROVE  NonceInv'
    BY <1>10, ReplyIsFresh DEF Command
  <1>11. CASE SourceState BY <1>11, ReplyIsFresh DEF SourceState
  <1>12. ASSUME NEW target \in Sources, NEW expected \in Generations,
                SourceRefused(target, expected) \/ SourceFails(target, expected)
         PROVE  NonceInv'
    BY <1>12, ReplyIsFresh DEF SourceRefused, SourceFails
  <1>13. ASSUME NEW target \in Sources, NEW expected \in Generations,
                SourceSelect(target, expected)
         PROVE  NonceInv'
    BY <1>1, <1>13 DEF SourceSelect
  <1>14. CASE SourceDone BY <1>14, CloseIsFresh, WrittenIsFresh DEF SourceDone
  <1>15. CASE OtherSource BY <1>1, <1>15 DEF OtherSource
  <1> QED
    BY <1>2, <1>3, <1>4, <1>5, <1>6, <1>7, <1>8, <1>9, <1>10, <1>11, <1>12, <1>13,
       <1>14, <1>15 DEF SessionNext

(* No two answers are ever encrypted with the same keys and counter,       *)
(* whatever sessions begin and end inside a source command                 *)
(* (rtcp_server.cpp, closeClient and sendApplication).                     *)
THEOREM NoncesAreFresh == SessionSpec => []NonceNeverReused
  <1>1. SessionInit => NonceInv
    BY DEF SessionInit, NonceInv, KeysOK, AnswersOK, Handshaking, NonceNeverReused
  <1>2. NonceInv => NonceNeverReused BY DEF NonceInv
  <1> QED BY <1>1, NonceStep, <1>2, PTL DEF SessionSpec

-----------------------------------------------------------------------------
(* Generations of the source.  Whatever was told or replaced is of a       *)
(* generation that has been, and what is of the present one is of the      *)
(* source that is known now: a source found changed is a new generation.   *)
Known(items) ==
  \A r \in items : /\ r.generation \in Nat /\ r.generation <= generation
                   /\ r.generation = generation => r.source = source

GenerationInv ==
  /\ generation \in Nat /\ source \in Sources \union {"none"} /\ audioSource \in Sources
  /\ source = "none" => reported = {} /\ switched = {}
  /\ Known(reported) /\ Known(switched) /\ SelectsFromWhatItSaw

(* The history grows only by what is known in the new generation.          *)
LEMMA SourceMoves ==
  ASSUME GenerationInv, generation' \in Nat, source' \in Sources, audioSource' \in Sources,
         \/ generation' = generation /\ source \in {"none", source'}
         \/ generation' > generation,
         \A r \in reported' : r \in reported
           \/ (r.generation = generation' /\ r.source = source'),
         \A s \in switched' : s \in switched
           \/ (s.generation = generation' /\ s.source = source')
  PROVE  GenerationInv'
  <1> USE DEF GenerationInv, Known, Sources
  <1>1. \A r \in reported \union switched :
          /\ r.generation \in Nat /\ r.generation <= generation'
          /\ r.generation = generation' => r.source = source'
    OBVIOUS
  <1>2. Known(reported)' /\ Known(switched)' BY <1>1
  <1>3. SelectsFromWhatItSaw' BY <1>1 DEF SelectsFromWhatItSaw
  <1> QED BY <1>2, <1>3

LEMMA RefreshMoves ==
  ASSUME GenerationInv, Refresh
  PROVE  /\ source' = audioSource /\ source' \in Sources /\ generation' \in Nat
         /\ \/ generation' = generation /\ source \in {"none", source'}
            \/ generation' > generation
  BY DEF GenerationInv, Refresh, Advanced

LEMMA GenerationStep == GenerationInv /\ [SessionNext]_sessionVars => GenerationInv'
  <1> SUFFICES ASSUME GenerationInv, [SessionNext]_sessionVars PROVE GenerationInv'
    OBVIOUS
  <1>1. ASSUME UNCHANGED <<source, generation, reported, switched>>,
               audioSource' \in Sources
        PROVE  GenerationInv'
    BY <1>1 DEF GenerationInv, Known, SelectsFromWhatItSaw
  <1>2. audioSource \in Sources BY DEF GenerationInv
  <1>3. CASE UNCHANGED sessionVars BY <1>1, <1>2, <1>3
  <1>4. CASE Begin \/ AcceptClient \/ ClientHello \/ ClientFinish \/ Drop
    BY <1>1, <1>2, <1>4 DEF Begin, AcceptClient, ClientHello, ClientFinish, Drop
  <1>5. CASE Capability BY <1>1, <1>2, <1>5 DEF Capability
  <1>6. ASSUME NEW kind \in {"read", "menu"}, Read(kind) PROVE GenerationInv'
    BY <1>1, <1>2, <1>6 DEF Read
  <1>7. ASSUME NEW kind \in Deduplicated, NEW id \in Ids, Command(kind, id)
        PROVE  GenerationInv'
    BY <1>1, <1>2, <1>7 DEF Command
  <1>8. CASE SourceState
    <2>1. Refresh /\ UNCHANGED <<audioSource, switched>> BY <1>8 DEF SourceState
    <2>2. \A r \in reported' : r \in reported
            \/ (r.generation = generation' /\ r.source = source')
      BY <1>8 DEF SourceState
    <2> QED BY <1>2, <2>1, <2>2, RefreshMoves, SourceMoves
  <1>9. ASSUME NEW target \in Sources, NEW expected \in Generations,
               SourceRefused(target, expected)
        PROVE  GenerationInv'
    <2>1. Refresh /\ UNCHANGED <<audioSource, reported, switched>>
      BY <1>9 DEF SourceRefused
    <2> QED BY <1>2, <2>1, RefreshMoves, SourceMoves
  <1>10. ASSUME NEW target \in Sources, NEW expected \in Generations,
                SourceFails(target, expected)
         PROVE  GenerationInv'
    <2>1. /\ audioSource' \in Sources /\ source' = audioSource'
          /\ generation' = Advanced(audioSource,
                                    Advanced(source, generation, audioSource), audioSource')
          /\ UNCHANGED <<reported, switched>>
      BY <1>2, <1>10 DEF SourceFails, Sources
    <2>2. /\ generation' \in Nat
          /\ \/ generation' = generation /\ source \in {"none", source'}
             \/ generation' > generation
      BY <1>2, <2>1 DEF Advanced, GenerationInv, Sources
    <2> QED BY <2>1, <2>2, SourceMoves
  <1>11. ASSUME NEW target \in Sources, NEW expected \in Generations,
                SourceSelect(target, expected)
         PROVE  GenerationInv'
    <2>1. /\ Refresh /\ expected = generation' /\ audioSource' \in Sources
          /\ reported' = reported
          /\ switched' = switched \union {[generation |-> expected, source |-> audioSource]}
      BY <1>11 DEF SourceSelect
    <2>2. \A s \in switched' : s \in switched
            \/ (s.generation = generation' /\ s.source = source')
      BY <2>1, RefreshMoves
    <2> QED BY <2>1, <2>2, RefreshMoves, SourceMoves
  <1>12. CASE SourceDone
    <2>1. Refresh /\ UNCHANGED <<audioSource, reported, switched>>
      BY <1>12 DEF SourceDone
    <2> QED BY <1>2, <2>1, RefreshMoves, SourceMoves
  <1>13. CASE OtherSource BY <1>1, <1>13 DEF OtherSource, Sources
  <1> QED
    BY <1>3, <1>4, <1>5, <1>6, <1>7, <1>8, <1>9, <1>10, <1>11, <1>12, <1>13
    DEF SessionNext

(* A selection fenced by a generation a client was told replaces the very  *)
(* source it was told, however often the source changed in between         *)
(* (rtcp_server.cpp, refreshSourceState).                                  *)
THEOREM SelectionsAreFenced == SessionSpec => []SelectsFromWhatItSaw
  <1>1. SessionInit => GenerationInv
    BY DEF SessionInit, GenerationInv, Known, SelectsFromWhatItSaw, Sources
  <1>2. GenerationInv => SelectsFromWhatItSaw BY DEF GenerationInv
  <1> QED BY <1>1, GenerationStep, <1>2, PTL DEF SessionSpec
-----------------------------------------------------------------------------
(* The records.  Every record belongs to a session that has been, and none *)
(* yet to one whose handshake is under way; the source command that waits  *)
(* for the display is one of them.                                         *)
Records ==
  [session : Nat, kind : Kinds, id : Ids \union {0}, executed : BOOLEAN]

RecordsOK ==
  /\ requests \in Seq(Records) /\ session \in Nat
  /\ \A i \in 1..Len(requests) :
       /\ requests[i].session <= session
       /\ Handshaking => requests[i].session # session
  /\ serving \in 0..Len(requests)

(* What the poll remembers of a record, and how far it gets negotiation.   *)
Progress(kind) ==
  IF kind = "capability" THEN IF negotiation = "before_first" THEN "probe_window" ELSE "btx"
  ELSE Observed(kind)

Remembered(kind, id, executed) ==
  IF executed THEN [last EXCEPT ![kind] = id] ELSE last

(* A record that is answered in the poll that took it.                     *)
Answered(kind, id, executed) ==
  /\ Take(kind, id, executed)
  /\ Reply(Progress(kind), Remembered(kind, id, executed))
  /\ executed => kind \in Deduplicated /\ id # last[kind]
  /\ kind = "capability" => negotiation \in {"before_first", "probe_window"}
  /\ UNCHANGED <<serving, transition>>

(* A step that takes no record and writes no answer.                       *)
Silent ==
  /\ Begin \/ AcceptClient \/ ClientHello \/ ClientFinish \/ Drop \/ OtherSource
     \/ UNCHANGED sessionVars
  /\ UNCHANGED <<requests, answers, serving, transition>>

Waits == \E target \in Sources, expected \in Generations : SourceSelect(target, expected)

(* Every step of the server is one of these four.                          *)
LEMMA StepKinds ==
  ASSUME [SessionNext]_sessionVars
  PROVE  \/ Silent \/ Waits \/ SourceDone
         \/ \E kind \in Kinds, id \in Ids \union {0}, executed \in BOOLEAN :
              Answered(kind, id, executed)
  <1> DEFINE Answers == \E kind \in Kinds, id \in Ids \union {0}, executed \in BOOLEAN :
                          Answered(kind, id, executed)
  <1>1. CASE Capability
    <2>1. Answered("capability", 0, FALSE)
      BY <1>1 DEF Capability, Answered, Progress, Remembered
    <2> QED BY <2>1 DEF Kinds
  <1>2. ASSUME NEW kind \in {"read", "menu"}, Read(kind) PROVE Answers
    <2>1. Answered(kind, 0, FALSE)
      BY <1>2 DEF Read, Answered, Progress, Remembered
    <2> QED BY <2>1 DEF Kinds, NeedNegotiation
  <1>3. ASSUME NEW kind \in Deduplicated, NEW id \in Ids, Command(kind, id) PROVE Answers
    <2>1. Answered(kind, id, FALSE) \/ Answered(kind, id, TRUE)
      BY <1>3 DEF Command, Answered, Progress, Remembered, Deduplicated
    <2> QED BY <2>1 DEF Kinds, NeedNegotiation, Deduplicated
  <1>4. CASE SourceState
    <2>1. Answered("state", 0, FALSE)
      BY <1>4 DEF SourceState, Answered, Progress, Remembered
    <2> QED BY <2>1 DEF Kinds, NeedNegotiation
  <1>5. ASSUME NEW target \in Sources, NEW expected \in Generations,
               SourceRefused(target, expected) \/ SourceFails(target, expected)
        PROVE  Answers
    <2>1. Answered("select", 0, FALSE)
      BY <1>5 DEF SourceRefused, SourceFails, Answered, Progress, Remembered
    <2> QED BY <2>1 DEF Kinds, NeedNegotiation
  <1>6. ASSUME Begin \/ AcceptClient \/ ClientHello \/ ClientFinish \/ Drop \/ OtherSource
               \/ UNCHANGED sessionVars
        PROVE  Silent
    BY <1>6 DEF Silent, Begin, AcceptClient, ClientHello, ClientFinish, Drop, OtherSource
  <1> QED BY <1>1, <1>2, <1>3, <1>4, <1>5, <1>6 DEF SessionNext, Waits

(* A record is appended.                                                   *)
Grows(record) ==
  /\ Len(requests) \in Nat /\ Serial = Len(requests) + 1
  /\ Len(requests') = Serial /\ requests'[Serial] = record
  /\ \A i \in 1..Len(requests) : requests'[i] = requests[i]

RecordOf(kind, id, executed) ==
  [session |-> session, kind |-> kind, id |-> id, executed |-> executed]

LEMMA TakeGrows ==
  ASSUME RecordsOK, NEW kind \in Kinds, NEW id \in Ids \union {0},
         NEW executed \in BOOLEAN, Take(kind, id, executed)
  PROVE  requests' \in Seq(Records) /\ Grows(RecordOf(kind, id, executed))
  <1> DEFINE record == RecordOf(kind, id, executed)
  <1>1. record \in Records BY DEF Records, RecordsOK, RecordOf
  <1>2. requests' = Append(requests, record) BY DEF Take, RecordOf
  <1> HIDE DEF record
  <1>3. requests \in Seq(Records) BY DEF RecordsOK
  <1>4. requests' \in Seq(Records) /\ Grows(record)
    BY <1>1, <1>2, <1>3 DEF Serial, Grows
  <1> QED BY <1>4 DEF record

LEMMA RecordsStep == RecordsOK /\ [SessionNext]_sessionVars => RecordsOK'
  <1> SUFFICES ASSUME RecordsOK, [SessionNext]_sessionVars PROVE RecordsOK'
    OBVIOUS
  <1> USE DEF RecordsOK, Handshaking
  <1>1. CASE Silent
    <2>1. UNCHANGED <<requests, serving>> BY <1>1 DEF Silent
    <2>2. CASE UNCHANGED session /\ (state' \in {state, "listening", "records"}
                                     \/ (state = "client_hello" /\ state' = "client_finish"))
      BY <2>1, <2>2
    <2>3. CASE AcceptClient
      <3>1. session' = session + 1 /\ session \in Nat BY <2>3 DEF AcceptClient
      <3>2. ASSUME NEW i \in 1..Len(requests)
            PROVE  requests[i].session <= session' /\ requests[i].session # session'
        <4>1. requests[i] \in Records BY ElementOfSeq
        <4>2. requests[i].session \in Nat BY <4>1 DEF Records
        <4> QED BY <3>1, <4>2
      <3> QED BY <2>1, <3>1, <3>2
    <2> QED BY <1>1, <2>2, <2>3
      DEF Silent, Begin, ClientHello, ClientFinish, Drop, OtherSource, CloseClient
  <1>2. ASSUME NEW kind \in Kinds, NEW id \in Ids \union {0}, NEW executed \in BOOLEAN,
               Take(kind, id, executed), session' = session,
               state' \in {state, "listening"}, serving' \in {serving, Serial}
        PROVE  RecordsOK'
    <2>1. state = "records" BY <1>2 DEF Take
    <2>2. /\ Len(requests) \in Nat /\ Serial = Len(requests) + 1
          /\ requests' \in Seq(Records) /\ Len(requests') = Serial
          /\ requests'[Serial].session = session
          /\ \A i \in 1..Len(requests) : requests'[i] = requests[i]
      <3> HIDE DEF RecordsOK, Handshaking
      <3>1. requests' \in Seq(Records) /\ Grows(RecordOf(kind, id, executed))
        BY <1>2, TakeGrows
      <3> QED BY <3>1 DEF Grows, RecordOf
    <2>3. ASSUME NEW i \in 1..Len(requests') PROVE requests'[i].session <= session
      <3>1. CASE i = Serial BY <2>2, <3>1
      <3>2. CASE i # Serial
        <4>1. i \in 1..Len(requests) BY <2>2, <3>2
        <4> QED BY <2>2, <4>1
      <3> QED BY <3>1, <3>2
    <2>4. ~Handshaking' BY <1>2, <2>1
    <2>5. serving' \in 0..Len(requests') BY <1>2, <2>2
    <2>6. requests' \in Seq(Records) /\ session' \in Nat BY <1>2, <2>2
    <2>7. \A i \in 1..Len(requests') : requests'[i].session <= session'
      BY <1>2, <2>3
    <2> HIDE DEF Handshaking
    <2> QED BY <2>4, <2>5, <2>6, <2>7
  <1>3. ASSUME NEW kind \in Kinds, NEW id \in Ids \union {0}, NEW executed \in BOOLEAN,
               Answered(kind, id, executed)
        PROVE  RecordsOK'
    <2>1. session' = session /\ state' \in {state, "listening"} /\ serving' = serving
      BY <1>3 DEF Answered, Reply, Written, CloseClient
    <2> QED BY <1>2, <1>3, <2>1 DEF Answered
  <1>4. CASE Waits
    <2>1. /\ Take("select", 0, TRUE) /\ session' = session /\ state' = state
          /\ serving' = Serial
      BY <1>4 DEF Waits, SourceSelect
    <2> QED BY <1>2, <2>1 DEF Kinds, NeedNegotiation
  <1>5. CASE SourceDone
    <2>1. /\ UNCHANGED <<requests, session>> /\ serving' = 0
          /\ state' \in {state, "listening"}
      BY <1>5 DEF SourceDone, Written, CloseClient
    <2> QED BY <2>1
  <1> QED BY <1>1, <1>3, <1>4, <1>5, StepKinds

LEMMA RecordsInit == SessionInit => RecordsOK
  BY DEF SessionInit, RecordsOK, Handshaking

LEMMA TransitionStep ==
  RecordsOK /\ TransitionIsOwned /\ [SessionNext]_sessionVars => TransitionIsOwned'
  <1> SUFFICES ASSUME RecordsOK, TransitionIsOwned, [SessionNext]_sessionVars
               PROVE  TransitionIsOwned'
    OBVIOUS
  <1> USE DEF TransitionIsOwned
  <1>1. CASE Silent BY <1>1 DEF Silent
  <1>2. ASSUME NEW kind \in Kinds, NEW id \in Ids \union {0}, NEW executed \in BOOLEAN,
               Answered(kind, id, executed)
        PROVE  TransitionIsOwned'
    BY <1>2 DEF Answered
  <1>3. CASE Waits
    <2>1. serving' = Serial /\ transition' # "stable" BY <1>3 DEF Waits, SourceSelect
    <2>2. Serial # 0 BY DEF Serial, RecordsOK
    <2> QED BY <2>1, <2>2
  <1>4. CASE SourceDone BY <1>4 DEF SourceDone
  <1> QED BY <1>1, <1>2, <1>3, <1>4, StepKinds

(* A transition of the source is on only while the command that began it   *)
(* waits for the display, even if its client is gone, so that no selection *)
(* is locked out for good (rtcp_server.cpp, serviceSource).                *)
THEOREM TransitionsAreOwned == SessionSpec => []TransitionIsOwned
  <1>1. SessionInit => TransitionIsOwned BY DEF SessionInit, TransitionIsOwned
  <1> QED BY <1>1, RecordsInit, RecordsStep, TransitionStep, PTL DEF SessionSpec

-----------------------------------------------------------------------------
(* Latest: no record of the session that is connected and of these kinds   *)
(* came after record i.                                                    *)
Latest(i, kinds) ==
  /\ requests[i].session = session /\ requests[i].kind \in kinds
  /\ \A k \in (i + 1)..Len(requests) :
       requests[k].session = session => requests[k].kind \notin kinds

LEMMA RowsStay ==
  ASSUME NEW record, Grows(record), NEW i \in 1..Len(requests), NEW j \in 1..Len(requests),
         NEW kinds
  PROVE  InARow(i, j, kinds)' <=> InARow(i, j, kinds)
  <1>1. \A k \in (i + 1)..(j - 1) : k \in 1..Len(requests) BY DEF Grows
  <1>2. \A k \in (i + 1)..(j - 1) : requests'[k] = requests[k] BY <1>1 DEF Grows
  <1>3. requests'[i] = requests[i] /\ requests'[j] = requests[j] BY DEF Grows
  <1> QED BY <1>2, <1>3 DEF InARow

LEMMA LatestEndsRow ==
  ASSUME NEW record, Grows(record), NEW i \in 1..Len(requests), NEW kinds,
         record.session = session, NEW n, n = Serial
  PROVE  InARow(i, n, kinds)' <=> Latest(i, kinds) /\ record.kind \in kinds
  <1>1. \A k \in (i + 1)..(n - 1) : k \in (i + 1)..Len(requests) /\ k \in 1..Len(requests)
    BY DEF Grows
  <1>2. \A k \in (i + 1)..Len(requests) : k \in (i + 1)..(n - 1) /\ k \in 1..Len(requests)
    BY DEF Grows
  <1>3. requests'[i] = requests[i] /\ requests'[n] = record /\ i < n BY DEF Grows
  <1>4. \A k \in 1..Len(requests) : requests'[k] = requests[k] BY DEF Grows
  <1> QED BY <1>1, <1>2, <1>3, <1>4 DEF InARow, Latest

LEMMA LatestGrows ==
  ASSUME NEW record, Grows(record), NEW i \in 1..Len(requests), NEW kinds,
         record.session = session, session' = session, Latest(i, kinds)'
  PROVE  Latest(i, kinds) /\ record.kind \notin kinds
  <1>1. \A k \in (i + 1)..Len(requests) : k \in (i + 1)..Len(requests') /\ k \in 1..Len(requests)
    BY DEF Grows
  <1>2. Serial \in (i + 1)..Len(requests') /\ requests'[Serial] = record BY DEF Grows
  <1>3. requests'[i] = requests[i] BY DEF Grows
  <1>4. \A k \in 1..Len(requests) : requests'[k] = requests[k] BY DEF Grows
  <1> QED BY <1>1, <1>2, <1>3, <1>4 DEF Latest

LEMMA LatestIsLast ==
  ASSUME NEW record, Grows(record), record.session = session, session' = session,
         NEW kinds, record.kind \in kinds, NEW n, n = Serial
  PROVE  Latest(n, kinds)'
  <1>1. \A k \in (n + 1)..Len(requests') : FALSE BY DEF Grows
  <1> QED BY <1>1 DEF Latest, Grows

-----------------------------------------------------------------------------
(* Repeated commands.  While a session is served, what the server compares *)
(* a command with is the latest of its kind, if that was executed.         *)
LatestIsRemembered ==
  \A kind \in Deduplicated, i \in 1..Len(requests) :
    Latest(i, {kind}) /\ requests[i].executed => requests[i].id = last[kind]

RepeatInv ==
  /\ RepeatIsRefused
  /\ DOMAIN last = Deduplicated
  /\ state = "records" => LatestIsRemembered

(* Nothing is the latest of a session that has no record yet.              *)
LEMMA NoneIsLatest ==
  ASSUME RecordsOK, Handshaking, NEW i \in 1..Len(requests), NEW kinds
  PROVE  ~Latest(i, kinds)
  BY DEF RecordsOK, Latest

LEMMA RepeatedTake ==
  ASSUME RecordsOK, RepeatInv, NEW kind \in Kinds, NEW id \in Ids \union {0},
         NEW executed \in BOOLEAN, Take(kind, id, executed),
         executed /\ kind \in Deduplicated => id # last[kind],
         DOMAIN last' = Deduplicated, session' = session,
         state' = "records" =>
           \A k \in Deduplicated : last'[k] = IF executed /\ k = kind THEN id ELSE last[k]
  PROVE  RepeatInv'
  <1> DEFINE record == RecordOf(kind, id, executed)
  <1>1. Grows(record) BY TakeGrows
  <1>2. /\ record.session = session /\ record.kind = kind
        /\ record.id = id /\ record.executed = executed
    BY DEF RecordOf
  <1>3. LatestIsRemembered BY DEF RepeatInv, Take
  <1> HIDE DEF record
  <1>4. RepeatIsRefused'
    <2> SUFFICES ASSUME NEW k \in Deduplicated,
                        NEW i \in 1..Len(requests'), NEW j \in 1..Len(requests'),
                        InARow(i, j, {k})', requests'[i].executed, requests'[j].executed
                 PROVE  requests'[i].id # requests'[j].id
      BY DEF RepeatIsRefused
    <2>1. i < j BY DEF InARow
    <2>2. i \in 1..Len(requests) BY <1>1, <2>1 DEF Grows
    <2>3. CASE j = Serial
      <3>1. Latest(i, {k}) /\ kind = k BY <1>1, <1>2, <2>2, <2>3, LatestEndsRow
      <3>2. requests'[i] = requests[i] /\ requests'[j] = record
        BY <1>1, <2>2, <2>3 DEF Grows
      <3>3. requests[i].id = last[k] BY <1>3, <2>2, <3>1, <3>2 DEF LatestIsRemembered
      <3> QED BY <1>2, <3>1, <3>2, <3>3
    <2>4. CASE j # Serial
      <3>1. j \in 1..Len(requests) BY <1>1, <2>4 DEF Grows
      <3>2. InARow(i, j, {k}) BY <1>1, <2>2, <3>1, RowsStay
      <3>3. requests'[i] = requests[i] /\ requests'[j] = requests[j]
        BY <1>1, <2>2, <3>1 DEF Grows
      <3> QED BY <2>2, <3>1, <3>2, <3>3 DEF RepeatInv, RepeatIsRefused
    <2> QED BY <2>3, <2>4
  <1>5. ASSUME state' = "records" PROVE LatestIsRemembered'
    <2> SUFFICES ASSUME NEW k \in Deduplicated, NEW i \in 1..Len(requests'),
                        Latest(i, {k})', requests'[i].executed
                 PROVE  requests'[i].id = last'[k]
      BY DEF LatestIsRemembered
    <2>1. CASE i = Serial
      <3>1. requests'[i] = record BY <1>1, <2>1 DEF Grows
      <3>2. kind = k BY <1>2, <3>1 DEF Latest
      <3> QED BY <1>2, <1>5, <3>1, <3>2
    <2>2. CASE i # Serial
      <3>1. i \in 1..Len(requests) BY <1>1, <2>2 DEF Grows
      <3>2. Latest(i, {k}) /\ kind # k BY <1>1, <1>2, <3>1, LatestGrows
      <3>3. requests'[i] = requests[i] BY <1>1, <3>1 DEF Grows
      <3> QED BY <1>3, <1>5, <3>1, <3>2, <3>3 DEF LatestIsRemembered
    <2> QED BY <2>1, <2>2
  <1> QED BY <1>4, <1>5 DEF RepeatInv

LEMMA RepeatStep == RecordsOK /\ RepeatInv /\ [SessionNext]_sessionVars => RepeatInv'
  <1> SUFFICES ASSUME RecordsOK, RepeatInv, [SessionNext]_sessionVars PROVE RepeatInv'
    OBVIOUS
  <1>1. ASSUME requests' = requests, DOMAIN last' = Deduplicated,
               state' # "records" \/ UNCHANGED <<state, session, last>>
        PROVE  RepeatInv'
    BY <1>1 DEF RepeatInv, RepeatIsRefused, InARow, LatestIsRemembered, Latest
  <1>2. DOMAIN last = Deduplicated /\ DOMAIN NoRequest = Deduplicated
    BY DEF RepeatInv, NoRequest
  <1>3. CASE Silent
    <2>1. requests' = requests BY <1>3 DEF Silent
    <2>2. CASE ClientFinish
      <3>1. Handshaking /\ UNCHANGED <<session, last>>
        BY <2>2 DEF ClientFinish, Handshaking
      <3>2. \A k \in Deduplicated, i \in 1..Len(requests) : ~Latest(i, {k})
        BY <3>1, NoneIsLatest
      <3>3. LatestIsRemembered'
        BY <2>1, <3>1, <3>2 DEF LatestIsRemembered, Latest
      <3>4. RepeatIsRefused'
        BY <2>1 DEF RepeatInv, RepeatIsRefused, InARow
      <3> QED BY <1>2, <3>1, <3>3, <3>4 DEF RepeatInv
    <2>3. CASE Begin \/ AcceptClient \/ ClientHello \/ Drop
      <3>1. state' # "records" /\ DOMAIN last' = Deduplicated
        BY <1>2, <2>3 DEF Begin, AcceptClient, ClientHello, Drop, CloseClient
      <3> QED BY <1>1, <2>1, <3>1
    <2>4. CASE OtherSource \/ UNCHANGED sessionVars
      BY <1>1, <1>2, <2>1, <2>4 DEF OtherSource
    <2> QED BY <1>3, <2>2, <2>3, <2>4 DEF Silent
  <1>4. ASSUME NEW kind \in Kinds, NEW id \in Ids \union {0}, NEW executed \in BOOLEAN,
               Answered(kind, id, executed)
        PROVE  RepeatInv'
    <2>1. /\ Take(kind, id, executed) /\ session' = session
          /\ executed => kind \in Deduplicated /\ id # last[kind]
          /\ \/ last' = Remembered(kind, id, executed)
             \/ state' = "listening" /\ last' = NoRequest
      BY <1>4 DEF Answered, Reply, Written, CloseClient
    <2>2. /\ DOMAIN Remembered(kind, id, executed) = Deduplicated
          /\ \A k \in Deduplicated : Remembered(kind, id, executed)[k]
                = IF executed /\ k = kind THEN id ELSE last[k]
      BY <1>2, <2>1 DEF Remembered
    <2>3. /\ DOMAIN last' = Deduplicated
          /\ state' = "records" => last' = Remembered(kind, id, executed)
      BY <1>2, <2>1, <2>2
    <2> QED BY <2>1, <2>2, <2>3, RepeatedTake
  <1>5. CASE Waits
    <2>1. /\ Take("select", 0, TRUE) /\ UNCHANGED <<session, last>>
      BY <1>5 DEF Waits, SourceSelect
    <2>2. "select" \in Kinds /\ "select" \notin Deduplicated
      BY DEF Kinds, NeedNegotiation, Deduplicated
    <2> QED BY <1>2, <2>1, <2>2, RepeatedTake
  <1>6. CASE SourceDone
    <2>1. /\ requests' = requests
          /\ \/ UNCHANGED <<state, session, last>>
             \/ state' = "listening" /\ last' = NoRequest
      BY <1>6 DEF SourceDone, Written, CloseClient
    <2> QED BY <1>1, <1>2, <2>1
  <1> QED BY <1>3, <1>4, <1>5, <1>6, StepKinds

(* A playback or catalog command sent again as the next of its kind in the *)
(* same session is not executed twice, whatever other records, sessions or *)
(* waiting source commands surround the two (rtcp_server.cpp,              *)
(* handleApplication and closeClient).                                     *)
THEOREM RepeatsAreRefused == SessionSpec => []RepeatIsRefused
  <1>1. SessionInit => RepeatInv
    BY DEF SessionInit, RepeatInv, RepeatIsRefused, NoRequest
  <1>2. RepeatInv => RepeatIsRefused BY DEF RepeatInv
  <1> QED BY <1>1, <1>2, RecordsInit, RecordsStep, RepeatStep, PTL DEF SessionSpec
-----------------------------------------------------------------------------
(* Negotiation.  A window is open only right after a first request for the *)
(* capabilities, and BTX is on only in a session that has sent two in a    *)
(* row.                                                                    *)
Probed(n) ==
  \E i, j \in 1..n :
    /\ InARow(i, j, Kinds) /\ requests[i].session = session
    /\ requests[i].kind = "capability" /\ requests[j].kind = "capability"

ProgressOK ==
  /\ negotiation = "probe_window" =>
       \E i \in 1..Len(requests) : Latest(i, Kinds) /\ requests[i].kind = "capability"
  /\ negotiation = "btx" => Probed(Len(requests))

ProbeInv ==
  /\ NegotiatedByProbe
  /\ Handshaking => negotiation = "before_first"
  /\ state = "records" => ProgressOK

LEMMA ProbedStays ==
  ASSUME NEW record, Grows(record), session' = session,
         NEW n \in 1..Len(requests'), Probed(Len(requests)), n = Len(requests')
  PROVE  Probed(n)'
  <1>1. PICK i \in 1..Len(requests), j \in 1..Len(requests) :
          /\ InARow(i, j, Kinds) /\ requests[i].session = session
          /\ requests[i].kind = "capability" /\ requests[j].kind = "capability"
    BY DEF Probed
  <1>2. InARow(i, j, Kinds)' BY <1>1, RowsStay
  <1>3. requests'[i] = requests[i] /\ requests'[j] = requests[j] BY DEF Grows
  <1>4. i \in 1..n /\ j \in 1..n BY DEF Grows
  <1> QED BY <1>1, <1>2, <1>3, <1>4 DEF Probed

LEMMA ProbedTake ==
  ASSUME RecordsOK, ProbeInv, NEW kind \in Kinds, NEW id \in Ids \union {0},
         NEW executed \in BOOLEAN, Take(kind, id, executed), session' = session,
         kind = "capability" => negotiation \in {"before_first", "probe_window"},
         state' # "records" \/ negotiation' = Progress(kind),
         state' \in {"records", "listening"}
  PROVE  ProbeInv'
  <1> DEFINE record == RecordOf(kind, id, executed)
  <1>1. Grows(record) BY TakeGrows
  <1>2. record.session = session /\ record.kind = kind BY DEF RecordOf
  <1>3. ProgressOK BY DEF ProbeInv, Take
  <1>4. kind \in NeedNegotiation => negotiation = "btx" BY DEF Take
  <1> HIDE DEF record
  <1>5. NegotiatedByProbe'
    <2> SUFFICES ASSUME NEW n \in 1..Len(requests'), requests'[n].kind \in NeedNegotiation
                 PROVE  \E i, j \in 1..(n - 1) :
                          /\ InARow(i, j, Kinds)' /\ requests'[i].session = requests'[n].session
                          /\ requests'[i].kind = "capability"
                          /\ requests'[j].kind = "capability"
      BY DEF NegotiatedByProbe
    <2>1. PICK i \in 1..Len(requests), j \in 1..Len(requests) :
            /\ i \in 1..(n - 1) /\ j \in 1..(n - 1)
            /\ InARow(i, j, Kinds) /\ requests[i].session = requests'[n].session
            /\ requests[i].kind = "capability" /\ requests[j].kind = "capability"
      <3>1. CASE n = Serial
        <4>1. requests'[n] = record /\ n - 1 = Len(requests) BY <1>1, <3>1 DEF Grows
        <4>2. Probed(Len(requests)) BY <1>2, <1>3, <1>4, <4>1 DEF ProgressOK
        <4> QED BY <1>2, <4>1, <4>2 DEF Probed
      <3>2. CASE n # Serial
        <4>1. n \in 1..Len(requests) /\ requests'[n] = requests[n]
          BY <1>1, <3>2 DEF Grows
        <4>2. \A m \in 1..(n - 1) : m \in 1..Len(requests) BY <1>1, <4>1 DEF Grows
        <4> QED BY <4>1, <4>2 DEF ProbeInv, NegotiatedByProbe
      <3> QED BY <3>1, <3>2
    <2>2. InARow(i, j, Kinds)' BY <1>1, <2>1, RowsStay
    <2>3. requests'[i] = requests[i] /\ requests'[j] = requests[j] BY <1>1 DEF Grows
    <2> QED BY <2>1, <2>2, <2>3
  <1>6. ASSUME state' = "records" PROVE ProgressOK'
    <2>1. negotiation' = Progress(kind) BY <1>6
    <2>2. Serial \in 1..Len(requests') /\ requests'[Serial] = record
      BY <1>1 DEF Grows
    <2>3. CASE kind = "capability" /\ negotiation = "before_first"
      <3>1. negotiation' = "probe_window" BY <2>1, <2>3 DEF Progress
      <3>2. PICK n : n = Serial OBVIOUS
      <3>3. Latest(n, Kinds)' BY <1>1, <1>2, <3>2, LatestIsLast
      <3> QED BY <1>2, <2>2, <2>3, <3>1, <3>2, <3>3 DEF ProgressOK
    <2>4. CASE kind = "capability" /\ negotiation = "probe_window"
      <3>1. negotiation' = "btx" BY <2>1, <2>4 DEF Progress
      <3>2. PICK i \in 1..Len(requests) : Latest(i, Kinds) /\ requests[i].kind = "capability"
        BY <1>3, <2>4 DEF ProgressOK
      <3>3. PICK n : n = Serial OBVIOUS
      <3>4. InARow(i, n, Kinds)' BY <1>1, <1>2, <3>2, <3>3, LatestEndsRow
      <3>5. requests'[i] = requests[i] /\ i \in 1..Len(requests') BY <1>1 DEF Grows
      <3>6. requests[i].session = session BY <3>2 DEF Latest
      <3>7. Probed(Len(requests))' 
        BY <1>2, <2>2, <2>4, <3>2, <3>3, <3>4, <3>5, <3>6 DEF Probed
      <3> QED BY <3>1, <3>7 DEF ProgressOK
    <2>5. CASE kind # "capability"
      <3>1. negotiation' # "probe_window" /\ (negotiation' = "btx" => negotiation = "btx")
        BY <2>1, <2>5 DEF Progress, Observed
      <3>2. ASSUME negotiation = "btx" PROVE Probed(Len(requests))'
        <4>1. Probed(Len(requests)) BY <1>3, <3>2 DEF ProgressOK
        <4>2. PICK n : n = Len(requests') OBVIOUS
        <4>3. n \in 1..Len(requests') BY <1>1, <4>2 DEF Grows
        <4>4. Probed(n)' BY <1>1, <1>2, <4>1, <4>2, <4>3, ProbedStays
        <4> QED BY <4>2, <4>4 DEF Probed
      <3> QED BY <3>1, <3>2 DEF ProgressOK
    <2> QED BY <2>3, <2>4, <2>5
  <1>7. ~Handshaking' BY DEF Handshaking
  <1> QED BY <1>5, <1>6, <1>7 DEF ProbeInv

LEMMA ProbeStep == RecordsOK /\ ProbeInv /\ [SessionNext]_sessionVars => ProbeInv'
  <1> SUFFICES ASSUME RecordsOK, ProbeInv, [SessionNext]_sessionVars PROVE ProbeInv'
    OBVIOUS
  <1>1. ASSUME requests' = requests,
               Handshaking' => negotiation' = "before_first",
               state' # "records" \/ UNCHANGED <<state, session, negotiation>>
        PROVE  ProbeInv'
    <2>1. NegotiatedByProbe'
      BY <1>1 DEF ProbeInv, NegotiatedByProbe, InARow
    <2>2. state' = "records" => ProgressOK'
      BY <1>1 DEF ProbeInv, ProgressOK, Probed, InARow, Latest
    <2> QED BY <1>1, <2>1, <2>2 DEF ProbeInv
  <1>2. CASE Silent
    <2>1. requests' = requests BY <1>2 DEF Silent
    <2>2. CASE ClientFinish
      <3>1. Handshaking /\ UNCHANGED negotiation /\ state' = "records"
        BY <2>2 DEF ClientFinish, Handshaking
      <3>2. negotiation' = "before_first" BY <3>1 DEF ProbeInv
      <3>3. ProgressOK' BY <3>2 DEF ProgressOK
      <3>4. NegotiatedByProbe' BY <2>1 DEF ProbeInv, NegotiatedByProbe, InARow
      <3> QED BY <3>1, <3>2, <3>3, <3>4 DEF ProbeInv
    <2>3. CASE Begin \/ AcceptClient \/ ClientHello \/ Drop
      <3>1. state' # "records" /\ (Handshaking' => negotiation' = "before_first")
        BY <2>3 DEF Begin, AcceptClient, ClientHello, Drop, CloseClient, ProbeInv, Handshaking
      <3> QED BY <1>1, <2>1, <3>1
    <2>4. CASE OtherSource \/ UNCHANGED sessionVars
      <3>1. UNCHANGED <<state, session, negotiation>> BY <2>4 DEF OtherSource
      <3> QED BY <1>1, <2>1, <3>1 DEF ProbeInv, Handshaking
    <2> QED BY <1>2, <2>2, <2>3, <2>4 DEF Silent
  <1>3. ASSUME NEW kind \in Kinds, NEW id \in Ids \union {0}, NEW executed \in BOOLEAN,
               Answered(kind, id, executed)
        PROVE  ProbeInv'
    <2>1. /\ Take(kind, id, executed) /\ session' = session
          /\ kind = "capability" => negotiation \in {"before_first", "probe_window"}
          /\ \/ state' = state /\ negotiation' = Progress(kind)
             \/ state' = "listening"
      BY <1>3 DEF Answered, Reply, Written, CloseClient
    <2>2. state = "records" BY <2>1 DEF Take
    <2> QED BY <2>1, <2>2, ProbedTake
  <1>4. CASE Waits
    <2>1. /\ Take("select", 0, TRUE) /\ session' = session /\ state' = state
          /\ negotiation' = Progress("select")
      BY <1>4 DEF Waits, SourceSelect, Progress
    <2>2. state = "records" /\ "select" \in Kinds
      BY <2>1 DEF Take, Kinds, NeedNegotiation
    <2> QED BY <2>1, <2>2, ProbedTake
  <1>5. CASE SourceDone
    <2>1. /\ requests' = requests
          /\ \/ UNCHANGED <<state, session, negotiation>>
             \/ state' = "listening"
      BY <1>5 DEF SourceDone, Written, CloseClient
    <2> QED BY <1>1, <2>1 DEF ProbeInv, Handshaking
  <1> QED BY <1>2, <1>3, <1>4, <1>5, StepKinds

(* What needs BTX is served only to a session that sent two capability     *)
(* requests in a row before it, never on the strength of what an earlier   *)
(* or a nested session negotiated (rtcp_server.cpp, handleApplication).    *)
THEOREM BtxIsNegotiated == SessionSpec => []NegotiatedByProbe
  <1>1. SessionInit => ProbeInv
    BY DEF SessionInit, ProbeInv, NegotiatedByProbe, Handshaking
  <1>2. ProbeInv => NegotiatedByProbe BY DEF ProbeInv
  <1> QED BY <1>1, <1>2, RecordsInit, RecordsStep, ProbeStep, PTL DEF SessionSpec
-----------------------------------------------------------------------------
(* Answers.  An answer is to a record that was taken, no two are to the    *)
(* same, none yet to the source command that waits, and while a session is *)
(* served every other record of it has its answer.                         *)
Replied(i) == \E a \in answers : a.asked = i

AnsweredInv ==
  /\ \A a \in answers : a.asked \in 1..Len(requests) /\ a.asked # serving
  /\ \A a, b \in answers : a.asked = b.asked => a = b
  /\ state = "records" =>
       \A i \in 1..Len(requests) :
         requests[i].session = session /\ i # serving => Replied(i)

LEMMA WrittenIsAnswered ==
  ASSUME AnsweredInv, NEW n \in 1..Len(requests'), Written(n), ~Replied(n),
         serving' # n, n = serving \/ n \notin 1..Len(requests),
         serving' = serving \/ (n = serving /\ serving' \notin 1..Len(requests)),
         \A i \in 1..Len(requests) : i \in 1..Len(requests') /\ requests'[i] = requests[i],
         \A i \in 1..Len(requests') : i = n \/ i \in 1..Len(requests)
  PROVE  AnsweredInv'
  <1> DEFINE answer == [asked |-> n, to |-> session, keys |-> keys, counter |-> tx]
  <1>1. answers' = answers \union {answer} /\ UNCHANGED <<state, session>>
    BY DEF Written
  <1>2. answer.asked = n OBVIOUS
  <1> HIDE DEF answer
  <1>3. \A a \in answers : a.asked # n BY DEF Replied
  <1>4. \A a \in answers' : a.asked \in 1..Len(requests') /\ a.asked # serving'
    BY <1>1, <1>2 DEF AnsweredInv
  <1>5. \A a, b \in answers' : a.asked = b.asked => a = b
    BY <1>1, <1>2, <1>3 DEF AnsweredInv
  <1>6. ASSUME state' = "records", NEW i \in 1..Len(requests'),
               requests'[i].session = session', i # serving'
        PROVE  Replied(i)'
    <2>1. CASE i = n BY <1>1, <1>2, <2>1 DEF Replied
    <2>2. CASE i # n
      <3>1. i \in 1..Len(requests) /\ requests'[i] = requests[i] BY <2>2
      <3>2. i # serving BY <1>6, <2>2
      <3>3. Replied(i) BY <1>1, <1>6, <3>1, <3>2 DEF AnsweredInv
      <3> QED BY <1>1, <3>3 DEF Replied
    <2> QED BY <2>1, <2>2
  <1> QED BY <1>4, <1>5, <1>6 DEF AnsweredInv

(* A step that leaves the answers as they are.                             *)
LEMMA UnansweredStep ==
  ASSUME AnsweredInv, answers' = answers,
         \A i \in 1..Len(requests) : i \in 1..Len(requests'),
         serving' = serving \/ serving' \notin 1..Len(requests),
         state' # "records"
           \/ \A i \in 1..Len(requests') :
                requests'[i].session = session' /\ i # serving' => Replied(i)
  PROVE  AnsweredInv'
  BY DEF AnsweredInv, Replied

LEMMA AnsweredStep ==
  RecordsOK /\ TransitionIsOwned /\ AnsweredInv /\ [SessionNext]_sessionVars => AnsweredInv'
  <1> SUFFICES ASSUME RecordsOK, TransitionIsOwned, AnsweredInv, [SessionNext]_sessionVars
               PROVE  AnsweredInv'
    OBVIOUS
  <1>1. CASE Silent
    <2>1. UNCHANGED <<requests, answers, serving>> BY <1>1 DEF Silent
    <2>2. CASE ClientFinish
      <3>1. Handshaking /\ UNCHANGED session BY <2>2 DEF ClientFinish, Handshaking
      <3>2. \A i \in 1..Len(requests) : requests[i].session # session
        BY <3>1 DEF RecordsOK
      <3> QED BY <2>1, <3>1, <3>2, UnansweredStep
    <2>3. CASE Begin \/ AcceptClient \/ ClientHello \/ Drop
      <3>1. state' # "records"
        BY <2>3 DEF Begin, AcceptClient, ClientHello, Drop, CloseClient
      <3> QED BY <2>1, <3>1, UnansweredStep
    <2>4. CASE OtherSource \/ UNCHANGED sessionVars
      <3>1. UNCHANGED <<state, session>> BY <2>4 DEF OtherSource
      <3> QED BY <2>1, <3>1 DEF AnsweredInv, Replied
    <2> QED BY <1>1, <2>2, <2>3, <2>4 DEF Silent
  <1>2. ASSUME NEW kind \in Kinds, NEW id \in Ids \union {0}, NEW executed \in BOOLEAN,
               Answered(kind, id, executed)
        PROVE  AnsweredInv'
    <2>1. Grows(RecordOf(kind, id, executed)) BY <1>2, TakeGrows DEF Answered
    <2>2. serving' = serving BY <1>2 DEF Answered
    <2>3. CASE Written(Serial)
      <3>1. PICK n : n = Serial OBVIOUS
      <3>2. n \in 1..Len(requests') /\ n \notin 1..Len(requests) /\ n # serving
        BY <2>1, <3>1 DEF Grows, RecordsOK
      <3>3. ~Replied(n) BY <3>2 DEF AnsweredInv, Replied
      <3>4. \A i \in 1..Len(requests) : i \in 1..Len(requests') /\ requests'[i] = requests[i]
        BY <2>1 DEF Grows
      <3>5. \A i \in 1..Len(requests') : i = n \/ i \in 1..Len(requests)
        BY <2>1, <3>1 DEF Grows
      <3>6. Written(n) BY <2>3, <3>1
      <3> QED BY <2>2, <3>2, <3>3, <3>4, <3>5, <3>6, WrittenIsAnswered
    <2>4. CASE CloseClient /\ UNCHANGED answers
      <3>1. \A i \in 1..Len(requests) : i \in 1..Len(requests') BY <2>1 DEF Grows
      <3>2. state' # "records" BY <2>4 DEF CloseClient
      <3> QED BY <2>2, <2>4, <3>1, <3>2, UnansweredStep
    <2> QED BY <1>2, <2>3, <2>4 DEF Answered, Reply
  <1>3. CASE Waits
    <2>1. /\ Take("select", 0, TRUE) /\ UNCHANGED <<state, session, answers>>
          /\ transition = "stable" /\ serving' = Serial
      BY <1>3 DEF Waits, SourceSelect
    <2>2. "select" \in Kinds BY DEF Kinds, NeedNegotiation
    <2>3. Grows(RecordOf("select", 0, TRUE)) BY <2>1, <2>2, TakeGrows
    <2>4. \A i \in 1..Len(requests) : i \in 1..Len(requests') /\ requests'[i] = requests[i]
      BY <2>3 DEF Grows
    <2>5. serving' \notin 1..Len(requests) BY <2>1, <2>3 DEF Grows
    <2>6. serving = 0 /\ state = "records" BY <2>1 DEF TransitionIsOwned, Take
    <2>7. ASSUME NEW i \in 1..Len(requests'), requests'[i].session = session', i # serving'
          PROVE  Replied(i)
      <3>1. i \in 1..Len(requests) /\ i # 0 BY <2>1, <2>3, <2>7 DEF Grows
      <3> QED BY <2>1, <2>4, <2>6, <2>7, <3>1 DEF AnsweredInv
    <2> QED BY <2>1, <2>4, <2>5, <2>7, UnansweredStep
  <1>4. CASE SourceDone
    <2>1. requests' = requests /\ serving # 0 /\ serving' = 0 BY <1>4 DEF SourceDone
    <2>2. 0 \notin 1..Len(requests) /\ serving \in 1..Len(requests)
      BY <2>1 DEF RecordsOK
    <2>3. CASE Written(serving)
      <3>1. ~Replied(serving) BY DEF AnsweredInv, Replied
      <3>2. PICK n \in 1..Len(requests') : n = serving BY <2>1, <2>2
      <3>3. Written(n) /\ ~Replied(n) /\ serving' # n /\ serving' \notin 1..Len(requests)
        BY <2>1, <2>2, <2>3, <3>1, <3>2
      <3>4. \A i \in 1..Len(requests) : i \in 1..Len(requests') /\ requests'[i] = requests[i]
        BY <2>1
      <3>5. \A i \in 1..Len(requests') : i = n \/ i \in 1..Len(requests) BY <2>1
      <3> QED BY <3>2, <3>3, <3>4, <3>5, WrittenIsAnswered
    <2>4. CASE CloseClient /\ UNCHANGED answers
      <3>1. state' # "records" BY <2>4 DEF CloseClient
      <3> QED BY <2>1, <2>2, <2>4, <3>1, UnansweredStep
    <2> QED BY <1>4, <2>3, <2>4 DEF SourceDone
  <1> QED BY <1>1, <1>2, <1>3, <1>4, StepKinds

LEMMA AnsweredCounts == AnsweredInv => EachIsAnsweredOnce
  <1> SUFFICES ASSUME AnsweredInv, NEW i \in 1..Len(requests)
               PROVE  LET count == Cardinality({a \in answers : a.asked = i})
                      IN /\ count <= 1
                         /\ state = "records" /\ requests[i].session = session /\ i # serving
                              => count = 1
    BY DEF EachIsAnsweredOnce
  <1> DEFINE replies == {a \in answers : a.asked = i}
  <1>1. CASE replies = {}
    <2>1. Cardinality(replies) = 0 BY <1>1, FS_EmptySet
    <2>2. ~Replied(i) BY <1>1 DEF Replied
    <2> QED BY <2>1, <2>2 DEF AnsweredInv
  <1>2. CASE replies # {}
    <2>1. PICK a : a \in replies BY <1>2
    <2>2. replies = {a} BY <2>1 DEF AnsweredInv
    <2>3. Cardinality(replies) = 1 BY <2>2, FS_Singleton
    <2> QED BY <2>3
  <1> QED BY <1>1, <1>2

(* A client that stays connected gets exactly one answer to each of its    *)
(* records, whatever sessions and records the wait of a source command     *)
(* nests (rtcp_server.cpp, serviceSource and sendApplication).             *)
THEOREM RecordsAreAnswered == SessionSpec => []EachIsAnsweredOnce
  <1>1. SessionInit => AnsweredInv /\ TransitionIsOwned
    BY DEF SessionInit, AnsweredInv, Replied, TransitionIsOwned
  <1> QED
    BY <1>1, RecordsInit, RecordsStep, TransitionStep, AnsweredStep, AnsweredCounts, PTL
    DEF SessionSpec
=============================================================================
