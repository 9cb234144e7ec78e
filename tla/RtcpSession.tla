----------------------------- MODULE RtcpSession -----------------------------
(***************************************************************************)
(* The RTCP server of src/src/rtcp_server.cpp: one TCP client at a time,   *)
(* served by poll().  A poll takes at most one record, executes it if it   *)
(* is a command and answers it; only the selection of a source waits, for  *)
(* the display, and the display's wait polls the server again, so that     *)
(* whole sessions may end and begin inside that command.                   *)
(*                                                                         *)
(* Abstracted: the cryptography (a session's keys are the number of its    *)
(* connection, 0 when they are cleared), what the records hold besides     *)
(* what decides how they are served, and the clock: a deadline may pass    *)
(* whenever no complete record is buffered.                                *)
(***************************************************************************)
EXTENDS Naturals, Sequences, FiniteSets

CONSTANTS
  Ids,           \* the request numbers a client uses
  MaxSessions,   \* bound on the number of connections
  MaxRequests,   \* bound on the number of records
  MaxGeneration  \* bound on the number of observed source changes

ASSUME SessionAssumption ==
  /\ 0 \notin Ids
  /\ MaxSessions \in Nat /\ MaxRequests \in Nat /\ MaxGeneration \in Nat

VARIABLES
  state,        \* state_
  session,      \* the number of the connection, 0 before the first one
  keys,         \* the session whose keys are loaded
  tx,           \* tx_counter_
  negotiation,  \* btx_session_: how far the BTX capability got
  last,         \* last_playback_request_ and last_catalog_request_
  audioSource,  \* what the audio player reports, as refreshSourceState sees it
  source,       \* source_state_.source
  generation,   \* source_state_.generation
  transition,   \* source_state_.transition
  serving,      \* the source command whose display wait runs, 0 if none
  requests,     \* history: the records, in the order they were taken
  answers,      \* history: what was written to the socket
  reported,     \* history: the sources told to clients, by their generation
  switched      \* history: the source each selection replaced, by its generation

linkVars == <<state, session, keys, tx, negotiation, last>>
sourceVars == <<source, generation, transition, serving>>
historyVars == <<requests, answers, reported, switched>>
sessionVars == <<linkVars, audioSource, sourceVars, historyVars>>

-----------------------------------------------------------------------------
Deduplicated == {"playback", "catalog"}  \* commands that remember their last
NeedNegotiation == {"menu", "catalog", "state", "select"}
Kinds == {"capability", "read", "playback"} \union NeedNegotiation

NoRequest == [k \in Deduplicated |-> 0]

SessionInit ==
  /\ state = "disabled" /\ session = 0 /\ keys = 0 /\ tx = 1
  /\ negotiation = "before_first" /\ last = NoRequest
  /\ audioSource = "radio" /\ source = "none" /\ generation = 1
  /\ transition = "stable" /\ serving = 0
  /\ requests = <<>> /\ answers = {} /\ reported = {} /\ switched = {}

(* The connection.                                                         *)
Begin ==  \* once the pairing could be read and WiFi is connected
  /\ state = "disabled" /\ state' = "listening"
  /\ UNCHANGED <<session, keys, tx, negotiation, last, audioSource,
                 sourceVars, historyVars>>

CloseKeepsKeys ==  \* Mutant: the keys of the session stay loaded.
  /\ state' = "listening" /\ tx' = 1
  /\ negotiation' = "before_first" /\ last' = NoRequest
  /\ UNCHANGED <<session, keys>>

CloseClient ==
  /\ state' = "listening" /\ keys' = 0 /\ tx' = 1
  /\ negotiation' = "before_first" /\ last' = NoRequest
  /\ UNCHANGED session

AcceptClient ==
  /\ state = "listening" /\ session < MaxSessions
  /\ state' = "client_hello" /\ session' = session + 1
  /\ negotiation' = "before_first" /\ last' = [last EXCEPT !["catalog"] = 0]
  /\ UNCHANGED <<keys, tx, audioSource, sourceVars, historyVars>>

ClientHello ==
  /\ state = "client_hello" /\ state' = "client_finish"
  /\ UNCHANGED <<session, keys, tx, negotiation, last, audioSource,
                 sourceVars, historyVars>>

ClientFinish ==
  /\ state = "client_finish" /\ state' = "records" /\ keys' = session
  /\ UNCHANGED <<session, tx, negotiation, last, audioSource,
                 sourceVars, historyVars>>

(* The peer is gone, a deadline passed, or what it sent is refused: a      *)
(* record out of order, not authentic, malformed or not yet negotiated.    *)
Drop ==
  /\ state \in {"client_hello", "client_finish", "records"}
  /\ CloseClient
  /\ UNCHANGED <<audioSource, sourceVars, historyVars>>

-----------------------------------------------------------------------------
ObservedNothing(kind) == negotiation  \* Mutant: the window never ends.

(* A record is taken: anything but a capability request ends the window in *)
(* which a second one negotiates BTX.                                      *)
Observed(kind) ==
  IF kind # "capability" /\ negotiation = "probe_window" THEN "legacy"
  ELSE negotiation

Serial == Len(requests) + 1

Take(kind, id, executed) ==
  /\ state = "records" /\ Len(requests) < MaxRequests
  /\ kind \in NeedNegotiation => negotiation = "btx"
  /\ requests' = Append(requests, [session |-> session, kind |-> kind,
                                   id |-> id, executed |-> executed])

(* sendApplication: the answer goes to whoever is connected; when it       *)
(* cannot be written the client is closed.                                 *)
Written(asked) ==
  /\ state # "listening"
  /\ answers' = answers \union
       {[asked |-> asked, to |-> session, keys |-> keys, counter |-> tx]}
  /\ tx' = tx + 1
  /\ UNCHANGED <<state, session, keys>>

Reply(progress, remembered) ==
  \/ Written(Serial) /\ negotiation' = progress /\ last' = remembered
  \/ CloseClient /\ UNCHANGED answers

-----------------------------------------------------------------------------
(* Records answered at once, and the commands executed in the same poll.   *)
Capability ==
  /\ negotiation \in {"before_first", "probe_window"}
  /\ Take("capability", 0, FALSE)
  /\ Reply(IF negotiation = "before_first" THEN "probe_window" ELSE "btx", last)
  /\ UNCHANGED <<audioSource, sourceVars, reported, switched>>

(* "read" is the identity, the snapshot, the volume and now playing;       *)
(* "menu" what needs BTX and leaves the server as it is: the menu, catalog *)
(* and browser queries, the Bluetooth state, and the Bluetooth and browser *)
(* commands, which are not compared with their last.                       *)
Read(kind) ==
  /\ Take(kind, 0, FALSE) /\ Reply(Observed(kind), last)
  /\ UNCHANGED <<audioSource, sourceVars, reported, switched>>

CommandAnyway(kind, id) ==  \* Mutant: the last request is not compared.
  /\ \/ Take(kind, id, FALSE) /\ Reply(Observed(kind), last)
     \/ /\ Take(kind, id, TRUE)
        /\ Reply(Observed(kind), [last EXCEPT ![kind] = id])
  /\ UNCHANGED <<audioSource, sourceVars, reported, switched>>

(* A repeated request is busy; another one may be refused by its owner.    *)
Command(kind, id) ==
  /\ \/ /\ id = last[kind]
        /\ Take(kind, id, FALSE) /\ Reply(Observed(kind), last)
     \/ /\ id # last[kind]
        /\ \/ Take(kind, id, FALSE) /\ Reply(Observed(kind), last)
           \/ /\ Take(kind, id, TRUE)
              /\ Reply(Observed(kind), [last EXCEPT ![kind] = id])
  /\ UNCHANGED <<audioSource, sourceVars, reported, switched>>

-----------------------------------------------------------------------------
SameGeneration(known, number, observed) == number  \* Mutant: never advances.

(* refreshSourceState: the generation advances when the source is found    *)
(* changed; before the first look there is nothing to compare.             *)
Advanced(known, number, observed) ==
  IF known \in {"none", observed} THEN number ELSE number + 1

Refresh ==
  /\ source' = audioSource
  /\ generation' = Advanced(source, generation, audioSource)
  /\ generation' <= MaxGeneration

SourceState ==
  /\ Take("state", 0, FALSE) /\ Reply(Observed("state"), last)
  /\ Refresh
  /\ reported' = reported \union {[generation |-> generation', source |-> source']}
  /\ UNCHANGED <<audioSource, transition, serving, switched>>

(* A selection is refused when it names another generation, when one is in *)
(* transition, and needs nothing when the source is there already.         *)
SourceRefused(target, expected) ==
  /\ Take("select", 0, FALSE) /\ Reply(Observed("select"), last)
  /\ Refresh
  /\ expected # generation' \/ transition # "stable" \/ target = source'
  /\ UNCHANGED <<audioSource, transition, serving, reported, switched>>

(* The player refuses, or fails after it left Bluetooth: answered at once. *)
SourceFails(target, expected) ==
  /\ Take("select", 0, FALSE) /\ Reply(Observed("select"), last)
  /\ expected = Advanced(source, generation, audioSource)
  /\ transition = "stable" /\ target # audioSource
  /\ audioSource' \in {audioSource, "radio"} /\ source' = audioSource'
  /\ generation' = Advanced(audioSource, expected, audioSource')
  /\ generation' <= MaxGeneration
  /\ UNCHANGED <<transition, serving, reported, switched>>

(* The player changed its source; the display is drawn, and waits.         *)
SourceSelect(target, expected) ==
  /\ Take("select", 0, TRUE)
  /\ Refresh
  /\ expected = generation' /\ transition = "stable" /\ target # source'
  /\ transition' = IF target = "bluetooth" THEN "starting_bluetooth"
                   ELSE "switching_radio"
  /\ switched' = switched \union {[generation |-> expected, source |-> audioSource]}
  /\ audioSource' = target /\ serving' = Serial
  /\ negotiation' = Observed("select")
  /\ UNCHANGED <<state, session, keys, tx, last, answers, reported>>

SourceDoneForLast ==  \* Mutant: the answer names the last record taken.
  /\ serving # 0 /\ serving' = 0
  /\ transition' = "stable" /\ Refresh
  /\ \/ Written(Len(requests)) /\ UNCHANGED <<negotiation, last>>
     \/ CloseClient /\ UNCHANGED answers
  /\ UNCHANGED <<audioSource, requests, reported, switched>>

SourceDoneIfOpen ==  \* Mutant: nothing is done when the client is gone.
  /\ serving # 0 /\ serving' = 0
  /\ \/ /\ Written(serving) /\ transition' = "stable" /\ Refresh
        /\ UNCHANGED <<negotiation, last>>
     \/ /\ CloseClient
        /\ UNCHANGED <<answers, source, generation, transition>>
  /\ UNCHANGED <<audioSource, requests, reported, switched>>

(* The wait is over.  The answer goes to whoever is connected now.         *)
SourceDone ==
  /\ serving # 0 /\ serving' = 0
  /\ transition' = "stable" /\ Refresh
  /\ \/ Written(serving) /\ UNCHANGED <<negotiation, last>>
     \/ CloseClient /\ UNCHANGED answers
  /\ UNCHANGED <<audioSource, requests, reported, switched>>

(* The physical controls, or a playback command, change the source.        *)
OtherSource ==
  /\ audioSource' \in {"radio", "bluetooth"} \ {audioSource}
  /\ UNCHANGED <<linkVars, sourceVars, historyVars>>

Sources == {"radio", "bluetooth"}
Generations == 1..MaxGeneration

SessionNext ==
  \/ Begin \/ AcceptClient \/ ClientHello \/ ClientFinish \/ Drop
  \/ Capability
  \/ \E kind \in {"read", "menu"} : Read(kind)
  \/ \E kind \in Deduplicated, id \in Ids : Command(kind, id)
  \/ SourceState
  \/ \E target \in Sources, expected \in Generations :
       \/ SourceRefused(target, expected)
       \/ SourceFails(target, expected)
       \/ SourceSelect(target, expected)
  \/ SourceDone
  \/ OtherSource

SessionSpec == SessionInit /\ [][SessionNext]_sessionVars

-----------------------------------------------------------------------------
(* No two answers are encrypted under the same keys and counter: closing,  *)
(* which resets the counter, also forgets the keys, whatever session the   *)
(* end of a source command falls into.                                     *)
NonceNeverReused ==
  \A a, b \in answers :
    a.keys = b.keys /\ a.keys # 0 /\ a.counter = b.counter => a = b

(* A client that stays connected gets one answer to each of its records,   *)
(* except the source command that still waits for the display.             *)
EachIsAnsweredOnce ==
  \A i \in 1..Len(requests) :
    LET count == Cardinality({a \in answers : a.asked = i})
    IN /\ count <= 1
       /\ state = "records" /\ requests[i].session = session /\ i # serving
            => count = 1

(* Records i and j are of one session and of these kinds, and none of that *)
(* session and these kinds was taken in between.                           *)
InARow(i, j, kinds) ==
  /\ i < j /\ requests[i].session = requests[j].session
  /\ requests[i].kind \in kinds /\ requests[j].kind \in kinds
  /\ \A k \in (i + 1)..(j - 1) :
       requests[k].session = requests[i].session => requests[k].kind \notin kinds

(* What needs BTX is served only to a session that itself asked for the    *)
(* capabilities twice, with no other record in between: a legacy client    *)
(* that reads something first is never promoted, whatever another did.     *)
NegotiatedByProbe ==
  \A n \in 1..Len(requests) :
    requests[n].kind \in NeedNegotiation =>
      \E i, j \in 1..(n - 1) :
        /\ InARow(i, j, Kinds) /\ requests[i].session = requests[n].session
        /\ requests[i].kind = "capability" /\ requests[j].kind = "capability"

(* A playback or catalog command sent again as the next of its kind in the *)
(* same session is not executed again.                                     *)
RepeatIsRefused ==
  \A kind \in Deduplicated : \A i, j \in 1..Len(requests) :
    InARow(i, j, {kind}) /\ requests[i].executed /\ requests[j].executed
      => requests[i].id # requests[j].id

(* The selection of a source is never locked out: a transition is on only  *)
(* while the command that began it runs, even if its client is gone.       *)
TransitionIsOwned == transition # "stable" <=> serving # 0

(* A selection that was fenced by a generation a client was told replaces  *)
(* the very source that client was told, however often the physical        *)
(* controls and other sessions changed it in the meantime.                 *)
SelectsFromWhatItSaw ==
  \A s \in switched, r \in reported :
    s.generation = r.generation => s.source = r.source

=============================================================================
