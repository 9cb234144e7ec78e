--------------------------- MODULE WifiConnectivity ---------------------------
(***************************************************************************)
(* The WiFi manager of src/src/net_manager.cpp with the connectivity model *)
(* it keeps, setupWiFi of main.cpp and the configuration portal of         *)
(* web_portal.cpp.  The framework changes its status and raises an event   *)
(* in a task of its own; the event is queued for the loop, or dropped when *)
(* the queue is full; the loop drains the queue and then believes the      *)
(* framework's status.                                                     *)
(*                                                                         *)
(* External: the framework of the station, as its events and its status    *)
(* are used here.  begin() asks for the old connection to be given up; its *)
(* status may show that connection still when begin() has returned.        *)
(* Abstracted: credentials are values; the address is live or not; the     *)
(* signal, the scan, which nothing calls, and configPortalActive, which no *)
(* step of the manager reads, are left out.                                *)
(***************************************************************************)
EXTENDS Naturals, Sequences

CONSTANTS
  Credentials,  \* what a user may type, and config.h's
  Default,      \* WIFI_SSID and WIFI_PASSWORD of config.h
  NoCredential, \* nothing in the flash, or a checksum that fails
  QueueSize,    \* 12
  MaxPolls,     \* polls of a connection attempt: 20 s, every 500 ms
  MaxClock      \* Bound of the clock.

ASSUME WifiConstants ==
  /\ Default \in Credentials /\ NoCredential \notin Credentials
  /\ QueueSize \in Nat \ {0} /\ MaxPolls \in Nat \ {0} /\ MaxClock \in Nat

VARIABLES
  clock,
  status,     \* WiFi.status()
  link,       \* the credentials of the association, while there is one
  raised,     \* the event the framework is about to hand to the handler
  queue,      \* eventQueue: events and the times they were handled at
  model,      \* the connectivity model's snapshot
  exposed,    \* currentState
  address,    \* ipAddress holds one
  pc,         \* what the loop is about to do
  after,      \* where update() returns to
  phase,      \* on whose behalf: boot's two attempts, the loop, a web form
  attempting, \* connectAttemptInProgress
  polls,
  wanted,     \* connectedSSID and connectedPassword
  flash,
  proven,     \* history: credentials that have got an address
  overOld,    \* history: the attempt in progress began with a link up
  savedOverOld \* history: and such an attempt wrote the flash

linkVars == <<clock, status, link, raised, queue>>
modelVars == <<model, exposed, address>>
attemptVars == <<phase, attempting, polls, wanted, flash>>
historyVars == <<proven, overOld, savedOverOld>>
wifiVars == <<linkVars, modelVars, pc, after, attemptVars, historyVars>>

(* Nothing in the program stops the station: that event is never raised.   *)
Raised == {"started", "associated", "disconnected", "gotIp", "lostIp"}
Events == Raised \union {"stopped"}
Statuses == {"connected", "idle", "failed", "down"}

-----------------------------------------------------------------------------
(* The connectivity model.                                                 *)
Unconnected ==
  [state |-> "down", connectedSince |-> 0, hasConnected |-> FALSE,
   lastDisconnect |-> 0, hasDisconnected |-> FALSE]

apply(m, event, at) ==
  CASE event \in {"started", "associated"} -> [m EXCEPT !.state = "connecting"]
    [] event = "disconnected" ->
         [m EXCEPT !.state = "down", !.hasConnected = FALSE,
                   !.lastDisconnect = at, !.hasDisconnected = TRUE]
    [] event = "gotIp" ->
         [m EXCEPT !.state = "connected", !.hasConnected = TRUE, !.connectedSince = at]
    [] event = "lostIp" -> [m EXCEPT !.state = "connecting", !.hasConnected = FALSE]
    [] event = "stopped" -> [m EXCEPT !.state = "down", !.hasConnected = FALSE]

reconcileWithoutTime(m, actual, now) ==  \* Mutant: a missed gotIp keeps the old time.
  [m EXCEPT !.state = actual, !.hasConnected = (actual = "connected")]

(* The state follows the framework; a connection whose event was missed    *)
(* starts now.                                                             *)
reconcile(m, actual, now) ==
  LET missed == actual = "connected" /\ m.state # "connected"
  IN  [m EXCEPT !.state = actual,
                !.hasConnected = missed \/ (@ /\ actual = "connected"),
                !.connectedSince = IF missed THEN now ELSE @]

Exposed(state) == IF state = "down" THEN "disconnected" ELSE state

-----------------------------------------------------------------------------
(* The framework's task.                                                   *)
Tick == clock < MaxClock /\ clock' = clock + 1
        /\ UNCHANGED <<status, link, raised, queue, modelVars, pc, after, attemptVars,
                       historyVars>>

LinkMoves(event) ==
  /\ raised = <<>> /\ raised' = <<event>>
  /\ \/ event = "started" /\ status = "down" /\ UNCHANGED status
     \/ event = "associated" /\ status \in {"down", "failed"} /\ status' = "idle"
     \/ event = "gotIp" /\ status = "idle" /\ status' = "connected"
     \/ event = "lostIp" /\ status = "connected" /\ status' = "idle"
     \/ event = "disconnected" /\ status # "down" /\ status' \in {"down", "failed"}
  /\ wanted # NoCredential /\ pc # "boot"
  /\ link' = CASE event = "associated" -> wanted
               [] event = "disconnected" -> NoCredential
               [] OTHER -> link
  /\ proven' = IF event = "gotIp" THEN proven \union {link} ELSE proven
  /\ UNCHANGED <<clock, queue, modelVars, pc, after, attemptVars, overOld, savedOverOld>>

(* wifiEventHandler: stamped here, and dropped when the queue is full.     *)
HandleEventAlways ==  \* Mutant: a full queue grows.
  /\ raised # <<>> /\ raised' = <<>>
  /\ queue' = Append(queue, [event |-> raised[1], at |-> clock])
  /\ UNCHANGED <<clock, status, link, modelVars, pc, after, attemptVars, historyVars>>

HandleEvent ==
  /\ raised # <<>> /\ raised' = <<>>
  /\ queue' = IF Len(queue) < QueueSize
                THEN Append(queue, [event |-> raised[1], at |-> clock]) ELSE queue
  /\ UNCHANGED <<clock, status, link, modelVars, pc, after, attemptVars, historyVars>>

-----------------------------------------------------------------------------
(* update(): the events first, then the framework's status.                *)
Update(return) == pc' = "drain" /\ after' = return

ProcessEvent ==
  /\ pc = "drain" /\ queue # <<>> /\ queue' = Tail(queue)
  /\ model' = apply(model, queue[1].event, queue[1].at)
  /\ exposed' = Exposed(model'.state)
  /\ address' = (address /\ queue[1].event \notin {"disconnected", "lostIp", "stopped"})
  /\ UNCHANGED <<clock, status, link, raised, pc, after, attemptVars, historyVars>>

Observed ==
  IF status = "connected" THEN "connected"
  ELSE IF status = "idle" \/ attempting THEN "connecting" ELSE "down"

UpdateStatus ==
  /\ pc = "drain" /\ queue = <<>> /\ pc' = after /\ after' = "loop"
  /\ model' = reconcile(model, Observed, clock)
  /\ exposed' = IF status = "failed" THEN "error" ELSE Exposed(model'.state)
  /\ address' = (status = "connected")
  /\ UNCHANGED <<linkVars, attemptVars, historyVars>>

-----------------------------------------------------------------------------
(* connect(): it begins, polls until the status says connected or the time *)
(* is over, and saves only what is connected when it looks again.          *)
Connect(credential, for) ==
  /\ wanted' = credential /\ phase' = for
  /\ exposed' = "connecting" /\ attempting' = TRUE /\ polls' = 0
  /\ \/ UNCHANGED <<status, link>>
     \/ status' = "down" /\ link' = NoCredential
  /\ overOld' = (status' \in {"idle", "connected"}) /\ pc' = "wait"
  /\ UNCHANGED <<clock, raised, queue, model, address, after, flash,
                 proven, savedOverOld>>

Poll ==
  /\ pc = "wait" /\ status # "connected" /\ polls < MaxPolls
  /\ polls' = polls + 1 /\ Update("wait")
  /\ UNCHANGED <<linkVars, modelVars, phase, attempting, wanted, flash,
                 historyVars>>

WaitEnds ==
  /\ pc = "wait" /\ (status = "connected" \/ polls = MaxPolls)
  /\ attempting' = FALSE /\ polls' = 0 /\ pc' = "verify"
  /\ UNCHANGED <<linkVars, modelVars, after, phase, wanted, flash,
                 historyVars>>

VerifyByAttempt ==  \* Mutant: it saves when the wait ends, without a second look.
  /\ pc = "verify" /\ Update("save")
  /\ UNCHANGED <<linkVars, modelVars, attemptVars, historyVars>>

Verify ==
  /\ pc = "verify"
  /\ IF status = "connected"
       THEN Update("save") /\ UNCHANGED <<exposed, address>>
       ELSE pc' = "failed" /\ exposed' = "error" /\ address' = FALSE /\ UNCHANGED after
  /\ UNCHANGED <<linkVars, model, attemptVars, historyVars>>

SaveConfig ==
  /\ pc = "save" /\ flash' = wanted /\ pc' = "succeeded"
  /\ savedOverOld' = overOld /\ overOld' = FALSE
  /\ UNCHANGED <<linkVars, modelVars, after, phase, attempting, polls, wanted,
                 proven>>

-----------------------------------------------------------------------------
(* setupWiFi: the saved credentials, config.h's, then the portal.          *)
Running ==
  /\ pc' = "loop" /\ phase' = "loop" /\ overOld' = FALSE
  /\ UNCHANGED <<linkVars, modelVars, after, attempting, polls, wanted, flash,
                 proven, savedOverOld>>

TrySaved == pc = "boot" /\ flash # NoCredential /\ Connect(flash, "saved")

TryDefault ==
  /\ \/ pc = "boot" /\ flash = NoCredential
     \/ phase = "saved" /\ pc = "failed"
     \/ phase = "saved" /\ pc = "succeeded" /\ status # "connected"
  /\ Connect(Default, "default")

Joined ==
  /\ pc = "succeeded" /\ (phase = "saved" => status = "connected")
  /\ Running

OpenPortal ==
  /\ pc = "failed" /\ phase = "default" /\ Running

(* The loop, and a form of the web portal it serves.                       *)
Turn ==
  /\ pc = "loop" /\ Update("loop")
  /\ UNCHANGED <<linkVars, modelVars, attemptVars, historyVars>>

WiFiSave(credential) == pc = "loop" /\ Connect(credential, "web")

Refused == pc = "failed" /\ phase = "web" /\ Running

(* Power is lost: only the flash stays.                                    *)
Restart ==
  /\ pc' = "boot" /\ after' = "loop" /\ phase' = "boot" /\ clock' = 0
  /\ status' = "down" /\ link' = NoCredential
  /\ raised' = <<>> /\ queue' = <<>> /\ model' = Unconnected
  /\ exposed' = "disconnected" /\ address' = FALSE
  /\ attempting' = FALSE /\ polls' = 0 /\ wanted' = flash
  /\ overOld' = FALSE
  /\ UNCHANGED <<flash, proven, savedOverOld>>

WifiInit ==
  /\ clock = 0 /\ status = "down" /\ link = NoCredential /\ raised = <<>> /\ queue = <<>>
  /\ model = Unconnected /\ exposed = "disconnected" /\ address = FALSE
  /\ pc = "boot" /\ after = "loop" /\ phase = "boot"
  /\ attempting = FALSE /\ polls = 0
  /\ wanted = NoCredential /\ flash = NoCredential
  /\ proven = {} /\ overOld = FALSE /\ savedOverOld = FALSE

WifiNext ==
  \/ Tick \/ \E event \in Raised : LinkMoves(event)
  \/ HandleEvent
  \/ ProcessEvent \/ UpdateStatus
  \/ Poll \/ WaitEnds \/ Verify \/ SaveConfig
  \/ TrySaved \/ TryDefault \/ Joined \/ OpenPortal
  \/ Turn \/ \E credential \in Credentials : WiFiSave(credential)
  \/ Refused \/ Restart

WifiSpec == WifiInit /\ [][WifiNext]_wifiVars

-----------------------------------------------------------------------------
(* Type invariant.                                                         *)
WifiTypeOK ==
  /\ clock \in 0..MaxClock /\ status \in Statuses
  /\ raised \in Seq(Events) /\ Len(raised) <= 1
  /\ queue \in Seq([event: Events, at: 0..MaxClock]) /\ Len(queue) <= QueueSize
  /\ model \in [state: {"down", "connecting", "connected"},
                connectedSince: 0..MaxClock, hasConnected: BOOLEAN,
                lastDisconnect: 0..MaxClock, hasDisconnected: BOOLEAN]
  /\ exposed \in {"disconnected", "connecting", "connected", "error"}
  /\ address \in BOOLEAN /\ attempting \in BOOLEAN
  /\ pc \in {"boot", "drain", "wait", "verify", "save", "succeeded",
             "failed", "loop"}
  /\ phase \in {"boot", "saved", "default", "web", "loop"}
  /\ polls \in 0..MaxPolls
  /\ {wanted, flash, link} \subseteq Credentials \union {NoCredential}
  /\ proven \subseteq Credentials /\ overOld \in BOOLEAN /\ savedOverOld \in BOOLEAN

(* A connection is shown with the time it began: whatever was dropped from *)
(* the queue, that time is not before the last disconnection shown beside  *)
(* it, and it is shown exactly while the model says connected; an address  *)
(* is shown only with it.                                                  *)
SinceIsAfterLoss ==
  pc # "drain" =>
    /\ model.hasConnected <=> model.state = "connected"
    /\ address => model.hasConnected
    /\ model.hasConnected /\ model.hasDisconnected =>
         model.connectedSince >= model.lastDisconnect

(* What an attempt that began with no link up has saved got an address     *)
(* once: a mistyped password is refused without being saved                *)
(* (web_portal.cpp:398), also when the link comes and goes or the power    *)
(* fails at any step of the attempt.  An attempt that begins while an      *)
(* earlier link is up, or coming up, may take that one for its own, and    *)
(* save credentials that were never tried: nothing in connect() tells the  *)
(* two apart.                                                              *)
SavedHadAddress == flash # NoCredential /\ ~savedOverOld => flash \in proven

=============================================================================
