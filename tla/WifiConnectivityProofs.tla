------------------------ MODULE WifiConnectivityProofs ------------------------
(***************************************************************************)
(* Theorems of WifiConnectivity, for every length of the queue, every      *)
(* number of polls and every set of credentials: what the loop knows and   *)
(* saves is true of the framework, whatever events the queue has dropped.  *)
(***************************************************************************)
EXTENDS WifiConnectivity, Integers, TLAPS

USE DEF linkVars, modelVars, attemptVars, historyVars, wifiVars

-----------------------------------------------------------------------------
(* Types, with what the code returns to after an update, and an            *)
(* association that has its credentials.                                   *)
Associated == status \in {"idle", "connected"} => link \in Credentials

TypeInv == WifiTypeOK /\ after \in {"loop", "wait", "save"} /\ Associated

Models ==
  [state: {"down", "connecting", "connected"},
   connectedSince: 0..MaxClock, hasConnected: BOOLEAN,
   lastDisconnect: 0..MaxClock, hasDisconnected: BOOLEAN]

LEMMA Bounds ==
  0 \in 0..MaxClock /\ 0 \in 0..MaxPolls /\ Default \in Credentials
  BY WifiConstants

LEMMA UnconnectedType == Unconnected \in Models
  BY Bounds DEF Unconnected, Models

LEMMA ApplyType ==
  ASSUME NEW m \in Models, NEW event \in Events, NEW at \in 0..MaxClock
  PROVE  apply(m, event, at) \in Models
  BY DEF Models, apply, Events, Raised

LEMMA ReconcileType ==
  ASSUME NEW m \in Models, NEW actual \in {"down", "connecting", "connected"},
         NEW now \in 0..MaxClock
  PROVE  reconcile(m, actual, now) \in Models
  BY DEF Models, reconcile

Items == [event: Events, at: 0..MaxClock]

(* The three parts of the type invariant: the framework's and the queue,   *)
(* the model, and the loop's.                                              *)
LinkType ==
  /\ clock \in 0..MaxClock /\ status \in Statuses
  /\ raised \in Seq(Events) /\ Len(raised) <= 1
  /\ queue \in Seq(Items) /\ Len(queue) <= QueueSize
  /\ link \in Credentials \union {NoCredential} /\ Associated

ModelType ==
  /\ model \in Models /\ address \in BOOLEAN
  /\ exposed \in {"disconnected", "connecting", "connected", "error"}

LoopType ==
  /\ attempting \in BOOLEAN
  /\ pc \in {"boot", "drain", "wait", "verify", "save", "succeeded",
             "failed", "loop"}
  /\ after \in {"loop", "wait", "save"}
  /\ phase \in {"boot", "saved", "default", "web", "loop"}
  /\ polls \in 0..MaxPolls
  /\ wanted \in Credentials \union {NoCredential}
  /\ flash \in Credentials \union {NoCredential}
  /\ proven \subseteq Credentials /\ overOld \in BOOLEAN /\ savedOverOld \in BOOLEAN

LEMMA TypeParts == TypeInv <=> LinkType /\ ModelType /\ LoopType
  BY DEF TypeInv, WifiTypeOK, LinkType, ModelType, LoopType, Models, Items

LEMMA LinkStep == LinkType /\ ModelType /\ LoopType /\ WifiNext => LinkType'
  <1> SUFFICES ASSUME LinkType, ModelType, LoopType, WifiNext PROVE LinkType'
    OBVIOUS
  <1> USE WifiConstants DEF Associated
  <1>1. CASE Tick BY <1>1 DEF Tick, LinkType
  <1>2. ASSUME NEW event \in Raised, LinkMoves(event) PROVE LinkType'
    <2>1. raised' \in Seq(Events) /\ Len(raised') = 1
      BY <1>2 DEF LinkMoves, Events
    <2>2. status' \in Statuses BY <1>2 DEF LinkMoves, LinkType, Statuses
    <2>3. wanted \in Credentials BY <1>2 DEF LinkMoves, LoopType
    <2>4. link' \in Credentials \union {NoCredential} /\ Associated'
      BY <1>2, <2>3 DEF LinkMoves, LinkType
    <2> QED BY <1>2, <2>1, <2>2, <2>4 DEF LinkMoves, LinkType
  <1>3. CASE HandleEvent
    <2> DEFINE item == [event |-> raised[1], at |-> clock]
    <2>1. raised[1] \in Events BY <1>3 DEF HandleEvent, LinkType
    <2>2. item \in Items BY <2>1 DEF LinkType, Items
    <2>3. queue' = IF Len(queue) < QueueSize THEN Append(queue, item) ELSE queue
      BY <1>3 DEF HandleEvent
    <2> HIDE DEF item
    <2>4. queue' \in Seq(Items) /\ Len(queue') <= QueueSize
      BY <2>2, <2>3 DEF LinkType
    <2> QED BY <1>3, <2>4 DEF HandleEvent, LinkType
  <1>4. CASE ProcessEvent BY <1>4 DEF ProcessEvent, LinkType
  <1>5. CASE UNCHANGED linkVars BY <1>5 DEF LinkType
  <1>6. ASSUME NEW credential, NEW for, Connect(credential, for) PROVE LinkType'
    BY <1>6 DEF Connect, LinkType, Statuses
  <1>7. CASE Restart BY <1>7 DEF Restart, LinkType, Statuses
  <1> QED
    BY <1>1, <1>2, <1>3, <1>4, <1>5, <1>6, <1>7
    DEF WifiNext, UpdateStatus, Poll, WaitEnds, Verify, SaveConfig, TrySaved,
        TryDefault, Joined, OpenPortal, Turn, WiFiSave, Refused, Running

LEMMA ModelStep == LinkType /\ ModelType /\ LoopType /\ WifiNext => ModelType'
  <1> SUFFICES ASSUME LinkType, ModelType, LoopType, WifiNext PROVE ModelType'
    OBVIOUS
  <1>1. CASE ProcessEvent
    <2>1. queue[1] \in Items BY <1>1 DEF ProcessEvent, LinkType
    <2>2. queue[1].event \in Events /\ queue[1].at \in 0..MaxClock
      BY <2>1 DEF Items
    <2>3. model' \in Models
      BY <1>1, <2>2, ApplyType DEF ProcessEvent, ModelType
    <2> QED BY <1>1, <2>3 DEF ProcessEvent, ModelType, Exposed, Models
  <1>2. CASE UpdateStatus
    <2>1. model' \in Models
      BY <1>2, ReconcileType DEF UpdateStatus, ModelType, LinkType, Observed
    <2> QED BY <1>2, <2>1 DEF UpdateStatus, ModelType, Exposed, Models
  <1>3. CASE Verify BY <1>3 DEF Verify, ModelType
  <1>4. ASSUME NEW credential, NEW for, Connect(credential, for) PROVE ModelType'
    BY <1>4 DEF Connect, ModelType
  <1>5. CASE Restart
    BY <1>5, UnconnectedType DEF Restart, ModelType
  <1>6. CASE UNCHANGED modelVars BY <1>6 DEF ModelType
  <1> QED
    BY <1>1, <1>2, <1>3, <1>4, <1>5, <1>6
    DEF WifiNext, Tick, LinkMoves, HandleEvent, Poll, WaitEnds, SaveConfig,
        TrySaved, TryDefault, Joined, OpenPortal, Turn, WiFiSave, Refused, Running

LEMMA LoopStep == LinkType /\ ModelType /\ LoopType /\ WifiNext => LoopType'
  <1> SUFFICES ASSUME LinkType, ModelType, LoopType, WifiNext PROVE LoopType'
    OBVIOUS
  <1> USE Bounds DEF LoopType
  <1>1. CASE Tick BY <1>1 DEF Tick
  <1>2. ASSUME NEW event \in Raised, LinkMoves(event) PROVE LoopType'
    BY <1>2 DEF LinkMoves, LinkType, Associated
  <1>3. CASE HandleEvent BY <1>3 DEF HandleEvent
  <1>4. CASE ProcessEvent BY <1>4 DEF ProcessEvent
  <1>5. CASE UpdateStatus BY <1>5 DEF UpdateStatus
  <1>6. CASE Poll BY <1>6, WifiConstants DEF Poll, Update
  <1>7. CASE WaitEnds BY <1>7 DEF WaitEnds
  <1>8. CASE Verify BY <1>8 DEF Verify, Update
  <1>9. CASE SaveConfig BY <1>9 DEF SaveConfig
  <1>10. CASE TrySaved BY <1>10 DEF TrySaved, Connect
  <1>11. CASE TryDefault BY <1>11 DEF TryDefault, Connect
  <1>12. CASE Joined BY <1>12 DEF Joined, Running
  <1>13. CASE OpenPortal BY <1>13 DEF OpenPortal, Running
  <1>14. CASE Turn BY <1>14 DEF Turn, Update
  <1>15. ASSUME NEW credential \in Credentials, WiFiSave(credential) PROVE LoopType'
    BY <1>15 DEF WiFiSave, Connect
  <1>16. CASE Refused BY <1>16 DEF Refused, Running
  <1>17. CASE Restart BY <1>17 DEF Restart
  <1> QED
    BY <1>1, <1>2, <1>3, <1>4, <1>5, <1>6, <1>7, <1>8, <1>9, <1>10, <1>11, <1>12,
       <1>13, <1>14, <1>15, <1>16, <1>17 DEF WifiNext

LEMMA TypeStep == TypeInv /\ [WifiNext]_wifiVars => TypeInv'
  <1> SUFFICES ASSUME TypeInv, [WifiNext]_wifiVars PROVE TypeInv'
    OBVIOUS
  <1>1. LinkType /\ ModelType /\ LoopType BY TypeParts
  <1>2. CASE WifiNext
    <2>1. LinkType' /\ ModelType' /\ LoopType'
      BY <1>1, <1>2, LinkStep, ModelStep, LoopStep
    <2> QED BY <2>1 DEF TypeInv, WifiTypeOK, LinkType, ModelType, LoopType, Models, Items
  <1>3. CASE UNCHANGED wifiVars BY <1>3 DEF TypeInv, WifiTypeOK, Associated
  <1> QED BY <1>2, <1>3

LEMMA TypeBegins == WifiInit => TypeInv
  <1> SUFFICES ASSUME WifiInit PROVE TypeInv
    OBVIOUS
  <1> USE WifiConstants, Bounds DEF WifiInit
  <1>1. LinkType BY DEF LinkType, Statuses, Associated
  <1>2. ModelType BY UnconnectedType DEF ModelType
  <1>3. LoopType BY DEF LoopType
  <1> QED BY <1>1, <1>2, <1>3, TypeParts

(* Every variable keeps its type: the queue never outgrows its size and    *)
(* the clock of an event is one the loop has seen.                         *)
THEOREM WifiTypeCorrect == WifiSpec => []WifiTypeOK
  <1>1. TypeInv => WifiTypeOK BY DEF TypeInv
  <1> QED BY TypeBegins, TypeStep, <1>1, PTL DEF WifiSpec

-----------------------------------------------------------------------------
(* What is about to be saved by an attempt that began with no link up has  *)
(* got an address: a link that is up then is the attempt's own, a status   *)
(* of connected is proof of its credentials, and nothing replaces them     *)
(* between the second look and the save, although the link may be lost.    *)
Attempted == pc \in {"wait", "verify"} \/ (pc = "drain" /\ after = "wait")

CredentialInv ==
  /\ SavedHadAddress
  /\ status = "connected" => link \in proven
  /\ ~overOld /\ Attempted /\ status \in {"idle", "connected"} => link = wanted
  /\ ~overOld /\ (pc = "save" \/ (pc = "drain" /\ after = "save")) => wanted \in proven

LEMMA CredentialStep ==
  TypeInv /\ CredentialInv /\ [WifiNext]_wifiVars => CredentialInv'
  <1> SUFFICES ASSUME TypeInv, CredentialInv, [WifiNext]_wifiVars
               PROVE  CredentialInv'
    OBVIOUS
  <1> USE DEF CredentialInv, SavedHadAddress, Attempted
  <1>1. CASE Tick BY <1>1 DEF Tick
  <1>2. ASSUME NEW event \in Raised, LinkMoves(event) PROVE CredentialInv'
    BY <1>2 DEF LinkMoves
  <1>3. CASE HandleEvent BY <1>3 DEF HandleEvent
  <1>4. CASE ProcessEvent BY <1>4 DEF ProcessEvent
  <1>5. CASE UpdateStatus BY <1>5 DEF TypeInv, UpdateStatus
  <1>6. CASE Poll BY <1>6 DEF Poll, Update
  <1>7. CASE WaitEnds BY <1>7 DEF WaitEnds
  <1>8. CASE Verify BY <1>8 DEF Verify, Update
  <1>9. CASE SaveConfig BY <1>9 DEF SaveConfig
  <1>10. CASE TrySaved BY <1>10 DEF TrySaved, Connect
  <1>11. CASE TryDefault BY <1>11 DEF TryDefault, Connect
  <1>12. CASE Joined BY <1>12 DEF Joined, Running
  <1>13. CASE OpenPortal BY <1>13 DEF OpenPortal, Running
  <1>14. CASE Turn BY <1>14 DEF Turn, Update
  <1>15. ASSUME NEW credential \in Credentials, WiFiSave(credential)
         PROVE  CredentialInv'
    BY <1>15 DEF WiFiSave, Connect
  <1>16. CASE Refused BY <1>16 DEF Refused, Running
  <1>17. CASE Restart BY <1>17 DEF Restart
  <1>18. CASE UNCHANGED wifiVars BY <1>18
  <1> QED
    BY <1>1, <1>2, <1>3, <1>4, <1>5, <1>6, <1>7, <1>8, <1>9, <1>10, <1>11, <1>12,
       <1>13, <1>14, <1>15, <1>16, <1>17, <1>18 DEF WifiNext

(* The flash holds no credentials that never got an address, unless an     *)
(* attempt that began with an earlier link up has written them: whatever   *)
(* the link does during the attempt, and also when the power fails at any  *)
(* step of it (net_manager.cpp:93-125).                                    *)
THEOREM SavedHasConnected == WifiSpec => []SavedHadAddress
  <1>1. WifiInit => CredentialInv
    BY DEF WifiInit, CredentialInv, SavedHadAddress, Attempted
  <1>2. CredentialInv => SavedHadAddress BY DEF CredentialInv
  <1> QED
    BY TypeBegins, TypeStep, <1>1, CredentialStep, <1>2, PTL DEF WifiSpec

-----------------------------------------------------------------------------
(* Time.  The events wait in the order they were handled in, none of them  *)
(* before the last disconnection the model knows of or after now: what the *)
(* model takes for the beginning of a connection, an event's stamp or now, *)
(* is then not before that disconnection.                                  *)
StampsInOrder ==
  /\ model.lastDisconnect <= clock
  /\ \A i \in 1..Len(queue) : model.lastDisconnect <= queue[i].at /\ queue[i].at <= clock
  /\ \A i, j \in 1..Len(queue) : i <= j => queue[i].at <= queue[j].at

SinceInOrder ==
  model.hasConnected /\ model.hasDisconnected =>
    model.connectedSince >= model.lastDisconnect

(* Between two updates the model's parts agree; while the events are       *)
(* drained only one direction holds.                                       *)
ShownTogether ==
  /\ model.state = "connected" => model.hasConnected
  /\ pc # "drain" =>
       /\ model.hasConnected => model.state = "connected"
       /\ address => model.hasConnected

TimeInv == StampsInOrder /\ SinceInOrder /\ ShownTogether

LEMMA HandledInOrder ==
  ASSUME TypeInv, StampsInOrder, HandleEvent
  PROVE  StampsInOrder'
  <1> DEFINE item == [event |-> raised[1], at |-> clock]
  <1>1. LinkType /\ ModelType BY TypeParts
  <1>2. item \in Items /\ item.at = clock
    BY <1>1 DEF HandleEvent, LinkType, Items
  <1>3. /\ queue' = IF Len(queue) < QueueSize THEN Append(queue, item) ELSE queue
        /\ UNCHANGED <<clock, model>>
    BY DEF HandleEvent
  <1> HIDE DEF item
  <1>4. CASE queue' = queue BY <1>3, <1>4 DEF StampsInOrder
  <1>5. CASE queue' = Append(queue, item)
    <2>1. queue \in Seq(Items) /\ clock \in Int BY <1>1 DEF LinkType
    <2>2. /\ Len(queue') = Len(queue) + 1 /\ Len(queue) \in Nat
          /\ \A i \in 1..Len(queue) : queue'[i] = queue[i]
          /\ queue'[Len(queue) + 1] = item
      BY <1>2, <1>5, <2>1
    <2>3. \A i \in 1..Len(queue') : i \in 1..Len(queue) \/ i = Len(queue) + 1
      BY <2>2
    <2>4. \A i \in 1..Len(queue') :
            model.lastDisconnect <= queue'[i].at /\ queue'[i].at <= clock
      BY <1>2, <2>1, <2>2, <2>3 DEF StampsInOrder
    <2>5. \A i, j \in 1..Len(queue') : i <= j => queue'[i].at <= queue'[j].at
      <3> SUFFICES ASSUME NEW i \in 1..Len(queue'), NEW j \in 1..Len(queue'), i <= j
                   PROVE  queue'[i].at <= queue'[j].at
        OBVIOUS
      <3>1. CASE j = Len(queue) + 1 BY <1>2, <2>2, <2>4, <3>1
      <3>2. CASE j \in 1..Len(queue)
        <4>1. i \in 1..Len(queue) BY <2>2, <3>2
        <4> QED BY <2>2, <3>2, <4>1 DEF StampsInOrder
      <3> QED BY <2>3, <3>1, <3>2
    <2> QED BY <1>3, <2>4, <2>5 DEF StampsInOrder
  <1> QED BY <1>3, <1>4, <1>5

LEMMA ProcessedInOrder ==
  ASSUME TypeInv, TimeInv, ProcessEvent
  PROVE  TimeInv'
  <1> DEFINE item == queue[1]
  <1>1. LinkType /\ ModelType BY TypeParts
  <1>2. /\ queue # <<>> /\ queue' = Tail(queue) /\ pc = "drain"
        /\ model' = apply(model, item.event, item.at)
        /\ clock' = clock /\ pc' = pc
    BY DEF ProcessEvent
  <1>3. queue \in Seq(Items) /\ model \in Models /\ clock \in Int
    BY <1>1 DEF LinkType, ModelType
  <1>4. item \in Items /\ item.event \in Events /\ item.at \in 0..MaxClock
    <2>1. item \in Items BY <1>2, <1>3
    <2> QED BY <2>1 DEF Items
  <1>5. /\ Len(queue) \in Nat \ {0} /\ Len(queue') = Len(queue) - 1
        /\ \A i \in 1..Len(queue') : queue'[i] = queue[i + 1] /\ i + 1 \in 1..Len(queue)
    BY <1>2, <1>3
  <1>6. /\ model.lastDisconnect <= clock
        /\ model.lastDisconnect <= item.at /\ item.at <= clock
        /\ \A i \in 1..Len(queue) :
             /\ model.lastDisconnect <= queue[i].at /\ queue[i].at <= clock
             /\ item.at <= queue[i].at
        /\ \A i, j \in 1..Len(queue) : i <= j => queue[i].at <= queue[j].at
    BY <1>5 DEF TimeInv, StampsInOrder
  <1>7. model'.lastDisconnect \in {model.lastDisconnect, item.at}
    BY <1>2, <1>3, <1>4 DEF apply, Models, Events, Raised
  <1>8. SinceInOrder'
    BY <1>2, <1>3, <1>4, <1>6
    DEF apply, Models, Events, Raised, TimeInv, SinceInOrder
  <1>9. model'.state = "connected" => model'.hasConnected
    BY <1>2, <1>3, <1>4 DEF apply, Models, Events, Raised, TimeInv, ShownTogether
  <1> HIDE DEF item
  <1>10. StampsInOrder'
    <2>1. model'.lastDisconnect <= clock' BY <1>2, <1>6, <1>7
    <2>2. \A i \in 1..Len(queue') :
            model'.lastDisconnect <= queue'[i].at /\ queue'[i].at <= clock'
      BY <1>2, <1>5, <1>6, <1>7
    <2>3. \A i, j \in 1..Len(queue') : i <= j => queue'[i].at <= queue'[j].at
      <3> SUFFICES ASSUME NEW i \in 1..Len(queue'), NEW j \in 1..Len(queue'), i <= j
                   PROVE  queue'[i].at <= queue'[j].at
        OBVIOUS
      <3>1. /\ queue'[i] = queue[i + 1] /\ i + 1 \in 1..Len(queue)
            /\ queue'[j] = queue[j + 1] /\ j + 1 \in 1..Len(queue)
        BY <1>5
      <3>2. i + 1 <= j + 1 BY <1>5
      <3> QED BY <1>6, <3>1, <3>2
    <2> QED BY <2>1, <2>2, <2>3 DEF StampsInOrder
  <1> QED BY <1>2, <1>8, <1>9, <1>10 DEF TimeInv, ShownTogether

LEMMA UpdatedInOrder ==
  ASSUME TypeInv, TimeInv, UpdateStatus
  PROVE  TimeInv'
  <1>1. model \in Models /\ clock \in 0..MaxClock
    BY TypeParts DEF LinkType, ModelType
  <1>2. /\ model' = reconcile(model, Observed, clock)
        /\ address' = (status = "connected") /\ UNCHANGED <<clock, queue>>
    BY DEF UpdateStatus
  <1>3. /\ model'.state = Observed
        /\ model'.lastDisconnect = model.lastDisconnect
        /\ model'.hasDisconnected = model.hasDisconnected
        /\ model'.hasConnected <=> Observed = "connected"
        /\ model'.connectedSince =
             IF Observed = "connected" /\ model.state # "connected"
               THEN clock ELSE model.connectedSince
    BY <1>1, <1>2 DEF reconcile, Models, TimeInv, ShownTogether
  <1>4. Observed = "connected" <=> status = "connected" BY DEF Observed
  <1>5. StampsInOrder' BY <1>2, <1>3 DEF TimeInv, StampsInOrder
  <1>6. SinceInOrder'
    BY <1>1, <1>3 DEF TimeInv, StampsInOrder, SinceInOrder, ShownTogether, Models
  <1>7. ShownTogether' BY <1>2, <1>3, <1>4 DEF ShownTogether
  <1> QED BY <1>5, <1>6, <1>7 DEF TimeInv

LEMMA TimeStep == TypeInv /\ TimeInv /\ [WifiNext]_wifiVars => TimeInv'
  <1> SUFFICES ASSUME TypeInv, TimeInv, [WifiNext]_wifiVars PROVE TimeInv'
    OBVIOUS
  <1> USE DEF TimeInv
  <1>1. CASE Tick
    <2>1. LinkType /\ ModelType BY TypeParts
    <2>2. UNCHANGED <<queue, model, pc, address>> /\ clock' = clock + 1
      BY <1>1 DEF Tick
    <2>3. queue \in Seq(Items) /\ model \in Models /\ clock \in Int
      BY <2>1 DEF LinkType, ModelType
    <2>4. \A i \in 1..Len(queue) : queue[i].at \in Int
      <3>1. \A i \in 1..Len(queue) : queue[i] \in Items BY <2>3
      <3> QED BY <3>1 DEF Items
    <2>5. StampsInOrder' BY <2>2, <2>3, <2>4 DEF StampsInOrder, Models
    <2> QED BY <2>2, <2>5 DEF SinceInOrder, ShownTogether
  <1>2. CASE HandleEvent
    <2>1. StampsInOrder' BY <1>2, HandledInOrder
    <2>2. UNCHANGED <<model, pc, address>> BY <1>2 DEF HandleEvent
    <2> QED BY <2>1, <2>2 DEF SinceInOrder, ShownTogether
  <1>3. CASE ProcessEvent BY <1>3, ProcessedInOrder
  <1>4. CASE UpdateStatus BY <1>4, UpdatedInOrder
  <1>5. CASE Restart
    <2>1. queue' = <<>> /\ model' = Unconnected /\ clock' = 0 /\ address' = FALSE
      BY <1>5 DEF Restart
    <2>2. StampsInOrder' BY <2>1 DEF StampsInOrder, Unconnected
    <2> QED BY <2>1, <2>2 DEF SinceInOrder, ShownTogether, Unconnected
  <1>6. ASSUME UNCHANGED <<clock, queue, model>>, address' => address,
               pc = "drain" => pc' = "drain"
        PROVE  TimeInv'
    BY <1>6 DEF StampsInOrder, SinceInOrder, ShownTogether
  <1>7. ASSUME NEW event \in Raised, LinkMoves(event) PROVE TimeInv'
    BY <1>6, <1>7 DEF LinkMoves
  <1>8. CASE Poll BY <1>6, <1>8 DEF Poll, Update
  <1>9. CASE WaitEnds BY <1>6, <1>9 DEF WaitEnds
  <1>10. CASE Verify BY <1>6, <1>10 DEF Verify, Update
  <1>11. CASE SaveConfig BY <1>6, <1>11 DEF SaveConfig
  <1>12. CASE TrySaved BY <1>6, <1>12 DEF TrySaved, Connect
  <1>13. CASE TryDefault BY <1>6, <1>13 DEF TryDefault, Connect
  <1>14. CASE Joined BY <1>6, <1>14 DEF Joined, Running
  <1>15. CASE OpenPortal BY <1>6, <1>15 DEF OpenPortal, Running
  <1>16. CASE Turn BY <1>6, <1>16 DEF Turn, Update
  <1>17. ASSUME NEW credential \in Credentials, WiFiSave(credential) PROVE TimeInv'
    BY <1>6, <1>17 DEF WiFiSave, Connect
  <1>18. CASE Refused BY <1>6, <1>18 DEF Refused, Running
  <1>19. CASE UNCHANGED wifiVars BY <1>6, <1>19
  <1> QED
    BY <1>1, <1>2, <1>3, <1>4, <1>5, <1>7, <1>8, <1>9, <1>10, <1>11, <1>12,
       <1>13, <1>14, <1>15, <1>16, <1>17, <1>18, <1>19 DEF WifiNext

(* A connection is never shown with a time before the last disconnection   *)
(* shown beside it, however many events the full queue has dropped         *)
(* (wifi_connectivity_model.h, applied at net_manager.cpp:295 and 311).    *)
THEOREM SinceCorrect == WifiSpec => []SinceIsAfterLoss
  <1>1. WifiInit => TimeInv
    BY DEF WifiInit, TimeInv, StampsInOrder, SinceInOrder, ShownTogether, Unconnected
  <1>2. TypeInv /\ TimeInv => SinceIsAfterLoss
    BY DEF TimeInv, SinceInOrder, ShownTogether, SinceIsAfterLoss
  <1> QED
    BY TypeBegins, TypeStep, <1>1, TimeStep, <1>2, PTL DEF WifiSpec
=============================================================================
