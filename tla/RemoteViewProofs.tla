--------------------------- MODULE RemoteViewProofs ---------------------------
(***************************************************************************)
(* Theorems of what the REMOTE is shown and acts on: of NowPlaying, for    *)
(* every set of names and number of stations, and of RemoteBrowser, for    *)
(* every number of stations, mirrors, attempts, searches and revisions.    *)
(***************************************************************************)
EXTENDS NowPlaying, RemoteBrowser, Integers, SequenceTheorems, TLAPS

USE DEF uiVars, playerVars, remoteVars, nowVars
USE DEF attemptVars, jobVars, listVars, userVars, browserVars

(***************************************************************************)
(* NowPlaying.                                                             *)
(***************************************************************************)
-----------------------------------------------------------------------------
(* Types.  What the loop and the player hold, apart from what is told of   *)
(* it: the projection is built from these alone.                           *)
UiOK ==
  /\ screen \in {"list", "playing", "other"}
  /\ stations \in Seq(Names) /\ Len(stations) <= MaxStations
  /\ selected \in Rows /\ name \in Stations /\ discovered \in BOOLEAN

PlayerOK ==
  /\ source \in Sources /\ playback \in Playbacks
  /\ stream \in Stations /\ title \in Stations /\ committing \in Stations

LoopOK == UiOK /\ PlayerOK /\ start \in Starts

ToldOK ==
  /\ projection \in Projections /\ seen \in Wires /\ misled \in BOOLEAN
  /\ news \in {"none", "unpublished", "unknown"}

LEMMA TypeIsItsParts == NowTypeOK <=> LoopOK /\ ToldOK
  BY DEF NowTypeOK, LoopOK, UiOK, PlayerOK, ToldOK

LEMMA OffersTyped ==
  ASSUME NEW c, NEW s, NEW p, NEW t
  PROVE  Offers(c, s, p, t) \in SUBSET {"play", "pause", "skip"}
  BY DEF Offers

LEMMA NothingOffered ==
  ASSUME NEW s, NEW p
  PROVE  Offers("none", s, p, {}) = {}
  BY DEF Offers

(* A skip leads to a station there is.                                     *)
LEMMA NeighbourIsNear ==
  ASSUME NEW count \in Nat, NEW i \in Nat, i < count, NEW j \in Neighbours(i, count)
  PROVE  j \in 0..(count - 1)
  <1>1. (i + 1) % count \in 0..(count - 1) OBVIOUS
  <1> QED BY <1>1 DEF Neighbours

(* What is published of a loop that is in order is a view.                 *)
LEMMA ViewTyped ==
  /\ LoopOK => CurrentView \in Views
  /\ LoopOK' => CurrentView' \in Views
  <1>1. ASSUME LoopOK PROVE CurrentView \in Views
    <2>1. Context \in Contexts BY <1>1 DEF Context, Contexts, Sources, LoopOK, PlayerOK
    <2>2. Targets(Context) \in SUBSET (0..MaxStations)
      <3>1. Len(stations) \in 0..MaxStations /\ selected \in Nat
        BY <1>1, LenProperties, NowAssumption DEF LoopOK, UiOK, Rows
      <3>2. ASSUME selected < Len(stations),
                   NEW j \in Neighbours(selected, Len(stations))
            PROVE  j \in 0..MaxStations
        <4>1. j \in 0..(Len(stations) - 1) BY <3>1, <3>2, NeighbourIsNear
        <4> QED BY <3>1, <4>1, NowAssumption
      <3> QED BY <3>1, <3>2 DEF Targets
    <2>3. NoName \in Stations BY DEF Stations
    <2> QED BY <1>1, <2>1, <2>2, <2>3, OffersTyped
            DEF CurrentView, Views, LoopOK, UiOK, PlayerOK
  <1>2. ASSUME LoopOK' PROVE CurrentView' \in Views
    <2>1. Context' \in Contexts BY <1>2 DEF Context, Contexts, Sources, LoopOK, PlayerOK
    <2>2. Targets(Context)' \in SUBSET (0..MaxStations)
      <3>1. Len(stations') \in 0..MaxStations /\ selected' \in Nat
        BY <1>2, LenProperties, NowAssumption DEF LoopOK, UiOK, Rows
      <3>2. ASSUME selected' < Len(stations'),
                   NEW j \in Neighbours(selected', Len(stations'))
            PROVE  j \in 0..MaxStations
        <4>1. j \in 0..(Len(stations') - 1) BY <3>1, <3>2, NeighbourIsNear
        <4> QED BY <3>1, <4>1, NowAssumption
      <3> QED BY <3>1, <3>2 DEF Targets
    <2>3. NoName \in Stations BY DEF Stations
    <2> QED BY <1>2, <2>1, <2>2, <2>3, OffersTyped
            DEF CurrentView, Views, LoopOK, UiOK, PlayerOK
  <1> QED BY <1>1, <1>2

LEMMA InvalidatedTyped ==
  ASSUME NEW p \in Projections
  PROVE  /\ Invalidated(p) \in Projections
         /\ Invalidated(p).generation = p.generation + 1
         /\ Invalidated(p).revision = p.revision + 1
         /\ Invalidated(p).preincremented
         /\ Invalidated(p).view.context = "none" /\ Invalidated(p).view.offers = {}
         /\ Invalidated(p).view.targets = {}
  <1> DEFINE blank == [NoView EXCEPT !.source = p.view.source]
  <1>1. NoView \in Views
    BY NowAssumption DEF NoView, Views, Contexts, Sources, Stations
  <1>2. p.view.source \in Sources BY DEF Projections, Views
  <1>3. blank \in Views BY <1>1, <1>2 DEF Views
  <1>4. blank.context = "none" /\ blank.offers = {} /\ blank.targets = {} BY <1>1 DEF NoView
  <1>5. Invalidated(p) = [view |-> blank, generation |-> p.generation + 1,
                          revision |-> p.revision + 1, preincremented |-> TRUE]
    <2> HIDE DEF blank
    <2>1. Invalidated(p) = [p EXCEPT !.view = blank, !.generation = p.generation + 1,
                                     !.revision = p.revision + 1,
                                     !.preincremented = TRUE]
      BY DEF Invalidated, blank
    <2> QED BY <2>1 DEF Projections
  <1> HIDE DEF blank
  <1>6. p.generation + 1 \in Nat /\ p.revision + 1 \in Nat BY DEF Projections
  <1> QED BY <1>3, <1>4, <1>5, <1>6 DEF Projections

LEMMA PublishedTyped ==
  ASSUME NEW p \in Projections, NEW v \in Views
  PROVE  Published(p, v) \in Projections
  BY DEF Published, Projections, Views

LEMMA WireTyped ==
  ASSUME NEW p \in Projections
  PROVE  Wire(p) \in Wires
  BY DEF Wire, Wires, Projections, Views

-----------------------------------------------------------------------------
(* The loop's own state, action by action.                                 *)
LEMMA RowsAndStations ==
  ASSUME LoopOK
  PROVE  /\ Len(stations) \in Nat /\ MaxStations \in Nat
         /\ \A i \in 0..(Len(stations) - 1) : i \in Rows /\ stations[i + 1] \in Stations
  <1>1. stations \in Seq(Names) /\ Len(stations) \in Nat /\ MaxStations \in Nat
    BY LenProperties, NowAssumption DEF LoopOK, UiOK
  <1>2. Len(stations) <= MaxStations BY DEF LoopOK, UiOK
  <1>3. ASSUME NEW i \in 0..(Len(stations) - 1)
        PROVE  i \in Rows /\ stations[i + 1] \in Stations
    <2>1. i + 1 \in 1..Len(stations) BY <1>1
    <2>2. stations[i + 1] \in Names BY <1>1, <2>1, ElementOfSeq
    <2> QED BY <1>1, <1>2, <2>2 DEF Rows, Stations
  <1> QED BY <1>1, <1>3

LEMMA StartsAndStops ==
  ASSUME LoopOK
  PROVE  /\ \A n \in Stations : Started(n) /\ committing' \in Stations => PlayerOK'
         /\ NotOpened => PlayerOK'
         /\ TornDown /\ committing' \in Stations => PlayerOK'
         /\ LoopChanges => committing' \in Stations
         /\ CancelDeferred => start' \in Starts
  <1>1. NoName \in Stations BY DEF Stations
  <1>2. start \in Starts BY DEF LoopOK
  <1>3. [start EXCEPT !.status = "cancelled"] \in Starts BY <1>2 DEF Starts
  <1> QED BY <1>1, <1>2, <1>3
          DEF LoopOK, PlayerOK, Started, NotOpened, TornDown, LoopChanges, CancelDeferred,
              Sources, Playbacks

LEMMA StationPlayed ==
  ASSUME LoopOK, NEW i \in 0..(Len(stations) - 1), PlayStation(i)
  PROVE  LoopOK'
  <1>1. i \in Rows /\ stations[i + 1] \in Stations BY RowsAndStations
  <1>2. UiOK' BY <1>1 DEF PlayStation, LoopOK, UiOK
  <1>3. PlayerOK' /\ start' \in Starts BY <1>1, StartsAndStops DEF PlayStation
  <1> QED BY <1>2, <1>3 DEF LoopOK

LEMMA StationAdded ==
  ASSUME NEW s \in Seq(Names), NEW n \in Names
  PROVE  Append(s, n) \in Seq(Names) /\ Len(Append(s, n)) = Len(s) + 1
  BY AppendProperties

LEMMA StationRemoved ==
  ASSUME NEW s \in Seq(Names), NEW i \in 1..Len(s)
  PROVE  RemoveAt(s, i) \in Seq(Names) /\ Len(RemoveAt(s, i)) = Len(s) - 1
  <1>1. Len(s) \in Nat BY LenProperties
  <1> DEFINE before == SubSeq(s, 1, i - 1)
             after == SubSeq(s, i + 1, Len(s))
  <1>2. \A k \in 1..Len(s) : s[k] \in Names BY ElementOfSeq
  <1>3. before \in Seq(Names) /\ Len(before) = i - 1
    <2>1. \A k \in 1..(i - 1) : s[k] \in Names BY <1>1, <1>2
    <2> QED BY <1>1, <2>1, SubSeqProperties
  <1>4. after \in Seq(Names) /\ Len(after) = Len(s) - i
    <2>1. \A k \in (i + 1)..Len(s) : s[k] \in Names BY <1>1, <1>2
    <2>2. Len(after) = IF i + 1 <= Len(s) THEN Len(s) - (i + 1) + 1 ELSE 0
      BY <1>1, <2>1, SubSeqProperties
    <2> QED BY <1>1, <2>1, <2>2, SubSeqProperties
  <1>5. RemoveAt(s, i) = before \o after BY DEF RemoveAt
  <1> HIDE DEF before, after
  <1>6. before \o after \in Seq(Names) /\ Len(before \o after) = Len(before) + Len(after)
    BY <1>3, <1>4, ConcatProperties
  <1> QED BY <1>1, <1>3, <1>4, <1>5, <1>6

(* The loop and the player stay in order, one step for each action.        *)
LEMMA LoopStaysOK ==
  ASSUME NowTypeOK, NowNext
  PROVE  LoopOK'
  <1>1. LoopOK /\ ToldOK BY TypeIsItsParts
  <1>2. UiOK /\ PlayerOK /\ start \in Starts BY <1>1 DEF LoopOK
  <1>3. /\ Len(stations) \in Nat /\ MaxStations \in Nat
        /\ stations \in Seq(Names) /\ Len(stations) <= MaxStations
    BY <1>1, <1>2, RowsAndStations DEF UiOK
  <1>4. CancelDeferred => start' \in Starts BY <1>1, StartsAndStops
  <1>5. UNCHANGED uiVars => UiOK' BY <1>2 DEF UiOK
  <1>6. UNCHANGED playerVars => PlayerOK' BY <1>2 DEF PlayerOK
  <1>7. Names \subseteq Stations /\ NoName \in Stations BY DEF Stations
  <1>8. ASSUME NEW outcome \in {"succeeded", "failed", "cancelled"}
        PROVE  [start EXCEPT !.status = outcome] \in Starts
    BY <1>2 DEF Starts
  <1>9. CASE MoveCursor
    <2>1. selected' \in Rows BY <1>2, <1>3, <1>9 DEF MoveCursor, UiOK, Rows
    <2> QED BY <1>1, <1>2, <1>6, <1>9, <2>1 DEF MoveCursor, UiOK, LoopOK
  <1>10. CASE SelectRow
    <2>1. selected - 3 \in 0..(Len(stations) - 1) BY <1>3, <1>10 DEF SelectRow
    <2> QED BY <1>1, <1>10, <2>1, StationPlayed DEF SelectRow
  <1>11. CASE SkipKey
    <2>1. PICK i \in Neighbours(selected, Len(stations)) : PlayStation(i)
      BY <1>11 DEF SkipKey
    <2>2. selected \in Nat /\ selected < Len(stations)
      BY <1>2, <1>3, <1>11 DEF SkipKey, UiOK, Rows
    <2>3. i \in 0..(Len(stations) - 1) BY <1>3, <2>1, <2>2, NeighbourIsNear
    <2> QED BY <1>1, <2>1, <2>3, StationPlayed
  <1>12. ASSUME NEW n \in Names, PlayDiscovered(n) PROVE LoopOK'
    <2>1. PlayerOK' /\ start' \in Starts
      BY <1>1, <1>7, <1>12, StartsAndStops DEF PlayDiscovered
    <2>2. UiOK' BY <1>2, <1>7, <1>12 DEF PlayDiscovered, UiOK
    <2> QED BY <2>1, <2>2 DEF LoopOK
  <1>13. CASE ChangeScreen
    <2>1. Stop => PlayerOK'
      BY <1>2, <1>7 DEF Stop, LoopChanges, PlayerOK, Sources, Playbacks
    <2>2. PlayerOK' /\ start' \in Starts BY <1>2, <1>4, <1>6, <1>13, <2>1 DEF ChangeScreen, Stop
    <2>3. UiOK' BY <1>2, <1>13 DEF ChangeScreen, UiOK
    <2> QED BY <2>2, <2>3 DEF LoopOK
  <1>14. CASE ChangeSource
    <2>1. PlayerOK'
      BY <1>2, <1>7, <1>14 DEF ChangeSource, LoopChanges, PlayerOK, Sources, Playbacks
    <2>2. UiOK' BY <1>2, <1>14 DEF ChangeSource, UiOK
    <2> QED BY <1>4, <1>14, <2>1, <2>2 DEF ChangeSource, LoopOK
  <1>15. CASE PauseKey
    BY <1>2, <1>5, <1>15 DEF PauseKey, PlayerOK, LoopOK, Playbacks
  <1>16. CASE EditStations
    <2>1. stations' \in Seq(Names) /\ Len(stations') <= MaxStations
      <3>1. ASSUME NEW n \in Names, Len(stations) < MaxStations,
                   stations' = Append(stations, n)
            PROVE  stations' \in Seq(Names) /\ Len(stations') <= MaxStations
        BY <1>3, <3>1, StationAdded
      <3>2. ASSUME NEW i \in DOMAIN stations, stations' = RemoveAt(stations, i)
            PROVE  stations' \in Seq(Names) /\ Len(stations') <= MaxStations
        <4>1. i \in 1..Len(stations) BY <1>3, LenProperties
        <4> QED BY <1>3, <3>2, <4>1, StationRemoved
      <3> QED BY <1>16, <3>1, <3>2 DEF EditStations
    <2> QED BY <1>2, <1>6, <1>16, <2>1 DEF EditStations, UiOK, LoopOK
  <1>17. CASE StartFails \/ StartCommits \/ StartEnds
    <2>1. [start EXCEPT !.committed = TRUE] \in Starts /\ start.station \in Stations
      BY <1>2 DEF Starts
    <2>2. CASE StartFails
      BY <1>5, <1>6, <1>8, <2>2 DEF StartFails, LoopOK
    <2>3. CASE StartCommits
      <3>1. PlayerOK' BY <1>1, <2>1, <2>3, StartsAndStops DEF StartCommits
      <3> QED BY <1>5, <2>1, <2>3, <3>1 DEF StartCommits, LoopOK
    <2>4. CASE StartEnds
      <3>1. start' \in Starts BY <1>2, <1>8, <2>4 DEF StartEnds, Report
      <3>2. PlayerOK'
        <4>1. committing \in Stations /\ committing' \in Stations
          BY <1>2, <1>7, <2>4 DEF PlayerOK, StartEnds
        <4>2. CASE Started(committing) BY <1>1, <4>1, <4>2, StartsAndStops
        <4>3. CASE UNCHANGED <<source, playback, stream, title>>
          BY <1>2, <4>1, <4>3 DEF PlayerOK
        <4> QED BY <2>4, <4>2, <4>3 DEF StartEnds
      <3> QED BY <1>5, <2>4, <3>1, <3>2 DEF StartEnds, LoopOK
    <2> QED BY <1>17, <2>2, <2>3, <2>4
  <1>18. CASE StreamMoves
    BY <1>2, <1>5, <1>18 DEF StreamMoves, PlayerOK, LoopOK, Playbacks
  <1>19. CASE Publish BY <1>1, <1>5, <1>6, <1>19 DEF Publish, LoopOK
  <1>20. CASE ServiceStart
    <2>1. start' \in Starts
      BY <1>3, <1>7, <1>20 DEF ServiceStart, NoStart, Starts, Rows
    <2>2. start.station \in Stations /\ start.index \in Rows /\ start.saved \in BOOLEAN
      BY <1>2 DEF Starts
    <2>3. stations' = stations BY <1>20 DEF ServiceStart
    <2>4. UiOK'
      <3>1. CASE start.status = "succeeded"
        <4>1. /\ screen' = "playing" /\ name' = start.station /\ discovered' = ~start.saved
              /\ selected' = IF start.saved THEN start.index ELSE selected
          BY <1>20, <3>1 DEF ServiceStart
        <4>2. selected' \in Rows BY <1>2, <2>2, <4>1 DEF UiOK
        <4>3. discovered' \in BOOLEAN BY <4>1
        <4> QED BY <1>2, <2>2, <2>3, <4>1, <4>2, <4>3 DEF UiOK
      <3>2. CASE start.status = "failed"
        <4>1. screen' = "other" /\ UNCHANGED <<selected, name, discovered>>
          BY <1>20, <3>2 DEF ServiceStart
        <4> QED BY <1>2, <2>3, <4>1 DEF UiOK
      <3>3. CASE start.status = "cancelled"
        <4>1. UNCHANGED <<screen, selected, name, discovered>>
          BY <1>20, <3>3 DEF ServiceStart
        <4> QED BY <1>2, <2>3, <4>1 DEF UiOK
      <3> QED BY <1>20, <3>1, <3>2, <3>3 DEF ServiceStart
    <2> QED BY <1>6, <1>20, <2>1, <2>4 DEF ServiceStart, LoopOK
  <1>21. CASE CancelStart BY <1>4, <1>5, <1>6, <1>21 DEF CancelStart, LoopOK
  <1>22. CASE Read BY <1>1, <1>5, <1>6, <1>22 DEF Read, LoopOK
  <1>23. CASE RemoteStart
    <2>1. ASSUME NEW i \in DOMAIN stations
          PROVE  stations[i] \in Stations /\ i - 1 \in Rows
      <3>1. i \in 1..Len(stations) BY <1>3, LenProperties
      <3> QED BY <1>3, <1>7, <3>1, ElementOfSeq DEF Rows
    <2>2. 0 \in Rows BY <1>3 DEF Rows
    <2>3. ASSUME NEW n \in Stations, NEW i \in Rows, NEW saved \in BOOLEAN
          PROVE  [status |-> "running", station |-> n, index |-> i, saved |-> saved,
                  committed |-> FALSE] \in Starts
      BY DEF Starts
    <2>4. start' \in Starts BY <1>7, <1>23, <2>1, <2>2, <2>3 DEF RemoteStart
    <2> QED BY <1>5, <1>6, <1>23, <2>4 DEF RemoteStart, LoopOK
  <1>24. ASSUME NEW op, NEW from, NEW to \in Playbacks, RemotePause(op, from, to)
         PROVE  LoopOK'
    BY <1>2, <1>5, <1>24 DEF RemotePause, PlayerOK, LoopOK
  <1>25. CASE RemoteSkip
    <2>1. PICK i \in projection.view.targets :
            IF i < Len(stations) THEN PlayStation(i)
                                 ELSE UNCHANGED <<uiVars, start, playerVars>>
      BY <1>25 DEF RemoteSkip
    <2>2. i \in Nat BY <1>1, <1>3 DEF ToldOK, Projections, Views
    <2>3. CASE i < Len(stations)
      <3>1. i \in 0..(Len(stations) - 1) BY <1>3, <2>2, <2>3
      <3> QED BY <1>1, <2>1, <2>3, <3>1, StationPlayed
    <2>4. CASE ~(i < Len(stations)) BY <1>1, <1>5, <1>6, <2>1, <2>4 DEF LoopOK
    <2> QED BY <2>3, <2>4
  <1> QED BY <1>9, <1>10, <1>11, <1>12, <1>13, <1>14, <1>15, <1>16, <1>17, <1>18, <1>19,
             <1>20, <1>21, <1>22, <1>23, <1>24, <1>25 DEF NowNext, Playbacks

-----------------------------------------------------------------------------
(* What a step may do to the projection p and to the record s that the     *)
(* REMOTE read last: nothing, invalidate it, publish a view of the loop,   *)
(* both in that order, or read it.                                         *)
Invalidates == projection' = Invalidated(projection) /\ UNCHANGED seen

Publishes ==
  \E p \in {projection, Invalidated(projection)}, v \in {CurrentView, CurrentView'} :
    projection' = Published(p, v) /\ UNCHANGED seen

Reads == seen' = Wire(projection) /\ UNCHANGED projection

LEMMA StepsTell ==
  ASSUME NowNext
  PROVE  /\ UNCHANGED <<projection, seen>> \/ Invalidates \/ Publishes \/ Reads
         /\ UNCHANGED misled \/ \E op \in {"play", "pause", "skip"} : Command(op)
  <1>1. CASE MoveCursor \/ ChangeScreen \/ ChangeSource \/ PauseKey \/ EditStations
             \/ StartFails \/ StartCommits \/ StartEnds \/ StreamMoves \/ CancelStart
    BY <1>1 DEF MoveCursor, ChangeScreen, ChangeSource, PauseKey, EditStations,
                StartFails, StartCommits, StartEnds, StreamMoves, CancelStart
  <1>2. CASE SelectRow \/ SkipKey \/ RemoteStart \/ \E n \in Names : PlayDiscovered(n)
    BY <1>2 DEF SelectRow, SkipKey, RemoteStart, PlayDiscovered, Invalidates
  <1>3. CASE Publish \/ ServiceStart BY <1>3 DEF Publish, ServiceStart, Publishes
  <1>4. CASE Read BY <1>4 DEF Read, Reads
  <1>5. CASE RemoteSkip
    <2>1. Command("skip") /\ UNCHANGED seen BY <1>5 DEF RemoteSkip, Command
    <2>2. \/ projection' = Published(Invalidated(projection), CurrentView')
          \/ projection' = Published(projection, CurrentView)
      BY <1>5 DEF RemoteSkip
    <2> QED BY <2>1, <2>2 DEF Publishes
  <1>6. ASSUME NEW op \in {"play", "pause"}, NEW from, NEW to, RemotePause(op, from, to)
        PROVE  Publishes /\ Command(op)
    BY <1>6 DEF RemotePause, Command, Publishes
  <1> QED BY <1>1, <1>2, <1>3, <1>4, <1>5, <1>6 DEF NowNext

LEMMA NewsTyped ==
  ASSUME news \in {"none", "unpublished", "unknown"}, NowNext
  PROVE  news' \in {"none", "unpublished", "unknown"}
  <1>1. LoopNews \in {"none", "unpublished", "unknown"} BY DEF LoopNews
  <1>2. ASSUME NEW n \in {"none", "unpublished", "unknown"}
        PROVE  HeardOf(n) \in {"none", "unpublished", "unknown"}
    BY DEF HeardOf
  <1>3. CASE SelectRow \/ SkipKey \/ ChangeScreen \/ ChangeSource
             \/ \E n \in Names : PlayDiscovered(n)
    BY <1>1, <1>3 DEF SelectRow, SkipKey, ChangeScreen, ChangeSource, PlayDiscovered
  <1>4. CASE MoveCursor \/ PauseKey \/ EditStations \/ StreamMoves \/ CancelStart
             \/ Read \/ RemoteStart
    BY <1>4 DEF MoveCursor, PauseKey, EditStations, StreamMoves, CancelStart, Read, RemoteStart
  <1>5. CASE StartFails \/ StartCommits \/ StartEnds
    BY <1>5 DEF StartFails, StartCommits, StartEnds
  <1>6. CASE Publish \/ ServiceStart BY <1>2, <1>6 DEF Publish, ServiceStart
  <1>7. CASE RemoteSkip BY <1>1, <1>2, <1>7 DEF RemoteSkip
  <1>8. ASSUME NEW op, NEW from, NEW to, RemotePause(op, from, to)
        PROVE  news' \in {"none", "unpublished", "unknown"}
    BY <1>2, <1>8 DEF RemotePause
  <1> QED BY <1>3, <1>4, <1>5, <1>6, <1>7, <1>8 DEF NowNext

LEMMA ToldStaysOK ==
  ASSUME NowTypeOK, NowNext
  PROVE  ToldOK'
  <1>1. LoopOK /\ LoopOK' /\ ToldOK BY TypeIsItsParts, LoopStaysOK
  <1>2. CurrentView \in Views /\ CurrentView' \in Views BY <1>1, ViewTyped
  <1>3. projection \in Projections /\ seen \in Wires /\ misled \in BOOLEAN
    BY <1>1 DEF ToldOK
  <1>11. news' \in {"none", "unpublished", "unknown"} BY <1>1, NewsTyped DEF ToldOK
  <1>4. Invalidated(projection) \in Projections BY <1>3, InvalidatedTyped
  <1>5. Wire(projection) \in Wires BY <1>3, WireTyped
  <1>6. misled' \in BOOLEAN BY <1>3, StepsTell DEF Command
  <1>7. CASE Publishes
    <2>1. PICK p \in {projection, Invalidated(projection)}, v \in {CurrentView, CurrentView'} :
            projection' = Published(p, v) /\ UNCHANGED seen
      BY <1>7 DEF Publishes
    <2>2. p \in Projections /\ v \in Views BY <1>2, <1>3, <1>4, <2>1
    <2>3. projection' \in Projections BY <2>1, <2>2, PublishedTyped
    <2> QED BY <1>3, <1>6, <1>11, <2>1, <2>3 DEF ToldOK
  <1>8. CASE Invalidates BY <1>3, <1>4, <1>6, <1>8, <1>11 DEF Invalidates, ToldOK
  <1>9. CASE Reads BY <1>3, <1>5, <1>6, <1>9, <1>11 DEF Reads, ToldOK
  <1>10. CASE UNCHANGED <<projection, seen>> BY <1>3, <1>6, <1>10, <1>11 DEF ToldOK
  <1> QED BY <1>7, <1>8, <1>9, <1>10, StepsTell

LEMMA NowTypeInit ==
  ASSUME NowInit
  PROVE  NowTypeOK
  <1>1. stations \in Seq(Names) /\ Len(stations) <= MaxStations
    <2>1. PICK m \in 0..MaxStations : stations \in [1..m -> Names]
      BY DEF NowInit, BoundedSeq, SeqOf
    <2>2. m \in Nat BY <2>1, NowAssumption
    <2>3. stations \in Seq(Names) /\ Len(stations) = m BY <2>1, <2>2
    <2> QED BY <2>1, <2>3, NowAssumption
  <1>2. 0 \in Rows /\ NoName \in Stations BY NowAssumption DEF Rows, Stations
  <1>3. UiOK BY <1>1, <1>2 DEF NowInit, UiOK
  <1>4. PlayerOK BY <1>2 DEF NowInit, PlayerOK, Sources, Playbacks
  <1>5. start \in Starts BY <1>2 DEF NowInit, NoStart, Starts
  <1>6. LoopOK BY <1>3, <1>4, <1>5 DEF LoopOK
  <1>7. CurrentView \in Views BY <1>6, ViewTyped
  <1>8. projection \in Projections BY <1>7 DEF NowInit, Projections
  <1>9. seen \in Wires /\ misled \in BOOLEAN /\ news \in {"none", "unpublished", "unknown"}
    BY <1>8, WireTyped DEF NowInit
  <1> QED BY <1>6, <1>8, <1>9, TypeIsItsParts DEF ToldOK

(* In every reachable state the loop, the player, the projection and the   *)
(* record of the REMOTE have their types: a selected row exists for some   *)
(* list of at most MAX_STATIONS, and a view names a station of the system. *)
THEOREM NowIsTyped == NowSpec => []NowTypeOK
  <1>1. NowInit => NowTypeOK BY NowTypeInit
  <1>2. NowTypeOK /\ [NowNext]_nowVars => NowTypeOK'
    <2> SUFFICES ASSUME NowTypeOK, [NowNext]_nowVars PROVE NowTypeOK'
      OBVIOUS
    <2>1. CASE NowNext
      <3>1. LoopOK' /\ ToldOK' BY <2>1, LoopStaysOK, ToldStaysOK
      <3> QED BY <3>1 DEF NowTypeOK, LoopOK, UiOK, PlayerOK, ToldOK
    <2>2. CASE UNCHANGED nowVars BY <2>2 DEF NowTypeOK
    <2> QED BY <2>1, <2>2
  <1> QED BY <1>1, <1>2, PTL DEF NowSpec

-----------------------------------------------------------------------------
(* Where nothing is shown, nothing is offered.                             *)
Silent(v) == v.context = "none" => v.offers = {} /\ v.targets = {}

(* What the projection p owes to a record s that the REMOTE has read: the  *)
(* generation and the revision never go back; where the revision is still  *)
(* that of the record, so is the content; where the generation is, so is   *)
(* what is shown, if the record offers anything.  An invalidation offers   *)
(* nothing until the change it was made for is published, so a record read *)
(* in between commands nothing although the generation is that change's.   *)
Owes(p, s) ==
  /\ Silent(p.view)
  /\ p.preincremented => p.view.context = "none"
  /\ s.generation <= p.generation /\ s.revision <= p.revision
  /\ s.revision = p.revision => Content(s) = Content(p.view)
  /\ s.generation = p.generation /\ s.offers # {} =>
       Shown(s) = Shown(p.view) /\ ~p.preincremented

LEMMA InvalidatedOwes ==
  ASSUME NEW p \in Projections, NEW s \in Wires, Owes(p, s)
  PROVE  Owes(Invalidated(p), s)
  <1>1. /\ p.generation \in Nat /\ p.revision \in Nat
        /\ s.generation \in Nat /\ s.revision \in Nat
    BY DEF Projections, Wires
  <1>2. s.generation < Invalidated(p).generation /\ s.revision < Invalidated(p).revision
    BY <1>1, InvalidatedTyped DEF Owes
  <1> QED BY <1>1, <1>2, InvalidatedTyped DEF Owes, Silent

LEMMA PublishedOwes ==
  ASSUME NEW p \in Projections, NEW s \in Wires, Owes(p, s), NEW v \in Views, Silent(v)
  PROVE  Owes(Published(p, v), s)
  <1> DEFINE q == Published(p, v)
  <1>1. /\ p.generation \in Nat /\ p.revision \in Nat /\ p.preincremented \in BOOLEAN
        /\ s.generation \in Nat /\ s.revision \in Nat
    BY DEF Projections, Wires
  <1>2. /\ q.view = v
        /\ q.generation = IF Identity(v) # Identity(p.view) /\ ~p.preincremented
                            THEN p.generation + 1 ELSE p.generation
        /\ q.revision = IF Content(v) # Content(p.view) THEN p.revision + 1 ELSE p.revision
        /\ q.preincremented => /\ p.preincremented /\ Identity(v) = Identity(p.view)
                               /\ v.context # "none"
    BY DEF Published
  <1> HIDE DEF q
  <1>3. s.generation <= q.generation /\ s.revision <= q.revision BY <1>1, <1>2 DEF Owes
  <1>4. Identity(v) = Identity(p.view) => Shown(v) = Shown(p.view) /\ v.context = p.view.context
    BY DEF Identity, Shown
  <1>5. ~q.preincremented BY <1>2, <1>4 DEF Owes
  <1>6. ASSUME s.revision = q.revision PROVE Content(s) = Content(q.view)
    BY <1>1, <1>2, <1>6 DEF Owes
  <1>7. ASSUME s.generation = q.generation, s.offers # {} PROVE Shown(s) = Shown(q.view)
    <2>1. s.generation = p.generation BY <1>1, <1>2, <1>7 DEF Owes
    <2>2. Shown(s) = Shown(p.view) /\ ~p.preincremented BY <1>7, <2>1 DEF Owes
    <2>3. Identity(v) = Identity(p.view) BY <1>1, <1>2, <1>7, <2>1, <2>2
    <2> QED BY <1>2, <1>4, <2>2, <2>3
  <1>8. Owes(q, s) BY <1>2, <1>3, <1>5, <1>6, <1>7 DEF Owes, Silent
  <1> QED BY <1>8 DEF q

LEMMA ReadOwes ==
  ASSUME NEW p \in Projections, NEW s, Owes(p, s)
  PROVE  Owes(p, Wire(p))
  <1>1. p.generation \in Nat /\ p.revision \in Nat BY DEF Projections
  <1>2. /\ Wire(p).generation = p.generation /\ Wire(p).revision = p.revision
        /\ Wire(p).offers = p.view.offers
        /\ Content(Wire(p)) = Content(p.view) /\ Shown(Wire(p)) = Shown(p.view)
    BY DEF Wire, Content, Shown
  <1> QED BY <1>1, <1>2 DEF Owes, Silent

LEMMA ViewsAreSilent == Silent(CurrentView) /\ Silent(CurrentView')
  BY NothingOffered DEF Silent, CurrentView, Targets

(* What the loop knows of the player: unless the audio task has news for   *)
(* it, a stream that plays has the name the loop gives it; and with no     *)
(* news at all, the projection says so, or has been invalidated.           *)
Abreast ==
  /\ news # "unknown" => (source = "radio" => stream \in {NoName, name})
  /\ news = "none" =>
       projection.view.context = "none" \/ Shown(projection.view) = Shown(CurrentView)

LEMMA ShownIs ==
  /\ Shown(CurrentView) = <<Context, IF source = "radio" THEN name ELSE NoName>>
  /\ Shown(CurrentView') = <<Context', IF source' = "radio" THEN name' ELSE NoName>>
  BY DEF Shown, CurrentView

(* The loop and the player go on, and the projection stays or is blanked.  *)
LEMMA AbreastKept ==
  ASSUME Abreast, UNCHANGED <<name, discovered, source, stream>>,
         news' = news \/ (news' = "unpublished" /\ news # "unknown"),
         projection' = projection \/ (projection'.view.context = "none")
  PROVE  Abreast'
  <1>1. Context' = Context BY DEF Context
  <1>2. Shown(CurrentView') = Shown(CurrentView) BY <1>1, ShownIs
  <1>3. Shown(CurrentView)' = Shown(CurrentView') BY DEF Shown
  <1> QED BY <1>2, <1>3 DEF Abreast, Shown

(* A view of the loop as it is after the step is published.                *)
LEMMA AbreastPublished ==
  ASSUME NEW p, projection' = Published(p, CurrentView'),
         news' # "unknown" => (source' = "radio" => stream' \in {NoName, name'})
  PROVE  Abreast'
  <1>1. projection'.view = CurrentView' BY DEF Published
  <1>2. Shown(projection.view)' = Shown(CurrentView)' BY <1>1 DEF Shown
  <1> QED BY <1>2 DEF Abreast

(* The loop plays a station, tears the old stream down, or neither.        *)
LEMMA PlayedIsNamed ==
  ASSUME Abreast, NEW n, NEW f,
         \/ LoopChanges /\ Started(n) /\ name' = n
         \/ (NotOpened \/ (LoopChanges /\ TornDown)) /\ UNCHANGED name,
         f = LoopNews
  PROVE  f # "unknown" => (source' = "radio" => stream' \in {NoName, name'})
  <1>1. CASE LoopChanges /\ Started(n) /\ name' = n BY <1>1 DEF Started
  <1>2. CASE LoopChanges /\ TornDown BY <1>2 DEF TornDown
  <1>3. CASE NotOpened /\ UNCHANGED name BY <1>3 DEF NotOpened, LoopNews, Abreast
  <1> QED BY <1>1, <1>2, <1>3

LEMMA AbreastStep ==
  ASSUME NowTypeOK, Abreast, NowNext
  PROVE  Abreast'
  <1>1. projection \in Projections BY DEF NowTypeOK
  <1>2. Invalidated(projection).view.context = "none" BY <1>1, InvalidatedTyped
  <1>3. ASSUME projection' = Invalidated(projection),
               news' # "unknown" => (source' = "radio" => stream' \in {NoName, name'})
        PROVE  Abreast'
    BY <1>2, <1>3 DEF Abreast
  <1>4. CASE MoveCursor \/ PauseKey \/ EditStations \/ StartFails \/ StreamMoves
             \/ CancelStart \/ Read
    BY <1>4, AbreastKept
    DEF MoveCursor, PauseKey, EditStations, StartFails, StreamMoves, CancelStart, Read
  <1>5. CASE RemoteStart BY <1>2, <1>5, AbreastKept DEF RemoteStart
  <1>6. ASSUME NEW i, PlayStation(i), NEW f, f = LoopNews
        PROVE  f # "unknown" => (source' = "radio" => stream' \in {NoName, name'})
    BY <1>6, PlayedIsNamed DEF PlayStation
  <1>7. CASE SelectRow \/ SkipKey BY <1>3, <1>6, <1>7 DEF SelectRow, SkipKey
  <1>8. ASSUME NEW n, PlayDiscovered(n) PROVE Abreast'
    <2>1. news' # "unknown" => (source' = "radio" => stream' \in {NoName, name'})
      BY <1>8, PlayedIsNamed DEF PlayDiscovered
    <2> QED BY <1>3, <1>8, <2>1 DEF PlayDiscovered
  <1>9. CASE ChangeScreen \/ ChangeSource
    <2>1. /\ news' = LoopNews /\ UNCHANGED <<name, discovered, projection>>
          /\ UNCHANGED playerVars \/ source' \in {"none", "bluetooth"}
      BY <1>9 DEF ChangeScreen, ChangeSource, Stop
    <2>2. CASE UNCHANGED playerVars
      BY <2>1, <2>2, AbreastKept DEF LoopNews
    <2>3. CASE ~UNCHANGED playerVars
      <3>1. news' = "unpublished" BY <2>1, <2>3 DEF LoopNews
      <3> QED BY <2>1, <2>3, <3>1 DEF Abreast
    <2> QED BY <2>2, <2>3
  <1>10. CASE StartCommits BY <1>10 DEF StartCommits, TornDown, Abreast
  <1>11. CASE StartEnds
    <2>1. CASE news' = "unknown" BY <2>1 DEF Abreast
    <2>2. CASE UNCHANGED <<source, playback, stream, title, news>>
      BY <1>11, <2>2, AbreastKept DEF StartEnds
    <2> QED BY <1>11, <2>1, <2>2 DEF StartEnds
  <1>12. ASSUME UNCHANGED <<name, source, stream>>, news' = HeardOf(news)
         PROVE  news' # "unknown" => (source' = "radio" => stream' \in {NoName, name'})
    BY <1>12 DEF Abreast, HeardOf
  <1>13. ASSUME UNCHANGED <<uiVars, playerVars>> PROVE CurrentView' = CurrentView
    BY <1>13 DEF CurrentView, Context, Targets
  <1>14. CASE Publish BY <1>12, <1>13, <1>14, AbreastPublished DEF Publish
  <1>15. CASE ServiceStart
    <2>1. news' # "unknown" => (source' = "radio" => stream' \in {NoName, name'})
      <3>1. CASE start.status = "succeeded" BY <1>15, <3>1 DEF ServiceStart
      <3>2. CASE start.status # "succeeded" BY <1>12, <1>15, <3>2 DEF ServiceStart
      <3> QED BY <3>1, <3>2
    <2> QED BY <1>15, <2>1, AbreastPublished DEF ServiceStart
  <1>16. ASSUME NEW op, NEW from, NEW to, RemotePause(op, from, to) PROVE Abreast'
    BY <1>12, <1>16, AbreastPublished DEF RemotePause
  <1>17. CASE RemoteSkip
    <2>1. PICK i \in projection.view.targets :
            IF i < Len(stations)
              THEN /\ PlayStation(i)
                   /\ projection' = Published(Invalidated(projection), CurrentView')
              ELSE /\ UNCHANGED <<uiVars, start, playerVars>>
                   /\ projection' = Published(projection, CurrentView)
      BY <1>17 DEF RemoteSkip
    <2>2. news' = HeardOf(LoopNews) BY <1>17 DEF RemoteSkip
    <2>3. CASE i < Len(stations)
      <3>1. news' # "unknown" => (source' = "radio" => stream' \in {NoName, name'})
        BY <1>6, <2>1, <2>2, <2>3 DEF HeardOf
      <3> QED BY <2>1, <2>3, <3>1, AbreastPublished
    <2>4. CASE ~(i < Len(stations))
      <3>1. news' = HeardOf(news) BY <2>1, <2>2, <2>4 DEF LoopNews
      <3> QED BY <1>12, <1>13, <2>1, <2>4, <3>1, AbreastPublished
    <2> QED BY <2>3, <2>4
  <1> QED BY <1>4, <1>5, <1>7, <1>8, <1>9, <1>10, <1>11, <1>14, <1>15, <1>16, <1>17
          DEF NowNext

(* The strengthening: types, what the projection owes the record, what the *)
(* loop knows of the player, and that no command acted on something else   *)
(* than its sender was shown.                                              *)
NowInv == NowTypeOK /\ Owes(projection, seen) /\ Abreast /\ ~misled

LEMMA NowInvInit ==
  ASSUME NowInit
  PROVE  NowInv
  <1>1. NowTypeOK BY NowTypeInit
  <1>2. projection \in Projections BY <1>1 DEF NowTypeOK
  <1>3. seen = Wire(projection) /\ misled = FALSE BY DEF NowInit
  <1>4. projection = [view |-> CurrentView, generation |-> 1, revision |-> 1,
                      preincremented |-> FALSE]
    BY DEF NowInit
  <1>5. Owes(projection, Wire(projection))
    <2>1. /\ Wire(projection).generation = 1 /\ Wire(projection).revision = 1
          /\ Content(Wire(projection)) = Content(projection.view)
          /\ Shown(Wire(projection)) = Shown(projection.view)
      BY <1>4 DEF Wire, Content, Shown
    <2>2. Silent(projection.view) BY <1>4, ViewsAreSilent
    <2> QED BY <1>4, <2>1, <2>2 DEF Owes, Silent
  <1>6. Abreast BY <1>4 DEF Abreast, NowInit
  <1> QED BY <1>1, <1>3, <1>5, <1>6 DEF NowInv

(* A command that is admitted finds what its sender was shown.             *)
LEMMA CommandsAreMeant ==
  ASSUME Owes(projection, seen), Abreast, ~misled, NEW op, Command(op)
  PROVE  ~misled'
  <1>1. seen.generation = projection.generation /\ seen.offers # {}
    BY DEF Command, Admits
  <1>2. Shown(seen) = Shown(projection.view) BY <1>1 DEF Owes
  <1>3. projection.view.context # "none" BY DEF Command, Admits, Owes, Silent
  <1>4. ASSUME news = "none" PROVE Plays(seen)
    <2>1. Shown(seen) = <<Context, IF source = "radio" THEN name ELSE NoName>>
      BY <1>2, <1>3, <1>4, ShownIs DEF Abreast
    <2>2. /\ seen.context = Context
          /\ source = "radio" => seen.station = name
      BY <2>1 DEF Shown
    <2> QED BY <1>4, <2>2 DEF Plays, Abreast
  <1> QED BY <1>2, <1>4 DEF Command

LEMMA NowInvStep ==
  ASSUME NowInv, [NowNext]_nowVars
  PROVE  NowInv'
  <1>1. CASE UNCHANGED nowVars
    <2>1. Abreast' BY <1>1, AbreastKept DEF NowInv
    <2> QED BY <1>1, <2>1 DEF NowInv, NowTypeOK, Owes, Content, Shown
  <1>2. CASE NowNext
    <2>1. /\ LoopOK /\ LoopOK' /\ NowTypeOK'
          /\ projection \in Projections /\ seen \in Wires /\ Owes(projection, seen)
      BY <1>2, LoopStaysOK, ToldStaysOK, TypeIsItsParts
      DEF NowInv, NowTypeOK, LoopOK, UiOK, PlayerOK, ToldOK
    <2>2. ~misled' BY <1>2, StepsTell, CommandsAreMeant DEF NowInv
    <2>3. Owes(Invalidated(projection), seen) /\ Invalidated(projection) \in Projections
      BY <2>1, InvalidatedOwes, InvalidatedTyped
    <2>4. Owes(projection', seen')
      <3>1. CASE Publishes
        <4>1. PICK p \in {projection, Invalidated(projection)},
                   v \in {CurrentView, CurrentView'} :
                projection' = Published(p, v) /\ UNCHANGED seen
          BY <3>1 DEF Publishes
        <4>2. p \in Projections /\ Owes(p, seen) BY <2>1, <2>3, <4>1
        <4>3. v \in Views /\ Silent(v) BY <2>1, <4>1, ViewTyped, ViewsAreSilent
        <4> QED BY <2>1, <4>1, <4>2, <4>3, PublishedOwes
      <3>2. CASE Invalidates BY <2>3, <3>2 DEF Invalidates
      <3>3. CASE Reads BY <2>1, <3>3, ReadOwes DEF Reads
      <3>4. CASE UNCHANGED <<projection, seen>> BY <2>1, <3>4
      <3> QED BY <1>2, <3>1, <3>2, <3>3, <3>4, StepsTell
    <2>5. Abreast' BY <1>2, AbreastStep DEF NowInv
    <2> QED BY <2>1, <2>2, <2>4, <2>5 DEF NowInv
  <1> QED BY <1>1, <1>2

(* A play, pause, next or previous that is admitted is meant for what the  *)
(* projection says, however starts, skips, changes of source and their     *)
(* invalidations interleave with what is published and read; and with no   *)
(* news of the player that the loop has yet to publish, it acts in the     *)
(* context that its sender was shown, and on no other station's stream.    *)
THEOREM CommandsActOnWhatWasShown == NowSpec => []ActsOnWhatItSaw
  <1>1. NowInv => ActsOnWhatItSaw BY DEF NowInv, ActsOnWhatItSaw
  <1> QED BY <1>1, NowInvInit, NowInvStep, PTL DEF NowSpec

(* A REMOTE whose record has the metadata revision of the projection has   *)
(* the context, the station, the title and the operations of it.           *)
THEOREM EqualRevisionsMeanEqualContent == NowSpec => []RevisionTellsContent
  <1>1. NowInv => RevisionTellsContent BY DEF NowInv, Owes, RevisionTellsContent
  <1> QED BY <1>1, NowInvInit, NowInvStep, PTL DEF NowSpec

(***************************************************************************)
(* RemoteBrowser.                                                          *)
(***************************************************************************)
-----------------------------------------------------------------------------
(* The job.  Its type, and what LoadingIsWorked says of it, hold together: *)
(* a stage is filled in only for the job that runs, and a job is begun     *)
(* only where none runs or by a search that forgets every stage.           *)
Statuses == {"idle", "loading", "ready", "empty", "failed"}
Outcomes == {"ready", "empty", "failed"}

JobOK ==
  /\ job \in Stages \union {"none"} /\ status \in [Stages -> Statuses]
  /\ client \in BOOLEAN /\ retryWait \in BOOLEAN

JobInv == JobOK /\ LoadingIsWorked

LEMMA FinishEnds ==
  ASSUME JobInv, job # "none", NEW outcome \in Outcomes, Finish(outcome),
         retryWait' \in BOOLEAN
  PROVE  JobInv'
  <1>1. job \in Stages BY DEF JobInv, JobOK
  <1>2. /\ status' = [status EXCEPT ![job] = outcome] /\ job' = "none" /\ client' = FALSE
    BY DEF Finish
  <1>3. outcome \in Statuses /\ outcome # "loading" BY DEF Outcomes, Statuses
  <1>4. JobOK' BY <1>1, <1>2, <1>3 DEF JobInv, JobOK
  <1>5. \A s \in Stages : status'[s] # "loading"
    BY <1>1, <1>2, <1>3 DEF JobInv, JobOK, LoadingIsWorked
  <1>6. "none" \notin Stages BY DEF Stages
  <1> QED BY <1>2, <1>4, <1>5, <1>6 DEF JobInv, LoadingIsWorked

LEMMA MirrorBegins ==
  ASSUME JobInv, job # "none", NEW m, BeginMirror(m), retryWait' = FALSE
  PROVE  JobInv'
  <1>1. CASE client' = TRUE /\ UNCHANGED <<job, status, revision>>
    BY <1>1 DEF JobInv, JobOK, LoadingIsWorked
  <1>2. CASE Finish("failed") BY <1>2, FinishEnds DEF Outcomes
  <1> QED BY <1>1, <1>2 DEF BeginMirror

LEMMA JobBegins ==
  ASSUME NEW stage \in Stages, NEW known \in [Stages -> Statuses], NEW number,
         \A s \in Stages : known[s] # "loading", BeginJob(stage, known, number)
  PROVE  JobInv'
  <1>1. retryWait' = FALSE BY DEF BeginJob
  <1>2. "none" \notin Stages /\ {"loading", "failed"} \subseteq Statuses
    BY DEF Stages, Statuses
  <1>3. CASE /\ job' = stage /\ client' = TRUE
             /\ status' = [known EXCEPT ![stage] = "loading"]
    BY <1>1, <1>2, <1>3 DEF JobInv, JobOK, LoadingIsWorked
  <1>4. CASE /\ job' = "none" /\ client' = FALSE
             /\ status' = [known EXCEPT ![stage] = "failed"]
    BY <1>1, <1>2, <1>4 DEF JobInv, JobOK, LoadingIsWorked
  <1> QED BY <1>3, <1>4 DEF BeginJob

LEMMA JobCancelled ==
  ASSUME CancelJob
  PROVE  JobInv'
  BY DEF CancelJob, JobInv, JobOK, LoadingIsWorked, Stages, Statuses

LEMMA JobStep == JobInv /\ [BrowserNext]_browserVars => JobInv'
  <1> SUFFICES ASSUME JobInv, [BrowserNext]_browserVars PROVE JobInv'
    OBVIOUS
  <1>1. ASSUME UNCHANGED <<job, client, status, retryWait>> PROVE JobInv'
    BY <1>1 DEF JobInv, JobOK, LoadingIsWorked
  <1>2. ASSUME job = "none" PROVE \A s \in Stages : status[s] # "loading"
    BY <1>2 DEF JobInv, LoadingIsWorked, Stages
  <1>3. retryWait \in BOOLEAN /\ status \in [Stages -> Statuses] BY DEF JobInv, JobOK
  <1>4. CASE Start
    <2>1. [s \in Stages |-> "idle"] \in [Stages -> Statuses] BY DEF Statuses
    <2>2. BeginJob("countries", [s \in Stages |-> "idle"], 1) BY <1>4 DEF Start
    <2> QED BY <2>1, <2>2, JobBegins DEF Stages
  <1>5. CASE Cancel BY <1>5, JobCancelled DEF Cancel
  <1>6. CASE View BY <1>1, <1>6 DEF View
  <1>7. CASE SelectName
    <2>1. BeginJob("genres", status, revision + 1) /\ job = "none"
      BY <1>7 DEF SelectName, Fenced
    <2> QED BY <1>2, <1>3, <2>1, JobBegins DEF Stages
  <1>8. CASE SelectGenre
    <2>1. BeginJob("results", status, revision + 1) /\ job = "none"
      BY <1>8 DEF SelectGenre, Fenced
    <2> QED BY <1>2, <1>3, <2>1, JobBegins DEF Stages
  <1>9. ASSUME NEW token \in 1..MaxResults, Play(token) PROVE JobInv'
    BY <1>9, JobCancelled DEF Play
  <1>10. ASSUME NEW token \in 1..MaxResults, AddFavorite(token) PROVE JobInv'
    BY <1>1, <1>10 DEF AddFavorite
  <1>11. CASE DeadlinePasses \/ DelayPasses
    BY <1>1, <1>11 DEF DeadlinePasses, DelayPasses
  <1>12. CASE WifiLost BY <1>3, <1>12, FinishEnds DEF WifiLost, Outcomes
  <1>13. CASE Retry BY <1>13, MirrorBegins DEF Retry
  <1>14. CASE Expire
    BY <1>3, <1>14, FinishEnds DEF Expire, Attempting, Outcomes
  <1>15. ASSUME NEW items \in Lists, NEW parsed \in BOOLEAN, Answer(items, parsed)
         PROVE  JobInv'
    <2>1. PICK outcome \in Outcomes : Finish(outcome) BY <1>15 DEF Answer, Outcomes
    <2>2. job # "none" /\ UNCHANGED retryWait BY <1>15 DEF Answer, Attempting
    <2> QED BY <1>3, <2>1, <2>2, FinishEnds
  <1>16. CASE Refusal
    BY <1>3, <1>16, FinishEnds DEF Refusal, Attempting, Outcomes
  <1>17. CASE Failure
    <2>1. job # "none" /\ ~retryWait /\ client BY <1>17 DEF Failure, Attempting
    <2>2. CASE NextMirror BY <1>3, <2>1, <2>2, MirrorBegins DEF NextMirror
    <2>3. CASE WaitForRetry
      BY <2>1, <2>3 DEF WaitForRetry, JobInv, JobOK, LoadingIsWorked
    <2>4. CASE GiveUp BY <1>3, <2>1, <2>4, FinishEnds DEF GiveUp, Outcomes
    <2> QED BY <1>17, <2>2, <2>3, <2>4 DEF Failure
  <1>18. CASE UNCHANGED browserVars BY <1>1, <1>18
  <1> QED
    BY <1>4, <1>5, <1>6, <1>7, <1>8, <1>9, <1>10, <1>11, <1>12, <1>13, <1>14, <1>15,
       <1>16, <1>17, <1>18 DEF BrowserNext

(* A stage is told to be loading exactly while its job runs, and a running *)
(* job has either a client or a retry to wait for: no failure, retry,      *)
(* cancellation or replacement leaves the REMOTE waiting for a page nobody *)
(* fetches (remote_browser.cpp, finishJob, beginMirror, cancel and poll).  *)
THEOREM LoadingIsAlwaysWorked == BrowserSpec => []LoadingIsWorked
  <1>1. BrowserInit => JobInv
    BY DEF BrowserInit, JobInv, JobOK, LoadingIsWorked, Stages, Statuses
  <1>2. JobInv => LoadingIsWorked BY DEF JobInv
  <1> QED BY <1>1, JobStep, <1>2, PTL DEF BrowserSpec

-----------------------------------------------------------------------------
(* The page.  Within a search the revision never goes back and the results *)
(* never change without it, so that a page of this search and revision     *)
(* lists what the results are; a search that ended is never entered again. *)
PageInv ==
  /\ generation \in Nat /\ revision \in Nat
  /\ page.generation \in Nat /\ page.generation <= generation
  /\ active /\ page.generation = generation =>
       /\ page.revision \in Nat /\ page.revision <= revision
       /\ page.revision = revision => page.items = results

(* The revision advances: what the results become does not matter.         *)
LEMMA PageAges ==
  ASSUME PageInv, UNCHANGED <<page, generation, active>>,
         revision' \in Nat, revision' > revision
  PROVE  PageInv'
  BY DEF PageInv

LEMMA PageStays ==
  ASSUME PageInv, UNCHANGED <<page, generation, active, revision, results>>
  PROVE  PageInv'
  BY DEF PageInv

(* The search ends.                                                        *)
LEMMA PageCancelled ==
  ASSUME PageInv, UNCHANGED <<page, generation>>, CancelJob
  PROVE  PageInv'
  BY DEF PageInv, CancelJob

LEMMA BegunAges ==
  ASSUME PageInv, NEW stage, NEW known, BeginJob(stage, known, revision + 1)
  PROVE  revision' \in Nat /\ revision' > revision
  BY DEF BeginJob, PageInv

LEMMA FinishedAges ==
  ASSUME PageInv, NEW outcome, Finish(outcome)
  PROVE  revision' \in Nat /\ revision' > revision
  BY DEF Finish, PageInv

LEMMA PageStep == PageInv /\ [BrowserNext]_browserVars => PageInv'
  <1> SUFFICES ASSUME PageInv, [BrowserNext]_browserVars PROVE PageInv'
    OBVIOUS
  <1>1. CASE Start
    <2>1. /\ generation' = generation + 1 /\ page' = page
          /\ revision' \in {1, 2}
      BY <1>1 DEF Start, BeginJob
    <2> QED BY <2>1 DEF PageInv
  <1>2. CASE Cancel BY <1>2, PageCancelled DEF Cancel
  <1>3. CASE View
    <2>1. /\ page' = [generation |-> generation, revision |-> revision, items |-> results]
          /\ UNCHANGED <<generation, revision, results, active>>
      BY <1>3 DEF View
    <2> QED BY <2>1 DEF PageInv
  <1>4. CASE SelectName \/ SelectGenre
    <2>1. PICK stage : BeginJob(stage, status, revision + 1)
      BY <1>4 DEF SelectName, SelectGenre
    <2> QED BY <1>4, <2>1, BegunAges, PageAges DEF SelectName, SelectGenre
  <1>5. ASSUME NEW token \in 1..MaxResults, Play(token) PROVE PageInv'
    BY <1>5, PageCancelled DEF Play
  <1>6. ASSUME NEW token \in 1..MaxResults, AddFavorite(token) PROVE PageInv'
    BY <1>6, PageStays DEF AddFavorite
  <1>7. CASE DeadlinePasses \/ DelayPasses
    BY <1>7, PageStays DEF DeadlinePasses, DelayPasses
  <1>8. CASE WifiLost \/ Expire \/ Refusal
    BY <1>8, FinishedAges, PageAges DEF WifiLost, Expire, Refusal
  <1>9. ASSUME NEW m, BeginMirror(m), UNCHANGED <<listVars, userVars>> PROVE PageInv'
    <2>1. CASE UNCHANGED revision BY <1>9, <2>1, PageStays
    <2>2. CASE Finish("failed") BY <1>9, <2>2, FinishedAges, PageAges
    <2> QED BY <1>9, <2>1, <2>2 DEF BeginMirror
  <1>10. CASE Retry BY <1>9, <1>10 DEF Retry
  <1>11. ASSUME NEW items \in Lists, NEW parsed \in BOOLEAN, Answer(items, parsed)
         PROVE  PageInv'
    <2>1. PICK outcome : Finish(outcome) BY <1>11 DEF Answer
    <2> QED BY <1>11, <2>1, FinishedAges, PageAges DEF Answer
  <1>12. CASE Failure
    <2>1. UNCHANGED <<listVars, userVars>> BY <1>12 DEF Failure
    <2>2. CASE NextMirror BY <1>9, <2>1, <2>2 DEF NextMirror
    <2>3. CASE WaitForRetry BY <2>1, <2>3, PageStays DEF WaitForRetry
    <2>4. CASE GiveUp BY <2>1, <2>4, FinishedAges, PageAges DEF GiveUp
    <2> QED BY <1>12, <2>2, <2>3, <2>4 DEF Failure
  <1>13. CASE UNCHANGED browserVars BY <1>13, PageStays
  <1> QED
    BY <1>1, <1>2, <1>3, <1>4, <1>5, <1>6, <1>7, <1>8, <1>10, <1>11, <1>12, <1>13
    DEF BrowserNext

(* A token names what was shown under it.                                  *)
LEMMA UsedIsShown ==
  ASSUME PageInv, NEW token, Use(token)
  PROVE  PlaysWhatWasShown'
  BY DEF PageInv, Use, Fenced, PlaysWhatWasShown

LEMMA PlayedStep ==
  PageInv /\ PlaysWhatWasShown /\ [BrowserNext]_browserVars => PlaysWhatWasShown'
  <1> SUFFICES ASSUME PageInv, PlaysWhatWasShown, [BrowserNext]_browserVars
               PROVE  PlaysWhatWasShown'
    OBVIOUS
  <1>1. ASSUME NEW token \in 1..MaxResults, Play(token) \/ AddFavorite(token)
        PROVE  PlaysWhatWasShown'
    BY <1>1, UsedIsShown DEF Play, AddFavorite
  <1>2. ASSUME played' = played PROVE PlaysWhatWasShown'
    BY <1>2 DEF PlaysWhatWasShown
  <1>3. CASE Start \/ Cancel \/ View \/ SelectName \/ SelectGenre
    BY <1>2, <1>3 DEF Start, Cancel, View, SelectName, SelectGenre
  <1>4. CASE DeadlinePasses \/ DelayPasses \/ WifiLost \/ Retry \/ Expire
    BY <1>2, <1>4 DEF DeadlinePasses, DelayPasses, WifiLost, Retry, Expire
  <1>5. ASSUME NEW items \in Lists, NEW parsed \in BOOLEAN, Answer(items, parsed)
        PROVE  PlaysWhatWasShown'
    BY <1>2, <1>5 DEF Answer
  <1>6. CASE Refusal \/ Failure BY <1>2, <1>6 DEF Refusal, Failure
  <1>7. CASE UNCHANGED browserVars BY <1>2, <1>7
  <1> QED BY <1>1, <1>3, <1>4, <1>5, <1>6, <1>7 DEF BrowserNext

(* The station that is played, or made a Favorite, is the one the REMOTE   *)
(* was shown under the token, whatever searches and jobs began or ended    *)
(* since (remote_browser.cpp, the fence by generation and revision).       *)
THEOREM PlaysAreShown == BrowserSpec => []PlaysWhatWasShown
  <1>1. BrowserInit => PageInv /\ PlaysWhatWasShown
    BY DEF BrowserInit, PageInv, NoPage, PlaysWhatWasShown
  <1> QED BY <1>1, PageStep, PlayedStep, PTL DEF BrowserSpec
=============================================================================
