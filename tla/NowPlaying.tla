----------------------------- MODULE NowPlaying -----------------------------
(***************************************************************************)
(* What the REMOTE is told of the station that plays, and what its play,   *)
(* pause, next and previous act on: the projection of src/src/rtcp_d009.cpp *)
(* with its media generation and metadata revision, published by the loop  *)
(* of src/src/main.cpp from selectedStation, nowPlayingName and the audio  *)
(* player, while physical controls, list edits and deferred starts change  *)
(* all of them.                                                            *)
(*                                                                         *)
(* Abstracted: a station is its name, and its stream announces one title,  *)
(* which carries that name; the screens other than the list and the player *)
(* are "other"; a start's request number, as in DeferredSlot.              *)
(***************************************************************************)
EXTENDS Naturals, Sequences, SequencesExt

CONSTANTS
  Names,          \* names of stations
  NoName,
  MaxStations,    \* MAX_STATIONS
  MaxGeneration,  \* bound on the media generation
  MaxRevision     \* bound on the metadata revision

ASSUME NowAssumption ==
  /\ NoName \notin Names
  /\ MaxStations \in Nat /\ MaxGeneration \in Nat /\ MaxRevision \in Nat

VARIABLES
  screen,      \* currentMode
  stations,    \* the saved stations
  selected,    \* selectedStation: a row of the list, or a saved station
  name,        \* nowPlayingName
  discovered,  \* nowPlayingContext.discovered
  start,       \* deferredCatalogStart with the status of its slot
  source,      \* the audio player: currentSource
  playback,    \*   playbackState
  stream,      \*   the station whose stream it plays
  title,       \*   nowPlaying
  committing,  \*   the station the audio task starts, holding audioMutex
  projection,  \* the projection
  seen,        \* the last now-playing record the REMOTE received
  news,        \* history: of what plays, what the loop has yet to publish
  misled       \* history: a command acted on something else than was shown

uiVars == <<screen, stations, selected, name, discovered>>
playerVars == <<source, playback, stream, title, committing>>
remoteVars == <<seen, misled>>
nowVars == <<uiVars, start, playerVars, projection, news, remoteVars>>

-----------------------------------------------------------------------------
(* The projection.  play, pause and skip are the operations it offers;     *)
(* targets are the stations a skip leads to, from the selected station and *)
(* the number of stations it holds.                                        *)
NoView == [context |-> "none", source |-> "none", station |-> NoName,
           title |-> NoName, offers |-> {}, targets |-> {}]

Neighbours(i, count) == {(i + 1) % count, IF i = 0 THEN count - 1 ELSE i - 1}

Targets(context) ==
  IF context = "fixed" /\ selected < Len(stations)
    THEN Neighbours(selected, Len(stations)) ELSE {}

Offers(context, station, state, targets) ==
  (IF context \in {"fixed", "discovered"} /\ state = "paused" THEN {"play"} ELSE {})
    \union
  (IF context \in {"fixed", "discovered"} /\ state = "playing" THEN {"pause"} ELSE {})
    \union
  (IF station # NoName /\ targets # {} THEN {"skip"} ELSE {})

Context ==
  CASE source = "radio" -> IF discovered THEN "discovered" ELSE "fixed"
    [] OTHER -> source

(* publishRtcpProjection: the view of the loop at this moment.             *)
CurrentView ==
  LET station == IF source = "radio" THEN name ELSE NoName
  IN  [context |-> Context, source |-> source, station |-> station,
       title |-> IF source = "radio" THEN title ELSE NoName,
       offers |-> Offers(Context, station, playback, Targets(Context)),
       targets |-> Targets(Context)]

Identity(v) == <<v.context, v.source, v.station>>
ContentWithoutOffers(v) == <<v.context, v.station, v.title>>  \* Mutant.
Content(v) == <<v.context, v.station, v.title, v.offers>>

(* wire: the record the REMOTE receives, and what it shows its user.       *)
Wire(p) ==
  [context |-> p.view.context, station |-> p.view.station, title |-> p.view.title,
   offers |-> p.view.offers, generation |-> p.generation, revision |-> p.revision]

Shown(v) == <<v.context, v.station>>

Invalidated(p) ==
  [p EXCEPT !.view = [NoView EXCEPT !.source = p.view.source],
            !.generation = @ + 1, !.revision = @ + 1,
            !.preincremented = TRUE]

PublishedKeepingPreincrement(p, v) ==  \* Mutant: it is never used up.
  [view |-> v,
   generation |-> IF Identity(v) # Identity(p.view) /\ ~p.preincremented
                    THEN p.generation + 1 ELSE p.generation,
   revision |-> IF Content(v) # Content(p.view)
                  THEN p.revision + 1 ELSE p.revision,
   preincremented |-> p.preincremented]

PublishedIgnoringOffers(p, v) ==  \* Mutant: the flags are not compared.
  LET changed == Identity(v) # Identity(p.view)
  IN  [view |-> v,
       generation |-> IF changed /\ ~p.preincremented
                        THEN p.generation + 1 ELSE p.generation,
       revision |-> IF ContentWithoutOffers(v) # ContentWithoutOffers(p.view)
                      THEN p.revision + 1 ELSE p.revision,
       preincremented |-> p.preincremented /\ ~changed /\ v.context # "none"]

(* An invalidation has advanced the generation for the change that follows *)
(* it, so that change does not advance it again.                           *)
Published(p, v) ==
  LET changed == Identity(v) # Identity(p.view)
  IN  [view |-> v,
       generation |-> IF changed /\ ~p.preincremented
                        THEN p.generation + 1 ELSE p.generation,
       revision |-> IF Content(v) # Content(p.view)
                      THEN p.revision + 1 ELSE p.revision,
       preincremented |-> p.preincremented /\ ~changed /\ v.context # "none"]

NoStart == [status |-> "none", station |-> NoName, index |-> 0, saved |-> FALSE,
            committed |-> FALSE]

NowInit ==
  /\ screen = "list" /\ stations \in BoundedSeq(Names, MaxStations)
  /\ selected = 0 /\ name = NoName /\ discovered = FALSE /\ start = NoStart
  /\ source = "none" /\ playback = "stopped" /\ stream = NoName /\ title = NoName
  /\ committing = NoName /\ news = "none"
  /\ projection = [view |-> CurrentView, generation |-> 1, revision |-> 1,
                   preincremented |-> FALSE]
  /\ seen = Wire(projection) /\ misled = FALSE

(* Room for one more change of the projection.                             *)
Room ==
  projection.generation + 3 <= MaxGeneration /\ projection.revision + 4 <= MaxRevision

-----------------------------------------------------------------------------
(* play: the stream opens and starts, or does not open, or does not start  *)
(* after the old one was torn down.                                        *)
Started(n) ==
  source' = "radio" /\ playback' = "playing" /\ stream' = n /\ title' = NoName

TornDown ==
  stream' = NoName /\ title' = NoName /\ UNCHANGED <<source, playback>>

(* News of what plays: what the loop did itself is unpublished; what the   *)
(* audio task began is unknown to the loop until its success is presented. *)
LoopNews == IF UNCHANGED playerVars THEN news ELSE "unpublished"

HeardOf(n) == IF n = "unpublished" THEN "none" ELSE n

(* The loop changes the player while the audio task does not hold it.      *)
LoopChanges == committing = NoName /\ UNCHANGED committing

NotOpened == UNCHANGED playerVars

CancelDeferred ==
  start' = IF start.status = "running" THEN [start EXCEPT !.status = "cancelled"] ELSE start

PlayStationKeepsName(i) ==  \* Mutant: nowPlayingName is not written.
  /\ selected' = i /\ CancelDeferred
  /\ \/ /\ LoopChanges /\ Started(stations[i + 1])
        /\ screen' = "playing" /\ discovered' = FALSE /\ UNCHANGED name
     \/ /\ NotOpened \/ (LoopChanges /\ TornDown)
        /\ screen' = "other" /\ UNCHANGED <<name, discovered>>
  /\ UNCHANGED stations

(* playStation of a valid index, up to the invalidation it begins with.    *)
PlayStation(i) ==
  /\ selected' = i /\ CancelDeferred
  /\ \/ /\ LoopChanges /\ Started(stations[i + 1])
        /\ screen' = "playing" /\ name' = stations[i + 1] /\ discovered' = FALSE
     \/ /\ NotOpened \/ (LoopChanges /\ TornDown)
        /\ screen' = "other" /\ UNCHANGED <<name, discovered>>
  /\ UNCHANGED stations

-----------------------------------------------------------------------------
(* Physical controls and the web portal.                                   *)
MoveCursor ==
  /\ screen = "list" /\ Room
  /\ selected' \in {IF selected < Len(stations) + 2 THEN selected + 1 ELSE 0,
                    IF selected > 0 THEN selected - 1 ELSE Len(stations) + 2}
  /\ UNCHANGED <<screen, stations, name, discovered, start, playerVars,
                 projection, news, remoteVars>>

SelectRow ==
  /\ screen = "list" /\ selected \in 3..(Len(stations) + 2) /\ Room
  /\ PlayStation(selected - 3)
  /\ projection' = Invalidated(projection) /\ news' = LoopNews /\ UNCHANGED remoteVars

SkipKey ==
  /\ screen = "playing" /\ ~discovered /\ selected < Len(stations) /\ Room
  /\ \E i \in Neighbours(selected, Len(stations)) : PlayStation(i)
  /\ projection' = Invalidated(projection) /\ news' = LoopNews /\ UNCHANGED remoteVars

(* playDiscoveredStation, from a list of results, Favorites or Recent.     *)
PlayDiscovered(n) ==
  /\ screen = "other" /\ Room /\ CancelDeferred
  /\ \/ /\ LoopChanges /\ Started(n)
        /\ screen' = "playing" /\ name' = n /\ discovered' = TRUE
     \/ /\ NotOpened \/ (LoopChanges /\ TornDown)
        /\ UNCHANGED <<screen, name, discovered>>
  /\ projection' = Invalidated(projection) /\ news' = LoopNews
  /\ UNCHANGED <<stations, selected, remoteVars>>

(* To another screen; the browser stops the player first.                  *)
Stop ==
  /\ source' = "none" /\ playback' = "stopped" /\ stream' = NoName
  /\ UNCHANGED title /\ LoopChanges /\ CancelDeferred

ChangeScreen ==
  /\ screen' \in {"list", "other"} \ {screen} /\ Room
  /\ \/ UNCHANGED <<start, playerVars>>
     \/ screen = "list" /\ Stop
  /\ news' = LoopNews
  /\ UNCHANGED <<stations, selected, name, discovered, projection, remoteVars>>

(* enableBluetooth and disableBluetooth: the sink starts; it does not      *)
(* start, or is stopped; or it is up already or beyond repair, and nothing *)
(* but the start is given up.  Which of them is AudioPlayer's lifecycle.   *)
ChangeSource ==
  /\ Room /\ CancelDeferred
  /\ \/ /\ source' = "bluetooth" /\ playback' = "playing" /\ stream' = NoName
        /\ LoopChanges /\ screen' = "other"
     \/ /\ source' = "none" /\ playback' = "stopped" /\ stream' = NoName
        /\ LoopChanges /\ screen' \in {screen, "list"}
     \/ /\ UNCHANGED <<source, playback, stream, committing>>
        /\ screen' \in {screen, "other"}
  /\ UNCHANGED <<stations, selected, name, discovered, title, projection, remoteVars>>
  /\ news' = LoopNews

PauseKey ==
  /\ screen = "playing" /\ playback \in {"playing", "paused"} /\ Room
  /\ playback' = IF playback = "playing" THEN "paused" ELSE "playing"
  /\ UNCHANGED <<uiVars, start, source, stream, title, committing, projection, news,
                 remoteVars>>

(* A saved station is added or removed; selectedStation stays.             *)
EditStations ==
  /\ Room
  /\ \/ Len(stations) < MaxStations /\ \E n \in Names : stations' = Append(stations, n)
     \/ \E i \in DOMAIN stations : stations' = RemoveAt(stations, i)
  /\ UNCHANGED <<screen, selected, name, discovered, start, playerVars,
                 projection, news, remoteVars>>

-----------------------------------------------------------------------------
(* The audio task: a deferred start does not open; it passes its last      *)
(* revalidation, from where no cancellation stops it, and the old stream   *)
(* is torn down; it starts or does not start.  A stream ends, a title      *)
(* arrives.                                                                *)
StartFails ==
  /\ start.status = "running" /\ ~start.committed
  /\ start' = [start EXCEPT !.status = "failed"]
  /\ UNCHANGED <<uiVars, playerVars, projection, news, remoteVars>>

StartCommits ==
  /\ start.status = "running" /\ committing = NoName
  /\ start' = [start EXCEPT !.committed = TRUE] /\ committing' = start.station
  /\ TornDown /\ news' = "unpublished"
  /\ UNCHANGED <<uiVars, projection, remoteVars>>

(* The report, to the start it is of and only if that was not cancelled.   *)
Report(outcome) ==
  start' = IF start.committed /\ start.status = "running"
             THEN [start EXCEPT !.status = outcome] ELSE start

StartEnds ==
  /\ committing # NoName /\ committing' = NoName
  /\ \/ Started(committing) /\ news' = "unknown" /\ Report("succeeded")
     \/ UNCHANGED <<source, playback, stream, title, news>> /\ Report("failed")
  /\ UNCHANGED <<uiVars, projection, remoteVars>>

StreamMoves ==
  /\ source = "radio" /\ stream # NoName /\ playback = "playing" /\ Room
  /\ \/ title' = stream /\ UNCHANGED playback
     \/ playback' = "stopped" /\ UNCHANGED title
  /\ UNCHANGED <<uiVars, start, source, stream, committing, projection, news, remoteVars>>

-----------------------------------------------------------------------------
(* The loop publishes; serviceDeferredCatalogStart ends a start.  A start  *)
(* that succeeded is presented even if another stream has followed it.     *)
Publish ==
  /\ projection' = Published(projection, CurrentView) /\ news' = HeardOf(news)
  /\ UNCHANGED <<uiVars, start, playerVars, remoteVars>>

ServiceStart ==
  /\ start.status \in {"succeeded", "failed", "cancelled"} /\ start' = NoStart
  /\ CASE start.status = "succeeded" ->
            /\ screen' = "playing" /\ name' = start.station /\ discovered' = ~start.saved
            /\ selected' = IF start.saved THEN start.index ELSE selected
            /\ news' = IF stream \in {NoName, start.station} THEN "none" ELSE "unknown"
       [] start.status = "failed" ->
            screen' = "other" /\ news' = HeardOf(news) /\ UNCHANGED <<selected, name, discovered>>
       [] OTHER -> news' = HeardOf(news) /\ UNCHANGED <<screen, selected, name, discovered>>
  /\ UNCHANGED <<stations, playerVars, remoteVars>>
  /\ projection' = Published(projection, CurrentView')

(* A close of the session or the catalog fence gives the start up.         *)
CancelStart ==
  /\ start.status = "running" /\ CancelDeferred
  /\ UNCHANGED <<uiVars, playerVars, projection, news, remoteVars>>

-----------------------------------------------------------------------------
(* The REMOTE: it reads the projection, starts a station, and sends the    *)
(* operations its last record offered.                                     *)
Read ==
  /\ seen' = Wire(projection)
  /\ UNCHANGED <<uiVars, start, playerVars, projection, news, misled>>

RemoteStart ==
  /\ start.status = "none" /\ Room
  /\ \/ \E i \in DOMAIN stations :
          start' = [status |-> "running", station |-> stations[i], index |-> i - 1,
                    saved |-> TRUE, committed |-> FALSE]
     \/ \E n \in Names :
          start' = [status |-> "running", station |-> n, index |-> 0,
                    saved |-> FALSE, committed |-> FALSE]
  /\ projection' = Invalidated(projection)
  /\ UNCHANGED <<uiVars, playerVars, news, remoteVars>>

(* Projection::admit, for the state in which the operation is offered.     *)
Admits(op) ==
  /\ seen.generation = projection.generation
  /\ IF op = "skip"
       THEN projection.view.targets # {}
       ELSE op \in projection.view.offers

(* What the player lets a command act on is what its sender was shown.     *)
Plays(w) == w.context = Context /\ (source = "radio" => stream \in {NoName, w.station})

Command(op) ==
  /\ op \in seen.offers /\ Admits(op) /\ UNCHANGED seen
  /\ misled' = \/ misled
               \/ Shown(seen) # Shown(projection.view)
               \/ news = "none" /\ ~Plays(seen)

(* executeRtcpPlayback: resume() and pause() look at the player's state.   *)
RemotePause(op, from, to) ==
  /\ Command(op) /\ projection.revision + 4 <= MaxRevision
  /\ playback' = IF playback = from THEN to ELSE playback
  /\ UNCHANGED <<uiVars, start, source, stream, title, committing>>
  /\ projection' = Published(projection, CurrentView') /\ news' = HeardOf(news)

RemoteSkip ==
  /\ Command("skip") /\ Room
  /\ \E i \in projection.view.targets :
       IF i < Len(stations)
         THEN /\ PlayStation(i)
              /\ projection' = Published(Invalidated(projection), CurrentView')
         ELSE /\ UNCHANGED <<uiVars, start, playerVars>>
              /\ projection' = Published(projection, CurrentView)
  /\ news' = HeardOf(LoopNews)

NowNext ==
  \/ MoveCursor \/ SelectRow \/ SkipKey
  \/ \E n \in Names : PlayDiscovered(n)
  \/ ChangeScreen \/ ChangeSource \/ PauseKey \/ EditStations
  \/ StartFails \/ StartCommits \/ StartEnds \/ StreamMoves
  \/ Publish \/ ServiceStart \/ CancelStart
  \/ Read \/ RemoteStart
  \/ RemotePause("play", "paused", "playing") \/ RemotePause("pause", "playing", "paused")
  \/ RemoteSkip

NowSpec == NowInit /\ [][NowNext]_nowVars

-----------------------------------------------------------------------------
Stations == Names \union {NoName}
Contexts == {"none", "bluetooth", "fixed", "discovered"}
Sources == {"none", "bluetooth", "radio"}
Playbacks == {"stopped", "playing", "paused"}
Rows == 0..MaxStations + 2

Starts ==
  [status: {"none", "running", "cancelled", "succeeded", "failed"},
   station: Stations, index: Rows, saved: BOOLEAN, committed: BOOLEAN]

Views ==
  [context: Contexts, source: Sources, station: Stations, title: Stations,
   offers: SUBSET {"play", "pause", "skip"}, targets: SUBSET (0..MaxStations)]

Projections ==
  [view: Views, generation: Nat, revision: Nat, preincremented: BOOLEAN]

Wires ==
  [context: Contexts, station: Stations, title: Stations,
   offers: SUBSET {"play", "pause", "skip"}, generation: Nat, revision: Nat]

(* Type invariant.                                                         *)
NowTypeOK ==
  /\ screen \in {"list", "playing", "other"}
  /\ stations \in Seq(Names) /\ Len(stations) <= MaxStations
  /\ selected \in Rows /\ name \in Stations /\ discovered \in BOOLEAN
  /\ start \in Starts
  /\ source \in Sources /\ playback \in Playbacks
  /\ stream \in Stations /\ title \in Stations /\ committing \in Stations
  /\ news \in {"none", "unpublished", "unknown"}
  /\ projection \in Projections /\ seen \in Wires /\ misled \in BOOLEAN

(* A play, pause, next or previous that is admitted is meant for what the  *)
(* projection then says; and it acts in that context, and on no other      *)
(* station's stream than the one its sender was shown, unless the player   *)
(* has news for the loop: it changed since the loop last published, or the *)
(* audio task started a station whose success is not presented yet (or     *)
(* never is, the start being cancelled after its last revalidation), or an *)
(* older success was presented over a later play.  In those windows, which *)
(* the code leaves open, pause and resume look at nothing but the state.   *)
ActsOnWhatItSaw == ~misled

(* A REMOTE that finds the metadata revision unchanged has lost nothing:   *)
(* context, station, title and offered operations are those it has.        *)
RevisionTellsContent ==
  seen.revision = projection.revision => Content(seen) = Content(projection.view)
=============================================================================
