------------------------------ MODULE Navigation ------------------------------
(***************************************************************************)
(* The screens of src/src/main.cpp: the application mode, the two cursors, *)
(* the lists they run over, what the panel shows, and the menu REMOTE is   *)
(* told of.  A redraw waits for the panel, a write of Recent for the       *)
(* flash, and meanwhile the hooks poll REMOTE, whose commands may change   *)
(* the mode under the handler that waits.                                  *)
(*                                                                         *)
(* Abstracted: a list is its length; a country is the letter it begins     *)
(* with; the picked country, name letter and genre only make the query of  *)
(* the search and are left out; the audio player is its source and its     *)
(* state.  Saved stations, Favorites and Recent are StationStore's: REMOTE *)
(* and the web portal edit them between any two steps, so each step finds  *)
(* them of any length.  An input arrives at any turn of the loop, and the  *)
(* one-second and one-minute timers have expired or not at any turn.       *)
(***************************************************************************)
EXTENDS Naturals, FiniteSets, Sequences

CONSTANTS
  Letters,       \* rows below "Any Country" and "Popular Stations" (26)
  CountryLists,  \* what /json/countries may return: the letters, in order
  MaxTags,       \* MAX_BROWSE_TAGS
  MaxResults,    \* MAX_BROWSE_RESULTS
  MaxSaved,      \* MAX_STATIONS
  MaxFavorites,  \* MAX_FAVORITES
  MaxRecents,    \* MAX_RECENT
  Mirrors,       \* RADIO_BROWSER_MIRROR_COUNT
  WindowItems    \* kMenuWindowItems

ASSUME NavigationBounds ==
  /\ Letters \in Nat \ {0} /\ MaxTags \in Nat \ {0} /\ MaxResults \in Nat \ {0}
  /\ MaxSaved \in Nat /\ MaxFavorites \in Nat /\ MaxRecents \in Nat
  /\ Mirrors \in Nat \ {0} /\ WindowItems \in Nat \ {0}
  /\ CountryLists \subseteq Seq(1..Letters) \ {<<>>}

VARIABLES
  mode,       \* currentMode
  selected,   \* selectedStation: a row of the list, or a station
  cursor,     \* browseIndex
  countries,  \* the fetched countries
  filter,     \* filteredCountryIndices, up to filteredCountryCount
  skipped,    \* skippedCountrySelection
  tags,       \* getTagCount()
  results,    \* getResultCount()
  source,     \* audioPlayer.getSource()
  playback,   \* audioPlayer.getState()
  start,      \* deferredCatalogStart: none, asked, done or failed
  panel,      \* the screen drawn last
  lastKnown,  \* lastKnownPlaybackState
  settling,   \* deferredPlaybackDisplayPending
  wait        \* what a handler waits for with work left, or "no"

cursorVars == <<selected, cursor>>
browseVars == <<countries, filter, skipped, tags, results>>
audioVars == <<source, playback, start>>
panelVars == <<panel, lastKnown, settling>>
navVars == <<mode, cursorVars, browseVars, audioVars, panelVars, wait>>

Browsing == {"letter", "country", "stationLetter", "tag", "results"}
Lists == Browsing \union {"favorites", "recent"}
Modes == Lists \union {"stations", "playing", "bluetooth", "error", "idle"}

-----------------------------------------------------------------------------
NavInit ==
  /\ mode = "stations" /\ selected = 0 /\ cursor = 0
  /\ countries = <<>> /\ filter = <<>> /\ skipped = FALSE
  /\ tags = 0 /\ results = 0
  /\ source = "none" /\ playback = "stopped" /\ start = "none"
  /\ panel \in {"stations", "portal"} /\ lastKnown = "stopped" /\ settling = FALSE
  /\ wait = "no"

(* A handler's last redraw waits for the panel, in which REMOTE is served  *)
(* as it is at the turn of the loop that follows: the two are one state.   *)
Show(screen) ==
  /\ panel' = screen /\ wait' = "no" /\ UNCHANGED <<lastKnown, settling>>

Enter(screen) == mode' = screen /\ Show(screen)

(* How many rows a step may find on a screen.                              *)
Rows(screen) ==
  CASE screen = "stations" -> 3..MaxSaved + 3
    [] screen \in {"letter", "stationLetter"} -> {Letters + 1}
    [] screen = "country" -> {Len(filter)}
    [] screen = "tag" -> {tags + 1}
    [] screen = "results" -> {results}
    [] screen = "favorites" -> 0..MaxFavorites
    [] screen = "recent" -> 0..MaxRecents
    [] OTHER -> {0}

TurnedPastEnd(key, at, rows) ==  \* Mutant: the wrap backwards is one row late.
  IF key = "up" THEN IF at + 1 < rows THEN at + 1 ELSE 0
                ELSE IF at > 0 THEN at - 1 ELSE rows

(* A detent moves the cursor one row, around the ends of the list.         *)
Turned(key, at, rows) ==
  IF key = "up" THEN IF at + 1 < rows THEN at + 1 ELSE 0
                ELSE IF at > 0 THEN at - 1 ELSE rows - 1

-----------------------------------------------------------------------------
(* The audio player, as the screens see it (AudioPlayer.tla has its steps  *)
(* and says which of these it may take): each call gives up a REMOTE start *)
(* that has not been played yet.                                           *)
Cancels == start' = IF start = "asked" THEN "none" ELSE start

Plays == Cancels /\ source' = "radio" /\ playback' = "playing"

Stops == Cancels /\ source' = "none" /\ playback' = "stopped"

(* A failed open leaves the old stream, a failed decoder the old state; a  *)
(* sink already on, or beyond repair, leaves everything.                   *)
Leaves == Cancels /\ UNCHANGED <<source, playback>>

Enables ==
  Leaves \/ (Cancels /\ source' = "bluetooth" /\ playback' = "playing")

PlayStationUnmarked(station, drawn) ==  \* Mutant: updateUI is not told.
  /\ selected' = station
  /\ \/ Plays /\ mode' = "playing" /\ panel' = IF drawn THEN "playing" ELSE panel
     \/ Leaves /\ mode' = "error" /\ panel' = IF drawn THEN "error" ELSE panel
  /\ UNCHANGED <<lastKnown, settling, wait, cursor, browseVars>>

(* playStation; REMOTE's Next and Previous leave the drawing to updateUI.  *)
PlayStation(station, drawn) ==
  /\ selected' = station
  /\ \/ /\ Plays /\ mode' = "playing" /\ lastKnown' = "buffering"
        /\ panel' = IF drawn THEN "playing" ELSE panel
     \/ /\ Leaves /\ mode' = "error" /\ UNCHANGED lastKnown
        /\ panel' = IF drawn THEN "error" ELSE panel
  /\ UNCHANGED <<settling, wait, cursor, browseVars>>

(* playDiscoveredStation: Recent and perhaps Favorites are written first,  *)
(* then the browse memory is freed and the station played.                 *)
PlayDiscovered ==
  /\ wait' = "recent"
  /\ UNCHANGED <<mode, cursorVars, browseVars, audioVars, panelVars>>

Freed == countries' = <<>> /\ tags' = 0 /\ results' = 0

PlayedDiscovered ==
  /\ wait = "recent" /\ Freed
  /\ \/ /\ Plays /\ mode' = "playing" /\ panel' = "playing"
        /\ lastKnown' = "buffering"
     \/ /\ Leaves /\ mode' = "error" /\ panel' = "error"
        /\ UNCHANGED lastKnown
  /\ wait' = "no"
  /\ UNCHANGED <<cursorVars, filter, skipped, settling>>

-----------------------------------------------------------------------------
(* handleInput, by screen.  A key that a screen ignores is no step.        *)
Clicks == {"click", "play"}
Detents == {"up", "down"}
Keys == Clicks \union Detents \union {"next", "prev", "long"}

(* The two screens that any input only dismisses.                          *)
Dismiss ==
  /\ mode \in {"error", "idle"} /\ Enter("stations")
  /\ UNCHANGED <<cursorVars, browseVars, audioVars>>

(* enterBrowseLetter stops what plays before it uses the network.          *)
Browse ==
  /\ mode = "stations" /\ selected = 0 /\ Stops
  /\ panel' = "loading" /\ wait' = "countries"
  /\ UNCHANGED <<mode, cursorVars, browseVars, lastKnown, settling>>

SwitchToBluetooth ==
  /\ mode = "stations"
  /\ \/ Enables /\ Enter("bluetooth")
     \/ (Leaves \/ Stops) /\ Show("error") /\ UNCHANGED mode
  /\ UNCHANGED <<cursorVars, browseVars>>

SwitchToRadio ==
  /\ mode = "bluetooth"
  /\ Leaves \/ Stops
  /\ Enter("stations") \/ (Show("error") /\ UNCHANGED mode)
  /\ UNCHANGED <<cursorVars, browseVars>>

StationsKey(key, rows) ==
  \/ /\ mode = "stations" /\ key \in Detents
     /\ selected' = Turned(key, selected, rows) /\ Show("stations")
     /\ UNCHANGED <<mode, cursor, browseVars, audioVars>>
  \/ key \in Clicks /\ Browse
  \/ /\ mode = "stations" /\ key \in Clicks /\ selected \in {1, 2}
     /\ cursor' = 0 /\ Enter(IF selected = 1 THEN "favorites" ELSE "recent")
     /\ UNCHANGED <<selected, browseVars, audioVars>>
  \/ /\ mode = "stations" /\ key \in Clicks
     /\ selected > 2 /\ selected < rows /\ PlayStation(selected - 3, TRUE)
  \/ key = "long" /\ SwitchToBluetooth

(* Next and Previous wrap around the saved stations, and are refused when  *)
(* the selection is no longer one of them.  On a discovered station Next   *)
(* only adds it to Favorites.                                              *)
Neighbour(key, count) ==
  IF key = "next" THEN (selected + 1) % count
  ELSE IF selected = 0 THEN count - 1 ELSE selected - 1

PauseOrResume ==
  /\ playback # "stopped"
  /\ playback' = IF playback = "playing" THEN "paused" ELSE "playing"
  /\ UNCHANGED <<source, start>>

PlayingKey(key) ==
  /\ mode = "playing"
  /\ \/ /\ key = "play" /\ PauseOrResume /\ lastKnown' = playback'
        /\ panel' = "playing"
        /\ UNCHANGED <<mode, cursorVars, browseVars, settling, wait>>
     \/ \E count \in selected + 1..MaxSaved :
          key \in {"next", "prev"} /\ PlayStation(Neighbour(key, count), TRUE)
     \/ /\ key = "click" /\ Enter("stations")
        /\ UNCHANGED <<cursorVars, browseVars, audioVars>>

(* Every list screen turns alike; an empty one only goes back.             *)
ListTurn(key, rows) ==
  /\ mode \in Lists /\ key \in Detents /\ rows > 0
  /\ cursor' = Turned(key, cursor, rows) /\ Show(mode)
  /\ UNCHANGED <<mode, selected, browseVars, audioVars>>

(* applyLetterFilter: the indices of the countries under the letter, in    *)
(* the order of the list.                                                  *)
UpTo(found, i) == Cardinality({j \in found : j <= i})

Matching(letter) ==
  LET found == {i \in 1..Len(countries) : countries[i] = letter}
  IN  [k \in 1..Cardinality(found) |-> CHOOSE i \in found : UpTo(found, i) = k]

PickLetter ==
  /\ mode = "letter"
  /\ \/ /\ cursor = 0 /\ skipped' = TRUE
        /\ Enter("stationLetter") /\ UNCHANGED <<filter, cursor>>
     \/ /\ cursor > 0 /\ filter' = Matching(cursor)
        /\ IF filter' # <<>>
             THEN skipped' = FALSE /\ cursor' = 0 /\ Enter("country")
             ELSE UNCHANGED <<skipped, cursor, mode, panelVars, wait>>
  /\ UNCHANGED <<selected, countries, tags, results, audioVars>>

(* Past its count the array keeps what older letters left there: such an   *)
(* index may be a country's or no longer one.                              *)
PickCountry ==
  /\ mode = "country" /\ filter # <<>>
  /\ cursor < Len(filter) => filter[cursor + 1] <= Len(countries)
  /\ cursor' = 0 /\ Enter("stationLetter")
  /\ UNCHANGED <<selected, browseVars, audioVars>>

(* The name letter and the genre make the query; each asks the network.    *)
Ask ==
  /\ mode \in {"stationLetter", "tag"}
  /\ panel' = "loading" /\ wait' = IF mode = "tag" THEN "results" ELSE "tags"
  /\ UNCHANGED <<mode, cursorVars, browseVars, audioVars, lastKnown, settling>>

(* On Favorites, Play removes the row; elsewhere it also adds a favorite.  *)
PlayRow(key, rows) ==
  /\ mode \in {"results", "favorites", "recent"} /\ cursor < rows
  /\ ~(mode = "favorites" /\ key = "play")
  /\ PlayDiscovered

RemoveFavorite(rows) ==
  /\ mode = "favorites" /\ cursor < rows
  /\ cursor' = IF cursor >= rows - 1 /\ rows > 1 THEN rows - 2 ELSE cursor
  /\ Show("favorites")
  /\ UNCHANGED <<mode, selected, browseVars, audioVars>>

(* A long press goes back one screen.                                      *)
Parent ==
  CASE mode = "country" -> "letter"
    [] mode = "stationLetter" -> IF skipped THEN "letter" ELSE "country"
    [] mode = "tag" -> "stationLetter"
    [] mode = "results" -> "tag"
    [] OTHER -> "stations"

Back ==
  /\ mode \in Lists /\ Enter(Parent)
  /\ cursor' = IF mode \in {"tag", "results"} THEN 0 ELSE cursor
  /\ IF mode = "letter" THEN Freed ELSE UNCHANGED <<countries, tags, results>>
  /\ UNCHANGED <<selected, filter, skipped, audioVars>>

ListKey(key, rows) ==
  \/ ListTurn(key, rows)
  \/ key \in Clicks /\ (PickLetter \/ PickCountry \/ Ask \/ PlayRow(key, rows))
  \/ key = "play" /\ RemoveFavorite(rows)
  \/ key = "long" /\ Back

Key(key) ==
  /\ wait = "no"
  /\ \/ Dismiss
     \/ \E rows \in Rows(mode) : StationsKey(key, rows) \/ ListKey(key, rows)
     \/ PlayingKey(key)
     \/ key = "long" /\ SwitchToRadio

-----------------------------------------------------------------------------
(* The end of a request to the radio browser.  A mirror that does not      *)
(* answer is followed by the next; an answer that cannot be used is not.   *)
Outcomes == {"ok", "server", "client"}

Answered(tries) ==
  \E i \in 1..Mirrors : tries[i] = "ok" /\ \A j \in 1..i - 1 : tries[j] = "server"

(* A list that is empty is an error, as is a request that failed.          *)
Fetched(screen, some) ==
  IF some THEN cursor' = 0 /\ Enter(screen)
          ELSE UNCHANGED cursor /\ Enter("error")

CountriesFetched(tries) ==
  /\ wait = "countries"
  /\ countries' \in IF Answered(tries) THEN CountryLists \union {<<>>} ELSE {countries}
  /\ Fetched("letter", Answered(tries) /\ countries' # <<>>)
  /\ UNCHANGED <<selected, filter, skipped, tags, results, audioVars>>

TagsFetched(tries) ==
  /\ wait = "tags"
  /\ tags' \in IF Answered(tries) THEN 0..MaxTags ELSE {tags}
  /\ Fetched("tag", Answered(tries) /\ tags' > 0)
  /\ UNCHANGED <<selected, countries, filter, skipped, results, audioVars>>

ResultsFetched(tries) ==
  /\ wait = "results"
  /\ results' \in IF Answered(tries) THEN 0..MaxResults ELSE {results}
  /\ Fetched("results", Answered(tries) /\ results' > 0)
  /\ UNCHANGED <<selected, countries, filter, skipped, tags, audioVars>>

-----------------------------------------------------------------------------
(* The audio task, the streams and the Bluetooth stack.                    *)
TaskStarts ==
  /\ start = "asked"
  /\ \/ source' = "radio" /\ playback' = "playing" /\ start' = "done"
     \/ start' = "failed" /\ UNCHANGED <<source, playback>>
  /\ UNCHANGED <<mode, cursorVars, browseVars, panelVars, wait>>

StreamMoves ==
  /\ \/ source = "radio" /\ playback = "playing" /\ playback' = "stopped"
     \/ source = "bluetooth" /\ playback' \in {"playing", "paused", "stopped"}
  /\ UNCHANGED <<mode, cursorVars, browseVars, source, start, panelVars, wait>>

-----------------------------------------------------------------------------
(* serviceDeferredCatalogStart, once the loop is back at its turn: a       *)
(* success is answered, and Recent written, before the panel is due.       *)
ServeSuccess ==
  /\ wait = "no" /\ start = "done"
  /\ selected' \in {selected} \union 0..MaxSaved - 1
  /\ mode' = "playing" /\ lastKnown' = "buffering" /\ wait' = "settle"
  /\ UNCHANGED <<cursor, browseVars, audioVars, panel, settling>>

ServeFailure ==
  /\ wait = "no" /\ start = "failed"
  /\ mode' = "error" /\ panel' = "error" /\ wait' = "settle"
  /\ UNCHANGED <<cursorVars, browseVars, audioVars, lastKnown, settling>>

Served ==
  /\ wait = "settle" /\ wait' = "no" /\ start' = "none"
  /\ settling' = (settling \/ start # "failed")
  /\ UNCHANGED <<mode, cursorVars, browseVars, source, playback, panel, lastKnown>>

-----------------------------------------------------------------------------
(* REMOTE, at any turn and in any wait.                                    *)

(* executeRtcpSource draws inside the poll that executes it.               *)
Redraw(screen) == mode' = screen /\ panel' = screen

RemoteBluetooth ==
  /\ source # "bluetooth"
  /\ \/ Enables /\ Redraw("bluetooth")
     \/ (Leaves \/ Stops) /\ UNCHANGED <<mode, panel>>
  /\ UNCHANGED <<cursorVars, browseVars, lastKnown, settling, wait>>

RemoteRadio ==
  /\ source # "radio" \/ mode = "bluetooth"
  /\ IF source = "bluetooth"
       THEN (Leaves \/ Stops) /\ (Redraw("stations") \/ UNCHANGED <<mode, panel>>)
       ELSE UNCHANGED audioVars /\ Redraw("stations")
  /\ UNCHANGED <<cursorVars, browseVars, lastKnown, settling, wait>>

(* The target was chosen from what was published (NowPlaying.tla).         *)
RemoteSkip == \E i \in 0..MaxSaved - 1 : PlayStation(i, FALSE)

RemotePause ==
  /\ PauseOrResume
  /\ UNCHANGED <<mode, cursorVars, browseVars, panelVars, wait>>

RemoteStart ==
  /\ start = "none" /\ start' = "asked"
  /\ UNCHANGED <<mode, cursorVars, browseVars, source, playback, panelVars, wait>>

(* The session closed, or the saved list is no longer the one asked of.    *)
StartGivenUp ==
  /\ start = "asked" /\ start' = "none"
  /\ UNCHANGED <<mode, cursorVars, browseVars, source, playback, panelVars, wait>>

-----------------------------------------------------------------------------
(* The timers of the loop.                                                 *)
IdleClock ==
  /\ wait = "no" /\ mode = "stations" /\ playback = "stopped" /\ Enter("idle")
  /\ UNCHANGED <<cursorVars, browseVars, audioVars>>

RedrawIsDue == mode = "playing" /\ (settling \/ lastKnown # playback)

UpdateUI ==
  /\ wait = "no"
  /\ \/ RedrawIsDue /\ lastKnown' = playback /\ panel' = "playing"
     \/ mode # "playing" /\ settling /\ UNCHANGED <<lastKnown, panel>>
  /\ settling' = FALSE
  /\ UNCHANGED <<mode, cursorVars, browseVars, audioVars, wait>>

-----------------------------------------------------------------------------
NavNext ==
  \/ \E key \in Keys : Key(key)
  \/ \E tries \in [1..Mirrors -> Outcomes] :
       CountriesFetched(tries) \/ TagsFetched(tries) \/ ResultsFetched(tries)
  \/ PlayedDiscovered
  \/ TaskStarts \/ StreamMoves
  \/ ServeSuccess \/ ServeFailure \/ Served
  \/ RemoteBluetooth \/ RemoteRadio \/ RemoteSkip \/ RemotePause
  \/ RemoteStart \/ StartGivenUp
  \/ IdleClock \/ UpdateUI

NavSpec == NavInit /\ [][NavNext]_navVars

-----------------------------------------------------------------------------
(* projectRtcpMenu: the window around the cursor, and whether every row of *)
(* it has a name; only a country is named through an index of its own.     *)
Named(row) == mode = "country" => filter[row + 1] <= Len(countries)

Unclamped(at, count) == at  \* Mutant: the cursor as it is.

Clamped(at, count) == IF at < count THEN at ELSE count - 1

WindowStart(at, count) ==
  LET centred == IF at > WindowItems \div 2 THEN at - WindowItems \div 2 ELSE 0
  IN  IF centred + WindowItems <= count THEN centred
      ELSE IF count > WindowItems THEN count - WindowItems ELSE 0

MenuView(count) ==
  LET at    == IF mode = "stations" THEN selected ELSE cursor
      first == WindowStart(Clamped(at, count), count)
      size  == IF count - first < WindowItems THEN count - first ELSE WindowItems
  IN  IF count = 0
        THEN [count |-> 0, selected |-> 0, first |-> 0, size |-> 0, named |-> TRUE]
        ELSE [count |-> count, selected |-> Clamped(at, count), first |-> first,
              size |-> size, named |-> \A row \in first..first + size - 1 : Named(row)]

(* menuState refuses to encode anything else, and REMOTE gets no answer.   *)
Encodes(view) ==
  /\ IF view.count > 0 THEN view.selected < view.count ELSE view.selected = 0
  /\ view.size <= WindowItems /\ view.first <= view.count
  /\ view.first + view.size <= view.count
  /\ view.named

-----------------------------------------------------------------------------
(* Type invariant.                                                         *)
NavTypeOK ==
  /\ mode \in Modes /\ panel \in Modes \union {"portal", "loading"}
  /\ selected \in 0..MaxSaved + 2
  /\ countries \in CountryLists \union {<<>>}
  /\ cursor \in Nat /\ filter \in Seq(Nat) /\ skipped \in BOOLEAN
  /\ tags \in 0..MaxTags /\ results \in 0..MaxResults
  /\ source \in {"none", "radio", "bluetooth"}
  /\ playback \in {"stopped", "playing", "paused"}
  /\ settling \in BOOLEAN
  /\ start \in {"none", "asked", "done", "failed"}
  /\ lastKnown \in {"stopped", "playing", "paused", "buffering"}
  /\ wait \in {"no", "countries", "tags", "results", "recent", "settle"}

(* REMOTE may ask for the menu at any turn and in any wait of a handler:   *)
(* the projection always encodes, no row of it names a country whose       *)
(* memory was freed or replaced, and its window shows the selected row,    *)
(* however the lists were edited under the cursor.                         *)
MenuIsValid ==
  \A rows \in Rows(mode) :
    LET view == MenuView(rows)
    IN /\ Encodes(view)
       /\ view.count > 0 => view.selected \in view.first..view.first + view.size - 1

(* Between the handlers the panel shows the screen whose keys are active,  *)
(* or updateUI is about to draw it, whatever REMOTE did while a handler    *)
(* waited for the panel; only an error and the portal's instructions may   *)
(* stay over another screen.                                               *)
PanelAgrees ==
  wait = "no" /\ mode # "error" /\ panel \notin {"error", "portal"} =>
    panel = mode \/ RedrawIsDue

=============================================================================
