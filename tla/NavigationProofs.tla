--------------------------- MODULE NavigationProofs ---------------------------
(***************************************************************************)
(* Theorems of Navigation, for every number of letters, countries, genres, *)
(* results, saved stations, Favorites and Recent, and every menu window.   *)
(***************************************************************************)
EXTENDS Navigation, Integers, FiniteSetTheorems, SequenceTheorems,
        WellFoundedInduction, TLAPS

USE DEF cursorVars, browseVars, audioVars, panelVars, navVars

-----------------------------------------------------------------------------
(* applyLetterFilter.  A set of numbers has a least one, so the k-th       *)
(* country under a letter exists, and its index is one of the list.        *)
LEMMA LeastNumber ==
  ASSUME NEW S \in SUBSET Nat, S # {}
  PROVE  \E m \in S : \A n \in S : m <= n
  <1>1. IsWellFoundedOn(OpToRel(<, Nat), Nat) BY NatLessThanWellFounded
  <1>2. PICK m \in S : \A n \in S : <<n, m>> \notin OpToRel(<, Nat) BY <1>1, WFMin
  <1>3. \A a, b \in Nat : a < b => <<a, b>> \in OpToRel(<, Nat) BY DEF OpToRel
  <1>4. m \in S BY <1>2, Zenon
  <1>5. ASSUME NEW n \in S PROVE m <= n
    <2>1. n \in Nat /\ m \in Nat BY <1>4
    <2>2. ~(n < m) BY <1>2, <1>3, <2>1, Zenon
    <2> QED BY <2>1, <2>2
  <1> QED BY <1>4, <1>5

LEMMA EveryPlaceIsTaken ==
  ASSUME NEW N \in Nat, NEW S \in SUBSET (1..N), NEW k \in 1..Cardinality(S)
  PROVE  \E i \in S : UpTo(S, i) = k
  <1> DEFINE reached == {n \in 0..N : k <= UpTo(S, n)}
  <1>1. \A j \in S : j \in Nat /\ 1 <= j /\ j <= N OBVIOUS
  <1>2. IsFiniteSet(S) /\ Cardinality(S) \in Nat
    <2>1. IsFiniteSet(1..N) BY FS_Interval
    <2>2. IsFiniteSet(S) BY <2>1, FS_Subset
    <2> QED BY <2>2, FS_CardinalityType
  <1>3. ASSUME NEW n \in 0..N PROVE UpTo(S, n) \in Nat
    <2>1. {j \in S : j <= n} \in SUBSET S OBVIOUS
    <2>2. IsFiniteSet({j \in S : j <= n}) BY <1>2, <2>1, FS_Subset
    <2> QED BY <2>2, FS_CardinalityType DEF UpTo
  <1>4. N \in reached
    <2>1. {j \in S : j <= N} = S BY <1>1
    <2> QED BY <1>2, <2>1 DEF UpTo
  <1>5. PICK i \in reached : \A n \in reached : i <= n
    <2>1. reached \in SUBSET Nat /\ reached # {} BY <1>4
    <2> HIDE DEF reached
    <2> QED BY <2>1, LeastNumber
  <1>6. i # 0
    <2>1. \A j \in S : ~(j <= 0) BY <1>1
    <2>2. {j \in S : j <= 0} = {} BY <2>1
    <2>3. UpTo(S, 0) = 0 BY <2>2, FS_EmptySet DEF UpTo
    <2> QED BY <1>2, <1>5, <2>3
  <1>7. i \in 1..N /\ i - 1 \in 0..N BY <1>5, <1>6
  <1>8. UpTo(S, i - 1) < k BY <1>3, <1>5, <1>7
  <1>9. IF i \in S THEN UpTo(S, i) = UpTo(S, i - 1) + 1 ELSE UpTo(S, i) = UpTo(S, i - 1)
    <2> DEFINE below == {j \in S : j <= i - 1}
    <2>1. IsFiniteSet(below)
      <3>1. below \in SUBSET S OBVIOUS
      <3> QED BY <1>2, <3>1, FS_Subset
    <2>2. {j \in S : j <= i} = IF i \in S THEN below \union {i} ELSE below
      <3>1. \A j \in S : j <= i <=> j <= i - 1 \/ j = i BY <1>1, <1>7
      <3> QED BY <3>1
    <2>3. i \notin below BY <1>7
    <2>4. UpTo(S, i - 1) = Cardinality(below) BY DEF UpTo
    <2>5. CASE i \in S
      <3>1. UpTo(S, i) = Cardinality(below \union {i}) BY <2>2, <2>5 DEF UpTo
      <3> QED BY <2>1, <2>3, <2>4, <2>5, <3>1, FS_AddElement
    <2>6. CASE i \notin S BY <2>2, <2>4, <2>6 DEF UpTo
    <2> QED BY <2>5, <2>6
  <1> QED BY <1>3, <1>5, <1>7, <1>8, <1>9

LEMMA MatchingIsInList ==
  ASSUME Len(countries) \in Nat, NEW letter
  PROVE  /\ Matching(letter) \in Seq(Nat)
         /\ \A k \in 1..Len(Matching(letter)) : Matching(letter)[k] <= Len(countries)
  <1> DEFINE found == {i \in 1..Len(countries) : countries[i] = letter}
             place(k) == CHOOSE i \in found : UpTo(found, i) = k
             count == Cardinality(found)
  <1>1. count \in Nat
    <2>1. IsFiniteSet(1..Len(countries)) BY FS_Interval
    <2>2. IsFiniteSet(found) BY <2>1, FS_Subset
    <2> QED BY <2>2, FS_CardinalityType
  <1>2. ASSUME NEW k \in 1..count PROVE place(k) \in Nat /\ place(k) <= Len(countries)
    <2>1. found \in SUBSET (1..Len(countries)) OBVIOUS
    <2>2. \E i \in found : UpTo(found, i) = k
      <3> HIDE DEF found
      <3> QED BY <2>1, EveryPlaceIsTaken
    <2>3. place(k) \in found BY <2>2
    <2> QED BY <2>3
  <1>3. Matching(letter) = [k \in 1..count |-> place(k)] BY DEF Matching
  <1> HIDE DEF place, count
  <1>4. Matching(letter) \in [1..count -> Nat] BY <1>2, <1>3
  <1>5. Matching(letter) \in Seq(Nat) /\ Len(Matching(letter)) = count
    BY <1>1, <1>4
  <1> QED BY <1>2, <1>3, <1>5

-----------------------------------------------------------------------------
(* Types.                                                                  *)
AudioOK ==
  /\ source \in {"none", "radio", "bluetooth"}
  /\ playback \in {"stopped", "playing", "paused"}
  /\ start \in {"none", "asked", "done", "failed"}

BrowseOK ==
  /\ countries \in CountryLists \union {<<>>}
  /\ filter \in Seq(Nat) /\ skipped \in BOOLEAN
  /\ tags \in 0..MaxTags /\ results \in 0..MaxResults

CursorOK == selected \in 0..MaxSaved + 2 /\ cursor \in Nat

ScreenOK ==
  /\ mode \in Modes /\ panel \in Modes \union {"portal", "loading"}
  /\ settling \in BOOLEAN
  /\ lastKnown \in {"stopped", "playing", "paused", "buffering"}
  /\ wait \in {"no", "countries", "tags", "results", "recent", "settle"}

LEMMA TypeIsItsParts == NavTypeOK <=> AudioOK /\ BrowseOK /\ CursorOK /\ ScreenOK
  BY DEF NavTypeOK, AudioOK, BrowseOK, CursorOK, ScreenOK

LEMMA BoundsAreNumbers ==
  /\ Letters \in Nat /\ Letters > 0 /\ MaxTags \in Nat /\ MaxResults \in Nat
  /\ MaxSaved \in Nat /\ MaxFavorites \in Nat /\ MaxRecents \in Nat
  /\ WindowItems \in Nat /\ WindowItems > 0
  BY NavigationBounds

LEMMA CountriesAreCounted == ASSUME BrowseOK PROVE Len(countries) \in Nat
  <1>1. CASE countries = <<>> BY <1>1
  <1>2. CASE countries \in CountryLists
    <2>1. countries \in Seq(1..Letters) BY <1>2, NavigationBounds
    <2> QED BY <2>1, LenProperties
  <1> QED BY <1>1, <1>2 DEF BrowseOK

LEMMA RowsAreNumbers ==
  ASSUME NavTypeOK, NEW rows \in Rows(mode)
  PROVE  rows \in Nat /\ (mode = "stations" => 3 <= rows /\ rows <= MaxSaved + 3)
  <1>1. Len(filter) \in Nat BY LenProperties DEF NavTypeOK
  <1>2. tags \in Nat /\ results \in Nat BY BoundsAreNumbers DEF NavTypeOK
  <1>3. CASE mode = "stations" BY <1>3, BoundsAreNumbers DEF Rows
  <1>4. CASE mode # "stations" BY <1>1, <1>2, <1>4, BoundsAreNumbers DEF Rows
  <1> QED BY <1>3, <1>4

LEMMA TurnedIsARow ==
  ASSUME NEW key, NEW at \in Nat, NEW rows \in Nat, rows > 0
  PROVE  Turned(key, at, rows) \in Nat /\ (Turned(key, at, rows) < rows \/ Turned(key, at, rows) < at)
  BY DEF Turned

(* The calls to the audio player keep its part.                            *)
LEMMA AudioCalls ==
  ASSUME AudioOK
  PROVE  /\ Plays \/ Stops \/ Leaves \/ Enables \/ PauseOrResume => AudioOK'
         /\ UNCHANGED audioVars => AudioOK'
  BY DEF AudioOK, Plays, Stops, Leaves, Enables, Cancels, PauseOrResume

LEMMA PlayedStation ==
  ASSUME NavTypeOK, NEW station \in Nat, station < MaxSaved, NEW drawn,
         PlayStation(station, drawn)
  PROVE  NavTypeOK'
  <1>1. AudioOK /\ BrowseOK /\ CursorOK /\ ScreenOK BY TypeIsItsParts
  <1>2. AudioOK' BY <1>1, AudioCalls DEF PlayStation
  <1>3. CursorOK' BY <1>1, BoundsAreNumbers DEF CursorOK, PlayStation
  <1>4. ScreenOK' BY <1>1 DEF ScreenOK, PlayStation, Modes, Lists, Browsing
  <1>5. BrowseOK' BY <1>1 DEF BrowseOK, PlayStation
  <1> QED BY <1>2, <1>3, <1>4, <1>5
          DEF NavTypeOK, AudioOK, BrowseOK, CursorOK, ScreenOK

LEMMA EmptiedIsTyped ==
  Freed => /\ countries' \in CountryLists \union {<<>>}
           /\ tags' \in 0..MaxTags /\ results' \in 0..MaxResults
  BY BoundsAreNumbers DEF Freed

-----------------------------------------------------------------------------
(* The types hold after every step.                                        *)
LEMMA KeysKeepTypes ==
  ASSUME NavTypeOK, NEW key \in Keys, Key(key)
  PROVE  NavTypeOK'
  <1>1. AudioOK /\ BrowseOK /\ CursorOK /\ ScreenOK BY TypeIsItsParts
  <1>2. SUFFICES AudioOK' /\ BrowseOK' /\ CursorOK' /\ ScreenOK'
    BY DEF NavTypeOK, AudioOK, BrowseOK, CursorOK, ScreenOK
  <1>3. UNCHANGED audioVars => AudioOK' BY <1>1, AudioCalls
  <1>4. UNCHANGED browseVars => BrowseOK' BY <1>1 DEF BrowseOK
  <1>5. UNCHANGED cursorVars => CursorOK' BY <1>1 DEF CursorOK
  <1>6. \A m \in Modes : Enter(m) => ScreenOK'
    BY <1>1 DEF Enter, Show, ScreenOK
  <1>7. \A m \in Modes : Show(m) /\ UNCHANGED mode => ScreenOK'
    BY <1>1 DEF Show, ScreenOK
  <1>8. mode \in Modes BY <1>1 DEF ScreenOK
  <1>9. /\ {"stations", "bluetooth", "error", "favorites", "recent", "playing"} \subseteq Modes
        /\ Lists \subseteq Modes /\ Browsing \subseteq Lists
    BY DEF Modes, Lists, Browsing
  <1>10. CASE Dismiss BY <1>3, <1>4, <1>5, <1>6, <1>9, <1>10 DEF Dismiss
  <1>11. CASE key = "long" /\ SwitchToRadio
    BY <1>1, <1>4, <1>5, <1>6, <1>7, <1>9, <1>11, AudioCalls DEF SwitchToRadio
  <1>12. CASE PlayingKey(key)
    <2>1. CASE /\ key = "play" /\ PauseOrResume /\ lastKnown' = playback'
               /\ panel' = "playing"
               /\ UNCHANGED <<mode, cursorVars, browseVars, settling, wait>>
      <3>1. AudioOK' BY <1>1, <2>1, AudioCalls
      <3>2. ScreenOK' BY <1>1, <1>9, <2>1, <3>1 DEF ScreenOK, AudioOK
      <3> QED BY <1>4, <1>5, <2>1, <3>1, <3>2
    <2>2. ASSUME NEW count \in (selected + 1)..MaxSaved, key \in {"next", "prev"},
                 PlayStation(Neighbour(key, count), TRUE)
          PROVE  AudioOK' /\ BrowseOK' /\ CursorOK' /\ ScreenOK'
      <3>1. selected \in Nat /\ MaxSaved \in Nat BY <1>1, BoundsAreNumbers DEF CursorOK
      <3>2. count \in Nat /\ selected < count /\ count <= MaxSaved BY <3>1
      <3>3. (selected + 1) % count \in 0..(count - 1) BY <3>1, <3>2
      <3>4. Neighbour(key, count) \in Nat /\ Neighbour(key, count) < MaxSaved
        BY <3>1, <3>2, <3>3 DEF Neighbour
      <3>5. NavTypeOK' BY <2>2, <3>4, PlayedStation
      <3> QED BY <3>5 DEF NavTypeOK, AudioOK, BrowseOK, CursorOK, ScreenOK
    <2>3. CASE key = "click" /\ Enter("stations") /\ UNCHANGED <<cursorVars, browseVars, audioVars>>
      BY <1>3, <1>4, <1>5, <1>6, <1>9, <2>3
    <2> QED BY <1>12, <2>1, <2>2, <2>3 DEF PlayingKey
  <1>13. ASSUME NEW rows \in Rows(mode), StationsKey(key, rows)
         PROVE  AudioOK' /\ BrowseOK' /\ CursorOK' /\ ScreenOK'
    <2>1. rows \in Nat /\ (mode = "stations" => 3 <= rows /\ rows <= MaxSaved + 3)
      BY RowsAreNumbers
    <2>2. selected \in Nat /\ selected <= MaxSaved + 2 /\ MaxSaved \in Nat /\ cursor \in Nat
      BY <1>1, BoundsAreNumbers DEF CursorOK
    <2>3. CASE /\ mode = "stations" /\ key \in Detents
               /\ selected' = Turned(key, selected, rows) /\ Show("stations")
               /\ UNCHANGED <<mode, cursor, browseVars, audioVars>>
      <3>1. selected' \in 0..MaxSaved + 2 BY <2>1, <2>2, <2>3, TurnedIsARow
      <3>2. CursorOK' BY <2>2, <2>3, <3>1 DEF CursorOK
      <3> QED BY <1>3, <1>4, <1>7, <1>9, <2>3, <3>2
    <2>4. CASE Browse
      <3>1. AudioOK' BY <1>1, <2>4, AudioCalls DEF Browse
      <3>2. ScreenOK' BY <1>1, <2>4 DEF Browse, ScreenOK
      <3> QED BY <1>4, <1>5, <2>4, <3>1, <3>2 DEF Browse
    <2>5. CASE /\ mode = "stations" /\ key \in Clicks /\ selected \in {1, 2}
               /\ cursor' = 0 /\ Enter(IF selected = 1 THEN "favorites" ELSE "recent")
               /\ UNCHANGED <<selected, browseVars, audioVars>>
      <3>1. CursorOK' BY <1>1, <2>5 DEF CursorOK
      <3> QED BY <1>3, <1>4, <1>6, <1>9, <2>5, <3>1
    <2>6. CASE /\ mode = "stations" /\ key \in Clicks
               /\ selected > 2 /\ selected < rows /\ PlayStation(selected - 3, TRUE)
      <3>1. selected - 3 \in Nat /\ selected - 3 < MaxSaved BY <2>1, <2>2, <2>6
      <3>2. NavTypeOK' BY <2>6, <3>1, PlayedStation
      <3> QED BY <3>2 DEF NavTypeOK, AudioOK, BrowseOK, CursorOK, ScreenOK
    <2>7. CASE SwitchToBluetooth
      BY <1>1, <1>4, <1>5, <1>6, <1>7, <1>9, <2>7, AudioCalls DEF SwitchToBluetooth
    <2> QED BY <1>13, <2>3, <2>4, <2>5, <2>6, <2>7 DEF StationsKey
  <1>14. ASSUME NEW rows \in Rows(mode), ListKey(key, rows)
         PROVE  AudioOK' /\ BrowseOK' /\ CursorOK' /\ ScreenOK'
    <2>1. rows \in Nat BY RowsAreNumbers
    <2>2. CASE ListTurn(key, rows)
      <3>1. cursor' \in Nat BY <1>1, <2>1, <2>2, TurnedIsARow DEF ListTurn, CursorOK
      <3>2. CursorOK' BY <1>1, <2>2, <3>1 DEF ListTurn, CursorOK
      <3> QED BY <1>3, <1>4, <1>7, <1>8, <2>2, <3>2 DEF ListTurn
    <2>3. CASE PickLetter
      <3>1. filter' \in Seq(Nat)
        <4>1. filter \in Seq(Nat) BY <1>1 DEF BrowseOK
        <4>2. Len(countries) \in Nat BY <1>1, CountriesAreCounted
        <4> QED BY <2>3, <4>1, <4>2, MatchingIsInList DEF PickLetter
      <3>2. BrowseOK' BY <1>1, <2>3, <3>1 DEF PickLetter, BrowseOK
      <3>3. CursorOK' BY <1>1, <2>3 DEF PickLetter, CursorOK
      <3>4. ScreenOK'
        <4>1. UNCHANGED <<mode, panelVars, wait>> => ScreenOK' BY <1>1 DEF ScreenOK
        <4>2. Enter("stationLetter") \/ Enter("country") \/ UNCHANGED <<mode, panelVars, wait>>
          BY <2>3 DEF PickLetter
        <4> QED BY <1>6, <4>1, <4>2 DEF Modes, Lists, Browsing
      <3> QED BY <1>3, <2>3, <3>2, <3>3, <3>4 DEF PickLetter
    <2>4. CASE PickCountry
      <3>1. CursorOK' BY <1>1, <2>4 DEF PickCountry, CursorOK
      <3>2. "stationLetter" \in Modes BY DEF Modes, Lists, Browsing
      <3> QED BY <1>3, <1>4, <1>6, <2>4, <3>1, <3>2 DEF PickCountry
    <2>5. CASE Ask
      <3>1. ScreenOK' BY <1>1, <2>5 DEF Ask, ScreenOK
      <3> QED BY <1>3, <1>4, <1>5, <2>5, <3>1 DEF Ask
    <2>6. CASE PlayRow(key, rows)
      <3>1. ScreenOK' BY <1>1, <2>6 DEF PlayRow, PlayDiscovered, ScreenOK
      <3> QED BY <1>3, <1>4, <1>5, <2>6, <3>1 DEF PlayRow, PlayDiscovered
    <2>7. CASE RemoveFavorite(rows)
      <3>1. cursor' \in Nat BY <1>1, <2>1, <2>7 DEF RemoveFavorite, CursorOK
      <3>2. CursorOK' BY <1>1, <2>7, <3>1 DEF RemoveFavorite, CursorOK
      <3>3. Show("favorites") /\ UNCHANGED mode BY <2>7 DEF RemoveFavorite
      <3> QED BY <1>3, <1>4, <1>7, <1>9, <2>7, <3>2, <3>3 DEF RemoveFavorite
    <2>8. CASE Back
      <3>1. Parent \in Modes BY DEF Parent, Modes, Lists, Browsing
      <3>2. CursorOK' BY <1>1, <2>8 DEF Back, CursorOK
      <3>3. BrowseOK' BY <1>1, <2>8, EmptiedIsTyped DEF Back, BrowseOK
      <3> QED BY <1>3, <1>6, <2>8, <3>1, <3>2, <3>3 DEF Back
    <2> QED BY <1>14, <2>2, <2>3, <2>4, <2>5, <2>6, <2>7, <2>8 DEF ListKey
  <1> QED BY <1>10, <1>11, <1>12, <1>13, <1>14 DEF Key

LEMMA OthersKeepTypes ==
  ASSUME NavTypeOK, NavNext, ~\E key \in Keys : Key(key)
  PROVE  NavTypeOK'
  <1>1. AudioOK /\ BrowseOK /\ CursorOK /\ ScreenOK BY TypeIsItsParts
  <1>2. SUFFICES AudioOK' /\ BrowseOK' /\ CursorOK' /\ ScreenOK'
    BY DEF NavTypeOK, AudioOK, BrowseOK, CursorOK, ScreenOK
  <1>3. UNCHANGED audioVars => AudioOK' BY <1>1, AudioCalls
  <1>4. UNCHANGED browseVars => BrowseOK' BY <1>1 DEF BrowseOK
  <1>5. UNCHANGED cursorVars => CursorOK' BY <1>1 DEF CursorOK
  <1>6. UNCHANGED <<mode, panelVars, wait>> => ScreenOK' BY <1>1 DEF ScreenOK
  <1>7. {"letter", "tag", "results", "error", "idle", "playing", "bluetooth", "stations"}
          \subseteq Modes
    BY DEF Modes, Lists, Browsing
  <1>8. ASSUME NEW screen \in Modes, NEW some, Fetched(screen, some)
        PROVE  ScreenOK' /\ cursor' \in Nat
    <2>1. cursor \in Nat BY <1>1 DEF CursorOK
    <2>2. cursor' \in Nat BY <1>8, <2>1 DEF Fetched
    <2>3. Enter(screen) \/ Enter("error") BY <1>8 DEF Fetched
    <2>4. ScreenOK' BY <1>1, <1>7, <2>3 DEF Enter, Show, ScreenOK
    <2> QED BY <2>2, <2>4
  <1>9. ASSUME NEW tries, CountriesFetched(tries)
        PROVE  AudioOK' /\ BrowseOK' /\ CursorOK' /\ ScreenOK'
    <2>1. ScreenOK' /\ cursor' \in Nat BY <1>7, <1>8, <1>9 DEF CountriesFetched
    <2>2. BrowseOK' BY <1>1, <1>9 DEF CountriesFetched, BrowseOK
    <2>3. CursorOK' BY <1>1, <1>9, <2>1 DEF CountriesFetched, CursorOK
    <2> QED BY <1>3, <1>9, <2>1, <2>2, <2>3 DEF CountriesFetched
  <1>10. ASSUME NEW tries, TagsFetched(tries)
        PROVE  AudioOK' /\ BrowseOK' /\ CursorOK' /\ ScreenOK'
    <2>1. ScreenOK' /\ cursor' \in Nat BY <1>7, <1>8, <1>10 DEF TagsFetched
    <2>2. BrowseOK' BY <1>1, <1>10 DEF TagsFetched, BrowseOK
    <2>3. CursorOK' BY <1>1, <1>10, <2>1 DEF TagsFetched, CursorOK
    <2> QED BY <1>3, <1>10, <2>1, <2>2, <2>3 DEF TagsFetched
  <1>11. ASSUME NEW tries, ResultsFetched(tries)
        PROVE  AudioOK' /\ BrowseOK' /\ CursorOK' /\ ScreenOK'
    <2>1. ScreenOK' /\ cursor' \in Nat BY <1>7, <1>8, <1>11 DEF ResultsFetched
    <2>2. BrowseOK' BY <1>1, <1>11 DEF ResultsFetched, BrowseOK
    <2>3. CursorOK' BY <1>1, <1>11, <2>1 DEF ResultsFetched, CursorOK
    <2> QED BY <1>3, <1>11, <2>1, <2>2, <2>3 DEF ResultsFetched
  <1>12. CASE PlayedDiscovered
    <2>1. AudioOK' BY <1>1, <1>12, AudioCalls DEF PlayedDiscovered
    <2>2. BrowseOK' BY <1>1, <1>12, EmptiedIsTyped DEF PlayedDiscovered, BrowseOK
    <2>3. ScreenOK' BY <1>1, <1>7, <1>12 DEF PlayedDiscovered, ScreenOK
    <2> QED BY <1>5, <1>12, <2>1, <2>2, <2>3 DEF PlayedDiscovered
  <1>13. CASE TaskStarts
    <2>1. AudioOK' BY <1>1, <1>13 DEF TaskStarts, AudioOK
    <2> QED BY <1>4, <1>5, <1>6, <1>13, <2>1 DEF TaskStarts
  <1>14. CASE StreamMoves
    <2>1. AudioOK' BY <1>1, <1>14 DEF StreamMoves, AudioOK
    <2> QED BY <1>4, <1>5, <1>6, <1>14, <2>1 DEF StreamMoves
  <1>15. CASE ServeSuccess
    <2>1. CursorOK' BY <1>1, <1>15, BoundsAreNumbers DEF ServeSuccess, CursorOK
    <2>2. ScreenOK' BY <1>1, <1>7, <1>15 DEF ServeSuccess, ScreenOK
    <2> QED BY <1>3, <1>4, <1>15, <2>1, <2>2 DEF ServeSuccess
  <1>16. CASE ServeFailure
    <2>1. ScreenOK' BY <1>1, <1>7, <1>16 DEF ServeFailure, ScreenOK
    <2> QED BY <1>3, <1>4, <1>5, <1>16, <2>1 DEF ServeFailure
  <1>17. CASE Served
    <2>1. AudioOK' BY <1>1, <1>17 DEF Served, AudioOK
    <2>2. ScreenOK' BY <1>1, <1>17 DEF Served, ScreenOK
    <2> QED BY <1>4, <1>5, <1>17, <2>1, <2>2 DEF Served
  <1>18. CASE RemoteBluetooth
    <2>1. AudioOK' BY <1>1, <1>18, AudioCalls DEF RemoteBluetooth
    <2>2. ScreenOK' BY <1>1, <1>7, <1>18 DEF RemoteBluetooth, Redraw, ScreenOK
    <2> QED BY <1>4, <1>5, <1>18, <2>1, <2>2 DEF RemoteBluetooth
  <1>19. CASE RemoteRadio
    <2>1. AudioOK' BY <1>1, <1>3, <1>19, AudioCalls DEF RemoteRadio
    <2>2. Redraw("stations") \/ UNCHANGED <<mode, panel>> BY <1>19 DEF RemoteRadio
    <2>3. ScreenOK' BY <1>1, <1>7, <1>19, <2>2 DEF RemoteRadio, Redraw, ScreenOK
    <2> QED BY <1>4, <1>5, <1>19, <2>1, <2>3 DEF RemoteRadio
  <1>20. CASE RemoteSkip
    <2>1. PICK i \in 0..MaxSaved - 1 : PlayStation(i, FALSE) BY <1>20 DEF RemoteSkip
    <2>2. i \in Nat /\ i < MaxSaved BY <2>1, BoundsAreNumbers
    <2>3. NavTypeOK' BY <2>1, <2>2, PlayedStation
    <2> QED BY <2>3 DEF NavTypeOK, AudioOK, BrowseOK, CursorOK, ScreenOK
  <1>21. CASE RemotePause
    <2>1. AudioOK' BY <1>1, <1>21, AudioCalls DEF RemotePause
    <2> QED BY <1>4, <1>5, <1>6, <1>21, <2>1 DEF RemotePause
  <1>22. CASE RemoteStart \/ StartGivenUp
    <2>1. AudioOK' BY <1>1, <1>22 DEF RemoteStart, StartGivenUp, AudioOK
    <2> QED BY <1>4, <1>5, <1>6, <1>22, <2>1 DEF RemoteStart, StartGivenUp
  <1>23. CASE IdleClock
    <2>1. ScreenOK' BY <1>1, <1>7, <1>23 DEF IdleClock, Enter, Show, ScreenOK
    <2> QED BY <1>3, <1>4, <1>5, <1>23, <2>1 DEF IdleClock
  <1>24. CASE UpdateUI
    <2>1. ScreenOK' BY <1>1, <1>7, <1>24 DEF UpdateUI, ScreenOK, AudioOK
    <2> QED BY <1>3, <1>4, <1>5, <1>24, <2>1 DEF UpdateUI
  <1> QED BY <1>9, <1>10, <1>11, <1>12, <1>13, <1>14, <1>15, <1>16, <1>17, <1>18, <1>19,
             <1>20, <1>21, <1>22, <1>23, <1>24 DEF NavNext

LEMMA NavTypeInit ==
  ASSUME NavInit
  PROVE  NavTypeOK
  <1>1. <<>> \in Seq(Nat) BY EmptySeq
  <1>2. AudioOK BY DEF NavInit, AudioOK
  <1>3. 0 \in 0..MaxTags /\ 0 \in 0..MaxResults /\ 0 \in 0..MaxSaved + 2
    BY BoundsAreNumbers
  <1>4. BrowseOK BY <1>1, <1>3 DEF NavInit, BrowseOK
  <1>5. CursorOK BY <1>3 DEF NavInit, CursorOK
  <1>6. ScreenOK BY DEF NavInit, ScreenOK, Modes, Lists, Browsing
  <1> QED BY <1>2, <1>4, <1>5, <1>6, TypeIsItsParts

LEMMA NavTypeStep ==
  ASSUME NavTypeOK, [NavNext]_navVars
  PROVE  NavTypeOK'
  <1>1. CASE UNCHANGED navVars BY <1>1 DEF NavTypeOK
  <1>2. CASE NavNext BY <1>2, KeysKeepTypes, OthersKeepTypes
  <1> QED BY <1>1, <1>2

(* Whatever keys, answers of the network, playback and REMOTE do, the      *)
(* screen is one of the application's, the selection is a row that some    *)
(* list of at most MAX_STATIONS has, and the cursor never falls below the  *)
(* first row, where an unsigned index would wrap.                          *)
THEOREM ScreensAreTyped == NavSpec => []NavTypeOK
  BY NavTypeInit, NavTypeStep, PTL DEF NavSpec

-----------------------------------------------------------------------------
(* The panel.  PanelAgrees is not inductive as it stands: a handler that   *)
(* waits for the flash leaves panel and screen apart until its last step,  *)
(* and a redraw that is due because lastKnown differs from the state would *)
(* no longer be due if the state came back to it.  It never does: a screen *)
(* entered undrawn is marked by "buffering", which is no state of the      *)
(* player, or by settling.                                                 *)
Marked == mode = "playing" /\ (settling \/ lastKnown = "buffering")

PanelInv ==
  wait \in {"no", "settle"} /\ mode # "error" /\ panel \notin {"error", "portal"} =>
    panel = mode \/ Marked

LEMMA ShownAgrees ==
  ASSUME NEW screen, Enter(screen) \/ (Show(screen) /\ mode' = screen) \/ Redraw(screen)
  PROVE  PanelInv'
  BY DEF Enter, Show, Redraw, PanelInv

LEMMA ErrorAgrees ==
  ASSUME panel' = "error" \/ mode' = "error" \/ wait' \notin {"no", "settle"}
  PROVE  PanelInv'
  BY DEF PanelInv

LEMMA UntouchedAgrees ==
  ASSUME PanelInv, UNCHANGED <<mode, panelVars, wait>>
  PROVE  PanelInv'
  BY DEF PanelInv, Marked

LEMMA PlayedAgrees ==
  ASSUME NEW station, NEW drawn, PlayStation(station, drawn)
  PROVE  PanelInv'
  BY DEF PlayStation, PanelInv, Marked

LEMMA KeysAgree ==
  ASSUME PanelInv, NEW key, Key(key)
  PROVE  PanelInv'
  <1>1. CASE Dismiss BY <1>1, ShownAgrees DEF Dismiss
  <1>2. CASE SwitchToRadio
    BY <1>2, ShownAgrees, ErrorAgrees DEF SwitchToRadio, Show
  <1>3. CASE PlayingKey(key)
    BY <1>3, ShownAgrees, PlayedAgrees DEF PlayingKey, PanelInv
  <1>4. ASSUME NEW rows, StationsKey(key, rows) PROVE PanelInv'
    <2>1. Browse => PanelInv' BY ErrorAgrees DEF Browse
    <2>2. SwitchToBluetooth => PanelInv' BY ShownAgrees, ErrorAgrees DEF SwitchToBluetooth, Show
    <2> QED BY <1>4, <2>1, <2>2, ShownAgrees, PlayedAgrees DEF StationsKey
  <1>5. ASSUME NEW rows, ListKey(key, rows) PROVE PanelInv'
    <2>1. ListTurn(key, rows) => PanelInv' BY ShownAgrees DEF ListTurn
    <2>2. PickLetter => PanelInv' BY ShownAgrees, UntouchedAgrees DEF PickLetter
    <2>3. PickCountry => PanelInv' BY ShownAgrees DEF PickCountry
    <2>4. Ask => PanelInv' BY ErrorAgrees DEF Ask
    <2>5. PlayRow(key, rows) => PanelInv' BY ErrorAgrees DEF PlayRow, PlayDiscovered
    <2>6. RemoveFavorite(rows) => PanelInv' BY ShownAgrees DEF RemoveFavorite
    <2>7. Back => PanelInv' BY ShownAgrees DEF Back
    <2> QED BY <1>5, <2>1, <2>2, <2>3, <2>4, <2>5, <2>6, <2>7 DEF ListKey
  <1> QED BY <1>1, <1>2, <1>3, <1>4, <1>5 DEF Key

LEMMA PanelStep ==
  ASSUME PanelInv, [NavNext]_navVars
  PROVE  PanelInv'
  <1>1. CASE UNCHANGED navVars BY <1>1, UntouchedAgrees
  <1>2. ASSUME NEW key \in Keys, Key(key) PROVE PanelInv' BY <1>2, KeysAgree
  <1>3. ASSUME NEW screen, NEW some, Fetched(screen, some) PROVE PanelInv'
    BY <1>3, ShownAgrees DEF Fetched
  <1>4. ASSUME NEW tries,
               CountriesFetched(tries) \/ TagsFetched(tries) \/ ResultsFetched(tries)
        PROVE  PanelInv'
    BY <1>3, <1>4 DEF CountriesFetched, TagsFetched, ResultsFetched
  <1>5. CASE PlayedDiscovered BY <1>5, ErrorAgrees DEF PlayedDiscovered, PanelInv
  <1>6. CASE TaskStarts \/ StreamMoves \/ RemotePause \/ RemoteStart \/ StartGivenUp
    BY <1>6, UntouchedAgrees
    DEF TaskStarts, StreamMoves, RemotePause, RemoteStart, StartGivenUp
  <1>7. CASE ServeSuccess BY <1>7 DEF ServeSuccess, PanelInv, Marked
  <1>8. CASE ServeFailure BY <1>8, ErrorAgrees DEF ServeFailure
  <1>9. CASE Served BY <1>9 DEF Served, PanelInv, Marked
  <1>10. CASE RemoteBluetooth
    BY <1>10, ShownAgrees, UntouchedAgrees DEF RemoteBluetooth
  <1>11. CASE RemoteRadio
    <2>1. Redraw("stations") \/ UNCHANGED <<mode, panelVars, wait>> BY <1>11 DEF RemoteRadio
    <2> QED BY <2>1, ShownAgrees, UntouchedAgrees
  <1>12. CASE RemoteSkip BY <1>12, PlayedAgrees DEF RemoteSkip
  <1>13. CASE IdleClock BY <1>13, ShownAgrees DEF IdleClock
  <1>14. CASE UpdateUI
    <2>1. CASE mode = "playing" /\ panel' = "playing" /\ UNCHANGED mode
      BY <2>1 DEF PanelInv
    <2>2. CASE mode # "playing" /\ UNCHANGED <<mode, panel, wait>>
      BY <2>2 DEF PanelInv, Marked
    <2> QED BY <1>14, <2>1, <2>2 DEF UpdateUI, RedrawIsDue
  <1> QED BY <1>1, <1>2, <1>4, <1>5, <1>6, <1>7, <1>8, <1>9, <1>10, <1>11, <1>12, <1>13,
             <1>14 DEF NavNext

(* Between the handlers the panel shows the screen whose keys are active,  *)
(* or updateUI is about to draw it, whatever REMOTE did while a handler    *)
(* waited for the panel or the flash.                                      *)
THEOREM PanelShowsTheScreen == NavSpec => []PanelAgrees
  <1>1. NavInit => PanelInv BY DEF NavInit, PanelInv
  <1>2. NavTypeOK /\ PanelInv => PanelAgrees
    BY DEF NavTypeOK, PanelInv, Marked, PanelAgrees, RedrawIsDue
  <1> QED BY <1>1, <1>2, PanelStep, NavTypeInit, NavTypeStep, PTL DEF NavSpec

-----------------------------------------------------------------------------
(* The menu.  The countries are freed when a station plays or the browser  *)
(* is left, and the indices into them stay: what has to be known is from   *)
(* which screens, and from which waits, the list of countries can still be *)
(* reached, and that from those nothing has freed them.                    *)
CountryAhead ==
  \/ mode = "country"
  \/ ~skipped /\ (mode \in {"stationLetter", "tag", "results"} \/ wait \in {"tags", "results"})

FilterInv ==
  CountryAhead => \A i \in 1..Len(filter) : filter[i] <= Len(countries)

LEMMA NotAhead ==
  ASSUME mode' \notin {"country", "stationLetter", "tag", "results"},
         wait' \notin {"tags", "results"}
  PROVE  FilterInv'
  BY DEF FilterInv, CountryAhead

LEMMA StillAhead ==
  ASSUME FilterInv, UNCHANGED <<countries, filter>>, CountryAhead' => CountryAhead
  PROVE  FilterInv'
  BY DEF FilterInv

(* A step that leaves the lists alone and goes to a screen from which no   *)
(* country can be reached.                                                 *)
LEMMA LeavesLists ==
  ASSUME FilterInv, UNCHANGED <<countries, filter, skipped, wait>>,
         mode' = mode \/ mode' \notin {"country", "stationLetter", "tag", "results"}
  PROVE  FilterInv'
  BY StillAhead DEF CountryAhead

LEMMA KeysKeepFilter ==
  ASSUME NavTypeOK, FilterInv, NEW key, Key(key)
  PROVE  FilterInv'
  <1> USE DEF Enter, Show
  <1>1. CASE Dismiss BY <1>1, NotAhead DEF Dismiss
  <1>2. CASE SwitchToRadio BY <1>2, NotAhead DEF SwitchToRadio
  <1>3. CASE PlayingKey(key)
    BY <1>3, LeavesLists, NotAhead DEF PlayingKey, PlayStation
  <1>4. ASSUME NEW rows, StationsKey(key, rows) PROVE FilterInv'
    <2>1. Browse => FilterInv' BY NotAhead DEF Browse
    <2>2. SwitchToBluetooth => FilterInv' BY NotAhead DEF SwitchToBluetooth
    <2>3. ASSUME mode = "stations", selected > 2, PlayStation(selected - 3, TRUE)
          PROVE  FilterInv'
      BY <2>3, LeavesLists DEF PlayStation
    <2> QED BY <1>4, <2>1, <2>2, <2>3, NotAhead DEF StationsKey
  <1>5. ASSUME NEW rows, ListKey(key, rows) PROVE FilterInv'
    <2>1. CASE ListTurn(key, rows) BY <2>1, StillAhead DEF ListTurn, CountryAhead
    <2>2. CASE PickLetter
      <3>1. CASE cursor = 0 /\ skipped' = TRUE /\ Enter("stationLetter")
        BY <3>1 DEF FilterInv, CountryAhead
      <3>2. CASE filter' = Matching(cursor) /\ UNCHANGED countries
        <4>1. Len(countries) \in Nat BY TypeIsItsParts, CountriesAreCounted
        <4> QED BY <3>2, <4>1, MatchingIsInList DEF FilterInv
      <3> QED BY <2>2, <3>1, <3>2 DEF PickLetter
    <2>3. CASE PickCountry BY <2>3, StillAhead DEF PickCountry, CountryAhead
    <2>4. CASE Ask BY <2>4, StillAhead DEF Ask, CountryAhead
    <2>5. CASE PlayRow(key, rows)
      BY <2>5, StillAhead DEF PlayRow, PlayDiscovered, CountryAhead
    <2>6. CASE RemoveFavorite(rows) BY <2>6, NotAhead DEF RemoveFavorite
    <2>7. CASE Back
      <3>1. CASE mode = "letter" BY <2>7, <3>1, NotAhead DEF Back, Parent
      <3>2. CASE mode # "letter"
        <4>1. UNCHANGED <<countries, filter, skipped>> /\ mode' = Parent /\ wait' = "no"
          BY <2>7, <3>2 DEF Back
        <4> QED BY <3>2, <4>1, StillAhead DEF Parent, CountryAhead
      <3> QED BY <3>1, <3>2
    <2> QED BY <1>5, <2>1, <2>2, <2>3, <2>4, <2>5, <2>6, <2>7 DEF ListKey
  <1> QED BY <1>1, <1>2, <1>3, <1>4, <1>5 DEF Key

LEMMA FilterStep ==
  ASSUME NavTypeOK, FilterInv, [NavNext]_navVars
  PROVE  FilterInv'
  <1> USE DEF Enter, Show
  <1>1. CASE UNCHANGED navVars BY <1>1, LeavesLists
  <1>2. ASSUME NEW key \in Keys, Key(key) PROVE FilterInv' BY <1>2, KeysKeepFilter
  <1>3. ASSUME NEW tries, CountriesFetched(tries) PROVE FilterInv'
    BY <1>3, NotAhead DEF CountriesFetched, Fetched
  <1>4. ASSUME NEW tries, TagsFetched(tries) PROVE FilterInv'
    BY <1>4, StillAhead DEF TagsFetched, Fetched, CountryAhead
  <1>5. ASSUME NEW tries, ResultsFetched(tries) PROVE FilterInv'
    BY <1>5, StillAhead DEF ResultsFetched, Fetched, CountryAhead
  <1>6. CASE PlayedDiscovered BY <1>6, NotAhead DEF PlayedDiscovered
  <1>7. CASE TaskStarts \/ StreamMoves \/ RemotePause \/ RemoteStart \/ StartGivenUp
    BY <1>7, LeavesLists
    DEF TaskStarts, StreamMoves, RemotePause, RemoteStart, StartGivenUp
  <1>8. CASE ServeSuccess \/ ServeFailure BY <1>8, NotAhead DEF ServeSuccess, ServeFailure
  <1>9. CASE Served BY <1>9, StillAhead DEF Served, CountryAhead
  <1>10. CASE RemoteBluetooth \/ RemoteRadio
    BY <1>10, LeavesLists DEF RemoteBluetooth, RemoteRadio, Redraw
  <1>11. CASE RemoteSkip BY <1>11, LeavesLists DEF RemoteSkip, PlayStation
  <1>12. CASE IdleClock BY <1>12, NotAhead DEF IdleClock
  <1>13. CASE UpdateUI BY <1>13, LeavesLists DEF UpdateUI
  <1> QED BY <1>1, <1>2, <1>3, <1>4, <1>5, <1>6, <1>7, <1>8, <1>9, <1>10, <1>11, <1>12,
             <1>13 DEF NavNext

(* The window around the cursor lies within the list and shows the cursor. *)
LEMMA HalfIsLess ==
  ASSUME NEW w \in Nat, w > 0
  PROVE  w \div 2 \in Nat /\ w \div 2 < w
  OBVIOUS

LEMMA WindowFits ==
  ASSUME NEW count \in Nat, NEW at \in Nat, at < count
  PROVE  LET first == WindowStart(at, count)
             size  == IF count - first < WindowItems THEN count - first ELSE WindowItems
         IN  /\ first \in Nat /\ size \in Nat /\ size <= WindowItems
             /\ first <= at /\ at <= first + size - 1 /\ first + size <= count
  <1>1. PICK w \in Nat : w = WindowItems /\ w > 0 BY BoundsAreNumbers
  <1>2. PICK h \in Nat : h = w \div 2 /\ h < w BY <1>1, HalfIsLess
  <1>3. WindowStart(at, count) =
          IF (IF at > h THEN at - h ELSE 0) + w <= count THEN (IF at > h THEN at - h ELSE 0)
          ELSE IF count > w THEN count - w ELSE 0
    BY <1>1, <1>2 DEF WindowStart
  <1> QED BY <1>1, <1>2, <1>3

(* REMOTE may ask for the menu at any turn and in any wait of a handler:   *)
(* it always encodes, names no country that was freed or replaced, and     *)
(* shows the selected row, however the lists were edited under the cursor. *)
THEOREM MenuAlwaysEncodes == NavSpec => []MenuIsValid
  <1>1. NavInit => FilterInv BY DEF NavInit, FilterInv, CountryAhead
  <1>2. ASSUME NavTypeOK, FilterInv PROVE MenuIsValid
    <2> SUFFICES ASSUME NEW rows \in Rows(mode)
                 PROVE  /\ Encodes(MenuView(rows))
                        /\ MenuView(rows).count > 0 =>
                             MenuView(rows).selected \in
                               MenuView(rows).first..
                                 MenuView(rows).first + MenuView(rows).size - 1
      BY DEF MenuIsValid
    <2>1. rows \in Nat BY <1>2, RowsAreNumbers
    <2>2. CASE rows = 0 BY <2>2, BoundsAreNumbers DEF MenuView, Encodes
    <2>3. CASE rows > 0
      <3> DEFINE at == IF mode = "stations" THEN selected ELSE cursor
                 row == Clamped(at, rows)
                 first == WindowStart(row, rows)
                 size == IF rows - first < WindowItems THEN rows - first ELSE WindowItems
      <3>1. at \in Nat BY <1>2, BoundsAreNumbers DEF NavTypeOK
      <3>2. row \in Nat /\ row < rows BY <2>1, <2>3, <3>1 DEF Clamped
      <3>3. /\ first \in Nat /\ size \in Nat /\ size <= WindowItems
            /\ first <= row /\ row <= first + size - 1 /\ first + size <= rows
        <4> HIDE DEF row
        <4> QED BY <2>1, <3>2, WindowFits
      <3>4. ASSUME NEW r \in first..first + size - 1 PROVE Named(r)
        <4>1. r \in Nat /\ r < rows
          <5> HIDE DEF first, size
          <5> QED BY <2>1, <3>3
        <4>2. CASE mode = "country"
          <5>1. rows = Len(filter) BY <4>2 DEF Rows
          <5>2. r + 1 \in 1..Len(filter) BY <4>1, <5>1, <2>1
          <5> QED BY <1>2, <4>2, <5>2 DEF Named, FilterInv, CountryAhead
        <4> QED BY <4>2 DEF Named
      <3>5. MenuView(rows) = [count |-> rows, selected |-> row, first |-> first, size |-> size,
                              named |-> \A r \in first..first + size - 1 : Named(r)]
        BY <2>3 DEF MenuView
      <3> HIDE DEF row, first, size
      <3>6. /\ MenuView(rows).count = rows /\ MenuView(rows).selected = row
            /\ MenuView(rows).first = first /\ MenuView(rows).size = size
            /\ MenuView(rows).named
        BY <3>4, <3>5
      <3>7. Encodes(MenuView(rows)) BY <2>1, <2>3, <3>2, <3>3, <3>6 DEF Encodes
      <3>8. row \in first..first + size - 1 BY <3>2, <3>3
      <3> QED BY <3>6, <3>7, <3>8
    <2> QED BY <2>1, <2>2, <2>3
  <1> QED BY <1>1, <1>2, FilterStep, NavTypeInit, NavTypeStep, PTL DEF NavSpec
=============================================================================
