-------------------------- MODULE StationStoreProofs --------------------------
(***************************************************************************)
(* Theorems of StationStore, for every set of stations, every capacity of  *)
(* the lists and every number of changes, plays and restarts.              *)
(***************************************************************************)
EXTENDS StationStore, Integers, SequenceTheorems, FiniteSetTheorems, TLAPS

USE DEF sessionVars, storeVars
USE StoreAssumption

-----------------------------------------------------------------------------
(* The operators on lists.                                                 *)

LEMMA RemoveIndexFacts ==
  ASSUME NEW S, NEW list \in Seq(S), NEW i \in 1..Len(list)
  PROVE  /\ RemoveIndex(list, i) \in Seq(S)
         /\ Len(RemoveIndex(list, i)) = Len(list) - 1
         /\ \A j \in 1..(Len(list) - 1) :
              RemoveIndex(list, i)[j] = IF j < i THEN list[j] ELSE list[j + 1]
  <1> DEFINE a == SubSeq(list, 1, i - 1)
             b == SubSeq(list, i + 1, Len(list))
  <1>1. /\ a \in Seq(S) /\ Len(a) = i - 1
        /\ \A j \in 1..(i - 1) : a[j] = list[j]
    <2>1. \A j \in 1..(i - 1) : list[j] \in S BY ElementOfSeq
    <2> QED BY <2>1, SubSeqProperties
  <1>2. /\ b \in Seq(S) /\ Len(b) = Len(list) - i
        /\ \A j \in 1..(Len(list) - i) : b[j] = list[i + j]
    <2>1. \A j \in (i + 1)..Len(list) : list[j] \in S BY ElementOfSeq
    <2> QED BY <2>1, SubSeqProperties
  <1> HIDE DEF a, b
  <1>3. /\ a \o b \in Seq(S) /\ Len(a \o b) = Len(a) + Len(b)
        /\ \A j \in 1..(Len(a) + Len(b)) :
             (a \o b)[j] = IF j <= Len(a) THEN a[j] ELSE b[j - Len(a)]
    <2>1. a \in Seq(S) /\ b \in Seq(S) BY <1>1, <1>2
    <2> QED BY <2>1, ConcatProperties
  <1>4. Len(list) \in Nat /\ Len(a) + Len(b) = Len(list) - 1 BY <1>1, <1>2
  <1>5. ASSUME NEW j \in 1..(Len(list) - 1)
        PROVE  (a \o b)[j] = IF j < i THEN list[j] ELSE list[j + 1]
    <2>1. CASE j < i BY <1>1, <1>3, <1>4, <2>1
    <2>2. CASE ~(j < i)
      <3>1. (a \o b)[j] = b[j - (i - 1)] BY <1>1, <1>3, <1>4, <2>2
      <3>2. j - (i - 1) \in 1..(Len(list) - i) /\ i + (j - (i - 1)) = j + 1
        BY <1>4, <2>2
      <3> QED BY <1>2, <2>2, <3>1, <3>2
    <2> QED BY <2>1, <2>2
  <1> QED BY <1>3, <1>4, <1>5 DEF RemoveIndex, a, b

LEMMA FirstFacts ==
  ASSUME NEW S, NEW list \in Seq(S), NEW n \in Nat
  PROVE  /\ First(list, n) \in Seq(S)
         /\ Len(First(list, n)) = IF Len(list) < n THEN Len(list) ELSE n
         /\ \A j \in 1..Len(First(list, n)) : First(list, n)[j] = list[j]
  <1> DEFINE m == IF Len(list) < n THEN Len(list) ELSE n
  <1>1. m \in Nat /\ m <= Len(list) /\ Len(list) \in Nat OBVIOUS
  <1>2. First(list, n) = SubSeq(list, 1, m) BY DEF First
  <1>3. \A j \in 1..m : list[j] \in S BY <1>1, ElementOfSeq
  <1> HIDE DEF m
  <1>4. /\ SubSeq(list, 1, m) \in Seq(S) /\ Len(SubSeq(list, 1, m)) = m
        /\ \A j \in 1..m : SubSeq(list, 1, m)[j] = list[j]
    BY <1>1, <1>3, SubSeqProperties
  <1> QED BY <1>2, <1>4 DEF m

(* The place WithoutUrl takes a record out of.                             *)
FirstWith(list, url) ==
  CHOOSE i \in 1..Len(list) :
    list[i].url = url /\ \A j \in 1..(i - 1) : list[j].url # url

LEMMA LeastIndex ==
  ASSUME NEW n \in Nat, NEW P \in SUBSET (1..n), P # {}
  PROVE  \E i \in P : \A j \in P : i <= j
  <1> DEFINE Less == {ss \in Nat \X Nat : ss[1] < ss[2]}
  <1>1. IsWellFoundedOn(Less, Nat) BY NatLessThanWellFounded DEF OpToRel
  <1>2. P \subseteq Nat OBVIOUS
  <1>3. \A i, j \in Nat : j < i => <<j, i>> \in Less OBVIOUS
  <1> HIDE DEF Less
  <1>4. PICK i \in P : \A j \in P : ~ (<<j, i>> \in Less) BY <1>1, <1>2, WFMin
  <1>5. \A j \in P : i \in Nat /\ j \in Nat /\ ~ (j < i) BY <1>2, <1>3, <1>4
  <1>6. \A j \in P : i <= j BY <1>5
  <1> QED BY <1>6

LEMMA FirstWithFacts ==
  ASSUME NEW list \in Seq(Records), NEW url, url \in Urls(list)
  PROVE  /\ FirstWith(list, url) \in 1..Len(list)
         /\ list[FirstWith(list, url)].url = url
         /\ \A j \in 1..(FirstWith(list, url) - 1) : list[j].url # url
  <1> DEFINE P == {i \in 1..Len(list) : list[i].url = url}
  <1>1. P \in SUBSET (1..Len(list)) /\ P # {} /\ Len(list) \in Nat BY DEF Urls
  <1>2. PICK i \in P : \A j \in P : i <= j BY <1>1, LeastIndex
  <1>3. \A j \in 1..(i - 1) : list[j].url # url
    <2> SUFFICES ASSUME NEW j \in 1..(i - 1), list[j].url = url PROVE FALSE
      OBVIOUS
    <2>1. j \in P BY <1>1, <1>2
    <2> QED BY <1>1, <1>2, <2>1
  <1> QED BY <1>1, <1>2, <1>3 DEF FirstWith

LEMMA WithoutUrlFacts ==
  ASSUME NEW list \in Seq(Records), NEW url
  PROVE  /\ WithoutUrl(list, url) \in Seq(Records)
         /\ url \notin Urls(list) => WithoutUrl(list, url) = list
         /\ url \in Urls(list) =>
              WithoutUrl(list, url) = RemoveIndex(list, FirstWith(list, url))
  <1>1. CASE url \notin Urls(list) BY <1>1 DEF WithoutUrl
  <1>2. CASE url \in Urls(list)
    <2>1. WithoutUrl(list, url) = RemoveIndex(list, FirstWith(list, url))
      BY <1>2 DEF WithoutUrl, FirstWith
    <2>2. FirstWith(list, url) \in 1..Len(list) BY <1>2, FirstWithFacts
    <2>3. RemoveIndex(list, FirstWith(list, url)) \in Seq(Records)
      BY <2>2, RemoveIndexFacts
    <2> QED BY <1>2, <2>1, <2>3
  <1> QED BY <1>1, <1>2
-----------------------------------------------------------------------------
(* The lists, the screens and what a step does to them.                    *)
ListsOK ==
  /\ ram \in [Kinds -> Seq(Records)]
  /\ \A k \in Kinds : Len(ram[k]) <= Capacity[k]

SessionOK ==
  /\ page = NoPage \/ page.collection \in Kinds
  /\ \/ screen = NoScreen
     \/ screen.kind \in {"favorites", "recent"} /\ screen.cursor \in Nat \ {0}
  /\ favorite = <<>> \/ \E r \in Records : favorite = <<r>>

(* No save is in progress, or the one of Recent in which REMOTE is served. *)
Free == saves = <<>> \/ (Len(saves) = 1 /\ saves[1].kind = "recent")

Edited == {"saved", "favorites"}

Plays(record) ==
  /\ saves = <<>>
  /\ Change("recent", AddedToRecent(ram["recent"], record))
  /\ plays' = Append(plays, record.url)

Adds(kind, record) ==
  /\ Free /\ HasRoom(kind) /\ (kind = "favorites" => ~IsFavorite(record))
  /\ Change(kind, Append(ram[kind], record)) /\ plays' = plays

Removes(kind, i) ==
  /\ Free /\ Change(kind, RemoveIndex(ram[kind], i)) /\ plays' = plays

Moves ==
  \/ \E record \in Records : Plays(record)
  \/ \E kind \in Edited, record \in Records : Adds(kind, record)
  \/ \E kind \in Edited : \E i \in 1..Len(ram[kind]) : Removes(kind, i)
  \/ UNCHANGED <<ram, flash, saves, revision, plays>>

LEMMA EntryIsRecord ==
  ASSUME ListsOK, NEW kind \in Kinds, NEW i \in 1..Len(ram[kind])
  PROVE  ram[kind][i] \in Records
  <1>1. ram[kind] \in Seq(Records) BY DEF ListsOK
  <1> QED BY <1>1, ElementOfSeq

LEMMA FavoriteAdds ==
  ASSUME NEW record \in Records, Free, AddToFavorites(record), plays' = plays
  PROVE  Moves
  BY DEF AddToFavorites, Moves, Adds, Edited

LEMMA PlayedMoves ==
  ASSUME NEW record \in Records, NEW f, PlayDiscovered(record, f)
  PROVE  Moves
  BY DEF PlayDiscovered, Idle, Moves, Plays

LEMMA RecordIsRecord == \A s \in Stations : Record(s) \in Records
  BY DEF Record, Records

LEMMA StoreMoves ==
  ASSUME ListsOK, SessionOK, Physical \/ Web \/ Remote \/ UNCHANGED storeVars
  PROVE  Moves /\ crashes' = crashes
  <1>1. ASSUME NEW s \in Stations, NEW f \in BOOLEAN, PlayDiscovered(Record(s), f)
        PROVE  Moves /\ crashes' = crashes
    BY <1>1, RecordIsRecord, PlayedMoves DEF PlayDiscovered
  <1>2. CASE FavoritePlayed
    <2>1. favorite[1] \in Records /\ Free
      BY <1>2 DEF FavoritePlayed, SessionOK, Free
    <2> QED BY <1>2, <2>1, FavoriteAdds DEF FavoritePlayed
  <1>3. ASSUME NEW s \in Stations, FavoriteNowPlaying(s) PROVE Moves /\ crashes' = crashes
    BY <1>3, RecordIsRecord, FavoriteAdds DEF FavoriteNowPlaying, Idle, Free
  <1>4. CASE (\E k \in {"favorites", "recent"} : EnterScreen(k)) \/ Encoder \/ LeaveScreen
    BY <1>4 DEF EnterScreen, Encoder, LeaveScreen, Moves
  <1>5. ASSUME OnScreen PROVE screen.kind \in {"favorites", "recent"} /\ screen.cursor \in Nat \ {0}
    BY <1>5 DEF OnScreen, SessionOK
  <1>6. ASSUME NEW f \in BOOLEAN, ScreenPlay(f) PROVE Moves /\ crashes' = crashes
    <2>1. /\ OnScreen /\ screen.cursor <= Len(ram[screen.kind])
          /\ PlayDiscovered(ram[screen.kind][screen.cursor], f)
      BY <1>6 DEF ScreenPlay, Screen
    <2>2. screen.kind \in Kinds /\ screen.cursor \in 1..Len(ram[screen.kind])
      BY <1>5, <2>1 DEF Kinds, ListsOK
    <2>3. ram[screen.kind][screen.cursor] \in Records BY <2>2, EntryIsRecord
    <2> QED BY <2>1, <2>3, PlayedMoves DEF PlayDiscovered
  <1>7. CASE ScreenRemove
    <2>1. /\ OnScreen /\ screen.kind = "favorites"
          /\ screen.cursor <= Len(ram["favorites"])
          /\ Change("favorites", RemoveIndex(ram["favorites"], screen.cursor))
          /\ Free /\ UNCHANGED <<plays, crashes>>
      BY <1>7 DEF ScreenRemove, Screen, OnScreen, Idle, Free
    <2>2. screen.cursor \in 1..Len(ram["favorites"]) BY <1>5, <2>1 DEF Kinds, ListsOK
    <2> QED BY <2>1, <2>2 DEF Moves, Removes, Edited
  <1>8. ASSUME NEW s \in Stations, WebAdd(s) PROVE Moves /\ crashes' = crashes
    <2>1. Record(s) \in Records BY RecordIsRecord
    <2>2. Adds("saved", Record(s)) /\ crashes' = crashes BY <1>8 DEF WebAdd, Adds, Idle, Free
    <2> QED BY <2>1, <2>2 DEF Moves, Edited
  <1>9. ASSUME NEW k \in {"saved", "favorites"}, NEW i \in 1..Capacity[k], WebRemove(k, i)
        PROVE  Moves /\ crashes' = crashes
    BY <1>9 DEF WebRemove, Idle, Free, Moves, Removes, Edited
  <1>10. ASSUME NEW k \in Kinds, RemoteQuery(k) PROVE Moves /\ crashes' = crashes
    BY <1>10 DEF RemoteQuery, Moves
  <1>11. ASSUME Served PROVE Free BY <1>11 DEF Served, Free, Idle, Last
  <1>12. ASSUME NEW t, RemoteRemove(t) PROVE Moves /\ crashes' = crashes
    <2>1. /\ page.collection \in Kinds /\ page.collection # "recent" /\ Free
          /\ t \in 1..Len(ram[page.collection])
          /\ Change(page.collection, RemoveIndex(ram[page.collection], t))
          /\ UNCHANGED <<plays, crashes>>
      BY <1>11, <1>12 DEF RemoteRemove, SessionOK, Admit
    <2>2. page.collection \in Edited BY <2>1 DEF Kinds, Edited
    <2> QED BY <2>1, <2>2 DEF Moves, Removes
  <1>13. ASSUME NEW t, RemoteFavorite(t) PROVE Moves /\ crashes' = crashes
    <2>1. /\ Free /\ t \in 1..Len(ram["recent"]) /\ AddToFavorites(ram["recent"][t])
          /\ UNCHANGED <<plays, crashes>>
      BY <1>11, <1>13 DEF RemoteFavorite, Admit
    <2>2. ram["recent"][t] \in Records BY <2>1, EntryIsRecord DEF Kinds
    <2> QED BY <2>1, <2>2, FavoriteAdds
  <1>14. ASSUME NEW s \in Stations, RemoteBrowserFavorite(s)
         PROVE  Moves /\ crashes' = crashes
    BY <1>11, <1>14, RecordIsRecord, FavoriteAdds DEF RemoteBrowserFavorite
  <1>15. CASE UNCHANGED storeVars BY <1>15 DEF Moves
  <1> QED
    BY <1>1, <1>2, <1>3, <1>4, <1>6, <1>7, <1>8, <1>9, <1>10, <1>12, <1>13, <1>14,
       <1>15
    DEF Physical, Web, Remote
-----------------------------------------------------------------------------
(* Session state, and the lengths of the lists.                            *)
LEMMA AddedToRecentFacts ==
  ASSUME NEW list \in Seq(Records), NEW record \in Records
  PROVE  /\ AddedToRecent(list, record) \in Seq(Records)
         /\ Len(AddedToRecent(list, record)) <= Capacity["recent"]
  <1>1. Capacity["recent"] \in Nat BY DEF Kinds
  <1>2. <<record>> \in Seq(Records) OBVIOUS
  <1>3. WithoutUrl(list, record.url) \in Seq(Records) BY WithoutUrlFacts
  <1>4. <<record>> \o WithoutUrl(list, record.url) \in Seq(Records)
    BY <1>2, <1>3, ConcatProperties
  <1>5. PICK whole \in Seq(Records) : whole = <<record>> \o WithoutUrl(list, record.url)
    BY <1>4
  <1>6. AddedToRecent(list, record) = First(whole, Capacity["recent"])
    BY <1>5 DEF AddedToRecent
  <1>7. Len(whole) \in Nat OBVIOUS
  <1> QED BY <1>1, <1>6, <1>7, FirstFacts

(* What one change makes of a list.                                        *)
Appended(old, new) ==
  Len(new) = Len(old) + 1 /\ \A j \in 1..Len(old) : new[j] = old[j]

TakenOut(old, new) ==
  /\ Len(new) = Len(old) - 1
  /\ \E i \in 1..Len(old) :
       \A j \in 1..Len(new) : new[j] = IF j < i THEN old[j] ELSE old[j + 1]

MovedUp(old, new) ==
  /\ Len(new) = Len(old) \/ Len(new) = Len(old) + 1
  /\ \E m \in Nat : \A j \in 2..Len(new) :
       \/ j <= m /\ new[j] = old[j - 1]
       \/ j > m /\ j <= Len(old) /\ new[j] = old[j]

OneChange(old, new) == Appended(old, new) \/ TakenOut(old, new) \/ MovedUp(old, new)

LEMMA AddedToRecentMovesUp ==
  ASSUME NEW list \in Seq(Records), NEW record \in Records,
         Len(list) <= Capacity["recent"]
  PROVE  MovedUp(list, AddedToRecent(list, record))
  <1>1. PICK n \in Nat : n = Capacity["recent"] /\ n > 0 BY DEF Kinds
  <1>2. PICK rest \in Seq(Records) : rest = WithoutUrl(list, record.url)
    BY WithoutUrlFacts
  <1>3. PICK len \in Nat : len = Len(list) /\ len <= n BY <1>1
  <1>4. <<record>> \in Seq(Records) /\ Len(<<record>>) = 1 OBVIOUS
  <1>5. PICK whole \in Seq(Records) :
          /\ whole = <<record>> \o rest /\ Len(whole) = 1 + Len(rest)
          /\ \A j \in 2..(1 + Len(rest)) : whole[j] = rest[j - 1]
    <2>1. /\ <<record>> \o rest \in Seq(Records)
          /\ Len(<<record>> \o rest) = 1 + Len(rest)
          /\ \A j \in 1..(1 + Len(rest)) :
               (<<record>> \o rest)[j] = IF j <= 1 THEN <<record>>[j] ELSE rest[j - 1]
      BY <1>4, ConcatProperties
    <2>2. Len(rest) \in Nat OBVIOUS
    <2>3. \A j \in 2..(1 + Len(rest)) : (<<record>> \o rest)[j] = rest[j - 1]
      BY <2>1, <2>2
    <2> QED BY <2>1, <2>3
  <1>6. PICK new \in Seq(Records) :
          /\ new = AddedToRecent(list, record)
          /\ Len(new) = IF Len(whole) < n THEN Len(whole) ELSE n
          /\ \A j \in 1..Len(new) : new[j] = whole[j]
    <2>1. AddedToRecent(list, record) = First(whole, n)
      BY <1>1, <1>2, <1>5 DEF AddedToRecent
    <2>2. /\ First(whole, n) \in Seq(Records)
          /\ Len(First(whole, n)) = IF Len(whole) < n THEN Len(whole) ELSE n
          /\ \A j \in 1..Len(First(whole, n)) : First(whole, n)[j] = whole[j]
      BY FirstFacts
    <2> QED BY <2>1, <2>2
  <1>7. Len(rest) \in Nat /\ Len(new) \in Nat OBVIOUS
  <1>8. \A j \in 2..Len(new) : new[j] = rest[j - 1] BY <1>1, <1>5, <1>6, <1>7
  <1>9. CASE record.url \notin Urls(list)
    <2>1. rest = list BY <1>2, <1>9, WithoutUrlFacts
    <2>2. Len(new) = len \/ Len(new) = len + 1 BY <1>1, <1>3, <1>5, <1>6, <2>1
    <2>3. \A j \in 2..Len(new) : j <= len + 1 /\ new[j] = list[j - 1]
      BY <1>3, <1>8, <2>1, <2>2
    <2>4. len + 1 \in Nat OBVIOUS
    <2>5. \A j \in 2..Len(new) :
             \/ j <= len + 1 /\ new[j] = list[j - 1]
             \/ j > len + 1 /\ j <= Len(list) /\ new[j] = list[j]
      BY <2>3
    <2> QED BY <1>3, <1>6, <2>2, <2>4, <2>5 DEF MovedUp
  <1>10. CASE record.url \in Urls(list)
    <2>1. PICK m \in 1..Len(list) : rest = RemoveIndex(list, m)
      BY <1>2, <1>10, WithoutUrlFacts, FirstWithFacts
    <2>2. /\ Len(rest) = len - 1
          /\ \A j \in 1..(len - 1) : rest[j] = IF j < m THEN list[j] ELSE list[j + 1]
      BY <1>3, <2>1, RemoveIndexFacts
    <2>3. Len(new) = len BY <1>1, <1>3, <1>5, <1>6, <2>2
    <2>4. ASSUME NEW j \in 2..Len(new)
          PROVE  \/ j <= m /\ new[j] = list[j - 1]
                 \/ j > m /\ j <= Len(list) /\ new[j] = list[j]
      <3>1. j - 1 \in 1..(len - 1) /\ (j - 1) + 1 = j BY <1>3, <2>3
      <3>2. new[j] = IF j - 1 < m THEN list[j - 1] ELSE list[j] BY <1>8, <2>2, <3>1
      <3>3. m \in Nat /\ j \in Nat /\ j <= Len(list) BY <1>3, <2>3
      <3> QED BY <3>2, <3>3
    <2>5. m \in Nat OBVIOUS
    <2> QED BY <1>3, <1>6, <2>3, <2>4, <2>5 DEF MovedUp
  <1> QED BY <1>9, <1>10

(* A change puts a list that fits in the place of one that is not being    *)
(* saved.                                                                  *)
Changes(kind, list) ==
  /\ kind \in Kinds /\ list \in Seq(Records) /\ Len(list) <= Capacity[kind]
  /\ OneChange(ram[kind], list)
  /\ saves = <<>> \/ (Len(saves) = 1 /\ saves[1].kind = "recent" /\ kind # "recent")
  /\ Change(kind, list)

LEMMA MovesChange ==
  ASSUME ListsOK, Moves
  PROVE  \/ \E kind \in Kinds : \E list : Changes(kind, list)
         \/ UNCHANGED <<ram, flash, saves, revision>>
  <1>1. ASSUME NEW record \in Records, Plays(record)
        PROVE  \E kind \in Kinds : \E list : Changes(kind, list)
    <2>1. ram["recent"] \in Seq(Records) /\ Len(ram["recent"]) <= Capacity["recent"]
      BY DEF ListsOK, Kinds
    <2>2. OneChange(ram["recent"], AddedToRecent(ram["recent"], record))
      BY <2>1, AddedToRecentMovesUp DEF OneChange
    <2>3. Changes("recent", AddedToRecent(ram["recent"], record))
      BY <1>1, <2>1, <2>2, AddedToRecentFacts DEF Plays, Changes, Kinds
    <2> QED BY <2>3 DEF Kinds
  <1>2. ASSUME NEW kind \in Edited, NEW record \in Records, Adds(kind, record)
        PROVE  \E k \in Kinds : \E list : Changes(k, list)
    <2>1. /\ kind \in Kinds /\ kind # "recent" /\ ram[kind] \in Seq(Records)
          /\ Capacity[kind] \in Nat /\ Len(ram[kind]) < Capacity[kind]
      BY <1>2 DEF Edited, Kinds, ListsOK, Adds, HasRoom
    <2>2. /\ Append(ram[kind], record) \in Seq(Records)
          /\ Appended(ram[kind], Append(ram[kind], record))
          /\ Len(Append(ram[kind], record)) = Len(ram[kind]) + 1
      BY <2>1, AppendProperties DEF Appended
    <2>3. Len(Append(ram[kind], record)) <= Capacity[kind] BY <2>1, <2>2
    <2>4. Changes(kind, Append(ram[kind], record))
      BY <1>2, <2>1, <2>2, <2>3 DEF Adds, Free, Changes, OneChange
    <2> QED BY <2>1, <2>4
  <1>3. ASSUME NEW kind \in Edited, NEW i \in 1..Len(ram[kind]), Removes(kind, i)
        PROVE  \E k \in Kinds : \E list : Changes(k, list)
    <2>1. /\ kind \in Kinds /\ kind # "recent" /\ ram[kind] \in Seq(Records)
          /\ Capacity[kind] \in Nat /\ Len(ram[kind]) <= Capacity[kind]
      BY DEF Edited, Kinds, ListsOK
    <2>2. /\ RemoveIndex(ram[kind], i) \in Seq(Records)
          /\ TakenOut(ram[kind], RemoveIndex(ram[kind], i))
          /\ Len(RemoveIndex(ram[kind], i)) = Len(ram[kind]) - 1
      BY <2>1, RemoveIndexFacts DEF TakenOut
    <2>3. Len(RemoveIndex(ram[kind], i)) <= Capacity[kind] BY <2>1, <2>2
    <2>4. Changes(kind, RemoveIndex(ram[kind], i))
      BY <1>3, <2>1, <2>2, <2>3 DEF Removes, Free, Changes, OneChange
    <2> QED BY <2>1, <2>4
  <1> QED BY <1>1, <1>2, <1>3 DEF Moves

LEMMA SessionStep == ListsOK /\ SessionOK /\ [StoreNext]_storeVars => SessionOK'
  <1> SUFFICES ASSUME ListsOK, SessionOK, [StoreNext]_storeVars PROVE SessionOK'
    OBVIOUS
  <1> DEFINE ScreenOK == \/ screen = NoScreen
                         \/ /\ screen.kind \in {"favorites", "recent"}
                            /\ screen.cursor \in Nat \ {0}
             FavoriteOK == favorite = <<>> \/ \E r \in Records : favorite = <<r>>
             PageOK == page = NoPage \/ page.collection \in Kinds
  <1>1. ScreenOK /\ FavoriteOK /\ PageOK BY DEF SessionOK
  <1>2. ASSUME ScreenOK', FavoriteOK', PageOK' PROVE SessionOK' BY <1>2 DEF SessionOK
  <1> HIDE DEF ScreenOK, FavoriteOK, PageOK
  <1>3. ASSUME UNCHANGED page PROVE PageOK' BY <1>1, <1>3 DEF PageOK
  <1>4. ASSUME UNCHANGED screen PROVE ScreenOK' BY <1>1, <1>4 DEF ScreenOK
  <1>5. ASSUME UNCHANGED favorite PROVE FavoriteOK' BY <1>1, <1>5 DEF FavoriteOK
  <1>6. screen' = NoScreen => ScreenOK' BY DEF ScreenOK
  <1>7. ASSUME NEW record \in Records, NEW f, PlayDiscovered(record, f) PROVE SessionOK'
    <2>1. FavoriteOK' BY <1>7 DEF PlayDiscovered, FavoriteOK
    <2> QED BY <1>2, <1>3, <1>6, <1>7, <2>1 DEF PlayDiscovered
  <1>8. CASE Put \/ UNCHANGED storeVars BY <1>2, <1>3, <1>4, <1>5, <1>8 DEF Put
  <1>9. CASE Restart
    <2>1. FavoriteOK' BY <1>9 DEF Restart, FavoriteOK
    <2> QED BY <1>2, <1>3, <1>6, <1>9, <2>1 DEF Restart
  <1>10. ASSUME NEW s \in Stations, NEW f \in BOOLEAN, PlayDiscovered(Record(s), f)
         PROVE  SessionOK'
    BY <1>7, <1>10, RecordIsRecord
  <1>11. CASE FavoritePlayed
    <2>1. FavoriteOK' BY <1>11 DEF FavoritePlayed, FavoriteOK
    <2> QED BY <1>2, <1>3, <1>4, <1>11, <2>1 DEF FavoritePlayed
  <1>12. ASSUME NEW s \in Stations, FavoriteNowPlaying(s) \/ WebAdd(s) PROVE SessionOK'
    BY <1>2, <1>3, <1>4, <1>5, <1>12 DEF FavoriteNowPlaying, WebAdd
  <1>13. ASSUME NEW k \in {"favorites", "recent"}, NEW c \in Nat \ {0}, Draw(k, c)
         PROVE  ScreenOK'
    BY <1>13 DEF Draw, ScreenOK
  <1>14. ASSUME NEW k \in {"favorites", "recent"}, EnterScreen(k) PROVE SessionOK'
    BY <1>2, <1>3, <1>5, <1>13, <1>14 DEF EnterScreen
  <1>15. ASSUME OnScreen
         PROVE  /\ screen.kind \in {"favorites", "recent"} /\ screen.cursor \in Nat \ {0}
                /\ screen.kind \in Kinds /\ Len(Screen) \in Nat \ {0}
                /\ Screen \in Seq(Records)
    <2>1. screen.kind \in {"favorites", "recent"} /\ screen.cursor \in Nat \ {0}
      BY <1>1, <1>15 DEF OnScreen, ScreenOK
    <2>2. screen.kind \in Kinds /\ Screen \in Seq(Records) /\ Screen # <<>>
      BY <1>15, <2>1 DEF OnScreen, Screen, Kinds, ListsOK
    <2> QED BY <2>1, <2>2, EmptySeq
  <1>16. CASE Encoder
    <2>1. PICK c \in {screen.cursor + 1, 1, screen.cursor - 1, Len(Screen)} :
            /\ Draw(screen.kind, c)
            /\ c = screen.cursor - 1 => screen.cursor > 1
      BY <1>15, <1>16 DEF Encoder
    <2>2. OnScreen BY <1>16 DEF Encoder
    <2>3. c \in Nat \ {0} BY <1>15, <2>1, <2>2
    <2> QED BY <1>2, <1>3, <1>5, <1>13, <1>15, <1>16, <2>1, <2>2, <2>3 DEF Encoder
  <1>17. CASE LeaveScreen BY <1>2, <1>3, <1>5, <1>6, <1>17 DEF LeaveScreen
  <1>18. ASSUME NEW f \in BOOLEAN, ScreenPlay(f) PROVE SessionOK'
    <2>1. /\ OnScreen /\ screen.cursor <= Len(Screen)
          /\ PlayDiscovered(Screen[screen.cursor], f)
      BY <1>18 DEF ScreenPlay
    <2>2. screen.cursor \in 1..Len(Screen) BY <1>15, <2>1
    <2>3. Screen[screen.cursor] \in Records BY <1>15, <2>1, <2>2, ElementOfSeq
    <2> QED BY <1>7, <2>1, <2>3
  <1>19. CASE ScreenRemove
    <2>1. OnScreen /\ screen.kind = "favorites" /\ screen.cursor <= Len(Screen)
      BY <1>19 DEF ScreenRemove
    <2>2. screen.cursor \in 1..Len(Screen) BY <1>15, <2>1
    <2> DEFINE list == RemoveIndex(Screen, screen.cursor)
    <2>3. list \in Seq(Records) BY <1>15, <2>1, <2>2, RemoveIndexFacts
    <2>4. list # <<>> => Len(list) \in Nat \ {0} BY <2>3, EmptySeq
    <2>5. PICK c \in {Len(list), screen.cursor} :
            Draw("favorites", c) /\ (c = Len(list) => list # <<>> \/ c = screen.cursor)
      BY <1>19 DEF ScreenRemove
    <2>6. c \in Nat \ {0} BY <1>15, <2>1, <2>4, <2>5
    <2> QED BY <1>2, <1>3, <1>5, <1>13, <1>19, <2>5, <2>6 DEF ScreenRemove
  <1>20. ASSUME NEW k \in {"saved", "favorites"}, NEW i \in 1..Capacity[k], WebRemove(k, i)
         PROVE  SessionOK'
    BY <1>2, <1>3, <1>4, <1>5, <1>20 DEF WebRemove
  <1>21. ASSUME NEW k \in Kinds, RemoteQuery(k) PROVE SessionOK'
    <2>1. PageOK' BY <1>21 DEF RemoteQuery, PageOK
    <2> QED BY <1>2, <1>4, <1>5, <1>21, <2>1 DEF RemoteQuery
  <1>22. ASSUME NEW t, RemoteRemove(t) \/ RemoteFavorite(t) \/ RemoteBrowserFavorite(t)
         PROVE  SessionOK'
    BY <1>2, <1>3, <1>4, <1>5, <1>22
    DEF RemoteRemove, RemoteFavorite, RemoteBrowserFavorite
  <1> QED
    BY <1>8, <1>9, <1>10, <1>11, <1>12, <1>14, <1>16, <1>17, <1>18, <1>19, <1>20, <1>21,
       <1>22 DEF StoreNext, Physical, Web, Remote
-----------------------------------------------------------------------------
(* The flash.                                                              *)
Namespace(k) == [count: 0..Capacity[k], slot: [1..Capacity[k] -> Records]]

SaveRecords == [kind: Kinds, before: Seq(Records), put: Nat]

FlashOK == /\ flash = [k \in Kinds |-> flash[k]]
           /\ \A k \in Kinds : flash[k] \in Namespace(k)

SavesOK ==
  /\ saves \in Seq(SaveRecords) /\ Len(saves) <= 2
  /\ Len(saves) = 2 => saves[1].kind = "recent" /\ saves[2].kind # "recent"
  /\ \A i \in 1..Len(saves) : saves[i].put <= 2 * Len(ram[saves[i].kind])

(* The namespace agrees with the list as far as the first writes go.       *)
AsFar(store, list, writes) ==
  /\ writes > 0 => store.count = Len(list)
  /\ \A j \in 1..Len(list) :
       /\ 2 * j - 1 < writes => store.slot[j].name = list[j].name
       /\ 2 * j < writes => store.slot[j].url = list[j].url

FlashFollows ==
  /\ \A i \in 1..Len(saves) :
       AsFar(flash[saves[i].kind], ram[saves[i].kind], saves[i].put)
  /\ \A k \in Kinds : ~Saving(k) => AsFar(flash[k], ram[k], 2 * Len(ram[k]) + 1)

StoreInv == ListsOK /\ SessionOK /\ FlashOK /\ SavesOK /\ FlashFollows

(* Three ways of counting the writes of a save.                            *)
LEMMA OddWrite ==
  ASSUME NEW p \in Nat, NEW n \in Nat, p # 0, p <= 2 * n, p % 2 = 1
  PROVE  /\ (p + 1) \div 2 \in 1..n
         /\ \A j \in 1..n : 2 * j - 1 < p + 1 <=> 2 * j - 1 < p \/ j = (p + 1) \div 2
         /\ \A j \in 1..n : 2 * j < p + 1 <=> 2 * j < p
  OBVIOUS

LEMMA EvenWrite ==
  ASSUME NEW p \in Nat, NEW n \in Nat, p # 0, p <= 2 * n, p % 2 # 1
  PROVE  /\ p \div 2 \in 1..n
         /\ \A j \in 1..n : 2 * j < p + 1 <=> 2 * j < p \/ j = p \div 2
         /\ \A j \in 1..n : 2 * j - 1 < p + 1 <=> 2 * j - 1 < p
  OBVIOUS

LEMMA Halves ==
  ASSUME NEW p \in Nat, NEW n \in Nat
  PROVE  /\ p % 2 = 1 => /\ (p + 1) \div 2 \in Nat
                         /\ \A j \in 1..n : p + 1 < 2 * j => j # (p + 1) \div 2
         /\ p % 2 # 1 => /\ p \div 2 \in Nat
                         /\ \A j \in 1..n : (p + 1 < 2 * j => j # p \div 2) /\ p + 1 # 2 * j
  OBVIOUS

LEMMA NotYetAll == \A p, n \in Nat : p <= 2 * n /\ p # 2 * n => p < 2 * n
  OBVIOUS

LEMMA PutFieldFacts ==
  ASSUME NEW k \in Kinds, NEW store \in Namespace(k), NEW list \in Seq(Records),
         Len(list) <= Capacity[k], NEW p \in Nat, p <= 2 * Len(list),
         AsFar(store, list, p)
  PROVE  /\ PutField(store, list, p) \in Namespace(k)
         /\ AsFar(PutField(store, list, p), list, p + 1)
  <1> DEFINE store2 == PutField(store, list, p)
             n == Len(list)
  <1>1. n \in Nat /\ Capacity[k] \in Nat /\ n <= Capacity[k] OBVIOUS
  <1>2. /\ store.count \in 0..Capacity[k]
        /\ store.slot \in [1..Capacity[k] -> Records]
        /\ DOMAIN store = {"count", "slot"}
        /\ store = [count |-> store.count, slot |-> store.slot]
    BY DEF Namespace
  <1>3. \A j \in 1..n : list[j] \in Records BY ElementOfSeq
  <1>4. \A j \in 1..n :
          /\ 2 * j - 1 < p => store.slot[j].name = list[j].name
          /\ 2 * j < p => store.slot[j].url = list[j].url
    BY DEF AsFar
  <1>5. p > 0 => store.count = n BY DEF AsFar
  <1>6. CASE p = 0
    <2>1. store2 = [store EXCEPT !.count = n] BY <1>6 DEF PutField
    <2> HIDE DEF store2, n
    <2>2. /\ store2.count = n /\ store2.slot = store.slot
          /\ store2 = [count |-> store2.count, slot |-> store2.slot]
      BY <1>2, <2>1
    <2>3. n \in 0..Capacity[k] BY <1>1
    <2>4. store2 \in Namespace(k) BY <1>2, <2>2, <2>3 DEF Namespace
    <2>5. \A j \in 1..n : ~ (2 * j - 1 < p + 1) /\ ~ (2 * j < p + 1) BY <1>1, <1>6
    <2>6. AsFar(store2, list, p + 1) BY <2>2, <2>5 DEF AsFar, n
    <2> QED BY <2>4, <2>6 DEF store2
  <1>7. CASE p # 0 /\ p % 2 = 1
    <2> DEFINE m == (p + 1) \div 2
    <2>1. /\ m \in 1..n
          /\ \A j \in 1..n : 2 * j - 1 < p + 1 <=> 2 * j - 1 < p \/ j = m
          /\ \A j \in 1..n : 2 * j < p + 1 <=> 2 * j < p
      BY <1>1, <1>7, OddWrite
    <2>2. store2 = [store EXCEPT !.slot[m].name = list[m].name] BY <1>7 DEF PutField
    <2> HIDE DEF m, store2, n
    <2>3. m \in 1..Capacity[k] BY <1>1, <2>1
    <2>4. /\ store2.count = store.count
          /\ store2.slot = [store.slot EXCEPT ![m].name = list[m].name]
          /\ store2 = [count |-> store2.count, slot |-> store2.slot]
      BY <1>2, <2>2
    <2>5. store.slot[m] \in Records /\ list[m] \in Records BY <1>2, <1>3, <2>1, <2>3
    <2>6. [store.slot[m] EXCEPT !.name = list[m].name] \in Records BY <2>5 DEF Records
    <2>7. /\ store2.slot \in [1..Capacity[k] -> Records]
          /\ store2.slot[m].name = list[m].name /\ store2.slot[m].url = store.slot[m].url
          /\ \A j \in 1..Capacity[k] : j # m => store2.slot[j] = store.slot[j]
      BY <1>2, <2>3, <2>4, <2>5, <2>6 DEF Records
    <2>8. store2 \in Namespace(k) BY <1>2, <2>4, <2>7 DEF Namespace
    <2>9. \A j \in 1..n : j \in 1..Capacity[k] BY <1>1
    <2>10. \A j \in 1..n :
             /\ 2 * j - 1 < p + 1 => store2.slot[j].name = list[j].name
             /\ 2 * j < p + 1 => store2.slot[j].url = list[j].url
      BY <1>4, <2>1, <2>7, <2>9
    <2>11. store2.count = n BY <1>5, <1>7, <2>4
    <2> QED BY <2>8, <2>10, <2>11 DEF AsFar, n, store2
  <1>8. CASE p # 0 /\ p % 2 # 1
    <2> DEFINE m == p \div 2
    <2>1. /\ m \in 1..n
          /\ \A j \in 1..n : 2 * j < p + 1 <=> 2 * j < p \/ j = m
          /\ \A j \in 1..n : 2 * j - 1 < p + 1 <=> 2 * j - 1 < p
      BY <1>1, <1>8, EvenWrite
    <2>2. store2 = [store EXCEPT !.slot[m].url = list[m].url] BY <1>8 DEF PutField
    <2> HIDE DEF m, store2, n
    <2>3. m \in 1..Capacity[k] BY <1>1, <2>1
    <2>4. /\ store2.count = store.count
          /\ store2.slot = [store.slot EXCEPT ![m].url = list[m].url]
          /\ store2 = [count |-> store2.count, slot |-> store2.slot]
      BY <1>2, <2>2
    <2>5. store.slot[m] \in Records /\ list[m] \in Records BY <1>2, <1>3, <2>1, <2>3
    <2>6. [store.slot[m] EXCEPT !.url = list[m].url] \in Records BY <2>5 DEF Records
    <2>7. /\ store2.slot \in [1..Capacity[k] -> Records]
          /\ store2.slot[m].url = list[m].url /\ store2.slot[m].name = store.slot[m].name
          /\ \A j \in 1..Capacity[k] : j # m => store2.slot[j] = store.slot[j]
      BY <1>2, <2>3, <2>4, <2>5, <2>6 DEF Records
    <2>8. store2 \in Namespace(k) BY <1>2, <2>4, <2>7 DEF Namespace
    <2>9. \A j \in 1..n : j \in 1..Capacity[k] BY <1>1
    <2>10. \A j \in 1..n :
             /\ 2 * j - 1 < p + 1 => store2.slot[j].name = list[j].name
             /\ 2 * j < p + 1 => store2.slot[j].url = list[j].url
      BY <1>4, <2>1, <2>7, <2>9
    <2>11. store2.count = n BY <1>5, <1>8, <2>4
    <2> QED BY <2>8, <2>10, <2>11 DEF AsFar, n, store2
  <1> QED BY <1>6, <1>7, <1>8

(* What a boot reads is as long as the count says.                         *)
LEMMA LoadedFacts ==
  ASSUME FlashOK, NEW k \in Kinds
  PROVE  /\ flash[k].count \in 0..Capacity[k]
         /\ Loaded(k) \in Seq(Records) /\ Len(Loaded(k)) = flash[k].count
         /\ \A j \in 1..flash[k].count : Loaded(k)[j] = flash[k].slot[j]
  <1>1. /\ flash[k].count \in 0..Capacity[k]
        /\ flash[k].slot \in [1..Capacity[k] -> Records]
        /\ Capacity[k] \in Nat
    BY DEF FlashOK, Namespace
  <1>2. PICK n \in 0..Capacity[k] : n = flash[k].count BY <1>1
  <1>3. PICK slot \in [1..Capacity[k] -> Records] : slot = flash[k].slot BY <1>1
  <1>4. \A j \in 1..n : j \in 1..Capacity[k] BY <1>1, <1>2
  <1>5. n \in Nat /\ \A j \in 1..n : slot[j] \in Records BY <1>1, <1>2, <1>3, <1>4
  <1>6. /\ SubSeq(slot, 1, n) \in Seq(Records) /\ Len(SubSeq(slot, 1, n)) = n
        /\ \A j \in 1..n : SubSeq(slot, 1, n)[j] = slot[j]
    BY <1>5, SubSeqProperties
  <1> QED BY <1>1, <1>2, <1>3, <1>6 DEF Loaded

LEMMA WrittenIsLoaded ==
  ASSUME ListsOK, FlashOK, NEW k \in Kinds, AsFar(flash[k], ram[k], 2 * Len(ram[k]) + 1)
  PROVE  Loaded(k) = ram[k]
  <1>1. ram[k] \in Seq(Records) /\ Len(ram[k]) \in Nat BY DEF ListsOK
  <1>2. flash[k].count = Len(ram[k]) BY <1>1 DEF AsFar
  <1>3. /\ Loaded(k) \in Seq(Records) /\ Len(Loaded(k)) = Len(ram[k])
        /\ \A j \in 1..Len(ram[k]) : Loaded(k)[j] = flash[k].slot[j]
    BY <1>2, LoadedFacts
  <1>4. ASSUME NEW j \in 1..Len(ram[k]) PROVE Loaded(k)[j] = ram[k][j]
    <2>1. 2 * j - 1 < 2 * Len(ram[k]) + 1 /\ 2 * j < 2 * Len(ram[k]) + 1 BY <1>1
    <2>2. /\ flash[k].slot[j].name = ram[k][j].name
          /\ flash[k].slot[j].url = ram[k][j].url
      BY <2>1 DEF AsFar
    <2>3. ram[k][j] \in Records /\ Loaded(k)[j] \in Records BY <1>1, <1>3, ElementOfSeq
    <2>4. flash[k].slot[j] = Loaded(k)[j] BY <1>3
    <2>5. \A r, q \in Records : r.name = q.name /\ r.url = q.url => r = q BY DEF Records
    <2> QED BY <2>2, <2>3, <2>4, <2>5
  <1> QED BY <1>1, <1>3, <1>4, SeqEqual

(* One write: the innermost save goes on, or it is done.                   *)
SaveGoesOn(n) ==
  /\ Len(saves') = n /\ \A i \in 1..(n - 1) : saves'[i] = saves[i]
  /\ saves'[n].kind = saves[n].kind /\ saves'[n].before = saves[n].before
  /\ saves'[n].put = saves[n].put + 1
  /\ saves[n].put < 2 * Len(ram[saves[n].kind])

SaveIsDone(n) ==
  /\ Len(saves') = n - 1 /\ \A i \in 1..(n - 1) : saves'[i] = saves[i]
  /\ saves[n].put = 2 * Len(ram[saves[n].kind])

LEMMA SaveIsRecord ==
  ASSUME SavesOK, NEW i \in 1..Len(saves)
  PROVE  /\ saves[i].kind \in Kinds /\ saves[i].put \in Nat
         /\ saves[i].put <= 2 * Len(ram[saves[i].kind])
         /\ saves[i] \in SaveRecords
  <1>1. saves[i] \in SaveRecords BY ElementOfSeq DEF SavesOK
  <1> QED BY <1>1 DEF SaveRecords, SavesOK

WithPut(save, put) ==
  LET record == [save EXCEPT !.put = put]
  IN  /\ record \in SaveRecords /\ record.put = put
      /\ record.kind = save.kind /\ record.before = save.before

LEMMA WithPutFacts == \A save \in SaveRecords, put \in Nat : WithPut(save, put)
  BY DEF WithPut, SaveRecords

LEMMA PutSaves ==
  ASSUME ListsOK, SavesOK, Put, NEW n, n = Len(saves)
  PROVE  /\ n \in {1, 2} /\ saves' \in Seq(SaveRecords)
         /\ SaveGoesOn(n) \/ SaveIsDone(n)
  <1>1. saves \in Seq(SaveRecords) /\ saves # <<>> /\ Len(saves) <= 2
    BY DEF SavesOK, Put
  <1>2. n \in {1, 2} BY <1>1, EmptySeq
  <1>3. n \in 1..Len(saves) /\ Last = saves[n] BY <1>2 DEF Last
  <1>4. /\ saves[n] \in SaveRecords /\ saves[n].kind \in Kinds /\ saves[n].put \in Nat
        /\ saves[n].put <= 2 * Len(ram[saves[n].kind])
    BY <1>3, SaveIsRecord
  <1>5. ram[saves[n].kind] \in Seq(Records) BY <1>4 DEF ListsOK
  <1>6. CASE saves[n].put = 2 * Len(ram[saves[n].kind])
    <2>1. saves' = SubSeq(saves, 1, n - 1) BY <1>3, <1>6 DEF Put
    <2>2. \A i \in 1..(n - 1) : saves[i] \in SaveRecords BY <1>1, <1>2, ElementOfSeq
    <2>3. n - 1 \in Nat BY <1>2
    <2>4. /\ SubSeq(saves, 1, n - 1) \in Seq(SaveRecords)
          /\ Len(SubSeq(saves, 1, n - 1)) = n - 1
          /\ \A i \in 1..(n - 1) : SubSeq(saves, 1, n - 1)[i] = saves[i]
      BY <1>2, <2>2, <2>3, SubSeqProperties
    <2> QED BY <1>2, <1>6, <2>1, <2>4 DEF SaveIsDone
  <1>7. CASE saves[n].put # 2 * Len(ram[saves[n].kind])
    <2>1. saves' = [saves EXCEPT ![n].put = saves[n].put + 1] BY <1>3, <1>7 DEF Put
    <2>2. saves' = [saves EXCEPT ![n] = [saves[n] EXCEPT !.put = saves[n].put + 1]]
      BY <2>1
    <2>3. saves[n].put + 1 \in Nat BY <1>4
    <2>4. WithPut(saves[n], saves[n].put + 1) BY <1>4, <2>3, WithPutFacts
    <2>5. PICK record \in SaveRecords :
            /\ record = [saves[n] EXCEPT !.put = saves[n].put + 1]
            /\ record.kind = saves[n].kind /\ record.before = saves[n].before
            /\ record.put = saves[n].put + 1
      BY <2>4 DEF WithPut
    <2>6. saves' = [saves EXCEPT ![n] = record] BY <2>2, <2>5
    <2>7. /\ saves' \in Seq(SaveRecords) /\ Len(saves') = n /\ saves'[n] = record
          /\ \A i \in 1..(n - 1) : saves'[i] = saves[i]
      BY <1>1, <1>2, <1>3, <2>5, <2>6, ExceptSeq
    <2>8. Len(ram[saves[n].kind]) \in Nat BY <1>5
    <2>9. saves[n].put < 2 * Len(ram[saves[n].kind]) BY <1>4, <1>7, <2>8, NotYetAll
    <2> QED BY <1>2, <2>5, <2>7, <2>9 DEF SaveGoesOn
  <1> QED BY <1>2, <1>6, <1>7

LEMMA PutStep == StoreInv /\ Put => ListsOK' /\ FlashOK' /\ SavesOK' /\ FlashFollows'
  <1> SUFFICES ASSUME StoreInv, Put
               PROVE  ListsOK' /\ FlashOK' /\ SavesOK' /\ FlashFollows'
    OBVIOUS
  <1>1. ListsOK /\ FlashOK /\ SavesOK /\ FlashFollows BY DEF StoreInv
  <1>2. PICK n \in {1, 2} : n = Len(saves) /\ (SaveGoesOn(n) \/ SaveIsDone(n))
    BY <1>1, PutSaves
  <1>3. saves' \in Seq(SaveRecords) /\ UNCHANGED ram BY <1>1, <1>2, PutSaves DEF Put
  <1>4. PICK k \in Kinds : k = saves[n].kind BY <1>1, <1>2, SaveIsRecord
  <1>5. PICK p \in Nat : p = saves[n].put /\ p <= 2 * Len(ram[k])
    BY <1>1, <1>2, <1>4, SaveIsRecord
  <1>6. /\ flash[k] \in Namespace(k) /\ ram[k] \in Seq(Records)
        /\ Len(ram[k]) <= Capacity[k]
    BY <1>1 DEF FlashOK, ListsOK
  <1>7. AsFar(flash[k], ram[k], p) BY <1>1, <1>2, <1>4, <1>5 DEF FlashFollows
  <1>8. flash' = [flash EXCEPT ![k] = PutField(flash[k], ram[k], p)]
    BY <1>2, <1>4, <1>5 DEF Put, Last
  <1>9. /\ PutField(flash[k], ram[k], p) \in Namespace(k)
        /\ AsFar(PutField(flash[k], ram[k], p), ram[k], p + 1)
    BY <1>5, <1>6, <1>7, PutFieldFacts
  <1>10. /\ \A x \in Kinds : x # k => flash'[x] = flash[x]
         /\ flash'[k] \in Namespace(k) /\ AsFar(flash'[k], ram[k], p + 1)
         /\ flash' = [x \in Kinds |-> flash'[x]]
    BY <1>1, <1>8, <1>9 DEF FlashOK
  <1>11. ListsOK' BY <1>1, <1>3 DEF ListsOK
  <1>12. FlashOK' BY <1>1, <1>10 DEF FlashOK, Namespace
  <1>13. ASSUME n = 2 PROVE saves[1].kind = "recent" /\ k # "recent"
    BY <1>1, <1>2, <1>4, <1>13 DEF SavesOK
  <1>14. ASSUME NEW i \in 1..(n - 1)
         PROVE  i \in 1..Len(saves) /\ saves[i].kind # k
    <2>1. n = 1 \/ n = 2 OBVIOUS
    <2>2. i \in Int /\ 1 <= i /\ i <= n - 1 OBVIOUS
    <2>3. i = 1 /\ n = 2 BY <2>1, <2>2
    <2> QED BY <1>2, <1>13, <2>3
  <1>15. CASE SaveGoesOn(n)
    <2>1. SavesOK'
      <3>1. ASSUME NEW i \in 1..Len(saves')
            PROVE  saves'[i].put <= 2 * Len(ram[saves'[i].kind])
        <4>1. CASE i = n
          <5>1. saves'[i].kind = k /\ saves'[i].put = p + 1 /\ p < 2 * Len(ram[k])
            BY <1>4, <1>5, <1>15, <4>1 DEF SaveGoesOn
          <5>2. Len(ram[k]) \in Nat BY <1>6
          <5> QED BY <5>1, <5>2
        <4>2. CASE i # n
          <5>1. i \in 1..(n - 1) BY <1>2, <1>15, <4>2 DEF SaveGoesOn
          <5> QED BY <1>1, <1>14, <1>15, <5>1 DEF SaveGoesOn, SavesOK
        <4> QED BY <4>1, <4>2
      <3>2. /\ Len(saves') <= 2
            /\ Len(saves') = 2 => saves'[1].kind = "recent" /\ saves'[2].kind # "recent"
        BY <1>2, <1>4, <1>13, <1>15 DEF SaveGoesOn
      <3> QED BY <1>3, <3>1, <3>2 DEF SavesOK
    <2>2. ASSUME NEW i \in 1..Len(saves')
          PROVE  AsFar(flash'[saves'[i].kind], ram'[saves'[i].kind], saves'[i].put)
      <3>1. CASE i = n BY <1>3, <1>4, <1>5, <1>10, <1>15, <3>1 DEF SaveGoesOn
      <3>2. CASE i # n
        <4>1. i \in 1..(n - 1) BY <1>2, <1>15, <3>2 DEF SaveGoesOn
        <4>2. saves'[i] = saves[i] /\ saves[i].kind \in Kinds
          BY <1>1, <1>14, <1>15, <4>1, SaveIsRecord DEF SaveGoesOn
        <4> QED BY <1>1, <1>3, <1>10, <1>14, <4>1, <4>2 DEF FlashFollows
      <3> QED BY <3>1, <3>2
    <2>3. ASSUME NEW x \in Kinds, ~Saving(x)'
          PROVE  AsFar(flash'[x], ram'[x], 2 * Len(ram'[x]) + 1)
      <3>1. \A i \in 1..n : i \in 1..(n - 1) \/ i = n OBVIOUS
      <3>2. \A i \in 1..n : saves'[i].kind = saves[i].kind
        BY <1>15, <3>1 DEF SaveGoesOn
      <3>3. n \in 1..n OBVIOUS
      <3>4. ~Saving(x) /\ x # k
        BY <1>2, <1>4, <1>15, <2>3, <3>2, <3>3 DEF Saving, SaveGoesOn
      <3> QED BY <1>1, <1>3, <1>10, <3>4 DEF FlashFollows
    <2> QED BY <1>11, <1>12, <2>1, <2>2, <2>3 DEF FlashFollows
  <1>16. CASE SaveIsDone(n)
    <2>1. p = 2 * Len(ram[k]) /\ \A i \in 1..Len(saves') : i \in 1..(n - 1)
      BY <1>2, <1>4, <1>5, <1>16 DEF SaveIsDone
    <2>2. ASSUME NEW i \in 1..Len(saves')
          PROVE  saves'[i] = saves[i] /\ saves[i].kind \in Kinds /\ saves[i].kind # k
                 /\ i \in 1..Len(saves)
      BY <1>1, <1>14, <1>16, <2>1, SaveIsRecord DEF SaveIsDone
    <2>3. SavesOK'
      <3>1. \A i \in 1..Len(saves') : saves'[i].put <= 2 * Len(ram[saves'[i].kind])
        BY <1>1, <2>2 DEF SavesOK
      <3>2. Len(saves') = n - 1 /\ n - 1 <= 1 BY <1>16 DEF SaveIsDone
      <3> QED BY <1>3, <3>1, <3>2 DEF SavesOK
    <2>4. \A i \in 1..Len(saves') :
            AsFar(flash'[saves'[i].kind], ram'[saves'[i].kind], saves'[i].put)
      BY <1>1, <1>3, <1>10, <2>2 DEF FlashFollows
    <2>5. ASSUME NEW x \in Kinds, ~Saving(x)'
          PROVE  AsFar(flash'[x], ram'[x], 2 * Len(ram'[x]) + 1)
      <3>1. CASE x = k BY <1>3, <1>10, <2>1, <3>1
      <3>2. CASE x # k
        <4>1. \A i \in 1..n : i = n \/ i \in 1..Len(saves')
          BY <1>2, <1>16 DEF SaveIsDone
        <4>2. ~Saving(x) BY <1>2, <1>4, <2>2, <2>5, <3>2, <4>1 DEF Saving
        <4> QED BY <1>1, <1>3, <1>10, <3>2, <4>2 DEF FlashFollows
      <3> QED BY <3>1, <3>2
    <2> QED BY <1>11, <1>12, <2>3, <2>4, <2>5 DEF FlashFollows
  <1> QED BY <1>2, <1>15, <1>16

LEMMA ChangeStep ==
  ASSUME StoreInv, NEW kind, NEW list, Changes(kind, list)
  PROVE  ListsOK' /\ FlashOK' /\ SavesOK' /\ FlashFollows'
  <1>1. ListsOK /\ FlashOK /\ SavesOK /\ FlashFollows BY DEF StoreInv
  <1>2. /\ kind \in Kinds /\ list \in Seq(Records) /\ Len(list) <= Capacity[kind]
        /\ ram' = [ram EXCEPT ![kind] = list] /\ flash' = flash
    BY DEF Changes, Change
  <1>3. PICK save : save = [kind |-> kind, before |-> ram[kind], put |-> 0] OBVIOUS
  <1>4. save \in SaveRecords /\ save.kind = kind /\ save.put = 0
    BY <1>1, <1>2, <1>3 DEF SaveRecords, ListsOK
  <1>5. saves' = Append(saves, save) BY <1>3 DEF Changes, Change
  <1>6. saves \in Seq(SaveRecords) BY <1>1 DEF SavesOK
  <1>7. PICK n \in Nat : n = Len(saves) BY <1>6
  <1>8. /\ saves' \in Seq(SaveRecords) /\ Len(saves') = n + 1 /\ saves'[n + 1] = save
        /\ \A i \in 1..n : saves'[i] = saves[i]
    BY <1>4, <1>5, <1>6, <1>7, AppendProperties
  <1>9. n = 0 \/ (n = 1 /\ saves[1].kind = "recent" /\ kind # "recent")
    BY <1>7 DEF Changes
  <1>10. /\ ram'[kind] = list /\ \A x \in Kinds : x # kind => ram'[x] = ram[x]
         /\ ram' \in [Kinds -> Seq(Records)]
    BY <1>1, <1>2 DEF ListsOK
  <1>11. \A i \in 1..n : i = 1 /\ n = 1 BY <1>9
  <1>12. ASSUME NEW i \in 1..n
         PROVE  /\ i \in 1..Len(saves) /\ saves'[i] = saves[i] /\ saves[i].kind # kind
                /\ saves[i].kind \in Kinds
    <2>1. i \in 1..Len(saves) BY <1>7
    <2> QED BY <1>1, <1>8, <1>9, <1>11, <2>1, SaveIsRecord
  <1>13. \A i \in 1..Len(saves') : i \in 1..n \/ i = n + 1 BY <1>8
  <1>14. ListsOK' BY <1>1, <1>2, <1>10 DEF ListsOK
  <1>15. FlashOK' BY <1>1, <1>2 DEF FlashOK
  <1>16. SavesOK'
    <2>1. ASSUME NEW i \in 1..Len(saves')
          PROVE  saves'[i].put <= 2 * Len(ram'[saves'[i].kind])
      <3>1. CASE i \in 1..n BY <1>1, <1>10, <1>12, <3>1 DEF SavesOK
      <3>2. CASE i = n + 1
        <4>1. saves'[i].put = 0 /\ ram'[saves'[i].kind] = list
          BY <1>4, <1>8, <1>10, <3>2
        <4>2. Len(list) \in Nat BY <1>2
        <4> QED BY <4>1, <4>2
      <3> QED BY <1>13, <3>1, <3>2
    <2>2. /\ Len(saves') <= 2
          /\ Len(saves') = 2 => saves'[1].kind = "recent" /\ saves'[2].kind # "recent"
      BY <1>4, <1>8, <1>9
    <2> QED BY <1>8, <2>1, <2>2 DEF SavesOK
  <1>17. ASSUME NEW i \in 1..Len(saves')
         PROVE  AsFar(flash'[saves'[i].kind], ram'[saves'[i].kind], saves'[i].put)
    <2>1. CASE i \in 1..n BY <1>1, <1>2, <1>10, <1>12, <2>1 DEF FlashFollows
    <2>2. CASE i = n + 1
      <3>1. saves'[i].put = 0 /\ ram'[saves'[i].kind] = list BY <1>4, <1>8, <1>10, <2>2
      <3>2. \A j \in 1..Len(list) : ~ (2 * j - 1 < 0) /\ ~ (2 * j < 0) BY <1>2
      <3> QED BY <3>1, <3>2 DEF AsFar
    <2> QED BY <1>13, <2>1, <2>2
  <1>18. ASSUME NEW x \in Kinds, ~Saving(x)'
         PROVE  AsFar(flash'[x], ram'[x], 2 * Len(ram'[x]) + 1)
    <2>1. n + 1 \in 1..Len(saves') /\ \A i \in 1..n : i \in 1..Len(saves') BY <1>8
    <2>2. x # kind BY <1>4, <1>8, <1>18, <2>1 DEF Saving
    <2>3. ~Saving(x) BY <1>7, <1>8, <1>18, <2>1 DEF Saving
    <2> QED BY <1>1, <1>2, <1>10, <2>2, <2>3 DEF FlashFollows
  <1> QED BY <1>14, <1>15, <1>16, <1>17, <1>18 DEF FlashFollows

LEMMA RestartStep == StoreInv /\ Restart => ListsOK' /\ FlashOK' /\ SavesOK' /\ FlashFollows'
  <1> SUFFICES ASSUME StoreInv, Restart
               PROVE  ListsOK' /\ FlashOK' /\ SavesOK' /\ FlashFollows'
    OBVIOUS
  <1>1. FlashOK BY DEF StoreInv
  <1>2. ram' = [k \in Kinds |-> Loaded(k)] /\ flash' = flash /\ saves' = <<>>
    BY DEF Restart
  <1>3. ASSUME NEW k \in Kinds
        PROVE  /\ ram'[k] \in Seq(Records) /\ Len(ram'[k]) = flash[k].count
               /\ \A j \in 1..Len(ram'[k]) : ram'[k][j] = flash[k].slot[j]
    BY <1>1, <1>2, LoadedFacts
  <1>4. ListsOK'
    <2>1. \A k \in Kinds : Len(ram'[k]) <= Capacity[k] BY <1>1, <1>3, LoadedFacts
    <2>2. ram' \in [Kinds -> Seq(Records)] BY <1>2, <1>3
    <2> QED BY <2>1, <2>2 DEF ListsOK
  <1>5. \A k \in Kinds : AsFar(flash'[k], ram'[k], 2 * Len(ram'[k]) + 1)
    BY <1>2, <1>3 DEF AsFar
  <1>6. SavesOK' BY <1>2 DEF SavesOK
  <1> QED BY <1>1, <1>2, <1>4, <1>5, <1>6 DEF FlashOK, FlashFollows

LEMMA StoreInvInit == StoreInit => StoreInv
  <1> SUFFICES ASSUME StoreInit PROVE StoreInv
    OBVIOUS
  <1>1. BlankRecord \in Records BY DEF BlankRecord, Records
  <1>2. ASSUME NEW k \in Kinds
        PROVE  /\ ram[k] = <<>> /\ flash[k].count = 0 /\ flash[k] \in Namespace(k)
               /\ Capacity[k] \in Nat
    BY <1>1 DEF StoreInit, Namespace
  <1>3. ListsOK BY <1>2 DEF StoreInit, ListsOK
  <1>4. SessionOK BY DEF StoreInit, SessionOK
  <1>5. FlashOK BY <1>2 DEF StoreInit, FlashOK
  <1>6. SavesOK BY DEF StoreInit, SavesOK
  <1>7. FlashFollows BY <1>2 DEF StoreInit, FlashFollows, AsFar
  <1> QED BY <1>3, <1>4, <1>5, <1>6, <1>7 DEF StoreInv

LEMMA StoreInvStep == StoreInv /\ [StoreNext]_storeVars => StoreInv'
  <1> SUFFICES ASSUME StoreInv, [StoreNext]_storeVars PROVE StoreInv'
    OBVIOUS
  <1>1. ListsOK /\ SessionOK /\ FlashOK /\ SavesOK /\ FlashFollows BY DEF StoreInv
  <1>2. SessionOK' BY <1>1, SessionStep
  <1>3. CASE Put BY <1>2, <1>3, PutStep DEF StoreInv
  <1>4. CASE Restart BY <1>2, <1>4, RestartStep DEF StoreInv
  <1>5. ASSUME UNCHANGED <<ram, flash, saves, revision>> PROVE StoreInv'
    BY <1>1, <1>2, <1>5
    DEF StoreInv, ListsOK, FlashOK, Namespace, SavesOK, FlashFollows, Saving
  <1>6. CASE Physical \/ Web \/ Remote \/ UNCHANGED storeVars
    <2>1. Moves BY <1>1, <1>6, StoreMoves
    <2>2. CASE UNCHANGED <<ram, flash, saves, revision>> BY <1>5, <2>2
    <2>3. ASSUME NEW kind \in Kinds, NEW list, Changes(kind, list) PROVE StoreInv'
      BY <1>2, <2>3, ChangeStep DEF StoreInv
    <2> QED BY <1>1, <2>1, <2>2, <2>3, MovesChange
  <1> QED BY <1>3, <1>4, <1>6 DEF StoreNext

LEMMA StoreInvHolds == StoreSpec => []StoreInv
  BY StoreInvInit, StoreInvStep, PTL DEF StoreSpec

(* Once the save of a list has returned, a boot would read it back as it   *)
(* is, however the saves were nested and whatever older records the        *)
(* namespace holds: each write of saveFavorites, saveRecent and saveToNVS  *)
(* brings the namespace one field further, and nobody else changes the     *)
(* list while its own save runs.                                           *)
THEOREM SavedListsAreLoaded == StoreSpec => []SettledIsSaved
  <1>1. StoreInv => SettledIsSaved
    BY WrittenIsLoaded DEF StoreInv, FlashFollows, SettledIsSaved
  <1> QED BY <1>1, StoreInvHolds, PTL
-----------------------------------------------------------------------------
(* The REMOTE's page.                                                      *)

LEMMA PageMoves ==
  ASSUME Physical \/ Web \/ Remote \/ UNCHANGED storeVars
  PROVE  page' = page \/ \E k \in Kinds : RemoteQuery(k)
  <1>1. ASSUME NEW record, NEW f, PlayDiscovered(record, f) PROVE page' = page
    BY <1>1 DEF PlayDiscovered
  <1>2. ScreenRemove => page' = page BY DEF ScreenRemove
  <1>3. Physical => page' = page
    BY <1>1, <1>2
    DEF Physical, FavoritePlayed, FavoriteNowPlaying, EnterScreen, Encoder, LeaveScreen,
        ScreenPlay
  <1>4. Web => page' = page BY DEF Web, WebAdd, WebRemove
  <1> QED
    BY <1>3, <1>4 DEF Remote, RemoteRemove, RemoteFavorite, RemoteBrowserFavorite

(* A page of this boot and of the revision that holds shows the list as    *)
(* it is.                                                                  *)
Fenced ==
  /\ revision \in Nat /\ crashes \in Nat /\ page.boot \in Nat /\ page.boot <= crashes
  /\ page.boot = crashes =>
       /\ page.revision \in Nat /\ page.revision <= revision
       /\ page.revision = revision =>
            page.items = <<>> \/ page.items = ram[page.collection]

LEMMA FencedStep == StoreInv /\ Fenced /\ [StoreNext]_storeVars => Fenced'
  <1> SUFFICES ASSUME StoreInv, Fenced, [StoreNext]_storeVars PROVE Fenced'
    OBVIOUS
  <1>1. CASE Put BY <1>1 DEF Put, Fenced
  <1>2. CASE Restart
    <2>1. page' = page /\ revision' = 3 /\ crashes' = crashes + 1
      BY <1>2 DEF Restart, BootRevision
    <2>2. page.boot < crashes' BY <2>1 DEF Fenced
    <2> QED BY <2>1, <2>2 DEF Fenced
  <1>3. CASE Physical \/ Web \/ Remote \/ UNCHANGED storeVars
    <2>1. page' = page \/ \E k \in Kinds : RemoteQuery(k) BY <1>3, PageMoves
    <2>2. ASSUME NEW k \in Kinds, RemoteQuery(k) PROVE Fenced'
      BY <2>2 DEF RemoteQuery, Fenced
    <2>3. CASE page' = page
      <3>1. /\ crashes' = crashes
            /\ \/ \E kind \in Kinds : \E list : Changes(kind, list)
               \/ UNCHANGED <<ram, flash, saves, revision>>
        BY <1>3, StoreMoves, MovesChange DEF StoreInv
      <3>2. ASSUME NEW kind, NEW list, Changes(kind, list) PROVE Fenced'
        <4>1. revision' = revision + 1 BY <3>2 DEF Changes, Change
        <4>2. /\ revision' \in Nat
              /\ page.boot = crashes => page.revision \in Nat /\ page.revision < revision'
          BY <4>1 DEF Fenced
        <4> QED BY <2>3, <3>1, <4>2 DEF Fenced
      <3>3. CASE UNCHANGED <<ram, flash, saves, revision>>
        BY <2>3, <3>1, <3>3 DEF Fenced
      <3> QED BY <3>1, <3>2, <3>3
    <2> QED BY <2>1, <2>2, <2>3
  <1> QED BY <1>1, <1>2, <1>3 DEF StoreNext

(* A command of the REMOTE from a page of this boot that passes            *)
(* rtcp_catalog::admit finds under its token the record the REMOTE was     *)
(* shown: the revision advances with every change of a list.               *)
THEOREM RemoteCommandsMeanWhatWasShown == StoreSpec => []RemoteActsOnWhatItSaw
  <1>1. StoreInit => Fenced BY DEF StoreInit, Fenced, NoPage, BootRevision
  <1>2. ASSUME Fenced, page.boot = crashes, NEW t \in 1..Len(page.items), Admit(t)
        PROVE  ram[page.collection][t] = page.items[t]
    <2>1. page.items # <<>>
      <3>1. Len(<<>>) = 0 /\ t \in Int /\ 1 <= t /\ t <= Len(page.items) BY <1>2
      <3> QED BY <3>1
    <2> QED BY <1>2, <2>1 DEF Admit, Fenced
  <1>3. Fenced => RemoteActsOnWhatItSaw BY <1>2 DEF RemoteActsOnWhatItSaw
  <1> QED BY <1>1, <1>3, FencedStep, StoreInvHolds, PTL DEF StoreSpec
-----------------------------------------------------------------------------
(* What a restart finds of a list that is being saved.                     *)

(* The namespace still holds the list of before, from this write on.       *)
Behind(store, old, writes) ==
  /\ writes = 0 => store.count = Len(old)
  /\ \A j \in 1..Len(old) :
       /\ writes < 2 * j => store.slot[j] = old[j]
       /\ writes = 2 * j => store.slot[j].url = old[j].url

LEMMA PutFieldKeeps ==
  ASSUME NEW k \in Kinds, NEW store \in Namespace(k), NEW list \in Seq(Records),
         Len(list) <= Capacity[k], NEW old \in Seq(Records), Len(old) <= Capacity[k],
         NEW p \in Nat, p <= 2 * Len(list), Behind(store, old, p)
  PROVE  Behind(PutField(store, list, p), old, p + 1)
  <1>1. PICK store2 : store2 = PutField(store, list, p) OBVIOUS
  <1>2. PICK n \in Nat : n = Len(old) OBVIOUS
  <1>3. /\ Capacity[k] \in Nat /\ n <= Capacity[k]
        /\ store.slot \in [1..Capacity[k] -> Records] /\ DOMAIN store = {"count", "slot"}
    BY <1>2 DEF Namespace
  <1>4. \A j \in 1..n : (p < 2 * j => store.slot[j] = old[j])
                        /\ (p = 2 * j => store.slot[j].url = old[j].url)
    BY <1>2 DEF Behind
  <1>5. p + 1 # 0 /\ \A j \in 1..n : p + 1 < 2 * j => p < 2 * j BY <1>2
  <1>6. ASSUME \A j \in 1..n : /\ p + 1 < 2 * j => store2.slot[j] = store.slot[j]
                               /\ p + 1 = 2 * j => store2.slot[j].url = store.slot[j].url
        PROVE  Behind(store2, old, p + 1)
    <2>1. \A j \in 1..n : p + 1 = 2 * j => p < 2 * j BY <1>2
    <2>2. \A j \in 1..n : (p + 1 < 2 * j => store2.slot[j] = old[j])
                          /\ (p + 1 = 2 * j => store2.slot[j].url = old[j].url)
      BY <1>4, <1>5, <1>6, <2>1
    <2> QED BY <1>2, <1>5, <2>2 DEF Behind
  <1>7. CASE p = 0
    <2>1. store2.slot = store.slot BY <1>1, <1>3, <1>7 DEF PutField
    <2> QED BY <1>1, <1>6, <2>1
  <1>8. CASE p # 0 /\ p % 2 = 1
    <2> DEFINE m == (p + 1) \div 2
    <2>1. store2 = [store EXCEPT !.slot[m].name = list[m].name] BY <1>1, <1>8 DEF PutField
    <2>2. m \in Nat /\ \A j \in 1..n : p + 1 < 2 * j => j # m
      BY <1>2, <1>8, Halves
    <2> HIDE DEF m
    <2>3. store2.slot = [store.slot EXCEPT ![m].name = list[m].name] BY <1>3, <2>1
    <2>4. \A j \in 1..Capacity[k] : j # m => store2.slot[j] = store.slot[j]
      BY <1>3, <2>3
    <2>5. \A j \in 1..Capacity[k] : store2.slot[j].url = store.slot[j].url
      BY <1>3, <2>3 DEF Records
    <2>6. \A j \in 1..n : j \in 1..Capacity[k] BY <1>2, <1>3
    <2> QED BY <1>1, <1>6, <2>2, <2>4, <2>5, <2>6
  <1>9. CASE p # 0 /\ p % 2 # 1
    <2> DEFINE m == p \div 2
    <2>1. store2 = [store EXCEPT !.slot[m].url = list[m].url] BY <1>1, <1>9 DEF PutField
    <2>2. m \in Nat /\ \A j \in 1..n : (p + 1 < 2 * j => j # m) /\ p + 1 # 2 * j
      BY <1>2, <1>9, Halves
    <2> HIDE DEF m
    <2>3. store2.slot = [store.slot EXCEPT ![m].url = list[m].url] BY <1>3, <2>1
    <2>4. \A j \in 1..Capacity[k] : j # m => store2.slot[j] = store.slot[j]
      BY <1>3, <2>3
    <2>5. \A j \in 1..n : j \in 1..Capacity[k] BY <1>2, <1>3
    <2> QED BY <1>1, <1>6, <2>2, <2>4, <2>5
  <1> QED BY <1>1, <1>7, <1>8, <1>9

(* Each save in progress knows the list of before the one change it saves. *)
BeforeKept(save, store, list) ==
  /\ Len(save.before) <= Capacity[save.kind]
  /\ OneChange(save.before, list) /\ Behind(store, save.before, save.put)

BeforeOK ==
  \A i \in 1..Len(saves) :
    BeforeKept(saves[i], flash[saves[i].kind], ram[saves[i].kind])

LEMMA WrittenIsBehind ==
  ASSUME ListsOK, FlashOK, NEW k \in Kinds, AsFar(flash[k], ram[k], 2 * Len(ram[k]) + 1)
  PROVE  Behind(flash[k], ram[k], 0)
  <1>1. Loaded(k) = ram[k] BY WrittenIsLoaded
  <1>2. Len(ram[k]) = flash[k].count /\ \A j \in 1..Len(ram[k]) : ram[k][j] = flash[k].slot[j]
    BY <1>1, LoadedFacts
  <1>3. \A j \in 1..Len(ram[k]) : 0 # 2 * j
    <2>1. Len(ram[k]) \in Nat BY DEF ListsOK
    <2> QED BY <2>1
  <1> QED BY <1>2, <1>3 DEF Behind

LEMMA BeforePut == StoreInv /\ BeforeOK /\ Put => BeforeOK'
  <1> SUFFICES ASSUME StoreInv, BeforeOK, Put, NEW i \in 1..Len(saves')
               PROVE  BeforeKept(saves'[i], flash'[saves'[i].kind], ram'[saves'[i].kind])
    BY DEF BeforeOK
  <1>1. ListsOK /\ FlashOK /\ SavesOK BY DEF StoreInv
  <1>2. PICK n \in {1, 2} : n = Len(saves) /\ (SaveGoesOn(n) \/ SaveIsDone(n))
    BY <1>1, PutSaves
  <1>3. n \in 1..Len(saves) /\ UNCHANGED ram /\ Last = saves[n] BY <1>2 DEF Put, Last
  <1>4. PICK k \in Kinds : k = saves[n].kind BY <1>1, <1>3, SaveIsRecord
  <1>5. PICK p \in Nat : p = saves[n].put /\ p <= 2 * Len(ram[k])
    BY <1>1, <1>3, <1>4, SaveIsRecord
  <1>6. /\ flash[k] \in Namespace(k) /\ ram[k] \in Seq(Records)
        /\ Len(ram[k]) <= Capacity[k]
    BY <1>1 DEF FlashOK, ListsOK
  <1>7. flash' = [flash EXCEPT ![k] = PutField(flash[k], ram[k], p)]
    BY <1>3, <1>4, <1>5 DEF Put
  <1>8. /\ flash'[k] = PutField(flash[k], ram[k], p)
        /\ \A x \in Kinds : x # k => flash'[x] = flash[x]
    BY <1>1, <1>7 DEF FlashOK
  <1>9. CASE i = n /\ SaveGoesOn(n)
    <2>1. BeforeKept(saves[n], flash[k], ram[k]) BY <1>3, <1>4 DEF BeforeOK
    <2>2. PICK old \in Seq(Records) : old = saves[n].before
      BY <1>1, <1>3, SaveIsRecord DEF SaveRecords
    <2>3. Len(old) <= Capacity[k] /\ OneChange(old, ram[k]) /\ Behind(flash[k], old, p)
      BY <1>4, <1>5, <2>1, <2>2 DEF BeforeKept
    <2>4. Behind(PutField(flash[k], ram[k], p), old, p + 1)
      BY <1>4, <1>5, <1>6, <2>2, <2>3, PutFieldKeeps
    <2>5. saves'[i].kind = k /\ saves'[i].before = old /\ saves'[i].put = p + 1
      BY <1>4, <1>5, <1>9, <2>2 DEF SaveGoesOn
    <2> QED BY <1>3, <1>8, <2>3, <2>4, <2>5 DEF BeforeKept
  <1>10. CASE ~ (i = n /\ SaveGoesOn(n))
    <2>1. i \in 1..(n - 1) /\ saves'[i] = saves[i]
      <3>1. CASE SaveGoesOn(n) BY <1>10, <3>1 DEF SaveGoesOn
      <3>2. CASE SaveIsDone(n) BY <3>2 DEF SaveIsDone
      <3> QED BY <1>2, <3>1, <3>2
    <2>2. i = 1 /\ n = 2
      <3>1. n = 1 \/ n = 2 OBVIOUS
      <3>2. i \in Int /\ 1 <= i /\ i <= n - 1 BY <2>1
      <3> QED BY <3>1, <3>2
    <2>3. i \in 1..Len(saves) BY <1>2, <2>2
    <2>4. saves[i].kind # k BY <1>1, <1>2, <1>4, <2>2 DEF SavesOK
    <2>5. saves[i].kind \in Kinds BY <1>1, <2>3, SaveIsRecord
    <2>6. BeforeKept(saves[i], flash[saves[i].kind], ram[saves[i].kind])
      BY <2>3 DEF BeforeOK
    <2> QED BY <1>3, <1>8, <2>1, <2>4, <2>5, <2>6
  <1> QED BY <1>9, <1>10

LEMMA BeforeChange ==
  ASSUME StoreInv, BeforeOK, NEW kind, NEW list, Changes(kind, list)
  PROVE  BeforeOK'
  <1> SUFFICES ASSUME NEW i \in 1..Len(saves')
               PROVE  BeforeKept(saves'[i], flash'[saves'[i].kind], ram'[saves'[i].kind])
    BY DEF BeforeOK
  <1>1. ListsOK /\ FlashOK /\ SavesOK /\ FlashFollows BY DEF StoreInv
  <1>2. /\ kind \in Kinds /\ list \in Seq(Records)
        /\ ram' = [ram EXCEPT ![kind] = list] /\ flash' = flash
    BY DEF Changes, Change
  <1>3. ram'[kind] = list /\ \A x \in Kinds : x # kind => ram'[x] = ram[x]
    BY <1>1, <1>2 DEF ListsOK
  <1>4. PICK save : save = [kind |-> kind, before |-> ram[kind], put |-> 0] OBVIOUS
  <1>5. /\ save \in SaveRecords /\ save.kind = kind /\ save.put = 0
        /\ save.before = ram[kind]
    BY <1>1, <1>2, <1>4 DEF SaveRecords, ListsOK
  <1>6. saves' = Append(saves, save) BY <1>4 DEF Changes, Change
  <1>7. saves \in Seq(SaveRecords) BY <1>1 DEF SavesOK
  <1>8. PICK n \in Nat : n = Len(saves) BY <1>7
  <1>9. /\ Len(saves') = n + 1 /\ saves'[n + 1] = save
        /\ \A j \in 1..n : saves'[j] = saves[j]
    BY <1>5, <1>6, <1>7, <1>8, AppendProperties
  <1>10. n = 0 \/ (n = 1 /\ saves[1].kind = "recent" /\ kind # "recent")
    BY <1>8 DEF Changes
  <1>11. CASE i = n + 1
    <2>1. ~Saving(kind)
      <3>1. \A j \in 1..n : j = 1 /\ n = 1 BY <1>10
      <3> QED BY <1>8, <1>10, <3>1 DEF Saving
    <2>2. AsFar(flash[kind], ram[kind], 2 * Len(ram[kind]) + 1)
      BY <1>1, <1>2, <2>1 DEF FlashFollows
    <2>3. Behind(flash[kind], ram[kind], 0) BY <1>1, <1>2, <2>2, WrittenIsBehind
    <2>4. Len(ram[kind]) <= Capacity[kind] BY <1>1, <1>2 DEF ListsOK
    <2>5. OneChange(ram[kind], list) BY DEF Changes
    <2> QED BY <1>2, <1>3, <1>5, <1>9, <1>11, <2>3, <2>4, <2>5 DEF BeforeKept
  <1>12. CASE i # n + 1
    <2>1. i \in 1..n BY <1>9, <1>12
    <2>2. i = 1 /\ n = 1 BY <1>10, <2>1
    <2>3. /\ i \in 1..Len(saves) /\ saves'[i] = saves[i] /\ saves[i].kind # kind
      BY <1>8, <1>9, <1>10, <2>1, <2>2
    <2>4. /\ saves[i].kind \in Kinds
          /\ BeforeKept(saves[i], flash[saves[i].kind], ram[saves[i].kind])
      BY <1>1, <2>3, SaveIsRecord DEF BeforeOK
    <2> QED BY <1>2, <1>3, <2>3, <2>4
  <1> QED BY <1>11, <1>12

LEMMA BeforeStep == StoreInv /\ BeforeOK /\ [StoreNext]_storeVars => BeforeOK'
  <1> SUFFICES ASSUME StoreInv, BeforeOK, [StoreNext]_storeVars PROVE BeforeOK'
    OBVIOUS
  <1>1. CASE Put BY <1>1, BeforePut
  <1>2. CASE Restart
    <2>1. Len(saves') = 0 BY <1>2 DEF Restart
    <2> QED BY <2>1 DEF BeforeOK
  <1>3. CASE Physical \/ Web \/ Remote \/ UNCHANGED storeVars
    <2>1. \/ \E kind \in Kinds : \E list : Changes(kind, list)
          \/ UNCHANGED <<ram, flash, saves, revision>>
      BY <1>3, StoreMoves, MovesChange DEF StoreInv
    <2>2. ASSUME UNCHANGED <<ram, flash, saves, revision>> PROVE BeforeOK'
      BY <2>2 DEF BeforeOK, BeforeKept
    <2> QED BY <2>1, <2>2, BeforeChange
  <1> QED BY <1>1, <1>2, <1>3 DEF StoreNext

(* A boot reads new records, then the torn one, then those of before.      *)
Mixed(old, new, p, read) ==
  /\ Len(read) = IF p = 0 THEN Len(old) ELSE Len(new)
  /\ \A j \in 1..Len(read) :
       /\ 2 * j < p => read[j] = new[j]
       /\ p < 2 * j /\ j <= Len(old) => read[j] = old[j]
       /\ 2 * j = p /\ j <= Len(old) =>
            read[j].name = new[j].name /\ read[j].url = old[j].url

LEMMA ReadIsMixed ==
  ASSUME NEW store, NEW old \in Seq(Records), NEW new \in Seq(Records), NEW p \in Nat,
         AsFar(store, new, p), Behind(store, old, p), NEW read \in Seq(Records),
         Len(read) = store.count, \A j \in 1..Len(read) : read[j] = store.slot[j],
         NEW k \in Kinds, store \in Namespace(k)
  PROVE  Mixed(old, new, p, read)
  <1>1. Len(read) = IF p = 0 THEN Len(old) ELSE Len(new) BY DEF AsFar, Behind
  <1>2. PICK m \in Nat, n \in Nat, l \in Nat : m = Len(old) /\ n = Len(new) /\ l = Len(read)
    OBVIOUS
  <1>3. \A j \in 1..n : /\ 2 * j - 1 < p => store.slot[j].name = new[j].name
                        /\ 2 * j < p => store.slot[j].url = new[j].url
    BY <1>2 DEF AsFar
  <1>4. \A j \in 1..m : /\ p < 2 * j => store.slot[j] = old[j]
                        /\ p = 2 * j => store.slot[j].url = old[j].url
    BY <1>2 DEF Behind
  <1>5. \A r, q \in Records : r.name = q.name /\ r.url = q.url => r = q BY DEF Records
  <1>6. ASSUME NEW j \in 1..l, 2 * j < p PROVE read[j] = new[j]
    <2>1. p # 0 /\ l = n BY <1>1, <1>2, <1>6
    <2>2. 2 * j - 1 < p BY <1>6
    <2>3. read[j] \in Records /\ new[j] \in Records BY <1>2, <2>1, ElementOfSeq
    <2>4. read[j].name = new[j].name /\ read[j].url = new[j].url
      BY <1>2, <1>3, <1>6, <2>1, <2>2
    <2> QED BY <1>5, <2>3, <2>4
  <1>7. ASSUME NEW j \in 1..l, p < 2 * j, j <= m PROVE read[j] = old[j]
    BY <1>2, <1>4, <1>7
  <1>8. ASSUME NEW j \in 1..l, 2 * j = p, j <= m
        PROVE  read[j].name = new[j].name /\ read[j].url = old[j].url
    <2>1. p # 0 /\ l = n BY <1>1, <1>2, <1>8
    <2>2. j \in 1..n /\ j \in 1..m /\ 2 * j - 1 < p BY <1>8, <2>1
    <2> QED BY <1>2, <1>3, <1>4, <1>8, <2>2
  <1> QED BY <1>1, <1>2, <1>6, <1>7, <1>8 DEF Mixed

LEMMA AtMostTwo ==
  ASSUME NEW X, NEW a, NEW b, X \subseteq {a, b}
  PROVE  Cardinality(X) <= 2 /\ (X \subseteq {a} => Cardinality(X) <= 1)
  <1>1. PICK S : S = {a} /\ IsFiniteSet(S) /\ Cardinality(S) = 1 BY FS_Singleton
  <1>2. /\ IsFiniteSet(S \union {b})
        /\ Cardinality(S \union {b}) = 1 \/ Cardinality(S \union {b}) = 1 + 1
    <2>1. /\ IsFiniteSet(S \cup {b})
          /\ Cardinality(S \cup {b}) =
               IF b \in S THEN Cardinality(S) ELSE Cardinality(S) + 1
      BY <1>1, FS_AddElement
    <2> QED BY <1>1, <2>1
  <1>3. X \subseteq S \union {b} BY <1>1
  <1>4. Cardinality(X) <= Cardinality(S \union {b}) /\ IsFiniteSet(X)
    BY <1>2, <1>3, FS_Subset
  <1>5. X \subseteq {a} => Cardinality(X) <= 1 BY <1>1, FS_Subset
  <1>6. Cardinality(X) \in Nat BY <1>4, FS_CardinalityType
  <1>7. PICK c \in Nat : c = Cardinality(X) BY <1>6
  <1>8. c <= 2 BY <1>2, <1>4, <1>7
  <1> QED BY <1>5, <1>7, <1>8

LEMMA ForeignIsBounded ==
  ASSUME NEW save \in SaveRecords, NEW new \in Seq(Records), NEW read \in Seq(Records),
         OneChange(save.before, new), Mixed(save.before, new, save.put, read)
  PROVE  \E a, b : /\ Foreign(save, new, read) \subseteq {a, b}
                   /\ ~Torn(save) => Foreign(save, new, read) \subseteq {a}
  <1>1. PICK old \in Seq(Records), p \in Nat : old = save.before /\ p = save.put
    BY DEF SaveRecords
  <1>2. PICK m \in Nat, n \in Nat, l \in Nat : m = Len(old) /\ n = Len(new) /\ l = Len(read)
    OBVIOUS
  <1>3. n <= m + 1 BY <1>1, <1>2 DEF OneChange, Appended, TakenOut, MovedUp
  <1>4. l = (IF p = 0 THEN m ELSE n) BY <1>1, <1>2 DEF Mixed
  <1>5. \A j \in 1..l : /\ 2 * j < p => read[j] = new[j]
                        /\ p < 2 * j /\ j <= m => read[j] = old[j]
    BY <1>1, <1>2 DEF Mixed
  <1>6. ASSUME NEW j \in 1..l, read[j] \in Foreign(save, new, read)
        PROVE  j = m + 1 \/ (2 * j = p /\ p > 0)
    <2>1. j \in 1..n => read[j] # new[j] BY <1>2, <1>6 DEF Foreign, Members
    <2>2. j \in 1..m => read[j] # old[j] BY <1>1, <1>2, <1>6 DEF Foreign, Members
    <2>3. CASE p = 0 BY <1>4, <1>5, <2>2, <2>3
    <2>4. CASE p # 0
      <3>1. j \in 1..n BY <1>4, <2>4
      <3>2. ~ (2 * j < p) BY <1>5, <2>1, <3>1
      <3>3. p < 2 * j => ~ (j <= m) BY <1>5, <2>2
      <3> QED BY <1>3, <2>4, <3>1, <3>2, <3>3
    <2> QED BY <2>3, <2>4
  <1>7. ASSUME NEW j \in 1..l, 2 * j = p, p > 0 PROVE j = p \div 2 /\ Torn(save)
    <2>1. j = p \div 2 /\ p % 2 = 0 BY <1>7
    <2> QED BY <1>1, <1>7, <2>1 DEF Torn
  <1>8. \A x \in Foreign(save, new, read) : \E j \in 1..l : x = read[j]
    BY <1>2 DEF Foreign, Members
  <1>9. ASSUME NEW x \in Foreign(save, new, read)
        PROVE  x = read[m + 1] \/ (Torn(save) /\ x = read[p \div 2])
    <2>1. PICK j \in 1..l : x = read[j] BY <1>8
    <2>2. j = m + 1 \/ (2 * j = p /\ p > 0) BY <1>6, <2>1
    <2> QED BY <1>7, <2>1, <2>2
  <1>10. /\ Foreign(save, new, read) \subseteq {read[m + 1], read[p \div 2]}
         /\ ~Torn(save) => Foreign(save, new, read) \subseteq {read[m + 1]}
    BY <1>9
  <1> WITNESS read[m + 1], read[p \div 2]
  <1> QED BY <1>10

LEMMA SameRecord ==
  \A r, q \in Records : r.name = q.name /\ r.url = q.url => r = q
  BY DEF Records

LEMMA SameHalf ==
  ASSUME NEW p \in Nat, NEW j \in Nat
  PROVE  /\ 2 * j = p => j = p \div 2 /\ p % 2 = 0
         /\ 2 * j - 1 = p => j - 1 = (p - 1) \div 2
         /\ 2 * j = p /\ j > 0 => j - 1 = (p - 1) \div 2
  OBVIOUS

LEMMA LostIsBounded ==
  ASSUME NEW save \in SaveRecords, NEW new \in Seq(Records), NEW read \in Seq(Records),
         OneChange(save.before, new), Mixed(save.before, new, save.put, read)
  PROVE  \E a, b : /\ Lost(save, new, read) \subseteq {a, b}
                   /\ ~Torn(save) => Lost(save, new, read) \subseteq {a}
  <1>1. PICK old \in Seq(Records), p \in Nat : old = save.before /\ p = save.put
    BY DEF SaveRecords
  <1>2. PICK m \in Nat, n \in Nat, l \in Nat : m = Len(old) /\ n = Len(new) /\ l = Len(read)
    OBVIOUS
  <1>3. l = (IF p = 0 THEN m ELSE n) BY <1>1, <1>2 DEF Mixed
  <1>4. \A j \in 1..l : /\ 2 * j < p => read[j] = new[j]
                        /\ p < 2 * j /\ j <= m => read[j] = old[j]
                        /\ 2 * j = p /\ j <= m =>
                             read[j].name = new[j].name /\ read[j].url = old[j].url
    BY <1>1, <1>2 DEF Mixed
  <1>5. \A r, q \in Records : r.name = q.name /\ r.url = q.url => r = q BY SameRecord
  <1>6. PICK lost : lost = Lost(save, new, read) OBVIOUS
  <1>7. ASSUME NEW x \in lost
        PROVE  /\ \E a \in 1..m : x = old[a]
               /\ \E j \in 1..n : x = new[j]
               /\ \A j \in 1..l : x # read[j]
    BY <1>1, <1>2, <1>6 DEF Lost, Members
  <1>8. CASE Appended(old, new)
    <2>1. n = m + 1 /\ \A a \in 1..m : new[a] = old[a] BY <1>2, <1>8 DEF Appended
    <2>2. ASSUME NEW x \in lost PROVE FALSE
      <3>1. PICK a \in 1..m : x = old[a] BY <1>7
      <3>2. a \in 1..l /\ a <= m BY <1>3, <2>1
      <3>3. read[a] # old[a] BY <1>7, <3>1, <3>2
      <3>4. 2 * a = p
        <4>1. ~ (2 * a < p) /\ ~ (p < 2 * a) BY <1>4, <2>1, <3>2, <3>3
        <4> QED BY <4>1
      <3>5. read[a].name = old[a].name /\ read[a].url = old[a].url
        BY <1>4, <2>1, <3>2, <3>4
      <3>6. read[a] \in Records /\ old[a] \in Records BY <1>2, <3>2, ElementOfSeq
      <3> QED BY <1>5, <3>3, <3>5, <3>6
    <2> QED BY <1>6, <2>2
  <1>9. CASE TakenOut(old, new)
    <2>1. PICK i \in 1..m : /\ n = m - 1
                            /\ \A j \in 1..n : new[j] = IF j < i THEN old[j] ELSE old[j + 1]
      BY <1>2, <1>9 DEF TakenOut
    <2>2. ASSUME NEW x \in lost PROVE x = new[n]
      <3>1. PICK j \in 1..n : x = new[j] BY <1>7
      <3>2. j \in 1..l /\ j <= m BY <1>3, <2>1
      <3>3. read[j] # new[j] BY <1>7, <3>1, <3>2
      <3>4. ~ (2 * j < p) BY <1>4, <3>2, <3>3
      <3>5. CASE j < i
        <4>1. new[j] = old[j] BY <2>1, <3>5
        <4>2. 2 * j = p BY <1>4, <3>2, <3>3, <3>4, <4>1
        <4>3. read[j].name = old[j].name /\ read[j].url = old[j].url
          BY <1>4, <3>2, <4>1, <4>2
        <4>4. read[j] \in Records /\ old[j] \in Records BY <1>2, <3>2, ElementOfSeq
        <4> QED BY <1>5, <3>3, <4>1, <4>3, <4>4
      <3>6. CASE ~ (j < i) /\ j + 1 \in 1..l
        <4>1. new[j] = old[j + 1] BY <2>1, <3>6
        <4>2. p < 2 * (j + 1) /\ j + 1 <= m BY <2>1, <3>4
        <4>3. read[j + 1] = old[j + 1] BY <1>4, <3>6, <4>2
        <4> QED BY <1>7, <3>1, <3>6, <4>1, <4>3
      <3>7. CASE ~ (j + 1 \in 1..l)
        <4>1. j = n BY <1>3, <2>1, <3>7
        <4> QED BY <3>1, <4>1
      <3> QED BY <3>5, <3>6, <3>7
    <2>3. lost \subseteq {new[n]} BY <2>2
    <2> QED BY <1>6, <2>3
  <1>10. CASE MovedUp(old, new)
    <2>1. PICK k \in Nat : \A j \in 2..n : \/ j <= k /\ new[j] = old[j - 1]
                                           \/ j > k /\ j <= m /\ new[j] = old[j]
      BY <1>2, <1>10 DEF MovedUp
    <2>2. (n = m \/ n = m + 1) /\ m <= l BY <1>2, <1>3, <1>10 DEF MovedUp
    <2>3. \A j \in 1..m : p < 2 * j => j \in 1..l /\ read[j] = old[j]
      <3>1. \A j \in 1..m : j \in 1..l /\ j <= m BY <2>2
      <3> QED BY <1>4, <3>1
    <2>4. ASSUME NEW x \in lost
          PROVE  x = old[(p - 1) \div 2] \/ (x = old[p \div 2] /\ p > 0 /\ p % 2 = 0)
      <3>1. PICK j \in 1..n : x = new[j] BY <1>7
      <3>2. ~ (2 * j < p)
        <4>1. CASE p = 0 BY <4>1
        <4>2. CASE p # 0 BY <1>3, <1>4, <1>7, <3>1, <4>2
        <4> QED BY <4>1, <4>2
      <3>3. ASSUME NEW a \in 1..m, x = old[a] PROVE 2 * a <= p
        <4>1. ~ (p < 2 * a) BY <1>7, <2>3, <3>3
        <4> QED BY <4>1
      <3>4. CASE j = 1
        <4>1. PICK a \in 1..m : x = old[a] BY <1>7
        <4>2. 2 * a <= p BY <3>3, <4>1
        <4>3. a = 1 /\ p = 2 BY <3>2, <3>4, <4>2
        <4>4. a = p \div 2 /\ p > 0 /\ p % 2 = 0 BY <4>3
        <4> QED BY <4>1, <4>4
      <3>5. CASE j # 1 /\ j <= k /\ new[j] = old[j - 1]
        <4>1. j - 1 \in 1..m /\ j - 1 \in Nat BY <2>2, <3>5
        <4>2. 2 * (j - 1) <= p BY <3>1, <3>3, <3>5, <4>1
        <4>3. p = 2 * (j - 1) \/ p = 2 * j - 1 \/ p = 2 * j BY <3>2, <4>2
        <4>4. p > 0 BY <4>1, <4>2
        <4>5. CASE p = 2 * (j - 1)
          <5>1. j - 1 = p \div 2 /\ p % 2 = 0 BY <4>1, <4>5, SameHalf
          <5> QED BY <3>1, <3>5, <4>4, <5>1
        <4>6. CASE p = 2 * j - 1 \/ p = 2 * j
          <5>1. j - 1 = (p - 1) \div 2 BY <4>6, SameHalf
          <5> QED BY <3>1, <3>5, <5>1
        <4> QED BY <4>3, <4>5, <4>6
      <3>6. CASE j # 1 /\ j > k /\ j <= m /\ new[j] = old[j]
        <4>1. 2 * j <= p BY <3>1, <3>3, <3>6
        <4>2. 2 * j = p /\ p > 0 BY <3>2, <4>1
        <4>3. j = p \div 2 /\ p % 2 = 0 BY <4>2, SameHalf
        <4> QED BY <3>1, <3>6, <4>2, <4>3
      <3>7. j # 1 => j \in 2..n OBVIOUS
      <3> QED BY <2>1, <3>4, <3>5, <3>6, <3>7
    <2>5. p > 0 /\ p % 2 = 0 => Torn(save) BY <1>1 DEF Torn
    <2>6. PICK a, b : a = old[(p - 1) \div 2] /\ b = old[p \div 2] OBVIOUS
    <2>7. lost \subseteq {a, b} /\ (~Torn(save) => lost \subseteq {a})
      BY <2>4, <2>5, <2>6
    <2> QED BY <1>6, <2>7
  <1> QED BY <1>1, <1>8, <1>9, <1>10 DEF OneChange

LEMMA RestartOfSave ==
  ASSUME StoreInv, BeforeOK, NEW i \in 1..Len(saves), NEW k \in Kinds, k = saves[i].kind
  PROVE  LET bound == IF Torn(saves[i]) THEN 2 ELSE 1
         IN /\ Cardinality(Foreign(saves[i], ram[k], Loaded(k))) <= bound
            /\ Cardinality(Lost(saves[i], ram[k], Loaded(k))) <= bound
  <1>1. ListsOK /\ FlashOK /\ SavesOK /\ FlashFollows BY DEF StoreInv
  <1>2. PICK save \in SaveRecords : save = saves[i] BY <1>1, SaveIsRecord
  <1>3. PICK new \in Seq(Records) : new = ram[k] BY <1>1 DEF ListsOK
  <1>4. PICK old \in Seq(Records), p \in Nat : old = save.before /\ p = save.put
    BY <1>2 DEF SaveRecords
  <1>5. PICK read \in Seq(Records) :
          /\ read = Loaded(k) /\ Len(read) = flash[k].count
          /\ \A j \in 1..Len(read) : read[j] = flash[k].slot[j]
    <2>1. /\ Loaded(k) \in Seq(Records) /\ Len(Loaded(k)) = flash[k].count
          /\ \A j \in 1..flash[k].count : Loaded(k)[j] = flash[k].slot[j]
      BY <1>1, LoadedFacts
    <2> QED BY <2>1
  <1>6. PICK store \in Namespace(k) : store = flash[k] BY <1>1 DEF FlashOK
  <1>7. AsFar(store, new, p) BY <1>1, <1>2, <1>3, <1>4, <1>6 DEF FlashFollows
  <1>8. OneChange(old, new) /\ Behind(store, old, p)
    BY <1>2, <1>3, <1>4, <1>6 DEF BeforeOK, BeforeKept
  <1>9. Mixed(old, new, p, read)
    <2>1. Len(read) = store.count /\ \A j \in 1..Len(read) : read[j] = store.slot[j]
      BY <1>5, <1>6
    <2> QED BY <1>4, <1>6, <1>7, <1>8, <2>1, ReadIsMixed
  <1>10. PICK a, b : /\ Foreign(save, new, read) \subseteq {a, b}
                     /\ ~Torn(save) => Foreign(save, new, read) \subseteq {a}
    BY <1>4, <1>8, <1>9, ForeignIsBounded
  <1>11. PICK c, d : /\ Lost(save, new, read) \subseteq {c, d}
                     /\ ~Torn(save) => Lost(save, new, read) \subseteq {c}
    BY <1>4, <1>8, <1>9, LostIsBounded
  <1>12. /\ Cardinality(Foreign(save, new, read)) <= 2
         /\ ~Torn(save) => Cardinality(Foreign(save, new, read)) <= 1
    BY <1>10, AtMostTwo
  <1>13. /\ Cardinality(Lost(save, new, read)) <= 2
         /\ ~Torn(save) => Cardinality(Lost(save, new, read)) <= 1
    BY <1>11, AtMostTwo
  <1> QED BY <1>2, <1>3, <1>5, <1>12, <1>13

(* A restart between any two writes of a save: a list at rest is read back *)
(* as it was; of the list being saved at most one record that was in       *)
(* neither version is found, and at most one is lost that the change left  *)
(* alone - two if the name of a record is written and its URL is not.      *)
THEOREM RestartsDamageLittle == StoreSpec => RestartDamageIsBounded
  <1>1. StoreInit => BeforeOK BY DEF StoreInit, BeforeOK
  <1>2. StoreSpec => [](StoreInv /\ BeforeOK)
    BY <1>1, BeforeStep, StoreInvHolds, PTL DEF StoreSpec
  <1> DEFINE Damage ==
        /\ \A k \in Kinds : ~Saving(k) => ram'[k] = ram[k]
        /\ \A i \in 1..Len(saves) :
             LET k == saves[i].kind
                 bound == IF Torn(saves[i]) THEN 2 ELSE 1
             IN /\ Cardinality(Foreign(saves[i], ram[k], ram'[k])) <= bound
                /\ Cardinality(Lost(saves[i], ram[k], ram'[k])) <= bound
  <1>3. ASSUME StoreInv, BeforeOK, Restart PROVE Damage
    <2>1. SavesOK /\ FlashFollows /\ ListsOK /\ FlashOK BY <1>3 DEF StoreInv
    <2>2. \A k \in Kinds : ram'[k] = Loaded(k) BY <1>3 DEF Restart
    <2>3. ASSUME NEW k \in Kinds, ~Saving(k) PROVE ram'[k] = ram[k]
      BY <2>1, <2>2, <2>3, WrittenIsLoaded DEF FlashFollows
    <2>4. ASSUME NEW i \in 1..Len(saves)
          PROVE  LET k == saves[i].kind
                     bound == IF Torn(saves[i]) THEN 2 ELSE 1
                 IN /\ Cardinality(Foreign(saves[i], ram[k], ram'[k])) <= bound
                    /\ Cardinality(Lost(saves[i], ram[k], ram'[k])) <= bound
      <3>1. saves[i].kind \in Kinds BY <2>1, SaveIsRecord
      <3>2. ram'[saves[i].kind] = Loaded(saves[i].kind) BY <2>2, <3>1
      <3> QED BY <1>3, <3>1, <3>2, RestartOfSave
    <2> QED BY <2>3, <2>4
  <1>4. StoreInv /\ BeforeOK => [Restart => Damage]_storeVars
    <2> HIDE DEF Damage
    <2> QED BY <1>3
  <1>5. StoreSpec => [][Restart => Damage]_storeVars BY <1>2, <1>4, PTL
  <1> QED BY <1>5 DEF RestartDamageIsBounded
-----------------------------------------------------------------------------
(* Recent, against the history of plays.                                   *)
UrlSet == Stations \union {Blank}

Heard(s) == {s[i] : i \in 1..Len(s)}

LastIn(s, u) == CHOOSE i \in 1..Len(s) : s[i] = u /\ \A j \in (i + 1)..Len(s) : s[j] # u

LEMMA LastInFacts ==
  ASSUME NEW s \in Seq(UrlSet), NEW u \in Heard(s)
  PROVE  /\ LastIn(s, u) \in 1..Len(s) /\ s[LastIn(s, u)] = u
         /\ \A j \in (LastIn(s, u) + 1)..Len(s) : s[j] # u
  <1>1. PICK n \in Nat : n = Len(s) OBVIOUS
  <1> DEFINE P == {(n + 1) - i : i \in {i \in 1..n : s[i] = u}}
  <1>2. P \in SUBSET (1..n)
    <2>1. \A i \in 1..n : (n + 1) - i \in 1..n BY <1>1
    <2> QED BY <2>1
  <1>3. P # {} BY <1>1 DEF Heard
  <1>4. PICK p \in P : \A q \in P : p <= q
    <2> HIDE DEF P
    <2> QED BY <1>1, <1>2, <1>3, LeastIndex
  <1>5. PICK i \in 1..n : s[i] = u /\ p = (n + 1) - i OBVIOUS
  <1>6. \A j \in 1..n : s[j] = u => (n + 1) - j \in P OBVIOUS
  <1>7. ASSUME NEW j \in (i + 1)..n, s[j] = u PROVE FALSE
    <2>1. j \in 1..n /\ j > i BY <1>1, <1>7
    <2>2. p <= (n + 1) - j BY <1>4, <1>6, <1>7, <2>1
    <2> QED BY <1>1, <1>5, <2>1, <2>2
  <1>8. i \in 1..Len(s) /\ s[i] = u /\ \A j \in (i + 1)..Len(s) : s[j] # u
    BY <1>1, <1>5, <1>7
  <1> QED BY <1>8 DEF LastIn

IsLastIn(s, u, i) ==
  i \in 1..Len(s) /\ s[i] = u /\ \A j \in (i + 1)..Len(s) : s[j] # u

LEMMA LastInIsLast ==
  ASSUME NEW s \in Seq(UrlSet)
  PROVE  \A u \in Heard(s) : IsLastIn(s, u, LastIn(s, u))
  BY LastInFacts DEF IsLastIn

(* One more play, of u.                                                    *)
PlaysOn(s, u, t, k) ==
  /\ t \in Seq(UrlSet) /\ Heard(t) = Heard(s) \union {u}
  /\ LastIn(t, u) = k + 1
  /\ \A v \in Heard(s) : v # u => LastIn(t, v) = LastIn(s, v)
  /\ \A v \in Heard(s) : LastIn(s, v) \in Nat /\ LastIn(s, v) < k + 1

LEMMA LastInAppend ==
  ASSUME NEW s \in Seq(UrlSet), NEW u \in UrlSet, NEW t, t = Append(s, u)
  PROVE  PlaysOn(s, u, t, Len(s))
  <1>1. PICK n \in Nat : n = Len(s) OBVIOUS
  <1>2. /\ t \in Seq(UrlSet) /\ Len(t) = n + 1 /\ t[n + 1] = u
        /\ \A j \in 1..n : t[j] = s[j]
    BY <1>1, AppendProperties
  <1>3. \A v \in Heard(t) : IsLastIn(t, v, LastIn(t, v)) BY <1>2, LastInIsLast
  <1>4. Heard(t) = Heard(s) \union {u}
    <2>1. \A j \in 1..(n + 1) : j \in 1..n \/ j = n + 1 OBVIOUS
    <2>2. \A j \in 1..n : j \in 1..(n + 1) OBVIOUS
    <2>3. n + 1 \in 1..(n + 1) OBVIOUS
    <2> QED BY <1>1, <1>2, <2>1, <2>2, <2>3 DEF Heard
  <1>5. LastIn(t, u) = n + 1
    <2>1. u \in Heard(t) BY <1>4
    <2>2. IsLastIn(t, u, LastIn(t, u)) BY <1>3, <2>1
    <2>3. PICK i \in 1..(n + 1) : i = LastIn(t, u) /\ \A j \in (i + 1)..(n + 1) : t[j] # u
      BY <1>2, <2>2 DEF IsLastIn
    <2>4. ~ (n + 1 \in (i + 1)..(n + 1)) BY <1>2, <2>3
    <2>5. i = n + 1 BY <2>4
    <2> QED BY <2>3, <2>5
  <1>6. ASSUME NEW v \in Heard(s)
        PROVE  LastIn(s, v) \in 1..n /\ (v # u => LastIn(t, v) = LastIn(s, v))
    <2>1. PICK i \in 1..n : /\ i = LastIn(s, v) /\ s[i] = v
                            /\ \A j \in (i + 1)..n : s[j] # v
      BY <1>1, LastInFacts
    <2>2. v \in Heard(t) BY <1>4
    <2>3. IsLastIn(t, v, LastIn(t, v)) BY <1>3, <2>2
    <2>4. PICK k \in 1..(n + 1) : /\ k = LastIn(t, v) /\ t[k] = v
                                  /\ \A j \in (k + 1)..(n + 1) : t[j] # v
      BY <1>2, <2>3 DEF IsLastIn
    <2>5. CASE v # u
      <3>1. k # n + 1 BY <1>2, <2>4, <2>5
      <3>2. k \in 1..n /\ s[k] = v BY <1>2, <2>4, <3>1
      <3>3. ~ (k \in (i + 1)..n) BY <2>1, <3>2
      <3>4. t[i] = v BY <1>2, <2>1
      <3>5. ~ (i \in (k + 1)..(n + 1)) BY <2>4, <3>4
      <3>6. i = k BY <3>2, <3>3, <3>5
      <3> QED BY <2>1, <2>4, <3>6
    <2> QED BY <2>1, <2>5
  <1>7. \A v \in Heard(s) : LastIn(s, v) \in Nat /\ LastIn(s, v) < n + 1 BY <1>6
  <1> QED BY <1>1, <1>2, <1>4, <1>5, <1>6, <1>7 DEF PlaysOn

(* What is left of a list when a URL is taken out of it, in the same order. *)
KeptBy(f, list, n, rest, q, url) ==
  /\ f \in [1..q -> 1..n]
  /\ \A j \in 1..q : rest[j] = list[f[j]] /\ list[f[j]].url # url
  /\ \A i, j \in 1..q : i < j => f[i] < f[j]
  /\ \A i \in 1..n : list[i].url # url => \E j \in 1..q : f[j] = i

Keeps(list, rest, url) == \E f : KeptBy(f, list, Len(list), rest, Len(rest), url)

Distinct(list) == \A i, j \in 1..Len(list) : list[i].url = list[j].url => i = j

LEMMA WithoutUrlKeeps ==
  ASSUME NEW list \in Seq(Records), Distinct(list), NEW url, NEW rest,
         rest = WithoutUrl(list, url)
  PROVE  /\ rest \in Seq(Records) /\ Keeps(list, rest, url)
         /\ Len(rest) = Len(list) \/ Len(rest) = Len(list) - 1
  <1>1. PICK n \in Nat : n = Len(list) OBVIOUS
  <1>2. rest \in Seq(Records) BY WithoutUrlFacts
  <1>3. CASE url \notin Urls(list)
    <2>1. rest = list BY <1>3, WithoutUrlFacts
    <2>2. \A j \in 1..n : list[j].url # url BY <1>1, <1>3 DEF Urls
    <2>3. PICK f : f = [j \in 1..n |-> j] OBVIOUS
    <2>4. f \in [1..n -> 1..n] /\ \A j \in 1..n : f[j] = j BY <2>3
    <2>5. KeptBy(f, list, n, rest, n, url) BY <2>1, <2>2, <2>4 DEF KeptBy
    <2> QED BY <1>1, <1>2, <2>1, <2>5 DEF Keeps
  <1>4. CASE url \in Urls(list)
    <2>1. PICK m \in 1..n : rest = RemoveIndex(list, m) /\ list[m].url = url
      BY <1>1, <1>4, WithoutUrlFacts, FirstWithFacts
    <2>2. /\ Len(rest) = n - 1
          /\ \A j \in 1..(n - 1) : rest[j] = IF j < m THEN list[j] ELSE list[j + 1]
      BY <1>1, <2>1, RemoveIndexFacts
    <2>3. PICK f : f = [j \in 1..(n - 1) |-> IF j < m THEN j ELSE j + 1] OBVIOUS
    <2>4. /\ f \in [1..(n - 1) -> 1..n]
          /\ \A j \in 1..(n - 1) : f[j] = IF j < m THEN j ELSE j + 1
      BY <1>1, <2>3
    <2>5. ASSUME NEW j \in 1..(n - 1) PROVE rest[j] = list[f[j]] /\ f[j] # m
      <3>1. CASE j < m BY <2>2, <2>4, <3>1
      <3>2. CASE ~ (j < m) BY <2>2, <2>4, <3>2
      <3> QED BY <3>1, <3>2
    <2>6. \A j \in 1..(n - 1) : list[f[j]].url # url
      BY <1>1, <2>1, <2>4, <2>5 DEF Distinct
    <2>7. \A i, j \in 1..(n - 1) : i < j => f[i] < f[j] BY <1>1, <2>4
    <2>8. ASSUME NEW i \in 1..n, list[i].url # url
          PROVE  \E j \in 1..(n - 1) : f[j] = i
      <3>1. CASE i < m
        <4>1. i \in 1..(n - 1) /\ f[i] = i BY <1>1, <2>4, <3>1
        <4> QED BY <4>1
      <3>2. CASE i > m
        <4>1. i - 1 \in 1..(n - 1) /\ f[i - 1] = i BY <1>1, <2>4, <3>2
        <4> QED BY <4>1
      <3>3. i # m BY <2>1, <2>8
      <3> QED BY <3>1, <3>2, <3>3
    <2>9. KeptBy(f, list, n, rest, n - 1, url)
      BY <2>4, <2>5, <2>6, <2>7, <2>8 DEF KeptBy
    <2> QED BY <1>1, <1>2, <2>2, <2>9 DEF Keeps
  <1> QED BY <1>3, <1>4

(* A list holds what was heard last, in the order it was heard.            *)
Latest(list, s) ==
  /\ \A i \in 1..Len(list) : list[i].url \in Heard(s)
  /\ \A i, j \in 1..Len(list) :
       i < j => LastIn(s, list[j].url) < LastIn(s, list[i].url)
  /\ \A u \in Heard(s) \ Urls(list) :
       /\ Len(list) = Capacity["recent"]
       /\ \A i \in 1..Len(list) : LastIn(s, u) < LastIn(s, list[i].url)

LEMMA LatestIsDistinct ==
  ASSUME NEW list \in Seq(Records), NEW s \in Seq(UrlSet), Latest(list, s)
  PROVE  Distinct(list)
  <1> SUFFICES ASSUME NEW i \in 1..Len(list), NEW j \in 1..Len(list),
                      list[i].url = list[j].url, i < j
               PROVE  FALSE
    BY DEF Distinct
  <1>1. list[i].url \in Heard(s) BY DEF Latest
  <1>2. LastIn(s, list[i].url) \in 1..Len(s) BY <1>1, LastInFacts
  <1>3. LastIn(s, list[j].url) < LastIn(s, list[i].url) BY DEF Latest
  <1> QED BY <1>2, <1>3

LEMMA PlayKeepsLatest ==
  ASSUME NEW list \in Seq(Records), Len(list) <= Capacity["recent"],
         NEW s \in Seq(UrlSet), NEW record \in Records, Latest(list, s),
         NEW new, new = AddedToRecent(list, record),
         NEW t, t = Append(s, record.url)
  PROVE  Latest(new, t)
  <1>1. PICK u \in UrlSet : u = record.url BY DEF Records, UrlSet
  <1>2. PICK c \in Nat : c = Capacity["recent"] /\ c > 0 BY DEF Kinds
  <1>3. PICK n \in Nat : n = Len(list) /\ n <= c BY <1>2
  <1>4. Distinct(list) BY LatestIsDistinct
  <1>5. PICK rest \in Seq(Records) :
          /\ rest = WithoutUrl(list, u) /\ Keeps(list, rest, u)
          /\ Len(rest) = n \/ Len(rest) = n - 1
    BY <1>3, <1>4, WithoutUrlKeeps
  <1>6. PICK q \in Nat : q = Len(rest) /\ (q = n \/ q = n - 1) BY <1>5
  <1>7. PICK f \in [1..q -> 1..n] :
          /\ \A j \in 1..q : rest[j] = list[f[j]] /\ list[f[j]].url # u
          /\ \A i, j \in 1..q : i < j => f[i] < f[j]
          /\ \A i \in 1..n : list[i].url # u => \E j \in 1..q : f[j] = i
    <2>1. PICK f : KeptBy(f, list, n, rest, q, u) BY <1>3, <1>5, <1>6 DEF Keeps
    <2> QED BY <2>1 DEF KeptBy
  <1>8. <<record>> \in Seq(Records) /\ Len(<<record>>) = 1 /\ <<record>>[1] = record
    OBVIOUS
  <1>9. PICK whole \in Seq(Records) :
          /\ whole = <<record>> \o rest /\ Len(whole) = 1 + q
          /\ \A j \in 1..(1 + q) : whole[j] = IF j <= 1 THEN <<record>>[j] ELSE rest[j - 1]
    <2>1. /\ <<record>> \o rest \in Seq(Records)
          /\ Len(<<record>> \o rest) = 1 + Len(rest)
          /\ \A j \in 1..(1 + Len(rest)) :
               (<<record>> \o rest)[j] = IF j <= 1 THEN <<record>>[j] ELSE rest[j - 1]
      BY <1>8, ConcatProperties
    <2> QED BY <1>6, <2>1
  <1>10. new = First(whole, c) BY <1>1, <1>2, <1>5, <1>9 DEF AddedToRecent
  <1>11. /\ new \in Seq(Records) /\ Len(new) = IF Len(whole) < c THEN Len(whole) ELSE c
         /\ \A j \in 1..Len(new) : new[j] = whole[j]
    BY <1>10, FirstFacts
  <1>12. PICK l \in Nat : l = Len(new) BY <1>11
  <1>13. l = (IF 1 + q < c THEN 1 + q ELSE c) /\ l > 0 /\ 1 \in 1..l /\ l <= 1 + q
    <2>1. Len(whole) = 1 + q BY <1>9
    <2>2. Len(new) = IF Len(whole) < c THEN Len(whole) ELSE c BY <1>11
    <2>3. l = IF 1 + q < c THEN 1 + q ELSE c BY <1>12, <2>1, <2>2
    <2> QED BY <1>2, <2>3
  <1>14. \A j \in 1..l : new[j] = whole[j] BY <1>11, <1>12
  <1>15. new[1].url = u
    <2>1. new[1] = whole[1] BY <1>13, <1>14
    <2>2. whole[1] = record BY <1>8, <1>9
    <2> QED BY <1>1, <2>1, <2>2
  <1>16. ASSUME NEW j \in 1..l, j # 1
         PROVE  /\ j - 1 \in 1..q /\ f[j - 1] \in 1..n
                /\ new[j] = list[f[j - 1]] /\ new[j].url # u
    <2>1. j - 1 \in 1..q /\ j \in 1..(1 + q) /\ ~ (j <= 1) BY <1>13, <1>16
    <2>2. new[j] = whole[j] BY <1>14
    <2>3. whole[j] = rest[j - 1] BY <1>9, <2>1
    <2>4. f[j - 1] \in 1..n BY <1>7, <2>1
    <2>5. rest[j - 1] = list[f[j - 1]] /\ list[f[j - 1]].url # u BY <1>7, <2>1
    <2> QED BY <2>1, <2>2, <2>3, <2>4, <2>5
  <1>17. PICK k \in Nat : k = Len(s) OBVIOUS
  <1>18. /\ t \in Seq(UrlSet) /\ Heard(t) = Heard(s) \union {u}
         /\ LastIn(t, u) = k + 1
         /\ \A v \in Heard(s) : v # u => LastIn(t, v) = LastIn(s, v)
         /\ \A v \in Heard(s) : LastIn(s, v) \in Nat /\ LastIn(s, v) < k + 1
    <2>1. u \in UrlSet /\ t = Append(s, u) BY <1>1
    <2>2. PlaysOn(s, u, t, Len(s)) BY <1>1, <2>1, LastInAppend
    <2> QED BY <1>17, <2>2 DEF PlaysOn
  <1>19. /\ \A i \in 1..n : list[i].url \in Heard(s)
         /\ \A i, j \in 1..n : i < j => LastIn(s, list[j].url) < LastIn(s, list[i].url)
         /\ \A v \in Heard(s) \ Urls(list) :
              n = c /\ \A i \in 1..n : LastIn(s, v) < LastIn(s, list[i].url)
    BY <1>2, <1>3 DEF Latest
  <1>20. ASSUME NEW j \in 1..l, j # 1
         PROVE  /\ new[j].url \in Heard(s)
                /\ LastIn(t, new[j].url) = LastIn(s, list[f[j - 1]].url)
                /\ LastIn(t, new[j].url) < LastIn(t, new[1].url)
    BY <1>15, <1>16, <1>18, <1>19, <1>20
  <1>21. \A i \in 1..l : new[i].url \in Heard(t) BY <1>15, <1>18, <1>20
  <1>22. ASSUME NEW i \in 1..l, NEW j \in 1..l, i < j
         PROVE  LastIn(t, new[j].url) < LastIn(t, new[i].url)
    <2>1. j # 1 BY <1>22
    <2>2. CASE i = 1 BY <1>20, <2>1, <2>2
    <2>3. CASE i # 1
      <3>1. i - 1 < j - 1 BY <1>22
      <3>2. f[i - 1] < f[j - 1] BY <1>7, <1>16, <2>1, <2>3, <3>1
      <3>3. LastIn(s, list[f[j - 1]].url) < LastIn(s, list[f[i - 1]].url)
        BY <1>16, <1>19, <2>1, <2>3, <3>2
      <3> QED BY <1>20, <2>1, <2>3, <3>3
    <2> QED BY <2>2, <2>3
  <1>23. ASSUME NEW v \in Heard(t) \ Urls(new)
         PROVE  l = c /\ \A i \in 1..l : LastIn(t, v) < LastIn(t, new[i].url)
    <2>1. \A i \in 1..l : new[i].url # v BY <1>12 DEF Urls
    <2>2. v # u BY <1>13, <1>15, <2>1
    <2>3. /\ v \in Heard(s) /\ LastIn(t, v) = LastIn(s, v)
          /\ LastIn(t, v) < LastIn(t, new[1].url)
      BY <1>15, <1>18, <2>2
    <2>4. CASE v \notin Urls(list)
      <3>1. n = c /\ \A i \in 1..n : LastIn(s, v) < LastIn(s, list[i].url)
        BY <1>19, <2>3, <2>4
      <3>2. l = c BY <1>6, <1>13, <3>1
      <3>3. ASSUME NEW i \in 1..l, i # 1 PROVE LastIn(t, v) < LastIn(t, new[i].url)
        BY <1>16, <1>20, <2>3, <3>1, <3>3
      <3> QED BY <2>3, <3>2, <3>3
    <2>5. CASE v \in Urls(list)
      <3>1. PICK m \in 1..n : list[m].url = v BY <1>3, <2>5 DEF Urls
      <3>2. PICK j \in 1..q : f[j] = m BY <1>7, <2>2, <3>1
      <3>3. ~ (j + 1 \in 1..l)
        <4>1. SUFFICES ASSUME j + 1 \in 1..l PROVE FALSE
          OBVIOUS
        <4>2. j + 1 # 1 /\ (j + 1) - 1 = j OBVIOUS
        <4>3. new[j + 1] = list[m] BY <1>16, <3>2, <4>1, <4>2
        <4> QED BY <2>1, <3>1, <4>1, <4>3
      <3>4. l < j + 1 BY <3>3
      <3>5. l = c BY <1>13, <3>4
      <3>6. ASSUME NEW i \in 1..l, i # 1 PROVE LastIn(t, v) < LastIn(t, new[i].url)
        <4>1. i - 1 < j BY <3>4
        <4>2. f[i - 1] < m BY <1>7, <1>16, <3>2, <3>6, <4>1
        <4>3. LastIn(s, v) < LastIn(s, list[f[i - 1]].url)
          BY <1>16, <1>19, <3>1, <3>6, <4>2
        <4> QED BY <1>20, <2>3, <3>6, <4>3
      <3> QED BY <2>3, <3>5, <3>6
    <2> QED BY <2>4, <2>5
  <1> QED BY <1>2, <1>12, <1>21, <1>22, <1>23 DEF Latest

HistoryOK ==
  /\ crashes \in Nat /\ plays \in Seq(UrlSet)
  /\ crashes = 0 => Latest(ram["recent"], plays) /\ Distinct(ram["favorites"])

LEMMA AppendedIsDistinct ==
  ASSUME NEW list \in Seq(Records), Distinct(list), NEW record \in Records,
         record.url \notin Urls(list), NEW new, new = Append(list, record)
  PROVE  Distinct(new)
  <1>1. PICK n \in Nat : n = Len(list) OBVIOUS
  <1>2. Len(new) = n + 1 /\ new[n + 1] = record /\ \A j \in 1..n : new[j] = list[j]
    BY <1>1, AppendProperties
  <1>3. \A j \in 1..n : list[j].url # record.url BY <1>1 DEF Urls
  <1>4. \A j \in 1..(n + 1) : j \in 1..n \/ j = n + 1 OBVIOUS
  <1>5. \A i, j \in 1..n : list[i].url = list[j].url => i = j BY <1>1 DEF Distinct
  <1> QED BY <1>2, <1>3, <1>4, <1>5 DEF Distinct

LEMMA ShorterIsDistinct ==
  ASSUME NEW list \in Seq(Records), Distinct(list), NEW i \in 1..Len(list),
         NEW new, new = RemoveIndex(list, i)
  PROVE  Distinct(new)
  <1>1. PICK n \in Nat : n = Len(list) OBVIOUS
  <1>2. /\ Len(new) = n - 1
        /\ \A j \in 1..(n - 1) : new[j] = IF j < i THEN list[j] ELSE list[j + 1]
    BY <1>1, RemoveIndexFacts
  <1>3. \A j, k \in 1..n : list[j].url = list[k].url => j = k BY <1>1 DEF Distinct
  <1>4. ASSUME NEW j \in 1..(n - 1), NEW k \in 1..(n - 1), new[j].url = new[k].url
        PROVE  j = k
    <2>1. PICK a \in 1..n : new[j] = list[a] /\ a = (IF j < i THEN j ELSE j + 1)
      <3>1. CASE j < i BY <1>2, <3>1
      <3>2. CASE ~ (j < i) BY <1>2, <3>2
      <3> QED BY <3>1, <3>2
    <2>2. PICK b \in 1..n : new[k] = list[b] /\ b = (IF k < i THEN k ELSE k + 1)
      <3>1. CASE k < i BY <1>2, <3>1
      <3>2. CASE ~ (k < i) BY <1>2, <3>2
      <3> QED BY <3>1, <3>2
    <2>3. a = b BY <1>3, <1>4, <2>1, <2>2
    <2> QED BY <1>1, <2>1, <2>2, <2>3
  <1> QED BY <1>2, <1>4 DEF Distinct

LEMMA HistoryMoves ==
  ASSUME ListsOK, HistoryOK, Moves, crashes' = crashes
  PROVE  HistoryOK'
  <1>1. /\ ram["recent"] \in Seq(Records) /\ ram["favorites"] \in Seq(Records)
        /\ Len(ram["recent"]) <= Capacity["recent"] /\ plays \in Seq(UrlSet)
    BY DEF ListsOK, HistoryOK, Kinds
  <1>2. ASSUME NEW kind \in Kinds, NEW list, Change(kind, list)
        PROVE  ram'[kind] = list /\ \A k \in Kinds : k # kind => ram'[k] = ram[k]
    BY <1>2 DEF Change, ListsOK
  <1>3. ASSUME NEW record \in Records, Plays(record) PROVE HistoryOK'
    <2>1. /\ ram'["recent"] = AddedToRecent(ram["recent"], record)
          /\ ram'["favorites"] = ram["favorites"]
          /\ plays' = Append(plays, record.url)
      BY <1>2, <1>3 DEF Plays, Kinds
    <2>2. record.url \in UrlSet BY DEF Records, UrlSet
    <2>3. plays' \in Seq(UrlSet) BY <1>1, <2>1, <2>2, AppendProperties
    <2>4. crashes = 0 => Latest(ram'["recent"], plays')
      BY <1>1, <2>1, PlayKeepsLatest DEF HistoryOK
    <2> QED BY <2>1, <2>3, <2>4 DEF HistoryOK
  <1>4. ASSUME NEW kind \in Edited, NEW record \in Records, Adds(kind, record)
        PROVE  HistoryOK'
    <2>1. /\ kind \in Kinds /\ plays' = plays /\ ram'["recent"] = ram["recent"]
          /\ ram'[kind] = Append(ram[kind], record)
          /\ kind # "favorites" => ram'["favorites"] = ram["favorites"]
      BY <1>2, <1>4 DEF Adds, Edited, Kinds
    <2>2. kind = "favorites" => record.url \notin Urls(ram["favorites"])
      BY <1>4 DEF Adds, IsFavorite
    <2>3. Distinct(ram["favorites"]) => Distinct(ram'["favorites"])
      BY <1>1, <2>1, <2>2, AppendedIsDistinct
    <2> QED BY <2>1, <2>3 DEF HistoryOK
  <1>5. ASSUME NEW kind \in Edited, NEW i \in 1..Len(ram[kind]), Removes(kind, i)
        PROVE  HistoryOK'
    <2>1. /\ kind \in Kinds /\ plays' = plays /\ ram'["recent"] = ram["recent"]
          /\ ram'[kind] = RemoveIndex(ram[kind], i)
          /\ kind # "favorites" => ram'["favorites"] = ram["favorites"]
      BY <1>2, <1>5 DEF Removes, Edited, Kinds
    <2>2. Distinct(ram["favorites"]) => Distinct(ram'["favorites"])
      BY <1>1, <2>1, ShorterIsDistinct
    <2> QED BY <2>1, <2>2 DEF HistoryOK
  <1>6. CASE UNCHANGED <<ram, flash, saves, revision, plays>> BY <1>6 DEF HistoryOK
  <1> QED BY <1>3, <1>4, <1>5, <1>6 DEF Moves

LEMMA HistoryStep == StoreInv /\ HistoryOK /\ [StoreNext]_storeVars => HistoryOK'
  <1> SUFFICES ASSUME StoreInv, HistoryOK, [StoreNext]_storeVars PROVE HistoryOK'
    OBVIOUS
  <1>1. CASE Put BY <1>1 DEF Put, HistoryOK
  <1>2. CASE Restart
    <2>1. crashes' = crashes + 1 /\ plays' = <<>> BY <1>2 DEF Restart
    <2> QED BY <2>1 DEF HistoryOK
  <1>3. CASE Physical \/ Web \/ Remote \/ UNCHANGED storeVars
    BY <1>3, StoreMoves, HistoryMoves DEF StoreInv
  <1> QED BY <1>1, <1>2, <1>3 DEF StoreNext

LEMMA DistinctUrlsAreCounted ==
  ASSUME NEW list \in Seq(Records), Distinct(list), NEW n \in Nat, n <= Len(list)
  PROVE  /\ IsFiniteSet({list[i].url : i \in 1..n})
         /\ Cardinality({list[i].url : i \in 1..n}) = n
  <1>1. PICK T : T = {list[i].url : i \in 1..n} OBVIOUS
  <1>2. PICK f : f = [i \in 1..n |-> list[i].url] OBVIOUS
  <1>3. \A i \in 1..n : i \in 1..Len(list) OBVIOUS
  <1>4. f \in [1..n -> T] BY <1>1, <1>2
  <1>5. \A i, j \in 1..n : f[i] = f[j] => i = j BY <1>2, <1>3 DEF Distinct
  <1>6. \A u \in T : \E i \in 1..n : f[i] = u BY <1>1, <1>2
  <1>7. f \in Bijection(1..n, T)
    BY <1>4, <1>5, <1>6 DEF Bijection, Injection, Surjection, IsInjective
  <1>8. ExistsBijection(1..n, T) BY <1>7 DEF ExistsBijection
  <1>9. 1 \in Int /\ n \in Int OBVIOUS
  <1>10. IsFiniteSet(1..n) /\ Cardinality(1..n) = IF 1 > n THEN 0 ELSE n - 1 + 1
    BY <1>9, FS_Interval
  <1>11. Cardinality(1..n) = n BY <1>10
  <1>12. IsFiniteSet(T) /\ Cardinality(T) = Cardinality(1..n)
    BY <1>8, <1>10, FS_Bijection
  <1> QED BY <1>1, <1>11, <1>12

LEMMA HeardIsFinite == ASSUME NEW s \in Seq(UrlSet) PROVE IsFiniteSet(Heard(s))
  <1>1. PICK n \in Nat : n = Len(s) OBVIOUS
  <1>2. PICK f : f = [i \in 1..n |-> s[i]] OBVIOUS
  <1>3. f \in Surjection(1..n, Heard(s)) BY <1>1, <1>2 DEF Surjection, Heard
  <1>4. 1 \in Int /\ n \in Int OBVIOUS
  <1>5. IsFiniteSet(1..n) BY <1>4, FS_Interval
  <1> QED BY <1>3, <1>5, FS_Surjection

(* The rank of a URL by its last play, over any history.                   *)
After(s, u) == {v \in Heard(s) : LastIn(s, v) > LastIn(s, u)}

LEMMA RankOfListed ==
  ASSUME NEW list \in Seq(Records), NEW s \in Seq(UrlSet), Latest(list, s),
         NEW i \in 1..Len(list)
  PROVE  1 + Cardinality(After(s, list[i].url)) = i
  <1>1. PICK n \in Nat : n = Len(list) OBVIOUS
  <1>2. /\ \A j \in 1..n : list[j].url \in Heard(s)
        /\ \A j, k \in 1..n : j < k => LastIn(s, list[k].url) < LastIn(s, list[j].url)
        /\ \A v \in Heard(s) \ Urls(list) : LastIn(s, v) < LastIn(s, list[i].url)
    BY <1>1 DEF Latest
  <1>3. \A v \in Heard(s) : LastIn(s, v) \in Nat
    <2>1. \A v \in Heard(s) : LastIn(s, v) \in 1..Len(s) BY LastInFacts
    <2> QED BY <2>1
  <1>4. PICK T : T = {list[j].url : j \in 1..(i - 1)} OBVIOUS
  <1>5. T \subseteq After(s, list[i].url)
    <2>1. ASSUME NEW j \in 1..(i - 1) PROVE list[j].url \in After(s, list[i].url)
      <3>1. j \in 1..n /\ i \in 1..n /\ j < i BY <1>1
      <3>2. /\ list[j].url \in Heard(s) /\ list[i].url \in Heard(s)
            /\ LastIn(s, list[i].url) < LastIn(s, list[j].url)
        BY <1>2, <3>1
      <3>3. LastIn(s, list[j].url) > LastIn(s, list[i].url) BY <1>3, <3>2
      <3> QED BY <3>2, <3>3 DEF After
    <2> QED BY <1>4, <2>1
  <1>6. After(s, list[i].url) \subseteq T
    <2>1. ASSUME NEW v \in After(s, list[i].url) PROVE v \in T
      <3>1. v \in Heard(s) /\ LastIn(s, v) > LastIn(s, list[i].url) BY DEF After
      <3>2. i \in 1..n /\ list[i].url \in Heard(s) BY <1>1, <1>2
      <3>3. LastIn(s, v) \in Nat /\ LastIn(s, list[i].url) \in Nat BY <1>3, <3>1, <3>2
      <3>4. ~ (LastIn(s, v) < LastIn(s, list[i].url)) BY <3>1, <3>3
      <3>5. v \in Urls(list) BY <1>2, <3>1, <3>4
      <3>6. PICK j \in 1..n : v = list[j].url BY <1>1, <3>5 DEF Urls
      <3>7. ~ (i < j) BY <1>2, <3>2, <3>4, <3>6
      <3>8. i # j BY <3>1, <3>3, <3>6
      <3>9. j \in 1..(i - 1) BY <3>7, <3>8
      <3> QED BY <1>4, <3>6, <3>9
    <2> QED BY <2>1
  <1>7. After(s, list[i].url) = T BY <1>5, <1>6
  <1>8. Distinct(list) BY LatestIsDistinct
  <1>9. i - 1 \in Nat /\ i - 1 <= Len(list) OBVIOUS
  <1>10. Cardinality(T) = i - 1 BY <1>4, <1>8, <1>9, DistinctUrlsAreCounted
  <1> QED BY <1>7, <1>10

LEMMA RankOfOthers ==
  ASSUME NEW list \in Seq(Records), NEW s \in Seq(UrlSet), Latest(list, s),
         NEW u \in Heard(s) \ Urls(list)
  PROVE  ~ (1 + Cardinality(After(s, u)) <= Capacity["recent"])
  <1>1. PICK n \in Nat : n = Len(list) OBVIOUS
  <1>2. /\ n = Capacity["recent"]
        /\ \A i \in 1..n : list[i].url \in Heard(s) /\ LastIn(s, u) < LastIn(s, list[i].url)
    BY <1>1 DEF Latest
  <1>3. \A v \in Heard(s) : LastIn(s, v) \in Nat
    <2>1. \A v \in Heard(s) : LastIn(s, v) \in 1..Len(s) BY LastInFacts
    <2> QED BY <2>1
  <1>4. PICK T : T = {list[j].url : j \in 1..n} OBVIOUS
  <1>5. T \subseteq After(s, u)
    <2>1. ASSUME NEW i \in 1..n PROVE list[i].url \in After(s, u)
      <3>1. LastIn(s, list[i].url) > LastIn(s, u) BY <1>2, <1>3
      <3> QED BY <1>2, <3>1 DEF After
    <2> QED BY <1>4, <2>1
  <1>6. After(s, u) \subseteq Heard(s) BY DEF After
  <1>7. PICK A : A = After(s, u) OBVIOUS
  <1>8. IsFiniteSet(A) BY <1>6, <1>7, HeardIsFinite, FS_Subset
  <1>9. Distinct(list) BY LatestIsDistinct
  <1>10. Cardinality(T) = n
    <2>1. n \in Nat /\ n <= Len(list) BY <1>1
    <2> QED BY <1>4, <1>9, <2>1, DistinctUrlsAreCounted
  <1>11. n <= Cardinality(A) BY <1>5, <1>7, <1>8, <1>10, FS_Subset
  <1>12. Cardinality(A) \in Nat BY <1>8, FS_CardinalityType
  <1>13. ~ (1 + Cardinality(A) <= n) BY <1>11, <1>12
  <1> QED BY <1>2, <1>7, <1>13

(* Without a restart addToRecent keeps the most recently played stations,  *)
(* each once, the last one first; and no URL is twice in Favorites,        *)
(* whoever adds or removes favorites, also while Recent is being saved.    *)
THEOREM RecentIsWhatWasPlayedLast == StoreSpec => []RecentIsMostRecent
  <1>1. StoreInit => HistoryOK
    <2> SUFFICES ASSUME StoreInit PROVE HistoryOK
      OBVIOUS
    <2>1. /\ crashes = 0 /\ plays = <<>> /\ ram["recent"] = <<>>
          /\ ram["favorites"] = <<>>
      BY DEF StoreInit, Kinds
    <2> QED BY <2>1 DEF HistoryOK, Latest, Distinct, Heard
  <1>2. ASSUME StoreInv, HistoryOK, crashes = 0
        PROVE  /\ \A k \in {"favorites", "recent"} : Cardinality(Urls(ram[k])) = Len(ram[k])
               /\ \A u \in Played : Rank(u) <= Capacity["recent"] =>
                    Rank(u) <= Len(ram["recent"]) /\ ram["recent"][Rank(u)].url = u
               /\ Urls(ram["recent"]) \subseteq Played
    <2>1. /\ ram["recent"] \in Seq(Records) /\ ram["favorites"] \in Seq(Records)
          /\ plays \in Seq(UrlSet) /\ Latest(ram["recent"], plays)
          /\ Distinct(ram["favorites"])
      BY <1>2 DEF StoreInv, ListsOK, HistoryOK, Kinds
    <2>2. Distinct(ram["recent"]) BY <2>1, LatestIsDistinct
    <2>3. ASSUME NEW list \in Seq(Records), Distinct(list)
          PROVE  Cardinality(Urls(list)) = Len(list)
      <3>1. Len(list) \in Nat /\ Len(list) <= Len(list) OBVIOUS
      <3> QED BY <2>3, <3>1, DistinctUrlsAreCounted DEF Urls
    <2>4. Played = Heard(plays) BY DEF Played, Heard
    <2>5. \A u : Rank(u) = 1 + Cardinality(After(plays, u))
      BY <2>4 DEF Rank, After, LastPlay, LastIn
    <2>6. Urls(ram["recent"]) \subseteq Played
      <3>1. \A i \in 1..Len(ram["recent"]) : ram["recent"][i].url \in Heard(plays)
        BY <2>1 DEF Latest
      <3> QED BY <2>4, <3>1 DEF Urls
    <2>7. ASSUME NEW u \in Played, Rank(u) <= Capacity["recent"]
          PROVE  Rank(u) <= Len(ram["recent"]) /\ ram["recent"][Rank(u)].url = u
      <3>1. u \in Urls(ram["recent"]) BY <2>1, <2>4, <2>5, <2>7, RankOfOthers
      <3>2. PICK i \in 1..Len(ram["recent"]) : u = ram["recent"][i].url
        BY <3>1 DEF Urls
      <3>3. Rank(u) = i BY <2>1, <2>5, <3>2, RankOfListed
      <3> QED BY <3>2, <3>3
    <2> QED BY <2>1, <2>2, <2>3, <2>6, <2>7
  <1>3. StoreInv /\ HistoryOK => RecentIsMostRecent BY <1>2 DEF RecentIsMostRecent
  <1> QED BY <1>1, <1>3, HistoryStep, StoreInvHolds, PTL DEF StoreSpec

=============================================================================
