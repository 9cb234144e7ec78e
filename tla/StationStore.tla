----------------------------- MODULE StationStore -----------------------------
(***************************************************************************)
(* StationManager of src/src/stations.cpp and those who change it: the     *)
(* saved stations, Favorites and Recent are lists in RAM, each rewritten   *)
(* to its own NVS namespace - the count first, then every record, field by *)
(* field - after each change.  The board may restart between two writes.   *)
(*                                                                         *)
(* The application loop changes the lists for the physical screens, the    *)
(* web portal and the REMOTE; the REMOTE is also served between the writes *)
(* of Recent, so that its command's save runs inside the save of Recent.   *)
(*                                                                         *)
(* Abstracted: the codec, which follows the URL; text; pages of five: the  *)
(* REMOTE's page is a whole collection.  Every write to NVS succeeds.      *)
(***************************************************************************)
EXTENDS Naturals, Sequences, FiniteSets

CONSTANTS
  Stations,     \* what Radio Browser or a web user can offer
  Blank,        \* the name and the URL of a record never written
  Capacity,     \* MAX_STATIONS, MAX_FAVORITES and MAX_RECENT
  MaxRevision,  \* bound on catalogRevision in each boot
  MaxPlays,     \* bound on the number of discovered stations played
  MaxCrashes    \* bound on the number of restarts

Kinds == {"saved", "favorites", "recent"}

ASSUME StoreAssumption ==
  /\ Blank \notin Stations
  /\ Capacity \in [Kinds -> Nat \ {0}]
  /\ MaxPlays \in Nat /\ MaxCrashes \in Nat
  /\ MaxRevision \in [0..MaxCrashes -> Nat]

VARIABLES
  ram,       \* the three lists of records in PSRAM
  flash,     \* the three NVS namespaces: a count and the records
  saves,     \* the saves in progress, the innermost last
  revision,  \* catalogRevision
  page,      \* the last catalog page the REMOTE received, and in which boot
  screen,    \* the Favorites or Recent screen that is open, and its cursor
  favorite,  \* what to add to Favorites once Recent is saved: <<>> or a record
  plays,     \* history: the discovered stations played since the boot
  crashes    \* history: number of restarts

sessionVars == <<page, screen, favorite>>
storeVars == <<ram, flash, saves, revision, sessionVars, plays, crashes>>

-----------------------------------------------------------------------------
(* A record; after a restart its name and its URL may be of two stations.  *)
Record(s) == [name |-> s, url |-> s]
Records == [name: Stations \union {Blank}, url: Stations \union {Blank}]
BlankRecord == [name |-> Blank, url |-> Blank]

NoPage == [collection |-> "none", revision |-> 0, items |-> <<>>, boot |-> 0]
NoScreen == [kind |-> "none", cursor |-> 0]

BootRevision == 3  \* 1, and one advance for each of the two loads

StoreInit ==
  /\ ram = [k \in Kinds |-> <<>>]
  /\ flash = [k \in Kinds |->
                [count |-> 0, slot |-> [i \in 1..Capacity[k] |-> BlankRecord]]]
  /\ saves = <<>> /\ revision = BootRevision
  /\ page = NoPage /\ screen = NoScreen /\ favorite = <<>>
  /\ plays = <<>> /\ crashes = 0

-----------------------------------------------------------------------------
(* The lists.                                                              *)
Urls(list) == {list[i].url : i \in 1..Len(list)}

First(list, n) == SubSeq(list, 1, IF Len(list) < n THEN Len(list) ELSE n)

RemoveIndex(list, i) == SubSeq(list, 1, i - 1) \o SubSeq(list, i + 1, Len(list))

(* The first record with this URL is taken out.                            *)
WithoutUrl(list, url) ==
  IF url \notin Urls(list) THEN list
  ELSE RemoveIndex(list, CHOOSE i \in 1..Len(list) :
         list[i].url = url /\ \A j \in 1..(i - 1) : list[j].url # url)

(* Mutant: the list is cut before its old entry is taken out.              *)
CutFirst(list, record) ==
  <<record>> \o WithoutUrl(First(list, Capacity["recent"] - 1), record.url)

AddedToRecent(list, record) ==
  First(<<record>> \o WithoutUrl(list, record.url), Capacity["recent"])

IsFavorite(record) == record.url \in Urls(ram["favorites"])

HasRoom(kind) == Len(ram[kind]) < Capacity[kind]

-----------------------------------------------------------------------------
(* Writing a list to NVS.                                                  *)

(* Mutant: the namespace is cleared before it is written again.            *)
ChangeClears(kind, list) ==
  /\ ram' = [ram EXCEPT ![kind] = list]
  /\ revision' = revision + 1
  /\ flash' = [flash EXCEPT ![kind].count = 0]
  /\ saves' = Append(saves, [kind |-> kind, before |-> ram[kind], put |-> 0])

(* A list changes in RAM, the revision advances and the save begins.       *)
Change(kind, list) ==
  /\ ram' = [ram EXCEPT ![kind] = list]
  /\ revision' = revision + 1
  /\ saves' = Append(saves, [kind |-> kind, before |-> ram[kind], put |-> 0])
  /\ UNCHANGED flash

(* The bound: n changes fit besides the one the play in progress may make. *)
CanChange(n) == revision + Len(favorite) + n <= MaxRevision[crashes]

Last == saves[Len(saves)]

PutFieldShort(store, list, put) ==  \* Mutant: the last record is left out.
  CASE put = 0 -> [store EXCEPT !.count = Len(list)]
    [] put >= 2 * Len(list) - 1 -> store
    [] put % 2 = 1 -> [store EXCEPT !.slot[(put + 1) \div 2].name =
                                      list[(put + 1) \div 2].name]
    [] OTHER -> [store EXCEPT !.slot[put \div 2].url = list[put \div 2].url]

(* Write 0 is the count; writes 2i - 1 and 2i are name and URL of record i. *)
PutField(store, list, put) ==
  CASE put = 0 -> [store EXCEPT !.count = Len(list)]
    [] put % 2 = 1 -> [store EXCEPT !.slot[(put + 1) \div 2].name =
                                      list[(put + 1) \div 2].name]
    [] OTHER -> [store EXCEPT !.slot[put \div 2].url = list[put \div 2].url]

Put ==
  /\ saves # <<>>
  /\ flash' = [flash EXCEPT ![Last.kind] =
                 PutField(flash[Last.kind], ram[Last.kind], Last.put)]
  /\ saves' = IF Last.put = 2 * Len(ram[Last.kind])
                THEN SubSeq(saves, 1, Len(saves) - 1)
                ELSE [saves EXCEPT ![Len(saves)].put = Last.put + 1]
  /\ UNCHANGED <<ram, revision, sessionVars, plays, crashes>>

(* What a boot reads back.                                                 *)
Loaded(kind) == SubSeq(flash[kind].slot, 1, flash[kind].count)

(* The board starts again.  The REMOTE is another device: its page remains. *)
Restart ==
  /\ crashes < MaxCrashes /\ crashes' = crashes + 1
  /\ ram' = [k \in Kinds |-> Loaded(k)]
  /\ revision' = BootRevision /\ saves' = <<>>
  /\ screen' = NoScreen /\ favorite' = <<>> /\ plays' = <<>>
  /\ UNCHANGED <<flash, page>>

-----------------------------------------------------------------------------
(* The application loop, when no call is in progress.                      *)
Idle == saves = <<>> /\ favorite = <<>>

(* playDiscoveredStation, up to the save of Recent.                        *)
PlayDiscovered(record, addFavorite) ==
  /\ Idle /\ Len(plays) < MaxPlays /\ CanChange(IF addFavorite THEN 2 ELSE 1)
  /\ Change("recent", AddedToRecent(ram["recent"], record))
  /\ plays' = Append(plays, record.url)
  /\ favorite' = IF addFavorite THEN <<record>> ELSE <<>>
  /\ screen' = NoScreen
  /\ UNCHANGED <<page, crashes>>

AddToFavorites(record) ==
  IF IsFavorite(record) \/ ~HasRoom("favorites")
    THEN UNCHANGED <<ram, flash, saves, revision>>
    ELSE Change("favorites", Append(ram["favorites"], record))

(* The rest of playDiscoveredStation: Recent is saved, and the REMOTE may  *)
(* have changed Favorites meanwhile.                                       *)
FavoritePlayed ==
  /\ saves = <<>> /\ favorite # <<>>
  /\ AddToFavorites(favorite[1]) /\ favorite' = <<>>
  /\ UNCHANGED <<page, screen, plays, crashes>>

(* Next on the playing screen of a discovered station.                     *)
FavoriteNowPlaying(s) ==
  /\ Idle /\ screen = NoScreen /\ CanChange(1) /\ AddToFavorites(Record(s))
  /\ UNCHANGED <<sessionVars, plays, crashes>>

(* The Favorites and Recent screens: entered, and redrawn at each detent.  *)
Draw(kind, cursor) == screen' = [kind |-> kind, cursor |-> cursor]

EnterScreen(kind) ==
  /\ Idle /\ screen = NoScreen /\ Draw(kind, 1)
  /\ UNCHANGED <<ram, flash, saves, revision, page, favorite, plays, crashes>>

Screen == ram[screen.kind]

OnScreen == Idle /\ screen # NoScreen /\ Screen # <<>>

Encoder ==
  /\ OnScreen
  /\ \/ Draw(screen.kind, IF screen.cursor < Len(Screen) THEN screen.cursor + 1 ELSE 1)
     \/ Draw(screen.kind, IF screen.cursor > 1 THEN screen.cursor - 1 ELSE Len(Screen))
  /\ UNCHANGED <<ram, flash, saves, revision, page, favorite, plays, crashes>>

LeaveScreen ==
  /\ Idle /\ screen # NoScreen /\ screen' = NoScreen
  /\ UNCHANGED <<ram, flash, saves, revision, page, favorite, plays, crashes>>

ScreenPlay(addFavorite) ==
  /\ OnScreen /\ screen.cursor <= Len(Screen)
  /\ addFavorite => screen.kind = "recent"
  /\ PlayDiscovered(Screen[screen.cursor], addFavorite)

ScreenRemove ==
  /\ OnScreen /\ screen.kind = "favorites" /\ screen.cursor <= Len(Screen)
  /\ CanChange(1)
  /\ LET list == RemoveIndex(Screen, screen.cursor) IN
       /\ Change("favorites", list)
       /\ Draw("favorites", IF screen.cursor > Len(list) /\ list # <<>> THEN Len(list)
                                                                   ELSE screen.cursor)
  /\ UNCHANGED <<page, favorite, plays, crashes>>

(* The web portal: a name and a URL, or the index of a listed record.      *)
WebAdd(s) ==
  /\ Idle /\ CanChange(1) /\ HasRoom("saved")
  /\ Change("saved", Append(ram["saved"], Record(s)))
  /\ UNCHANGED <<sessionVars, plays, crashes>>

WebRemove(kind, i) ==
  /\ Idle /\ CanChange(1) /\ i \in 1..Len(ram[kind])
  /\ Change(kind, RemoveIndex(ram[kind], i))
  /\ UNCHANGED <<sessionVars, plays, crashes>>

Physical ==
  \/ \E s \in Stations, f \in BOOLEAN : screen = NoScreen /\ PlayDiscovered(Record(s), f)
  \/ FavoritePlayed \/ \E s \in Stations : FavoriteNowPlaying(s)
  \/ \E k \in {"favorites", "recent"} : EnterScreen(k)
  \/ Encoder \/ LeaveScreen \/ \E f \in BOOLEAN : ScreenPlay(f)
  \/ ScreenRemove

Web ==
  \/ \E s \in Stations : WebAdd(s)
  \/ \E k \in {"saved", "favorites"} : \E i \in 1..Capacity[k] : WebRemove(k, i)

-----------------------------------------------------------------------------
(* The REMOTE, served by the loop and between two writes of Recent.        *)
Served == Idle \/ (Len(saves) = 1 /\ Last.kind = "recent" /\ Last.put > 0)

RemoteQuery(kind) ==
  /\ Served
  /\ page' = [collection |-> kind, revision |-> revision, items |-> ram[kind],
              boot |-> crashes]
  /\ UNCHANGED <<ram, flash, saves, revision, screen, favorite, plays, crashes>>

(* Mutant: the command's revision is not compared.                         *)
AdmitAnyRevision(token) == token \in 1..Len(ram[page.collection])

(* rtcp_catalog::admit and the owner's second look at the revision.        *)
Admit(token) ==
  page.revision = revision /\ token \in 1..Len(ram[page.collection])

RemoteRemove(token) ==
  /\ Served /\ CanChange(1) /\ page # NoPage /\ page.collection # "recent" /\ Admit(token)
  /\ Change(page.collection, RemoveIndex(ram[page.collection], token))
  /\ UNCHANGED <<sessionVars, plays, crashes>>

RemoteFavorite(token) ==
  /\ Served /\ CanChange(1) /\ page.collection = "recent" /\ Admit(token)
  /\ AddToFavorites(ram["recent"][token])
  /\ UNCHANGED <<sessionVars, plays, crashes>>

(* A result of the REMOTE's search of Radio Browser, with its own token.    *)
RemoteBrowserFavorite(s) ==
  /\ Served /\ CanChange(1) /\ AddToFavorites(Record(s))
  /\ UNCHANGED <<sessionVars, plays, crashes>>

Remote ==
  \/ \E k \in Kinds : RemoteQuery(k)
  \/ \E s \in Stations : RemoteBrowserFavorite(s)
  \/ \E t \in 1..Len(page.items) : RemoteRemove(t) \/ RemoteFavorite(t)

-----------------------------------------------------------------------------
StoreNext == Put \/ Restart \/ Physical \/ Web \/ Remote

StoreSpec == StoreInit /\ [][StoreNext]_storeVars

-----------------------------------------------------------------------------
Saving(kind) == \E i \in 1..Len(saves) : saves[i].kind = kind

(* Once its save has returned, a list would be read back as it is: no      *)
(* order of changes, of nested saves and of restarts leaves the flash      *)
(* behind the RAM, whatever older records the namespace still holds.       *)
SettledIsSaved == \A k \in Kinds : Saving(k) \/ Loaded(k) = ram[k]

(* A command of the REMOTE acts on the record the REMOTE saw under that    *)
(* token, or is refused as stale, whoever changed the lists meanwhile, as  *)
(* long as the page was read in this boot.  The revision is not saved: it  *)
(* starts again at each boot, so that a page of an earlier boot may carry  *)
(* the number that holds now over another list, and is then admitted.      *)
RemoteActsOnWhatItSaw ==
  page.boot = crashes =>
    \A t \in 1..Len(page.items) :
      Admit(t) => ram[page.collection][t] = page.items[t]

LastPlay(u) == CHOOSE i \in 1..Len(plays) :
  plays[i] = u /\ \A j \in (i + 1)..Len(plays) : plays[j] # u
Played == {plays[i] : i \in 1..Len(plays)}
Rank(u) == 1 + Cardinality({v \in Played : LastPlay(v) > LastPlay(u)})

(* Without a restart no URL is twice in Favorites or in Recent, and Recent *)
(* is the most recently played stations, the last one first (its reference *)
(* definition, over the whole history of plays).                           *)
RecentIsMostRecent ==
  crashes = 0 =>
    /\ \A k \in {"favorites", "recent"} : Cardinality(Urls(ram[k])) = Len(ram[k])
    /\ \A u \in Played : Rank(u) <= Capacity["recent"] =>
         Rank(u) <= Len(ram["recent"]) /\ ram["recent"][Rank(u)].url = u
    /\ Urls(ram["recent"]) \subseteq Played

Members(list) == {list[i] : i \in 1..Len(list)}

(* Between these two writes a record has its new name and its old URL.     *)
Torn(save) == save.put > 0 /\ save.put % 2 = 0

(* Records read back that the list never held, and records that are lost   *)
(* although the change did not touch them.                                 *)
Foreign(save, list, read) == Members(read) \ (Members(save.before) \union Members(list))
Lost(save, list, read) == (Members(save.before) \intersect Members(list)) \ Members(read)

(* What a restart may do to a list that is being saved: one older record   *)
(* comes back and one record is lost that the change did not touch, or two *)
(* if a record is torn; a list at rest is not touched at all.              *)
RestartDamageIsBounded ==
  [][Restart =>
       /\ \A k \in Kinds : ~Saving(k) => ram'[k] = ram[k]
       /\ \A i \in 1..Len(saves) :
            LET k == saves[i].kind
                bound == IF Torn(saves[i]) THEN 2 ELSE 1
            IN /\ Cardinality(Foreign(saves[i], ram[k], ram'[k])) <= bound
               /\ Cardinality(Lost(saves[i], ram[k], ram'[k])) <= bound]_storeVars

=============================================================================
