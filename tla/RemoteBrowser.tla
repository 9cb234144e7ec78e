---------------------------- MODULE RemoteBrowser ----------------------------
(***************************************************************************)
(* The REMOTE's Radio Browser search of src/src/remote_browser.cpp: the    *)
(* application loop polls one HTTP job at a time - countries, then genres, *)
(* then results - over three mirrors, one delayed retry and one deadline,  *)
(* while REMOTE commands, a close of the session, a play and the physical  *)
(* browser replace or cancel it.                                           *)
(*                                                                         *)
(* Abstracted: TLS, HTTP and JSON (an attempt ends in one of the ways the  *)
(* code tells apart), the values of the filters, the names in the lists of *)
(* countries and genres, and the clock: the deadline and the delay of the  *)
(* retry pass at any time.                                                 *)
(***************************************************************************)
EXTENDS Naturals, Sequences

CONSTANTS
  Items,             \* stations a mirror may list
  MirrorCount,       \* RADIO_BROWSER_MIRROR_COUNT
  MaxAttempts,       \* kMaximumAttempts
  MaxResults,        \* MAX_BROWSE_RESULTS
  MaxSearches,       \* bound on the number of searches begun
  MaxSearchRevision  \* bound on the revision of each

ASSUME BrowserAssumption ==
  /\ MirrorCount \in Nat \ {0} /\ MaxAttempts \in Nat /\ MaxResults \in Nat
  /\ MaxSearches \in Nat /\ MaxSearchRevision \in Nat

VARIABLES
  active, generation, revision,
  job,        \* job_: "none" or the stage it fills
  client,     \* client_ # nullptr: an attempt runs
  mirror,     \* mirror_
  attempts,   \* attempt_count_
  retryUsed,  \* delayed_retry_used_
  retryWait,  \* retry_waiting_
  retryDue,   \* retry_at_ms_ has passed
  expired,    \* job_deadline_ms_ has passed
  status,     \* country_status_, genre_status_, result_status_
  listed,     \* the stages whose list is not empty, besides the results
  results,    \* results_ up to its count
  page,       \* the last page of results the REMOTE received
  played      \* history: what the last token used had shown, and named

attemptVars == <<mirror, attempts, retryUsed, retryWait, retryDue, expired>>
jobVars == <<job, client, status, revision>>
listVars == <<listed, results>>
userVars == <<active, generation, page, played>>
browserVars == <<attemptVars, jobVars, listVars, userVars>>

-----------------------------------------------------------------------------
Stages == {"countries", "genres", "results"}
NoPage == [generation |-> 0, revision |-> 0, items |-> <<>>]
Lists == UNION {[1..n -> Items] : n \in 0..MaxResults}

BrowserInit ==
  /\ active = FALSE /\ generation = 0 /\ revision = 0
  /\ job = "none" /\ client = FALSE /\ mirror = 0 /\ attempts = 0
  /\ retryUsed = FALSE /\ retryWait = FALSE
  /\ retryDue = FALSE /\ expired = FALSE
  /\ status = [s \in Stages |-> "idle"]
  /\ listed = {} /\ results = <<>>
  /\ page = NoPage /\ played = <<>>

-----------------------------------------------------------------------------
(* finishJob: its stage is ready, empty or failed, under a new revision.   *)
Finish(outcome) ==
  /\ status' = [status EXCEPT ![job] = outcome]
  /\ revision' = revision + 1
  /\ job' = "none" /\ client' = FALSE

(* beginMirror: the HTTP client may not be created.                        *)
BeginMirror(m) ==
  /\ mirror' = m /\ attempts' = attempts + 1
  /\ \/ client' = TRUE /\ UNCHANGED <<job, status, revision>>
     \/ Finish("failed")

(* beginJob, with the statuses and the revision its caller has set: the    *)
(* stage is loading, or failed at once when there is no client.            *)
BeginJob(stage, known, number) ==
  /\ mirror' = 0 /\ attempts' = 1 /\ retryUsed' = FALSE
  /\ retryWait' = FALSE /\ retryDue' = FALSE /\ expired' = FALSE
  /\ \/ /\ job' = stage /\ client' = TRUE /\ revision' = number
        /\ status' = [known EXCEPT ![stage] = "loading"]
     \/ /\ job' = "none" /\ client' = FALSE /\ revision' = number + 1
        /\ status' = [known EXCEPT ![stage] = "failed"]

(* A search begins: whatever was there is cancelled.                       *)
Start ==
  /\ generation < MaxSearches
  /\ generation' = generation + 1 /\ active' = TRUE
  /\ listed' = {} /\ results' = <<>>
  /\ BeginJob("countries", [s \in Stages |-> "idle"], 1)
  /\ UNCHANGED <<page, played>>

CancelKeepsClient ==  \* Mutant: the attempt goes on without its job.
  /\ job' = "none" /\ retryWait' = FALSE /\ UNCHANGED client
  /\ status' = [s \in Stages |-> "idle"] /\ listed' = {} /\ results' = <<>>
  /\ active' = FALSE /\ revision' = 0

CancelJob ==
  /\ job' = "none" /\ client' = FALSE /\ retryWait' = FALSE
  /\ status' = [s \in Stages |-> "idle"] /\ listed' = {} /\ results' = <<>>
  /\ active' = FALSE /\ revision' = 0

(* The REMOTE's cancel, the end of its session, the physical browser, or a *)
(* start without WiFi.                                                     *)
Cancel ==
  /\ CancelJob
  /\ UNCHANGED <<generation, mirror, attempts, retryUsed, retryDue, expired,
                 page, played>>

-----------------------------------------------------------------------------
(* What the REMOTE does with its last page: fenced, and busy during a job. *)
(* The choice of a country changes nothing but the next request.           *)
View ==
  /\ active
  /\ page' = [generation |-> generation, revision |-> revision, items |-> results]
  /\ UNCHANGED <<attemptVars, jobVars, listVars, active, generation, played>>

FencedByGeneration ==  \* Mutant: the revision is not compared.
  active /\ page.generation = generation /\ job = "none"

Fenced ==
  active /\ page.generation = generation /\ page.revision = revision /\ job = "none"

SelectName ==
  /\ Fenced /\ "countries" \in listed /\ revision + 2 <= MaxSearchRevision
  /\ BeginJob("genres", status, revision + 1)
  /\ UNCHANGED <<listVars, active, generation, page, played>>

SelectGenre ==  \* one that is listed, or any
  /\ Fenced /\ revision + 2 <= MaxSearchRevision
  /\ results' = <<>>
  /\ BeginJob("results", status, revision + 1)
  /\ UNCHANGED <<listed, active, generation, page, played>>

(* A token of the page is used: what it showed, and what it names now.     *)
Use(token) ==
  /\ Fenced /\ token \in 1..Len(page.items) /\ token \in 1..Len(results)
  /\ played' = <<page.items[token], results[token]>>

(* It becomes a Favorite, and the search goes on.                          *)
AddFavorite(token) ==
  /\ Use(token)
  /\ UNCHANGED <<attemptVars, jobVars, listVars, active, generation, page>>

(* It is played, unless the player refuses it, and the search ends.        *)
Play(token) ==
  /\ Use(token) /\ CancelJob
  /\ UNCHANGED <<generation, mirror, attempts, retryUsed, retryDue, expired,
                 page>>

-----------------------------------------------------------------------------
(* poll().                                                                 *)
DeadlinePasses ==
  /\ job # "none" /\ ~expired /\ expired' = TRUE
  /\ UNCHANGED <<mirror, attempts, retryUsed, retryWait, retryDue, jobVars,
                 listVars, userVars>>

DelayPasses ==
  /\ job # "none" /\ retryWait /\ ~retryDue /\ retryDue' = TRUE
  /\ UNCHANGED <<mirror, attempts, retryUsed, retryWait, expired, jobVars,
                 listVars, userVars>>

WifiLost ==
  /\ job # "none" /\ Finish("failed")
  /\ UNCHANGED <<attemptVars, listVars, userVars>>

RetryWithoutClient ==  \* Mutant: the wait ends and no attempt begins.
  /\ job # "none" /\ retryWait /\ retryDue /\ retryWait' = FALSE
  /\ UNCHANGED <<mirror, attempts, retryUsed, retryDue, expired, jobVars,
                 listVars, userVars>>

Retry ==
  /\ job # "none" /\ retryWait /\ retryDue
  /\ retryWait' = FALSE /\ BeginMirror(0)
  /\ UNCHANGED <<retryUsed, retryDue, expired, listVars, userVars>>

Attempting == job # "none" /\ ~retryWait /\ client

Expire ==
  /\ Attempting /\ expired /\ Finish("failed")
  /\ UNCHANGED <<attemptVars, listVars, userVars>>

(* The answer is complete; one that does not parse may fill a part.        *)
Answer(items, parsed) ==
  /\ Attempting /\ ~expired
  /\ IF job = "results" THEN results' = items /\ UNCHANGED listed
     ELSE /\ listed' = IF items = <<>> THEN listed \ {job} ELSE listed \union {job}
          /\ UNCHANGED results
  /\ Finish(IF ~parsed THEN "failed" ELSE IF items = <<>> THEN "empty" ELSE "ready")
  /\ UNCHANGED <<attemptVars, userVars>>

(* A refusal that is final, or an answer larger than the buffer.           *)
Refusal ==
  /\ Attempting /\ ~expired /\ Finish("failed")
  /\ UNCHANGED <<attemptVars, listVars, userVars>>

NextMirror ==
  /\ ~retryUsed /\ mirror + 1 < MirrorCount
  /\ BeginMirror(mirror + 1) /\ UNCHANGED <<retryUsed, retryWait, retryDue>>

WaitForRetry ==
  /\ ~retryUsed /\ mirror + 1 >= MirrorCount /\ attempts < MaxAttempts
  /\ client' = FALSE /\ retryUsed' = TRUE /\ retryWait' = TRUE
  /\ retryDue' = FALSE
  /\ UNCHANGED <<job, mirror, attempts, status, revision>>

GiveUp ==
  /\ retryUsed \/ (mirror + 1 >= MirrorCount /\ attempts >= MaxAttempts)
  /\ Finish("failed")
  /\ UNCHANGED <<mirror, attempts, retryUsed, retryWait, retryDue>>

(* The transport failed, or a mirror is overloaded.                        *)
Failure ==
  /\ Attempting /\ ~expired
  /\ NextMirror \/ WaitForRetry \/ GiveUp
  /\ UNCHANGED <<expired, listVars, userVars>>

BrowserNext ==
  \/ Start \/ Cancel \/ View
  \/ SelectName \/ SelectGenre
  \/ \E token \in 1..MaxResults : Play(token) \/ AddFavorite(token)
  \/ DeadlinePasses \/ DelayPasses \/ WifiLost \/ Retry \/ Expire
  \/ \E items \in Lists, parsed \in BOOLEAN : Answer(items, parsed)
  \/ Refusal \/ Failure

(* The loop polls the job in every turn, and time passes.                  *)
BrowserFairness ==
  /\ WF_browserVars(DeadlinePasses) /\ WF_browserVars(DelayPasses)
  /\ WF_browserVars(Retry) /\ WF_browserVars(Expire)

BrowserSpec == BrowserInit /\ [][BrowserNext]_browserVars /\ BrowserFairness

-----------------------------------------------------------------------------
(* A stage is told to be loading exactly while its job runs, and a running *)
(* job has either an HTTP client or a retry to wait for: no way out of a   *)
(* job, by failure, cancellation or replacement, leaves a REMOTE waiting   *)
(* for a page that nobody is fetching, or a client that nobody ends.       *)
LoadingIsWorked ==
  /\ \A s \in Stages : status[s] = "loading" <=> job = s
  /\ job # "none" => client # retryWait
  /\ client => job # "none"

(* A token that is played or made a Favorite is the station that was shown *)
(* under it, whatever searches began or ended since the page was fetched.  *)
PlaysWhatWasShown == played # <<>> => played[1] = played[2]

(* Every job ends, or is replaced by another search.                       *)
JobEnds ==
  \A g \in 1..MaxSearches :
    (job # "none" /\ generation = g) ~> (job = "none" \/ generation # g)
=============================================================================
