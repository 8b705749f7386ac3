----------------------------- MODULE WebResearch -----------------------------
(***************************************************************************)
(* A search of the web with a real browser and the research around it      *)
(* (src/ai-ml/src/autoflow_ai/society/websearch.py, research.py,           *)
(* computer_use/browser.py): the browser is started in three stages, asked *)
(* one page, and closed whatever happened; the rows found become the facts *)
(* of a report.  One adapter may serve several searches, one after the     *)
(* other, and keeps the handles of the last.                               *)
(*                                                                         *)
(* The driver and the browser are processes of their own, numbered by the  *)
(* search that started them.  The engines' addresses are all allowed.      *)
(***************************************************************************)
EXTENDS Naturals, FiniteSets

CONSTANT MaxSearches  \* bound of the model: searches with one adapter

ASSUME WebAssumption == MaxSearches \in Nat

VARIABLES
  web,      \* the search at work, what it was asked for and what it found
  handles,  \* of the adapter: which driver and which browser it knows, 0 for none
  running,  \* processes that run
  raised    \* what has raised: the close of a "live" browser or of a "stale" one, the
            \* "stop" of a driver, a "start" that left a driver behind

webVars == <<web, handles, running, raised>>

WebInit ==
  /\ \E enabled, available, research, deep \in BOOLEAN :
       web = [enabled |-> enabled, available |-> available, research |-> research, deep |-> deep,
              search |-> 0, step |-> "idle", outcome |-> "none", ready |-> FALSE,
              read |-> FALSE, rows |-> FALSE, facts |-> "none"]
  /\ handles = [driver |-> 0, browser |-> 0]
  /\ running = {} /\ raised = {}

Driver(n)  == <<"driver", n>>
Browser(n) == <<"browser", n>>

To(step, outcome) == web' = [web EXCEPT !.step = step, !.outcome = outcome]

\* The gates come before the browser: nothing is started, nothing to close.
Search ==
  /\ web.step \in {"idle", "over"} /\ web.search < MaxSearches
  /\ web' = [web EXCEPT !.search = @ + 1, !.ready = FALSE, !.read = FALSE, !.rows = FALSE,
                        !.facts = "none",
                        !.step = IF web.enabled /\ web.available THEN "launch" ELSE "report",
                        !.outcome = IF ~web.enabled THEN "not_enabled"
                                    ELSE IF ~web.available THEN "unavailable" ELSE "failed"]
  /\ UNCHANGED <<handles, running, raised>>

\* Seeded fault: the handles are kept once all three stages have succeeded.
HandlesAfterAll(n, stages) ==
  IF stages = 3 THEN [driver |-> n, browser |-> n] ELSE handles

\* Each stage keeps its handle as it succeeds.
HandlesAfter(n, stages) ==
  [driver  |-> IF stages >= 1 THEN n ELSE handles.driver,
   browser |-> IF stages >= 2 THEN n ELSE handles.browser]

\* The driver, the browser, its page: the stages that succeed.  A driver that
\* does not come up may be left behind, and no handle knows it.
LaunchBrowser ==
  /\ web.step = "launch"
  /\ \E stages \in 0..3 :
       /\ handles' = HandlesAfter(web.search, stages)
       /\ \/ /\ running' = running \cup (IF stages >= 1 THEN {Driver(web.search)} ELSE {})
                                   \cup (IF stages >= 2 THEN {Browser(web.search)} ELSE {})
             /\ UNCHANGED raised
          \/ /\ stages = 0 /\ running' = running \cup {Driver(web.search)}
             /\ raised' = raised \cup {"start"}
       /\ IF stages = 3 THEN To("navigate", "failed") ELSE To("close", "failed")

\* The task has taken too long before the browser is started.
RateLimited ==
  /\ web.step = "launch"
  /\ To("close", "rate_limited")
  /\ UNCHANGED <<handles, running, raised>>

Navigate ==
  /\ web.step = "navigate"
  /\ To("read", "failed") \/ To("close", "failed")
  /\ UNCHANGED <<handles, running, raised>>

\* Are there rows among what is read?
Rows(read) == IF read THEN BOOLEAN ELSE {FALSE}

\* Rows are read whether the results have appeared in time or not; an error in
\* the page is no rows.
ReadResults ==
  /\ web.step = "read"
  /\ \E ready, read \in BOOLEAN : \E rows \in Rows(read) :
       web' = [web EXCEPT !.step = "close", !.ready = ready, !.read = read, !.rows = rows,
                          !.outcome = IF rows THEN "results_verified" ELSE "no_results"]
  /\ UNCHANGED <<handles, running, raised>>

\* What is left after a close: the browser first, then the driver, which takes
\* its own browser with it.  Either may raise, and what comes after is left out.
CloseAdapter ==
  LET b == handles.browser  d == handles.driver
      browser == IF Driver(b) \in running THEN "live" ELSE "stale"
  IN \/ running' = running \ {Driver(d), Browser(d), Browser(b)} /\ UNCHANGED raised
     \/ b # 0 /\ raised' = raised \cup {browser} /\ UNCHANGED running
     \/ d # 0 /\ raised' = raised \cup {"stop"} /\ running' = running \ {Browser(b)}

\* The search is over: the finally of run.
Close ==
  /\ web.step = "close"
  /\ CloseAdapter
  /\ web' = [web EXCEPT !.step = "report"]
  /\ UNCHANGED handles

\* The rows are the facts.  The page of the first is not read after all: the
\* browser is closed by then.  The report closes the adapter once more.
Report ==
  /\ web.step = "report"
  /\ IF web.research /\ web.outcome \in {"results_verified", "no_results"}
       THEN /\ web' = [web EXCEPT !.step = "over", !.facts = IF web.rows THEN "rows" ELSE "none",
                                  !.outcome = IF web.rows THEN "grounded" ELSE "no_evidence"]
            /\ CloseAdapter
       ELSE /\ web' = [web EXCEPT !.step = "over"]
            /\ UNCHANGED <<running, raised>>
  /\ UNCHANGED handles

WebRuns == LaunchBrowser \/ RateLimited \/ Navigate \/ ReadResults \/ Close \/ Report
WebStep == Search \/ WebRuns

-----------------------------------------------------------------------------
(* Properties                                                              *)

\* When a search is over nothing it started runs on, at whatever stage it
\* stopped, unless a close raised, or a driver was left behind by its start:
\* then it stays (browser.py:260-270, 304-321, websearch.py:163-170).
NothingLeftRunning == web.step = "over" /\ raised = {} => running = {}

\* That drivers start and stop and the browser of this search closes well is not
\* enough: the adapter still knows the closed browser of the last one when the
\* next does not start ("always clean up the browser process", websearch.py:166).
CleansUp == web.step = "over" /\ raised \subseteq {"stale"} => running = {}

=============================================================================
