----------------------------- MODULE DeskProofs -----------------------------
(***************************************************************************)
(* What Desk promises, for any models, missions, texts, sources, goals and *)
(* numbers of searches.  The parts share no state, so each has an inductive *)
(* invariant of its own, and a step of the whole is a step of a part or    *)
(* leaves it alone.                                                        *)
(***************************************************************************)
EXTENDS Desk, FiniteSetTheorems, TLAPS

\* A step of the whole, seen from each part.
LEMMA StepOfEach ==
  ASSUME [Next]_vars
  PROVE  /\ GatewayStep  \/ UNCHANGED gatewayVars
         /\ DesktopStep  \/ UNCHANGED desktopVars
         /\ OfficeStep   \/ UNCHANGED officeVars
         /\ ComputerRuns \/ UNCHANGED computerVars
         /\ WebStep      \/ UNCHANGED webVars
         /\ PageStep     \/ UNCHANGED pageVars
<1>1. CASE Next
  BY <1>1, Zenon DEF Next, Others
<1>2. CASE UNCHANGED vars
  BY <1>2, Zenon DEF vars
<1> QED
  BY <1>1, <1>2

-----------------------------------------------------------------------------
(* The browser (WebResearch)                                               *)

\* Before the browser of a search is closed nothing runs but what the adapter
\* knows; at any other time nothing runs.
Known(step) ==
  IF step \in {"navigate", "read", "close"}
    THEN {Driver(handles.driver), Browser(handles.browser)} ELSE {}

WebInv ==
  /\ {"search", "step"} \subseteq DOMAIN web /\ {"driver", "browser"} = DOMAIN handles
  /\ raised = {} => running \subseteq Known(web.step)

LEMMA WebStarts ==
  ASSUME WebInit
  PROVE  WebInv
BY DEF WebInit, WebInv

LEMMA WebInvInductive ==
  ASSUME WebInv, WebStep \/ UNCHANGED webVars
  PROVE  WebInv'
<1> USE WebAssumption DEF WebInv
<1>1. CASE Search
  BY <1>1 DEF Search, Known
<1>2. CASE LaunchBrowser
  <2>1. PICK stages \in 0..3 :
          /\ handles' = HandlesAfter(web.search, stages)
          /\ \/ /\ running' = running \cup (IF stages >= 1 THEN {Driver(web.search)} ELSE {})
                                       \cup (IF stages >= 2 THEN {Browser(web.search)} ELSE {})
                /\ UNCHANGED raised
             \/ raised' = raised \cup {"start"}
          /\ IF stages = 3 THEN To("navigate", "failed") ELSE To("close", "failed")
    BY <1>2 DEF LaunchBrowser
  <2>2. web.step = "launch"
    BY <1>2 DEF LaunchBrowser
  <2>3. DOMAIN web' = DOMAIN web /\ web'.step \in {"navigate", "close"}
    BY <2>1 DEF To
  <2>4. /\ DOMAIN handles' = {"driver", "browser"}
        /\ stages >= 1 => handles'.driver = web.search
        /\ stages >= 2 => handles'.browser = web.search
    BY <2>1 DEF HandlesAfter
  <2>5. raised' = {} => running' \subseteq Known(web.step)'
    <3> DEFINE D == Driver(web.search)
               B == Browser(web.search)
    <3>1. raised' = {} => /\ raised = {}
                          /\ running' = running \cup (IF stages >= 1 THEN {D} ELSE {})
                                                \cup (IF stages >= 2 THEN {B} ELSE {})
      BY <2>1
    <3>2. raised = {} => running = {}
      BY <2>2 DEF Known
    <3>3. /\ stages >= 1 => D \in Known(web.step)'
          /\ stages >= 2 => B \in Known(web.step)'
      BY <2>3, <2>4 DEF Known
    <3> HIDE DEF D, B
    <3> QED
      BY <3>1, <3>2, <3>3
  <2> QED
    BY <2>3, <2>4, <2>5
<1>3. CASE RateLimited
  BY <1>3 DEF RateLimited, Known, To
<1>4. CASE Navigate
  BY <1>4 DEF Navigate, Known, To
<1>5. CASE ReadResults
  BY <1>5 DEF ReadResults, Rows, Known
<1>6. CASE Close
  BY <1>6 DEF Close, CloseAdapter, Known
<1>7. CASE Report
  BY <1>7 DEF Report, CloseAdapter, Known
<1>8. CASE UNCHANGED webVars
  BY <1>8 DEF webVars, Known
<1> QED
  BY <1>1, <1>2, <1>3, <1>4, <1>5, <1>6, <1>7, <1>8 DEF WebStep, WebRuns

\* Whatever stage a search stops at, and however many the adapter has served
\* before, nothing that was started runs on when it is over, unless a close raised
\* or a start failed midway and left its driver (browser.py:260-304,
\* websearch.py:163-170).
THEOREM BrowserIsClosed == Spec => []NothingLeftRunning
<1>1. Init => WebInv
  BY WebStarts DEF Init
<1>2. WebInv /\ [Next]_vars => WebInv'
  BY WebInvInductive, StepOfEach
<1>3. WebInv => NothingLeftRunning
  BY DEF WebInv, Known, NothingLeftRunning
<1> QED
  BY <1>1, <1>2, <1>3, PTL DEF Spec

-----------------------------------------------------------------------------
(* The agent and the workflow (ComputerLoop)                               *)

\* Is the text there that a save is for?
Ready == screen.open /\ agent.goal.saved /\ (agent.goal.text => screen.text = "whole")

\* A save is decided only with the text there, and once one is confirmed nothing
\* but another one is: what the editor shows is then what was saved, unless a save
\* that was reported ok saved nothing.  The workflow has the desktop only while no agent has it.
ComputerInv ==
  /\ {"goal", "step", "round", "actions", "decided", "states", "tried", "confirmed"}
       \subseteq DOMAIN agent
  /\ {"open", "text", "garble"} \subseteq DOMAIN screen
  /\ {"status", "step", "failed", "actions", "states", "tried"} \subseteq DOMAIN flow
  /\ flow.status # "off" => agent.step = "off"
  /\ agent.step = "off" => ~agent.confirmed
  /\ agent.confirmed => Ready /\ (saved = screen.text \/ unsaved # {})
  /\ agent.step = "act" => agent.decided = "save" \/ ~agent.confirmed
  /\ agent.step = "act" /\ agent.decided = "save" => Ready
  /\ agent.step = "goal_verified" /\ agent.goal.saved => agent.confirmed

LEMMA ComputerStarts ==
  ASSUME ComputerInit
  PROVE  ComputerInv
BY DEF ComputerInit, ComputerInv, Blank

\* What a tool does to the desktop.
LEMMA ToolsOnTheDesktop ==
  ASSUME ComputerInv, NEW name, NEW ok \in BOOLEAN, Tool(name, ok)
  PROVE  /\ {"open", "text", "garble"} \subseteq DOMAIN screen'
         /\ name = "save" =>
              /\ screen' = screen
              /\ ok => saved' = screen.text \/ unsaved' # {}
              /\ saved = screen.text \/ unsaved # {} => saved' = screen.text \/ unsaved' # {}
<1>1. CASE Launch(ok)
  BY <1>1 DEF Launch, Tool, SaveKeys, Type, ComputerInv, Blank
<1>2. CASE Type(ok)
  BY <1>2 DEF Launch, Tool, SaveKeys, Type, ComputerInv, Blank
<1>3. CASE SaveKeys(ok)
  BY <1>3 DEF Launch, Tool, SaveKeys, Type, ComputerInv, Blank
<1> QED
  BY <1>1, <1>2, <1>3 DEF Tool

LEMMA ComputerInvInductive ==
  ASSUME ComputerInv, ComputerRuns \/ UNCHANGED computerVars
  PROVE  ComputerInv'
<1>1. CASE Observe
  BY <1>1 DEF Observe, ComputerInv, Ready, GoalMet, Policy, Stop, desktop, Allowed
<1>2. CASE Act
  <2>1. PICK ok \in BOOLEAN :
          /\ Tool(agent.decided, ok)
          /\ agent' = [agent EXCEPT !.step = IF ok THEN "observe" ELSE "failed",
                                    !.round = @ + 1, !.actions = @ + 1, !.decided = "none",
                                    !.confirmed = @ \/ (agent.decided = "save" /\ ok)]
    BY <1>2 DEF Act
  <2>2. agent.step = "act" /\ flow' = flow
    BY <1>2 DEF Act
  <2>3. /\ DOMAIN agent' = DOMAIN agent /\ agent'.goal = agent.goal
        /\ agent'.step \in {"observe", "failed"} /\ agent'.decided = "none"
        /\ agent'.confirmed => agent.confirmed \/ (agent.decided = "save" /\ ok)
    BY <2>1 DEF ComputerInv
  <2>4. agent'.confirmed => agent.decided = "save"
    BY <2>2, <2>3 DEF ComputerInv
  <2>5. agent.decided = "save" => screen' = screen /\ Ready
    BY <2>1, <2>2, ToolsOnTheDesktop DEF ComputerInv
  <2>6. agent'.confirmed => Ready'
    BY <2>3, <2>4, <2>5 DEF Ready
  <2>7. agent'.confirmed => saved' = screen'.text \/ unsaved' # {}
    BY <2>1, <2>3, <2>4, <2>5, ToolsOnTheDesktop DEF ComputerInv
  <2>8. {"open", "text", "garble"} \subseteq DOMAIN screen'
    BY <2>1, ToolsOnTheDesktop
  <2> QED
    BY <2>2, <2>3, <2>6, <2>7, <2>8 DEF ComputerInv
<1>3. CASE OutOfRounds
  BY <1>3 DEF OutOfRounds, ComputerInv, Ready, GoalMet, Stop, desktop
<1>4. CASE NextStep
  BY <1>4 DEF NextStep, ComputerInv, Ready, desktop
<1>5. CASE RunStep
  BY <1>5, ToolsOnTheDesktop DEF RunStep, ComputerInv, Ready
<1>6. CASE UNCHANGED computerVars
  BY <1>6 DEF computerVars, ComputerInv, Ready
<1> QED
  BY <1>1, <1>2, <1>3, <1>4, <1>5, <1>6 DEF ComputerRuns, AgentRuns, FlowRuns

\* A goal that asks for a saved text and is reported verified has on the disk
\* what the editor shows, whatever keys were lost while typing, unless a save that
\* was reported ok saved nothing: its keys were not sent, or the editor asked for
\* a name (autonomous.py:90-120, 223-225, 257-270).
THEOREM GoalsAreSaved == Spec => []VerifiedIsSaved
<1>1. Init => ComputerInv
  BY ComputerStarts DEF Init
<1>2. ComputerInv /\ [Next]_vars => ComputerInv'
  BY ComputerInvInductive, StepOfEach
<1>3. ComputerInv => VerifiedIsSaved
  BY DEF ComputerInv, VerifiedIsSaved
<1> QED
  BY <1>1, <1>2, <1>3, PTL DEF Spec

-----------------------------------------------------------------------------
(* Missions on the desktop (DesktopMission)                                *)

Before  == {"new", "content", "word", "docx", "txt", "notepad", "browser", "roster", "recipient"}
Writing == {"word_check", "docx_check", "txt_check"}

\* Word's window keeps the file to its mission, and the file keeps the text; a
\* mission has no file before it has written one, and a text once it writes.
DesktopInv ==
  /\ DOMAIN job = Missions
  /\ \A m \in Missions : {"kind", "step", "text", "file", "to"} \subseteq DOMAIN job[m]
  /\ \A m \in Missions : job[m].file \in {"none", Docx, Txt}
  /\ DOMAIN files = {Docx, Txt}
  /\ windows \subseteq Missions
  /\ \A m \in Missions : job[m].step \in {"word", "docx", "txt", "notepad"} => job[m].text \in Texts
  /\ \A m \in Missions : job[m].step \in Before => job[m].file = "none"
  /\ \A m \in windows :
       /\ job[m].step \in {"word_check", "verified", "complete", "failed"}
       /\ job[m].file = Docx /\ files[Docx] = job[m].text /\ job[m].text \in Texts
       /\ \A k \in windows : k = m
  /\ CompleteIsKept

LEMMA DesktopStarts ==
  ASSUME DesktopInit
  PROVE  DesktopInv
BY DEF DesktopInit, DesktopInv, New, CompleteIsKept, HasVerified

\* A mission that goes on without writing: it keeps its file, and is complete
\* only with the file as it should be.
LEMMA GoesOn ==
  ASSUME DesktopInv, NEW m \in Missions, UNCHANGED Disk,
         DOMAIN job' = Missions, \A k \in Missions \ {m} : job'[k] = job[k],
         DOMAIN job'[m] = DOMAIN job[m], job'[m].file = job[m].file,
         job'[m].step \in Before => job'[m].file = "none",
         job'[m].step \in {"word", "docx", "txt", "notepad"} => job'[m].text \in Texts,
         m \in windows => /\ job'[m].step \in {"verified", "complete", "failed"}
                          /\ job'[m].text = job[m].text,
         HasVerified(m)' /\ job'[m].file # "none" =>
           /\ job'[m].text = job[m].text
           /\ m \in windows \/ Holds(m) \/ HasVerified(m)
  PROVE  DesktopInv'
<1>1. windows' = windows /\ files' = files /\ overwritten' = overwritten
  BY DEF Disk
<1>2. \A k \in windows' :
       /\ job'[k].step \in {"word_check", "verified", "complete", "failed"}
       /\ job'[k].file = Docx /\ files'[Docx] = job'[k].text /\ job'[k].text \in Texts
       /\ \A l \in windows' : l = k
  BY <1>1 DEF DesktopInv
<1>3. ASSUME NEW k \in Missions, HasVerified(k)', job'[k].file # "none", k \notin overwritten'
      PROVE  /\ files'[job'[k].file] \in Texts
             /\ Opening[files'[job'[k].file]] = Opening[job'[k].text]
  <2>1. CASE k # m
    BY <1>1, <1>3, <2>1 DEF DesktopInv, CompleteIsKept, HasVerified
  <2>2. CASE k = m
    BY <1>1, <1>3, <2>2 DEF DesktopInv, Holds, CompleteIsKept
  <2> QED
    BY <2>1, <2>2
<1>4. CompleteIsKept'
  BY <1>3 DEF CompleteIsKept, HasVerified
<1> QED
  BY <1>1, <1>2, <1>4 DEF DesktopInv

\* A mission that writes puts what it wrote in the one file, which no window but
\* its own may hold, and lets go of what others had reported of that file.
LEMMA Writes ==
  ASSUME DesktopInv, NEW m \in Missions, job[m].step \in {"word", "docx", "txt", "notepad"},
         NEW file \in {Docx, Txt}, NEW content,
         ~LockedFor(m, file), Puts(m, file, content),
         DOMAIN job' = Missions, \A k \in Missions \ {m} : job'[k] = job[k],
         DOMAIN job'[m] = DOMAIN job[m],
         job'[m].file \in {"none", file}, job'[m].text = job[m].text,
         \/ job'[m].step \in {"docx", "txt", "failed"} /\ job'[m].file = "none"
         \/ job'[m].step \in Writing,
         \/ windows' = windows
         \/ /\ windows' = windows \cup {m} /\ file = Docx
            /\ content = job[m].text
            /\ job'[m].step = "word_check" /\ job'[m].file = Docx
  PROVE  DesktopInv'
<1>1. m \notin windows /\ job[m].text \in Texts
  BY DEF DesktopInv
<1>2. /\ DOMAIN files' = {Docx, Txt} /\ files'[file] = content
      /\ \A f \in {Docx, Txt} \ {file} : files'[f] = files[f]
      /\ overwritten \subseteq overwritten'
      /\ \A k \in Missions \ {m} : job[k].file = file /\ HasVerified(k) => k \in overwritten'
  BY DEF Puts, DesktopInv
<1>3. file = Docx => windows = {}
  BY <1>1 DEF LockedFor
<1>4. \A k \in windows' :
       /\ job'[k].step \in {"word_check", "verified", "complete", "failed"}
       /\ job'[k].file = Docx /\ files'[Docx] = job'[k].text /\ job'[k].text \in Texts
       /\ \A l \in windows' : l = k
  BY <1>1, <1>2, <1>3 DEF DesktopInv
<1>5. ASSUME NEW k \in Missions, HasVerified(k)', job'[k].file # "none", k \notin overwritten'
      PROVE  /\ files'[job'[k].file] \in Texts
             /\ Opening[files'[job'[k].file]] = Opening[job'[k].text]
  <2>1. k # m
    BY <1>5 DEF Writing, HasVerified
  <2>2. job[k] = job'[k] /\ job[k].file \in {Docx, Txt} /\ job[k].file # file
    BY <1>2, <1>5, <2>1 DEF DesktopInv, HasVerified
  <2> QED
    BY <1>2, <1>5, <2>2 DEF DesktopInv, CompleteIsKept, HasVerified
<1>6. CompleteIsKept'
  BY <1>5 DEF CompleteIsKept, HasVerified
<1>7. windows' \subseteq Missions
  BY DEF DesktopInv
<1>8. /\ job'[m].step \in Before => job'[m].file = "none"
      /\ job'[m].step \in {"word", "docx", "txt", "notepad"} => job'[m].text \in Texts
  BY <1>1 DEF Writing, Before
<1> QED
  BY <1>2, <1>4, <1>6, <1>7, <1>8 DEF DesktopInv

LEMMA DesktopInvInductive ==
  ASSUME DesktopInv, DesktopStep \/ UNCHANGED desktopVars
  PROVE  DesktopInv'
<1>1. ASSUME NEW m \in Missions, Detect(m)
      PROVE  DesktopInv'
  <2>1. job[m].step = "new" /\ m \notin windows /\ job[m].file = "none"
    BY <1>1 DEF Detect, DesktopInv, At, Before
  <2>2. job'[m].step \in {"content", "roster", "recipient", "browser", "failed"}
    BY <1>1 DEF Detect, DesktopInv, MissionKinds
  <2>3. /\ DOMAIN job' = Missions /\ \A k \in Missions \ {m} : job'[k] = job[k]
        /\ DOMAIN job'[m] = DOMAIN job[m] /\ job'[m].file = job[m].file
    BY <1>1 DEF Detect, DesktopInv
  <2> QED
    BY <1>1, <2>1, <2>2, <2>3, GoesOn DEF Detect
<1>2. ASSUME NEW m \in Missions, GenerateParagraph(m)
      PROVE  DesktopInv'
  <2>1. job[m].step = "content" /\ m \notin windows /\ job[m].file = "none"
    BY <1>2 DEF GenerateParagraph, DesktopInv, At, Before
  <2>2. /\ DOMAIN job' = Missions /\ \A k \in Missions \ {m} : job'[k] = job[k]
        /\ DOMAIN job'[m] = DOMAIN job[m] /\ job'[m].file = job[m].file
        /\ job'[m].step \in {"word", "notepad"} /\ job'[m].text \in Texts
    BY <1>2 DEF GenerateParagraph, DesktopInv
  <2> QED
    BY <1>2, <2>1, <2>2, GoesOn DEF GenerateParagraph
<1>3. ASSUME NEW m \in Missions, NEW file \in {Docx, Txt}, NEW step \in Writing,
             job[m].step \in {"word", "docx", "txt", "notepad"}, Wrote(m, file, step),
             \/ windows' = windows
             \/ windows' = windows \cup {m} /\ file = Docx /\ step = "word_check"
      PROVE  DesktopInv'
  <2>1. /\ DOMAIN job' = Missions /\ \A k \in Missions \ {m} : job'[k] = job[k]
        /\ DOMAIN job'[m] = DOMAIN job[m] /\ job'[m].text = job[m].text
        /\ job'[m].file = file /\ job'[m].step = step
    BY <1>3 DEF Wrote, DesktopInv
  <2> QED
    BY <1>3, <2>1, Writes DEF Wrote
<1>4. ASSUME NEW m \in Missions, NEW step \in {"docx", "txt", "failed"},
             job[m].step \in {"word", "docx", "txt", "notepad"}, Go(m, step)
      PROVE  /\ UNCHANGED Disk => DesktopInv'
             /\ \A file \in {Docx, Txt} :
                  windows' = windows /\ ~LockedFor(m, file) /\ Puts(m, file, Broken) => DesktopInv'
  <2>1. job[m].file = "none" /\ m \notin windows /\ job[m].text \in Texts
    BY <1>4 DEF DesktopInv, Before
  <2>2. /\ DOMAIN job' = Missions /\ \A k \in Missions \ {m} : job'[k] = job[k]
        /\ DOMAIN job'[m] = DOMAIN job[m] /\ job'[m].text = job[m].text
        /\ job'[m].file = "none" /\ job'[m].step = step
    BY <1>4, <2>1 DEF Go, DesktopInv
  <2>3. UNCHANGED Disk => DesktopInv'
    BY <1>4, <2>1, <2>2, GoesOn
  <2>4. ASSUME NEW file \in {Docx, Txt}, windows' = windows,
               ~LockedFor(m, file), Puts(m, file, Broken)
        PROVE  DesktopInv'
    BY <1>4, <2>2, <2>4, Writes
  <2> QED
    BY <2>3, <2>4
<1>5. ASSUME NEW m \in Missions, WriteInWord(m)
      PROVE  DesktopInv'
  BY <1>3, <1>4, <1>5 DEF WriteInWord, At, Writing
<1>6. ASSUME NEW m \in Missions, WriteDocx(m) \/ WriteTxt(m)
      PROVE  DesktopInv'
  <2>1. /\ job[m].step \in {"docx", "txt", "notepad"} /\ windows' = windows
        /\ \E file \in {Docx, Txt}, step \in Writing, next \in {"txt", "failed"} :
             Wrote(m, file, step) \/ FailedToWrite(m, file, next)
    BY <1>6 DEF WriteDocx, WriteTxt, At, Writing
  <2>2. ASSUME NEW file \in {Docx, Txt}, NEW next \in {"txt", "failed"}, FailedToWrite(m, file, next)
        PROVE  DesktopInv'
    BY <1>4, <2>1, <2>2 DEF FailedToWrite, Disk
  <2>3. ASSUME NEW file \in {Docx, Txt}, NEW step \in Writing, Wrote(m, file, step)
        PROVE  DesktopInv'
    BY <1>3, <2>1, <2>3
  <2> QED
    BY <2>1, <2>2, <2>3
<1>7. ASSUME NEW m \in Missions, Verify(m) \/ Record(m)
      PROVE  DesktopInv'
  <2>1. job[m].step \in Writing \cup {"verified"} /\ UNCHANGED Disk
    BY <1>7 DEF Verify, Record, At, Writing
  <2>2. \/ Go(m, "verified") /\ (m \in windows \/ Holds(m))
        \/ Go(m, "complete") /\ HasVerified(m)
        \/ Go(m, "failed")
    BY <1>7 DEF Verify, Record, At, HasVerified
  <2>3. /\ DOMAIN job' = Missions /\ \A k \in Missions \ {m} : job'[k] = job[k]
        /\ DOMAIN job'[m] = DOMAIN job[m]
        /\ job'[m].text = job[m].text /\ job'[m].file = job[m].file
        /\ job'[m].step \in {"verified", "complete", "failed"}
        /\ job'[m].step # "failed" => m \in windows \/ Holds(m) \/ HasVerified(m)
    BY <2>2 DEF Go, DesktopInv
  <2> QED
    BY <2>1, <2>3, GoesOn DEF Before, HasVerified
<1>8. ASSUME NEW m \in Missions, OpenInBrowser(m) \/ SendEmail(m) \/ ReassignWork(m)
      PROVE  DesktopInv'
  <2>1. job[m].step \in {"browser", "recipient", "roster"} /\ UNCHANGED Disk
    BY <1>8 DEF OpenInBrowser, SendEmail, ReassignWork, At
  <2>2. job[m].file = "none" /\ m \notin windows
    BY <2>1 DEF DesktopInv, Before
  <2>3. /\ DOMAIN job' = Missions /\ \A k \in Missions \ {m} : job'[k] = job[k]
        /\ DOMAIN job'[m] = DOMAIN job[m] /\ job'[m].file = job[m].file
        /\ job'[m].step \in {"verified", "failed", "browser"}
    <3>1. CASE OpenInBrowser(m)
      BY <3>1 DEF OpenInBrowser, Go, DesktopInv
    <3>2. CASE SendEmail(m)
      BY <3>2 DEF SendEmail, Go, DesktopInv
    <3>3. CASE ReassignWork(m)
      <4>1. CASE Go(m, "failed")
        BY <4>1 DEF Go, DesktopInv
      <4>2. ASSUME NEW absent, NEW pick,
                   job' = [job EXCEPT ![m].step = IF pick = Nobody THEN "failed" ELSE "browser",
                                      ![m].to = pick, ![m].text = absent]
            PROVE  /\ DOMAIN job' = Missions /\ \A k \in Missions \ {m} : job'[k] = job[k]
                   /\ DOMAIN job'[m] = DOMAIN job[m] /\ job'[m].file = job[m].file
                   /\ job'[m].step \in {"failed", "browser"}
        BY <4>2 DEF DesktopInv
      <4> QED
        BY <3>3, <4>1, <4>2 DEF ReassignWork
    <3> QED
      BY <1>8, <3>1, <3>2, <3>3
  <2> QED
    BY <2>1, <2>2, <2>3, GoesOn
<1>9. ASSUME NEW m \in Missions, CloseWindow(m)
      PROVE  DesktopInv'
  BY <1>9 DEF CloseWindow, DesktopInv, CompleteIsKept, HasVerified
<1>10. CASE UNCHANGED desktopVars
  BY <1>10 DEF desktopVars, DesktopInv, CompleteIsKept, HasVerified
<1> QED
  BY <1>1, <1>2, <1>5, <1>6, <1>7, <1>8, <1>9, <1>10, Zenon
     DEF DesktopStep, DesktopRuns, MissionThread

-----------------------------------------------------------------------------
(* The report and the document (OfficeFiles)                               *)

Totals == {Total[f] : f \in Figures}

\* From the writing of the workbook on, what a source says and what was read of
\* it are among what it has said since; a valid workbook says what was read.
ReportInv ==
  /\ sources \in [Sources -> Figures \cup {Unreadable}]
  /\ had \in [Sources -> SUBSET Totals]
  /\ {"step", "read", "book"} \subseteq DOMAIN report /\ report.read \in Seq(Totals)
  /\ report.step = "validate" =>
       /\ \A s \in Sources : sources[s] # Unreadable => Total[sources[s]] \in had[s]
       /\ \A i \in DOMAIN report.read : i \in Sources => report.read[i] \in had[i]
  /\ report.step = "workbook" =>
       report.book \notin Poor /\ \A s \in Sources : report.book[s] \in had[s]

\* The document's part of CheckedIsTrue is inductive as it stands.
WordInv ==
  /\ {"step", "expects", "held", "before", "counted"} \subseteq DOMAIN word
  /\ word.step = "verified" /\ word.expects /\ ~touched => document \in HasText

LEMMA OfficeStarts ==
  ASSUME OfficeInit
  PROVE  ReportInv /\ WordInv
<1>1. (CHOOSE f \in Figures : TRUE) \in Figures
  BY OfficeAssumption
<1>2. sources \in [Sources -> Figures \cup {Unreadable}]
  BY <1>1 DEF OfficeInit
<1>3. had \in [Sources -> SUBSET Totals]
  BY DEF OfficeInit
<1>4. /\ {"step", "read", "book"} \subseteq DOMAIN report /\ report.read \in Seq(Totals)
      /\ report.step \in {"create", "off"}
  BY DEF OfficeInit
<1>5. WordInv
  BY DEF OfficeInit, WordInv
<1> QED
  BY <1>2, <1>3, <1>4, <1>5 DEF ReportInv

LEMMA WordInvInductive ==
  ASSUME WordInv, OfficeStep \/ UNCHANGED officeVars
  PROVE  WordInv'
<1>1. CASE Open
  BY <1>1 DEF Open, WordInv, Stage
<1>2. CASE InspectFile
  BY <1>2 DEF InspectFile, WordInv
<1>3. CASE EditText
  BY <1>3 DEF EditText, WordInv
<1>4. CASE SaveFile
  BY <1>4 DEF SaveFile, WordInv, Stage
<1>5. CASE VerifyChanged
  BY <1>5 DEF VerifyChanged, WordInv, Stage
<1>6. CASE ReopenAndVerify
  BY <1>6 DEF ReopenAndVerify, WordInv, Stage, DocumentContains
<1>7. CASE EditDocument
  BY <1>7 DEF EditDocument, WordInv
<1>8. CASE UNCHANGED wordVars
  BY <1>8 DEF wordVars, WordInv
<1> QED
  BY <1>1, <1>2, <1>3, <1>4, <1>5, <1>6, <1>7, <1>8
     DEF OfficeStep, OfficeRuns, WordRuns, ReportRuns, ReadSource, WriteWorkbook, Validate,
         EditSource, officeVars, wordVars

LEMMA ReportInvInductive ==
  ASSUME ReportInv, OfficeStep \/ UNCHANGED officeVars
  PROVE  ReportInv'
<1>1. CASE ReadSource
  <2>1. /\ sources' = sources /\ had' = had
        /\ Len(report.read) < 3
    BY <1>1 DEF ReadSource
  <2> DEFINE next  == Len(report.read) + 1
             found == sources[next]
  <2>2. next \in Sources
    <3>1. Len(report.read) \in Nat
      BY DEF ReportInv
    <3> QED
      BY <2>1, <3>1 DEF Sources
  <2>3. CASE found = Unreadable
    BY <1>1, <2>1, <2>3 DEF ReadSource, Attach, ReportInv
  <2>4. CASE found # Unreadable
    <3>1. found \in Figures /\ Total[found] \in Totals
      BY <2>2, <2>4 DEF ReportInv, Totals
    <3>2. report' = [report EXCEPT !.read = Append(report.read, Total[found])]
      BY <1>1, <2>4 DEF ReadSource
    <3>3. /\ DOMAIN report' = DOMAIN report /\ report'.read \in Seq(Totals)
          /\ report'.step = report.step /\ report'.book = report.book
          /\ report'.read = Append(report.read, Total[found])
      BY <3>1, <3>2 DEF ReportInv
    <3>4. ASSUME report.step = "validate", NEW i \in DOMAIN report'.read, i \in Sources
          PROVE  report'.read[i] \in had[i]
      <4>1. CASE i \in DOMAIN report.read
        BY <3>1, <3>3, <3>4, <4>1 DEF ReportInv
      <4>2. CASE i = next
        BY <2>2, <2>4, <3>1, <3>3, <3>4, <4>2 DEF ReportInv
      <4> QED
        BY <3>1, <3>3, <4>1, <4>2 DEF ReportInv
    <3> QED
      BY <1>1, <2>1, <3>3, <3>4 DEF ReadSource, ReportInv
  <2> QED
    BY <2>3, <2>4
<1>2. CASE WriteWorkbook
  <2>1. sources' = sources
    BY <1>2 DEF WriteWorkbook
  <2>2. CASE /\ report' = Written(report.read)
             /\ had' = [s \in Sources |-> IF sources[s] = Unreadable THEN {} ELSE {Total[sources[s]]}]
    <3>1. had' \in [Sources -> SUBSET Totals]
      BY <2>2 DEF ReportInv, Totals
    <3>2. /\ DOMAIN report' = DOMAIN report /\ report'.read \in Seq(Totals)
          /\ report'.step = "validate" /\ report'.read = <<>>
      BY <2>2 DEF ReportInv, Written
    <3> QED
      BY <2>1, <2>2, <3>1, <3>2 DEF ReportInv
  <2>3. CASE Attach("placeholder") /\ UNCHANGED had
    BY <2>1, <2>3 DEF ReportInv, Attach
  <2> QED
    BY <1>2, <2>2, <2>3 DEF WriteWorkbook
<1>3. CASE Validate
  <2>1. /\ sources' = sources /\ had' = had
        /\ report.step = "validate" /\ Len(report.read) = 3
        /\ report' = [report EXCEPT !.step = IF Verified THEN "workbook" ELSE "placeholder"]
    BY <1>3 DEF Validate, Attach
  <2>2. CASE Verified
    <3>1. report.book = report.read /\ report.read \notin Poor
      BY <2>2 DEF Verified, Reopened, Recomputed
    <3>2. \A s \in Sources : report.read[s] \in had[s]
      BY <2>1 DEF ReportInv, Sources
    <3> QED
      BY <2>1, <2>2, <3>1, <3>2 DEF ReportInv
  <2>3. CASE ~Verified
    BY <2>1, <2>3 DEF ReportInv
  <2> QED
    BY <2>2, <2>3
<1>4. CASE EditSource
  <2>1. PICK s \in Sources, f \in Figures \cup {Unreadable} :
          /\ sources' = [sources EXCEPT ![s] = f]
          /\ had' = IF f = Unreadable THEN had ELSE [had EXCEPT ![s] = @ \cup {Total[f]}]
    BY <1>4 DEF EditSource
  <2>2. report' = report
    BY <1>4 DEF EditSource
  <2>3. /\ sources' \in [Sources -> Figures \cup {Unreadable}]
        /\ had' \in [Sources -> SUBSET Totals]
        /\ \A t \in Sources : had[t] \subseteq had'[t]
    BY <2>1 DEF ReportInv, Totals
  <2>4. report.step = "validate" =>
          \A t \in Sources : sources'[t] # Unreadable => Total[sources'[t]] \in had'[t]
    BY <2>1, <2>3 DEF ReportInv
  <2> QED
    BY <2>2, <2>3, <2>4 DEF ReportInv
<1>5. CASE UNCHANGED reportVars
  BY <1>5 DEF reportVars, ReportInv
<1> QED
  BY <1>1, <1>2, <1>3, <1>4, <1>5
     DEF OfficeStep, OfficeRuns, WordRuns, ReportRuns, Open, InspectFile, EditText, SaveFile,
         VerifyChanged, ReopenAndVerify, EditDocument, officeVars, reportVars

\* A writing mission that has verified its file has it begin with its text until
\* somebody writes over it after the check; a report that is attached says what its sources
\* have said since it was written, and misses no target; a document that is
\* verified has the text until somebody writes it: for any missions, texts,
\* figures and contents, whoever else writes meanwhile
\* (desktop_mission.py:248-414, missions.py:100-141, word_workflow.py:154-196).
THEOREM DoneIsThere == Spec => []ReportedIsThere
<1> DEFINE Inv == DesktopInv /\ ReportInv /\ WordInv
<1>1. Init => Inv
  BY DesktopStarts, OfficeStarts DEF Init
<1>2. Inv /\ [Next]_vars => Inv'
  BY DesktopInvInductive, ReportInvInductive, WordInvInductive, StepOfEach
<1>3. Inv => ReportedIsThere
  BY DEF DesktopInv, ReportInv, WordInv, ReportedIsThere, CheckedIsTrue
<1> QED
  BY <1>1, <1>2, <1>3, PTL DEF Spec

-----------------------------------------------------------------------------
(* The router (ModelGateway)                                               *)

\* The model at work is the first of those that are left, in the order of when
\* the request came; the others have failed all their attempts.
GatewayInv ==
  /\ {"step", "kind", "model", "left", "attempt", "reply"} \subseteq DOMAIN call
  /\ registered \subseteq Models /\ exhausted \subseteq registered
  /\ call.step # "idle" =>
       /\ call.left \subseteq registered
       /\ call.model \in Eligible(call.left, sunk)
       /\ registered \ call.left \subseteq exhausted
  /\ call.step = "failed" => exhausted = registered

LEMMA GatewayStarts ==
  ASSUME GatewayInit
  PROVE  GatewayInv
BY GatewayAssumption DEF GatewayInit, GatewayInv, Idle, Configured

\* When so many have been tried as one request may try, all have been.
LEMMA EnoughIsAll ==
  ASSUME registered \subseteq Models, NEW rest \in SUBSET registered, Enough(rest)
  PROVE  rest = {}
<1>1. CASE Cardinality(registered \ rest) >= MaxModels
  <2>1. IsFiniteSet(Models) /\ Cardinality(Models) <= MaxModels /\ MaxModels \in Nat
    BY GatewayAssumption
  <2>2. IsFiniteSet(registered) /\ Cardinality(registered) <= Cardinality(Models)
    BY <2>1, FS_Subset
  <2>3. Cardinality(registered) \in Nat /\ Cardinality(Models) \in Nat
    BY <2>1, <2>2, FS_CardinalityType
  <2>4. Cardinality(registered \ rest) \in Nat
    BY <2>2, FS_Subset, FS_CardinalityType
  <2>5. Cardinality(registered \ rest) >= Cardinality(registered)
    BY <1>1, <2>1, <2>2, <2>3, <2>4
  <2>6. /\ registered \ rest \subseteq registered
        /\ Cardinality(registered \ rest) <= Cardinality(registered)
        /\ Cardinality(registered) = Cardinality(registered \ rest) => registered = registered \ rest
    BY <2>2, FS_Subset
  <2> QED
    BY <2>3, <2>4, <2>5, <2>6
<1> QED
  BY <1>1 DEF Enough

LEMMA GatewayInvInductive ==
  ASSUME GatewayInv, GatewayStep \/ UNCHANGED gatewayVars
  PROVE  GatewayInv'
<1>1. CASE Ask
  <2>1. PICK kind \in RequestKinds, first \in Eligible(registered, sunk') :
          call' = [Idle EXCEPT !.step = "trying", !.kind = kind, !.model = first, !.left = registered]
    BY <1>1 DEF Ask
  <2>2. registered' = registered /\ exhausted' = {}
    BY <1>1 DEF Ask
  <2>3. /\ {"step", "kind", "model", "left", "attempt", "reply"} \subseteq DOMAIN call'
        /\ call'.step = "trying" /\ call'.model = first /\ call'.left = registered
    BY <2>1 DEF Idle
  <2> QED
    BY <2>2, <2>3 DEF GatewayInv, Eligible, GoesBefore
<1>2. CASE Attempt
  <2>1. /\ call.step = "trying" /\ registered' = registered /\ sunk' = sunk
    BY <1>2 DEF Attempt
  <2>2. PICK reply \in Replies(call.model) :
          \/ Answer(call.model, reply) \/ Escape(call.model, reply)
          \/ Retry(call.model, reply)  \/ FallBack(call.model, reply)
    BY <1>2 DEF Attempt
  <2>3. CASE Answer(call.model, reply)
    BY <2>1, <2>3 DEF Answer, GatewayInv, Eligible, GoesBefore
  <2>4. CASE Escape(call.model, reply)
    BY <2>1, <2>4 DEF Escape, GatewayInv, Eligible, GoesBefore
  <2>5. CASE Retry(call.model, reply)
    BY <2>1, <2>5 DEF Retry, GatewayInv, Eligible, GoesBefore
  <2>6. CASE FallBack(call.model, reply)
    <3>1. exhausted' = exhausted \cup {call.model} /\ exhausted' \subseteq registered
      BY <2>1, <2>6 DEF FallBack, GatewayInv, Eligible
    <3>2. Rest \subseteq registered /\ registered \ Rest \subseteq exhausted'
      BY <2>1, <3>1 DEF Rest, GatewayInv
    <3>3. CASE Enough(Rest)
      <4>1. exhausted' = registered
        BY <3>1, <3>2, <3>3, EnoughIsAll DEF GatewayInv
      <4>2. call' = [call EXCEPT !.step = "failed"]
        BY <2>6, <3>3 DEF FallBack
      <4> QED
        BY <2>1, <4>1, <4>2 DEF GatewayInv, Eligible, GoesBefore
    <3>4. CASE ~Enough(Rest)
      <4>1. PICK next \in Eligible(Rest, sunk) :
              call' = [call EXCEPT !.model = next, !.left = Rest, !.attempt = 1]
        BY <2>6, <3>4 DEF FallBack
      <4>2. /\ DOMAIN call' = DOMAIN call /\ call'.step = "trying"
            /\ call'.model = next /\ call'.left = Rest
        BY <2>1, <4>1 DEF GatewayInv
      <4> QED
        BY <2>1, <3>1, <3>2, <4>2 DEF GatewayInv, Eligible, GoesBefore
    <3> QED
      BY <3>3, <3>4
  <2> QED
    BY <2>2, <2>3, <2>4, <2>5, <2>6
<1>3. CASE Use
  BY <1>3 DEF Use, GatewayInv, Eligible, GoesBefore
<1>4. CASE Return
  BY <1>4 DEF Return, Idle, GatewayInv
<1>5. CASE UNCHANGED gatewayVars
  BY <1>5 DEF gatewayVars, GatewayInv, Eligible, GoesBefore
<1> QED
  BY <1>1, <1>2, <1>3, <1>4, <1>5 DEF GatewayStep, GatewayRuns

\* Whichever models are registered and however their providers fail, the answer
\* is that of the best model that had not failed or sunk, and a request fails only
\* when every model has (router.py:53-57, 78-99).
THEOREM TheBestAnswers == Spec => []BestThatWorks
<1>1. Init => GatewayInv
  BY GatewayStarts DEF Init
<1>2. GatewayInv /\ [Next]_vars => GatewayInv'
  BY GatewayInvInductive, StepOfEach
<1>3. ASSUME GatewayInv
      PROVE  BestThatWorks
  <2>1. ASSUME call.step \in {"answered", "model"}, NEW m \in registered,
               Priority[m] > Priority[call.model], m \notin exhausted
        PROVE  m \in sunk
    <3>1. m \in call.left /\ call.model \in call.left /\ ~GoesBefore(m, call.model, sunk)
      BY <1>3, <2>1 DEF GatewayInv, Eligible
    <3> QED
      BY <2>1, <3>1 DEF GoesBefore
  <2> QED
    BY <1>3, <2>1 DEF GatewayInv, BestThatWorks
<1> QED
  BY <1>1, <1>2, <1>3, PTL DEF Spec

-----------------------------------------------------------------------------
(* The tasks of the page (TaskPage)                                        *)

\* The frame that is to end a step comes after the others of that step.
Ends(i, frames) ==
  \E f \in frames :
    /\ f.step = i /\ f.to = "COMPLETE"
    /\ \A g \in frames : g.step = i => g = f \/ g.at < f.at

\* As long as the end of a script is to come, its task is approved and every
\* step is done or has its end to come; nothing comes after the end.
Fits(frames, row) ==
  /\ \A f \in frames :
       \/ f = EndFrame
       \/ f.status # "COMPLETE" /\ f.at < EndFrame.at /\ f.step \in 0..NumSteps
  /\ \A f \in frames : f.at \in Nat
  /\ DOMAIN row.steps = Steps
  /\ EndFrame \in frames =>
       /\ row.approval = "APPROVED"
       /\ \A i \in Steps :
            \/ Ends(i, frames)
            \/ row.steps[i] = "COMPLETE" /\ \A f \in frames : f.step # i

Earned(row) ==
  row.status = "COMPLETE" =>
    row.approval = "APPROVED" /\ \A i \in Steps : row.steps[i] = "COMPLETE"

Statuses == {"QUEUED", "RUNNING", "AWAITING_APPROVAL", "BLOCKED"} \cup Terminal

PageInv ==
  /\ DOMAIN tasks = Tasks
  /\ \A t \in Tasks : {"status", "steps", "approval"} \subseteq DOMAIN tasks[t]
  /\ \A t \in Tasks \ {Real} : tasks[t] = Absent \/ DOMAIN tasks[t].steps = Steps
  /\ \A t \in Tasks \ {Real} : Earned(tasks[t])
  /\ player.task \in Tasks
  /\ player.frames # {} /\ player.task = Real => view.driven
  /\ player.frames # {} /\ player.task # Real => Fits(player.frames, tasks[player.task])
  /\ {"connected", "step", "seen", "refresh", "driven"} \subseteq DOMAIN view
  /\ backend \in Seq(Statuses) /\ Len(backend) >= 1
  /\ view.step = "ended" => Status \in Terminal /\ (view.driven \/ tasks[Real].status = Status)

LEMMA TheEnd ==
  /\ NumSteps \in Nat
  /\ \A i \in Steps : i \in Nat /\ i # 0
  /\ EndFrame.at = 2 * NumSteps + 2 /\ EndFrame.at \in Nat
  /\ EndFrame.step = 0 /\ EndFrame.status = "COMPLETE"
<1>1. NumSteps \in Nat
  BY PageAssumption DEF NumSteps
<1> QED
  BY <1>1 DEF Steps, EndFrame, Frame

LEMMA PageStarts ==
  ASSUME PageInit
  PROVE  PageInv
<1>1. DOMAIN Started = Steps /\ Real \notin Seeded
  BY PageAssumption DEF Steps, NumSteps
<1>2. backend \in Seq(Statuses) /\ Len(backend) >= 1
  <2>1. backend = <<"QUEUED">>
    BY Zenon DEF PageInit
  <2> QED
    BY <2>1 DEF Statuses
<1>3. /\ {"connected", "step", "seen", "refresh", "driven"} \subseteq DOMAIN view
      /\ view.step = "closed"
  BY DEF PageInit
<1>4. /\ DOMAIN tasks = Tasks /\ player.task \in Tasks /\ player.frames = {}
      /\ \A t \in Tasks : {"status", "steps", "approval"} \subseteq DOMAIN tasks[t]
      /\ \A t \in Tasks \ {Real} : tasks[t] = Absent \/ DOMAIN tasks[t].steps = Steps
      /\ \A t \in Tasks : tasks[t].status # "COMPLETE"
  BY <1>1 DEF PageInit, Tasks, Absent
<1> QED
  BY <1>2, <1>3, <1>4 DEF PageInv, Earned

\* Playing a script changes no task but its own, and that one only in its status
\* and steps.
LEMMA PlayOthers ==
  ASSUME NEW t \in Tasks, NEW frames, NEW store, Play(t, frames, store),
         DOMAIN store = Tasks,
         \A k \in Tasks : {"status", "steps", "approval"} \subseteq DOMAIN store[k]
  PROVE  /\ DOMAIN tasks' = Tasks
         /\ \A k \in Tasks : {"status", "steps", "approval"} \subseteq DOMAIN tasks'[k]
         /\ \A k \in Tasks \ {t} : tasks'[k] = store[k]
         /\ tasks'[t].approval = store[t].approval
         /\ player'.task = t
<1>1. PICK frame \in frames :
        /\ tasks' = [store EXCEPT
             ![t].status = frame.status,
             ![t].steps  = IF frame.step = 0 THEN @ ELSE [@ EXCEPT ![frame.step] = frame.to]]
        /\ player' = [task |-> t, frames |-> IF frame.pause THEN {} ELSE frames \ {frame}]
  BY DEF Play
<1> DEFINE steps == IF frame.step = 0 THEN store[t].steps
                                      ELSE [store[t].steps EXCEPT ![frame.step] = frame.to]
<1>2. tasks' = [store EXCEPT ![t] = [store[t] EXCEPT !.status = frame.status, !.steps = steps]]
  BY <1>1
<1> HIDE DEF steps
<1> QED
  BY <1>1, <1>2

\* A script that fits its task goes on fitting it, and its end finds the task
\* approved and every step done.
LEMMA PlayFits ==
  ASSUME NEW t \in Tasks, NEW frames, NEW store, Play(t, frames, store),
         DOMAIN store = Tasks,
         \A k \in Tasks : {"status", "steps", "approval"} \subseteq DOMAIN store[k],
         Fits(frames, store[t])
  PROVE  /\ Earned(tasks'[t])
         /\ Fits(player'.frames, tasks'[t])
<1>1. PICK frame \in frames :
        /\ \A later \in frames : frame.at <= later.at
        /\ tasks' = [store EXCEPT
             ![t].status = frame.status,
             ![t].steps  = IF frame.step = 0 THEN @ ELSE [@ EXCEPT ![frame.step] = frame.to]]
        /\ player' = [task |-> t, frames |-> IF frame.pause THEN {} ELSE frames \ {frame}]
  BY DEF Play
<1> DEFINE steps == IF frame.step = 0 THEN store[t].steps
                                      ELSE [store[t].steps EXCEPT ![frame.step] = frame.to]
<1>2. tasks' = [store EXCEPT ![t] = [store[t] EXCEPT !.status = frame.status, !.steps = steps]]
  BY <1>1
<1>3. DOMAIN steps = Steps
  BY DEF Fits
<1>4. \A i \in Steps : i # frame.step => steps[i] = store[t].steps[i]
  BY <1>3 DEF Fits
<1>5. frame.step \in Steps => steps[frame.step] = frame.to
  BY TheEnd DEF Fits
<1> HIDE DEF steps
<1>6. /\ tasks'[t].status = frame.status /\ tasks'[t].steps = steps
      /\ tasks'[t].approval = store[t].approval
  BY <1>2
<1>7. player'.frames \subseteq frames /\ (player'.frames = {} \/ player'.frames = frames \ {frame})
  BY <1>1
<1>8. CASE frame = EndFrame
  <2>1. \A f \in frames : f = EndFrame
    BY <1>1, <1>8, TheEnd DEF Fits
  <2>2. \A i \in Steps : ~Ends(i, frames)
    BY <2>1, TheEnd DEF Ends
  <2>3. /\ store[t].approval = "APPROVED"
        /\ \A i \in Steps : store[t].steps[i] = "COMPLETE"
    BY <1>8, <2>2 DEF Fits
  <2>4. \A i \in Steps : steps[i] = "COMPLETE"
    BY <1>4, <1>8, <2>3, TheEnd
  <2>5. player'.frames = {}
    BY <1>7, <1>8, <2>1
  <2> QED
    BY <1>3, <1>6, <2>3, <2>4, <2>5 DEF Earned, Fits
<1>9. CASE frame # EndFrame
  <2>1. Earned(tasks'[t])
    BY <1>6, <1>9 DEF Fits, Earned
  <2>2. ASSUME NEW i \in Steps, EndFrame \in player'.frames
        PROVE  \/ Ends(i, player'.frames)
               \/ steps[i] = "COMPLETE" /\ \A f \in player'.frames : f.step # i
    <3>1. player'.frames = frames \ {frame} /\ EndFrame \in frames
      BY <1>7, <2>2
    <3>2. CASE Ends(i, frames)
      <4>1. PICK f \in frames : /\ f.step = i /\ f.to = "COMPLETE"
                                /\ \A g \in frames : g.step = i => g = f \/ g.at < f.at
        BY <3>2 DEF Ends
      <4>2. CASE f # frame
        BY <3>1, <4>1, <4>2 DEF Ends
      <4>3. CASE f = frame
        <5>1. \A g \in frames : g.step = i => g = frame
          BY <1>1, <4>1, <4>3 DEF Fits
        <5> QED
          BY <1>5, <3>1, <4>1, <4>3, <5>1
      <4> QED
        BY <4>2, <4>3
    <3>3. CASE store[t].steps[i] = "COMPLETE" /\ \A f \in frames : f.step # i
      BY <1>4, <3>1, <3>3
    <3> QED
      BY <3>1, <3>2, <3>3 DEF Fits
  <2>3. EndFrame \in player'.frames => tasks'[t].approval = "APPROVED"
    BY <1>6, <1>7 DEF Fits
  <2> QED
    BY <1>3, <1>6, <1>7, <2>1, <2>2, <2>3 DEF Fits
<1> QED
  BY <1>8, <1>9

\* The two scripts fit the tasks they are built for.
LEMMA ScriptsFit ==
  ASSUME NEW t \in Tasks \ {Real}, NEW row, DOMAIN row.steps = Steps
  PROVE  /\ Fits(BuildScript(t), row)
         /\ row.approval = "APPROVED" => Fits(BuildResumeScript(t, row.steps), row)
<1>1. Gate(t) \in Steps
  BY PageAssumption, TheEnd DEF Gate, Steps
<1>2. ASSUME NEW i \in Steps, NEW f \in StepFrames(i)
      PROVE  /\ f.status = "RUNNING" /\ f.step = i /\ f.at \in Nat /\ f.at < EndFrame.at
             /\ i \in 0..NumSteps
  BY <1>2, TheEnd DEF StepFrames, Frame, Steps
<1>3. Fits(BuildScript(t), row)
  <2>1. ASSUME NEW f \in BuildScript(t)
        PROVE  f.status # "COMPLETE" /\ f.at \in Nat /\ f.at < EndFrame.at /\ f.step \in 0..NumSteps
    <3>1. CASE f \in {Frame(0, "PLANNING", 0, "", FALSE), Frame(1, "VALIDATING", 0, "", FALSE)}
      <4>1. f.step = 0 /\ f.at \in {0, 1} /\ f.status \in {"PLANNING", "VALIDATING"}
        <5>1. CASE f = Frame(0, "PLANNING", 0, "", FALSE)
          BY <5>1 DEF Frame
        <5>2. CASE f = Frame(1, "VALIDATING", 0, "", FALSE)
          BY <5>2 DEF Frame
        <5> QED
          BY <3>1, <5>1, <5>2
      <4> QED
        BY <4>1, TheEnd
    <3>2. ASSUME NEW i \in Steps, f = Frame(2 * i, "AWAITING_APPROVAL", i, "APPROVAL", TRUE)
          PROVE  f.status # "COMPLETE" /\ f.at \in Nat /\ f.at < EndFrame.at /\ f.step \in 0..NumSteps
      BY <3>2, TheEnd DEF Frame, Steps
    <3>3. ASSUME NEW i \in Steps, f \in StepFrames(i)
          PROVE  f.status # "COMPLETE" /\ f.at \in Nat /\ f.at < EndFrame.at /\ f.step \in 0..NumSteps
      BY <1>2, <3>3
    <3> QED
      BY <2>1, <3>1, <3>2, <3>3 DEF BuildScript
  <2> QED
    BY <2>1, TheEnd DEF Fits
<1>4. ASSUME row.approval = "APPROVED"
      PROVE  Fits(BuildResumeScript(t, row.steps), row)
  <2> DEFINE frames == BuildResumeScript(t, row.steps)
             first  == Frame(0, "RUNNING", Gate(t), "COMPLETE", FALSE)
  <2>1. /\ first \in frames /\ first.step = Gate(t) /\ first.to = "COMPLETE"
        /\ first.at = 0 /\ first.status = "RUNNING"
    BY DEF BuildResumeScript, Frame
  <2>2. ASSUME NEW f \in frames
        PROVE  \/ f = first \/ f = EndFrame
               \/ f.step \in Steps /\ f \in StepFrames(f.step) /\ Remains(f.step, t, row.steps)
    <3>1. ASSUME NEW i \in Steps, f \in StepFrames(i), Remains(i, t, row.steps)
          PROVE  f.step \in Steps /\ f \in StepFrames(f.step) /\ Remains(f.step, t, row.steps)
      BY <1>2, <3>1
    <3> QED
      BY <2>2, <3>1 DEF BuildResumeScript
  <2>3. \A i \in Steps : Remains(i, t, row.steps) => StepFrames(i) \subseteq frames
    BY DEF BuildResumeScript
  <2> HIDE DEF frames, first
  <2>4. ASSUME NEW f \in frames
        PROVE  /\ f.at \in Nat
               /\ \/ f = EndFrame
                  \/ f.status # "COMPLETE" /\ f.at < EndFrame.at /\ f.step \in 0..NumSteps
    <3>1. CASE f = first
      BY <1>1, <2>1, <3>1, TheEnd DEF Steps
    <3>2. CASE f.step \in Steps /\ f \in StepFrames(f.step)
      BY <1>2, <3>2
    <3> QED
      BY <2>2, <3>1, <3>2, TheEnd
  <2>5. ASSUME NEW i \in Steps
        PROVE  Ends(i, frames) \/ (row.steps[i] = "COMPLETE" /\ \A f \in frames : f.step # i)
    <3>1. CASE i = Gate(t)
      <4>1. \A g \in frames : g.step = i => g = first
        BY <2>2, <3>1, TheEnd DEF Remains
      <4> QED
        BY <2>1, <3>1, <4>1 DEF Ends
    <3>2. CASE i # Gate(t) /\ row.steps[i] = "COMPLETE"
      BY <2>1, <2>2, <3>2, TheEnd DEF Remains
    <3>3. CASE i # Gate(t) /\ row.steps[i] # "COMPLETE"
      <4> DEFINE last == Frame(2 * i + 1, "RUNNING", i, "COMPLETE", FALSE)
      <4>1. last \in frames
        BY <2>3, <3>3 DEF Remains, StepFrames
      <4>2. last.step = i /\ last.to = "COMPLETE" /\ last.at = 2 * i + 1
        BY DEF Frame
      <4>3. ASSUME NEW g \in frames, g.step = i
            PROVE  g = last \/ g.at < last.at
        <5>1. g \in StepFrames(i)
          BY <2>1, <2>2, <3>3, <4>3, TheEnd
        <5>2. CASE g = Frame(2 * i, "RUNNING", i, "RUNNING", FALSE)
          BY <4>2, <5>2, TheEnd DEF Frame
        <5> QED
          BY <5>1, <5>2 DEF StepFrames
      <4> HIDE DEF last
      <4> QED
        BY <4>1, <4>2, <4>3 DEF Ends
    <3> QED
      BY <3>1, <3>2, <3>3
  <2>6. Fits(frames, row)
    BY <1>4, <2>4, <2>5 DEF Fits
  <2> QED
    BY <2>6 DEF frames
<1> QED
  BY <1>3, <1>4

\* A step that leaves the player and all tasks but the real one alone.
LEMMA OnlyTheReal ==
  ASSUME PageInv, player' = player,
         DOMAIN tasks' = Tasks, \A t \in Tasks \ {Real} : tasks'[t] = tasks[t],
         {"status", "steps", "approval"} \subseteq DOMAIN tasks'[Real],
         DOMAIN view' = DOMAIN view, view'.driven = view.driven,
         backend' \in Seq(Statuses), Len(backend') >= 1,
         view'.step = "ended" => Status' \in Terminal /\ (view'.driven \/ tasks'[Real].status = Status')
  PROVE  PageInv'
<1>1. Real \in Tasks
  BY DEF Tasks
<1> QED
  BY <1>1 DEF PageInv

\* A step that starts or goes on with a script of a task that is not the real one.
LEMMA PlaysOn ==
  ASSUME PageInv, NEW t \in Tasks \ {Real}, NEW frames, NEW row,
         Play(t, frames, [tasks EXCEPT ![t] = row]),
         {"status", "steps", "approval"} \subseteq DOMAIN row, Fits(frames, row),
         view' = view, backend' = backend
  PROVE  PageInv'
<1> DEFINE store == [tasks EXCEPT ![t] = row]
<1>1. /\ DOMAIN store = Tasks /\ store[t] = row
      /\ \A k \in Tasks : {"status", "steps", "approval"} \subseteq DOMAIN store[k]
      /\ \A k \in Tasks \ {t} : store[k] = tasks[k]
  BY DEF PageInv
<1>2. Play(t, frames, store)
  OBVIOUS
<1> HIDE DEF store
<1>3. /\ DOMAIN tasks' = Tasks
      /\ \A k \in Tasks : {"status", "steps", "approval"} \subseteq DOMAIN tasks'[k]
      /\ \A k \in Tasks \ {t} : tasks'[k] = tasks[k]
      /\ player'.task = t
  BY <1>1, <1>2, PlayOthers
<1>4. Earned(tasks'[t]) /\ Fits(player'.frames, tasks'[t])
  BY <1>1, <1>2, PlayFits
<1>5. DOMAIN tasks'[t].steps = Steps
  BY <1>4 DEF Fits
<1>6. Status' = Status /\ Real \in Tasks
  BY DEF Status, Tasks
<1> QED
  BY <1>3, <1>4, <1>5, <1>6 DEF PageInv

LEMMA PageInvInductive ==
  ASSUME PageInv, PageStep \/ UNCHANGED pageVars
  PROVE  PageInv'
<1>0. Real \in Tasks /\ Real \notin Seeded \cup Composed /\ Seeded \cup Composed \subseteq Tasks
  BY PageAssumption DEF Tasks
<1>1. CASE Tick
  <2>1. player.frames # {} /\ view' = view /\ backend' = backend
        /\ Play(player.task, player.frames, tasks)
    BY <1>1 DEF Tick
  <2>2. CASE player.task = Real
    <3>1. /\ DOMAIN tasks' = Tasks /\ player'.task = Real
          /\ \A k \in Tasks : {"status", "steps", "approval"} \subseteq DOMAIN tasks'[k]
          /\ \A k \in Tasks \ {Real} : tasks'[k] = tasks[k]
      BY <1>0, <2>1, <2>2, PlayOthers DEF PageInv
    <3>2. view.driven
      BY <2>1, <2>2 DEF PageInv
    <3>3. Status' = Status
      BY <2>1 DEF Status
    <3> QED
      BY <1>0, <2>1, <3>1, <3>2, <3>3 DEF PageInv
  <2>3. CASE player.task # Real
    <3> DEFINE t == player.task
    <3>1. /\ t \in Tasks \ {Real} /\ Fits(player.frames, tasks[t])
          /\ {"status", "steps", "approval"} \subseteq DOMAIN tasks[t]
      BY <2>1, <2>3 DEF PageInv
    <3>2. /\ DOMAIN tasks' = Tasks /\ player'.task = t
          /\ \A k \in Tasks : {"status", "steps", "approval"} \subseteq DOMAIN tasks'[k]
          /\ \A k \in Tasks \ {t} : tasks'[k] = tasks[k]
      BY <2>1, <3>1, PlayOthers DEF PageInv
    <3>3. Earned(tasks'[t]) /\ Fits(player'.frames, tasks'[t])
      BY <2>1, <3>1, PlayFits DEF PageInv
    <3>4. DOMAIN tasks'[t].steps = Steps
      BY <3>3 DEF Fits
    <3>5. Status' = Status
      BY <2>1 DEF Status
    <3> QED
      BY <1>0, <2>1, <3>1, <3>2, <3>3, <3>4, <3>5 DEF PageInv
  <2> QED
    BY <2>2, <2>3
<1>2. ASSUME NEW t \in Composed, Compose(t)
      PROVE  PageInv'
  <2> DEFINE row == [status |-> "QUEUED", steps |-> [i \in Steps |-> "WAITING"], approval |-> "none"]
  <2>1. /\ Play(t, BuildScript(t), [tasks EXCEPT ![t] = row])
        /\ view' = view /\ backend' = backend
    BY <1>2 DEF Compose
  <2>2. t \in Tasks \ {Real}
    BY <1>0
  <2>3. {"status", "steps", "approval"} \subseteq DOMAIN row /\ DOMAIN row.steps = Steps
    OBVIOUS
  <2> HIDE DEF row
  <2>4. Fits(BuildScript(t), row)
    BY <2>2, <2>3, ScriptsFit
  <2> QED
    BY <2>1, <2>2, <2>3, <2>4, PlaysOn
<1>3. ASSUME NEW t \in Seeded, NEW verdict \in Verdicts, NEW detail \in BOOLEAN, Decide(t, verdict, detail)
      PROVE  PageInv'
  <2> DEFINE row == [tasks[t] EXCEPT !.approval = verdict,
                                     !.status = IF verdict = "APPROVED" THEN "RUNNING" ELSE "FAILED"]
             store == [tasks EXCEPT ![t] = row]
  <2>1. t \in Tasks \ {Real} /\ tasks[t].approval = "PENDING"
    BY <1>0, <1>3 DEF Decide, Offered
  <2>2. DOMAIN tasks[t].steps = Steps
    BY <2>1 DEF PageInv, Absent
  <2>3. /\ {"status", "steps", "approval"} \subseteq DOMAIN row /\ row.steps = tasks[t].steps
        /\ row.approval = verdict /\ row.status # "COMPLETE"
    BY <2>1 DEF PageInv
  <2>4. [tasks EXCEPT ![t].approval = verdict,
                      ![t].status = IF verdict = "APPROVED" THEN "RUNNING" ELSE "FAILED"] = store
    OBVIOUS
  <2>5. view' = view /\ backend' = backend
    BY <1>3 DEF Decide
  <2> HIDE DEF row
  <2>6. CASE verdict = "APPROVED" /\ detail
    <3>1. Play(t, BuildResumeScript(t, row.steps), store)
      BY <1>3, <2>3, <2>4, <2>6 DEF Decide
    <3>2. Fits(BuildResumeScript(t, row.steps), row)
      BY <2>1, <2>2, <2>3, <2>6, ScriptsFit
    <3> QED
      BY <2>1, <2>3, <2>5, <3>1, <3>2, PlaysOn
  <2>7. CASE ~(verdict = "APPROVED" /\ detail)
    <3>1. tasks' = store /\ player' = player
      BY <1>3, <2>4, <2>7 DEF Decide
    <3>2. /\ DOMAIN tasks' = Tasks /\ tasks'[t] = row
          /\ \A k \in Tasks \ {t} : tasks'[k] = tasks[k]
      BY <2>1, <3>1 DEF PageInv
    <3>3. player.frames # {} /\ player.task = t => Fits(player.frames, row)
      BY <2>1, <2>2, <2>3 DEF PageInv, Fits
    <3>4. Earned(row)
      BY <2>3 DEF Earned
    <3>5. Status' = Status
      BY <2>5 DEF Status
    <3> QED
      BY <1>0, <2>1, <2>2, <2>3, <2>5, <3>1, <3>2, <3>3, <3>4, <3>5 DEF PageInv
  <2> QED
    BY <2>6, <2>7
<1>4. CASE \E verdict \in Verdicts, detail \in BOOLEAN : Post(verdict, detail)
  BY <1>4, <1>0 DEF Post, PageInv, Status
<1>5. CASE OnAnswer
  <2> DEFINE store == [tasks EXCEPT ![Real].approval = asked.verdict]
  <2>1. /\ DOMAIN store = Tasks
        /\ \A k \in Tasks : {"status", "steps", "approval"} \subseteq DOMAIN store[k]
        /\ \A k \in Tasks \ {Real} : store[k] = tasks[k]
        /\ store[Real].status = tasks[Real].status
    BY <1>0 DEF PageInv
  <2>2. backend' = backend /\ Status' = Status
    BY <1>5 DEF OnAnswer, Status
  <2>3. \/ UNCHANGED <<tasks, player, view>>
        \/ /\ \E frames : Play(Real, frames, store)
           /\ view' = [view EXCEPT !.driven = TRUE]
        \/ tasks' = store /\ UNCHANGED <<player, view>>
    BY <1>5, Zenon DEF OnAnswer
  <2> HIDE DEF store
  <2>4. CASE UNCHANGED <<tasks, player, view>>
    BY <1>0, <2>2, <2>4 DEF PageInv
  <2>5. CASE tasks' = store /\ UNCHANGED <<player, view>>
    BY <1>0, <2>1, <2>2, <2>5 DEF PageInv
  <2>6. CASE (\E frames : Play(Real, frames, store)) /\ view' = [view EXCEPT !.driven = TRUE]
    <3>1. /\ DOMAIN tasks' = Tasks /\ player'.task = Real
          /\ \A k \in Tasks : {"status", "steps", "approval"} \subseteq DOMAIN tasks'[k]
          /\ \A k \in Tasks \ {Real} : tasks'[k] = tasks[k]
      BY <1>0, <2>1, <2>6, PlayOthers
    <3>2. DOMAIN view' = DOMAIN view /\ view'.driven /\ view'.step = view.step
      BY <2>6 DEF PageInv
    <3> QED
      BY <1>0, <2>2, <3>1, <3>2 DEF PageInv
  <2> QED
    BY <2>3, <2>4, <2>5, <2>6
<1>6. CASE BackendMoves \/ Land
  <2>1. /\ tasks' = tasks /\ player' = player /\ view' = view
        /\ \/ backend' = backend
           \/ Status \notin Terminal /\ \E next \in Statuses : backend' = Append(backend, next)
    <3>1. CASE BackendMoves
      BY <3>1 DEF BackendMoves, Terminal, Statuses
    <3>2. CASE Land
      BY <3>2 DEF Land, Terminal, Statuses
    <3> QED
      BY <1>6, <3>1, <3>2
  <2>2. backend' \in Seq(Statuses) /\ Len(backend') >= 1
    BY <2>1 DEF PageInv
  <2>3. view.step = "ended" => Status' = Status
    BY <2>1 DEF PageInv, Status
  <2> QED
    BY <1>0, <2>1, <2>2, <2>3 DEF PageInv
<1>7. CASE LoadTask \/ SeedTimeline \/ OnEvent \/ OnEnd \/ Refresh \/ Leave
  <2>1. player' = player /\ backend' = backend /\ Status' = Status
    BY <1>7 DEF LoadTask, SeedTimeline, OnEvent, OnEnd, Refresh, Leave, Status
  <2>2. DOMAIN view' = DOMAIN view /\ view'.driven = view.driven
    BY <1>7 DEF LoadTask, SeedTimeline, OnEvent, OnEnd, Refresh, Leave, PageInv
  <2>3. /\ DOMAIN tasks' = Tasks /\ \A t \in Tasks \ {Real} : tasks'[t] = tasks[t]
        /\ {"status", "steps", "approval"} \subseteq DOMAIN tasks'[Real]
    <3>1. CASE LoadTask \/ Refresh
      BY <1>0, <3>1 DEF LoadTask, Refresh, Shown, PageInv
    <3>2. CASE OnEvent
      BY <1>0, <3>2 DEF OnEvent, PageInv
    <3>3. CASE OnEnd
      BY <1>0, <3>3 DEF OnEnd, PageInv
    <3>4. CASE SeedTimeline \/ Leave
      BY <1>0, <3>4 DEF SeedTimeline, Leave, PageInv
    <3> QED
      BY <1>7, <3>1, <3>2, <3>3, <3>4
  <2>4. ASSUME view'.step = "ended"
        PROVE  Status \in Terminal /\ (view'.driven \/ tasks'[Real].status = Status)
    <3>1. CASE OnEnd
      BY <1>0, <3>1 DEF OnEnd, PageInv
    <3>2. CASE Refresh
      BY <1>0, <2>2, <2>4, <3>2 DEF Refresh, Shown, PageInv
    <3>3. CASE LoadTask \/ SeedTimeline \/ OnEvent \/ Leave
      BY <2>4, <3>3 DEF LoadTask, SeedTimeline, OnEvent, Leave, PageInv
    <3> QED
      BY <1>7, <3>1, <3>2, <3>3
  <2>5. backend' \in Seq(Statuses) /\ Len(backend') >= 1
    BY <2>1 DEF PageInv
  <2> QED
    BY <2>1, <2>2, <2>3, <2>4, <2>5, OnlyTheReal
<1>8. ASSUME NEW t \in Tasks, NEW next, TaskHeader(t, next)
      PROVE  PageInv'
  <2>1. /\ tasks[t] # Absent /\ next # "COMPLETE" /\ tasks[t].status \notin Terminal
        /\ tasks' = [tasks EXCEPT ![t].status = next]
        /\ UNCHANGED <<player, backend, view, asked>>
    BY <1>8 DEF TaskHeader, Offers, Terminal
  <2>2. /\ DOMAIN tasks' = Tasks /\ \A k \in Tasks \ {t} : tasks'[k] = tasks[k]
        /\ {"status", "steps", "approval"} \subseteq DOMAIN tasks'[t]
        /\ tasks'[t].status = next /\ tasks'[t].steps = tasks[t].steps
        /\ tasks'[t].approval = tasks[t].approval
    BY <2>1 DEF PageInv
  <2>3. Status' = Status
    BY <2>1 DEF Status
  <2>4. CASE t = Real
    <3>1. view.step = "ended" => view.driven
      BY <2>1, <2>4 DEF PageInv
    <3> QED
      BY <1>0, <2>1, <2>2, <2>3, <2>4, <3>1 DEF PageInv
  <2>5. CASE t # Real
    <3>1. Earned(tasks'[t])
      BY <2>1, <2>2 DEF Earned
    <3>2. player.frames # {} /\ player.task = t => Fits(player.frames, tasks'[t])
      BY <2>2, <2>5 DEF PageInv, Fits
    <3>3. DOMAIN tasks'[t].steps = Steps
      BY <2>1, <2>2, <2>5 DEF PageInv
    <3> QED
      BY <1>0, <2>1, <2>2, <2>3, <2>5, <3>1, <3>2, <3>3 DEF PageInv
  <2> QED
    BY <2>4, <2>5
<1>9. CASE UNCHANGED pageVars
  BY <1>0, <1>9 DEF pageVars, PageInv, Status
<1> QED
  BY <1>1, <1>2, <1>3, <1>4, <1>5, <1>6, <1>7, <1>8, <1>9, Zenon
     DEF PageStep, PageTimers, PageFeeds, PageUser

\* A simulated task that is shown complete was approved and has every step done,
\* whatever its script, whichever other scripts the one timer played meanwhile and
\* whatever the user decided; the real one, once its end was read, is shown as it
\* ended, unless the player has driven it (simulation.ts:154-326,
\* sim-store.ts:33-114, use-connected-task.ts:97-102).
THEOREM CompleteIsEarnedOnThePage == Spec => []ShownIsEarned
<1>1. Init => PageInv
  BY PageStarts DEF Init
<1>2. PageInv /\ [Next]_vars => PageInv'
  BY PageInvInductive, StepOfEach
<1>3. PageInv => ShownIsEarned
  BY DEF PageInv, Earned, ShownIsEarned
<1> QED
  BY <1>1, <1>2, <1>3, PTL DEF Spec

=============================================================================
