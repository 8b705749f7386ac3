---------------------------- MODULE ComputerLoop ----------------------------
(***************************************************************************)
(* The two loops that drive an application (src/ai-ml/src/autoflow_ai/     *)
(* society/autonomous.py, computer_use/workflow.py) through the tools of   *)
(* computer_use/tools.py and a desktop adapter: an agent that observes,    *)
(* decides, acts and looks again until it sees its goal, and a list of     *)
(* steps run with recovery.  Nobody else uses the desktop meanwhile.       *)
(*                                                                         *)
(* The editor shows nothing, the beginning of the text, all of it, or      *)
(* something garbled, of which there is always another.                    *)
(***************************************************************************)
EXTENDS Naturals, Sequences, FiniteSets

CONSTANTS
  MaxSteps,    \* rounds of the agent's loop
  MaxActions,  \* RateLimits.max_actions_per_task
  FlowTools    \* the tools of the steps of a workflow, in order

ASSUME LoopAssumption ==
  /\ MaxSteps \in Nat \ {0} /\ MaxActions \in Nat \ {0} /\ Len(FlowTools) \in Nat \ {0}

VARIABLES
  screen,    \* is an application open, what its editor shows
  saved,     \* what was in the editor when it was last really saved
  unsaved,   \* history: why saves that were reported ok have saved nothing
  agent,     \* the agent: where it is, its goal, what it has counted
  flow       \* the workflow: its step, failures of that step, actions, status

computerVars == <<screen, saved, unsaved, agent, flow>>
desktop      == <<screen, saved, unsaved>>

MaxSame == 3  \* StuckDetector
Ladder  == 3  \* RecoveryEngine(max_steps=3)

Blank == [open |-> FALSE, text |-> "none", garble |-> 0]

\* A text in the editor, saved or not; "other" when it expects a window that
\* this application does not have.
Goals == [text : BOOLEAN, saved : BOOLEAN, other : BOOLEAN]

\* One of the two loops, or neither, has the desktop.
ComputerInit ==
  /\ screen = Blank /\ saved = "never" /\ unsaved = {}
  /\ \E goal \in Goals, drives \in {"agent", "flow", "nobody"} :
       /\ agent = [goal |-> goal, step |-> IF drives = "agent" THEN "observe" ELSE "off",
                   round |-> 1, actions |-> 0, decided |-> "none",
                   states |-> <<>>, tried |-> <<>>, confirmed |-> FALSE]
       /\ flow = [step |-> 1, failed |-> 0, actions |-> 0, states |-> <<>>, tried |-> <<>>,
                  status |-> IF drives = "flow" THEN "next" ELSE "off"]

Times(x, seq) == Cardinality({i \in DOMAIN seq : seq[i] = x})
Stuck(x, seq) == Times(x, seq) + 1 >= MaxSame

-----------------------------------------------------------------------------
(* The tools on the adapter                                                *)

Launch(ok) ==
  /\ \/ screen' = [Blank EXCEPT !.open = TRUE]
     \/ UNCHANGED screen
  /\ ok \in BOOLEAN /\ UNCHANGED <<saved, unsaved>>

\* Keys get lost; what is missing is typed after what is there.
Type(ok) ==
  /\ \/ screen' = [screen EXCEPT !.text = "whole"]
     \/ screen.text = "none" /\ screen' = [screen EXCEPT !.text = "part"]
     \/ screen' = [screen EXCEPT !.text = "garbled", !.garble = @ + 1]
     \/ UNCHANGED screen
  /\ ok \in BOOLEAN /\ UNCHANGED <<saved, unsaved>>

\* The tool does not look at the status of the keys: an adapter that says it
\* could not send them is reported ok.  Keys that were sent save nothing when
\* the editor asks for a name.
SaveKeys(ok) ==
  /\ \/ ok /\ saved' = screen.text /\ UNCHANGED unsaved
     \/ /\ ok /\ UNCHANGED saved
        /\ \E why \in {"keys not sent", "name asked"} : unsaved' = unsaved \cup {why}
     \/ ~ok /\ UNCHANGED <<saved, unsaved>>
  /\ UNCHANGED screen

Tool(name, ok) ==
  \/ name = "launch" /\ Launch(ok)
  \/ name \in {"type", "type_missing"} /\ Type(ok)
  \/ name = "save" /\ SaveKeys(ok)

-----------------------------------------------------------------------------
(* The agent                                                               *)

\* What is seen, and what is remembered of the save.
GoalMet(a) ==
  /\ screen.open /\ ~a.goal.other
  /\ a.goal.text => screen.text = "whole"
  /\ a.goal.saved => a.confirmed

\* Seeded fault: the save comes before the text.
PolicySavesFirst(a) ==
  IF ~screen.open THEN "launch"
  ELSE IF a.goal.saved /\ ~a.confirmed THEN "save"
  ELSE IF a.goal.text /\ screen.text # "whole" THEN "type" ELSE "none"

\* The one next action that brings the goal nearer.
Policy(a) ==
  IF ~screen.open THEN "launch"
  ELSE IF a.goal.text /\ screen.text # "whole"
    THEN IF screen.text = "part" THEN "type_missing" ELSE "type"
  ELSE IF a.goal.saved THEN "save" ELSE "none"

Allowed(loop) == loop.actions < MaxActions

Stop(outcome) == agent' = [agent EXCEPT !.step = outcome]

Observe ==
  /\ agent.step = "observe" /\ agent.round <= MaxSteps
  /\ LET next == Policy(agent) IN
     IF GoalMet(agent) THEN Stop("goal_verified")
     ELSE IF next = "none" THEN Stop("no_action")
     ELSE \/ Stop("rate_limited")  \* by the clock, or by the count
          \/ /\ Allowed(agent)
             /\ IF Stuck(screen, agent.states) \/ Stuck(next, agent.tried)
                  THEN Stop("stuck")
                  ELSE agent' = [agent EXCEPT !.step = "act", !.decided = next,
                                              !.states = Append(@, screen),
                                              !.tried = Append(@, next)]
  /\ UNCHANGED <<desktop, flow>>

\* A tool that is not ok ends the loop; a save that is ok confirms the save.
Act ==
  /\ agent.step = "act"
  /\ \E ok \in BOOLEAN :
       /\ Tool(agent.decided, ok)
       /\ agent' = [agent EXCEPT !.step = IF ok THEN "observe" ELSE "failed",
                                 !.round = @ + 1, !.actions = @ + 1, !.decided = "none",
                                 !.confirmed = @ \/ (agent.decided = "save" /\ ok)]
  /\ UNCHANGED flow

OutOfRounds ==
  /\ agent.step = "observe" /\ agent.round > MaxSteps
  /\ Stop(IF GoalMet(agent) THEN "goal_verified" ELSE "step_limit")
  /\ UNCHANGED <<desktop, flow>>

AgentRuns == Observe \/ Act \/ OutOfRounds

-----------------------------------------------------------------------------
(* The workflow                                                            *)

\* The limits are asked once per step, before its first run.
NextStep ==
  /\ flow.status = "next"
  /\ IF flow.step > Len(FlowTools) THEN flow' = [flow EXCEPT !.status = "success"]
     ELSE \/ flow' = [flow EXCEPT !.status = "timeout"]
          \/ Allowed(flow) /\ flow' = [flow EXCEPT !.status = "run", !.failed = 0]
  /\ UNCHANGED <<desktop, agent>>

\* A step that fails is run again, until the same state or the same tool has
\* failed three times in the workflow, or the ladder of this step is used up:
\* the third failure of a tool always comes first.
RunStep ==
  /\ flow.status = "run"
  /\ LET tool == FlowTools[flow.step] IN
     \E ok, verified \in BOOLEAN :
       /\ Tool(tool, ok)
       /\ IF ok /\ verified
            THEN flow' = [flow EXCEPT !.status = "next", !.step = @ + 1, !.actions = @ + 1]
            ELSE flow' = [flow EXCEPT !.actions = @ + 1, !.failed = @ + 1,
                            !.states = Append(@, screen'), !.tried = Append(@, tool),
                            !.status = IF Stuck(screen', flow.states) \/ Stuck(tool, flow.tried)
                                         THEN "needs_replan"
                                       ELSE IF flow.failed + 1 >= Ladder THEN "failed" ELSE @]
  /\ UNCHANGED agent

FlowRuns == NextStep \/ RunStep

ComputerRuns == AgentRuns \/ FlowRuns

-----------------------------------------------------------------------------
(* Properties                                                              *)

\* A goal that asks for a saved text and is verified has what the editor
\* shows on the disk: the save came after the text was whole, and nothing was
\* typed since.  The exceptions are a save whose keys the adapter could not
\* send, which the tool reports as sent, and one at which the editor asked for a
\* name (autonomous.py:90-120, 223-225, 257-270).
VerifiedIsSaved ==
  agent.step = "goal_verified" /\ agent.goal.saved => saved = screen.text \/ unsaved # {}

\* What the tool reports is not what happened: without the exceptions,
\* VerifiedIsSaved does not hold ("never by faking success",
\* autonomous.py:9-11).
SavedForReal ==
  agent.step = "goal_verified" /\ agent.goal.saved => saved = screen.text

=============================================================================
