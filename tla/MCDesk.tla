------------------------------- MODULE MCDesk -------------------------------
(***************************************************************************)
(* Model values for Desk: the two remote models the environment may        *)
(* configure beside the rule engine, which share the name of their         *)
(* provider; two texts that begin alike; tasks as the mock data has them.  *)
(***************************************************************************)
EXTENDS Desk, TLC

CONSTANTS
  primary, fallback, rules,          \* models
  http, local,                       \* their providers
  draft, essay, digest,              \* texts
  absentee, colleague, unreachable,  \* the roster
  stranger, nobody, broken,
  none, plain, wanted, torn,         \* contents of files
  seeded1, seeded2, composed, real   \* tasks

MCModels    == {primary, fallback, rules}
MCProvider  == [m \in MCModels |-> IF m = rules THEN local ELSE http]
MCPriority  == primary :> 100 @@ fallback :> 90 @@ rules :> 1
MCMissions  == {1, 2}
MCTexts     == {draft, essay, digest}
MCOpening   == [t \in MCTexts |-> IF t = draft THEN "draft" ELSE "theirs"]
MCEmployees == {absentee, colleague, unreachable}
MCHasEmail  == {absentee, colleague}
MCFigures   == {"few", "as few", "many"}
MCTotal     == [f \in MCFigures |-> IF f = "many" THEN 2 ELSE 1]
MCPoor      == {t \in (1..2) \X (1..2) \X (1..2) : t[1] < t[3]}
MCFlowTools == <<"launch", "type", "save">>
MCSeeded    == {seeded1, seeded2}
MCStarted   == <<"RUNNING", "WAITING", "WAITING">>

=============================================================================
