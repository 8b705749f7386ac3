--------------------------- MODULE ExecutionEngine ---------------------------
(***************************************************************************)
(* The single-agent engine (src/ai-ml/src/autoflow_ai/runtime/engine.py):  *)
(* the steps of a plan one after the other, tool calls retried a bounded   *)
(* number of times, and a verification at the end.                         *)
(***************************************************************************)
EXTENDS DocumentTools, Sequences

CONSTANTS
  Solo,        \* the execution
  Engine,      \* its caller
  MaxRecovery  \* max_recovery_attempts

Steps == <<"inspect", "edit", "save", "verify">>

ASSUME EngineAssumption ==
  /\ Solo \in Executions /\ {c \in Callers : ExecutionOf[c] = Solo} = {Engine}
  /\ MaxRecovery \in Nat

VARIABLE engine  \* status, step and attempts of the execution

EngineInit == engine = [status |-> "QUEUED", step |-> 1, attempt |-> 0]

Tool == Steps[engine.step]

Transition(s) == engine' = [engine EXCEPT !.status = s]

\* QUEUED, PLANNING and VALIDATING are passed without a pause.
EngineStarts ==
  /\ engine.status = "QUEUED" /\ Transition("RUNNING")
  /\ UNCHANGED toolVars

\* A step without a tool or without its permission ends the run.
StepRefused ==
  /\ engine.status = "RUNNING" /\ call[Engine] = "idle" /\ engine.attempt = 0
  /\ Tool # "verify" /\ Transition("FAILED")
  /\ UNCHANGED toolVars

RunStep ==
  /\ engine.status = "RUNNING" /\ call[Engine] = "idle" /\ Tool # "verify"
  /\ call' = [call EXCEPT ![Engine] = "wanted"]
  /\ engine' = [engine EXCEPT !.attempt = @ + 1]
  /\ UNCHANGED <<disk, session, saved, lost>>

EngineCalls == UseTool(Engine, Tool) /\ UNCHANGED engine

Retries == call[Engine] = "error" /\ engine.attempt <= MaxRecovery

Recover ==
  /\ TakesResult(Engine, Tool)
  /\ \/ call[Engine] = "ok" /\ engine' = [engine EXCEPT !.step = @ + 1, !.attempt = 0]
     \/ Retries /\ UNCHANGED engine
     \/ call[Engine] # "ok" /\ ~Retries /\ Transition("FAILED")

\* A save that succeeded, to the same file, which opens again: that its text
\* has the edits is not looked at.
VerifyStep ==
  /\ engine.status = "RUNNING" /\ call[Engine] = "idle" /\ Tool = "verify"
  /\ IF Solo \in saved /\ disk # Torn THEN Transition("COMPLETE") ELSE Transition("FAILED")
  /\ UNCHANGED toolVars

EngineStep == EngineStarts \/ StepRefused \/ RunStep \/ EngineCalls \/ Recover \/ VerifyStep

=============================================================================
