---------------------------- MODULE DocumentTools ----------------------------
(***************************************************************************)
(* The document tools (src/ai-ml/src/autoflow_ai/runtime): inspect opens a *)
(* file into the session of its execution, edit changes that copy, save    *)
(* writes the copy over the file.  A session is shared by everything that  *)
(* runs in one execution; the file is shared by all executions, and no     *)
(* lock stands between them.                                               *)
(*                                                                         *)
(* The document is a .docx.  Its content is the set of executions whose    *)
(* edits it has.  A save truncates the file before it has written it: in   *)
(* between, and after a save that fails there, the file does not open.     *)
(***************************************************************************)
EXTENDS Naturals, FiniteSets

CONSTANTS
  Executions,   \* executions at work on the document
  Callers,      \* the steps and threads that call tools
  ExecutionOf,  \* the execution of each
  Torn,         \* a file half written
  Closed        \* a session that has no document

ASSUME ToolsAssumption ==
  /\ ExecutionOf \in [Callers -> Executions]
  /\ \A content \in SUBSET Executions : Torn # content /\ Closed # content

VARIABLES
  disk,     \* the content of the file
  session,  \* the copy each execution has open
  call,     \* what became of the tool call of each caller
  saved,    \* executions with a save that succeeded among their results
  lost      \* executions after whose last save began another wrote the file

toolVars == <<disk, session, call, saved, lost>>

Outcomes == {"ok", "refused", "error"}

ToolsInit ==
  /\ disk = {}
  /\ session = [x \in Executions |-> Closed]
  /\ call = [c \in Callers |-> "idle"]
  /\ saved = {} /\ lost = {}

\* One call of an execution at a time: its tool lock, or its only thread.
Serves(c) ==
  /\ call[c] = "wanted"
  /\ \A d \in Callers : ExecutionOf[d] = ExecutionOf[c] => call[d] # "writing"

\* What the registry makes of a call: "refused" stands for the errors that
\* are not retried, "error" for an exception of the tool.
Returns(c, outcome) == call' = [call EXCEPT ![c] = outcome]

Opens(c) == session' = [session EXCEPT ![ExecutionOf[c]] = disk]

Inspect(c) ==
  /\ Serves(c)
  /\ \/ disk # Torn /\ Opens(c) /\ (Returns(c, "ok") \/ Returns(c, "error"))
     \/ (Returns(c, "refused") \/ Returns(c, "error")) /\ UNCHANGED session
  /\ UNCHANGED <<disk, saved, lost>>

\* The copy with the edits of the execution, however often it has made them.
Changed(x) == session[x] \cup {x}

\* No document, or operations of a kind or a form that nobody knows.
Edit(c) ==
  LET x == ExecutionOf[c]
  IN /\ Serves(c)
     /\ \/ Returns(c, "refused") /\ UNCHANGED session
        \/ session[x] # Closed /\ Returns(c, "ok") /\ session' = [session EXCEPT ![x] = Changed(x)]
        \/ session[x] # Closed /\ Returns(c, "error") /\ UNCHANGED session
     /\ UNCHANGED <<disk, saved, lost>>

\* No document, or a file that cannot be written.
SaveRefused(c) == Serves(c) /\ Returns(c, "refused") /\ UNCHANGED <<disk, session, saved, lost>>

Writing(x) == \E c \in Callers : ExecutionOf[c] = x /\ call[c] = "writing"

SaveBegins(c) ==
  LET x == ExecutionOf[c]
  IN /\ Serves(c) /\ session[x] # Closed
     /\ Returns(c, "writing")
     /\ disk' = Torn
     /\ lost' = {y \in Executions : y # x \/ \E z \in Executions \ {x} : Writing(z)}
     /\ UNCHANGED <<session, saved>>

\* Two saves at once may leave anything of both; the hash of the file, read
\* after the save, may fail it.  A save that fails half-way is refused for an
\* OSError and an error for anything else.
SaveEnds(c) ==
  LET x == ExecutionOf[c]
  IN /\ call[c] = "writing"
     /\ \/ (Returns(c, "ok") \/ Returns(c, "error")) /\ disk' = session[x]
        \/ Returns(c, "ok") /\ x \in lost /\ disk' = Torn
        \/ (Returns(c, "refused") \/ Returns(c, "error")) /\ disk' = Torn
     /\ UNCHANGED <<session, saved, lost>>

Save(c) == SaveRefused(c) \/ SaveBegins(c) \/ SaveEnds(c)

UseTool(c, tool) == \/ tool = "inspect" /\ Inspect(c)
                    \/ tool = "edit" /\ Edit(c)
                    \/ tool = "save" /\ Save(c)

\* The result is taken down by who called, with no lock held.
TakesResult(c, tool) ==
  /\ call[c] \in Outcomes
  /\ call' = [call EXCEPT ![c] = "idle"]
  /\ saved' = IF tool = "save" /\ call[c] = "ok" THEN saved \cup {ExecutionOf[c]} ELSE saved
  /\ UNCHANGED <<disk, session, lost>>

-----------------------------------------------------------------------------
(* Properties                                                              *)

\* The types of the file, the sessions and the calls.
ToolsTypeOK ==
  /\ disk = Torn \/ disk \in SUBSET Executions
  /\ session \in [Executions -> (SUBSET Executions) \cup {Closed}]
  /\ call \in [Callers -> {"idle", "wanted", "writing"} \cup Outcomes]
  /\ saved \subseteq Executions /\ lost \subseteq Executions

=============================================================================
