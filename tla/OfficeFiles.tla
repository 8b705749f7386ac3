----------------------------- MODULE OfficeFiles -----------------------------
(***************************************************************************)
(* Files made and checked outside the agents: the weekly report a mission  *)
(* attaches to its mail, built from three sources and validated against    *)
(* them (src/ai-ml/src/autoflow_ai/runtime/spreadsheet_tools.py,           *)
(* server/missions.py), and a document opened, edited, saved and reopened  *)
(* in stages (computer_use/word_workflow.py, verification.py).  Others     *)
(* write the sources and the document meanwhile; nobody else knows the     *)
(* name of the report's file.                                              *)
(*                                                                         *)
(* What a source holds is its figures, of which the report keeps a total,  *)
(* or something that cannot be read.                                       *)
(***************************************************************************)
EXTENDS Naturals, Sequences

CONSTANTS
  Figures,     \* what a source may hold
  Total,       \* figures -> what the summary says of them
  Poor,        \* totals of the three sources that together miss a target
  Unreadable,  \* a source that is missing or malformed
  Contents,    \* what the document may hold
  HasText,     \* those with the expected text
  Torn,        \* a document whose save failed half way
  MaxEdits     \* bound of the model: writes by others

ASSUME OfficeAssumption ==
  /\ Figures # {} /\ Unreadable \notin Figures /\ DOMAIN Total = Figures
  /\ HasText \subseteq Contents /\ Torn \notin Contents /\ MaxEdits \in Nat

VARIABLES
  sources,  \* the three sources
  report,   \* the report: its stage, what was read last, what the workbook holds
  had,      \* source -> totals it has had since the validation began
  document, \* the file of the document
  word,     \* the workflow: its stage, what it holds, its hash of the file before
  touched,  \* has somebody written the document since it was reopened
  edits

officeVars == <<sources, report, had, document, word, touched, edits>>
reportVars == <<sources, report, had>>
wordVars   == <<document, word, touched>>

Sources == 1..3  \* sales, operations, targets: the order they are read in

OfficeInit ==
  /\ sources \in [Sources -> {CHOOSE f \in Figures : TRUE, Unreadable}]
  /\ document \in Contents \cup {Torn}
  /\ had = [s \in Sources |-> {}] /\ touched = FALSE /\ edits = 0
  /\ \E works \in {"report", "word", "nobody"}, expects \in BOOLEAN :
       /\ report = [step |-> IF works = "report" THEN "create" ELSE "off", read |-> <<>>, book |-> <<>>]
       /\ word = [step |-> IF works = "word" THEN "open" ELSE "off", expects |-> expects,
                  held |-> Torn, before |-> Torn, counted |-> FALSE]

Edited ==
  /\ edits < MaxEdits
  /\ edits' = edits + 1

EditSource ==
  /\ report.step # "off" /\ Edited
  /\ \E s \in Sources, f \in Figures \cup {Unreadable} :
       /\ f # sources[s]
       /\ sources' = [sources EXCEPT ![s] = f]
       /\ had' = IF f = Unreadable THEN had ELSE [had EXCEPT ![s] = @ \cup {Total[f]}]
  /\ UNCHANGED <<report, wordVars>>

EditDocument ==
  /\ word.step # "off" /\ Edited
  /\ \E c \in Contents : document' = c
  /\ touched' = TRUE
  /\ UNCHANGED <<word, reportVars>>

-----------------------------------------------------------------------------
(* The report                                                              *)

Attach(what) == report' = [report EXCEPT !.step = what]

\* One source after the other, by the creation and by the validation; one that
\* cannot be read fails the tool, and a text goes with the mail instead.
ReadSource ==
  /\ report.step \in {"create", "validate"} /\ Len(report.read) < 3
  /\ LET found == sources[Len(report.read) + 1] IN
     IF found = Unreadable THEN Attach("placeholder")
                           ELSE report' = [report EXCEPT !.read = Append(@, Total[found])]
  /\ UNCHANGED <<sources, had, wordVars, edits>>

Written(totals) == [report EXCEPT !.step = "validate", !.book = totals, !.read = <<>>]

\* A workbook that cannot be written, or is too large, fails the tool too.
WriteWorkbook ==
  /\ report.step = "create" /\ Len(report.read) = 3
  /\ \/ /\ report' = Written(report.read)
        /\ had' = [s \in Sources |-> IF sources[s] = Unreadable THEN {} ELSE {Total[sources[s]]}]
     \/ Attach("placeholder") /\ UNCHANGED had
  /\ UNCHANGED <<sources, wordVars, edits>>

Reopened   == report.book
Recomputed == report.read

Verified ==
  /\ Reopened = Recomputed
  /\ Recomputed \notin Poor

Validate ==
  /\ report.step = "validate" /\ Len(report.read) = 3
  /\ Attach(IF Verified THEN "workbook" ELSE "placeholder")
  /\ UNCHANGED <<sources, had, wordVars, edits>>

ReportRuns == ReadSource \/ WriteWorkbook \/ Validate

-----------------------------------------------------------------------------
(* The document                                                            *)

Stage(stage) == word' = [word EXCEPT !.step = stage]

Open ==
  /\ word.step = "open"
  /\ IF document = Torn THEN Stage("refused")
                        ELSE word' = [word EXCEPT !.step = "inspect", !.held = document]
  /\ UNCHANGED <<document, touched, reportVars, edits>>

\* The hash is of the file as it is by now.
InspectFile ==
  /\ word.step = "inspect"
  /\ word' = [word EXCEPT !.step = "edit", !.before = document]
  /\ UNCHANGED <<document, touched, reportVars, edits>>

\* What the operations make of a text, and whether they count a change: they
\* may count changes that change nothing.
Edits(text) == [held : Contents, counted : {TRUE}] \cup [held : {text}, counted : {FALSE}]

EditText ==
  /\ word.step = "edit"
  /\ \E edit \in Edits(word.held) :
       word' = [word EXCEPT !.step = "save", !.held = edit.held, !.counted = edit.counted]
  /\ UNCHANGED <<document, touched, reportVars, edits>>

\* What others wrote is lost.  An error of the save leaves the workflow.
SaveFile ==
  /\ word.step = "save"
  /\ \/ document' = word.held /\ Stage("changed")
     \/ document' \in {document, Torn} /\ Stage("raised")
  /\ UNCHANGED <<touched, reportVars, edits>>

\* The same text may be saved in other bytes.
VerifyChanged ==
  /\ word.step = "changed"
  /\ \/ Stage("reopen")
     \/ word.counted /\ document = word.before /\ Stage("unverified")
  /\ UNCHANGED <<document, touched, reportVars, edits>>

\* Seeded fault: the text is looked for in the handle that wrote it.
ContainsInHandle == word.held \in HasText

DocumentContains == document \in HasText

ReopenAndVerify ==
  /\ word.step = "reopen"
  /\ Stage(IF word.expects => DocumentContains THEN "verified" ELSE "unverified")
  /\ touched' = FALSE
  /\ UNCHANGED <<document, reportVars, edits>>

WordRuns == Open \/ InspectFile \/ EditText \/ SaveFile \/ VerifyChanged \/ ReopenAndVerify

OfficeRuns == ReportRuns \/ WordRuns
OfficeStep == OfficeRuns \/ EditSource \/ EditDocument

-----------------------------------------------------------------------------
(* Properties                                                              *)

\* A report that is attached says of every source what that source has said
\* since the report was written, and together they miss no target, whoever edits
\* the sources between the readings; and a document that is verified has the
\* text that was asked for until somebody writes it again
\* (missions.py:100-141, spreadsheet_tools.py:286-388, word_workflow.py:171-196).
CheckedIsTrue ==
  /\ report.step = "workbook" =>
       report.book \notin Poor /\ \A s \in Sources : report.book[s] \in had[s]
  /\ word.step = "verified" /\ word.expects /\ ~touched => document \in HasText

=============================================================================
