--------------------------- MODULE DesktopMission ---------------------------
(***************************************************************************)
(* Missions that take control of the desktop (src/ai-ml/src/autoflow_ai/   *)
(* server/desktop_mission.py), each on a thread of its own: a text written *)
(* with Word, with python-docx when Word fails, as plain text when that    *)
(* fails too; a text written for Notepad; a page, an application or a mail *)
(* opened; work reassigned to a colleague of an uploaded roster.           *)
(*                                                                         *)
(* The missions are on topics whose file names are the same: they use one  *)
(* .docx and one .txt.  Word keeps the file of an open window to itself.   *)
(***************************************************************************)
EXTENDS Naturals, FiniteSets

CONSTANTS
  Missions,
  Texts,      \* what a paragraph may be, the local draft among them
  Draft,      \* the draft that needs no model
  Opening,    \* text -> its first forty characters, all that is verified
  Employees,  \* the people of the roster
  HasEmail,   \* those with an address in it
  Stranger,   \* an address that is not in the roster
  Nobody,     \* no person, no address, no text
  Broken      \* what is in a file after a write that failed half way

ASSUME DesktopAssumption ==
  /\ Draft \in Texts /\ HasEmail \subseteq Employees
  /\ Stranger \notin Employees /\ Nobody \notin Employees
  /\ Nobody \notin Texts /\ Broken \notin Texts

VARIABLES
  job,          \* mission -> what it does, where it is, and what it reports
  files,        \* the two files
  windows,      \* missions whose Word window is open, with its text saved
  overwritten   \* missions whose file somebody else has written over once they had verified it

desktopVars == <<job, files, windows, overwritten>>

Docx == "docx"
Txt  == "txt"
MissionKinds == {"word_write", "notepad_write", "opens", "send_email", "reassign_work", "unsupported"}

New == [kind |-> "unsupported", step |-> "new", text |-> Nobody, file |-> "none", to |-> Nobody]

DesktopInit ==
  /\ job = [m \in Missions |-> New]
  /\ files = [f \in {Docx, Txt} |-> Nobody]
  /\ windows = {} /\ overwritten = {}

At(m, step)  == job[m].step = step
HasVerified(m) == job[m].step \in {"verified", "complete"}
Go(m, step)  == job' = [job EXCEPT ![m].step = step]
Disk         == <<files, windows, overwritten>>

\* What the goal asks for, by its words; nothing it knows: failed.
Detect(m) ==
  /\ At(m, "new")
  /\ \E kind \in MissionKinds :
       job' = [job EXCEPT ![m].kind = kind,
                          ![m].step = CASE kind \in {"word_write", "notepad_write"} -> "content"
                                        [] kind = "reassign_work" -> "roster"
                                        [] kind = "send_email"    -> "recipient"
                                        [] kind = "opens"         -> "browser"
                                        [] OTHER                  -> "failed"]
  /\ UNCHANGED Disk

\* Whatever the model does, there is a text.
GenerateParagraph(m) ==
  /\ At(m, "content")
  /\ \E text \in Texts :
       job' = [job EXCEPT ![m].text = text,
                          ![m].step = IF job[m].kind = "word_write" THEN "word" ELSE "notepad"]
  /\ UNCHANGED Disk

-----------------------------------------------------------------------------
(* Writing                                                                 *)

LockedFor(m, file) == file = Docx /\ windows \ {m} # {}

Puts(m, file, content) ==
  /\ files' = [files EXCEPT ![file] = content]
  /\ overwritten' = overwritten \cup {k \in Missions \ {m} : job[k].file = file /\ HasVerified(k)}

Wrote(m, file, step) ==
  /\ ~LockedFor(m, file)
  /\ Puts(m, file, job[m].text)
  /\ job' = [job EXCEPT ![m].file = file, ![m].step = step]

\* A write that fails leaves the file as it was, or broken; the next way is tried.
FailedToWrite(m, file, step) ==
  /\ \/ UNCHANGED <<files, overwritten>>
     \/ ~LockedFor(m, file) /\ Puts(m, file, Broken)
  /\ Go(m, step)

\* Word is not there, does not save, or saves and stays open.
WriteInWord(m) ==
  /\ At(m, "word")
  /\ \/ Wrote(m, Docx, "word_check") /\ windows' = windows \cup {m}
     \/ Go(m, "docx") /\ UNCHANGED Disk

WriteDocx(m) ==
  /\ At(m, "docx")
  /\ Wrote(m, Docx, "docx_check") \/ FailedToWrite(m, Docx, "txt")
  /\ UNCHANGED windows

WriteTxt(m) ==
  /\ At(m, "txt") \/ At(m, "notepad")
  /\ Wrote(m, Txt, "txt_check") \/ FailedToWrite(m, Txt, "failed")
  /\ UNCHANGED windows

\* Seeded fault: that the file can be read is enough.
HoldsSomething(m) == files[job[m].file] \in Texts

Holds(m) ==
  LET found == files[job[m].file] IN found \in Texts /\ Opening[found] = Opening[job[m].text]

\* The open document is read, or the file; a file that cannot be read fails.
Verify(m) ==
  /\ job[m].step \in {"word_check", "docx_check", "txt_check"}
  /\ \/ At(m, "word_check") /\ m \in windows /\ Go(m, "verified")
     \/ Holds(m) /\ Go(m, "verified")
     \/ Go(m, "failed")
  /\ UNCHANGED Disk

\* The record of the mission follows its result.
Record(m) ==
  /\ At(m, "verified") /\ Go(m, "complete")
  /\ UNCHANGED Disk

\* The user closes Word.
CloseWindow(m) ==
  /\ m \in windows
  /\ windows' = windows \ {m}
  /\ UNCHANGED <<job, files, overwritten>>

-----------------------------------------------------------------------------
(* Opening                                                                 *)

\* What the open returns is thrown away: only an exception fails.
OpenInBrowser(m) ==
  /\ At(m, "browser")
  /\ Go(m, "verified") \/ Go(m, "failed")
  /\ UNCHANGED Disk

SendEmail(m) ==
  /\ At(m, "recipient")
  /\ \/ job' = [job EXCEPT ![m].step = "browser", ![m].to = Stranger]
     \/ Go(m, "failed")
  /\ UNCHANGED Disk

\* The heuristic takes the best of the others; without an address, failed.
Colleagues(absent) == Employees \ {absent}

HeuristicPick(absent) ==
  {IF e \in HasEmail THEN e ELSE Nobody : e \in Colleagues(absent)}
    \cup (IF Colleagues(absent) = {} THEN {Nobody} ELSE {})

\* The model's answer matches a colleague, whose address is then used, or
\* nobody, and then its own address is: the absent one's, a stranger's, none.
ModelPick(absent) ==
  {e \in Colleagues(absent) : e \in HasEmail} \cup {absent, Stranger, Nobody}

ReassignWork(m) ==
  /\ At(m, "roster")
  /\ \/ Go(m, "failed")
     \/ \E absent \in Employees : \E pick \in HeuristicPick(absent) \cup ModelPick(absent) :
          job' = [job EXCEPT ![m].step = IF pick = Nobody THEN "failed" ELSE "browser",
                             ![m].to = pick, ![m].text = absent]
  /\ UNCHANGED Disk

MissionThread(m) ==
  \/ Detect(m) \/ GenerateParagraph(m) \/ WriteInWord(m) \/ WriteDocx(m) \/ WriteTxt(m)
  \/ Verify(m) \/ Record(m) \/ OpenInBrowser(m) \/ SendEmail(m) \/ ReassignWork(m)

DesktopRuns == \E m \in Missions : MissionThread(m)
DesktopStep == DesktopRuns \/ \E m \in Missions : CloseWindow(m)

-----------------------------------------------------------------------------
(* Properties                                                              *)

\* A writing mission that has verified its file, and is reported complete for
\* that, has one that begins with its text, until somebody writes over it after
\* the check read it: another mission that got in between the write and the
\* check makes it fail, Word's hold on its file and the three ways to write
\* included (desktop_mission.py:248-359, 399-414, missions.py:384-415).
CompleteIsKept ==
  \A m \in Missions :
    HasVerified(m) /\ job[m].file # "none" /\ m \notin overwritten =>
      LET kept == files[job[m].file] IN
      kept \in Texts /\ Opening[kept] = Opening[job[m].text]

=============================================================================
