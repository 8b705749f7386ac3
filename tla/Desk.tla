-------------------------------- MODULE Desk --------------------------------
(***************************************************************************)
(* What AutoFlow does on the user's own machine: the models it asks, the   *)
(* missions that write, open and send there, the files it makes and        *)
(* checks, the loops that drive an application, the browser it searches    *)
(* with, and the desktop application that shows the tasks.  They share no  *)
(* state: a behaviour has one of them.                                     *)
(***************************************************************************)
EXTENDS ModelGateway, DesktopMission, OfficeFiles, ComputerLoop, WebResearch, TaskPage

VARIABLE present  \* the one that is there

vars == <<gatewayVars, desktopVars, officeVars, computerVars, webVars, pageVars, present>>

Parts == {"gateway", "desktop", "office", "computer", "web", "page"}

\* A part that is not there stands still where it starts.
Init ==
  /\ present \in Parts
  /\ GatewayInit /\ DesktopInit /\ OfficeInit /\ ComputerInit /\ WebInit /\ PageInit
  /\ present # "gateway"  => registered = {Local}
  /\ present # "office"   => /\ report.step = "off" /\ word.step = "off" /\ ~word.expects
                             /\ document = Torn /\ \A s \in Sources : sources[s] = Unreadable
  /\ present # "computer" => agent.step = "off" /\ flow.status = "off"
                               /\ agent.goal = [text |-> TRUE, saved |-> TRUE, other |-> FALSE]
  /\ present # "web"      => ~(web.enabled \/ web.available \/ web.research \/ web.deep)
  /\ present # "page"     => ~view.connected

Others(part) ==
  /\ present = part /\ UNCHANGED present
  /\ part # "gateway"  => UNCHANGED gatewayVars
  /\ part # "desktop"  => UNCHANGED desktopVars
  /\ part # "office"   => UNCHANGED officeVars
  /\ part # "computer" => UNCHANGED computerVars
  /\ part # "web"      => UNCHANGED webVars
  /\ part # "page"     => UNCHANGED pageVars

Next ==
  \/ GatewayStep  /\ Others("gateway")
  \/ DesktopStep  /\ Others("desktop")
  \/ OfficeStep   /\ Others("office")
  \/ ComputerRuns /\ Others("computer")
  \/ WebStep      /\ Others("web")
  \/ PageStep     /\ Others("page")

Spec == Init /\ [][Next]_vars

-----------------------------------------------------------------------------
(* Properties                                                              *)

\* What is reported as done is there, whoever else writes the files: a text that
\* a mission calls complete, a report that was validated, a document that was
\* verified (desktop_mission.py:329-397, missions.py:100-141,
\* word_workflow.py:154-192).
ReportedIsThere == CompleteIsKept /\ CheckedIsTrue

=============================================================================
