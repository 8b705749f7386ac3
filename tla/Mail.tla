-------------------------------- MODULE Mail --------------------------------
(***************************************************************************)
(* The mail of a mission (src/ai-ml/src/autoflow_ai/society/               *)
(* gmail_workflow.py over computer_use/smtp_email.py): compose a draft     *)
(* with the document attached, bind an approval to the draft and to the    *)
(* hash of the file, and on each send check the binding again, send, and   *)
(* look for the message in the mailbox.                                    *)
(*                                                                         *)
(* A binding is the draft and the content of the attached file.  Of a      *)
(* message that went out, posted keeps the binding the send had checked    *)
(* and the one the message really had.                                     *)
(***************************************************************************)
EXTENDS DocumentTools

CONSTANT MaxSends  \* bound of the model: calls of send_with_approval

ASSUME MailAssumption == MaxSends \in Nat

VARIABLES
  letter,   \* where the workflow is, and the outcome of its last call
  asked,    \* the binding the approval was asked for
  checked,  \* the binding the send at work has checked
  draft,    \* the live draft
  granted,  \* the ledger: bindings a human has approved
  sends,    \* calls of send_with_approval
  sentIds,  \* the message is among those the adapter has sent
  posted,   \* messages the server has accepted
  erred,    \* the server accepted a message and the call failed after that
  inbox     \* the mailbox has a message with this subject

mailVars == <<letter, asked, checked, draft, granted, sends, sentIds, posted, erred, inbox>>

Drafts == {"none", "intended", "altered"}
None   == <<"none", {}>>
Live   == <<draft, disk>>

\* The mailbox may hold an earlier message with this subject.
MailInit ==
  /\ letter = [step |-> "closed", outcome |-> "none"]
  /\ asked = None /\ checked = None /\ draft = "none"
  /\ granted = {} /\ sends = 0 /\ sentIds = FALSE /\ posted = {} /\ erred = FALSE
  /\ inbox \in BOOLEAN

Goes(step, outcome) == letter' = [step |-> step, outcome |-> outcome]

\* No login, no attachment, or a draft that is not the one intended.
ComposeRefused ==
  /\ letter.step = "closed"
  /\ \E outcome \in {"WAITING_FOR_USER", "ATTACHMENT_INVALID", "DRAFT_INVALID"} :
       Goes("over", outcome)
  /\ UNCHANGED <<asked, checked, draft, granted, sends, sentIds, posted, erred, inbox>>

Compose ==
  /\ letter.step = "closed"
  /\ draft' = "intended" /\ Goes("composed", "DRAFT_VERIFIED")
  /\ UNCHANGED <<asked, checked, granted, sends, sentIds, posted, erred, inbox>>

BuildApprovalRequest ==
  /\ letter.step = "composed"
  /\ asked' = Live /\ Goes("waiting", letter.outcome)
  /\ UNCHANGED <<checked, draft, granted, sends, sentIds, posted, erred, inbox>>

\* The human.
Approve ==
  /\ letter.step = "waiting" /\ granted = {}
  /\ granted' = {asked}
  /\ UNCHANGED <<letter, asked, checked, draft, sends, sentIds, posted, erred, inbox>>

\* The draft is changed, or changed back, while nothing is being sent.
ChangeDraft ==
  /\ letter.step = "waiting"
  /\ draft' \in {"intended", "altered"} \ {draft}
  /\ UNCHANGED <<letter, asked, checked, granted, sends, sentIds, posted, erred, inbox>>

Permits == Live = asked /\ Live \in granted

CheckApproval ==
  /\ letter.step = "waiting" /\ sends < MaxSends
  /\ sends' = sends + 1
  /\ \/ Permits /\ checked' = Live /\ Goes("sending", letter.outcome)
     \/ /\ ~Permits /\ UNCHANGED checked
        /\ Goes("waiting", IF Live # asked THEN "APPROVAL_INVALID" ELSE "APPROVAL_REQUIRED")
  /\ UNCHANGED <<asked, draft, granted, sentIds, posted, erred, inbox>>

\* The server takes the message as it is now: the file is read after the check.
Accepts == posted' = posted \cup {[nr |-> sends, checked |-> checked, sent |-> Live]}

\* Seeded fault: what send() returns is not looked at.
SendFailsUnnoticed == Goes("sent", letter.outcome)

SendFails == Goes("waiting", "SEND_FAILED")

\* Seeded fault: a message sent before is sent again.
AlreadySentNever == FALSE

AlreadySent == sentIds

Send ==
  /\ letter.step = "sending"
  /\ \/ AlreadySent /\ Goes("sent", letter.outcome) /\ UNCHANGED <<sentIds, posted, erred>>
     \/ ~AlreadySent /\ Accepts /\ sentIds' = TRUE /\ Goes("sent", letter.outcome) /\ UNCHANGED erred
     \/ ~AlreadySent /\ Accepts /\ erred' = TRUE /\ SendFails /\ UNCHANGED sentIds
     \/ SendFails /\ UNCHANGED <<sentIds, posted, erred>>
  /\ UNCHANGED <<asked, checked, draft, granted, sends, inbox>>

\* A message accepted may reach the mailbox, late, or never.
Deliver ==
  /\ posted # {} /\ inbox' = TRUE /\ ~inbox
  /\ UNCHANGED <<letter, asked, checked, draft, granted, sends, sentIds, posted, erred>>

\* Matched by the subject; without a mailbox to read, what the adapter has
\* sent is believed.
Found == inbox \/ sentIds

ReadSent ==
  /\ letter.step = "sent"
  /\ \/ Found /\ Goes("waiting", "SENT_VERIFIED")
     \/ Goes("waiting", "NOT_VERIFIED")
  /\ UNCHANGED <<asked, checked, draft, granted, sends, sentIds, posted, erred, inbox>>

MailStep == \/ ComposeRefused \/ Compose \/ BuildApprovalRequest \/ Approve \/ ChangeDraft
            \/ CheckApproval \/ Send \/ Deliver \/ ReadSent

-----------------------------------------------------------------------------
(* Properties                                                              *)

\* The types of the mail.
MailTypeOK ==
  /\ letter.step \in {"closed", "composed", "waiting", "sending", "sent", "over"}
  /\ draft \in Drafts /\ sends \in 0..MaxSends
  /\ sentIds \in BOOLEAN /\ erred \in BOOLEAN /\ inbox \in BOOLEAN
  /\ \A p \in posted : p.nr \in 1..MaxSends

\* A call that reports SENT_VERIFIED has an approved message behind it that the
\* server has taken: the mailbox is searched by the subject, and an older
\* message it holds must not stand for one that failed to go out
\* (gmail_workflow.py:9-13, 258-301; smtp_email.py:281-305).
VerifiedIsSent ==
  letter.outcome = "SENT_VERIFIED" =>
    \E p \in posted : p.checked \in granted /\ p.sent[1] = asked[1]

\* A send happens only "after an approval that is cryptographically bound to
\* the EXACT message", the "content hash" of the attachment included
\* (gmail_workflow.py:3-7).  False: the transmission reads the file again
\* (smtp_email.py:214), which another execution may have saved since the check.
ApprovedIsSent == \A p \in posted : p.sent \in granted

\* A workflow asked to send again sends a second message only when the first
\* send failed after the server had accepted it (smtp_email.py:197-201,
\* 230-234).
SentOnceUnlessError == Cardinality(posted) > 1 => erred

=============================================================================
