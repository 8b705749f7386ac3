-------------------------- MODULE ContextAssembly --------------------------
(***************************************************************************)
(* How candidate items become the context of a model request               *)
(* (src/ai-ml/src/autoflow_ai/context): filter by authorization, put       *)
(* malformed items aside, drop duplicates, rank, and fill the token budget *)
(* from the best item down.  Everything here is a pure operator; the       *)
(* assembler keeps no state but its metrics.                               *)
(*                                                                         *)
(* An item is a record.  Its text is a value, its token_estimate a number, *)
(* and relevance, importance and freshness are percentages.                *)
(***************************************************************************)
EXTENDS Naturals, FiniteSets, FiniteSetsExt

\* Sections, with their share of the input budget in percent (they add to 100).
Weight == [system_policy |-> 6, task_instruction |-> 10, identity |-> 2, workspace |-> 2,
           permissions |-> 4, current_workflow |-> 6, current_step |-> 8,
           authorized_knowledge |-> 28, workflow_memory |-> 10, current_observation |-> 8,
           tool_results |-> 6, recovery_history |-> 4, approval_state |-> 2, output_contract |-> 4]

Protected == {"authorized_knowledge", "workflow_memory"}

TrustOrder == [system |-> 100, trusted_application_state |-> 80, authorized_user_input |-> 70,
               authorized_memory |-> 60, authorized_knowledge |-> 50, tool_output |-> 30,
               external_content |-> 20, untrusted_content |-> 10]

InstructionTrust == {"system", "authorized_user_input", "trusted_application_state"}

-----------------------------------------------------------------------------
(* Who may see what, and what is well formed.                              *)

HasMetadata(item) == item.tenant # "none" /\ item.workspace # "none"

Excluded(item, auth) ==
  /\ item.section \in Protected
  /\ \/ ~HasMetadata(item)
     \/ item.tenant # auth.tenant \/ item.workspace # auth.workspace
     \/ item.scope # {} /\ item.scope \cap auth.permissions = {}

Authorized(items, auth) == {item \in items : ~Excluded(item, auth)}

Malformed(item) ==
  \/ item.source \notin {"inline", "system"} /\ ~item.sourced
  \/ item.section \in Protected /\ ~HasMetadata(item)
  \/ item.trust \in InstructionTrust /\ item.source \in {"external", "tool", "retrieved"}

Sanitized(items) == {item \in items : ~Malformed(item)}

-----------------------------------------------------------------------------
(* Rank and duplicates.                                                    *)

ProvenanceQuality(item) ==
  IF ~item.sourced THEN 0 ELSE IF item.provenance THEN 100 ELSE 50

Score(item) == 40 * item.relevance + 25 * item.importance + 20 * TrustOrder[item.trust]
               + 10 * item.freshness + 5 * ProvenanceQuality(item)

Before(a, b) == \/ Score(a) > Score(b)
                \/ Score(a) = Score(b) /\ a.id < b.id

SameContent(a, b) == a.section = b.section /\ a.text = b.text

\* Of the items with one content in one section, the best ranked stays.
Deduped(items) == {item \in items : ~\E other \in items : SameContent(other, item) /\ Before(other, item)}

\* Seeded fault: duplicates go first, and authorization is asked of what is left.
CandidatesDedupedFirst(items, auth) == Sanitized(Authorized(Deduped(items), auth))

Candidates(items, auth) == Deduped(Sanitized(Authorized(items, auth)))

-----------------------------------------------------------------------------
(* The budget.                                                             *)

MinOutput == 256
ReserveRatio == 25

Least(a, b)   == IF a < b THEN a ELSE b
Largest(a, b) == IF a < b THEN b ELSE a

\* Output comes first, but at least one token is left for the input.
Reserved(window)    == Least(Largest(MinOutput, (window * ReserveRatio) \div 100), window - 1)
InputBudget(window) == window - Reserved(window)
SectionBudget(window, section) == (InputBudget(window) * Weight[section]) \div 100

Tokens(items) == MapThenSumSet(LAMBDA item : item.tokens, items)

FitsSection(kept, item, window) ==
  LET share == SectionBudget(window, item.section)
  IN  \/ Tokens({k \in kept : k.section = item.section}) + item.tokens <= share
      \/ share = 0          \* a share rounded down to nothing is no limit at all

\* Seeded fault: the shares are trusted to add up to the whole.
FitsTotalByShares(kept, item, window) == TRUE

FitsTotal(kept, item, window) == Tokens(kept) + item.tokens <= InputBudget(window)

Worst(items) == CHOOSE item \in items : \A other \in items \ {item} : Before(other, item)

\* From the best ranked down, every item that still fits is kept.
Budgeted(items, window) ==
  LET Take(item, kept) == IF FitsSection(kept, item, window) /\ FitsTotal(kept, item, window)
                            THEN kept \cup {item} ELSE kept
  IN  MapThenFoldSet(Take, {}, LAMBDA item : item, Worst, items)

Assembled(items, auth, window) == Budgeted(Candidates(items, auth), window)

=============================================================================
