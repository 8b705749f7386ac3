----------------------------- MODULE Knowledge -----------------------------
(***************************************************************************)
(* The orchestrator between the knowledge service, workflow memory and the *)
(* context assembler (src/ai-ml/src/autoflow_ai/orchestrator.py):          *)
(* build_context retrieves documents, then workflows, adds what its caller *)
(* passes, and assembles; learn_from_run promotes.  Files change, the      *)
(* command line manages both stores, and their processes come and go,      *)
(* between any two of these steps.                                         *)
(***************************************************************************)
EXTENDS WorkflowMemory, DocumentStore, ContextAssembly

CONSTANTS
  Owner,         \* tenant, workspace and permission scope of a document
  Caller,        \* for whom contexts are built
  Extras,        \* items a caller may add
  Windows,       \* context windows of the models
  TextRank,      \* orders the contents, and names their relevance
  ContentRank,
  MaxOperations, \* bound: operations of any kind
  MaxTrouble     \* bound: failures, restarts and edited files

VARIABLES
  request,     \* a context being built: the documents found, what the caller adds
  bundle,      \* the last context: its candidate items and window
  operations,
  trouble

vars == <<memoryVars, documentVars, request, bundle, operations, trouble>>

NoRequest == [found |-> {}, extras |-> {}]
NoBundle  == [items |-> {}, window |-> 1]

Init == /\ MemoryInit /\ DocumentInit
        /\ request = NoRequest /\ bundle = NoBundle
        /\ operations = 0 /\ trouble = 0

Operation == operations < MaxOperations /\ operations' = operations + 1 /\ UNCHANGED trouble
Trouble   == trouble < MaxTrouble /\ trouble' = trouble + 1 /\ UNCHANGED operations
Continue  == UNCHANGED <<operations, trouble>>

-----------------------------------------------------------------------------
(* Items.                                                                  *)

Item(id, section, text, tokens, trust, source, relevance, importance) ==
  [id |-> id, section |-> section, text |-> text, tokens |-> tokens, trust |-> trust,
   source |-> source, sourced |-> FALSE, provenance |-> FALSE, tenant |-> "none",
   workspace |-> "none", scope |-> {}, relevance |-> relevance, importance |-> importance,
   freshness |-> 100]

BaseItems ==
  {Item(1, "system_policy",    "policy",      50, "system", "system", 100, 100),
   Item(2, "task_instruction", "task",        30, "authorized_user_input", "inline", 100, 100),
   Item(3, "identity",         "identity",    10, "trusted_application_state", "system", 50, 50),
   Item(4, "permissions",      "permissions", 10, "trusted_application_state", "system", 50, 50),
   Item(5, "current_workflow", "steps",       20, "trusted_application_state", "system", 50, 50),
   Item(6, "output_contract",  "contract",    15, "system", "system", 50, 50)}

\* Retrieved items carry the caller's tenant and workspace and no scope: the
\* stores have answered for them.
Retrieved(id, section, text, tokens, trust, relevance) ==
  [Item(id, section, text, tokens, trust, "retrieved", relevance, 50) EXCEPT
     !.sourced = TRUE, !.provenance = TRUE, !.tenant = Caller.tenant, !.workspace = Caller.workspace]

Permitted(d) ==
  /\ Owner[d].tenant = Caller.tenant /\ Owner[d].workspace = Caller.workspace
  /\ Owner[d].scope = {} \/ Owner[d].scope \cap Caller.permissions # {}

\* One piece of evidence for each text found; a snippet is 280 characters long.
Evidence == {<<c.text, c.seq>> : c \in {c \in chunks : Permitted(c.doc)}}

KnowledgeItem(e) == Retrieved(10 * TextRank[e[1]] + e[2], "authorized_knowledge", e, 70,
                              "authorized_knowledge", 20 * TextRank[e[1]])
WorkflowItem(hit) == Retrieved(90 + ContentRank[hit.content], "workflow_memory", hit.content, 40,
                               "authorized_memory", 50)

-----------------------------------------------------------------------------
(* Building a context.                                                     *)

BuildBegins(extras) ==
  /\ search.step = "idle"
  /\ search' = [IdleSearch EXCEPT !.step = "query"]
  /\ request' = [found |-> Evidence, extras |-> extras]
  /\ Operation
  /\ UNCHANGED <<rows, history, index, learner, raced, operator, documentVars, bundle>>

BuildEnds(window) ==
  /\ search.step = "read" /\ search.left = {}
  /\ bundle' = [items |-> BaseItems \cup {KnowledgeItem(e) : e \in request.found}
                          \cup {WorkflowItem(hit) : hit \in search.hits} \cup request.extras,
                window |-> window]
  /\ search' = IdleSearch /\ request' = NoRequest
  /\ Continue
  /\ UNCHANGED <<rows, history, index, learner, raced, operator, documentVars>>

MemoryStep ==
  /\ UNCHANGED <<documentVars, request, bundle>>
  /\ \/ Operation /\ \E i \in Contents : \/ \E l \in Learners : PromoteLooksUp(l, i)
                                         \/ Block(i) \/ Deprecate(i) \/ Restore(i)
     \/ Continue /\ \/ \E l \in Learners : \/ PromoteReads(l) \/ PromoteUpserts(l)
                                            \/ PromoteRecords(l) \/ PromoteIndexes(l)
                    \/ BlockUnindexes \/ RestoreIndexes
                    \/ SearchQueries \/ \E i \in Contents : SearchReads(i)
     \/ Trouble /\ (OperatorStops \/ \E l \in Learners : PromoteStops(l))

DocumentStep ==
  /\ UNCHANGED <<memoryVars, request, bundle>>
  /\ \/ Operation /\ \E d \in Docs : Ingest(d) \/ DeleteDocument(d) \/ Reindex(d)
     \/ Continue /\ (Parse \/ DeleteOld \/ Upsert)
     \/ Trouble /\ \/ IngestFails \/ ServiceRestarts
                   \/ \E d \in Docs : ReindexFails(d) \/ \E t \in Texts : EditFile(d, t)

Next == \/ MemoryStep \/ DocumentStep
        \/ \E extras \in SUBSET Extras : BuildBegins(extras)
        \/ \E w \in Windows : BuildEnds(w)

Spec == Init /\ [][Next]_vars

-----------------------------------------------------------------------------
(* Properties                                                              *)

Shown(b) == Assembled(b.items, Caller, b.window)

\* Every context and the output reserved beside it fit the model's window,
\* also where a small window rounds the share of a section down to zero,
\* which the assembler takes for "no limit" (context/assembler.py:168-169,
\* context/budget.py:65-83).
ContextFits ==
  [][bundle' # bundle =>
       Tokens(Shown(bundle')) + Reserved(bundle'.window) <= bundle'.window]_bundle

SameWithoutUnseen ==
  bundle' # bundle => Shown(bundle') = Shown([bundle' EXCEPT !.items = Authorized(@, Caller)])

\* What the caller may not see has no influence on its context: the context
\* is the one that would be built had those items never been offered
\* (context/assembler.py:73-96: "exclude unauthorized BEFORE anything else").
UnseenHasNoInfluence == [][SameWithoutUnseen]_bundle

=============================================================================
