--------------------------- MODULE DocumentStore ---------------------------
(***************************************************************************)
(* The knowledge service (src/ai-ml/src/autoflow_ai/rag): files are cut    *)
(* into chunks, embedded and kept in a persistent vector collection.       *)
(* Which content of a document is stored is remembered by a ledger in the  *)
(* memory of the service, and lost with its process.                       *)
(*                                                                         *)
(* Hashing a file and parsing it read it twice; deleting the old chunks    *)
(* and writing the new ones are two calls of the store, and each of them   *)
(* may fail.                                                               *)
(***************************************************************************)
EXTENDS Naturals, FiniteSets

CONSTANTS
  Docs,      \* documents (tenant, workspace and file name)
  Texts,     \* contents a file may have
  Length,    \* the number of chunks of each
  NoText     \* stands for "no content"

ASSUME DocumentAssumption ==
  /\ NoText \notin Texts /\ Length \in [Texts -> Nat \ {0}]

VARIABLES
  file,       \* what the file of a document holds
  chunks,     \* the stored chunks
  ledger,     \* the hash of what was ingested, or NoText
  ingest,     \* the ingestion under way
  forgotten   \* documents whose ledger entry went while chunks stayed

documentVars == <<file, chunks, ledger, ingest, forgotten>>

ChunksOf(d)   == {c \in chunks : c.doc = d}
Cut(d, v, t)  == {[doc |-> d, version |-> v, seq |-> i, text |-> t] : i \in 1..Length[t]}
SameId(a, b)  == a.doc = b.doc /\ a.version = b.version /\ a.seq = b.seq

IdleIngest == [step |-> "idle", doc |-> "none", hash |-> NoText, text |-> NoText, version |-> 1]

DocumentInit ==
  /\ file \in [Docs -> Texts]
  /\ chunks = {} /\ ledger = [d \in Docs |-> NoText]
  /\ ingest = IdleIngest /\ forgotten = {}

Version(d, led) == IF led[d] = NoText THEN 1 ELSE 2

\* The path checks and the hash; what the ledger already names is reused.
Ingests(d, led) ==
  IF led[d] = file[d] THEN ingest' = IdleIngest
  ELSE ingest' = [step |-> "parse", doc |-> d, hash |-> file[d], text |-> NoText,
                  version |-> Version(d, led)]

Ingest(d) ==
  /\ ingest.step = "idle"
  /\ Ingests(d, ledger)
  /\ UNCHANGED <<file, chunks, ledger, forgotten>>

\* Parsing opens the file again; a later version first removes the old chunks.
Parse ==
  /\ ingest.step = "parse"
  /\ ingest' = [ingest EXCEPT !.text = file[ingest.doc],
                              !.step = IF ingest.version > 1 THEN "delete" ELSE "upsert"]
  /\ UNCHANGED <<file, chunks, ledger, forgotten>>

Remove(d) == chunks' = chunks \ ChunksOf(d)

\* Seeded fault: a new version is written beside the old one.
RemoveOldNothing(d) == chunks' = chunks

RemoveOld(d) == Remove(d)

\* Once all its chunks are gone nothing of a document is left to forget.
StartsAfresh(d) == forgotten' = forgotten \ {d}

DeleteOld ==
  /\ ingest.step = "delete"
  /\ RemoveOld(ingest.doc) /\ StartsAfresh(ingest.doc)
  /\ ingest' = [ingest EXCEPT !.step = "upsert"]
  /\ UNCHANGED <<file, ledger>>

\* The ledger records the hash that was taken before the file was parsed.
Upsert ==
  LET new == Cut(ingest.doc, ingest.version, ingest.text)
  IN /\ ingest.step = "upsert"
     /\ chunks' = {c \in chunks : \A n \in new : ~SameId(c, n)} \cup new
     /\ ledger' = [ledger EXCEPT ![ingest.doc] = ingest.hash]
     /\ ingest' = IdleIngest
     /\ UNCHANGED <<file, forgotten>>

\* A file that cannot be parsed, an embedding that fails, a store that fails.
IngestFails ==
  /\ ingest.step # "idle"
  /\ ingest' = IdleIngest
  /\ UNCHANGED <<file, chunks, ledger, forgotten>>

DeleteDocument(d) ==
  /\ ingest.step = "idle"
  /\ Remove(d) /\ StartsAfresh(d)
  /\ ledger' = [ledger EXCEPT ![d] = NoText]
  /\ UNCHANGED <<file, ingest>>

Forgets(S) == forgotten' = forgotten \cup {d \in S : ChunksOf(d) # {}}

\* reindex clears the ledger entry, deletes, and ingests from the start.
Reindex(d) ==
  /\ ingest.step = "idle"
  /\ ledger' = [ledger EXCEPT ![d] = NoText]
  /\ Remove(d) /\ StartsAfresh(d)
  /\ Ingests(d, ledger')
  /\ UNCHANGED file

\* The deletion fails when the entry is already gone.
ReindexFails(d) ==
  /\ ingest.step = "idle"
  /\ ledger' = [ledger EXCEPT ![d] = NoText]
  /\ Forgets({d})
  /\ UNCHANGED <<file, chunks, ingest>>

\* The service ends; the collection stays.
ServiceRestarts ==
  /\ ledger' = [d \in Docs |-> NoText]
  /\ ingest' = IdleIngest
  /\ Forgets(Docs)
  /\ UNCHANGED <<file, chunks>>

EditFile(d, t) ==
  /\ file[d] # t
  /\ file' = [file EXCEPT ![d] = t]
  /\ UNCHANGED <<chunks, ledger, ingest, forgotten>>

-----------------------------------------------------------------------------
(* Properties                                                              *)

\* The types of the store, the ledger and the ingestion.
DocumentTypeOK ==
  /\ file \in [Docs -> Texts] /\ ledger \in [Docs -> Texts \cup {NoText}]
  /\ \A c \in chunks : c.doc \in Docs /\ c.text \in Texts
  /\ forgotten \subseteq Docs
  /\ \/ ingest = IdleIngest
     \/ /\ ingest \in [step : {"parse", "delete", "upsert"}, doc : Docs, hash : Texts,
                        text : Texts \cup {NoText}, version : {1, 2}]
        /\ ingest.step # "parse" => ingest.text \in Texts

\* The chunks of a document come from one content, through files edited
\* during an ingestion and failures of parser, embedder and store, as long
\* as the service has not forgotten a document it still holds chunks of: a
\* restart, and a reindex whose deletion fails, make it write version 1 over
\* version 1 and leave the tail of the longer content
\* (rag/service.py:71-72, 113-123, 165-169, 212-220).
OneContentUnlessForgotten ==
  \A a, b \in chunks : a.doc = b.doc /\ a.doc \notin forgotten => a.text = b.text

\* What makes it inductive: an ingestion about to write finds the document
\* without chunks, or forgotten.
LedgerInv ==
  /\ \A c \in chunks : c.doc \notin forgotten => ledger[c.doc] # NoText
  /\ ingest.step # "idle" /\ ingest.version = 1 => ledger[ingest.doc] = NoText
  /\ ingest.step = "upsert" /\ ingest.version = 2 => ChunksOf(ingest.doc) = {}

=============================================================================
