---------------------------- MODULE EvidenceStore ----------------------------
(***************************************************************************)
(* How evidence gets into the tables and into a report: corpus ingestion   *)
(* over the API and search hits of the research node (evidence/service.py, *)
(* tools/runner.py), embeddings (evidence/retrieve.py), retrieval and its  *)
(* links (specialists/research.py), the synthesizer and the citation       *)
(* verifier, and the final report (ReportArtifactService).                 *)
(*                                                                         *)
(* Several writers run at once: API clients, and workers of which one may  *)
(* have lost its claim on the job.  A transaction is a series of steps; a  *)
(* row is seen by others when it commits, and an insert that meets an      *)
(* uncommitted row with the same unique key waits for its end.  The        *)
(* claims, executions and checkpoints of a job are in JobLifecycle and     *)
(* WorkflowGraph: here a claim runs the evidence nodes from the start, and *)
(* all claims of a job share one execution.                                *)
(***************************************************************************)
EXTENDS EvidenceText, TLC

CONSTANTS
    Workers, Clients, Jobs, None,
    HitsOf,     \* the hits the search tool returns for a job, [url, text]
    CorpusKeys,
    CorpusTexts, \* lengths of the texts clients post; an empty one is refused
    EmbedBatch, \* MAX_EMBED_BATCH_SIZE
    Bodies,     \* the drafts the model may write
    MaxIngests, \* bound: documents posted
    MaxFaults   \* bound: crashes, leases that end too early, provider errors

ASSUME StoreAssumption ==
    /\ None \notin Workers \cup Clients \cup Jobs /\ Workers \cap Clients = {}
    /\ CorpusTexts \subseteq Nat \ {0}
    /\ \A j \in Jobs : HitsOf[j] \in Seq(Range(HitsOf[j]))
    /\ \A j \in Jobs : \A hit \in Range(HitsOf[j]) : WebDocument(hit) \in DOMAIN Distance
    /\ \A key \in CorpusKeys, n \in CorpusTexts : CorpusDocument(key, n) \in DOMAIN Distance
    /\ EmbedBatch \in Nat \ {0} /\ MaxIngests \in Nat /\ MaxFaults \in Nat

VARIABLES
    job,     \* claim and lease of each job, and whether it is completed
    sources, \* committed sources, by kind and canonical uri
    docs,    \* committed documents with their items
    vectors, \* committed embeddings, by item
    links,   \* committed evidence_job_links
    reports, \* report_artifacts of the job's execution
    proc,    \* what each worker and client is doing
    tx,      \* the uncommitted rows of each
    refused, \* ghost: a citation was refused after the synthesizer accepted it
    ingests, faults

vars == <<job, sources, docs, vectors, links, reports, proc, tx, refused, ingests, faults>>

Actors == Workers \cup Clients
Idle == [pc |-> "idle", job |-> None, todo |-> <<>>, doc |-> None, held |-> <<>>,
         missing |-> <<>>, ids |-> <<>>, returned |-> {}, draft |-> None]
NoRows == [sources |-> {}, docs |-> {}, links |-> {}]

SourceOf(doc) == [kind |-> doc.kind, uri |-> doc.uri]
Items == UNION {Range(ItemsOf(row)) : row \in docs}
Linked(j) == {l.item : l \in {k \in links : k.job = j}}
At(a, pc) == proc[a].pc = pc
Go(a, p) == proc' = [proc EXCEPT ![a] = p]
Fault == faults < MaxFaults /\ faults' = faults + 1

Init ==
    /\ job = [j \in Jobs |-> [holder |-> None, lease |-> FALSE, done |-> FALSE]]
    /\ sources = {} /\ docs = {} /\ vectors = {} /\ links = {}
    /\ reports = [j \in Jobs |-> None]
    /\ proc = [a \in Actors |-> Idle] /\ tx = [a \in Actors |-> NoRows]
    /\ refused = FALSE /\ ingests = 0 /\ faults = 0

-----------------------------------------------------------------------------
(* Claims.  What else happens to the job row is in JobLifecycle.           *)
Owns(w) == LET j == proc[w].job IN job[j].holder = w /\ job[j].lease /\ ~job[j].done

ClaimJob(w, j) ==
    /\ At(w, "idle") /\ ~job[j].done
    /\ job[j].holder = None \/ ~job[j].lease
    /\ job' = [job EXCEPT ![j].holder = w, ![j].lease = TRUE]
    /\ Go(w, [Idle EXCEPT !.pc = "hit", !.job = j, !.todo = HitsOf[j]])
    /\ UNCHANGED <<sources, docs, vectors, links, reports, tx, refused, ingests, faults>>

LeaseExpires(j) ==
    /\ Fault /\ job[j].lease /\ ~job[j].done
    /\ job' = [job EXCEPT ![j].lease = FALSE]
    /\ UNCHANGED <<sources, docs, vectors, links, reports, proc, tx, refused, ingests>>

\* session_scope rolls back what the actor had not committed.  The processor
\* schedules a retry, which frees the claim.  It ends the job instead after a
\* rejected URL or a specialist's validation error; that the job may be claimed
\* again here lets other workers do more than they can.
Raises(a) ==
    /\ Go(a, Idle)
    /\ tx' = [tx EXCEPT ![a] = NoRows]
    /\ job' = [j \in Jobs |-> IF job[j].holder = a /\ ~job[j].done
                              THEN [job[j] EXCEPT !.holder = None, !.lease = FALSE] ELSE job[j]]
    /\ UNCHANGED <<sources, docs, vectors, links, reports, ingests>>
Crash(a) ==
    /\ Fault /\ ~At(a, "idle")
    /\ Go(a, Idle)
    /\ tx' = [tx EXCEPT ![a] = NoRows]
    /\ UNCHANGED <<job, sources, docs, vectors, links, reports, refused, ingests>>

-----------------------------------------------------------------------------
(* Ingestion.                                                              *)

\* POST /evidence/documents: normalise and chunk, before any row is written.
PostDocument(c, key, n) ==
    /\ At(c, "idle") /\ ingests < MaxIngests
    /\ ingests' = ingests + 1
    /\ IF TooManyChunks(n) THEN UNCHANGED proc
       ELSE Go(c, [Idle EXCEPT !.pc = "source", !.doc = CorpusDocument(key, n)])
    /\ UNCHANGED <<job, sources, docs, vectors, links, reports, tx, refused, faults>>

\* _persist_search_hits: the next hit; one without a url is passed over, one
\* whose url is refused ends the node.
NextHit(w) ==
    /\ At(w, "hit") /\ proc[w].todo # <<>>
    /\ LET hit == Head(proc[w].todo)
           rest == [proc[w] EXCEPT !.todo = Tail(@)]
       IN  IF Rejected(hit.url) THEN Raises(w) /\ UNCHANGED <<refused, faults>>
           ELSE /\ IF hit.url.form = "blank" THEN Go(w, rest)
                   ELSE Go(w, [rest EXCEPT !.pc = "source", !.doc = WebDocument(hit)])
                /\ UNCHANGED <<job, sources, docs, vectors, links, reports, tx, refused, ingests, faults>>

\* _upsert_source: the row is read, or inserted, or read again when another
\* transaction inserted it first.  A row that is there may get this document's
\* title and display URI; a source is its canonical URI here.
UpsertSource(a) ==
    /\ At(a, "source")
    /\ LET s == SourceOf(proc[a].doc)
       IN  /\ s \in sources \/ \A b \in Actors \ {a} : s \notin tx[b].sources
           /\ tx' = [tx EXCEPT ![a].sources = IF s \in sources THEN @ ELSE @ \cup {s}]
    /\ Go(a, [proc[a] EXCEPT !.pc = "document"])
    /\ UNCHANGED <<job, sources, docs, vectors, links, reports, refused, ingests, faults>>

StoredRow(doc) == {row \in docs : row.doc = doc}
Holding(p, row) == [p EXCEPT !.pc = "commit", !.held = ItemsOf(row)]

\* get_or_create_document_with_chunks: the read ...
FindDocument(a) ==
    /\ At(a, "document")
    /\ LET found == StoredRow(proc[a].doc)
       IN  \/ /\ found = {}
              /\ Go(a, [proc[a] EXCEPT !.pc = "insert"])
           \/ \E row \in found : Go(a, Holding(proc[a], row))
    /\ UNCHANGED <<job, sources, docs, vectors, links, reports, tx, refused, ingests, faults>>

\* ... the insert in a savepoint, and the replay when the unique index says
\* that another transaction has committed the document since the read.
Inserted(a) == [doc |-> proc[a].doc, by |-> a]
\* Mutant: the writer that lost the race returns the ids of its own rows.
ReplayedRow_created(a) == Inserted(a)
ReplayedRow(a) == CHOOSE row \in StoredRow(proc[a].doc) : TRUE
InsertDocument(a) ==
    /\ At(a, "insert")
    /\ \A b \in Actors \ {a} : \A row \in tx[b].docs : row.doc # proc[a].doc
    /\ IF StoredRow(proc[a].doc) # {}
       THEN Go(a, Holding(proc[a], ReplayedRow(a))) /\ UNCHANGED tx
       ELSE /\ tx' = [tx EXCEPT ![a].docs = @ \cup {Inserted(a)}]
            /\ Go(a, Holding(proc[a], Inserted(a)))
    /\ UNCHANGED <<job, sources, docs, vectors, links, reports, refused, ingests, faults>>

\* The end of the transaction; a search hit is linked to its job in it.
LinkOf(a, i) == [job |-> proc[a].job, item |-> i]
\* Mutant: a search hit is not linked to its job.
HitLinks_none(a) == {}
HitLinks(a) == IF a \in Workers THEN {LinkOf(a, i) : i \in Range(proc[a].held)} ELSE {}
CommitIngest(a) ==
    /\ At(a, "commit")
    /\ sources' = sources \cup tx[a].sources
    /\ docs' = docs \cup tx[a].docs
    /\ links' = links \cup HitLinks(a)
    /\ tx' = [tx EXCEPT ![a] = NoRows]
    /\ Go(a, [proc[a] EXCEPT !.pc = "embed"])
    /\ UNCHANGED <<job, vectors, reports, refused, ingests, faults>>

-----------------------------------------------------------------------------
(* embed_evidence_items, after that commit.  The cap of one call,          *)
(* MAX_EMBED_ITEMS_PER_CALL, is MAX_CHUNKS_PER_DOCUMENT: no document meets *)
(* it.                                                                     *)
Batch(ids) == SubSeq(ids, 1, IF Len(ids) < EmbedBatch THEN Len(ids) ELSE EmbedBatch)
\* Mutant: only the first batch is embedded.
Missing_oneBatch(ids) == Batch(Selected(ids, {n \in DOMAIN ids : ids[n] \notin vectors}))
Missing(ids) == Selected(ids, {n \in DOMAIN ids : ids[n] \notin vectors})
Embedded(p) ==
    IF p.job = None THEN [Idle EXCEPT !.returned = Range(p.held)]
    ELSE [p EXCEPT !.pc = "hit", !.ids = MergeEvidenceIds(@, p.held), !.held = <<>>,
                   !.returned = @ \cup Range(p.held), !.doc = None, !.missing = <<>>]

EmbedRead(a) ==
    /\ At(a, "embed")
    /\ LET missing == Missing(proc[a].held)
       IN  Go(a, IF missing = <<>> THEN Embedded(proc[a])
                 ELSE [proc[a] EXCEPT !.pc = "embedding", !.missing = missing])
    /\ UNCHANGED <<job, sources, docs, vectors, links, reports, tx, refused, ingests, faults>>

\* One batch: the provider has answered, the rows are inserted unless they
\* exist by now.
EmbedWrite(a) ==
    /\ At(a, "embedding")
    /\ vectors' = vectors \cup Range(Batch(proc[a].missing))
    /\ LET rest == SubSeq(proc[a].missing, EmbedBatch + 1, Len(proc[a].missing))
       IN  Go(a, IF rest = <<>> THEN Embedded(proc[a]) ELSE [proc[a] EXCEPT !.missing = rest])
    /\ UNCHANGED <<job, sources, docs, links, reports, tx, refused, ingests, faults>>

\* The provider fails: the evidence stays without the vectors of this batch.
EmbedFails(a) == At(a, "embedding") /\ Fault /\ Raises(a) /\ UNCHANGED refused

-----------------------------------------------------------------------------
(* The end of the research node: retrieval, and the links it adds.         *)
\* Mutant: retrieval returns its items in any order.
Retrieve_unordered(w) ==
    /\ At(w, "hit") /\ proc[w].todo = <<>>
    /\ \E found \in SetToSeqs(Range(RetrieveExact(vectors))) :
           Go(w, [proc[w] EXCEPT !.pc = "link", !.held = found])
    /\ UNCHANGED <<job, sources, docs, vectors, links, reports, tx, refused, ingests, faults>>
Retrieve(w) ==
    /\ At(w, "hit") /\ proc[w].todo = <<>>
    /\ \E found \in {RetrieveExact(vectors), RetrieveHnsw(vectors)} :
           Go(w, [proc[w] EXCEPT !.pc = "link", !.held = found])
    /\ UNCHANGED <<job, sources, docs, vectors, links, reports, tx, refused, ingests, faults>>

RetrievalFails(w) == At(w, "hit") /\ proc[w].todo = <<>> /\ Fault /\ Raises(w) /\ UNCHANGED refused

\* link_evidence_to_job: one insert after the other in one transaction, in
\* the order of retrieval.
NextLink(w) == LinkOf(w, proc[w].held[1 + Cardinality(tx[w].links)])
HasNextLink(w) == At(w, "link") /\ Cardinality(tx[w].links) < Len(proc[w].held)
Blocked(w, b) == HasNextLink(w) /\ NextLink(w) \notin links /\ NextLink(w) \in tx[b].links
EnsureJobLink(w) ==
    /\ HasNextLink(w)
    /\ \A b \in Workers \ {w} : ~Blocked(w, b)
    /\ tx' = [tx EXCEPT ![w].links = @ \cup {NextLink(w)}]
    /\ UNCHANGED <<job, sources, docs, vectors, links, reports, proc, refused, ingests, faults>>

CommitLinks(w) ==
    /\ At(w, "link") /\ ~HasNextLink(w)
    /\ links' = links \cup tx[w].links
    /\ tx' = [tx EXCEPT ![w] = NoRows]
    /\ Go(w, [proc[w] EXCEPT !.pc = "draft", !.ids = MergeEvidenceIds(@, proc[w].held),
                             !.held = <<>>])
    /\ UNCHANGED <<job, sources, docs, vectors, reports, refused, ingests, faults>>

-----------------------------------------------------------------------------
(* Draft, verification and the report.                                     *)

\* The drafter may cite what it was not given; the synthesizer refuses that.
Synthesize(w) ==
    /\ At(w, "draft")
    /\ LET pack == Range(BuildEvidenceContextPack(proc[w].ids))
       IN  \E body \in Bodies, cites \in SUBSET Items :
               IF cites \subseteq pack
               THEN /\ Go(w, [proc[w] EXCEPT !.pc = "verify",
                                             !.draft = [body |-> body, cites |-> cites]])
                    /\ UNCHANGED <<job, sources, docs, vectors, links, reports, tx, refused, ingests>>
               ELSE Raises(w) /\ UNCHANGED refused
    /\ UNCHANGED faults

\* DurableCitationVerifier: every citation is linked to this job and has its
\* document and source.
Allowed(j, cites) == cites \subseteq Linked(j)
HasProvenance(i) == i \in Items /\ SourceOf(i.doc) \in sources
VerifyCitations(w) ==
    /\ At(w, "verify")
    /\ IF /\ Allowed(proc[w].job, proc[w].draft.cites)
          /\ \A i \in proc[w].draft.cites : HasProvenance(i)
       THEN /\ Go(w, [proc[w] EXCEPT !.pc = "persist"])
            /\ UNCHANGED <<job, sources, docs, vectors, links, reports, tx, refused, ingests>>
       ELSE Raises(w) /\ refused' = TRUE
    /\ UNCHANGED faults

\* persist_final: validated, then under the job's row lock checked for
\* ownership and written, or replayed if it is the same report.
ReplayMatches(report, draft) == report = draft
PersistFinal(w) ==
    /\ At(w, "persist")
    /\ LET j == proc[w].job
           draft == proc[w].draft
       IN  IF /\ Allowed(j, draft.cites) /\ Owns(w)
              /\ reports[j] = None \/ ReplayMatches(reports[j], draft)
           THEN /\ reports' = [reports EXCEPT ![j] = IF @ = None THEN draft ELSE @]
                /\ Go(w, [proc[w] EXCEPT !.pc = "persisted"])
                /\ UNCHANGED <<job, sources, docs, vectors, links, tx, refused, ingests>>
           ELSE Raises(w) /\ refused' = (refused \/ ~Allowed(j, draft.cites))
    /\ UNCHANGED faults

\* The graph has ended; the job is completed by the claim that still holds.
Complete(w) ==
    /\ At(w, "persisted")
    /\ job' = [job EXCEPT ![proc[w].job].done = @ \/ Owns(w)]
    /\ Go(w, Idle)
    /\ UNCHANGED <<sources, docs, vectors, links, reports, tx, refused, ingests, faults>>

-----------------------------------------------------------------------------
ActorStep(a) ==
    \/ UpsertSource(a) \/ FindDocument(a) \/ InsertDocument(a) \/ CommitIngest(a)
    \/ EmbedRead(a) \/ EmbedWrite(a) \/ EmbedFails(a) \/ Crash(a)
WorkerStep(w) ==
    \/ NextHit(w) \/ Retrieve(w) \/ RetrievalFails(w) \/ EnsureJobLink(w) \/ CommitLinks(w)
    \/ Synthesize(w) \/ VerifyCitations(w) \/ PersistFinal(w) \/ Complete(w)

Next ==
    \/ \E w \in Workers, j \in Jobs : ClaimJob(w, j)
    \/ \E j \in Jobs : LeaseExpires(j)
    \/ \E c \in Clients, key \in CorpusKeys, n \in CorpusTexts : PostDocument(c, key, n)
    \/ \E a \in Actors : ActorStep(a)
    \/ \E w \in Workers : WorkerStep(w)

Spec == Init /\ [][Next]_vars

-----------------------------------------------------------------------------
(* Every evidence id a writer returns, links or cites is one of a          *)
(* committed row, and one document identity has one set of items, however  *)
(* many workers and clients ingest it at the same time                     *)
(* (get_or_create_document_with_chunks).                                   *)
EvidenceIsStored ==
    /\ {l.item : l \in links} \subseteq Items
    /\ \A w \in Workers : Range(proc[w].ids) \subseteq Items
    /\ \A r, s \in docs : r.doc = s.doc => r = s

(* What the synthesizer accepts, the verifier and persist_final accept:    *)
(* the pack holds only evidence this worker has linked to the job in an    *)
(* earlier transaction, so no run dies of its own citations.               *)
PackClaimsVerify == ~refused

(* Two transactions that link evidence to one job (a worker that lost its  *)
(* claim and the new one) never wait for each other: retrieval has one     *)
(* order, so both insert their links in it (link_evidence_to_job).         *)
NoWaitCycle == \A w, b \in Workers : ~(w # b /\ Blocked(w, b) /\ Blocked(b, w))

(* Evidence ids an ingestion returned, to a client or to the research      *)
(* node, can all be retrieved: every batch of embed_evidence_items is      *)
(* stored by then, by this writer or by one that raced it.                 *)
ReturnedIsEmbedded == \A a \in Actors : proc[a].returned \subseteq vectors

(* The stored windows of a document cover it without a gap, each overlaps  *)
(* the one before by CHUNK_OVERLAP_CODE_POINTS and adds something to it.   *)
ChunksCover ==
    \A row \in {r \in docs : r.doc.kind = "corpus_text"} :
        LET c == ChunksOf(row.doc)
        IN  /\ Len(c) \in 1 .. MaxChunks
            /\ c[1].start = 0 /\ c[Len(c)].end = row.doc.text
            /\ \A n \in 1 .. Len(c) : c[n].end - c[n].start \in 1 .. ChunkSize
            /\ \A n \in 2 .. Len(c) :
                   c[n].start = c[n - 1].end - Overlap /\ c[n].end > c[n - 1].end
=============================================================================
