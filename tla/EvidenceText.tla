---------------------------- MODULE EvidenceText ----------------------------
(***************************************************************************)
(* The pure half of the evidence layer: source identity (evidence/url.py), *)
(* the windows a document is cut into (evidence/chunk.py), the ranked      *)
(* order of retrieval (repositories/embedding.py), the merge of search and *)
(* retrieval (specialists/research.py) and the context pack of the         *)
(* drafter (evidence/pack.py).                                             *)
(*                                                                         *)
(* A text is its number of code points, one byte each.  An item, one       *)
(* window of one stored document, is [doc, ord, by]: by, the writer that   *)
(* inserted it, stands for the fresh uuid of its row.                      *)
(***************************************************************************)
EXTENDS Integers, FiniteSets, SequencesExt

CONSTANTS
    ChunkSize,     \* CHUNK_SIZE_CODE_POINTS
    Overlap,       \* CHUNK_OVERLAP_CODE_POINTS
    MaxChunks,     \* MAX_CHUNKS_PER_DOCUMENT
    MaxPackItems,  \* MAX_EVIDENCE_ITEMS_TO_DRAFTER
    MaxItemChars,  \* MAX_EVIDENCE_CHARS_PER_ITEM_IN_DRAFT
    MaxPackBytes,  \* MAX_DRAFT_EVIDENCE_CONTEXT_BYTES
    RetrievalK,    \* retrieval_default_k
    Overfetch,     \* HNSW_CANDIDATE_MULTIPLIER
    MaxCandidates, \* MAX_HNSW_CANDIDATES
    Distance       \* of a document from the query, smaller is nearer; the id
                   \* that breaks a tie in the query is part of it

ASSUME TextAssumption ==
    /\ ChunkSize \in Nat \ {0} /\ Overlap \in 0 .. ChunkSize - 1 /\ MaxChunks \in Nat \ {0}
    /\ MaxPackItems \in Nat /\ MaxItemChars \in Nat /\ MaxPackBytes \in Nat
    /\ RetrievalK \in 1 .. 8 /\ Overfetch \in Nat \ {0} /\ MaxCandidates \in Nat \ {0}
    /\ \A d \in DOMAIN Distance : Distance[d] \in Int
    /\ \A d, e \in DOMAIN Distance : Distance[d] = Distance[e] => d = e

-----------------------------------------------------------------------------
\* The elements of s at the positions in keep, in the order of s.
Selected(s, keep) ==
    [k \in 1 .. Cardinality(keep) |->
        s[CHOOSE n \in keep : Cardinality({m \in keep : m < n}) = k - 1]]

(* Source identity: a fragment or a default port is not part of it.        *)
Rejected(url) == url.form \in {"userinfo", "ftp", "ipv6"}
CanonicalizeHttpUrl(url) == [page |-> url.page, form |-> "plain"]

WebDocument(hit) ==
    [kind |-> "web_search", uri |-> CanonicalizeHttpUrl(hit.url), text |-> hit.text]
CorpusDocument(key, text) == [kind |-> "corpus_text", uri |-> key, text |-> text]

(* The overlapping windows of a text of n code points.                     *)
\* Mutant: the next window starts where the last one ended.
ChunkNormalizedText_noOverlap(n) ==
    LET w[s \in 0 .. n] ==
            IF s + ChunkSize >= n THEN << [start |-> s, end |-> n] >>
            ELSE << [start |-> s, end |-> s + ChunkSize] >> \o w[s + ChunkSize]
    IN  w[0]
ChunkNormalizedText(n) ==
    LET w[s \in 0 .. n] ==
            IF s + ChunkSize >= n THEN << [start |-> s, end |-> n] >>
            ELSE << [start |-> s, end |-> s + ChunkSize] >> \o w[s + ChunkSize - Overlap]
    IN  w[0]
TooManyChunks(n) == Len(ChunkNormalizedText(n)) > MaxChunks

\* A search snippet is one window, whatever its length.
ChunksOf(doc) ==
    IF doc.kind = "web_search" THEN << [start |-> 0, end |-> doc.text] >>
    ELSE ChunkNormalizedText(doc.text)
ItemsOf(row) ==
    [n \in 1 .. Len(ChunksOf(row.doc)) |-> [doc |-> row.doc, ord |-> n, by |-> row.by]]

-----------------------------------------------------------------------------
(* ORDER BY distance, evidence_item_id: one order for every reader.        *)
Nearer(i, j) ==
    \/ Distance[i.doc] < Distance[j.doc]
    \/ Distance[i.doc] = Distance[j.doc] /\ i.ord < j.ord
Ranked(items) ==
    [k \in 1 .. Cardinality(items) |->
        CHOOSE i \in items : Cardinality({j \in items : Nearer(j, i)}) = k - 1]
FirstK(s) == SubSeq(s, 1, IF Len(s) < RetrievalK THEN Len(s) ELSE RetrievalK)

\* The specialist asks for the operators' corpus only.
IsCorpus(i) == i.doc.kind = "corpus_text"
RetrieveExact(vectors) == FirstK(Ranked({i \in vectors : IsCorpus(i)}))

\* The index returns the nearest vectors of any kind; the filter comes after.
CandidateLimit ==
    LET n == IF RetrievalK * Overfetch < RetrievalK THEN RetrievalK ELSE RetrievalK * Overfetch
    IN  IF n < MaxCandidates THEN n ELSE MaxCandidates
RetrieveHnsw(vectors) ==
    LET all == Ranked(vectors)
        near == Range(SubSeq(all, 1, IF Len(all) < CandidateLimit THEN Len(all)
                                      ELSE CandidateLimit))
    IN  FirstK(Ranked({i \in near : IsCorpus(i)}))

\* First-seen order, search before retrieval.
MergeEvidenceIds(searched, retrieved) ==
    LET ids == searched \o retrieved
    IN  Selected(ids, {n \in DOMAIN ids : \A m \in 1 .. n - 1 : ids[m] # ids[n]})

-----------------------------------------------------------------------------
(* The ranked prefix that fits the drafter's context.                      *)
DisplayLength(i) ==
    LET c == ChunksOf(i.doc)[i.ord]
        n == c.end - c.start
    IN  IF n <= MaxItemChars THEN n ELSE MaxItemChars
BuildEvidenceContextPack(ids) ==
    LET top == IF Len(ids) < MaxPackItems THEN Len(ids) ELSE MaxPackItems
        bytes(n) == FoldLeft(LAMBDA sum, i : sum + DisplayLength(i), 0, SubSeq(ids, 1, n))
        fits == {n \in 0 .. top : bytes(n) <= MaxPackBytes}
    IN  SubSeq(ids, 1, CHOOSE n \in fits : \A m \in fits : m <= n)
=============================================================================
