------------------------ MODULE EvidenceStore_proofs ------------------------
(***************************************************************************)
(* The invariants of EvidenceStore, for any number of workers, clients and *)
(* jobs, any texts, windows, batches and order of distances.  The first    *)
(* part is about the operators of EvidenceText: ranking, merging, the pack *)
(* and the windows of a text.  Their inductions are by the least           *)
(* counterexample.  The second part is the inductive invariant, Inv.       *)
(***************************************************************************)
EXTENDS EvidenceStore, FiniteSetTheorems, SequenceTheorems, WellFoundedInduction, TLAPS

-----------------------------------------------------------------------------
(* The invariant *)

\* The hits of all jobs.
Hits == UNION {Range(HitsOf[j]) : j \in Jobs}
\* The documents that reach the tables.
Documents ==
    {WebDocument(hit) : hit \in Hits} \cup
    {CorpusDocument(key, n) : key \in CorpusKeys, n \in {m \in CorpusTexts : ~TooManyChunks(m)}}
RowTypes == [doc : Documents, by : Actors]
ItemTypes == [doc : Documents, ord : Nat, by : Actors]
LinkTypes == [job : Jobs, item : ItemTypes]
DraftTypes == [body : Bodies, cites : SUBSET ItemTypes]
SourceTypes == {SourceOf(d) : d \in Documents}
TxTypes == [sources : SUBSET SourceTypes, docs : SUBSET RowTypes, links : SUBSET LinkTypes]
Ingest == {"source", "document", "insert", "commit", "embed", "embedding"}
Steps == Ingest \cup {"idle", "hit", "link", "draft", "verify", "persist", "persisted"}
ProcTypes ==
    [pc : Steps, job : Jobs \cup {None}, todo : Seq(Hits), doc : Documents \cup {None},
     held : Seq(ItemTypes), missing : Seq(ItemTypes), ids : Seq(ItemTypes),
     returned : SUBSET ItemTypes, draft : DraftTypes \cup {None}]

TablesOK ==
    /\ docs \subseteq RowTypes /\ sources \subseteq SourceTypes
    /\ vectors \subseteq Items /\ IsFiniteSet(vectors)
    /\ links \subseteq LinkTypes /\ {l.item : l \in links} \subseteq Items
ActorsOK == proc \in [Actors -> ProcTypes] /\ tx \in [Actors -> TxTypes]

\* Committed or not, one document has one row.
UniqueRows ==
    /\ \A r, s \in docs : r.doc = s.doc => r = s
    /\ \A a \in Actors : tx[a].docs \subseteq {Inserted(a)}
    /\ \A a \in Actors : tx[a].docs # {} => proc[a].pc = "commit"
    /\ \A a \in Actors : \A r \in tx[a].docs, s \in docs : r.doc # s.doc
    /\ \A a, b \in Actors : \A r \in tx[a].docs, s \in tx[b].docs : a # b => r.doc # s.doc

SourcesOK ==
    /\ \A r \in docs : SourceOf(r.doc) \in sources
    /\ \A a \in Actors : proc[a].pc \in {"document", "insert", "commit"} =>
           SourceOf(proc[a].doc) \in sources \cup tx[a].sources

Sorted(s) == \A m, n \in 1 .. Len(s) : m < n => Nearer(s[m], s[n])

\* Who is at which step.
Roles(a) ==
    LET p == proc[a]
    IN  /\ p.pc \in Ingest => p.doc \in Documents
        /\ a \in Clients => p.pc \in Ingest \cup {"idle"} /\ p.job = None
        /\ a \in Workers => (p.pc = "idle" <=> p.job = None)
        /\ p.pc # "link" => tx[a].links = {}

\* What is held is stored and, by a worker, linked to its job.
HeldOK(a) ==
    LET p == proc[a]
    IN  /\ p.pc = "commit" => \E row \in docs \cup tx[a].docs : p.held = ItemsOf(row)
        /\ p.pc \in {"embed", "embedding"} =>
               /\ Range(p.held) \subseteq Items
               /\ a \in Workers => Range(p.held) \subseteq Linked(p.job)
        /\ p.pc = "embedding" =>
               /\ Range(p.held) \subseteq vectors \cup Range(p.missing)
               /\ Range(p.missing) \subseteq Range(p.held)
        /\ p.returned \subseteq vectors
        /\ Range(p.ids) \subseteq Linked(p.job)
        /\ p.pc \in {"verify", "persist"} =>
               p.draft \in DraftTypes /\ p.draft.cites \subseteq Linked(p.job)

\* The links of a transaction are the first ones of what it retrieved.
LinkingOK(a) ==
    proc[a].pc = "link" =>
        /\ Sorted(proc[a].held) /\ Range(proc[a].held) \subseteq vectors
        /\ \E c \in 0 .. Len(proc[a].held) :
               /\ IsFiniteSet(tx[a].links) /\ Cardinality(tx[a].links) = c
               /\ tx[a].links = {LinkOf(a, proc[a].held[n]) : n \in 1 .. c}

Inv ==
    /\ TablesOK /\ ActorsOK /\ UniqueRows /\ SourcesOK
    /\ \A a \in Actors : Roles(a) /\ HeldOK(a) /\ LinkingOK(a)
    /\ refused = FALSE

-----------------------------------------------------------------------------
(* Orders and sequences *)

\* A finite set under a strict total order: how many come before an element
\* tells its place.
LEMMA Ranks ==
    ASSUME NEW S, IsFiniteSet(S), NEW R,
           \A x \in S : <<x, x>> \notin R,
           \A x, y, z \in S : <<x, y>> \in R /\ <<y, z>> \in R => <<x, z>> \in R,
           \A x, y \in S : x # y => <<x, y>> \in R \/ <<y, x>> \in R
    PROVE  \E rank \in [S -> 1 .. Cardinality(S)] :
              /\ \A x \in S : Cardinality({y \in S : <<y, x>> \in R}) = rank[x] - 1
              /\ \A x, y \in S : <<x, y>> \in R <=> rank[x] < rank[y]
              /\ \A k \in 1 .. Cardinality(S) : \E x \in S : rank[x] = k
<1> DEFINE Before(x) == {y \in S : <<y, x>> \in R}
           rank == [x \in S |-> Cardinality(Before(x)) + 1]
           N == Cardinality(S)
<1>1. N \in Nat
  BY FS_CardinalityType
<1>2. \A x \in S : /\ IsFiniteSet(Before(x)) /\ Cardinality(Before(x)) \in Nat
                   /\ Cardinality(Before(x)) < N
  <2> TAKE x \in S
  <2>1. Before(x) \subseteq S /\ Before(x) # S
    OBVIOUS
  <2> HIDE DEF Before
  <2> QED BY <2>1, <1>1, FS_Subset, FS_CardinalityType
<1>3. \A x, y \in S : <<x, y>> \in R => Cardinality(Before(x)) < Cardinality(Before(y))
  <2> SUFFICES ASSUME NEW x \in S, NEW y \in S, <<x, y>> \in R
               PROVE  Cardinality(Before(x)) < Cardinality(Before(y))
    OBVIOUS
  <2>1. Before(x) \subseteq Before(y) /\ Before(x) # Before(y)
    OBVIOUS
  <2> HIDE DEF Before
  <2> QED BY <2>1, <1>2, FS_Subset
<1>4. rank \in [S -> 1 .. N]
  <2>1. \A x \in S : Cardinality(Before(x)) + 1 \in 1 .. N
    <3> HIDE DEF Before
    <3> QED BY <1>1, <1>2
  <2> QED BY <2>1
<1>5. \A x, y \in S : <<x, y>> \in R <=> rank[x] < rank[y]
  <2>1. \A x, y \in S : <<x, y>> \in R => rank[x] < rank[y]
    <3> HIDE DEF Before
    <3> QED BY <1>2, <1>3
  <2>2. \A x \in S : rank[x] \in Nat
    BY <1>1, <1>4
  <2> HIDE DEF rank
  <2>3. ASSUME NEW x \in S, NEW y \in S, rank[x] < rank[y] PROVE <<x, y>> \in R
    <3>1. x # y /\ ~(rank[y] < rank[x])
      BY <2>2, <2>3
    <3> QED BY <2>1, <3>1
  <2> QED BY <2>1, <2>3
<1>6. rank \in Injection(S, 1 .. N)
  <2>1. \A x, y \in S : rank[x] = rank[y] => x = y
    <3>1. \A x \in S : rank[x] \in Nat
      BY <1>1, <1>4
    <3> HIDE DEF rank
    <3> QED BY <3>1, <1>5
  <2> HIDE DEF rank
  <2> QED BY <2>1, <1>4 DEF Injection, IsInjective
<1>7. IsFiniteSet(1 .. N) /\ Cardinality(1 .. N) = N
  BY <1>1, FS_Interval
<1>8. rank \in Surjection(S, 1 .. N)
  <2> HIDE DEF rank
  <2> QED BY <1>6, <1>7, FS_Injection
<1>9. \A x \in S : Cardinality(Before(x)) = rank[x] - 1
  <2> HIDE DEF Before
  <2> QED BY <1>2
<1>10. \A k \in 1 .. N : \E x \in S : rank[x] = k
  <2> HIDE DEF rank
  <2> QED BY <1>8 DEF Surjection
<1> HIDE DEF rank
<1> QED BY <1>4, <1>5, <1>9, <1>10

\* The elements at some positions of a sequence are a sequence of just these.
LEMMA SelectedIs ==
    ASSUME NEW S, NEW s \in Seq(S), NEW keep \in SUBSET DOMAIN s
    PROVE  /\ Selected(s, keep) \in Seq(S)
           /\ Range(Selected(s, keep)) = {s[n] : n \in keep}
<1> DEFINE R == {p \in keep \X keep : p[1] < p[2]}
           N == Cardinality(keep)
           Pos(k) == CHOOSE n \in keep : Cardinality({m \in keep : m < n}) = k - 1
<1>1. DOMAIN s = 1 .. Len(s) /\ Len(s) \in Nat /\ \A n \in keep : n \in Nat /\ s[n] \in S
  OBVIOUS
<1>2. IsFiniteSet(keep) /\ N \in Nat
  <2>1. IsFiniteSet(1 .. Len(s))
    BY <1>1, FS_Interval
  <2> QED BY <1>1, <2>1, FS_Subset, FS_CardinalityType
<1>3. PICK rank \in [keep -> 1 .. N] :
         /\ \A x \in keep : Cardinality({y \in keep : <<y, x>> \in R}) = rank[x] - 1
         /\ \A x, y \in keep : <<x, y>> \in R <=> rank[x] < rank[y]
         /\ \A k \in 1 .. N : \E x \in keep : rank[x] = k
  <2>1. \A x \in keep : <<x, x>> \notin R
    BY <1>1
  <2>2. \A x, y, z \in keep : <<x, y>> \in R /\ <<y, z>> \in R => <<x, z>> \in R
    BY <1>1
  <2>3. \A x, y \in keep : x # y => <<x, y>> \in R \/ <<y, x>> \in R
    BY <1>1
  <2> HIDE DEF R
  <2> QED BY <1>2, <2>1, <2>2, <2>3, Ranks
<1>4. \A x \in keep : Cardinality({m \in keep : m < x}) = rank[x] - 1
  <2> TAKE x \in keep
  <2>1. {y \in keep : <<y, x>> \in R} = {m \in keep : m < x}
    OBVIOUS
  <2> QED BY <1>3, <2>1
<1>5. \A k \in 1 .. N : Pos(k) \in keep /\ rank[Pos(k)] = k
  <2> TAKE k \in 1 .. N
  <2>1. PICK x \in keep : rank[x] = k
    BY <1>3
  <2>2. \E n \in keep : Cardinality({m \in keep : m < n}) = k - 1
    BY <1>4, <2>1
  <2>3. Pos(k) \in keep /\ Cardinality({m \in keep : m < Pos(k)}) = k - 1
    BY <2>2
  <2> HIDE DEF Pos
  <2>4. rank[Pos(k)] - 1 = k - 1 /\ rank[Pos(k)] \in Int
    BY <1>3, <1>4, <2>3
  <2> QED BY <2>3, <2>4
<1>6. Selected(s, keep) = [k \in 1 .. N |-> s[Pos(k)]]
  BY DEF Selected
<1> HIDE DEF Pos, R
<1>7. \A k \in 1 .. N : s[Pos(k)] \in S
  BY <1>1, <1>5
<1>8. Selected(s, keep) \in Seq(S)
  BY <1>2, <1>6, <1>7, SeqDef
<1>9. Range(Selected(s, keep)) = {s[Pos(k)] : k \in 1 .. N}
  BY <1>6 DEF Range
<1>10. ASSUME NEW n \in keep PROVE s[n] \in {s[Pos(k)] : k \in 1 .. N}
  <2>1. rank[n] \in 1 .. N /\ Pos(rank[n]) \in keep /\ rank[Pos(rank[n])] = rank[n]
    BY <1>3, <1>5
  <2>2. Pos(rank[n]) = n
    <3>1. \A x \in keep : rank[x] = rank[n] => <<x, n>> \notin R /\ <<n, x>> \notin R
      BY <1>3
    <3>2. \A x \in keep : <<x, n>> \notin R /\ <<n, x>> \notin R => x = n
      BY <1>1 DEF R
    <3> QED BY <3>1, <3>2, <2>1
  <2> QED BY <2>1, <2>2
<1> QED BY <1>5, <1>8, <1>9, <1>10

LEMMA DocumentsRanked == Documents \subseteq DOMAIN Distance
<1>1. ASSUME NEW hit \in Hits PROVE WebDocument(hit) \in DOMAIN Distance
  <2>1. PICK j \in Jobs : hit \in Range(HitsOf[j])
    BY DEF Hits
  <2> QED BY <2>1, StoreAssumption
<1>2. ASSUME NEW key \in CorpusKeys, NEW n \in {m \in CorpusTexts : ~TooManyChunks(m)}
      PROVE  CorpusDocument(key, n) \in DOMAIN Distance
  BY StoreAssumption
<1> QED BY <1>1, <1>2 DEF Documents

\* The order of retrieval is a strict one.
LEMMA NearerOrder ==
    ASSUME NEW i \in ItemTypes, NEW j \in ItemTypes, NEW k \in ItemTypes
    PROVE  /\ ~Nearer(i, i)
           /\ Nearer(i, j) /\ Nearer(j, k) => Nearer(i, k)
           /\ Nearer(i, j) \/ Nearer(j, i) \/ (i.doc = j.doc /\ i.ord = j.ord)
<1>1. ASSUME NEW x \in ItemTypes PROVE x.doc \in DOMAIN Distance /\ Distance[x.doc] \in Int /\ x.ord \in Nat
  BY DocumentsRanked, TextAssumption DEF ItemTypes
<1>2. \A d, e \in DOMAIN Distance : Distance[d] = Distance[e] => d = e
  BY TextAssumption
<1>3. Distance[i.doc] = Distance[j.doc] => i.doc = j.doc
  BY <1>1, <1>2
<1> QED BY <1>1, <1>3 DEF Nearer

\* ORDER BY: all of the rows, each once, every one before those it is nearer than.
LEMMA RankedIs ==
    ASSUME NEW V, V \subseteq ItemTypes, IsFiniteSet(V),
           \A i, j \in V : i.doc = j.doc /\ i.ord = j.ord => i = j
    PROVE  /\ Ranked(V) \in Seq(V) /\ Range(Ranked(V)) \subseteq V
           /\ Sorted(Ranked(V))
<1> DEFINE R == {p \in V \X V : Nearer(p[1], p[2])}
           N == Cardinality(V)
           Pos(k) == CHOOSE i \in V : Cardinality({j \in V : Nearer(j, i)}) = k - 1
<1>2. N \in Nat
  BY FS_CardinalityType
<1>3. PICK rank \in [V -> 1 .. N] :
         /\ \A x \in V : Cardinality({y \in V : <<y, x>> \in R}) = rank[x] - 1
         /\ \A x, y \in V : <<x, y>> \in R <=> rank[x] < rank[y]
         /\ \A k \in 1 .. N : \E x \in V : rank[x] = k
  <2>1. \A x \in V : <<x, x>> \notin R
    BY NearerOrder
  <2>2. \A x, y, z \in V : <<x, y>> \in R /\ <<y, z>> \in R => <<x, z>> \in R
    BY NearerOrder
  <2>3. \A x, y \in V : x # y => <<x, y>> \in R \/ <<y, x>> \in R
    BY NearerOrder
  <2> HIDE DEF R
  <2> QED BY <2>1, <2>2, <2>3, Ranks
<1>4. \A x \in V : Cardinality({j \in V : Nearer(j, x)}) = rank[x] - 1
  <2> TAKE x \in V
  <2>1. {y \in V : <<y, x>> \in R} = {j \in V : Nearer(j, x)}
    OBVIOUS
  <2> QED BY <1>3, <2>1
<1>5. \A k \in 1 .. N : Pos(k) \in V /\ rank[Pos(k)] = k
  <2> TAKE k \in 1 .. N
  <2>1. PICK x \in V : rank[x] = k
    BY <1>3
  <2>2. \E i \in V : Cardinality({j \in V : Nearer(j, i)}) = k - 1
    BY <1>4, <2>1
  <2>3. Pos(k) \in V /\ Cardinality({j \in V : Nearer(j, Pos(k))}) = k - 1
    BY <2>2
  <2> HIDE DEF Pos
  <2>4. rank[Pos(k)] - 1 = k - 1 /\ rank[Pos(k)] \in Int
    BY <1>3, <1>4, <2>3
  <2> QED BY <2>3, <2>4
<1>6. Ranked(V) = [k \in 1 .. N |-> Pos(k)]
  BY DEF Ranked
<1> HIDE DEF Pos
<1>7. Ranked(V) \in Seq(V)
  BY <1>2, <1>5, <1>6, SeqDef
<1>8. Range(Ranked(V)) \subseteq V
  BY <1>5, <1>6 DEF Range
<1>9. Len(Ranked(V)) = N
  BY <1>2, <1>6, <1>7
<1>10. ASSUME NEW m \in 1 .. N, NEW n \in 1 .. N, m < n PROVE Nearer(Pos(m), Pos(n))
  <2>1. <<Pos(m), Pos(n)>> \in R
    BY <1>3, <1>5, <1>10
  <2> QED BY <2>1
<1>11. Sorted(Ranked(V))
  <2> SUFFICES ASSUME NEW m \in 1 .. Len(Ranked(V)), NEW n \in 1 .. Len(Ranked(V)), m < n
               PROVE  Nearer(Ranked(V)[m], Ranked(V)[n])
    BY DEF Sorted
  <2>1. Ranked(V)[m] = Pos(m) /\ Ranked(V)[n] = Pos(n) /\ m \in 1 .. N /\ n \in 1 .. N
    BY <1>6, <1>9
  <2> QED BY <2>1, <1>10
<1> QED BY <1>7, <1>8, <1>11

\* A prefix keeps the order.
LEMMA Prefix ==
    ASSUME NEW S, NEW s \in Seq(S), NEW n \in 0 .. Len(s)
    PROVE  /\ SubSeq(s, 1, n) \in Seq(S) /\ Len(SubSeq(s, 1, n)) = n
           /\ \A k \in 1 .. n : SubSeq(s, 1, n)[k] = s[k]
           /\ Range(SubSeq(s, 1, n)) \subseteq Range(s)
           /\ Sorted(s) => Sorted(SubSeq(s, 1, n))
<1>1. /\ SubSeq(s, 1, n) \in Seq(S) /\ Len(SubSeq(s, 1, n)) = n
      /\ \A k \in 1 .. n : SubSeq(s, 1, n)[k] = s[k]
  OBVIOUS
<1>2. Range(SubSeq(s, 1, n)) \subseteq Range(s)
  BY <1>1 DEF Range
<1>3. Sorted(s) => Sorted(SubSeq(s, 1, n))
  <2> SUFFICES ASSUME Sorted(s), NEW k \in 1 .. n, NEW m \in 1 .. n, k < m
               PROVE  Nearer(SubSeq(s, 1, n)[k], SubSeq(s, 1, n)[m])
    BY <1>1 DEF Sorted
  <2>1. SubSeq(s, 1, n)[k] = s[k] /\ SubSeq(s, 1, n)[m] = s[m]
    BY <1>1
  <2>2. k \in 1 .. Len(s) /\ m \in 1 .. Len(s)
    OBVIOUS
  <2>3. Nearer(s[k], s[m])
    BY <2>2 DEF Sorted
  <2> QED BY <2>1, <2>3
<1> QED BY <1>1, <1>2, <1>3

LEMMA FirstKIs ==
    ASSUME NEW S, NEW s \in Seq(S), Sorted(s)
    PROVE  FirstK(s) \in Seq(S) /\ Range(FirstK(s)) \subseteq Range(s) /\ Sorted(FirstK(s))
<1>1. PICK n \in 0 .. Len(s) : FirstK(s) = SubSeq(s, 1, n)
  BY TextAssumption DEF FirstK
<1> QED BY <1>1, Prefix

\* Whichever plan the query takes, it returns stored corpus vectors in order.
LEMMA Retrieved ==
    ASSUME NEW V, V \subseteq ItemTypes, IsFiniteSet(V),
           \A i, j \in V : i.doc = j.doc /\ i.ord = j.ord => i = j,
           NEW found \in {RetrieveExact(V), RetrieveHnsw(V)}
    PROVE  found \in Seq(ItemTypes) /\ Range(found) \subseteq V /\ Sorted(found)
<1>1. ASSUME NEW U, U \subseteq V
      PROVE  /\ FirstK(Ranked(U)) \in Seq(ItemTypes) /\ Range(FirstK(Ranked(U))) \subseteq V
             /\ Sorted(FirstK(Ranked(U)))
  <2>1. IsFiniteSet(U) /\ U \subseteq ItemTypes
    BY <1>1, FS_Subset
  <2>2. Ranked(U) \in Seq(U) /\ Range(Ranked(U)) \subseteq U /\ Sorted(Ranked(U))
    BY <1>1, <2>1, RankedIs
  <2>3. Ranked(U) \in Seq(ItemTypes)
    BY <2>1, <2>2, SeqMonotonic
  <2> QED BY <1>1, <2>2, <2>3, FirstKIs
<1>2. {i \in V : IsCorpus(i)} \subseteq V
  OBVIOUS
<1>3. Range(Ranked(V)) \subseteq V /\ Ranked(V) \in Seq(V)
  BY RankedIs
<1>4. CandidateLimit \in Nat
  BY TextAssumption DEF CandidateLimit
<1>5. PICK n \in 0 .. Len(Ranked(V)) :
         n = IF Len(Ranked(V)) < CandidateLimit THEN Len(Ranked(V)) ELSE CandidateLimit
  BY <1>3, <1>4
<1>6. {i \in Range(SubSeq(Ranked(V), 1, n)) : IsCorpus(i)} \subseteq V
  BY <1>3, <1>5, Prefix
<1>7. RetrieveHnsw(V) = FirstK(Ranked({i \in Range(SubSeq(Ranked(V), 1, n)) : IsCorpus(i)}))
  BY <1>5 DEF RetrieveHnsw
<1> QED BY <1>1, <1>2, <1>6, <1>7 DEF RetrieveExact

-----------------------------------------------------------------------------
(* The windows of a text *)

\* A set of naturals has a least one.
LEMMA NatMin ==
    ASSUME NEW T, T \subseteq Nat, T # {}
    PROVE  \E m \in T : \A n \in T : m <= n
<1>1. PICK R : R = OpToRel(<, Nat)
  OBVIOUS
<1>2. IsWellFoundedOn(R, Nat)
  BY <1>1, NatLessThanWellFounded
<1>3. PICK m \in T : \A n \in T : ~(<<n, m>> \in R)
  BY <1>2, WFMin
<1>4. \A n \in T : ~(n < m)
  BY <1>1, <1>3 DEF OpToRel
<1> QED BY <1>4

Window == [start : Nat, end : Nat]
\* The windows from position s on, given those of the later positions.
WindowsFrom(w, n, s) ==
    IF s + ChunkSize >= n THEN << [start |-> s, end |-> n] >>
    ELSE << [start |-> s, end |-> s + ChunkSize] >> \o w[s + ChunkSize - Overlap]
IsWindows(w, n) == w = [s \in 0 .. n |-> WindowsFrom(w, n, s)]
EndFrom(n, s) == IF s + ChunkSize >= n THEN n ELSE s + ChunkSize
\* Windows that cover a text of n code points from s on.
Covering(n, s) ==
    {c \in Seq(Window) :
        /\ Len(c) >= 1 /\ c[1].start = s /\ c[1].end = EndFrom(n, s) /\ c[Len(c)].end = n
        /\ \A k \in 1 .. Len(c) : c[k].end - c[k].start \in 1 .. ChunkSize
        /\ \A k \in 2 .. Len(c) : c[k].start = c[k - 1].end - Overlap /\ c[k].end > c[k - 1].end}

LEMMA WindowsStep ==
    ASSUME NEW w, NEW n, NEW s
    PROVE  /\ s + ChunkSize >= n => WindowsFrom(w, n, s) = << [start |-> s, end |-> n] >>
           /\ ~(s + ChunkSize >= n) => WindowsFrom(w, n, s) =
                  << [start |-> s, end |-> s + ChunkSize] >> \o w[s + ChunkSize - Overlap]
BY DEF WindowsFrom

\* The loop of chunk_normalized_text ends: each window starts after the last.
LEMMA WindowsExist ==
    ASSUME NEW n \in Nat
    PROVE  \E w : IsWindows(w, n)
<1> DEFINE Solves(f, k) == f = [s \in n - k .. n |-> WindowsFrom(f, n, s)]
           Bad == {k \in 0 .. n : ~\E f : Solves(f, k)}
<1>1. ChunkSize \in Nat /\ Overlap \in Nat /\ Overlap < ChunkSize
  BY TextAssumption
<1>2. SUFFICES Bad = {}
  <2>1. n \in 0 .. n /\ n - n = 0
    OBVIOUS
  <2>2. \E f : Solves(f, n)
    BY <1>2, <2>1
  <2> QED BY <2>1, <2>2 DEF IsWindows
<1>3. SUFFICES ASSUME Bad # {} PROVE FALSE
  OBVIOUS
<1>4. PICK m \in Bad : \A k \in Bad : m <= k
  <2>1. Bad \subseteq Nat
    OBVIOUS
  <2> HIDE DEF Bad
  <2> QED BY <1>3, <2>1, NatMin
<1>5. m \in 0 .. n /\ ~\E f : Solves(f, m)
  OBVIOUS
<1>6. m # 0
  <2>1. SUFFICES ASSUME m = 0 PROVE FALSE
    OBVIOUS
  <2> DEFINE f == [s \in n - 0 .. n |-> << [start |-> s, end |-> n] >>]
  <2>2. \A s \in n - 0 .. n : s + ChunkSize >= n
    BY <1>1
  <2>3. \A s \in n - 0 .. n : WindowsFrom(f, n, s) = << [start |-> s, end |-> n] >>
    BY <2>2 DEF WindowsFrom
  <2>4. Solves(f, 0)
    BY <2>3
  <2> QED BY <1>5, <2>1, <2>4
<1>7. PICK k \in 0 .. n : k = m - 1
  BY <1>5, <1>6
<1>8. k \notin Bad
  BY <1>4, <1>7
<1>9. PICK f : Solves(f, k)
  BY <1>8
<1> DEFINE g == [s \in n - m .. n |-> IF s = n - m THEN WindowsFrom(f, n, s) ELSE f[s]]
<1>10. ASSUME NEW s \in n - m .. n PROVE WindowsFrom(g, n, s) = WindowsFrom(f, n, s)
  <2>1. CASE s + ChunkSize >= n
    BY <2>1 DEF WindowsFrom
  <2>2. CASE ~(s + ChunkSize >= n)
    <3>1. PICK t \in n - m .. n : t = s + ChunkSize - Overlap /\ t # n - m
      BY <1>1, <1>5, <2>2
    <3>2. g[t] = f[t]
      BY <3>1
    <3> QED BY <3>1, <3>2 DEF WindowsFrom
  <2> QED BY <2>1, <2>2
<1>11. ASSUME NEW s \in n - m .. n PROVE g[s] = WindowsFrom(g, n, s)
  <2>1. CASE s = n - m
    BY <2>1, <1>10
  <2>2. CASE s # n - m
    <3>1. s \in n - k .. n /\ g[s] = f[s]
      BY <2>2, <1>5, <1>7
    <3>2. f[s] = WindowsFrom(f, n, s)
      <4> HIDE DEF g
      <4> QED BY <3>1, <1>9
    <3> HIDE DEF g
    <3> QED BY <3>1, <3>2, <1>10
  <2> QED BY <2>1, <2>2
<1>12. g = [s \in n - m .. n |-> g[s]]
  OBVIOUS
<1>13. Solves(g, m)
  <2> HIDE DEF g
  <2> QED BY <1>11, <1>12
<1> QED BY <1>5, <1>13

LEMMA OneElement ==
    ASSUME NEW S, NEW x \in S
    PROVE  << x >> \in Seq(S) /\ Len(<< x >>) = 1 /\ << x >>[1] = x
OBVIOUS

LEMMA OneMore ==
    ASSUME NEW S, NEW x \in S, NEW d \in Seq(S)
    PROVE  /\ << x >> \o d \in Seq(S) /\ Len(<< x >> \o d) = Len(d) + 1
           /\ (<< x >> \o d)[1] = x
           /\ \A k \in 2 .. Len(d) + 1 : (<< x >> \o d)[k] = d[k - 1]
<1>1. Len(d) \in Nat
  OBVIOUS
<1> QED BY <1>1, OneElement, ConcatProperties

LEMMA CoveredByOne ==
    ASSUME NEW n \in Nat, NEW s \in Nat, s < n, s + ChunkSize >= n
    PROVE  << [start |-> s, end |-> n] >> \in Covering(n, s)
<1>1. PICK x \in Window : x = [start |-> s, end |-> n]
  BY DEF Window
<1>2. PICK c \in Seq(Window) : c = << x >> /\ Len(c) = 1 /\ c[1] = x
  BY OneElement
<1>3. x.start = s /\ x.end = n /\ n - s \in 1 .. ChunkSize /\ EndFrom(n, s) = n
  BY <1>1, TextAssumption DEF EndFrom
<1>4. \A k \in 1 .. Len(c) : c[k] = x
  BY <1>2
<1>5. c \in Covering(n, s)
  BY <1>2, <1>3, <1>4 DEF Covering
<1> QED BY <1>1, <1>2, <1>5

LEMMA CoveredByMore ==
    ASSUME NEW n \in Nat, NEW s \in Nat, ~(s + ChunkSize >= n),
           NEW t, t = s + ChunkSize - Overlap, NEW d \in Covering(n, t)
    PROVE  << [start |-> s, end |-> s + ChunkSize] >> \o d \in Covering(n, s)
<1>1. ChunkSize \in Nat /\ Overlap \in Nat /\ Overlap < ChunkSize /\ t \in Nat
  BY TextAssumption
<1>2. PICK x \in Window : x = [start |-> s, end |-> s + ChunkSize]
  <2>1. s + ChunkSize \in Nat
    BY <1>1
  <2> QED BY <2>1 DEF Window
<1>3. x.start = s /\ x.end = s + ChunkSize
  BY <1>2
<1>4. d \in Seq(Window) /\ Len(d) >= 1 /\ Len(d) \in Nat
  BY DEF Covering
<1>a. PICK c : c = << x >> \o d
  OBVIOUS
<1>5. /\ c \in Seq(Window) /\ Len(c) = Len(d) + 1 /\ c[1] = x
      /\ \A k \in 2 .. Len(c) : c[k] = d[k - 1]
  BY <1>4, <1>a, OneMore
<1>6. /\ d[1].start = t /\ d[1].end = EndFrom(n, t) /\ d[Len(d)].end = n
      /\ \A k \in 1 .. Len(d) : d[k].end - d[k].start \in 1 .. ChunkSize
      /\ \A k \in 2 .. Len(d) : d[k].start = d[k - 1].end - Overlap /\ d[k].end > d[k - 1].end
  BY DEF Covering
<1>7. EndFrom(n, t) > s + ChunkSize /\ EndFrom(n, s) = s + ChunkSize
  BY <1>1 DEF EndFrom
<1>8. c[Len(c)].end = n
  BY <1>4, <1>5, <1>6
<1>9. ASSUME NEW k \in 1 .. Len(c) PROVE c[k].end - c[k].start \in 1 .. ChunkSize
  <2>1. CASE k = 1
    BY <2>1, <1>1, <1>3, <1>5
  <2>2. CASE k # 1
    <3>1. PICK i \in 1 .. Len(d) : i = k - 1 /\ c[k] = d[i]
      BY <2>2, <1>4, <1>5
    <3> QED BY <3>1, <1>6
  <2> QED BY <2>1, <2>2
<1>10. ASSUME NEW k \in 2 .. Len(c)
       PROVE  c[k].start = c[k - 1].end - Overlap /\ c[k].end > c[k - 1].end
  <2>1. CASE k = 2
    <3>1. c[k] = d[1] /\ c[k - 1] = x
      BY <2>1, <1>4, <1>5
    <3> QED BY <3>1, <1>1, <1>3, <1>6, <1>7
  <2>2. CASE k # 2
    <3>1. k \in 2 .. Len(c) /\ k - 1 \in 2 .. Len(c) /\ k - 1 \in 2 .. Len(d)
      BY <2>2, <1>4, <1>5
    <3>2. PICK i \in 2 .. Len(d) : i = k - 1
      BY <3>1
    <3>3. c[k] = d[i] /\ c[k - 1] = d[i - 1]
      BY <3>1, <3>2, <1>5
    <3> QED BY <3>3, <1>6
  <2> QED BY <2>1, <2>2
<1>11. c \in Covering(n, s)
  <2>1. Len(c) >= 1 /\ c[1].start = s /\ c[1].end = EndFrom(n, s)
    BY <1>3, <1>4, <1>5, <1>7
  <2> QED BY <2>1, <1>5, <1>8, <1>9, <1>10 DEF Covering
<1> QED BY <1>2, <1>a, <1>11

LEMMA WindowsCover ==
    ASSUME NEW n \in Nat \ {0}, NEW w, IsWindows(w, n)
    PROVE  \A s \in 0 .. n - 1 : w[s] \in Covering(n, s)
<1> DEFINE Bad == {k \in 1 .. n : w[n - k] \notin Covering(n, n - k)}
<1>1. /\ ChunkSize \in Nat /\ Overlap \in Nat /\ Overlap < ChunkSize
      /\ \A s \in 0 .. n : w[s] = WindowsFrom(w, n, s)
  BY TextAssumption DEF IsWindows
<1>2. SUFFICES Bad = {}
  <2> SUFFICES ASSUME NEW s \in 0 .. n - 1 PROVE w[s] \in Covering(n, s)
    OBVIOUS
  <2>1. n - s \in 1 .. n /\ n - (n - s) = s
    OBVIOUS
  <2>2. n - s \notin Bad
    BY <1>2
  <2> QED BY <2>1, <2>2
<1>3. SUFFICES ASSUME Bad # {} PROVE FALSE
  OBVIOUS
<1>4. PICK m \in Bad : \A k \in Bad : m <= k
  <2>1. Bad \subseteq Nat
    OBVIOUS
  <2> HIDE DEF Bad
  <2> QED BY <1>3, <2>1, NatMin
<1>5. PICK s \in 0 .. n - 1 : s = n - m
  OBVIOUS
<1>6. w[s] = WindowsFrom(w, n, s) /\ s \in Nat
  BY <1>1
<1>7. CASE s + ChunkSize >= n
  <2>1. s < n /\ w[s] = << [start |-> s, end |-> n] >>
    <3>1. WindowsFrom(w, n, s) = << [start |-> s, end |-> n] >>
      BY <1>7, WindowsStep
    <3> QED BY <3>1, <1>6
  <2>2. w[s] \in Covering(n, s)
    BY <2>1, <1>6, <1>7, CoveredByOne
  <2> QED BY <1>5, <2>2
<1>8. CASE ~(s + ChunkSize >= n)
  <2>1. PICK t \in 0 .. n - 1 : t = s + ChunkSize - Overlap
    BY <1>1, <1>8
  <2>2. n - t \in 1 .. n /\ ~(m <= n - t) /\ n - (n - t) = t
    BY <1>1, <1>5, <2>1
  <2>3. n - t \notin Bad
    BY <1>4, <2>2
  <2>4. w[t] \in Covering(n, t)
    BY <2>2, <2>3
  <2>5. w[s] = << [start |-> s, end |-> s + ChunkSize] >> \o w[t]
    BY <1>6, <1>8, <2>1, WindowsStep
  <2>6. w[s] \in Covering(n, s)
    BY <1>6, <1>8, <2>1, <2>4, <2>5, CoveredByMore
  <2> QED BY <1>5, <2>6
<1> QED BY <1>7, <1>8

\* chunk_normalized_text covers a text without a gap.
LEMMA ChunksAre ==
    ASSUME NEW n \in Nat \ {0}
    PROVE  ChunkNormalizedText(n) \in Covering(n, 0)
<1> DEFINE W == CHOOSE w : IsWindows(w, n)
<1>1. IsWindows(W, n)
  BY WindowsExist
<1>2. ChunkNormalizedText(n) = W[0]
  BY DEF ChunkNormalizedText, WindowsFrom, IsWindows
<1> HIDE DEF W
<1> QED BY <1>1, <1>2, WindowsCover

-----------------------------------------------------------------------------
(* The pack, the merge, the batches and the items *)

\* A sum over nothing.
LEMMA EmptyFold ==
    FoldLeft(LAMBDA sum, i : sum + DisplayLength(i), 0, << >>) = 0
<1> DEFINE Iter(f) == f = [s \in SUBSET {} |->
              IF s = {} THEN 0
              ELSE (LET x == Max(s) IN f[s \ {x}] + DisplayLength(<< >>[x]))]
           F == CHOOSE f : Iter(f)
<1>1. Iter([s \in SUBSET {} |-> 0])
  OBVIOUS
<1>2. Iter(F)
  BY <1>1
<1>3. F[{}] = 0
  <2> HIDE DEF F
  <2> QED BY <1>2
<1>4. DOMAIN << >> = {}
  OBVIOUS
<1>5. FoldLeft(LAMBDA sum, i : sum + DisplayLength(i), 0, << >>) = F[{}]
  BY <1>4 DEF FoldLeft, MapThenFoldSet
<1> QED BY <1>3, <1>5

LEMMA LargestIs ==
    ASSUME NEW T, NEW top \in Nat, T \subseteq 0 .. top, T # {}
    PROVE  \E n \in T : \A m \in T : m <= n
<1>1. PICK k \in {top - m : m \in T} : \A l \in {top - m : m \in T} : k <= l
  <2>1. \A m \in T : top - m \in Nat
    OBVIOUS
  <2>2. {top - m : m \in T} \subseteq Nat
    BY <2>1
  <2>3. {top - m : m \in T} # {}
    OBVIOUS
  <2> QED BY <2>2, <2>3, NatMin
<1>2. PICK n \in T : k = top - n
  BY <1>1
<1>3. ASSUME NEW m \in T PROVE m <= n
  BY <1>1, <1>2
<1> QED BY <1>3

\* The pack is a prefix of the ids.
LEMMA PackIs ==
    ASSUME NEW S, NEW ids \in Seq(S)
    PROVE  Range(BuildEvidenceContextPack(ids)) \subseteq Range(ids)
<1> DEFINE top == IF Len(ids) < MaxPackItems THEN Len(ids) ELSE MaxPackItems
           bytes(n) == FoldLeft(LAMBDA sum, i : sum + DisplayLength(i), 0, SubSeq(ids, 1, n))
           fits == {n \in 0 .. top : bytes(n) <= MaxPackBytes}
           last == CHOOSE n \in fits : \A m \in fits : m <= n
<1>1. top \in Nat /\ top <= Len(ids)
  BY TextAssumption
<1>2. 0 \in fits
  <2>1. SubSeq(ids, 1, 0) = << >>
    OBVIOUS
  <2>2. bytes(0) = 0
    BY <2>1, EmptyFold
  <2> HIDE DEF bytes, top
  <2> QED BY <1>1, <2>2, TextAssumption
<1>3. last \in fits
  <2>1. fits \subseteq 0 .. top /\ fits # {}
    BY <1>2
  <2> HIDE DEF fits, top
  <2>2. \E n \in fits : \A m \in fits : m <= n
    BY <1>1, <2>1, LargestIs
  <2> QED BY <2>2
<1>4. last \in 0 .. Len(ids)
  <2>1. last \in 0 .. top
    BY <1>3
  <2> HIDE DEF last, top
  <2> QED BY <1>1, <2>1
<1>5. BuildEvidenceContextPack(ids) = SubSeq(ids, 1, last)
  BY DEF BuildEvidenceContextPack
<1> HIDE DEF last
<1>6. \A k \in 1 .. last : SubSeq(ids, 1, last)[k] = ids[k]
  BY <1>4
<1>7. SubSeq(ids, 1, last) \in Seq(S) /\ Len(SubSeq(ids, 1, last)) = last
  BY <1>4
<1> QED BY <1>4, <1>5, <1>6, <1>7 DEF Range

LEMMA MergedIs ==
    ASSUME NEW S, NEW s \in Seq(S), NEW t \in Seq(S)
    PROVE  /\ MergeEvidenceIds(s, t) \in Seq(S)
           /\ Range(MergeEvidenceIds(s, t)) \subseteq Range(s) \cup Range(t)
<1> DEFINE keep == {n \in DOMAIN (s \o t) : \A m \in 1 .. n - 1 : (s \o t)[m] # (s \o t)[n]}
<1>1. PICK ids \in Seq(S) : ids = s \o t
  BY ConcatProperties
<1>2. Range(ids) \subseteq Range(s) \cup Range(t)
  <2> SUFFICES ASSUME NEW n \in DOMAIN ids PROVE ids[n] \in Range(s) \cup Range(t)
    BY DEF Range
  <2>1. /\ DOMAIN ids = 1 .. Len(s) + Len(t) /\ Len(s) \in Nat /\ Len(t) \in Nat
        /\ DOMAIN s = 1 .. Len(s) /\ DOMAIN t = 1 .. Len(t)
        /\ ids[n] = IF n <= Len(s) THEN s[n] ELSE t[n - Len(s)]
    BY <1>1, ConcatProperties, LenProperties
  <2>2. CASE n <= Len(s)
    BY <2>1, <2>2 DEF Range
  <2>3. CASE ~(n <= Len(s))
    <3>1. n - Len(s) \in DOMAIN t
      BY <2>1, <2>3
    <3> QED BY <2>1, <2>3, <3>1 DEF Range
  <2> QED BY <2>2, <2>3
<1>3. keep \in SUBSET DOMAIN ids
  BY <1>1
<1>4. MergeEvidenceIds(s, t) = Selected(ids, keep)
  BY <1>1 DEF MergeEvidenceIds
<1> HIDE DEF keep
<1>5. Range(Selected(ids, keep)) \subseteq Range(ids)
  <2>1. Range(Selected(ids, keep)) = {ids[n] : n \in keep}
    BY <1>3, SelectedIs
  <2> QED BY <1>3, <2>1 DEF Range
<1> QED BY <1>2, <1>3, <1>4, <1>5, SelectedIs

LEMMA MissingIs ==
    ASSUME NEW S, NEW ids \in Seq(S)
    PROVE  /\ Missing(ids) \in Seq(S)
           /\ Range(Missing(ids)) = {i \in Range(ids) : i \notin vectors}
<1> DEFINE keep == {n \in DOMAIN ids : ids[n] \notin vectors}
<1>1. keep \in SUBSET DOMAIN ids
  OBVIOUS
<1>2. Missing(ids) = Selected(ids, keep)
  BY DEF Missing
<1>3. {ids[n] : n \in keep} = {i \in Range(ids) : i \notin vectors}
  BY DEF Range
<1> HIDE DEF keep
<1> QED BY <1>1, <1>2, <1>3, SelectedIs

\* One batch and what is left of the work are all of it.
LEMMA BatchIs ==
    ASSUME NEW S, NEW ids \in Seq(S)
    PROVE  LET rest == SubSeq(ids, EmbedBatch + 1, Len(ids))
           IN  /\ rest \in Seq(S) /\ Batch(ids) \in Seq(S)
               /\ Range(Batch(ids)) \subseteq Range(ids)
               /\ Range(ids) \subseteq Range(Batch(ids)) \cup Range(rest)
<1> DEFINE rest == SubSeq(ids, EmbedBatch + 1, Len(ids))
<1>1. EmbedBatch \in Nat /\ EmbedBatch > 0 /\ Len(ids) \in Nat
  BY StoreAssumption
<1>2. PICK n \in 0 .. Len(ids) : n = IF Len(ids) < EmbedBatch THEN Len(ids) ELSE EmbedBatch
  BY <1>1
<1>3. Batch(ids) = SubSeq(ids, 1, n)
  BY <1>2 DEF Batch
<1>4. /\ Batch(ids) \in Seq(S) /\ Range(Batch(ids)) \subseteq Range(ids) /\ Len(Batch(ids)) = n
      /\ \A k \in 1 .. n : Batch(ids)[k] = ids[k]
  BY <1>3, Prefix
<1>5. rest \in Seq(S) /\ Len(rest) = (IF EmbedBatch + 1 <= Len(ids) THEN Len(ids) - EmbedBatch ELSE 0)
      /\ \A i \in 1 .. Len(ids) - EmbedBatch : rest[i] = ids[EmbedBatch + i]
  <2>1. \A i \in EmbedBatch + 1 .. Len(ids) : ids[i] \in S
    BY <1>1
  <2> QED BY <1>1, <2>1, SubSeqProperties
<1> HIDE DEF rest
<1>6. ASSUME NEW k \in 1 .. Len(ids) PROVE ids[k] \in Range(Batch(ids)) \cup Range(rest)
  <2>1. CASE k <= n
    <3>1. k \in DOMAIN Batch(ids) /\ Batch(ids)[k] = ids[k]
      BY <2>1, <1>4
    <3> QED BY <3>1 DEF Range
  <2>2. CASE ~(k <= n)
    <3>1. PICK i \in 1 .. Len(ids) - EmbedBatch : i = k - EmbedBatch
      BY <2>2, <1>1, <1>2
    <3>2. i \in DOMAIN rest /\ rest[i] = ids[k]
      BY <3>1, <1>1, <1>5
    <3> QED BY <3>2 DEF Range
  <2> QED BY <2>1, <2>2
<1>7. Range(ids) \subseteq Range(Batch(ids)) \cup Range(rest)
  BY <1>6 DEF Range
<1> QED BY <1>4, <1>5, <1>7 DEF rest

LEMMA RangeFinite ==
    ASSUME NEW S, NEW s \in Seq(S)
    PROVE  IsFiniteSet(Range(s)) /\ Range(s) \subseteq S
<1>1. IsFiniteSet(DOMAIN s)
  BY FS_Interval
<1>2. s \in Surjection(DOMAIN s, Range(s))
  BY DEF Surjection, Range
<1> QED BY <1>1, <1>2, FS_Surjection DEF Range

LEMMA ItemsOfIs ==
    ASSUME NEW row \in RowTypes
    PROVE  /\ ItemsOf(row) \in Seq(ItemTypes)
           /\ \A i \in Range(ItemsOf(row)) : i \in ItemTypes /\ i.doc = row.doc /\ i.by = row.by
<1>1. row.doc \in Documents /\ row.by \in Actors
  BY DEF RowTypes
<1>2. Len(ChunksOf(row.doc)) \in Nat
  <2>1. CASE \E hit \in Hits : row.doc = WebDocument(hit)
    <3>1. row.doc.kind = "web_search"
      BY <2>1 DEF WebDocument
    <3> QED BY <3>1 DEF ChunksOf
  <2>2. CASE \E key \in CorpusKeys : \E n \in CorpusTexts : row.doc = CorpusDocument(key, n)
    <3>1. PICK n \in Nat \ {0} : row.doc.kind = "corpus_text" /\ row.doc.text = n
      BY <2>2, StoreAssumption DEF CorpusDocument
    <3>2. ChunkNormalizedText(n) \in Seq(Window)
      BY <3>1, ChunksAre DEF Covering
    <3> QED BY <3>1, <3>2 DEF ChunksOf
  <2> QED BY <1>1, <2>1, <2>2 DEF Documents
<1>3. PICK N \in Nat : N = Len(ChunksOf(row.doc))
  BY <1>2
<1>4. ItemsOf(row) = [n \in 1 .. N |-> [doc |-> row.doc, ord |-> n, by |-> row.by]]
  BY <1>3 DEF ItemsOf
<1>5. \A n \in 1 .. N : [doc |-> row.doc, ord |-> n, by |-> row.by] \in ItemTypes
  BY <1>1 DEF ItemTypes
<1>6. ItemsOf(row) \in Seq(ItemTypes)
  BY <1>4, <1>5, SeqDef
<1>7. ASSUME NEW i \in Range(ItemsOf(row)) PROVE i \in ItemTypes /\ i.doc = row.doc /\ i.by = row.by
  BY <1>4, <1>5, <1>7 DEF Range
<1> QED BY <1>6, <1>7

LEMMA ItemsAre ==
    ASSUME docs \subseteq RowTypes
    PROVE  /\ Items \subseteq ItemTypes
           /\ \A i \in Items : \E row \in docs : i \in Range(ItemsOf(row)) /\ i.doc = row.doc /\ i.by = row.by
<1>1. ASSUME NEW i \in Items
      PROVE  /\ i \in ItemTypes
             /\ \E row \in docs : i \in Range(ItemsOf(row)) /\ i.doc = row.doc /\ i.by = row.by
  <2>1. PICK row \in docs : i \in Range(ItemsOf(row))
    BY DEF Items
  <2> QED BY <2>1, ItemsOfIs
<1> QED BY <1>1

LEMMA ItemsUnique ==
    ASSUME docs \subseteq RowTypes, \A r, s \in docs : r.doc = s.doc => r = s
    PROVE  \A i, j \in Items : i.doc = j.doc /\ i.ord = j.ord => i = j
<1> SUFFICES ASSUME NEW i \in Items, NEW j \in Items, i.doc = j.doc, i.ord = j.ord PROVE i = j
  OBVIOUS
<1>1. i \in ItemTypes /\ j \in ItemTypes
  BY ItemsAre
<1>2. i.by = j.by
  BY ItemsAre
<1> QED BY <1>1, <1>2 DEF ItemTypes

-----------------------------------------------------------------------------
(* What a step leaves alone *)

Grow == docs \subseteq docs' /\ sources \subseteq sources' /\ vectors \subseteq vectors' /\ links \subseteq links'
OnlyMoves(a) ==
    /\ proc' \in [Actors -> ProcTypes] /\ tx' \in [Actors -> TxTypes]
    /\ \A b \in Actors \ {a} : proc'[b] = proc[b] /\ tx'[b] = tx[b]

LEMMA Grown ==
    ASSUME Grow
    PROVE  /\ UNION {Range(ItemsOf(row)) : row \in docs} \subseteq UNION {Range(ItemsOf(row)) : row \in docs'}
           /\ \A j : {l.item : l \in {k \in links : k.job = j}} \subseteq {l.item : l \in {k \in links' : k.job = j}}
BY DEF Grow

LEMMA OthersKeep ==
    ASSUME Inv, Grow, NEW a \in Actors, OnlyMoves(a), NEW b \in Actors \ {a}
    PROVE  Roles(b)' /\ HeldOK(b)' /\ LinkingOK(b)'
<1>1. proc'[b] = proc[b] /\ tx'[b] = tx[b]
  BY DEF OnlyMoves
<1>2. Roles(b) /\ HeldOK(b) /\ LinkingOK(b)
  BY DEF Inv
<1>3. Roles(b)'
  BY <1>1, <1>2 DEF Roles
<1>4. HeldOK(b)'
  BY <1>1, <1>2, Grown DEF HeldOK, Grow, Items, Linked
<1>5. LinkingOK(b)'
  BY <1>1, <1>2 DEF LinkingOK, LinkOf, Grow
<1> QED BY <1>3, <1>4, <1>5

LEMMA Moves ==
    ASSUME Inv, Grow, NEW a \in Actors, OnlyMoves(a), TablesOK', UniqueRows', SourcesOK',
           Roles(a)', HeldOK(a)', LinkingOK(a)', refused' = FALSE
    PROVE  Inv'
<1>1. \A b \in Actors : Roles(b)' /\ HeldOK(b)' /\ LinkingOK(b)'
  BY OthersKeep
<1>2. ActorsOK'
  BY DEF OnlyMoves, ActorsOK
<1> QED BY <1>1, <1>2 DEF Inv

LEMMA QuietTables ==
    ASSUME Inv, UNCHANGED <<docs, sources, vectors, links>>
    PROVE  TablesOK' /\ Grow
BY DEF Inv, TablesOK, Grow, Items

LEMMA QuietRows ==
    ASSUME Inv, NEW a \in Actors, OnlyMoves(a), docs' = docs, tx'[a].docs = {}
    PROVE  UniqueRows'
BY DEF Inv, UniqueRows, OnlyMoves, Inserted

LEMMA QuietSources ==
    ASSUME Inv, NEW a \in Actors, OnlyMoves(a), docs' = docs, sources \subseteq sources',
           proc'[a].pc \notin {"document", "insert", "commit"}
    PROVE  SourcesOK'
BY DEF Inv, SourcesOK, OnlyMoves

\* A step of one process that writes nothing.
LEMMA QuietStep ==
    ASSUME Inv, NEW a \in Actors, OnlyMoves(a), UNCHANGED <<docs, sources, vectors, links, refused>>,
           tx'[a].docs = {}, proc'[a].pc \notin {"document", "insert", "commit"},
           Roles(a)', HeldOK(a)', LinkingOK(a)'
    PROVE  Inv'
<1>1. TablesOK' /\ Grow
  BY QuietTables
<1>2. UniqueRows' /\ SourcesOK'
  BY QuietRows, QuietSources
<1>3. refused' = FALSE
  BY DEF Inv
<1> QED BY <1>1, <1>2, <1>3, Moves

LEMMA IdleIs ==
    /\ Idle \in ProcTypes /\ NoRows \in TxTypes
    /\ Idle.pc = "idle" /\ Idle.job = None /\ Idle.ids = << >> /\ Idle.returned = {} /\ Idle.held = << >>
    /\ NoRows.docs = {} /\ NoRows.links = {} /\ NoRows.sources = {}
BY DEF Idle, NoRows, ProcTypes, TxTypes, Steps

LEMMA ProcIs ==
    ASSUME Inv, NEW a \in Actors
    PROVE  /\ proc[a] \in ProcTypes /\ tx[a] \in TxTypes
           /\ Roles(a) /\ HeldOK(a) /\ LinkingOK(a)
BY DEF Inv, ActorsOK

LEMMA EmptyRange == Range(<< >>) = {}
BY DEF Range

\* What is left of a process that raised or crashed.
LEMMA IdleInv ==
    ASSUME Inv, NEW a \in Actors, proc' = [proc EXCEPT ![a] = Idle], tx' = [tx EXCEPT ![a] = NoRows],
           UNCHANGED <<docs, sources, vectors, links, refused>>
    PROVE  Inv'
<1>1. proc'[a] = Idle /\ tx'[a] = NoRows /\ OnlyMoves(a)
  BY IdleIs DEF Inv, ActorsOK, OnlyMoves
<1>2. Roles(a)'
  BY <1>1, IdleIs DEF Roles, Ingest, Actors
<1>3. HeldOK(a)'
  BY <1>1, IdleIs, EmptyRange DEF HeldOK
<1>4. LinkingOK(a)'
  BY <1>1, IdleIs DEF LinkingOK
<1> QED BY <1>1, <1>2, <1>3, <1>4, IdleIs, QuietStep

-----------------------------------------------------------------------------
(* The steps *)

LEMMA StutterInv ==
    ASSUME Inv, UNCHANGED <<docs, sources, vectors, links, proc, tx, refused>>
    PROVE  Inv'
<1>1. TablesOK' /\ Grow
  BY QuietTables
<1>2. ActorsOK' /\ UniqueRows' /\ SourcesOK' /\ refused' = FALSE
  BY DEF Inv, ActorsOK, UniqueRows, SourcesOK, Inserted
<1>3. ASSUME NEW a \in Actors PROVE Roles(a)' /\ HeldOK(a)' /\ LinkingOK(a)'
  <2>1. Roles(a) /\ HeldOK(a) /\ LinkingOK(a)
    BY DEF Inv
  <2>2. Roles(a)'
    BY <2>1 DEF Roles
  <2>3. HeldOK(a)'
    BY <2>1 DEF HeldOK, Items, Linked
  <2>4. LinkingOK(a)'
    BY <2>1 DEF LinkingOK, LinkOf
  <2> QED BY <2>2, <2>3, <2>4
<1> QED BY <1>1, <1>2, <1>3 DEF Inv

LEMMA RaisesInv ==
    ASSUME Inv, NEW a \in Actors, Raises(a), refused' = refused
    PROVE  Inv'
BY IdleInv DEF Raises, Go

LEMMA CrashInv ==
    ASSUME Inv, NEW a \in Actors, Crash(a)
    PROVE  Inv'
BY IdleInv DEF Crash, Go

LEMMA LeaseExpiresInv ==
    ASSUME Inv, NEW j \in Jobs, LeaseExpires(j)
    PROVE  Inv'
BY StutterInv DEF LeaseExpires

LEMMA HitsTyped == \A j \in Jobs : HitsOf[j] \in Seq(Hits)
<1> SUFFICES ASSUME NEW j \in Jobs PROVE HitsOf[j] \in Seq(Hits)
  OBVIOUS
<1>1. HitsOf[j] \in Seq(Range(HitsOf[j])) /\ Range(HitsOf[j]) \subseteq Hits
  BY StoreAssumption DEF Hits
<1> QED BY <1>1, SeqMonotonic

\* No transaction is open outside the steps of one.
LEMMA NoOpenRows ==
    ASSUME Inv, NEW a \in Actors, proc[a].pc # "commit"
    PROVE  tx[a].docs = {}
BY DEF Inv, UniqueRows

\* A step that changes one process and no row.
LEMMA MoveOnly ==
    ASSUME Inv, NEW a \in Actors, NEW p \in ProcTypes, Go(a, p), tx' = tx
    PROVE  OnlyMoves(a) /\ proc'[a] = p /\ tx'[a] = tx[a]
BY DEF Inv, ActorsOK, OnlyMoves, Go

LEMMA ClaimJobInv ==
    ASSUME Inv, NEW w \in Workers, NEW j \in Jobs, ClaimJob(w, j)
    PROVE  Inv'
<1> USE DEF Actors
<1>1. PICK p : p = [Idle EXCEPT !.pc = "hit", !.job = j, !.todo = HitsOf[j]]
  OBVIOUS
<1>2. /\ p \in ProcTypes /\ p.pc = "hit" /\ p.job = j /\ p.ids = << >> /\ p.returned = {}
  BY <1>1, HitsTyped, IdleIs DEF ProcTypes, Steps
<1>3. proc[w].pc = "idle" /\ Go(w, p) /\ UNCHANGED <<docs, sources, vectors, links, refused, tx>>
  BY <1>1 DEF ClaimJob, At
<1>4. OnlyMoves(w) /\ proc'[w] = p /\ tx'[w] = tx[w]
  BY <1>2, <1>3, MoveOnly
<1>5. tx[w].docs = {} /\ tx[w].links = {}
  BY <1>3, NoOpenRows, ProcIs DEF Roles
<1>6. Roles(w)'
  BY <1>2, <1>4, <1>5, StoreAssumption DEF Roles, Ingest
<1>7. HeldOK(w)'
  BY <1>2, <1>4, EmptyRange DEF HeldOK
<1>8. LinkingOK(w)'
  BY <1>2, <1>4 DEF LinkingOK
<1> QED BY <1>2, <1>3, <1>4, <1>5, <1>6, <1>7, <1>8, QuietStep

LEMMA PostDocumentInv ==
    ASSUME Inv, NEW c \in Clients, NEW key \in CorpusKeys, NEW n \in CorpusTexts,
           PostDocument(c, key, n)
    PROVE  Inv'
<1> USE DEF Actors
<1>1. CASE TooManyChunks(n)
  <2>1. UNCHANGED <<docs, sources, vectors, links, refused, tx, proc>>
    BY <1>1 DEF PostDocument
  <2> QED BY <2>1, StutterInv
<1>2. CASE ~TooManyChunks(n)
  <2>1. PICK p : p = [Idle EXCEPT !.pc = "source", !.doc = CorpusDocument(key, n)]
    OBVIOUS
  <2>2. CorpusDocument(key, n) \in Documents
    BY <1>2 DEF Documents
  <2>3. /\ p \in ProcTypes /\ p.pc = "source" /\ p.job = None /\ p.ids = << >> /\ p.returned = {}
        /\ p.doc \in Documents
    BY <2>1, <2>2, IdleIs DEF ProcTypes, Steps, Ingest
  <2>4. proc[c].pc = "idle" /\ Go(c, p) /\ UNCHANGED <<docs, sources, vectors, links, refused, tx>>
    BY <1>2, <2>1 DEF PostDocument, At
  <2>5. OnlyMoves(c) /\ proc'[c] = p /\ tx'[c] = tx[c]
    BY <2>3, <2>4, MoveOnly
  <2>6. tx[c].docs = {} /\ tx[c].links = {}
    BY <2>4, NoOpenRows, ProcIs DEF Roles
  <2>7. Roles(c)'
    BY <2>3, <2>5, <2>6, StoreAssumption DEF Roles, Ingest
  <2>8. HeldOK(c)'
    BY <2>3, <2>5, EmptyRange DEF HeldOK
  <2>9. LinkingOK(c)'
    BY <2>3, <2>5 DEF LinkingOK
  <2> QED BY <2>3, <2>4, <2>5, <2>6, <2>7, <2>8, <2>9, QuietStep
<1> QED BY <1>1, <1>2

LEMMA NextHitInv ==
    ASSUME Inv, NEW w \in Workers, NextHit(w)
    PROVE  Inv'
<1> USE DEF Actors
<1>1. /\ proc[w].pc = "hit" /\ proc[w].todo # << >> /\ proc[w] \in ProcTypes
      /\ Roles(w) /\ HeldOK(w)
  BY ProcIs DEF NextHit, At
<1>2. tx[w].docs = {} /\ tx[w].links = {}
  BY <1>1, NoOpenRows DEF Roles
<1>3. PICK hit \in Hits : hit = Head(proc[w].todo)
  BY <1>1, HeadTailProperties DEF ProcTypes
<1>4. Tail(proc[w].todo) \in Seq(Hits)
  BY <1>1, HeadTailProperties DEF ProcTypes
<1>5. CASE Rejected(hit.url)
  <2>1. Raises(w) /\ refused' = refused
    BY <1>3, <1>5 DEF NextHit
  <2> QED BY <2>1, RaisesInv
<1>6. CASE ~Rejected(hit.url)
  <2>1. PICK rest : rest = [proc[w] EXCEPT !.todo = Tail(@)]
    OBVIOUS
  <2>2. /\ rest \in ProcTypes /\ rest.pc = "hit" /\ rest.job = proc[w].job /\ rest.ids = proc[w].ids
        /\ rest.returned = proc[w].returned
    BY <1>1, <1>4, <2>1 DEF ProcTypes
  <2>3. PICK q : q = [rest EXCEPT !.pc = "source", !.doc = WebDocument(hit)]
    OBVIOUS
  <2>4. WebDocument(hit) \in Documents
    BY DEF Documents
  <2>5. /\ q \in ProcTypes /\ q.pc = "source" /\ q.job = proc[w].job /\ q.ids = proc[w].ids
        /\ q.returned = proc[w].returned /\ q.doc \in Documents
    BY <2>2, <2>3, <2>4 DEF ProcTypes, Steps, Ingest
  <2>6. PICK p \in {rest, q} : Go(w, p)
    BY <1>3, <1>6, <2>1, <2>3 DEF NextHit
  <2>7. UNCHANGED <<docs, sources, vectors, links, refused, tx>>
    BY <1>3, <1>6 DEF NextHit
  <2>8. /\ p \in ProcTypes /\ p.pc \in {"hit", "source"} /\ p.job = proc[w].job /\ p.ids = proc[w].ids
        /\ p.returned = proc[w].returned /\ (p.pc = "source" => p.doc \in Documents)
    BY <2>2, <2>5
  <2>9. OnlyMoves(w) /\ proc'[w] = p /\ tx'[w] = tx[w]
    BY <2>6, <2>7, <2>8, MoveOnly
  <2>10. Roles(w)'
    BY <1>1, <1>2, <2>8, <2>9, StoreAssumption DEF Roles, Ingest
  <2>11. HeldOK(w)'
    BY <1>1, <2>7, <2>8, <2>9 DEF HeldOK, Linked
  <2>12. LinkingOK(w)'
    BY <2>8, <2>9 DEF LinkingOK
  <2> QED BY <1>2, <2>7, <2>8, <2>9, <2>10, <2>11, <2>12, QuietStep
<1> QED BY <1>5, <1>6

LEMMA UpsertSourceInv ==
    ASSUME Inv, NEW a \in Actors, UpsertSource(a)
    PROVE  Inv'
<1>1. /\ proc[a].pc = "source" /\ proc[a] \in ProcTypes /\ tx[a] \in TxTypes
      /\ Roles(a) /\ HeldOK(a) /\ proc[a].doc \in Documents
  BY ProcIs DEF UpsertSource, At, Roles, Ingest
<1>2. PICK p : p = [proc[a] EXCEPT !.pc = "document"]
  OBVIOUS
<1>3. /\ p \in ProcTypes /\ p.pc = "document" /\ p.job = proc[a].job /\ p.ids = proc[a].ids
      /\ p.returned = proc[a].returned /\ p.doc = proc[a].doc
  BY <1>1, <1>2 DEF ProcTypes, Steps, Ingest
<1>4. PICK s \in SourceTypes : s = SourceOf(proc[a].doc)
  BY <1>1 DEF SourceTypes
<1>5. PICK t : t = [tx[a] EXCEPT !.sources = IF s \in sources THEN @ ELSE @ \cup {s}]
  OBVIOUS
<1>6. /\ t \in TxTypes /\ t.docs = tx[a].docs /\ t.links = tx[a].links
      /\ s \in sources \cup t.sources
  BY <1>1, <1>5 DEF TxTypes
<1>7. /\ tx' = [tx EXCEPT ![a] = t] /\ proc' = [proc EXCEPT ![a] = p]
      /\ UNCHANGED <<docs, sources, vectors, links, refused>>
  BY <1>2, <1>4, <1>5 DEF UpsertSource, Go
<1>8. OnlyMoves(a) /\ proc'[a] = p /\ tx'[a] = t
  BY <1>3, <1>6, <1>7 DEF Inv, ActorsOK, OnlyMoves
<1>9. tx[a].docs = {} /\ tx[a].links = {}
  BY <1>1, NoOpenRows DEF Roles
<1>10. TablesOK' /\ Grow
  BY <1>7, QuietTables
<1>11. UniqueRows'
  BY <1>6, <1>7, <1>8, <1>9, QuietRows
<1>12. SourcesOK'
  BY <1>3, <1>4, <1>6, <1>7, <1>8 DEF Inv, SourcesOK, OnlyMoves
<1>13. Roles(a)'
  BY <1>1, <1>3, <1>6, <1>8, <1>9 DEF Roles, Ingest
<1>14. HeldOK(a)'
  BY <1>1, <1>3, <1>7, <1>8 DEF HeldOK, Linked
<1>15. LinkingOK(a)' /\ refused' = FALSE
  BY <1>3, <1>7, <1>8 DEF LinkingOK, Inv
<1> QED BY <1>8, <1>10, <1>11, <1>12, <1>13, <1>14, <1>15, Moves

\* A process moves on within the transaction of a document; no row is new.
LEMMA IngestMoves ==
    ASSUME Inv, NEW a \in Actors, proc[a].pc \in {"document", "insert"},
           NEW p \in ProcTypes, Go(a, p), UNCHANGED <<docs, sources, vectors, links, refused, tx>>,
           p.doc = proc[a].doc, p.job = proc[a].job, p.ids = proc[a].ids, p.returned = proc[a].returned,
           p.pc = "insert" \/ (p.pc = "commit" /\ \E row \in docs : p.held = ItemsOf(row))
    PROVE  Inv'
<1>1. OnlyMoves(a) /\ proc'[a] = p /\ tx'[a] = tx[a]
  BY MoveOnly
<1>2. Roles(a) /\ HeldOK(a)
  BY ProcIs
<1>3. tx[a].docs = {} /\ tx[a].links = {}
  BY <1>2, NoOpenRows DEF Roles
<1>4. TablesOK' /\ Grow
  BY QuietTables
<1>5. UniqueRows'
  BY <1>1, <1>3, QuietRows
<1>6. SourcesOK'
  BY <1>1 DEF Inv, SourcesOK, OnlyMoves
<1>7. Roles(a)'
  BY <1>1, <1>2, <1>3 DEF Roles, Ingest
<1>8. HeldOK(a)'
  BY <1>1, <1>2 DEF HeldOK, Linked
<1>9. LinkingOK(a)' /\ refused' = FALSE
  BY <1>1 DEF LinkingOK, Inv
<1> QED BY <1>1, <1>4, <1>5, <1>6, <1>7, <1>8, <1>9, Moves

LEMMA HoldingIs ==
    ASSUME NEW p \in ProcTypes, NEW row \in RowTypes
    PROVE  /\ Holding(p, row) \in ProcTypes /\ Holding(p, row).pc = "commit"
           /\ Holding(p, row).held = ItemsOf(row) /\ Holding(p, row).doc = p.doc
           /\ Holding(p, row).job = p.job /\ Holding(p, row).ids = p.ids
           /\ Holding(p, row).returned = p.returned
<1>1. PICK s \in Seq(ItemTypes) : s = ItemsOf(row)
  BY ItemsOfIs
<1>2. PICK q : q = [p EXCEPT !.pc = "commit", !.held = s]
  OBVIOUS
<1>3. q = Holding(p, row)
  BY <1>1, <1>2 DEF Holding
<1>4. /\ q \in ProcTypes /\ q.pc = "commit" /\ q.held = s /\ q.doc = p.doc
      /\ q.job = p.job /\ q.ids = p.ids /\ q.returned = p.returned
  BY <1>2 DEF ProcTypes, Steps, Ingest
<1> QED BY <1>1, <1>3, <1>4

LEMMA RowsTyped == ASSUME Inv PROVE docs \subseteq RowTypes
BY DEF Inv, TablesOK

LEMMA FindDocumentInv ==
    ASSUME Inv, NEW a \in Actors, FindDocument(a)
    PROVE  Inv'
<1>1. /\ proc[a].pc = "document" /\ proc[a] \in ProcTypes
      /\ UNCHANGED <<docs, sources, vectors, links, refused, tx>>
  BY ProcIs DEF FindDocument, At
<1>2. CASE Go(a, [proc[a] EXCEPT !.pc = "insert"])
  <2>1. PICK p : p = [proc[a] EXCEPT !.pc = "insert"]
    OBVIOUS
  <2>2. /\ p \in ProcTypes /\ p.pc = "insert" /\ p.job = proc[a].job /\ p.ids = proc[a].ids
        /\ p.returned = proc[a].returned /\ p.doc = proc[a].doc
    BY <1>1, <2>1 DEF ProcTypes, Steps, Ingest
  <2>3. Go(a, p)
    BY <1>2, <2>1
  <2> QED BY <1>1, <2>2, <2>3, IngestMoves
<1>3. CASE \E row \in docs : Go(a, Holding(proc[a], row))
  <2>1. PICK row \in docs : Go(a, Holding(proc[a], row))
    BY <1>3
  <2>2. row \in RowTypes
    BY RowsTyped
  <2>3. PICK p : p = Holding(proc[a], row)
    OBVIOUS
  <2>4. /\ p \in ProcTypes /\ p.pc = "commit" /\ p.job = proc[a].job /\ p.ids = proc[a].ids
        /\ p.returned = proc[a].returned /\ p.doc = proc[a].doc /\ p.held = ItemsOf(row)
    BY <1>1, <2>2, <2>3, HoldingIs
  <2>5. Go(a, p)
    BY <2>1, <2>3
  <2> QED BY <1>1, <2>4, <2>5, IngestMoves
<1> QED BY <1>2, <1>3 DEF FindDocument, StoredRow

LEMMA InsertDocumentInv ==
    ASSUME Inv, NEW a \in Actors, InsertDocument(a)
    PROVE  Inv'
<1>1. /\ proc[a].pc = "insert" /\ proc[a] \in ProcTypes /\ tx[a] \in TxTypes
      /\ UNCHANGED <<docs, sources, vectors, links, refused>>
      /\ Roles(a) /\ HeldOK(a) /\ proc[a].doc \in Documents
  BY ProcIs DEF InsertDocument, At, Roles, Ingest
<1>2. CASE StoredRow(proc[a].doc) # {}
  <2>1. PICK row \in docs : row = ReplayedRow(a)
    BY <1>2 DEF ReplayedRow, StoredRow
  <2>2. row \in RowTypes
    BY RowsTyped
  <2>3. PICK p : p = Holding(proc[a], row)
    OBVIOUS
  <2>4. /\ p \in ProcTypes /\ p.pc = "commit" /\ p.job = proc[a].job /\ p.ids = proc[a].ids
        /\ p.returned = proc[a].returned /\ p.doc = proc[a].doc /\ p.held = ItemsOf(row)
    BY <1>1, <2>2, <2>3, HoldingIs
  <2>5. Go(a, p) /\ tx' = tx
    BY <1>2, <2>1, <2>3 DEF InsertDocument
  <2> QED BY <1>1, <2>4, <2>5, IngestMoves
<1>3. CASE StoredRow(proc[a].doc) = {}
  <2>1. PICK row \in RowTypes : row = Inserted(a) /\ row.doc = proc[a].doc
    <3>1. Inserted(a) \in RowTypes
      BY <1>1 DEF Inserted, RowTypes
    <3>2. Inserted(a).doc = proc[a].doc
      BY DEF Inserted
    <3> QED BY <3>1, <3>2
  <2>2. PICK p : p = Holding(proc[a], row)
    OBVIOUS
  <2>3. /\ p \in ProcTypes /\ p.pc = "commit" /\ p.job = proc[a].job /\ p.ids = proc[a].ids
        /\ p.returned = proc[a].returned /\ p.doc = proc[a].doc /\ p.held = ItemsOf(row)
    BY <1>1, <2>1, <2>2, HoldingIs
  <2>4. tx[a].docs = {} /\ tx[a].links = {}
    BY <1>1, NoOpenRows DEF Roles
  <2>5. PICK t : t = [tx[a] EXCEPT !.docs = @ \cup {row}]
    OBVIOUS
  <2>6. t \in TxTypes /\ t.docs = {row} /\ t.links = {} /\ t.sources = tx[a].sources
    BY <1>1, <2>4, <2>5 DEF TxTypes
  <2>7. tx' = [tx EXCEPT ![a] = t] /\ proc' = [proc EXCEPT ![a] = p]
    BY <1>3, <2>1, <2>2, <2>5 DEF InsertDocument, Go
  <2>8. OnlyMoves(a) /\ proc'[a] = p /\ tx'[a] = t
    BY <2>3, <2>6, <2>7 DEF Inv, ActorsOK, OnlyMoves
  <2>9. TablesOK' /\ Grow
    BY <1>1, QuietTables
  <2>10. /\ \A b \in Actors \ {a} : \A r \in tx[b].docs : r.doc # row.doc
         /\ \A r \in docs : r.doc # row.doc
    BY <1>3, <2>1 DEF InsertDocument, StoredRow
  <2>11. Inserted(a)' = row
    BY <2>1, <2>3, <2>8 DEF Inserted
  <2>12. UniqueRows'
    <3>1. \A b \in Actors \ {a} : tx'[b] = tx[b] /\ proc'[b] = proc[b]
      BY <2>8 DEF OnlyMoves
    <3>2. \A b \in Actors \ {a} : Inserted(b)' = Inserted(b)
      BY <3>1 DEF Inserted
    <3>3. \A b \in Actors : tx'[b].docs \subseteq {Inserted(b)'}
      BY <2>6, <2>8, <2>11, <3>1, <3>2 DEF Inv, UniqueRows
    <3>4. \A b \in Actors : tx'[b].docs # {} => proc'[b].pc = "commit"
      BY <2>3, <2>8, <3>1 DEF Inv, UniqueRows
    <3>5. \A b \in Actors : \A r \in tx'[b].docs, s \in docs' : r.doc # s.doc
      BY <1>1, <2>6, <2>8, <2>10, <3>1 DEF Inv, UniqueRows
    <3>6. \A b, c \in Actors : \A r \in tx'[b].docs, s \in tx'[c].docs : b # c => r.doc # s.doc
      BY <2>6, <2>8, <2>10, <3>1 DEF Inv, UniqueRows
    <3>7. \A r, s \in docs' : r.doc = s.doc => r = s
      BY <1>1 DEF Inv, UniqueRows
    <3> QED BY <3>3, <3>4, <3>5, <3>6, <3>7 DEF UniqueRows
  <2>13. SourcesOK'
    BY <1>1, <2>3, <2>6, <2>8 DEF Inv, SourcesOK, OnlyMoves
  <2>14. Roles(a)'
    BY <1>1, <2>3, <2>6, <2>8 DEF Roles, Ingest
  <2>15. HeldOK(a)'
    BY <1>1, <2>3, <2>6, <2>8 DEF HeldOK, Linked
  <2>16. LinkingOK(a)' /\ refused' = FALSE
    BY <1>1, <2>3, <2>8 DEF LinkingOK, Inv
  <2> QED BY <2>8, <2>9, <2>12, <2>13, <2>14, <2>15, <2>16, Moves
<1> QED BY <1>2, <1>3

LEMMA CommitIngestInv ==
    ASSUME Inv, NEW a \in Actors, CommitIngest(a)
    PROVE  Inv'
<1>1. /\ proc[a].pc = "commit" /\ proc[a] \in ProcTypes /\ tx[a] \in TxTypes
      /\ UNCHANGED <<vectors, refused>> /\ Roles(a) /\ HeldOK(a) /\ proc[a].doc \in Documents
      /\ docs' = docs \cup tx[a].docs /\ sources' = sources \cup tx[a].sources
      /\ links' = links \cup HitLinks(a)
  BY ProcIs DEF CommitIngest, At, Roles, Ingest
<1>2. PICK p : p = [proc[a] EXCEPT !.pc = "embed"]
  OBVIOUS
<1>3. /\ p \in ProcTypes /\ p.pc = "embed" /\ p.job = proc[a].job /\ p.ids = proc[a].ids
      /\ p.returned = proc[a].returned /\ p.doc = proc[a].doc /\ p.held = proc[a].held
  BY <1>1, <1>2 DEF ProcTypes, Steps, Ingest
<1>4. proc' = [proc EXCEPT ![a] = p] /\ tx' = [tx EXCEPT ![a] = NoRows]
  BY <1>2 DEF CommitIngest, Go
<1>5. OnlyMoves(a) /\ proc'[a] = p /\ tx'[a] = NoRows
  BY <1>3, <1>4, IdleIs DEF Inv, ActorsOK, OnlyMoves
<1>6. PICK row \in docs' : proc[a].held = ItemsOf(row)
  BY <1>1 DEF HeldOK
<1>7. docs' \subseteq RowTypes /\ sources' \subseteq SourceTypes
  BY <1>1 DEF Inv, TablesOK, TxTypes
<1>8. /\ Range(proc[a].held) \subseteq Items'
      /\ \A i \in Range(proc[a].held) : i \in ItemTypes
  BY <1>6, <1>7, ItemsOfIs DEF Items
<1>9. a \in Workers => proc[a].job \in Jobs
  BY <1>1 DEF Roles, ProcTypes
<1>10. /\ HitLinks(a) \subseteq LinkTypes
       /\ \A l \in HitLinks(a) : l.item \in Items'
       /\ a \in Workers => \A i \in Range(proc[a].held) : \E l \in HitLinks(a) : l.job = proc[a].job /\ l.item = i
  <2>1. CASE a \in Workers
    <3>1. HitLinks(a) = {LinkOf(a, i) : i \in Range(proc[a].held)}
      BY <2>1 DEF HitLinks
    <3>2. ASSUME NEW i \in Range(proc[a].held)
          PROVE  LinkOf(a, i) \in LinkTypes /\ LinkOf(a, i).job = proc[a].job /\ LinkOf(a, i).item = i
      BY <1>8, <1>9, <2>1 DEF LinkOf, LinkTypes
    <3> QED BY <1>8, <3>1, <3>2
  <2>2. CASE a \notin Workers
    BY <2>2 DEF HitLinks
  <2> QED BY <2>1, <2>2
<1>11. Grow
  BY <1>1 DEF Grow
<1>12. Items \subseteq Items'
  BY <1>11, Grown DEF Items
<1>13. TablesOK'
  <2>1. vectors' \subseteq Items' /\ IsFiniteSet(vectors')
    BY <1>1, <1>12 DEF Inv, TablesOK
  <2>2. links' \subseteq LinkTypes
    BY <1>1, <1>10 DEF Inv, TablesOK
  <2>3. \A l \in links' : l.item \in Items'
    BY <1>1, <1>10, <1>12 DEF Inv, TablesOK
  <2> QED BY <1>7, <2>1, <2>2, <2>3 DEF TablesOK
<1>14. \A b \in Actors \ {a} : tx'[b] = tx[b] /\ proc'[b] = proc[b]
  BY <1>5 DEF OnlyMoves
<1>15. UniqueRows'
  <2>1. \A b \in Actors \ {a} : Inserted(b)' = Inserted(b)
    BY <1>14 DEF Inserted
  <2>2. \A r, s \in tx[a].docs : r = s
    BY DEF Inv, UniqueRows
  <2>3. \A r, s \in docs' : r.doc = s.doc => r = s
    BY <1>1, <2>2 DEF Inv, UniqueRows
  <2>4. tx'[a].docs = {}
    BY <1>5, IdleIs
  <2>5. \A b \in Actors : tx'[b].docs \subseteq {Inserted(b)'}
    BY <1>14, <2>1, <2>4 DEF Inv, UniqueRows
  <2>6. \A b \in Actors : tx'[b].docs # {} => proc'[b].pc = "commit"
    BY <1>14, <2>4 DEF Inv, UniqueRows
  <2>7. \A b \in Actors : \A r \in tx'[b].docs, s \in docs' : r.doc # s.doc
    BY <1>1, <1>14, <2>4 DEF Inv, UniqueRows
  <2>8. \A b, c \in Actors : \A r \in tx'[b].docs, s \in tx'[c].docs : b # c => r.doc # s.doc
    BY <1>14, <2>4 DEF Inv, UniqueRows
  <2> QED BY <2>3, <2>5, <2>6, <2>7, <2>8 DEF UniqueRows
<1>16. SourcesOK'
  <2>1. ASSUME NEW r \in docs' PROVE SourceOf(r.doc) \in sources'
    <3>1. CASE r \in docs
      BY <3>1, <1>1 DEF Inv, SourcesOK
    <3>2. CASE r \in tx[a].docs
      <4>1. r.doc = proc[a].doc
        BY <3>2 DEF Inv, UniqueRows, Inserted
      <4> QED BY <4>1, <1>1 DEF Inv, SourcesOK
    <3> QED BY <3>1, <3>2, <1>1
  <2>2. ASSUME NEW b \in Actors, proc'[b].pc \in {"document", "insert", "commit"}
        PROVE  SourceOf(proc'[b].doc) \in sources' \cup tx'[b].sources
    BY <1>1, <1>3, <1>5, <1>14, <2>2 DEF Inv, SourcesOK
  <2> QED BY <2>1, <2>2 DEF SourcesOK
<1>17. Roles(a)'
  BY <1>1, <1>3, <1>5, IdleIs DEF Roles, Ingest
<1>18. HeldOK(a)'
  <2>1. Range(p.held) \subseteq Items'
    BY <1>3, <1>8
  <2>2. a \in Workers => Range(p.held) \subseteq {l.item : l \in {k \in links' : k.job = p.job}}
    BY <1>1, <1>3, <1>10
  <2>3. Range(p.ids) \subseteq {l.item : l \in {k \in links' : k.job = p.job}}
    BY <1>1, <1>3 DEF HeldOK, Linked
  <2>4. p.returned \subseteq vectors'
    BY <1>1, <1>3 DEF HeldOK
  <2> QED BY <1>3, <1>5, <2>1, <2>2, <2>3, <2>4 DEF HeldOK, Linked, Items
<1>19. LinkingOK(a)' /\ refused' = FALSE
  BY <1>1, <1>3, <1>5 DEF LinkingOK, Inv
<1> QED BY <1>5, <1>11, <1>13, <1>15, <1>16, <1>17, <1>18, <1>19, Moves

LEMMA EmbeddedIs ==
    ASSUME NEW p \in ProcTypes
    PROVE  /\ Embedded(p) \in ProcTypes
           /\ p.job = None => /\ Embedded(p).pc = "idle" /\ Embedded(p).job = None
                              /\ Embedded(p).ids = << >> /\ Embedded(p).returned = Range(p.held)
           /\ p.job # None => /\ Embedded(p).pc = "hit" /\ Embedded(p).job = p.job
                              /\ Range(Embedded(p).ids) \subseteq Range(p.ids) \cup Range(p.held)
                              /\ Embedded(p).returned = p.returned \cup Range(p.held)
<1>1. p.held \in Seq(ItemTypes) /\ p.ids \in Seq(ItemTypes)
  BY DEF ProcTypes
<1>2. PICK R \in SUBSET ItemTypes : R = Range(p.held)
  BY <1>1, RangeFinite
<1>3. CASE p.job = None
  <2>1. PICK q : q = [Idle EXCEPT !.returned = R]
    OBVIOUS
  <2>2. q \in ProcTypes /\ q.pc = "idle" /\ q.job = None /\ q.ids = << >> /\ q.returned = R
    BY <2>1, IdleIs DEF ProcTypes
  <2>3. q = Embedded(p)
    BY <1>2, <1>3, <2>1 DEF Embedded
  <2> QED BY <1>2, <1>3, <2>2, <2>3
<1>4. CASE p.job # None
  <2>1. PICK ids \in Seq(ItemTypes) :
           ids = MergeEvidenceIds(p.ids, p.held) /\ Range(ids) \subseteq Range(p.ids) \cup Range(p.held)
    BY <1>1, MergedIs
  <2>a. PICK all \in SUBSET ItemTypes : all = p.returned \cup R
    BY DEF ProcTypes
  <2>b. PICK none \in Seq(ItemTypes) : none = << >>
    BY EmptySeq
  <2>2. PICK q : q = [p EXCEPT !.pc = "hit", !.ids = ids, !.held = none, !.returned = all,
                              !.doc = None, !.missing = none]
    OBVIOUS
  <2>3. q \in ProcTypes /\ q.pc = "hit" /\ q.job = p.job /\ q.ids = ids /\ q.returned = all
    BY <2>2 DEF ProcTypes, Steps
  <2>4. q = Embedded(p)
    BY <1>2, <1>4, <2>1, <2>a, <2>b, <2>2 DEF Embedded
  <2> QED BY <1>2, <1>4, <2>1, <2>a, <2>3, <2>4
<1> QED BY <1>3, <1>4

\* An ingestion ends once all of its items have their vectors.
LEMMA EmbeddedInv ==
    ASSUME Inv, NEW a \in Actors, proc[a].pc \in {"embed", "embedding"},
           Go(a, Embedded(proc[a])), tx' = tx, UNCHANGED <<docs, sources, links, refused>>,
           vectors \subseteq vectors', TablesOK', Range(proc[a].held) \subseteq vectors'
    PROVE  Inv'
<1>1. proc[a] \in ProcTypes /\ Roles(a) /\ HeldOK(a)
  BY ProcIs
<1>2. PICK p \in ProcTypes : p = Embedded(proc[a])
  BY <1>1, EmbeddedIs
<1>3. OnlyMoves(a) /\ proc'[a] = p /\ tx'[a] = tx[a]
  BY <1>2, MoveOnly
<1>4. tx[a].docs = {} /\ tx[a].links = {}
  BY <1>1, NoOpenRows DEF Roles
<1>5. Grow
  BY DEF Grow
<1>6. UniqueRows'
  BY <1>3, <1>4, QuietRows
<1>7. a \in Workers => proc[a].job # None
  BY <1>1 DEF Roles
<1>8. a \in Clients => proc[a].job = None
  BY <1>1 DEF Roles
<1>9. p.pc \in {"idle", "hit"} /\ p.job = proc[a].job /\ (p.job = None <=> p.pc = "idle")
  BY <1>1, <1>2, EmbeddedIs
<1>10. SourcesOK'
  BY <1>3, <1>9, QuietSources
<1>11. Roles(a)'
  BY <1>3, <1>4, <1>7, <1>8, <1>9 DEF Roles, Ingest
<1>12. p.returned \subseteq vectors'
  BY <1>1, <1>2, EmbeddedIs DEF HeldOK
<1>13. Range(p.ids) \subseteq Linked(p.job)
  <2>1. CASE p.job = None
    BY <2>1, <1>1, <1>2, <1>9, EmbeddedIs, EmptyRange
  <2>2. CASE p.job # None
    <3>1. a \in Workers
      BY <2>2, <1>8, <1>9 DEF Actors
    <3> QED BY <2>2, <3>1, <1>1, <1>2, <1>9, EmbeddedIs DEF HeldOK
  <2> QED BY <2>1, <2>2
<1>14. HeldOK(a)'
  BY <1>3, <1>9, <1>12, <1>13 DEF HeldOK, Linked
<1>15. LinkingOK(a)' /\ refused' = FALSE
  BY <1>3, <1>9 DEF LinkingOK, Inv
<1> QED BY <1>3, <1>5, <1>6, <1>10, <1>11, <1>14, <1>15, Moves

LEMMA EmbedReadInv ==
    ASSUME Inv, NEW a \in Actors, EmbedRead(a)
    PROVE  Inv'
<1>1. /\ proc[a].pc = "embed" /\ proc[a] \in ProcTypes /\ Roles(a) /\ HeldOK(a)
      /\ UNCHANGED <<docs, sources, vectors, links, refused, tx>>
  BY ProcIs DEF EmbedRead, At
<1>2. PICK missing \in Seq(ItemTypes) :
         /\ missing = Missing(proc[a].held)
         /\ Range(missing) = {i \in Range(proc[a].held) : i \notin vectors}
  BY <1>1, MissingIs DEF ProcTypes
<1>3. CASE missing = << >>
  <2>1. Range(proc[a].held) \subseteq vectors
    BY <1>2, <1>3, EmptyRange
  <2>2. TablesOK'
    BY <1>1, QuietTables
  <2>3. Go(a, Embedded(proc[a]))
    BY <1>2, <1>3 DEF EmbedRead
  <2> QED BY <1>1, <2>1, <2>2, <2>3, EmbeddedInv
<1>4. CASE missing # << >>
  <2>1. PICK p : p = [proc[a] EXCEPT !.pc = "embedding", !.missing = missing]
    OBVIOUS
  <2>2. /\ p \in ProcTypes /\ p.pc = "embedding" /\ p.job = proc[a].job /\ p.ids = proc[a].ids
        /\ p.returned = proc[a].returned /\ p.doc = proc[a].doc /\ p.held = proc[a].held
        /\ p.missing = missing
    BY <1>1, <2>1 DEF ProcTypes, Steps, Ingest
  <2>3. Go(a, p)
    BY <1>2, <1>4, <2>1 DEF EmbedRead
  <2>4. OnlyMoves(a) /\ proc'[a] = p /\ tx'[a] = tx[a]
    BY <1>1, <2>2, <2>3, MoveOnly
  <2>5. tx[a].docs = {} /\ tx[a].links = {}
    BY <1>1, NoOpenRows DEF Roles
  <2>6. Roles(a)'
    BY <1>1, <2>2, <2>4, <2>5 DEF Roles, Ingest
  <2>7. Range(p.held) \subseteq vectors \cup Range(p.missing) /\ Range(p.missing) \subseteq Range(p.held)
    BY <1>2, <2>2
  <2>8. HeldOK(a)'
    BY <1>1, <2>2, <2>4, <2>7 DEF HeldOK, Items, Linked
  <2>9. LinkingOK(a)'
    BY <2>2, <2>4 DEF LinkingOK
  <2> QED BY <1>1, <2>2, <2>4, <2>5, <2>6, <2>8, <2>9, QuietStep
<1> QED BY <1>3, <1>4

LEMMA EmbedWriteInv ==
    ASSUME Inv, NEW a \in Actors, EmbedWrite(a)
    PROVE  Inv'
<1>1. /\ proc[a].pc = "embedding" /\ proc[a] \in ProcTypes /\ Roles(a) /\ HeldOK(a)
      /\ UNCHANGED <<docs, sources, links, refused, tx>>
      /\ vectors' = vectors \cup Range(Batch(proc[a].missing))
  BY ProcIs DEF EmbedWrite, At
<1>2. PICK ids \in Seq(ItemTypes) : ids = proc[a].missing
  BY <1>1 DEF ProcTypes
<1>3. PICK rest \in Seq(ItemTypes) : rest = SubSeq(ids, EmbedBatch + 1, Len(ids))
  BY BatchIs
<1>4. /\ Batch(ids) \in Seq(ItemTypes) /\ Range(Batch(ids)) \subseteq Range(ids)
      /\ Range(ids) \subseteq Range(Batch(ids)) \cup Range(rest)
  BY <1>3, BatchIs
<1>5. Range(rest) \subseteq Range(ids)
  <2>1. EmbedBatch \in Nat /\ Len(ids) \in Nat
    BY StoreAssumption
  <2>2. \A i \in EmbedBatch + 1 .. Len(ids) : ids[i] \in Range(ids)
    BY <2>1 DEF Range
  <2>3. rest \in Seq(Range(ids))
    BY <1>3, <2>1, <2>2, SubSeqProperties
  <2> QED BY <2>3, RangeFinite
<1>6. /\ Range(proc[a].held) \subseteq vectors \cup Range(ids)
      /\ Range(ids) \subseteq Range(proc[a].held) /\ Range(proc[a].held) \subseteq Items
  BY <1>1, <1>2 DEF HeldOK
<1>7. vectors' = vectors \cup Range(Batch(ids)) /\ vectors \subseteq vectors'
  BY <1>1, <1>2
<1>8. TablesOK'
  <2>1. IsFiniteSet(vectors')
    BY <1>4, <1>7, RangeFinite, FS_Union DEF Inv, TablesOK
  <2>2. vectors' \subseteq Items /\ Items' = Items
    BY <1>1, <1>4, <1>6, <1>7 DEF Inv, TablesOK, Items
  <2> QED BY <1>1, <2>1, <2>2 DEF Inv, TablesOK
<1>9. CASE rest = << >>
  <2>1. Range(proc[a].held) \subseteq vectors'
    BY <1>4, <1>6, <1>7, <1>9, EmptyRange
  <2>2. Go(a, Embedded(proc[a]))
    BY <1>2, <1>3, <1>9 DEF EmbedWrite
  <2> QED BY <1>1, <1>7, <1>8, <2>1, <2>2, EmbeddedInv
<1>10. CASE rest # << >>
  <2>1. PICK p : p = [proc[a] EXCEPT !.missing = rest]
    OBVIOUS
  <2>2. /\ p \in ProcTypes /\ p.pc = "embedding" /\ p.job = proc[a].job /\ p.ids = proc[a].ids
        /\ p.returned = proc[a].returned /\ p.doc = proc[a].doc /\ p.held = proc[a].held
        /\ p.missing = rest
    BY <1>1, <2>1 DEF ProcTypes
  <2>3. Go(a, p)
    BY <1>2, <1>3, <1>10, <2>1 DEF EmbedWrite
  <2>4. OnlyMoves(a) /\ proc'[a] = p /\ tx'[a] = tx[a]
    BY <1>1, <2>2, <2>3, MoveOnly
  <2>5. tx[a].docs = {} /\ tx[a].links = {}
    BY <1>1, NoOpenRows DEF Roles
  <2>6. Roles(a)'
    BY <1>1, <2>2, <2>4, <2>5 DEF Roles, Ingest
  <2>7. Range(p.held) \subseteq vectors' \cup Range(p.missing) /\ Range(p.missing) \subseteq Range(p.held)
    BY <1>4, <1>5, <1>6, <1>7, <2>2
  <2>8. HeldOK(a)'
    BY <1>1, <1>7, <2>2, <2>4, <2>7 DEF HeldOK, Items, Linked
  <2>9. LinkingOK(a)' /\ refused' = FALSE /\ Grow
    BY <1>1, <1>7, <2>2, <2>4 DEF LinkingOK, Inv, Grow
  <2>10. UniqueRows' /\ SourcesOK'
    BY <1>1, <2>2, <2>4, <2>5, QuietRows, QuietSources
  <2> QED BY <1>8, <2>4, <2>6, <2>8, <2>9, <2>10, Moves
<1> QED BY <1>9, <1>10

LEMMA EmbedFailsInv ==
    ASSUME Inv, NEW a \in Actors, EmbedFails(a)
    PROVE  Inv'
BY RaisesInv DEF EmbedFails

LEMMA RetrievalFailsInv ==
    ASSUME Inv, NEW w \in Workers, RetrievalFails(w)
    PROVE  Inv'
BY RaisesInv DEF RetrievalFails, Actors

\* The vectors can be put in order: one row of a document, one item of a window.
LEMMA VectorsAre ==
    ASSUME Inv
    PROVE  /\ vectors \subseteq ItemTypes /\ IsFiniteSet(vectors)
           /\ \A i, j \in vectors : i.doc = j.doc /\ i.ord = j.ord => i = j
<1>1. docs \subseteq RowTypes /\ vectors \subseteq Items /\ IsFiniteSet(vectors)
  BY DEF Inv, TablesOK
<1>2. \A r, s \in docs : r.doc = s.doc => r = s
  BY DEF Inv, UniqueRows
<1> QED BY <1>1, <1>2, ItemsAre, ItemsUnique

LEMMA RetrieveInv ==
    ASSUME Inv, NEW w \in Workers, Retrieve(w)
    PROVE  Inv'
<1> USE DEF Actors
<1>1. /\ proc[w].pc = "hit" /\ proc[w] \in ProcTypes /\ Roles(w) /\ HeldOK(w)
      /\ UNCHANGED <<docs, sources, vectors, links, refused, tx>>
  BY ProcIs DEF Retrieve, At
<1>2. PICK found \in {RetrieveExact(vectors), RetrieveHnsw(vectors)} :
         Go(w, [proc[w] EXCEPT !.pc = "link", !.held = found])
  BY DEF Retrieve
<1>3. found \in Seq(ItemTypes) /\ Range(found) \subseteq vectors /\ Sorted(found)
  BY VectorsAre, Retrieved
<1>4. PICK p : p = [proc[w] EXCEPT !.pc = "link", !.held = found]
  OBVIOUS
<1>5. /\ p \in ProcTypes /\ p.pc = "link" /\ p.job = proc[w].job /\ p.ids = proc[w].ids
      /\ p.returned = proc[w].returned /\ p.held = found
  BY <1>1, <1>3, <1>4 DEF ProcTypes, Steps
<1>6. Go(w, p)
  BY <1>2, <1>4
<1>7. OnlyMoves(w) /\ proc'[w] = p /\ tx'[w] = tx[w]
  BY <1>1, <1>5, <1>6, MoveOnly
<1>8. tx[w].docs = {} /\ tx[w].links = {}
  BY <1>1, NoOpenRows DEF Roles
<1>9. Roles(w)'
  BY <1>1, <1>5, <1>7, <1>8, StoreAssumption DEF Roles, Ingest
<1>10. HeldOK(w)'
  BY <1>1, <1>5, <1>7 DEF HeldOK, Linked
<1>11. LinkingOK(w)'
  <2>1. IsFiniteSet({}) /\ Cardinality({}) = 0
    BY FS_EmptySet
  <2>2. 0 \in 0 .. Len(found) /\ 1 .. 0 = {}
    BY <1>3
  <2>4. /\ Sorted(proc'[w].held) /\ Range(proc'[w].held) \subseteq vectors'
        /\ IsFiniteSet(tx'[w].links) /\ Cardinality(tx'[w].links) = 0
        /\ tx'[w].links = {[job |-> proc'[w].job, item |-> proc'[w].held[n]] : n \in 1 .. 0}
    BY <1>1, <1>3, <1>5, <1>7, <1>8, <2>1, <2>2
  <2> QED BY <1>5, <1>7, <2>2, <2>4 DEF LinkingOK, LinkOf
<1> QED BY <1>1, <1>5, <1>7, <1>8, <1>9, <1>10, <1>11, QuietStep

\* How far a worker is with its links.
LEMMA LinkingIs ==
    ASSUME Inv, NEW w \in Workers, proc[w].pc = "link"
    PROVE  /\ proc[w].held \in Seq(ItemTypes) /\ Len(proc[w].held) \in Nat /\ proc[w].job \in Jobs
           /\ Sorted(proc[w].held) /\ Range(proc[w].held) \subseteq vectors
           /\ IsFiniteSet(tx[w].links)
           /\ Cardinality(tx[w].links) \in 0 .. Len(proc[w].held)
           /\ tx[w].links = {LinkOf(w, proc[w].held[n]) : n \in 1 .. Cardinality(tx[w].links)}
<1>1. proc[w] \in ProcTypes /\ LinkingOK(w) /\ Roles(w)
  BY ProcIs DEF Actors
<1>2. proc[w].held \in Seq(ItemTypes) /\ Len(proc[w].held) \in Nat /\ proc[w].job \in Jobs
  BY <1>1 DEF ProcTypes, Roles
<1> QED BY <1>1, <1>2 DEF LinkingOK

\* No item is linked twice, and those before it are the nearer ones.
LEMMA HeldDistinct ==
    ASSUME NEW s \in Seq(ItemTypes), Sorted(s), NEW m \in 1 .. Len(s), NEW n \in 1 .. Len(s), m < n
    PROVE  s[m] \in ItemTypes /\ s[n] \in ItemTypes /\ Nearer(s[m], s[n]) /\ s[m] # s[n]
<1>1. s[m] \in ItemTypes /\ s[n] \in ItemTypes
  BY ElementOfSeq
<1>2. Nearer(s[m], s[n])
  BY DEF Sorted
<1> QED BY <1>1, <1>2, NearerOrder

LEMMA EnsureJobLinkInv ==
    ASSUME Inv, NEW w \in Workers, EnsureJobLink(w)
    PROVE  Inv'
<1> USE DEF Actors
<1>1. /\ proc[w].pc = "link" /\ proc[w] \in ProcTypes /\ tx[w] \in TxTypes /\ Roles(w) /\ HeldOK(w)
      /\ UNCHANGED <<docs, sources, vectors, links, refused, proc>>
  BY ProcIs DEF EnsureJobLink, HasNextLink, At
<1>2. PICK s \in Seq(ItemTypes) : s = proc[w].held
  BY <1>1 DEF ProcTypes
<1>3. PICK c \in 0 .. Len(s) : c = Cardinality(tx[w].links)
  BY <1>1, <1>2, LinkingIs
<1>4. c < Len(s) /\ c + 1 \in 1 .. Len(s)
  BY <1>2, <1>3 DEF EnsureJobLink, HasNextLink
<1>5. PICK l \in LinkTypes : l = LinkOf(w, s[c + 1])
  <2>1. s[c + 1] \in ItemTypes
    BY <1>4, ElementOfSeq
  <2>2. proc[w].job \in Jobs
    BY <1>1, LinkingIs
  <2> QED BY <2>1, <2>2 DEF LinkOf, LinkTypes
<1>6. NextLink(w) = l
  <2>1. 1 + c = c + 1
    OBVIOUS
  <2> QED BY <1>2, <1>3, <1>5, <2>1 DEF NextLink
<1>7. PICK t : t = [tx[w] EXCEPT !.links = @ \cup {l}]
  OBVIOUS
<1>8. t \in TxTypes /\ t.links = tx[w].links \cup {l} /\ t.docs = tx[w].docs /\ t.sources = tx[w].sources
  BY <1>1, <1>7 DEF TxTypes
<1>9. tx' = [tx EXCEPT ![w] = t]
  BY <1>6, <1>7 DEF EnsureJobLink
<1>10. OnlyMoves(w) /\ proc'[w] = proc[w] /\ tx'[w] = t
  BY <1>1, <1>8, <1>9 DEF Inv, ActorsOK, OnlyMoves
<1>11. tx'[w].docs = {}
  BY <1>1, <1>8, <1>10, NoOpenRows
<1>12. tx[w].links = {LinkOf(w, s[n]) : n \in 1 .. c}
  BY <1>1, <1>2, <1>3, LinkingIs
<1>13. l \notin tx[w].links
  <2> SUFFICES ASSUME NEW n \in 1 .. c PROVE LinkOf(w, s[n]) # l
    BY <1>12
  <2>1. n \in 1 .. Len(s) /\ n < c + 1
    OBVIOUS
  <2>2. s[n] # s[c + 1]
    BY <1>1, <1>2, <1>4, <2>1, LinkingIs, HeldDistinct
  <2>3. LinkOf(w, s[n]).item = s[n] /\ LinkOf(w, s[c + 1]).item = s[c + 1]
    BY DEF LinkOf
  <2> QED BY <1>5, <2>2, <2>3
<1>14. IsFiniteSet(t.links) /\ Cardinality(t.links) = c + 1
  BY <1>1, <1>3, <1>8, <1>13, LinkingIs, FS_AddElement
<1>15. t.links = {LinkOf(w, s[n]) : n \in 1 .. c + 1}
  <2>1. 1 .. c + 1 = 1 .. c \cup {c + 1}
    OBVIOUS
  <2> QED BY <1>5, <1>8, <1>12, <2>1
<1>16. Roles(w)'
  BY <1>1, <1>10 DEF Roles
<1>17. HeldOK(w)'
  BY <1>1, <1>10 DEF HeldOK, Items, Linked
<1>18. LinkingOK(w)'
  <2>1. Sorted(s) /\ Range(s) \subseteq vectors'
    BY <1>1, <1>2, LinkingIs
  <2>2. t.links = {[job |-> proc'[w].job, item |-> s[n]] : n \in 1 .. c + 1}
    BY <1>10, <1>15 DEF LinkOf
  <2>3. PICK d \in 0 .. Len(s) : d = c + 1
    BY <1>4
  <2> QED BY <1>2, <1>10, <1>14, <2>1, <2>2, <2>3 DEF LinkingOK, LinkOf
<1> QED BY <1>1, <1>10, <1>11, <1>16, <1>17, <1>18, QuietStep

LEMMA CommitLinksInv ==
    ASSUME Inv, NEW w \in Workers, CommitLinks(w)
    PROVE  Inv'
<1> USE DEF Actors
<1>1. /\ proc[w].pc = "link" /\ proc[w] \in ProcTypes /\ tx[w] \in TxTypes /\ Roles(w) /\ HeldOK(w)
      /\ UNCHANGED <<docs, sources, vectors, refused>> /\ links' = links \cup tx[w].links
  BY ProcIs DEF CommitLinks, At
<1>2. PICK s \in Seq(ItemTypes) : s = proc[w].held
  BY <1>1 DEF ProcTypes
<1>3. Cardinality(tx[w].links) = Len(s)
  BY <1>1, <1>2, LinkingIs DEF CommitLinks, HasNextLink, At
<1>4. tx[w].links = {LinkOf(w, s[n]) : n \in 1 .. Len(s)}
  BY <1>1, <1>2, <1>3, LinkingIs
<1>5. \A i \in Range(s) : \E l \in tx[w].links : l.job = proc[w].job /\ l.item = i
  <2>1. ASSUME NEW n \in 1 .. Len(s)
        PROVE  \E l \in tx[w].links : l.job = proc[w].job /\ l.item = s[n]
    <3>1. LinkOf(w, s[n]) \in tx[w].links
      BY <1>4
    <3>2. LinkOf(w, s[n]).job = proc[w].job /\ LinkOf(w, s[n]).item = s[n]
      BY DEF LinkOf
    <3> QED BY <3>1, <3>2
  <2>2. \A i \in Range(s) : \E n \in 1 .. Len(s) : i = s[n]
    BY DEF Range
  <2> QED BY <2>1, <2>2
<1>6. \A l \in tx[w].links : l.item \in Items
  <2>1. \A n \in 1 .. Len(s) : s[n] \in vectors /\ LinkOf(w, s[n]).item = s[n]
    BY <1>1, <1>2, LinkingIs DEF Range, LinkOf
  <2> QED BY <1>4, <2>1 DEF Inv, TablesOK
<1>7. PICK ids \in Seq(ItemTypes) :
         /\ ids = MergeEvidenceIds(proc[w].ids, s)
         /\ Range(ids) \subseteq Range(proc[w].ids) \cup Range(s)
  BY <1>1, MergedIs DEF ProcTypes
<1>8. PICK none \in Seq(ItemTypes) : none = << >>
  BY EmptySeq
<1>9. PICK p : p = [proc[w] EXCEPT !.pc = "draft", !.ids = ids, !.held = none]
  OBVIOUS
<1>10. /\ p \in ProcTypes /\ p.pc = "draft" /\ p.job = proc[w].job /\ p.ids = ids
       /\ p.returned = proc[w].returned
  BY <1>1, <1>9 DEF ProcTypes, Steps
<1>11. proc' = [proc EXCEPT ![w] = p] /\ tx' = [tx EXCEPT ![w] = NoRows]
  BY <1>2, <1>7, <1>8, <1>9 DEF CommitLinks, Go
<1>12. OnlyMoves(w) /\ proc'[w] = p /\ tx'[w] = NoRows
  BY <1>10, <1>11, IdleIs DEF Inv, ActorsOK, OnlyMoves
<1>13. Grow
  BY <1>1 DEF Grow
<1>14. TablesOK'
  <2>1. Items' = Items
    BY <1>1 DEF Items
  <2>2. links' \subseteq LinkTypes /\ {l.item : l \in links'} \subseteq Items
    BY <1>1, <1>6 DEF Inv, TablesOK, TxTypes
  <2> QED BY <1>1, <2>1, <2>2 DEF Inv, TablesOK
<1>15. UniqueRows' /\ SourcesOK'
  BY <1>1, <1>10, <1>12, IdleIs, QuietRows, QuietSources
<1>16. Roles(w)'
  BY <1>1, <1>10, <1>12, IdleIs, StoreAssumption DEF Roles, Ingest
<1>17. HeldOK(w)'
  <2>1. Range(p.ids) \subseteq {l.item : l \in {k \in links' : k.job = p.job}}
    <3>1. Range(proc[w].ids) \subseteq {l.item : l \in {k \in links : k.job = p.job}}
      BY <1>1, <1>10 DEF HeldOK, Linked
    <3>2. Range(s) \subseteq {l.item : l \in {k \in links' : k.job = p.job}}
      BY <1>1, <1>5, <1>10
    <3> QED BY <1>1, <1>7, <1>10, <3>1, <3>2
  <2>2. p.returned \subseteq vectors'
    BY <1>1, <1>10 DEF HeldOK
  <2> QED BY <1>10, <1>12, <2>1, <2>2 DEF HeldOK, Linked
<1>18. LinkingOK(w)' /\ refused' = FALSE
  BY <1>1, <1>10, <1>12 DEF LinkingOK, Inv
<1> QED BY <1>12, <1>13, <1>14, <1>15, <1>16, <1>17, <1>18, Moves

\* A worker moves on with a draft of linked citations.
LEMMA DraftMoves ==
    ASSUME Inv, NEW w \in Workers, proc[w].pc \in {"draft", "verify", "persist"},
           NEW p \in ProcTypes, Go(w, p), UNCHANGED <<docs, sources, vectors, links, refused, tx>>,
           p.pc \in {"verify", "persist", "persisted"},
           p.job = proc[w].job, p.ids = proc[w].ids, p.returned = proc[w].returned,
           p.draft \in DraftTypes, p.draft.cites \subseteq Linked(proc[w].job)
    PROVE  Inv'
<1> USE DEF Actors
<1>1. OnlyMoves(w) /\ proc'[w] = p /\ tx'[w] = tx[w]
  BY MoveOnly
<1>2. Roles(w) /\ HeldOK(w)
  BY ProcIs
<1>3. tx[w].docs = {} /\ tx[w].links = {}
  BY <1>2, NoOpenRows DEF Roles
<1>4. Roles(w)'
  BY <1>1, <1>2, <1>3, StoreAssumption DEF Roles, Ingest
<1>5. HeldOK(w)'
  BY <1>1, <1>2 DEF HeldOK, Linked
<1>6. LinkingOK(w)'
  BY <1>1 DEF LinkingOK
<1> QED BY <1>1, <1>3, <1>4, <1>5, <1>6, QuietStep

LEMMA SynthesizeInv ==
    ASSUME Inv, NEW w \in Workers, Synthesize(w)
    PROVE  Inv'
<1> USE DEF Actors
<1>1. proc[w].pc = "draft" /\ proc[w] \in ProcTypes /\ HeldOK(w)
  BY ProcIs DEF Synthesize, At
<1>2. PICK body \in Bodies, cites \in SUBSET Items :
         IF cites \subseteq Range(BuildEvidenceContextPack(proc[w].ids))
         THEN /\ Go(w, [proc[w] EXCEPT !.pc = "verify", !.draft = [body |-> body, cites |-> cites]])
              /\ UNCHANGED <<job, sources, docs, vectors, links, reports, tx, refused, ingests>>
         ELSE Raises(w) /\ UNCHANGED refused
  BY DEF Synthesize
<1>3. CASE cites \subseteq Range(BuildEvidenceContextPack(proc[w].ids))
  <2>1. cites \subseteq Range(proc[w].ids)
    BY <1>1, <1>3, PackIs DEF ProcTypes
  <2>2. cites \subseteq Linked(proc[w].job)
    BY <1>1, <2>1 DEF HeldOK
  <2>3. cites \subseteq ItemTypes
    BY RowsTyped, ItemsAre
  <2>4. PICK d \in DraftTypes : d = [body |-> body, cites |-> cites] /\ d.cites = cites
    <3>1. [body |-> body, cites |-> cites] \in DraftTypes
      BY <2>3 DEF DraftTypes
    <3> QED BY <3>1
  <2>5. PICK p : p = [proc[w] EXCEPT !.pc = "verify", !.draft = d]
    OBVIOUS
  <2>6. /\ p \in ProcTypes /\ p.pc = "verify" /\ p.job = proc[w].job /\ p.ids = proc[w].ids
        /\ p.returned = proc[w].returned /\ p.draft = d
    BY <1>1, <2>5 DEF ProcTypes, Steps
  <2>7. Go(w, p) /\ UNCHANGED <<docs, sources, vectors, links, refused, tx>>
    BY <1>2, <1>3, <2>4, <2>5
  <2> QED BY <1>1, <2>2, <2>4, <2>6, <2>7, DraftMoves
<1>4. CASE ~(cites \subseteq Range(BuildEvidenceContextPack(proc[w].ids)))
  BY <1>2, <1>4, RaisesInv
<1> QED BY <1>3, <1>4

\* The citations of a draft are allowed and have their source.
LEMMA DraftVerifies ==
    ASSUME Inv, NEW w \in Workers, proc[w].pc \in {"verify", "persist"}
    PROVE  /\ proc[w].draft \in DraftTypes
           /\ Allowed(proc[w].job, proc[w].draft.cites)
           /\ \A i \in proc[w].draft.cites : HasProvenance(i)
<1>1. proc[w].draft \in DraftTypes /\ proc[w].draft.cites \subseteq Linked(proc[w].job)
  BY ProcIs DEF Actors, HeldOK
<1>2. \A i \in Linked(proc[w].job) : i \in Items
  BY DEF Inv, TablesOK, Linked
<1>3. ASSUME NEW i \in Items PROVE HasProvenance(i)
  <2>1. PICK row \in docs : i.doc = row.doc
    BY RowsTyped, ItemsAre
  <2>2. SourceOf(row.doc) \in sources
    BY DEF Inv, SourcesOK
  <2> QED BY <2>1, <2>2 DEF HasProvenance
<1> QED BY <1>1, <1>2, <1>3 DEF Allowed

LEMMA VerifyCitationsInv ==
    ASSUME Inv, NEW w \in Workers, VerifyCitations(w)
    PROVE  Inv'
<1> USE DEF Actors
<1>1. proc[w].pc = "verify" /\ proc[w] \in ProcTypes
  BY ProcIs DEF VerifyCitations, At
<1>2. /\ Go(w, [proc[w] EXCEPT !.pc = "persist"])
      /\ UNCHANGED <<docs, sources, vectors, links, refused, tx>>
  BY <1>1, DraftVerifies DEF VerifyCitations
<1>3. PICK p : p = [proc[w] EXCEPT !.pc = "persist"]
  OBVIOUS
<1>4. /\ p \in ProcTypes /\ p.pc = "persist" /\ p.job = proc[w].job /\ p.ids = proc[w].ids
      /\ p.returned = proc[w].returned /\ p.draft = proc[w].draft
  BY <1>1, <1>3 DEF ProcTypes, Steps
<1>5. Go(w, p)
  BY <1>2, <1>3
<1>6. p.draft \in DraftTypes /\ p.draft.cites \subseteq Linked(proc[w].job)
  BY <1>1, <1>4, DraftVerifies DEF Allowed
<1> QED BY <1>1, <1>2, <1>4, <1>5, <1>6, DraftMoves

LEMMA PersistFinalInv ==
    ASSUME Inv, NEW w \in Workers, PersistFinal(w)
    PROVE  Inv'
<1> USE DEF Actors
<1>1. proc[w].pc = "persist" /\ proc[w] \in ProcTypes
  BY ProcIs DEF PersistFinal, At
<1>2. Allowed(proc[w].job, proc[w].draft.cites) /\ proc[w].draft \in DraftTypes /\ refused = FALSE
  BY <1>1, DraftVerifies DEF Inv
<1>3. CASE /\ Go(w, [proc[w] EXCEPT !.pc = "persisted"])
           /\ UNCHANGED <<docs, sources, vectors, links, refused, tx>>
  <2>1. PICK p : p = [proc[w] EXCEPT !.pc = "persisted"]
    OBVIOUS
  <2>2. /\ p \in ProcTypes /\ p.pc = "persisted" /\ p.job = proc[w].job /\ p.ids = proc[w].ids
        /\ p.returned = proc[w].returned /\ p.draft = proc[w].draft
    BY <1>1, <2>1 DEF ProcTypes, Steps
  <2>3. Go(w, p)
    BY <1>3, <2>1
  <2>4. p.draft \in DraftTypes /\ p.draft.cites \subseteq Linked(proc[w].job)
    BY <1>2, <2>2 DEF Allowed
  <2> QED BY <1>1, <1>3, <2>2, <2>3, <2>4, DraftMoves
<1>4. CASE Raises(w) /\ refused' = (refused \/ ~Allowed(proc[w].job, proc[w].draft.cites))
  <2>1. refused' = refused
    BY <1>2, <1>4
  <2> QED BY <1>4, <2>1, RaisesInv
<1>5. \/ /\ Go(w, [proc[w] EXCEPT !.pc = "persisted"])
         /\ UNCHANGED <<docs, sources, vectors, links, refused, tx>>
      \/ Raises(w) /\ refused' = (refused \/ ~Allowed(proc[w].job, proc[w].draft.cites))
  BY DEF PersistFinal
<1> QED BY <1>3, <1>4, <1>5

LEMMA CompleteInv ==
    ASSUME Inv, NEW w \in Workers, Complete(w)
    PROVE  Inv'
<1> USE DEF Actors
<1>1. proc[w].pc = "persisted" /\ Go(w, Idle) /\ UNCHANGED <<docs, sources, vectors, links, refused, tx>>
  BY DEF Complete, At
<1>2. OnlyMoves(w) /\ proc'[w] = Idle /\ tx'[w] = tx[w]
  BY <1>1, IdleIs, MoveOnly
<1>3. tx[w].docs = {} /\ tx[w].links = {}
  BY <1>1, NoOpenRows, ProcIs DEF Roles
<1>4. Roles(w)'
  BY <1>2, <1>3, IdleIs DEF Roles, Ingest
<1>5. HeldOK(w)'
  BY <1>2, IdleIs, EmptyRange DEF HeldOK
<1>6. LinkingOK(w)'
  BY <1>2, IdleIs DEF LinkingOK
<1> QED BY <1>1, <1>2, <1>3, <1>4, <1>5, <1>6, IdleIs, QuietStep

-----------------------------------------------------------------------------
(* The theorems *)

LEMMA InitInv ==
    ASSUME Init
    PROVE  Inv
<1>1. \A a \in Actors : proc[a] = Idle /\ tx[a] = NoRows
  BY DEF Init
<1>2. TablesOK /\ ActorsOK
  BY <1>1, IdleIs, FS_EmptySet DEF Init, TablesOK, ActorsOK
<1>3. UniqueRows /\ SourcesOK
  BY <1>1, IdleIs DEF Init, UniqueRows, SourcesOK
<1>4. ASSUME NEW a \in Actors PROVE Roles(a) /\ HeldOK(a) /\ LinkingOK(a)
  BY <1>1, IdleIs, EmptyRange DEF Roles, HeldOK, LinkingOK, Ingest
<1> QED BY <1>2, <1>3, <1>4 DEF Inv, Init

LEMMA NextInv ==
    ASSUME Inv, [Next]_vars
    PROVE  Inv'
<1>1. ASSUME NEW w \in Workers, NEW j \in Jobs, ClaimJob(w, j) PROVE Inv'
  BY <1>1, ClaimJobInv
<1>2. ASSUME NEW j \in Jobs, LeaseExpires(j) PROVE Inv'
  BY <1>2, LeaseExpiresInv
<1>3. ASSUME NEW c \in Clients, NEW key \in CorpusKeys, NEW n \in CorpusTexts, PostDocument(c, key, n)
      PROVE  Inv'
  BY <1>3, PostDocumentInv
<1>4. ASSUME NEW a \in Actors, ActorStep(a) PROVE Inv'
  BY <1>4, UpsertSourceInv, FindDocumentInv, InsertDocumentInv, CommitIngestInv, EmbedReadInv,
     EmbedWriteInv, EmbedFailsInv, CrashInv DEF ActorStep
<1>5. ASSUME NEW w \in Workers, WorkerStep(w) PROVE Inv'
  BY <1>5, NextHitInv, RetrieveInv, RetrievalFailsInv, EnsureJobLinkInv, CommitLinksInv,
     SynthesizeInv, VerifyCitationsInv, PersistFinalInv, CompleteInv DEF WorkerStep
<1>6. CASE UNCHANGED vars
  BY <1>6, StutterInv DEF vars
<1> QED BY <1>1, <1>2, <1>3, <1>4, <1>5, <1>6 DEF Next

LEMMA StoreInvariant == Spec => []Inv
<1>1. Init => Inv
  BY InitInv
<1>2. Inv /\ [Next]_vars => Inv'
  BY NextInv
<1> QED BY <1>1, <1>2, PTL DEF Spec

(* Evidence ids are those of committed rows, and a document that several   *)
(* writers ingest at once has one set of items                             *)
(* (get_or_create_document_with_chunks).                                   *)
THEOREM StoreEvidence == Spec => []EvidenceIsStored
<1>1. Inv => EvidenceIsStored
  <2> SUFFICES ASSUME Inv PROVE EvidenceIsStored
    OBVIOUS
  <2>1. {l.item : l \in links} \subseteq Items
    BY DEF Inv, TablesOK
  <2>2. ASSUME NEW w \in Workers PROVE Range(proc[w].ids) \subseteq Items
    <3>1. Range(proc[w].ids) \subseteq Linked(proc[w].job)
      BY ProcIs DEF Actors, HeldOK
    <3>2. Linked(proc[w].job) \subseteq Items
      BY <2>1 DEF Linked
    <3> QED BY <3>1, <3>2
  <2>3. \A r, s \in docs : r.doc = s.doc => r = s
    BY DEF Inv, UniqueRows
  <2> QED BY <2>1, <2>2, <2>3 DEF EvidenceIsStored
<1> QED BY <1>1, StoreInvariant, PTL

(* No draft the synthesizer accepted is refused by DurableCitationVerifier *)
(* or by persist_final.                                                    *)
THEOREM StorePackVerifies == Spec => []PackClaimsVerify
<1>1. Inv => PackClaimsVerify
  BY DEF Inv, PackClaimsVerify
<1> QED BY <1>1, StoreInvariant, PTL

(* Workers that link evidence to one job never wait for each other: both   *)
(* insert in the order of retrieval (link_evidence_to_job).                *)
THEOREM StoreNoWaitCycle == Spec => []NoWaitCycle
<1>1. Inv => NoWaitCycle
  <2> SUFFICES ASSUME Inv, NEW w \in Workers, NEW b \in Workers, Blocked(w, b), Blocked(b, w)
               PROVE  FALSE
    BY DEF NoWaitCycle
  <2>1. ASSUME NEW u \in Workers, NEW v \in Workers, Blocked(u, v), proc[v].pc = "link",
               NEW n \in 1 .. Len(proc[v].held), n = 1 + Cardinality(tx[v].links)
        PROVE  \E i \in ItemTypes : i = NextLink(u).item /\ Nearer(i, proc[v].held[n])
    <3>1. NextLink(u) \in tx[v].links
      BY <2>1 DEF Blocked
    <3>2. PICK m \in 1 .. Cardinality(tx[v].links) : NextLink(u) = LinkOf(v, proc[v].held[m])
      BY <2>1, <3>1, LinkingIs
    <3>3. NextLink(u).item = proc[v].held[m]
      BY <3>2 DEF LinkOf
    <3>4. m \in 1 .. Len(proc[v].held) /\ m < n
      BY <2>1, <3>2, LinkingIs
    <3>5. Nearer(proc[v].held[m], proc[v].held[n]) /\ proc[v].held[m] \in ItemTypes
      BY <2>1, <3>4, LinkingIs, HeldDistinct
    <3> QED BY <3>3, <3>5
  <2>2. ASSUME NEW v \in Workers, HasNextLink(v)
        PROVE  /\ proc[v].pc = "link"
               /\ \E n \in 1 .. Len(proc[v].held) : /\ n = 1 + Cardinality(tx[v].links)
                                                    /\ NextLink(v).item = proc[v].held[n]
    <3>1. proc[v].pc = "link" /\ Cardinality(tx[v].links) < Len(proc[v].held)
      BY <2>2 DEF HasNextLink, At
    <3>2. Cardinality(tx[v].links) \in 0 .. Len(proc[v].held) /\ Len(proc[v].held) \in Nat
      BY <3>1, LinkingIs
    <3>3. 1 + Cardinality(tx[v].links) \in 1 .. Len(proc[v].held)
      BY <3>1, <3>2
    <3>4. NextLink(v).item = proc[v].held[1 + Cardinality(tx[v].links)]
      BY DEF NextLink, LinkOf
    <3> QED BY <3>1, <3>3, <3>4
  <2>3. HasNextLink(w) /\ HasNextLink(b)
    BY DEF Blocked
  <2>4. PICK n \in 1 .. Len(proc[b].held) :
           n = 1 + Cardinality(tx[b].links) /\ NextLink(b).item = proc[b].held[n]
    BY <2>2, <2>3
  <2>5. PICK m \in 1 .. Len(proc[w].held) :
           m = 1 + Cardinality(tx[w].links) /\ NextLink(w).item = proc[w].held[m]
    BY <2>2, <2>3
  <2>6. PICK i \in ItemTypes : i = NextLink(w).item /\ Nearer(i, NextLink(b).item)
    BY <2>1, <2>2, <2>3, <2>4
  <2>7. PICK j \in ItemTypes : j = NextLink(b).item /\ Nearer(j, NextLink(w).item)
    BY <2>1, <2>2, <2>3, <2>5
  <2> QED BY <2>6, <2>7, NearerOrder
<1> QED BY <1>1, StoreInvariant, PTL

(* What an ingestion returned has its vectors, whoever wrote them          *)
(* (embed_evidence_items).                                                 *)
THEOREM StoreReturnedIsEmbedded == Spec => []ReturnedIsEmbedded
<1>1. Inv => ReturnedIsEmbedded
  BY ProcIs DEF ReturnedIsEmbedded, HeldOK
<1> QED BY <1>1, StoreInvariant, PTL

(* The stored windows of every document cover it without a gap, for every  *)
(* length of text, window and overlap (chunk_normalized_text).             *)
THEOREM StoreChunksCover == Spec => []ChunksCover
<1>1. Inv => ChunksCover
  <2> SUFFICES ASSUME Inv, NEW row \in {r \in docs : r.doc.kind = "corpus_text"}, NEW c, c = ChunksOf(row.doc)
               PROVE  /\ Len(c) \in 1 .. MaxChunks
                      /\ c[1].start = 0 /\ c[Len(c)].end = row.doc.text
                      /\ \A n \in 1 .. Len(c) : c[n].end - c[n].start \in 1 .. ChunkSize
                      /\ \A n \in 2 .. Len(c) :
                             c[n].start = c[n - 1].end - Overlap /\ c[n].end > c[n - 1].end
    BY DEF ChunksCover
  <2>1. row.doc \in Documents /\ row.doc.kind = "corpus_text"
    BY RowsTyped DEF RowTypes
  <2>2. PICK n \in Nat \ {0} : row.doc.text = n /\ ~TooManyChunks(n)
    <3>1. ASSUME NEW hit \in Hits PROVE row.doc # WebDocument(hit)
      BY <2>1 DEF WebDocument
    <3>2. PICK key \in CorpusKeys, n \in {m \in CorpusTexts : ~TooManyChunks(m)} :
             row.doc = CorpusDocument(key, n)
      BY <2>1, <3>1 DEF Documents
    <3>3. row.doc.text = n
      BY <3>2 DEF CorpusDocument
    <3> QED BY <3>2, <3>3, StoreAssumption
  <2>3. c = ChunkNormalizedText(n)
    BY <2>1, <2>2 DEF ChunksOf
  <2>4. c \in Covering(n, 0)
    BY <2>3, ChunksAre
  <2>5. c \in Seq(Window) /\ Len(c) \in Nat /\ Len(c) >= 1
    BY <2>4 DEF Covering
  <2>6. Len(c) \in 1 .. MaxChunks
    BY <2>2, <2>3, <2>5, TextAssumption DEF TooManyChunks
  <2> QED BY <2>2, <2>4, <2>6 DEF Covering
<1> QED BY <1>1, StoreInvariant, PTL
=============================================================================
