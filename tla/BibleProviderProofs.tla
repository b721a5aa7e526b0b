------------------------- MODULE BibleProviderProofs -------------------------
(* Proofs about BibleProvider.tla, for every ledger, every corpus of files   *)
(* and every request.                                                        *)
EXTENDS BibleProvider, FiniteSetTheorems, TLAPS

\* A citation's path is one of the paths: what the lines of a ledger are.
LEMMA CitedPath ==
  ASSUME NEW l \in Ledgers, NEW h, NEW i \in Cited(l, h)
  PROVE  i \in CiteLines(l, h) /\ i \in DOMAIN l /\ l[i].path \in Paths
<1>1. i \in CiteLines(l, h) /\ i \in DOMAIN l /\ l[i].kind = "cite"
  BY DEF Cited, CiteLines, Body
<1>2. l \in Seq(Lines)
  BY ProviderAssumption
<1>3. l[i] \in Lines
  BY <1>1, <1>2
<1>4. l[i] \in [kind : {"cite"}, path : Paths]
  BY <1>1, <1>3 DEF Lines
<1> QED
  BY <1>1, <1>4

\* Every set of claims of a ledger is finite.
LEMMA FiniteClaims ==
  ASSUME NEW l \in Ledgers, NEW S, S \subseteq Headings(l)
  PROVE  IsFiniteSet(S) /\ Cardinality(S) \in Nat
<1>1. l \in Seq(Lines)
  BY ProviderAssumption
<1>2. DOMAIN l = 1..Len(l) /\ Len(l) \in Nat
  BY <1>1
<1>3. IsFiniteSet(DOMAIN l)
  BY <1>2, FS_Interval
<1>4. S \subseteq DOMAIN l
  BY DEF Headings
<1> QED
  BY <1>3, <1>4, FS_Subset, FS_CardinalityType

\* What is selected are claims of the ledger.
LEMMA SelectedAreClaims ==
  ASSUME NEW l, NEW r
  PROVE  Select(l, r) \subseteq Headings(l)
BY DEF Select, Explicit, Matching

\* A selection leaves a relevant claim out only if the request names no claim
\* and MaxClaims others come before it.
LEMMA LeftOut ==
  ASSUME NEW l \in Ledgers, NEW r,
         NEW h \in Relevant(l, r), h \notin Select(l, r)
  PROVE  /\ Explicit(l, r) = {}
         /\ Cardinality({g \in Matching(l, r) : Before(l, g, h, r)}) >= MaxClaims
<1> DEFINE Ahead == {g \in Matching(l, r) : Before(l, g, h, r)}
<1>1. Explicit(l, r) = {}
  BY DEF Relevant, Select
<1>2. h \in Matching(l, r)
  BY <1>1 DEF Relevant
<1>3. ~ (Cardinality(Ahead) < MaxClaims)
  BY <1>1, <1>2 DEF Select
<1>4. Ahead \subseteq Headings(l)
  BY DEF Matching
<1>5. Cardinality(Ahead) \in Nat
  BY <1>4, FiniteClaims
<1>6. Cardinality(Ahead) >= MaxClaims
  <2> HIDE DEF Ahead
  <2> QED BY <1>3, <1>5, ProviderAssumption
<1> QED
  BY <1>1, <1>6

----------------------------------------------------------------------------
\* While citations are reopened: the selection is whole, what was resolved led
\* into a root since the request came, and what was reopened was readable since.
Reopening ==
  stage = "reopening" =>
    /\ claims = Select(corpus, request)
    /\ \A i \in todo : \E h \in claims : i \in Cited(corpus, h)
    /\ \A i \in resolved : corpus[i].path \in inside
    /\ \A i \in refs : corpus[i].path \in seen
    /\ Permitted(files) \subseteq inside
    /\ inside \cap Readable(files) \subseteq seen
    /\ packet = None

\* What a packet stands on.
Gaps(p) == {h \in p.claims : Cited(p.corpus, h) \cap p.refs = {}}

Grounded ==
  packet \notin {None, Insufficient} =>
    /\ packet.corpus = corpus
    /\ packet.claims = Select(corpus, request)
    /\ packet.status =
         DeriveStatus(corpus, packet.claims, Gaps(packet), request.current)
    /\ \A i \in packet.refs : corpus[i].path \in seen

IInv == TypeOK /\ Reopening /\ Grounded

\* The first state.
LEMMA InitInv == ASSUME Init PROVE IInv
<1>1. TypeOK
  BY ProviderAssumption DEF Init, TypeOK
<1>2. Reopening /\ Grounded
  BY DEF Init, Reopening, Grounded
<1> QED
  BY <1>1, <1>2 DEF IInv

\* Built, for a packet that is nothing or stands on what the request needs.
LEMMA BuiltKeeps ==
  ASSUME IInv, NEW p, Built(p), stage = "reopening",
         p \in Packets(corpus) \cup {Insufficient},
         p # Insufficient =>
           /\ p.corpus = corpus
           /\ p.claims = Select(corpus, request)
           /\ p.status = DeriveStatus(corpus, p.claims, Gaps(p), request.current)
           /\ \A i \in p.refs : corpus[i].path \in seen
  PROVE  IInv'
<1>1. TypeOK'
  BY DEF IInv, TypeOK, Built
<1>2. Reopening'
  BY DEF Built, Reopening
<1>3. Grounded'
  BY DEF Built, Grounded, Gaps
<1> QED
  BY <1>1, <1>2, <1>3 DEF IInv

\* Every step keeps the invariant.
LEMMA NextInv == ASSUME IInv, [Next]_vars PROVE IInv'
<1> USE DEF IInv
<1>1. CASE Restart
  <2>1. TypeOK'
    BY <1>1 DEF Restart, TypeOK
  <2>2. Reopening' /\ Grounded'
    BY <1>1 DEF Restart, Reopening, Grounded
  <2> QED
    BY <2>1, <2>2
<1>2. CASE Raise
  BY <1>2, BuiltKeeps DEF Raise
<1>3. CASE BuildPacket
  <2> DEFINE gaps == {h \in claims : Cited(corpus, h) \cap refs = {}}
             p == [status |-> DeriveStatus(corpus, claims, gaps, request.current),
                   claims |-> claims, refs |-> refs, corpus |-> corpus]
  <2>1. stage = "reopening" /\ Built(p)
    BY <1>3 DEF BuildPacket
  <2>2. p.corpus = corpus /\ p.claims = claims /\ p.refs = refs
    OBVIOUS
  <2>3. Gaps(p) = gaps
    BY <2>2 DEF Gaps
  <2>4. p.status = DeriveStatus(corpus, p.claims, Gaps(p), request.current)
    BY <2>2, <2>3
  <2>5. p.claims = Select(corpus, request)
    BY <2>1, <2>2 DEF Reopening
  <2>6. \A i \in p.refs : corpus[i].path \in seen
    BY <2>1, <2>2 DEF Reopening
  <2>7. p \in Packets(corpus)
    <3>1. claims \subseteq DOMAIN corpus /\ refs \subseteq DOMAIN corpus
      BY DEF TypeOK, Headings
    <3>2. DeriveStatus(corpus, claims, gaps, request.current) \in
            {"READY", "INSUFFICIENT_EVIDENCE", "STOP", "LIVE_CHECK_REQUIRED"}
      BY DEF DeriveStatus
    <3> HIDE DEF gaps
    <3> QED
      BY <3>1, <3>2 DEF Packets
  <2> HIDE DEF p
  <2> QED
    BY <2>1, <2>2, <2>4, <2>5, <2>6, <2>7, BuiltKeeps
<1>4. ASSUME NEW l \in Ledgers, EditLedger(l) PROVE IInv'
  <2>1. TypeOK'
    BY <1>4 DEF EditLedger, TypeOK
  <2>2. Reopening' /\ Grounded'
    BY <1>4 DEF EditLedger, Reopening, Grounded, Gaps
  <2> QED
    BY <2>1, <2>2
<1>5. ASSUME NEW p \in Paths, NEW s \in FileStates, EditFile(p, s) PROVE IInv'
  <2>1. /\ inside \subseteq inside' /\ inside' \subseteq Paths
        /\ seen \subseteq seen' /\ seen' \subseteq inside'
    BY <1>5 DEF EditFile, TypeOK, Permitted
  <2>2. stage = "reopening" =>
          /\ Permitted(files)' \subseteq inside'
          /\ (inside \cap Readable(files))' \subseteq seen'
    BY <1>5 DEF EditFile, Permitted, Readable
  <2>3. TypeOK'
    BY <1>5, <2>1 DEF EditFile, TypeOK
  <2>4. Reopening'
    BY <1>5, <2>1, <2>2 DEF EditFile, Reopening
  <2>5. Grounded'
    BY <1>5, <2>1 DEF EditFile, Grounded, Gaps
  <2> QED
    BY <2>3, <2>4, <2>5
<1>6. ASSUME NEW r \in Requests, Ask(r) PROVE IInv'
  <2>1. claims' = Select(corpus, r) /\ claims' \subseteq Headings(corpus)
    BY <1>6, SelectedAreClaims DEF Ask
  <2>2. todo' = UNION {Cited(corpus, h) : h \in claims'}
    BY <1>6 DEF Ask
  <2>3. todo' \subseteq DOMAIN corpus
    BY <2>2, CitedPath DEF TypeOK
  <2>4. /\ inside' = Permitted(files) /\ inside' \subseteq Paths
        /\ seen' = inside' \cap Readable(files)
    BY <1>6 DEF Ask, Permitted
  <2>5. TypeOK'
    <3>1. r # None
      BY ProviderAssumption
    <3> QED
      BY <1>6, <2>1, <2>3, <2>4, <3>1 DEF Ask, TypeOK
  <2>6. Reopening'
    <3>1. \A i \in todo' : \E h \in claims' : i \in Cited(corpus, h)
      BY <2>2
    <3> QED
      BY <1>6, <2>1, <2>4, <3>1 DEF Ask, Reopening, Permitted, Readable
  <2>7. Grounded'
    BY <1>6 DEF Ask, Grounded
  <2> QED
    BY <2>5, <2>6, <2>7
<1>7. ASSUME NEW i \in todo, Resolve(i) PROVE IInv'
  <2>1. stage = "reopening" /\ resolved' \subseteq {i}
    BY <1>7 DEF Resolve
  <2>2. TypeOK'
    BY <1>7, <2>1 DEF Resolve, TypeOK
  <2>3. \A j \in resolved' : corpus[j].path \in inside
    BY <1>7, <2>1 DEF Resolve, Reopening
  <2>4. Reopening'
    BY <1>7, <2>1, <2>3 DEF Resolve, Reopening, Permitted, Readable
  <2>5. Grounded'
    BY <1>7 DEF Resolve, Grounded, Gaps
  <2> QED
    BY <2>2, <2>4, <2>5
<1>8. CASE ReadText
  <2>1. /\ stage = "reopening" /\ resolved' = {}
        /\ refs' = refs \cup {i \in resolved : corpus[i].path \in Readable(files)}
    BY <1>8 DEF ReadText
  <2>2. TypeOK'
    BY <1>8, <2>1 DEF ReadText, TypeOK
  <2>3. \A i \in refs' : corpus[i].path \in seen
    BY <2>1 DEF Reopening
  <2>4. Reopening'
    BY <1>8, <2>1, <2>3 DEF ReadText, Reopening, Permitted, Readable
  <2>5. Grounded'
    BY <1>8 DEF ReadText, Grounded, Gaps
  <2> QED
    BY <2>2, <2>4, <2>5
<1>9. CASE UNCHANGED vars
  BY <1>9 DEF vars, TypeOK, Reopening, Grounded, Gaps, Permitted, Readable
<1> QED
  BY <1>1, <1>2, <1>3, <1>4, <1>5, <1>6, <1>7, <1>8, <1>9 DEF Next

----------------------------------------------------------------------------
\* The inductive invariant holds.
THEOREM Invariant == Spec => []IInv
<1>1. Init => IInv
  BY InitInv
<1>2. IInv /\ [Next]_vars => IInv'
  BY NextInv
<1> QED
  BY <1>1, <1>2, PTL DEF Spec

\* Type correctness (a packet is always one of the ledger the host parsed).
THEOREM TypeCorrect == Spec => []TypeOK
<1>1. IInv => TypeOK
  BY DEF IInv
<1> QED
  BY <1>1, Invariant, PTL

\* What it takes for a packet to be READY.
LEMMA ReadyMeans ==
  ASSUME IInv, Ready
  PROVE  /\ packet.corpus = corpus
         /\ packet.claims = Select(corpus, request)
         /\ packet.claims # {}
         /\ \A h \in packet.claims : Cited(corpus, h) \cap packet.refs # {}
         /\ \A h \in packet.claims : ~ ClassAmong(corpus, h, Stopping)
         /\ request.current =>
              \A h \in packet.claims : ~ ClassAmong(corpus, h, Live)
         /\ \A i \in packet.refs : corpus[i].path \in seen
<1>1. packet \notin {None, Insufficient}
  BY DEF Ready, Insufficient
<1>2. /\ packet.corpus = corpus
      /\ packet.claims = Select(corpus, request)
      /\ \A i \in packet.refs : corpus[i].path \in seen
  BY <1>1 DEF IInv, Grounded
<1>3. DeriveStatus(corpus, packet.claims, Gaps(packet), request.current) = "READY"
  BY <1>1 DEF IInv, Grounded, Ready
<1>4. /\ packet.claims # {} /\ Gaps(packet) = {}
      /\ ~ \E h \in packet.claims : ClassAmong(corpus, h, Stopping)
      /\ ~ (request.current /\ \E h \in packet.claims : ClassAmong(corpus, h, Live))
  BY <1>3 DEF DeriveStatus
<1>5. \A h \in packet.claims : Cited(corpus, h) \cap packet.refs # {}
  BY <1>2, <1>4 DEF Gaps
<1> QED
  BY <1>2, <1>4, <1>5

\* A READY packet is proven: every claim in it is fit to build on, and cites a
\* path that led into the roots at some moment of the build and to something
\* readable at that moment or a later one of it.
THEOREM ReadyPacketsAreProven == Spec => []ReadyIsProven
<1>1. ASSUME IInv, Ready, NEW h \in packet.claims
      PROVE  \E i \in CiteLines(packet.corpus, h) :
               i \in packet.refs /\ packet.corpus[i].path \in seen
  <2>1. PICK i \in Cited(corpus, h) : i \in packet.refs
    BY <1>1, ReadyMeans
  <2>2. i \in CiteLines(corpus, h)
    BY <2>1 DEF Cited
  <2>3. packet.corpus = corpus /\ corpus[i].path \in seen
    BY <1>1, <2>1, ReadyMeans
  <2> QED
    BY <2>1, <2>2, <2>3
<1>2. IInv => ReadyIsProven
  BY <1>1, ReadyMeans DEF ReadyIsProven
<1> QED
  BY <1>2, Invariant, PTL

\* A contested or superseded claim that speaks to a request withholds the work,
\* unless the packet was full of claims before it.
THEOREM StopsWithhold == Spec => []StopsHold
<1>1. ASSUME IInv, Ready, NEW h \in Relevant(packet.corpus, request),
             ClassAmong(packet.corpus, h, Stopping)
      PROVE  /\ Explicit(packet.corpus, request) = {}
             /\ Cardinality({g \in Matching(packet.corpus, request) :
                              Before(packet.corpus, g, h, request)}) >= MaxClaims
  <2>1. packet.corpus = corpus /\ corpus \in Ledgers
    BY <1>1, ReadyMeans DEF IInv, TypeOK
  <2>2. h \notin Select(corpus, request)
    BY <1>1, <2>1, ReadyMeans
  <2> QED
    BY <1>1, <2>1, <2>2, LeftOut
<1>2. IInv => StopsHold
  BY <1>1 DEF StopsHold
<1> QED
  BY <1>2, Invariant, PTL
=============================================================================
