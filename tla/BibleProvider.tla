---------------------------- MODULE BibleProvider ----------------------------
(* The built-in evidence provider: agents/evidence_providers/                *)
(* bible_markdown.py with derive_status and build_evidence_packet of         *)
(* agents/evidence_gateway.py.  A ledger of claims is parsed once, when the  *)
(* host starts; every request selects claims from it and reopens the files   *)
(* they cite, while people edit the ledger and the files.                    *)
(*                                                                           *)
(* A claim is known by the number of its heading line, a citation by the     *)
(* number of its line.  Text is the set of specific words in it, the digest  *)
(* of a ledger the ledger itself.                                            *)
EXTENDS Naturals, Sequences, FiniteSets

CONSTANTS
  Ids,         \* claim ids, numbered in their alphabetical order
  Inside,      \* <<a, b>>: id a stands, at word boundaries, in the text of b
  Words, Long, \* tokens that are no stop words; those of 6 letters or more
  Paths,       \* cited files
  MaxClaims,   \* how many matching claims are used
  MaxCited,    \* _MAX_EVIDENCE_PER_CLAIM
  Ledgers,     \* what the ledger file may hold
  Requests,    \* [names, words, current]: the claims a request names, its
               \* words, and whether it asks about the current state
  None         \* no request, no packet, no ledger

Stopping == {"CONTESTED", "SUPERSEDED"}
Live == {"POINT-IN-TIME"}

\* A line of the ledger, as _parse tells lines apart.  "other" is a line that
\* changes nothing the packet's status depends on: a section heading, a claim
\* heading that does not fit the grammar, AsOf, Authority, Position, prose.
Lines ==
  [kind : {"claim"}, id : Ids, words : SUBSET Words]
    \cup [kind : {"class"}, class : {"INVARIANT"} \cup Stopping \cup Live]
    \cup [kind : {"cite"}, path : Paths]
    \cup [kind : {"other"}]

ASSUME ProviderAssumption ==
  /\ Ids \subseteq Nat /\ MaxClaims \in Nat /\ MaxCited \in Nat
  /\ Ledgers \subseteq Seq(Lines)
  /\ Requests \subseteq [names : SUBSET Ids, words : SUBSET Words,
                         current : BOOLEAN]
  /\ None \notin Requests /\ None \notin Ledgers

----------------------------------------------------------------------------
\* _parse.  What follows a claim heading belongs to the claim, up to the next.
Headings(l) == {h \in DOMAIN l : l[h].kind = "claim"}

Body(l, h) ==
  {i \in DOMAIN l : h < i /\ \A g \in Headings(l) : g <= h \/ i < g}

ClassLines(l, h) == {i \in Body(l, h) : l[i].kind = "class"}

\* The claim's class, its last Class line, is one of these.
ClassAmong(l, h, classes) ==
  \E i \in ClassLines(l, h) :
    l[i].class \in classes /\ \A j \in ClassLines(l, h) : j <= i

CiteLines(l, h) == {i \in Body(l, h) : l[i].kind = "cite"}

\* The citations of a claim that are tried.
Cited(l, h) ==
  {i \in CiteLines(l, h) :
     Cardinality({j \in CiteLines(l, h) : j < i}) < MaxCited}

----------------------------------------------------------------------------
\* _select.  _claim_id_in_request finds an id in the request's text, also
\* inside another id that continues it after a hyphen.
Explicit(l, request) ==
  {h \in Headings(l) :
     \E n \in request.names : n = l[h].id \/ <<l[h].id, n>> \in Inside}

Shared(l, h, request) == l[h].words \cap request.words

Matching(l, request) ==
  {h \in Headings(l) :
     \/ Cardinality(Shared(l, h, request)) >= 2
     \/ Shared(l, h, request) \cap Long # {}}

ById(l, g, h) == l[g].id < l[h].id \/ (l[g].id = l[h].id /\ g < h)

\* g is sorted before h: more words in common, then the lower id.
Before(l, g, h, request) ==
  LET m == Cardinality(Shared(l, g, request))
      n == Cardinality(Shared(l, h, request))
  IN  m > n \/ (m = n /\ ById(l, g, h))

\* Mutant: the least relevant claims are kept.
SelectLast(l, request) ==
  IF Explicit(l, request) # {} THEN Explicit(l, request)
  ELSE {h \in Matching(l, request) :
          Cardinality({g \in Matching(l, request) :
                         Before(l, h, g, request)}) < MaxClaims}

Select(l, request) ==
  IF Explicit(l, request) # {} THEN Explicit(l, request)
  ELSE {h \in Matching(l, request) :
          Cardinality({g \in Matching(l, request) :
                         Before(l, g, h, request)}) < MaxClaims}

\* The order in which build_packet goes through the selection.
Sooner(l, g, h, request) ==
  IF Explicit(l, request) # {} THEN ById(l, g, h) ELSE Before(l, g, h, request)

----------------------------------------------------------------------------
\* derive_status, for the selected claims and those of them with a gap.
DeriveStatus(l, claims, gaps, current) ==
  IF claims = {} \/ gaps # {} THEN "INSUFFICIENT_EVIDENCE"
  ELSE IF \E h \in claims : ClassAmong(l, h, Stopping) THEN "STOP"
  ELSE IF current /\ \E h \in claims : ClassAmong(l, h, Live)
       THEN "LIVE_CHECK_REQUIRED"
  ELSE "READY"

\* build_evidence_packet's answer to a provider that raised.
Insufficient ==
  [status |-> "INSUFFICIENT_EVIDENCE", claims |-> {}, refs |-> {},
   corpus |-> None]

VARIABLES
  ledger,    \* BIBLE.md as it is on disk
  files,     \* path -> what resolving and reading it comes to
  corpus,    \* the ledger this host parsed
  request,   \* the request a packet is being built for, or was
  stage,     \* "idle", "reopening", "built"
  claims,    \* the selected claims
  todo,      \* citations still to be tried
  resolved,  \* the citation whose path was resolved and whose file is not read
  refs,      \* citations that were reopened
  packet,    \* the packet that was built
  inside,    \* paths that led into a root at some moment of this request
  seen       \* those of them that could be read then or at a later one

vars == <<ledger, files, corpus, request, stage, claims, todo, resolved, refs,
          packet, inside, seen>>

\* A file in a root, one outside every root, none, or one in a root that raises
\* OSError when it is read.
FileStates == {"permitted", "outside", "absent", "unreadable"}

\* What resolve_within_roots lets pass, and what read_text can read.
Permitted(fs) == {p \in Paths : fs[p] \in {"permitted", "unreadable"}}
Readable(fs) == {p \in Paths : fs[p] \in {"permitted", "outside"}}

Init ==
  /\ ledger \in Ledgers /\ corpus = ledger
  /\ files \in [Paths -> FileStates]
  /\ request = None /\ stage = "idle" /\ packet = None
  /\ claims = {} /\ todo = {} /\ resolved = {} /\ refs = {}
  /\ inside = {} /\ seen = {}

\* People edit the ledger and the files; hosts do not notice.
EditLedger(l) ==
  /\ ledger' = l
  /\ UNCHANGED <<files, corpus, request, stage, claims, todo, resolved, refs,
                 packet, inside, seen>>

EditFile(p, state) ==
  /\ files' = [files EXCEPT ![p] = state]
  /\ IF stage = "reopening"
     THEN /\ inside' = inside \cup Permitted(files')
          /\ seen' = seen \cup (inside' \cap Readable(files'))
     ELSE UNCHANGED <<inside, seen>>
  /\ UNCHANGED <<ledger, corpus, request, stage, claims, todo, resolved, refs,
                 packet>>

\* Mutant: the last packet outlives the ledger it was built from.
RestartKeeping ==
  /\ corpus' = ledger /\ stage' = IF packet = None THEN "idle" ELSE "built"
  /\ claims' = {} /\ todo' = {} /\ resolved' = {} /\ refs' = {}
  /\ inside' = {} /\ seen' = {}
  /\ UNCHANGED <<ledger, files, request, packet>>

\* The host ends and a new one parses the ledger.
Restart ==
  /\ corpus' = ledger
  /\ request' = None /\ stage' = "idle" /\ packet' = None
  /\ claims' = {} /\ todo' = {} /\ resolved' = {} /\ refs' = {}
  /\ inside' = {} /\ seen' = {}
  /\ UNCHANGED <<ledger, files>>

\* build_packet is called: claims are selected.
Ask(r) ==
  /\ stage # "reopening"
  /\ request' = r /\ stage' = "reopening" /\ packet' = None
  /\ claims' = Select(corpus, r)
  /\ todo' = UNION {Cited(corpus, h) : h \in claims'}
  /\ resolved' = {} /\ refs' = {}
  /\ inside' = Permitted(files) /\ seen' = inside' \cap Readable(files)
  /\ UNCHANGED <<ledger, files, corpus>>

\* The next citation: that of the first claim, the first of its own.
IsNext(i) ==
  /\ i \in todo
  /\ \A g, h \in claims, j \in todo :
       i \in Body(corpus, g) /\ j \in Body(corpus, h) =>
         IF g = h THEN i <= j ELSE Sooner(corpus, g, h, request)

\* Mutant: whatever exists is reopened, wherever it is.
ResolveAnywhere(i) ==
  /\ stage = "reopening" /\ resolved = {} /\ IsNext(i)
  /\ todo' = todo \ {i}
  /\ resolved' = {j \in {i} : files[corpus[j].path] # "absent"}
  /\ UNCHANGED <<ledger, files, corpus, request, stage, claims, refs, packet,
                 inside, seen>>

\* _reopen, of one citation: its path has to lead to a file in a root ...
Resolve(i) ==
  /\ stage = "reopening" /\ resolved = {} /\ IsNext(i)
  /\ todo' = todo \ {i}
  /\ resolved' = {j \in {i} : corpus[j].path \in Permitted(files)}
  /\ UNCHANGED <<ledger, files, corpus, request, stage, claims, refs, packet,
                 inside, seen>>

\* ... and what is there by the time it is read has to be readable.
ReadText ==
  /\ stage = "reopening" /\ resolved # {}
  /\ resolved' = {}
  /\ refs' = refs \cup {i \in resolved : corpus[i].path \in Readable(files)}
  /\ UNCHANGED <<ledger, files, corpus, request, stage, claims, todo, packet,
                 inside, seen>>

\* What is done is forgotten; the packet remains.
Built(p) ==
  /\ stage' = "built" /\ packet' = p
  /\ claims' = {} /\ todo' = {} /\ resolved' = {} /\ refs' = {}
  /\ UNCHANGED <<ledger, files, corpus, request, inside, seen>>

\* Anything but an OSError from read_text: build_evidence_packet turns it into a
\* packet that authorizes nothing.
Raise == stage = "reopening" /\ Built(Insufficient)

\* All citations are tried: a claim without a reopened one is a gap.
BuildPacket ==
  /\ stage = "reopening" /\ todo = {} /\ resolved = {}
  /\ LET gaps == {h \in claims : Cited(corpus, h) \cap refs = {}}
     IN  Built([status |-> DeriveStatus(corpus, claims, gaps, request.current),
                claims |-> claims, refs |-> refs, corpus |-> corpus])

Next ==
  \/ Restart \/ ReadText \/ Raise \/ BuildPacket
  \/ \E l \in Ledgers : EditLedger(l)
  \/ \E p \in Paths, s \in FileStates : EditFile(p, s)
  \/ \E r \in Requests : Ask(r)
  \/ \E i \in todo : Resolve(i)

Spec == Init /\ [][Next]_vars

----------------------------------------------------------------------------
Packets(l) ==
  [status : {"READY", "INSUFFICIENT_EVIDENCE", "STOP", "LIVE_CHECK_REQUIRED"},
   claims : SUBSET DOMAIN l, refs : SUBSET DOMAIN l, corpus : {l}]

\* Every variable stays in its range.
TypeOK ==
  /\ ledger \in Ledgers /\ corpus \in Ledgers
  /\ files \in [Paths -> FileStates]
  /\ request \in Requests \cup {None}
  /\ stage \in {"idle", "reopening", "built"}
  /\ claims \subseteq Headings(corpus)
  /\ todo \subseteq DOMAIN corpus /\ resolved \subseteq DOMAIN corpus
  /\ refs \subseteq DOMAIN corpus
  /\ packet \in Packets(corpus) \cup {Insufficient, None}
  /\ inside \subseteq Paths /\ seen \subseteq inside
  /\ stage # "idle" => request # None

Ready == packet # None /\ packet.status = "READY"

\* A READY packet rests on claims of the ledger its digest names, at least one;
\* none of them is contested or superseded, nor of a moment when the request is
\* about now; and each cites a path that led into the roots at some moment of the
\* build and to something readable then or later (bible_markdown.py build_packet,
\* _reopen; the test "every claim in a ready packet has a reopened reference").
\* Nothing says the path still led into the roots when it was read.
ReadyIsProven ==
  Ready =>
    /\ packet.claims # {}
    /\ \A h \in packet.claims :
         /\ ~ ClassAmong(packet.corpus, h, Stopping)
         /\ request.current => ~ ClassAmong(packet.corpus, h, Live)
         /\ \E i \in CiteLines(packet.corpus, h) :
              i \in packet.refs /\ packet.corpus[i].path \in seen

\* The claims that speak to a request: those it names, if it names any of the
\* ledger's, and otherwise those that share its vocabulary.
Relevant(l, r) ==
  IF Explicit(l, r) # {} THEN Explicit(l, r) ELSE Matching(l, r)

\* A contested or superseded claim that speaks to the request withholds the work,
\* unless MaxClaims claims that all come before it fill the packet
\* (derive_status: "any CONTESTED/SUPERSEDED claim -> STOP").
StopsHold ==
  Ready =>
    \A h \in Relevant(packet.corpus, request) :
      ClassAmong(packet.corpus, h, Stopping) =>
        /\ Explicit(packet.corpus, request) = {}
        /\ Cardinality({g \in Matching(packet.corpus, request) :
                          Before(packet.corpus, g, h, request)}) >= MaxClaims

\* If a request names claims, its packet rests on those and on no others
\* (bible_markdown.py _select: "natural-language matching is not layered on top,
\* so a query pinned to specific claims cannot be diluted by unrelated ones").
StaysPinned ==
  Ready /\ request.names # {} =>
    \A h \in packet.claims : packet.corpus[h].id \in request.names
=============================================================================
