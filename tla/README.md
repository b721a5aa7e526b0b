# A TLA+ development of the Governed Agentic Companion

The companion answers builders' questions through one orchestrator and lets no
answer out except through one governance gate.  What it claims is strong: no
bypass, evidence that fails closed, records that never get in the way, humans who
approve plans and promote knowledge.  This project states those claims as
properties of models translated from the Python source, checks them with TLC on
small instances and proves the most important ones with TLAPS for instances of
any size.

`PROJECT.json` links every definition to the lines it stands for, every run to its
properties, every property to a deliberate bug that breaks it, and every finding
to the sentence of the repository it contradicts.

## 1. The system

| Component | State | Operations | Talks to |
|---|---|---|---|
| governance gate (`agents/governance_gate.py`) | none | detectors, `enforce`, `gate_output` | audit trail, feedback loop |
| orchestrator (`agents/orchestrator.py`) | specialists and evidence provider, fixed when it is built | `route`, `handle` | evidence gateway, specialists, gate |
| evidence gateway (`agents/evidence_gateway.py`) | none; packets hash themselves | `build_evidence_packet`, `packet_validity_reason`, `derive_status` | provider |
| BIBLE provider (`agents/evidence_providers/`) | corpus parsed once | `_select`, `_reopen`, `build_packet` | files on disk |
| specialists (`agents/base_agent.py`, `agents/specialists/`) | knowledge loaded once | `handle_request`, `assess_confidence_detail` | overlay, layers |
| audit trail (`agents/audit.py`) | `.audit/trail.jsonl`, append only | `record_gate`, `tail` | — |
| feedback loop (`agents/feedback.py`) | `.feedback/candidates.jsonl` and its `.tmp`; a lock per process | `record_work`, `promote`, `dismiss` | — |
| staged mode (`agents/staged.py`) | `.plans/<id>.json` | `plan`, `approve`, `execute_next` | orchestrator |
| maturity (`agents/maturity.py`) | reads the trail, the backlog, a ratification file | `compute_maturity` | trail, feedback |
| overlay and layers (`agents/kb_overlay.py`, `agents/memory_layers.py`) | none | `apply_overlay`, `resolve_layers` | S3 |
| data protection (`agents/data_protection.py`) | none | `scan`, `scrub_or_reject` | managed backends |
| integrity (`governance/`, `scripts/rebaseline_integrity.py`) | `integrity.yaml` | verify, rebaseline | — |
| tokens and runtime client (`frontdoor/`) | a cached token behind a lock; an env file | `get_token`, `invalidate`, `invoke`, the daemon | Cognito, AgentCore |
| front doors (CLI, MCP servers, hooks, runtimes) | none | call `handle` or `enforce` | all of the above |

A request travels: front door → `route` → evidence packet → specialist → gate →
audit trail → feedback loop → caller.  Staged mode makes three such requests, one
per `plan step` command.  Front doors are separate processes; they share the three
files of state and nothing else.

What makes the code hard to test, and what must hold:

* **Requests.**  Servers run many at once; the process may end anywhere; the two
  records are written between the verdict and the answer and may fail silently.
  An answer must be fit whatever branch produced it; records must neither change
  nor delay it; the trail must account for it.
* **Evidence.**  Providers may be absent, unreachable, raise, or hand back a packet
  for another request, route or status; cited files move while they are reopened.
  Nothing is dispatched unproven; evidence adds reasons to withhold, never takes one
  away (the last of these the code does not keep: finding 2).
* **The candidates file.**  Read, changed and rewritten as a whole by threads and
  processes.  No signal or human decision may get lost and none be invented.
* **The plan file.**  Commands overlap and the file is rewritten in place, not
  atomically.  A human's approval must come before any step, steps keep their
  order, a checked box must be true.
* **Tokens.**  Threads share a cache, a lock and one retry; a daemon and commands share
  an env file.  Nothing used may expire meanwhile, and other lines of the file stay.
* **Knowledge.**  Files, overlay and layer entries may be missing, malformed, aimed at
  locked keys or in any order.  Tier A never moves, nothing is lost, the highest layer
  wins.
* **Maturity.**  Records, backlog, files and marker are read one after another while they
  change, and what cannot be read counts as empty.  Readiness must be earned, misuse must
  be seen, growth must never demote.
* **Data protection.**  What is reported as redacted must be gone.

## 2. Plan

Most important behaviour first.

| | Module(s) | About | State |
|---|---|---|---|
| A | `GovernanceGate`, `Companion` ⟹ `GatedDelivery` | the request pipeline | modelled, checked, safety proved |
| A' | `Grounding`, on top of `GovernanceGate` | the scores that are arbitrary in A, with and without a packet | modelled, checked: a finding |
| B | `FeedbackRecords`, `FeedbackStore` ⟹ `FeedbackLedger` | the candidates file | modelled, checked, safety proved |
| C | `StagedPlan` ⟹ `PlanOfRecord` | staged mode | modelled, checked, safety proved |
| D | `TokenProvider`, `GatewayDaemon` | token cache and its one retry; the daemon and its env file | modelled, checked, safety proved |
| E | `BibleProvider` | claims, citations, derived status: the packets that are arbitrary in A | modelled, checked, safety proved |
| F | `KnowledgeLayers` | files, overlay, layers: a locked tier, precedence in any order | modelled, checked, safety proved |
| G | `Maturity` | the ladder, its bars and reports, on top of the gate's verdicts | modelled, checked, safety proved |
| H | `DataProtection` | scrubbing by mode and backend | modelled, checked |
| — | front doors, integrity, sensors, REST client, ledger generator | see section 6 | not modelled |

Abstract specifications: `GatedDelivery` (one judgement, one outcome per request),
`FeedbackLedger` (one indivisible change per operation) and `PlanOfRecord` (one whole
step of a plan after the other).  All three refinements are proved, the second for
operations whose critical sections do not overlap (the lock sees to that within one
process, nothing does between two, see the first finding), the third for commands that
do not overlap and whose saves succeed.  Every safety and action property a passing run
checks has a theorem.  Still worth a model: the stateless parts of section 6, and the packets of
`BibleProvider` inside `Companion`.

## 3. The modules

**`GovernanceGate`** holds the gate as pure operators.  A response is the set of
marks the detectors' patterns find in it (`Marks`), a confidence a percentage, a
digest the value it is taken of, so that equal digests are equal values.
`Findings` is the line of `extend` calls of `enforce`; `Resolved` is what
`gate_output` asks of the agent for every argument its caller left at None.
`IsGap` is `record_work`'s decision.

**`Companion`** is the pipeline.  A host is a process with an `Orchestrator`; `Boot`
chooses its evidence provider from the configuration on disk, once, and
`Reconfigure` changes that configuration later.  A request moves through
`Receive`, `BuildEvidence`, `HandleRequest`, `GateAnswer` or `GateRefusal`,
`RecordGate`, `RecordWork` and `Respond`; each is one step, so requests interleave
between any two of them, each record may fail, and `Stop` ends a host with all it
was serving.  Specialists answer anything (or raise), the scorer measures anything
(or raises), an active provider hands back any packet.  `trail` is the audit file as
its reader sees it, and `torn` says that it ends in half a line, which a failed write
may leave: the next event continues that line and is lost with it (`RecordGate`).
`gaps` are the requests `record_work` handed to the candidates file; what becomes of
them in a file other processes write too is `FeedbackStore`'s matter.

**`Grounding`** computes what `Companion` leaves open: `assess_confidence_detail` and
`_request_relevance` on texts taken as sets of terms, in exact arithmetic.
`HandleRequest` appends the basis of the packet to the response as `handle` does, and
`GateAnswer` scores the whole.  `Terms` are the terms a text may have, `Knowledge` says
which of them occur under which key, `Basis` which ones `render_basis` always writes.

**`GatedDelivery`** is what the pipeline promises with all that hidden: one final
judgement per request, answers exactly for the fit, no outcome ever changed.

**`FeedbackRecords`** defines upsert, promote and dismiss on a list of records,
**`FeedbackLedger`** a ledger changed by them one whole operation at a time.
**`FeedbackStore`** is the implementation: inodes, the two names `candidates.jsonl`
and `candidates.jsonl.tmp`, a lock per process, and the steps read, open, write,
replace.  Opening truncates the file another process may be writing; writing over
it may leave its tail behind (`Overlay`); renaming moves whatever the temporary name
means by then.  Writes fail and processes crash between any two steps.

**`StagedPlan`** has one plan file and overlapping commands, each with a copy of the
plan.  `Truncate` and `Write` are the two halves of `write_text`; `SaveFails` is the
error `_save` swallows; `Torn` is a file that does not parse.  `gen` is `created_at`:
it tells the creations of one plan apart.  `quiet` is a ghost: no command began beside
another so far, and no save was lost; `Begin` and the failures keep it.
**`PlanOfRecord`** is what that promises: a plan drafted, approved once, performed step
by step.  `Current` maps to it: the plan in force is what the file loads as, and, once a
command has emptied the file, that command's copy.

**`TokenProvider`** is the provider the threads of the MCP bridge share.  Tokens are
numbers in the order in which they were issued, and a call goes through `Begin`,
`GetCached` or `StartMint`, `Issue`, `FinishMint`, `Serve`, and after a rejection
`Invalidate` and all of that once more.  The mint holds the lock while its network
call is under way, so `Tick` (the clock) and other calls' steps come between any
two of its lines.  `SignOut` revokes every token issued so far.  `last_ttl` is read
by the daemon only and is left out here.

**`GatewayDaemon`** is the loop that keeps an env file fresh, with any number of
`write-env` commands on the same file.  A refresh is `Grant` (the mint), `Read`,
`Empty` and `Fill` (the two halves of `write_text`); a token is the instant at which
it ends.  Where two saves overlap, a shorter text leaves the tail of a longer one behind
it (`Overwritten`), perhaps with that one's token line, which is then the last and counts.
`End` is an exception nobody catches, or the user's interrupt.

**`BibleProvider`** is the built-in evidence provider.  The ledger is a sequence of
lines of the kinds `_parse` tells apart; a claim is known by its heading's line
number, a citation by its own.  `Ask` selects, `Resolve` checks where the path of one
citation leads, in the order of the code, `ReadText` reads what is there by then,
`BuildPacket` derives the status; `EditLedger` and `EditFile` are the people who change
both between any two of these steps, `Raise` is any exception of the provider.  `inside`
and `seen` are ghosts: the paths that led into a root at some moment of the build, and
those of them that led to something readable then or later.
Its packets are a subset of those `Companion` lets an active provider hand back, so
what holds there holds of it.

**`KnowledgeLayers`** is what the constructor of a specialist does with its knowledge:
`ReadFile` for each file in any order, `ApplyOverlay`, `SeedRanks`, then one
`ApplyEntry` per layer entry, so that the loop has an invariant to prove.  A value is
what it says and its `_layer` tag; a tag may be missing, unknown, or something Python
cannot look up in a dict, which raises before the loop (`Raises`) and leaves the
knowledge as the overlay made it.  `image` and `baseline` keep what the files and the
overlay left, for the properties to compare with.

**`Maturity`** extends `GovernanceGate`: `Turn` is a verdict of the gate with its two
records, `Promote` and `Dismiss` are the reviewers, and the report is read in five
steps, `ReadTrail` to `Conclude`, between which all of them go on.  Each read may fail,
which the code takes for "empty".  `start`, `standing` and `blind` are ghosts: what the
window held when the report began, which gaps have been open ever since, whether the
backlog could be read.

**`DataProtection`** is `scrub_or_reject`.  A text is a set of things somebody might look
for and where each stands: in the first 5000 characters the managed backends see, in the
64 KiB that are guarded, or past both.  A managed backend finds any of the personal data
it sees.  A finding knows what it found (`spans`), which the code's does not: that is what
the property is about.

Each component has a module `MC...` that gives its constants small values, and all but
`Grounding` and `DataProtection`, whose runs are findings, one `...Proofs` that holds the
theorems.

## 4. The runs

| Run | Bounds | Shows |
|---|---|---|
| `companion` | 1 host, 2 specialists (one with an LLM); 1 request with 2 texts, every packet, up to 2 marks at once, scores 94 and 95, 5 configurations; or 2 requests with little data and a trail that tears | the verdict is right on every branch and every kind of evidence; only fit answers are delivered, records account for outcomes, outcomes never change, every request ends |
| `feedback_threads` | 1 process, 2 threads, 2 ids, 3 operations | the file is the ledger; signals are counted; decisions last; nothing is absorbed without a human; nothing hangs |
| `plan_overlap` | 2 commands, 3 steps, 2 creations, 2 calls a step, faults | approval first, steps in order, marks true; commands that do not overlap leave a file that tells all and implement `PlanOfRecord` |
| `tokens_bridge` | 2 calls, one of them never let in; margin 2, lifetime 4, 6 instants, 2 sign-outs | no token expires in flight, retries are fresher, one sign-out is never seen, calls end |
| `gateway_daemon` | the daemon and 1 `write-env`, 12 instants, both floors in force, the least lifetime that is enough | the file stays fresh; other lines survive saves that do not overlap |
| `evidence_build` | 3 ledgers, 7 requests, 2 files, 1 claim used, 2 citations tried | READY is proven, stops hold |
| `knowledge_load` | a locked and two Tier-B keys, up to 3 entries | locked keys stay, nothing is lost, the highest layer wins |
| `maturity_ladder` | 5 kinds of verdict, 3 events, window 2, 2 ids, 1 promotion, 2 files, bars 50 and 40 | readiness is earned and barred by misuse; growth never demotes |
| `feedback_lost` | 2 processes, 2 ids, 4 operations | a finding below |
| `evidence_lifts` | 6 terms, 1 knowledge key, packets of 1 claim | a finding below |
| `evidence_pinned` | as `evidence_build` | a finding below |
| `data_managed` | texts of up to 3 of 7 things, every mode and backend | a finding below |

Why these bounds are enough.  Every detector looks at one response, so two marks at once
show every pair of findings; a score on each side of the bar and an unmeasured one show
every outcome of the comparison.  `companion` is bounded by a constraint on states
(`Bounded`): either one request has all the data there is, or two have a little of it
and the trail may tear between them.  A constraint is sound for the safety properties,
which then hold of every behaviour that stays within it, and here for the liveness
property too: whatever state a request is in, its next step has an outcome within the
bound, so that the fair behaviours TLC looks at are fair behaviours of the specification
and a request that hangs would hang in one of them.  Two requests show every
interference between requests: they share only the trail, the backlog and the host.  Two
operations at a time show every interference on a file, a third one reads what they left
and a fourth builds on it; two ids tell the record an operation is about from another.
Three steps are what `plan()` makes; two creations make every stale copy of the first.
Two calls are enough for one to mint, be let in or be rejected with a token the other
replaces, and two sign-outs for a retry to fail.  A unit of time stands for a minute and
the lifetime is the least that outlives an exchange: what matters is the order of
instants, and the proofs hold for every number.  Twelve instants are several turns of
the daemon's loop with a `write-env` around any of them.  In `gateway_daemon` the daemon
takes the lifetime for longer than it is (the floor of `last_ttl`) and sleeps longer
than lifetime and margin say (the floor of `_next_sleep`); the lifetime is the least for
which the proof goes through, and one unit less is too little.  The provider's floor of
60 seconds makes no difference in `tokens_bridge`, nor wherever its assumption holds: a
lifetime below the floor is below the margin too, and its token is never served from the
cache, with or without the floor.  Provider requests share nothing but the parsed
ledger, which never changes, so one at a time suffices; with one claim used, three
ledgers have more matches than fit, with two citations tried, claims that cite three,
two or none.  Three layer entries are one below, one beside and one above any other;
keys do not interact, so a locked key and a Tier-B key with and without a file are all
there are.  Two ids and three events put both rates on either side of bars that do not
add up to 100, and a window of two makes answers fall out of it.

Deadlock is not checked in the runs of the feedback store, of staged mode and of the
tokens, nor in `evidence_lifts`, which ends with its verdict: users may stop issuing
commands, and the budget of operations (`MaxOps`,
`MaxGens`, `MaxRuns`), of time (`Horizon`) and of sign-outs ends.  The pipeline, the
evidence provider, the loading of knowledge and the maturity report have no budget and
are checked: hosts can always start, stop or start anew.

Fairness.  `Companion` and `FeedbackStore` assume weak fairness of the steps of a
request, respectively of an operation, once it has begun: it is straight-line code
in a thread the operating system keeps running.  Nothing is assumed of users,
operators, writes, specialists that raise or processes that end.  In
`feedback_threads` weak fairness is enough although operations wait for the lock,
because the budget keeps others from taking it forever.  `TokenProvider` assumes it
of the steps of a call and of nothing else: mints and HTTP calls have timeouts, and
each call takes the lock at most twice.  The other modules state safety only.

Findings, each with a counterexample of a run:

1. `feedback_lost`: with two processes an acknowledged promotion or dismissal can
   vanish.  Nothing is ever absorbed without a human all the same: `HumanInTheLoop` is
   proved for any number of processes.
2. `evidence_lifts`: evidence can lift an answer over the bar.  The gate's guardrail is
   that a packet "is never fed into confidence scoring" and "can only TIGHTEN the gate"
   (`governance_gate.py:460`; the latter also `docs/ARCHITECTURE.md:145` and
   `CHANGELOG.md:130`), but `handle` appends its basis to
   the very text that is scored (`orchestrator.py:147`).  A claim id that shares words
   with the question makes an off-topic answer an on-topic one, and words of the basis
   the knowledge has raise the coverage.  In the run a score of 40 becomes 95; with the
   knowledge shipped for the security specialist and an LLM tier, the Python code takes
   one from 0.54 to 0.96.  What holds all the same is that a packet's own finding only
   adds to the others, and that what is delivered has the score the gate took
   (`AnswersAreFit`).
3. `evidence_pinned`: a request that names one claim id is answered on the strength
   of another, whose id is part of the name.
4. `data_managed`: personal data that only a managed backend finds is reported as
   "Redacted before storing" and handed on unchanged, because no pattern has its
   placeholder.

More were met while modelling, and have no run of their own:

* A request withheld by the evidence gateway passes the gate as an unblocked answer
  without sources and is staged as a knowledge gap (`orchestrator.py:140`;
  `feedback.py:101`: "Blocked = a governance decision (not a KB gap)").
* A cited path is checked against the roots and read later (`bible_markdown.py:227` and
  235): if it has come to lead elsewhere in between, what is read need not lie in a root.
  `ReadyIsProven` says no more than that the path led into the roots at some moment of the
  build.
* Half a line that a failed write leaves in the trail swallows the next event, and
  nothing reports either loss (`audit.py:90`); `TrailAccounts` exempts both.
* A `config.yaml` that does not parse reads as an empty one and starts a host with
  evidence enforcement off (`orchestrator.py:37`; line 45: "fails CLOSED via
  UnavailableProvider, never open").
* A promoted candidate can not be promoted again, so the documented path from team to
  project is refused (`feedback.py:178` and `194`).
* Two overlapping `plan step` commands execute the same step, and the later save may
  take the other's mark back (`staged.py:170`).  `FileTellsAll` and `ImplementsPlan`
  exempt overlaps; approval, order and the truth of marks hold with them.
* Two overlapping saves of the env file may lose its other lines
  (`gateway_token.py:58`): one reads the file the other has emptied.  `OthersKept` says
  that only this, or a save cut short, loses them.
* A contested claim stops the work only if it is selected: `max_claims` better matches
  cut it off (`bible_markdown.py:217`).  `StopsHold` says that nothing else does.
* The daemon ends for good when one mint raises (`gateway_token.py:89`).
* The substring "Tenet 1" also names Tenets 11 and 12, and an informational
  `T1_DEPLOY_COMMAND` beside any blocking finding counts as misuse (`maturity.py:187`,
  against the comment on line 182): `NamedBoundary` has them, and readiness is barred
  more often than the comment says, never less.
* A sourced answer below the bar counts both as grounded and as a gap
  (`maturity.py:180`); misuse is forgotten when 10,000 later events push it out of the
  window; an instance that is not ratified falls from grounded to cultivating without
  the note that tells decay.  `productionized` is never computed.
* Of a private key only the header line is redacted; the mode `redact` stores the rest
  (`data_protection.py:116`).  Decisions of the guard are logged, not audited
  (`data_protection.py:246`).
* An overlay value that is no object replaces one that is; the layers then treat it as
  absent.

## 5. The proofs

Everything is proved from the named assumptions on the constants, for any number of
requests, hosts, specialists, texts, packets, threads, processes, commands and steps.

* **`CompanionProofs`.**  First the pure parts.  `RouteIsTotal`: `route` is "the first
  specialist no other beats", and that one exists because strict inclusion of the
  sets "who beats i" is well founded on finite sets.  `AnswerBlocks`: a verdict blocks
  exactly when a mark, the score or the packet does.  The inductive invariant is
  `TypeOK` and a description of each stage (`Stage`): before the gate, nothing is
  measured or judged; after it, the verdict is `GateOutput` of exactly the content,
  measure and packet the request still holds; and while a request runs, its host
  keeps the provider it was booted with.  The properties alone are not inductive:
  they speak of `out` and say nothing about how `verdict` came about.  From it:
  `TypeCorrect`, `EvidenceFirst`, `FitOrWithheld`.  Two more invariants rest on it: an
  event's request is past that record and still has the verdict the event tells, and a
  request past the record has its event unless its write failed or continued half a line
  (`TrailInv`); a gap is handed on only after that record (`GapsInv`).  Hence
  `TrailIsAccount`, `TrailOnlyGrows`.
  `PipelineDelivers` is the refinement: `Judgement` and `Outcome` are what
  `GatedDelivery` knows of one request, a handler's step changes those of its own request
  only (`StepOfOne`), the way `GatedDelivery` allows (`StepOfItself`), and a host that
  stops takes several requests with it, one judgement each unchanged.  `EndsAreFinal`
  says that outcomes and verdicts of requests that ended stay.
* **`FeedbackStoreProofs`.**  `HumanInTheLoop` cannot be proved of the file alone,
  since any inode may be renamed to become it.  The invariant says that every inode
  and every thread's pending write holds only sanctioned records; `OverlaySound`
  shows that mixing two such files invents none.  `FreshInode` counts descriptors
  against inodes to show that creating a file always finds a free one.
  `LockIsWorked` is what the lock gives each process: who is in the critical section
  holds it, and who holds it is there.  One process therefore gives `NeverOverlap`
  (`OneAtATime`), and `NeverOverlap` is all the rest assumes, in place of a number of
  processes.  Under it `Serial` holds: from reading to renaming, what a thread will
  write is its operation applied to the file as it still is, and the temporary file is
  its own.  Then a rename is a step of the ledger (`ContentsStep`, `FileIsLedger`), and
  what the ledger keeps (`Kept`) the file keeps: `AsksCollapse`, `DecisionsLast`,
  `SignalsAreCounted`, `NothingIsErased`.  `DecidedGrows` needs the first of them: with
  two open candidates of an id there would be a question which one is decided.  The
  signals of an id are a set of pairs (record, count), so that one more signal is one
  more element and no sum over the list has to be taken.  `OneProcessKeeps` puts the
  results together for one process, without hypothesis.
* **`StagedPlanProofs`.**  The invariant says of every copy of the plan, in the file
  or in a command's hands, that its generation is approved if it is past draft, that
  its marks were run, and that its runs are in order.  From it: `HardGate`, `InOrder`,
  `MarksAreBacked`.  `OneAtATimeTellsAll` needs more, because the file is empty while it
  is written: `Quietly` says that while commands do not overlap and no save is lost, the
  one at work holds a plan that tells all, and so does the file unless that command is
  saving.  For the refinement (`OneAtATimeImplements`) `Ongoing` adds what that copy is to
  the file: the same plan, or one step ahead of it (`Ahead`).  Only `Truncate` then changes
  the plan in force.  `DoneIsBehind` is where the order of the steps enters: the steps done
  are those before the next one.
* **`TokenProviderProofs`.**  Assumed (`TokenAssumption`): the margin covers the HTTP
  timeout and the floor, and every lifetime outlives a mint and a call.  The timeout the
  code passes to its HTTP library bounds the connection and each read, not the whole call: a
  server that sends its answer drop by drop is outside the assumption.  The invariant
  says whose the lock is (`Held`), that clocks keep their bounds and an expiry its
  token's lifetime (`Timed`), that a token held after a rejection is later than the
  rejected one (`Fresh`), and how sign-outs and attempts count each other (`Counted`).
  `NoExpiryInFlight` needs the last part of `Timed`: the cache never takes its token
  for younger than it is, nor for longer-lived except by the floor.  `LockIsTheMints`
  adds that a call which waits for the lock waits for a mint under way.
* **`GatewayDaemonProofs`.**  Assumed (`DaemonAssumption`): a sleep and three refreshes
  fit into a lifetime, since the token in the file may come from a save that overlapped
  the daemon's last one and began a refresh earlier (`LateToken`).  The invariant says
  when the daemon wakes (`Timed`), that every token in the file lasts until the daemon's
  next refresh is over (`Covered`), and that saves which never overlapped hold the other
  lines (`Apart`).
* **`BibleProviderProofs`.**  The invariant says of a packet in the making that its
  selection is whole, that the path of a resolved citation has been inside a root, and
  that every reopened one was readable since; and of a finished one that its status
  derives from all this.  `LeftOut` shows that a relevant
  claim outside the selection has `MaxClaims` others before it.
* **`KnowledgeLayersProofs`.**  The loop invariant (`Won`) says of each key which entry
  among those passed holds it and that `rank` is that entry's rank, or the floor the
  baseline seeded; `HighestLayerWins` alone knows nothing of `rank` and is not
  inductive.  `OrderIsIrrelevant` follows: where the highest layer that claims a key
  agrees with itself, the outcome is a function of the set of entries.
* **`MaturityProofs`.**  The invariant ties what the report has read so far to the ghosts
  (`ReadSound`): no more answers than the window held, no fewer gaps than have stood all
  the while, no misuse overlooked.  `Earned` then is arithmetic of the two bars.
  `NoDemotionByGrowth` compares the windows before and after one more event: the number of
  grounded answers does not fall, because a good answer replaces at most one other.

Model-checked only: the three liveness properties, `EveryRequestEnds`,
`EveryOperationEnds` and `EveryInvocationEnds`, which are outside the prover's reach.
What they need apart from fairness is proved: `RequestsAdvance`, `OperationsAdvance` and
`CallsAdvance` give each request, operation and call a number of steps it has left, which
each of its own steps lowers and nobody else's raises; `LockIsWorked` and
`LockIsTheMints` say that a lock is held only by somebody who has such a step.
`Grounding` and `DataProtection` have one run each, a finding, and no theorem.

## 6. What is not modelled

The wording of answers, block messages and footers; how an answer is composed from the
knowledge; the regular expressions; the lines a citation quotes and how an excerpt is
redacted.  The integrity check compares two hashes and the parity guard greps files,
each in one stateless pass; hooks, MCP servers and the AgentCore entry points hand a
text to `enforce` or `handle` and print the answer, and are hosts of `Companion`; the
identity interceptor rewrites one message and keeps nothing. Sensors and the REST client
are stateless and nothing depends on their results.  The ledger generator is an offline
script, and `BibleProvider` takes any ledger.  Terraform, installers and documents have
no behaviour.  `tail`, `list_candidates`, `status` and the other read-only commands
change nothing the properties read.
