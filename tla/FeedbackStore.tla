---------------------------- MODULE FeedbackStore ----------------------------
(* agents/feedback.py: the staged candidates in .feedback/candidates.jsonl.  *)
(* record_work, promote and dismiss read the whole file, change it in memory *)
(* and write it back through one temporary file that is renamed over it.  A  *)
(* lock serializes the threads of a process; processes (a CLI command, a     *)
(* hook run, a server) share only the two paths.                             *)
EXTENDS FeedbackRecords, FiniteSets

CONSTANTS
  Procs,     \* processes
  Threads,   \* threads of control, at most one operation each at a time
  ProcOf,    \* ProcOf[t]: the process of thread t
  MaxOps,    \* bound on the operations started
  None

ASSUME FeedbackAssumption ==
  /\ ProcOf \in [Threads -> Procs]
  /\ IsFiniteSet(Threads) /\ None \notin Threads
  /\ MaxOps \in Nat

\* Inodes: one named by each path, one held open by each thread.
Inodes == 1..(Cardinality(Threads) + 2)
NoFile == 0

VARIABLES
  main,     \* inode candidates.jsonl names, NoFile before the first write
  tmp,      \* inode candidates.jsonl.tmp names, NoFile when there is none
  data,     \* inode -> the records whose lines it holds
  lock,     \* process -> the thread in its critical section
  pc,       \* thread -> "idle", "waiting", "open", "write", "replace"
  op,       \* thread -> the operation it is carrying out
  snap,     \* thread -> the records it will write
  fd,       \* thread -> the inode it opened for writing
  reply,    \* thread -> how its last operation ended
  acked,    \* operations that returned success, with how often they did
  asked,    \* operations anyone ever started
  started   \* how many were started

files == <<main, tmp, data>>
vars == <<main, tmp, data, lock, pc, op, snap, fd, reply, acked, asked,
          started>>

Operations ==
  [kind : {"work", "dismiss"}, id : Ids, target : {Nowhere}]
    \cup [kind : {"promote"}, id : Ids, target : Targets]

\* _read_all: a file that does not exist holds nothing.
Contents == IF main = NoFile THEN <<>> ELSE data[main]

Apply(o, records) ==
  CASE o.kind = "work"    -> Upsert(records, o.id)
    [] o.kind = "promote" -> Promote(records, o.id, o.target)
    [] o.kind = "dismiss" -> Dismiss(records, o.id)

\* promote and dismiss act on an open candidate only.
Refuses(o, records) == o.kind # "work" /\ Open(records, o.id) = {}

\* Writing lines at offset 0 of an inode another process already wrote to leaves
\* the end of a longer file behind; a line cut in two is skipped by _read_all.
Overlay(new, old) ==
  {new \o SubSeq(old, k, Len(old)) : k \in Len(new) + 1 .. Len(old) + 1}
    \cup (IF Len(new) >= Len(old) THEN {new} ELSE {})

Unused == CHOOSE i \in Inodes :
            i \notin {main, tmp} \cup {fd[t] : t \in Threads}

Init ==
  /\ main = NoFile /\ tmp = NoFile /\ data = [i \in Inodes |-> <<>>]
  /\ lock = [p \in Procs |-> None]
  /\ pc = [t \in Threads |-> "idle"]
  /\ op = [t \in Threads |-> None]
  /\ snap = [t \in Threads |-> <<>>]
  /\ fd = [t \in Threads |-> NoFile]
  /\ reply = [t \in Threads |-> "none"]
  /\ acked = [o \in Operations |-> 0]
  /\ asked = {} /\ started = 0

----------------------------------------------------------------------------
\* A gated work item that is a gap, or a human's promote or dismiss command.
Begin(t, o) ==
  /\ pc[t] = "idle" /\ started < MaxOps
  /\ started' = started + 1 /\ asked' = asked \cup {o}
  /\ pc' = [pc EXCEPT ![t] = "waiting"]
  /\ op' = [op EXCEPT ![t] = o]
  /\ reply' = [reply EXCEPT ![t] = "none"]
  /\ UNCHANGED <<files, lock, snap, fd, acked>>

\* The end of an operation, however it ends: the with statement frees the lock.
End(t, how) ==
  /\ pc' = [pc EXCEPT ![t] = "idle"]
  /\ op' = [op EXCEPT ![t] = None]
  /\ snap' = [snap EXCEPT ![t] = <<>>]
  /\ fd' = [fd EXCEPT ![t] = NoFile]
  /\ reply' = [reply EXCEPT ![t] = how]
  /\ UNCHANGED <<asked, started>>

\* promote checks its key and its layer before it takes the lock.
RefuseTarget(t) ==
  /\ pc[t] = "waiting"
  /\ op[t].kind = "promote" /\ op[t].target \notin Allowed
  /\ End(t, "refused")
  /\ UNCHANGED <<files, lock, acked>>

\* Mutant: the file is read without waiting for the lock.
ReadUnlocked(t) ==
  /\ pc[t] = "waiting"
  /\ op[t].kind = "promote" => op[t].target \in Allowed
  /\ UNCHANGED <<files, acked>>
  /\ IF Refuses(op[t], Contents)
     THEN End(t, "refused") /\ UNCHANGED lock
     ELSE /\ lock' = [lock EXCEPT ![ProcOf[t]] = t]
          /\ pc' = [pc EXCEPT ![t] = "open"]
          /\ snap' = [snap EXCEPT ![t] = Apply(op[t], Contents)]
          /\ UNCHANGED <<op, fd, reply, asked, started>>

\* with _LOCK: _read_all, then the change in memory or a refusal.
Read(t) ==
  /\ pc[t] = "waiting" /\ lock[ProcOf[t]] = None
  /\ op[t].kind = "promote" => op[t].target \in Allowed
  /\ UNCHANGED <<files, acked>>
  /\ IF Refuses(op[t], Contents)
     THEN End(t, "refused") /\ UNCHANGED lock
     ELSE /\ lock' = [lock EXCEPT ![ProcOf[t]] = t]
          /\ pc' = [pc EXCEPT ![t] = "open"]
          /\ snap' = [snap EXCEPT ![t] = Apply(op[t], Contents)]
          /\ UNCHANGED <<op, fd, reply, asked, started>>

\* Mutant: the temporary file is opened without emptying it.
OpenUntruncated(t) ==
  /\ pc[t] = "open"
  /\ tmp' = IF tmp = NoFile THEN Unused ELSE tmp
  /\ fd' = [fd EXCEPT ![t] = tmp']
  /\ pc' = [pc EXCEPT ![t] = "write"]
  /\ UNCHANGED <<main, data, lock, op, snap, reply, acked, asked, started>>

\* tmp.open("w"): creates the file, or truncates the one that is there.
OpenTmp(t) ==
  /\ pc[t] = "open"
  /\ tmp' = IF tmp = NoFile THEN Unused ELSE tmp
  /\ data' = [data EXCEPT ![tmp'] = <<>>]
  /\ fd' = [fd EXCEPT ![t] = tmp']
  /\ pc' = [pc EXCEPT ![t] = "write"]
  /\ UNCHANGED <<main, lock, op, snap, reply, acked, asked, started>>

WriteTmp(t) ==
  /\ pc[t] = "write"
  /\ \E d \in Overlay(snap[t], data[fd[t]]) :
       data' = [data EXCEPT ![fd[t]] = d]
  /\ pc' = [pc EXCEPT ![t] = "replace"]
  /\ UNCHANGED <<main, tmp, lock, op, snap, fd, reply, acked, asked, started>>

\* tmp.replace(path): moves whatever the temporary path names now, and raises
\* when another process has already moved it away.
Replace(t) ==
  /\ pc[t] = "replace"
  /\ lock' = [lock EXCEPT ![ProcOf[t]] = None]
  /\ IF tmp = NoFile
     THEN End(t, "failed") /\ UNCHANGED <<files, acked>>
     ELSE /\ main' = tmp /\ tmp' = NoFile
          /\ acked' = [acked EXCEPT ![op[t]] = @ + 1]
          /\ End(t, "ok") /\ UNCHANGED data

\* Mutant: a failed write leaves its thread holding the lock.
WriteFailsLocked(t) ==
  /\ pc[t] \in {"open", "write"}
  /\ End(t, "failed")
  /\ UNCHANGED <<files, lock, acked>>

\* Opening or writing the temporary file fails (no space, no permission).
WriteFails(t) ==
  /\ pc[t] \in {"open", "write"}
  /\ lock' = [lock EXCEPT ![ProcOf[t]] = None]
  /\ End(t, "failed")
  /\ UNCHANGED <<files, acked>>

\* A process is killed; the temporary file stays where it is.
Crash(p) ==
  LET down == {t \in Threads : ProcOf[t] = p}
  IN  /\ \E t \in down : pc[t] # "idle"
      /\ lock' = [lock EXCEPT ![p] = None]
      /\ pc' = [t \in Threads |-> IF t \in down THEN "idle" ELSE pc[t]]
      /\ op' = [t \in Threads |-> IF t \in down THEN None ELSE op[t]]
      /\ snap' = [t \in Threads |-> IF t \in down THEN <<>> ELSE snap[t]]
      /\ fd' = [t \in Threads |-> IF t \in down THEN NoFile ELSE fd[t]]
      /\ reply' = [t \in Threads |-> IF t \in down THEN "none" ELSE reply[t]]
      /\ UNCHANGED <<files, acked, asked, started>>

Step(t) ==
  RefuseTarget(t) \/ Read(t) \/ OpenTmp(t) \/ WriteTmp(t) \/ Replace(t)
    \/ WriteFails(t)

Next == \/ \E t \in Threads : Step(t) \/ \E o \in Operations : Begin(t, o)
        \/ \E p \in Procs : Crash(p)

Spec == Init /\ [][Next]_vars

\* A started operation keeps running; nobody has to start one, or crash.
FairSpec == Spec /\ \A t \in Threads : WF_vars(Step(t))

----------------------------------------------------------------------------
\* Every variable stays in its range.
TypeOK ==
  /\ main \in Inodes \cup {NoFile} /\ tmp \in Inodes \cup {NoFile}
  /\ data \in [Inodes -> Seq(Records)]
  /\ lock \in [Procs -> Threads \cup {None}]
  /\ pc \in [Threads -> {"idle", "waiting", "open", "write", "replace"}]
  /\ op \in [Threads -> Operations \cup {None}]
  /\ snap \in [Threads -> Seq(Records)]
  /\ fd \in [Threads -> Inodes \cup {NoFile}]
  /\ reply \in [Threads -> {"none", "ok", "refused", "failed"}]
  /\ acked \in [Operations -> Nat]
  /\ asked \subseteq Operations /\ started \in 0..MaxOps

\* A record is promoted or dismissed only because a human asked for exactly that,
\* whatever processes, crashes and half-written files did in between ("never
\* silently absorbed", governance_gate.py:241), and never into Tier A.
Sanctioned(rec, orders) ==
  \/ rec.status = "candidate"
  \/ /\ rec.status = "promoted" /\ rec.target \in Allowed
     /\ [kind |-> "promote", id |-> rec.id, target |-> rec.target] \in orders
  \/ /\ rec.status = "dismissed"
     /\ [kind |-> "dismiss", id |-> rec.id, target |-> Nowhere] \in orders

NeverSilentlyAbsorbed ==
  \A i \in DOMAIN Contents : Sanctioned(Contents[i], asked)

\* Repeated asks collapse: at most one open candidate per id (_candidate_id).
OneOpenPerId == \A id \in Ids : Cardinality(Open(Contents, id)) <= 1

\* The signals a list of records counts for an id: the k-th of its i-th record.
Signals(records, id) ==
  UNION {{i} \X (1..records[i].seen) :
           i \in {j \in DOMAIN records : records[j].id = id}}

\* Every signal record_work staged is counted once, in some record of its id.
EverySignalCounted ==
  \A id \in Ids :
    Cardinality(Signals(Contents, id))
      = acked[[kind |-> "work", id |-> id, target |-> Nowhere]]

\* A promotion or dismissal that reported success stays on record.
DecisionsDurable ==
  \A o \in Operations :
    o.kind # "work" =>
      Cardinality({i \in DOMAIN Contents :
        /\ Contents[i].id = o.id
        /\ Contents[i].status =
             IF o.kind = "promote" THEN "promoted" ELSE "dismissed"
        /\ Contents[i].target = o.target}) >= acked[o]

\* The file changes as the ledger does: one whole operation at a time.
Ledger == INSTANCE FeedbackLedger WITH ledger <- Contents

ImplementsLedger == Ledger!LSpec

\* An operation that was started ends, and with it its hold on the lock.
EveryOperationEnds == \A t \in Threads : pc[t] # "idle" ~> pc[t] = "idle"
=============================================================================
