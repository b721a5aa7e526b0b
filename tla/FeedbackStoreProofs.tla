------------------------- MODULE FeedbackStoreProofs -------------------------
(* What FeedbackStore keeps for any number of processes, threads, operations *)
(* and candidate ids: every variable stays in its range, and no record is    *)
(* promoted or dismissed unless a human asked for it.  Half-written temporary *)
(* files and snapshots become the file later, so the invariant covers them.  *)
(* And what it keeps as long as no two critical sections overlap, which the  *)
(* lock sees to within a process: the file changes as the ledger does, asks  *)
(* collapse, signals are counted and decisions last.                         *)
EXTENDS FeedbackStore, SequenceTheorems, FiniteSetTheorems, TLAPS

\* Every record of a list is one a human's operations account for.
AllSanctioned(records, orders) ==
  \A i \in DOMAIN records : Sanctioned(records[i], orders)

\* A thread at work carries out an operation that was asked for, and has a file
\* open for writing exactly between opening it and replacing the main one.
ThreadSound(t) ==
  /\ pc[t] # "idle" => op[t] \in asked
  /\ pc[t] \in {"open", "write", "replace"} /\ op[t].kind = "promote"
       => op[t].target \in Allowed
  /\ fd[t] # NoFile <=> pc[t] \in {"write", "replace"}

IInv ==
  /\ TypeOK
  /\ \A t \in Threads : ThreadSound(t) /\ AllSanctioned(snap[t], asked)
  /\ \A i \in Inodes : AllSanctioned(data[i], asked)

----------------------------------------------------------------------------
\* The operations on a list of records keep its type, and leave every record as it
\* was, open, or closed the way the operation says.
LEMMA UpsertType ==
  ASSUME NEW records \in Seq(Records), NEW id \in Ids
  PROVE  Upsert(records, id) \in Seq(Records)
<1>1. Fresh(id) \in Records
  BY DEF Fresh, Records
<1>2. ASSUME NEW rec \in Records PROVE [rec EXCEPT !.seen = @ + 1] \in Records
  <2>1. rec.seen + 1 \in Nat \ {0}
    BY DEF Records
  <2> QED
    BY <2>1, SMTT(30) DEF Records
<1>3. \A i \in 1..Len(records) : records[i] \in Records
  OBVIOUS
<1>4. CASE Open(records, id) # {}
  <2>1. Upsert(records, id) \in [1..Len(records) -> Records]
    BY <1>2, <1>3, <1>4 DEF Upsert
  <2> QED
    BY <2>1
<1> QED
  BY <1>1, <1>4 DEF Upsert

\* promote keeps a list of records one: every record stays as it was or becomes
\* a promoted one.
LEMMA PromoteType ==
  ASSUME NEW records \in Seq(Records), NEW id \in Ids, NEW target \in Allowed
  PROVE  Promote(records, id, target) \in Seq(Records)
<1>1. ASSUME NEW rec \in Records
      PROVE  [rec EXCEPT !.status = "promoted", !.target = target] \in Records
  BY DEF Records
<1>2. \A i \in 1..Len(records) : records[i] \in Records
  OBVIOUS
<1>3. Promote(records, id, target) \in [1..Len(records) -> Records]
  <2> DEFINE promoted(i) ==
               [records[i] EXCEPT !.status = "promoted", !.target = target]
  <2>1. \A i \in 1..Len(records) : promoted(i) \in Records
    BY <1>1, <1>2
  <2>2. Promote(records, id, target) =
          [i \in 1..Len(records) |->
             IF IsFirst(i, records, id) THEN promoted(i) ELSE records[i]]
    BY DEF Promote
  <2> HIDE DEF promoted
  <2> QED
    BY <1>2, <2>1, <2>2
<1> QED
  BY <1>3

\* dismiss keeps a list of records one.
LEMMA DismissType ==
  ASSUME NEW records \in Seq(Records), NEW id \in Ids
  PROVE  Dismiss(records, id) \in Seq(Records)
<1>1. ASSUME NEW rec \in Records
      PROVE  [rec EXCEPT !.status = "dismissed"] \in Records
  BY DEF Records
<1>2. \A i \in 1..Len(records) : records[i] \in Records
  OBVIOUS
<1>3. Dismiss(records, id) \in [1..Len(records) -> Records]
  BY <1>1, <1>2 DEF Dismiss
<1> QED
  BY <1>3

\* _upsert closes nothing: all that is closed after it was closed before.
LEMMA UpsertSanctioned ==
  ASSUME NEW records \in Seq(Records), NEW id \in Ids, NEW orders,
         AllSanctioned(records, orders)
  PROVE  AllSanctioned(Upsert(records, id), orders)
<1>1. \A i \in DOMAIN records : records[i] \in Records
  OBVIOUS
<1>2. CASE Open(records, id) = {}
  <2>1. Upsert(records, id) = Append(records, Fresh(id))
    BY <1>2 DEF Upsert
  <2>2. Sanctioned(Fresh(id), orders)
    BY DEF Fresh, Sanctioned
  <2> QED
    BY <2>1, <2>2 DEF AllSanctioned
<1>3. CASE Open(records, id) # {}
  BY <1>1, <1>3 DEF Upsert, AllSanctioned, Sanctioned, Records
<1> QED
  BY <1>2, <1>3

\* promote closes a record the way the order it carries out says.
LEMMA PromoteSanctioned ==
  ASSUME NEW records \in Seq(Records), NEW id \in Ids, NEW target \in Allowed,
         NEW orders, AllSanctioned(records, orders),
         [kind |-> "promote", id |-> id, target |-> target] \in orders
  PROVE  AllSanctioned(Promote(records, id, target), orders)
<1>1. DOMAIN Promote(records, id, target) = DOMAIN records
  BY DEF Promote
<1>2. SUFFICES ASSUME NEW i \in DOMAIN records
               PROVE  Sanctioned(Promote(records, id, target)[i], orders)
  BY <1>1 DEF AllSanctioned
<1>3. CASE IsFirst(i, records, id)
  <2>1. records[i] \in Records /\ records[i].id = id
    BY <1>3 DEF IsFirst, Open
  <2>2. Promote(records, id, target)[i] =
          [records[i] EXCEPT !.status = "promoted", !.target = target]
    BY <1>3 DEF Promote
  <2> QED
    BY <2>1, <2>2 DEF Sanctioned, Records
<1>4. CASE ~ IsFirst(i, records, id)
  BY <1>4 DEF Promote, AllSanctioned
<1> QED
  BY <1>3, <1>4

\* dismiss closes a record the way the order it carries out says.
LEMMA DismissSanctioned ==
  ASSUME NEW records \in Seq(Records), NEW id \in Ids,
         NEW orders, AllSanctioned(records, orders),
         [kind |-> "dismiss", id |-> id, target |-> Nowhere] \in orders
  PROVE  AllSanctioned(Dismiss(records, id), orders)
<1>1. DOMAIN Dismiss(records, id) = DOMAIN records
  BY DEF Dismiss
<1>2. SUFFICES ASSUME NEW i \in DOMAIN records
               PROVE  Sanctioned(Dismiss(records, id)[i], orders)
  BY <1>1 DEF AllSanctioned
<1>3. CASE IsFirst(i, records, id)
  <2>1. records[i] \in Records /\ records[i].id = id
    BY <1>3 DEF IsFirst, Open
  <2>2. Dismiss(records, id)[i] = [records[i] EXCEPT !.status = "dismissed"]
    BY <1>3 DEF Dismiss
  <2> QED
    BY <2>1, <2>2 DEF Sanctioned, Records
<1>4. CASE ~ IsFirst(i, records, id)
  BY <1>4 DEF Dismiss, AllSanctioned
<1> QED
  BY <1>3, <1>4

\* Every operation that passed its checks keeps a list of records one.
LEMMA ApplyType ==
  ASSUME NEW o \in Operations, NEW records \in Seq(Records),
         o.kind = "promote" => o.target \in Allowed
  PROVE  Apply(o, records) \in Seq(Records)
<1>1. o.id \in Ids /\ o.kind \in {"work", "promote", "dismiss"}
  BY DEF Operations
<1>2. CASE o.kind = "work"
  BY <1>1, <1>2, UpsertType DEF Apply
<1>3. CASE o.kind = "promote"
  BY <1>1, <1>3, PromoteType DEF Apply
<1>4. CASE o.kind = "dismiss"
  BY <1>1, <1>4, DismissType DEF Apply
<1> QED
  BY <1>1, <1>2, <1>3, <1>4

\* What a thread will write, given what it read and the operation it carries out.
LEMMA ApplySound ==
  ASSUME NEW o \in Operations, NEW records \in Seq(Records), NEW orders,
         o.kind = "promote" => o.target \in Allowed,
         o \in orders, AllSanctioned(records, orders)
  PROVE  /\ Apply(o, records) \in Seq(Records)
         /\ AllSanctioned(Apply(o, records), orders)
<1>1. CASE o.kind = "work"
  BY <1>1, UpsertType, UpsertSanctioned DEF Apply, Operations
<1>2. CASE o.kind = "promote"
  <2>1. /\ o = [kind |-> "promote", id |-> o.id, target |-> o.target]
        /\ o.id \in Ids
    BY <1>2 DEF Operations
  <2> QED
    BY <1>2, <2>1, PromoteType, PromoteSanctioned DEF Apply
<1>3. CASE o.kind = "dismiss"
  <2>1. /\ o = [kind |-> "dismiss", id |-> o.id, target |-> Nowhere]
        /\ o.id \in Ids
    BY <1>3 DEF Operations
  <2> QED
    BY <1>3, <2>1, DismissType, DismissSanctioned DEF Apply
<1> QED
  BY <1>1, <1>2, <1>3 DEF Operations

\* Two processes writing one temporary file mix records, and invent none.
LEMMA OverlaySound ==
  ASSUME NEW new \in Seq(Records), NEW old \in Seq(Records), NEW orders,
         AllSanctioned(new, orders), AllSanctioned(old, orders),
         NEW d \in Overlay(new, old)
  PROVE  d \in Seq(Records) /\ AllSanctioned(d, orders)
<1>1. CASE d = new
  BY <1>1
<1>2. CASE d # new
  <2>1. PICK k \in Len(new) + 1 .. Len(old) + 1 :
          d = new \o SubSeq(old, k, Len(old))
    BY <1>2 DEF Overlay
  <2> DEFINE rest == SubSeq(old, k, Len(old))
  <2>2. k \in Int /\ k >= 1 /\ Len(old) \in Int
    BY <2>1
  <2>3. /\ rest \in Seq(Records)
        /\ \A i \in DOMAIN rest : k + i - 1 \in DOMAIN old /\ rest[i] = old[k + i - 1]
    BY <2>2, SubSeqProperties
  <2>4. AllSanctioned(rest, orders)
    BY <2>3 DEF AllSanctioned
  <2>5. d = new \o rest
    BY <2>1
  <2> HIDE DEF rest
  <2>6. d \in Seq(Records) /\ Len(d) = Len(new) + Len(rest)
        /\ \A i \in 1..Len(d) :
             d[i] = IF i <= Len(new) THEN new[i] ELSE rest[i - Len(new)]
    BY <2>3, <2>5, ConcatProperties
  <2>7. ASSUME NEW i \in 1..Len(d) PROVE Sanctioned(d[i], orders)
    <3>1. CASE i <= Len(new)
      <4>1. i \in DOMAIN new /\ d[i] = new[i]
        BY <2>6, <3>1
      <4> QED
        BY <4>1 DEF AllSanctioned
    <3>2. CASE ~ (i <= Len(new))
      <4>1. i - Len(new) \in DOMAIN rest /\ d[i] = rest[i - Len(new)]
        BY <2>3, <2>6, <3>2
      <4> QED
        BY <2>4, <4>1 DEF AllSanctioned
    <3> QED
      BY <3>1, <3>2
  <2>8. DOMAIN d = 1..Len(d)
    BY <2>6
  <2> QED
    BY <2>6, <2>7, <2>8 DEF AllSanctioned
<1> QED
  BY <1>1, <1>2

----------------------------------------------------------------------------
\* There is always an inode to create the temporary file on: at most one per
\* thread is open, and one is named candidates.jsonl.
LEMMA FreshInode ==
  ASSUME TypeOK, tmp = NoFile
  PROVE  Unused \in Inodes /\ Unused # main /\ \A u \in Threads : fd[u] # Unused
<1> DEFINE n == Cardinality(Threads)
           InUse == {main, tmp} \cup {fd[u] : u \in Threads}
<1>1. n \in Nat /\ IsFiniteSet(Threads)
  BY FeedbackAssumption, FS_CardinalityType
<1>2. SUFFICES ASSUME \A i \in Inodes : i \in InUse PROVE FALSE
  <2>1. PICK i \in Inodes : i \notin InUse
    BY <1>2
  <2>2. Unused \in Inodes /\ Unused \notin InUse
    BY <2>1 DEF Unused
  <2> QED
    BY <2>2
<1> DEFINE holder == [i \in Inodes |->
                        IF i = main THEN None ELSE CHOOSE u \in Threads : fd[u] = i]
           Holders == Threads \cup {None}
<1>3. \A i \in Inodes : i # main => \E u \in Threads : fd[u] = i
  BY <1>2 DEF Inodes, NoFile
<1>4. holder \in [Inodes -> Holders]
  BY <1>3
<1>5. IsFiniteSet(Inodes) /\ Cardinality(Inodes) = n + 2
  BY <1>1, FS_Interval DEF Inodes
<1>6. IsFiniteSet(Holders) /\ Cardinality(Holders) = n + 1
  BY <1>1, FeedbackAssumption, FS_AddElement
<1>7. Cardinality(Holders) < Cardinality(Inodes)
  BY <1>1, <1>5, <1>6
<1>8. /\ \A k \in Inodes : k # main => holder[k] \in Threads /\ fd[holder[k]] = k
      /\ \A k \in Inodes : k = main => holder[k] = None
  BY <1>3
<1> HIDE DEF n, holder, Holders
<1>9. \E i, j \in Inodes : i # j /\ holder[i] = holder[j]
  BY <1>4, <1>5, <1>6, <1>7, FS_PigeonHole
<1> QED
  BY <1>8, <1>9, FeedbackAssumption

----------------------------------------------------------------------------
\* What a thread in its critical section has in hand.
LEMMA AtWork ==
  ASSUME IInv, NEW t \in Threads, pc[t] # "idle"
  PROVE  /\ op[t] \in Operations /\ op[t] \in asked
         /\ pc[t] \in {"write", "replace"} => fd[t] \in Inodes
         /\ Contents \in Seq(Records) /\ AllSanctioned(Contents, asked)
<1>1. op[t] \in asked /\ asked \subseteq Operations
  BY DEF IInv, ThreadSound, TypeOK
<1>2. pc[t] \in {"write", "replace"} => fd[t] \in Inodes
  BY DEF IInv, ThreadSound, TypeOK
<1>3. CASE main = NoFile
  BY <1>1, <1>2, <1>3, EmptySeq DEF Contents, AllSanctioned
<1>4. CASE main # NoFile
  BY <1>1, <1>2, <1>4 DEF IInv, TypeOK, Contents
<1> QED
  BY <1>3, <1>4

\* Type correctness of every step; the thread facts say what op and fd hold.
LEMMA TypeStep == ASSUME IInv, [Next]_vars PROVE TypeOK'
<1>0. TypeOK
  BY DEF IInv
<1>1. CASE UNCHANGED vars
  BY <1>0, <1>1 DEF vars, files, TypeOK
<1>2. ASSUME NEW p \in Procs, Crash(p) PROVE TypeOK'
  BY <1>0, <1>2, EmptySeq DEF Crash, files, TypeOK
<1>3. ASSUME NEW t \in Threads, NEW o \in Operations, Begin(t, o) PROVE TypeOK'
  BY <1>0, <1>3, FeedbackAssumption DEF Begin, files, TypeOK
<1>4. ASSUME NEW t \in Threads, NEW how \in {"ok", "refused", "failed"}, End(t, how)
      PROVE  /\ pc' \in [Threads -> {"idle", "waiting", "open", "write", "replace"}]
             /\ op' \in [Threads -> Operations \cup {None}]
             /\ snap' \in [Threads -> Seq(Records)]
             /\ fd' \in [Threads -> Inodes \cup {NoFile}]
             /\ reply' \in [Threads -> {"none", "ok", "refused", "failed"}]
             /\ asked' \subseteq Operations /\ started' \in 0..MaxOps
  BY <1>0, <1>4, EmptySeq DEF End, TypeOK
<1>5. ASSUME NEW t \in Threads, RefuseTarget(t) PROVE TypeOK'
  BY <1>0, <1>4, <1>5 DEF RefuseTarget, files, TypeOK
<1>6. ASSUME NEW t \in Threads, Read(t) PROVE TypeOK'
  <2>1. CASE Refuses(op[t], Contents)
    BY <1>0, <1>4, <1>6, <2>1 DEF Read, files, TypeOK
  <2>2. CASE ~ Refuses(op[t], Contents)
    <3>1. Apply(op[t], Contents) \in Seq(Records)
      BY <1>6, AtWork, ApplySound DEF Read
    <3>2. snap' \in [Threads -> Seq(Records)]
      BY <1>0, <1>6, <2>2, <3>1 DEF Read, TypeOK
    <3> QED
      BY <1>0, <1>6, <2>2, <3>2, FeedbackAssumption DEF Read, files, TypeOK
  <2> QED
    BY <2>1, <2>2
<1>7. ASSUME NEW t \in Threads, OpenTmp(t) PROVE TypeOK'
  <2>1. tmp' \in Inodes
    BY <1>0, <1>7, FreshInode DEF OpenTmp, TypeOK
  <2>2. data' \in [Inodes -> Seq(Records)]
    BY <1>0, <1>7, EmptySeq DEF OpenTmp, TypeOK
  <2> QED
    BY <1>0, <1>7, <2>1, <2>2 DEF OpenTmp, TypeOK
<1>8. ASSUME NEW t \in Threads, WriteTmp(t) PROVE TypeOK'
  <2>1. fd[t] \in Inodes /\ snap[t] \in Seq(Records) /\ data[fd[t]] \in Seq(Records)
        /\ AllSanctioned(snap[t], asked) /\ AllSanctioned(data[fd[t]], asked)
    BY <1>8, AtWork DEF WriteTmp, IInv, TypeOK
  <2>2. data' \in [Inodes -> Seq(Records)]
    BY <1>0, <1>8, <2>1, OverlaySound DEF WriteTmp, TypeOK
  <2> QED
    BY <1>0, <1>8, <2>2 DEF WriteTmp, TypeOK
<1>9. ASSUME NEW t \in Threads, Replace(t) PROVE TypeOK'
  <2>1. lock' \in [Procs -> Threads \cup {None}]
    BY <1>0, <1>9 DEF Replace, TypeOK
  <2>2. CASE tmp = NoFile
    BY <1>0, <1>4, <1>9, <2>1, <2>2 DEF Replace, files, TypeOK
  <2>3. CASE tmp # NoFile
    <3>1. acked' \in [Operations -> Nat]
      <4>1. acked' = [acked EXCEPT ![op[t]] = @ + 1] /\ pc[t] # "idle"
        BY <1>9, <2>3 DEF Replace
      <4>2. op[t] \in Operations
        BY <4>1, AtWork
      <4> QED
        BY <1>0, <4>1, <4>2 DEF TypeOK
    <3>2. main' \in Inodes \cup {NoFile} /\ tmp' \in Inodes \cup {NoFile}
          /\ data' \in [Inodes -> Seq(Records)]
      BY <1>0, <1>9, <2>3 DEF Replace, TypeOK
    <3>3. End(t, "ok")
      BY <1>9, <2>3 DEF Replace
    <3> QED
      BY <1>4, <2>1, <3>1, <3>2, <3>3 DEF TypeOK
  <2> QED
    BY <2>2, <2>3
<1>10. ASSUME NEW t \in Threads, WriteFails(t) PROVE TypeOK'
  BY <1>0, <1>4, <1>10 DEF WriteFails, files, TypeOK
<1> QED
  BY <1>1, <1>2, <1>3, <1>5, <1>6, <1>7, <1>8, <1>9, <1>10 DEF Next, Step

----------------------------------------------------------------------------
\* Orders are only ever added, and a record stays accounted for when they are.
LEMMA OrdersGrow == ASSUME IInv, [Next]_vars PROVE asked \subseteq asked'
BY DEF vars, files, Next, Step, Begin, RefuseTarget, Read, OpenTmp, WriteTmp, Replace,
       WriteFails, Crash, End

\* A record accounted for by some orders is accounted for by more.
LEMMA SanctionedGrows ==
  ASSUME NEW records, NEW A, NEW B, A \subseteq B, AllSanctioned(records, A)
  PROVE  AllSanctioned(records, B)
BY DEF AllSanctioned, Sanctioned

\* Every step keeps what a thread between two steps has in hand.
LEMMA ThreadStep ==
  ASSUME IInv, [Next]_vars, NEW u \in Threads PROVE ThreadSound(u)'
<1>0. TypeOK /\ ThreadSound(u) /\ asked \subseteq asked'
  BY OrdersGrow DEF IInv
<1>1. CASE pc'[u] = pc[u] /\ op'[u] = op[u] /\ fd'[u] = fd[u]
  BY <1>0, <1>1 DEF ThreadSound
<1>2. CASE pc'[u] = "idle" /\ fd'[u] = NoFile
  BY <1>2 DEF ThreadSound
<1> SUFFICES ASSUME NEW t \in Threads, t = u,
                    Step(t) \/ \E o \in Operations : Begin(t, o)
             PROVE  ThreadSound(t)'
  <2>1. CASE UNCHANGED vars
    BY <1>1, <2>1 DEF vars
  <2>2. ASSUME NEW p \in Procs, Crash(p) PROVE ThreadSound(u)'
    BY <1>1, <1>2, <2>2 DEF Crash
  <2>3. ASSUME NEW t \in Threads, t # u,
               Step(t) \/ \E o \in Operations : Begin(t, o)
        PROVE  pc'[u] = pc[u] /\ op'[u] = op[u] /\ fd'[u] = fd[u]
    BY <1>0, <2>3 DEF Step, Begin, RefuseTarget, Read, OpenTmp, WriteTmp, Replace,
         WriteFails, End, TypeOK
  <2> QED
    BY <1>1, <2>1, <2>2, <2>3 DEF Next
<1>3. ASSUME NEW how, End(t, how) PROVE pc'[t] = "idle" /\ fd'[t] = NoFile
  BY <1>0, <1>3 DEF End, TypeOK
<1>4. CASE \E o \in Operations : Begin(t, o)
  BY <1>0, <1>4 DEF Begin, TypeOK, ThreadSound
<1>5. CASE RefuseTarget(t)
  BY <1>2, <1>3, <1>5 DEF RefuseTarget
<1>6. CASE Read(t)
  <2>1. CASE Refuses(op[t], Contents)
    BY <1>2, <1>3, <1>6, <2>1 DEF Read
  <2>2. CASE ~ Refuses(op[t], Contents)
    BY <1>0, <1>6, <2>2 DEF Read, TypeOK, ThreadSound
  <2> QED
    BY <2>1, <2>2
<1>7. CASE OpenTmp(t)
  <2>1. fd'[t] \in Inodes
    BY <1>0, <1>7, FreshInode DEF OpenTmp, TypeOK
  <2> QED
    BY <1>0, <1>7, <2>1 DEF OpenTmp, TypeOK, ThreadSound, Inodes, NoFile
<1>8. CASE WriteTmp(t)
  BY <1>0, <1>8 DEF WriteTmp, TypeOK, ThreadSound
<1>9. CASE Replace(t)
  BY <1>2, <1>3, <1>9 DEF Replace
<1>10. CASE WriteFails(t)
  BY <1>2, <1>3, <1>10 DEF WriteFails
<1> QED
  BY <1>4, <1>5, <1>6, <1>7, <1>8, <1>9, <1>10 DEF Step

\* Every inode holds sanctioned records: a new one, one a thread wrote to.
LEMMA DataStep ==
  ASSUME IInv, [Next]_vars, NEW i \in Inodes PROVE AllSanctioned(data'[i], asked')
<1>0. TypeOK /\ AllSanctioned(data[i], asked) /\ asked \subseteq asked'
  BY OrdersGrow DEF IInv
<1>1. CASE data'[i] = data[i]
  BY <1>0, <1>1, SanctionedGrows
<1>2. CASE data'[i] # data[i]
  <2>1. PICK t \in Threads : OpenTmp(t) \/ WriteTmp(t)
    BY <1>2 DEF vars, files, Next, Step, Begin, RefuseTarget, Read, Replace,
                WriteFails, Crash
  <2>2. CASE OpenTmp(t)
    <3>1. data'[i] = <<>>
      BY <1>0, <1>2, <2>2 DEF OpenTmp, TypeOK
    <3> QED
      BY <3>1 DEF AllSanctioned
  <2>3. CASE WriteTmp(t)
    <3>1. /\ fd[t] = i /\ snap[t] \in Seq(Records) /\ data[i] \in Seq(Records)
          /\ AllSanctioned(snap[t], asked)
      BY <1>0, <1>2, <2>3 DEF WriteTmp, IInv, TypeOK
    <3>2. data'[i] \in Overlay(snap[t], data[i])
      BY <1>0, <2>3, <3>1 DEF WriteTmp, TypeOK
    <3>3. AllSanctioned(data'[i], asked)
      BY <1>0, <3>1, <3>2, OverlaySound
    <3> QED
      BY <1>0, <3>3, SanctionedGrows
  <2> QED
    BY <2>1, <2>2, <2>3
<1> QED
  BY <1>1, <1>2

\* What a thread is about to write stays sanctioned.
LEMMA SnapStep ==
  ASSUME IInv, [Next]_vars, NEW u \in Threads PROVE AllSanctioned(snap'[u], asked')
<1>0. TypeOK /\ AllSanctioned(snap[u], asked) /\ asked \subseteq asked'
  BY OrdersGrow DEF IInv
<1>1. CASE snap'[u] = snap[u]
  BY <1>0, <1>1, SanctionedGrows
<1>2. CASE snap'[u] = <<>>
  BY <1>2 DEF AllSanctioned
<1>3. ASSUME Read(u), ~ Refuses(op[u], Contents)
      PROVE  AllSanctioned(snap'[u], asked')
  <2>1. snap'[u] = Apply(op[u], Contents) /\ pc[u] # "idle"
    BY <1>0, <1>3 DEF Read, TypeOK
  <2>2. op[u].kind = "promote" => op[u].target \in Allowed
    BY <1>3 DEF Read
  <2>3. AllSanctioned(Apply(op[u], Contents), asked)
    BY <2>1, <2>2, AtWork, ApplySound
  <2> QED
    BY <1>0, <2>1, <2>3, SanctionedGrows
<1>4. ASSUME NEW t \in Threads, NEW how, End(t, how)
      PROVE  snap'[u] \in {snap[u], <<>>}
  BY <1>0, <1>4 DEF End, TypeOK
<1>5. ASSUME NEW t \in Threads, Read(t), t # u \/ Refuses(op[t], Contents)
      PROVE  snap'[u] \in {snap[u], <<>>}
  <2>1. CASE Refuses(op[t], Contents)
    BY <1>4, <1>5, <2>1 DEF Read
  <2>2. CASE ~ Refuses(op[t], Contents)
    BY <1>0, <1>5, <2>2 DEF Read, TypeOK
  <2> QED
    BY <2>1, <2>2
<1>6. ASSUME NEW t \in Threads, Replace(t) PROVE snap'[u] \in {snap[u], <<>>}
  BY <1>4, <1>6 DEF Replace
<1>7. ASSUME NEW t \in Threads, RefuseTarget(t) \/ WriteFails(t)
      PROVE  snap'[u] \in {snap[u], <<>>}
  BY <1>4, <1>7 DEF RefuseTarget, WriteFails
<1>8. ASSUME NEW p \in Procs, Crash(p) PROVE snap'[u] \in {snap[u], <<>>}
  BY <1>8 DEF Crash
<1>9. ASSUME NEW t \in Threads,
             OpenTmp(t) \/ WriteTmp(t) \/ \E o \in Operations : Begin(t, o)
      PROVE  snap'[u] = snap[u]
  BY <1>9 DEF OpenTmp, WriteTmp, Begin
<1>10. CASE UNCHANGED vars
  BY <1>1, <1>10 DEF vars
<1> QED
  BY <1>1, <1>2, <1>3, <1>5, <1>6, <1>7, <1>8, <1>9, <1>10 DEF Next, Step

\* The invariant holds before the first operation.
LEMMA InitInv == ASSUME Init PROVE IInv
<1>1. TypeOK
  BY FeedbackAssumption, EmptySeq DEF Init, TypeOK
<1>2. ASSUME NEW t \in Threads
      PROVE  ThreadSound(t) /\ AllSanctioned(snap[t], asked)
  BY DEF Init, ThreadSound, AllSanctioned
<1>3. ASSUME NEW i \in Inodes PROVE AllSanctioned(data[i], asked)
  BY DEF Init, AllSanctioned
<1> QED
  BY <1>1, <1>2, <1>3 DEF IInv

\* The inductive invariant: whatever may become the file later is sanctioned now.
THEOREM Invariance == Spec => []IInv
<1>1. IInv /\ [Next]_vars => IInv'
  BY TypeStep, ThreadStep, DataStep, SnapStep DEF IInv
<1> QED
  BY InitInv, <1>1, PTL DEF Spec

----------------------------------------------------------------------------
\* Type correctness, for any number of processes and threads.
THEOREM TypeCorrect == Spec => []TypeOK
BY Invariance, PTL DEF IInv

\* Nothing is promoted or dismissed without a human's command, and nothing is ever
\* promoted to Tier A, in any number of processes that crash and overwrite each
\* other's temporary file (promote's checks; "never silently absorbed").
THEOREM HumanInTheLoop == Spec => []NeverSilentlyAbsorbed
<1>1. IInv => NeverSilentlyAbsorbed
  <2> SUFFICES ASSUME IInv PROVE AllSanctioned(Contents, asked)
    BY DEF NeverSilentlyAbsorbed, AllSanctioned
  <2>1. CASE main = NoFile
    BY <2>1 DEF Contents, AllSanctioned
  <2>2. CASE main # NoFile
    BY <2>2 DEF IInv, TypeOK, Contents
  <2> QED
    BY <2>1, <2>2
<1> QED
  BY <1>1, Invariance, PTL
----------------------------------------------------------------------------
(* What the lock does: whoever is in a critical section has the lock of its   *)
(* process, and a lock that is taken is at work.                              *)

Critical(t) == pc[t] \in {"open", "write", "replace"}

LockSound ==
  /\ \A t \in Threads : Critical(t) => lock[ProcOf[t]] = t
  /\ \A p \in Procs : lock[p] # None => Critical(lock[p]) /\ ProcOf[lock[p]] = p

\* Every step hands the lock on as it should: failures and crashes free it.
LEMMA LockStep == ASSUME IInv, LockSound, [Next]_vars PROVE LockSound'
<1>0. /\ TypeOK /\ ProcOf \in [Threads -> Procs] /\ None \notin Threads
  BY FeedbackAssumption DEF IInv
<1>1. ASSUME pc' = pc, lock' = lock PROVE LockSound'
  BY <1>1 DEF LockSound, Critical
<1>2. ASSUME NEW t \in Threads, lock' = lock, ~ Critical(t),
             \E s \in {"idle", "waiting"} : pc' = [pc EXCEPT ![t] = s]
      PROVE  LockSound'
  BY <1>0, <1>2 DEF LockSound, Critical, TypeOK
<1>3. ASSUME NEW t \in Threads, lock' = lock, Critical(t),
             \E s \in {"write", "replace"} : pc' = [pc EXCEPT ![t] = s]
      PROVE  LockSound'
  BY <1>0, <1>3 DEF LockSound, Critical, TypeOK
<1>4. ASSUME NEW t \in Threads, Critical(t), pc' = [pc EXCEPT ![t] = "idle"],
             lock' = [lock EXCEPT ![ProcOf[t]] = None]
      PROVE  LockSound'
  <2>1. ASSUME NEW u \in Threads, Critical(u)' PROVE lock'[ProcOf[u]] = u
    <3>1. u # t /\ Critical(u)
      BY <1>0, <1>4, <2>1 DEF Critical, TypeOK
    <3>2. ProcOf[u] # ProcOf[t]
      BY <1>4, <3>1 DEF LockSound
    <3> QED
      BY <1>0, <1>4, <3>1, <3>2 DEF LockSound, TypeOK
  <2>2. ASSUME NEW p \in Procs, lock'[p] # None
        PROVE  Critical(lock[p])' /\ lock'[p] = lock[p] /\ ProcOf[lock[p]] = p
    <3>1. p # ProcOf[t] /\ lock'[p] = lock[p] /\ lock[p] \in Threads
      BY <1>0, <1>4, <2>2 DEF TypeOK
    <3>2. Critical(lock[p]) /\ ProcOf[lock[p]] = p /\ lock[p] # t
      BY <2>2, <3>1 DEF LockSound
    <3>3. pc'[lock[p]] = pc[lock[p]]
      BY <1>0, <1>4, <3>1, <3>2 DEF TypeOK
    <3> QED
      BY <3>1, <3>2, <3>3 DEF Critical
  <2> QED
    BY <2>1, <2>2 DEF LockSound, Critical
<1>5. ASSUME NEW t \in Threads, lock[ProcOf[t]] = None, pc' = [pc EXCEPT ![t] = "open"],
             lock' = [lock EXCEPT ![ProcOf[t]] = t]
      PROVE  LockSound'
  <2>1. ASSUME NEW u \in Threads, Critical(u)' PROVE lock'[ProcOf[u]] = u
    <3>1. CASE u = t
      BY <1>0, <1>5, <3>1 DEF TypeOK
    <3>2. CASE u # t
      <4>1. Critical(u)
        BY <1>0, <1>5, <2>1, <3>2 DEF Critical, TypeOK
      <4>2. ProcOf[u] # ProcOf[t]
        BY <1>0, <1>5, <4>1 DEF LockSound
      <4> QED
        BY <1>0, <1>5, <4>1, <4>2 DEF LockSound, TypeOK
    <3> QED
      BY <3>1, <3>2
  <2>2. ASSUME NEW p \in Procs, lock'[p] # None
        PROVE  Critical(lock[p])' \/ (lock'[p] = t /\ p = ProcOf[t])
    <3>1. CASE p = ProcOf[t]
      BY <1>0, <1>5, <3>1 DEF TypeOK
    <3>2. CASE p # ProcOf[t]
      <4>1. lock'[p] = lock[p] /\ lock[p] \in Threads /\ Critical(lock[p])
            /\ ProcOf[lock[p]] = p
        BY <1>0, <1>5, <2>2, <3>2 DEF TypeOK, LockSound
      <4>2. pc'[lock[p]] = pc[lock[p]]
        BY <1>0, <1>5, <3>2, <4>1 DEF TypeOK
      <4> QED
        BY <4>1, <4>2 DEF Critical
    <3> QED
      BY <3>1, <3>2
  <2> QED
    BY <1>0, <1>5, <2>1, <2>2 DEF LockSound, Critical, TypeOK
<1>6. ASSUME NEW t \in Threads, NEW o \in Operations, Begin(t, o) PROVE LockSound'
  BY <1>2, <1>6 DEF Begin, Critical
<1>7. ASSUME NEW t \in Threads, RefuseTarget(t) PROVE LockSound'
  BY <1>2, <1>7 DEF RefuseTarget, End, Critical
<1>8. ASSUME NEW t \in Threads, Read(t) PROVE LockSound'
  <2>1. CASE Refuses(op[t], Contents)
    BY <1>2, <1>8, <2>1 DEF Read, End, Critical
  <2>2. CASE ~ Refuses(op[t], Contents)
    BY <1>5, <1>8, <2>2 DEF Read
  <2> QED
    BY <2>1, <2>2
<1>9. ASSUME NEW t \in Threads, OpenTmp(t) \/ WriteTmp(t) PROVE LockSound'
  BY <1>3, <1>9 DEF OpenTmp, WriteTmp, Critical
<1>10. ASSUME NEW t \in Threads, Replace(t) \/ WriteFails(t) PROVE LockSound'
  BY <1>4, <1>10 DEF Replace, WriteFails, End, Critical
<1>11. ASSUME NEW p \in Procs, Crash(p) PROVE LockSound'
  <2>1. /\ lock' = [lock EXCEPT ![p] = None]
        /\ \A u \in Threads : pc'[u] = IF ProcOf[u] = p THEN "idle" ELSE pc[u]
    BY <1>11 DEF Crash
  <2>2. ASSUME NEW u \in Threads, Critical(u)' PROVE lock'[ProcOf[u]] = u
    BY <1>0, <2>1, <2>2 DEF LockSound, Critical, TypeOK
  <2>3. ASSUME NEW q \in Procs, lock'[q] # None
        PROVE  Critical(lock[q])' /\ lock'[q] = lock[q] /\ ProcOf[lock[q]] = q
    <3>1. q # p /\ lock'[q] = lock[q] /\ lock[q] \in Threads
      BY <1>0, <2>1, <2>3 DEF TypeOK
    <3> QED
      BY <2>1, <2>3, <3>1 DEF LockSound, Critical
  <2> QED
    BY <2>2, <2>3 DEF LockSound, Critical
<1>12. CASE UNCHANGED vars
  BY <1>1, <1>12 DEF vars
<1> QED
  BY <1>6, <1>7, <1>8, <1>9, <1>10, <1>11, <1>12 DEF Next, Step

\* No lock is ever left behind: in any number of processes, whatever fails or is
\* killed, a thread that waits for a lock waits for a thread at work (_LOCK and its
\* with blocks).  It is the safety half of EveryOperationEnds.
THEOREM LockIsWorked == Spec => []LockSound
<1>1. Init => LockSound
  BY DEF Init, LockSound, Critical
<1>2. IInv /\ LockSound /\ [Next]_vars => LockSound'
  BY LockStep
<1> QED
  BY Invariance, <1>1, <1>2, PTL DEF Spec

\* Steps an operation still has before it at most.
StepsLeft(t) ==
  [idle |-> 0, waiting |-> 4, open |-> 3, write |-> 2, replace |-> 1][pc[t]]

\* Every step of an operation brings it closer to its end and nobody else's step,
\* not even the death of its process, takes it back: with LockIsWorked, all of
\* EveryOperationEnds but the fairness (record_work, promote, dismiss).
THEOREM OperationsAdvance ==
  Spec => [][\A t \in Threads :
               /\ pc[t] # "idle" => StepsLeft(t)' <= StepsLeft(t)
               /\ Step(t) => StepsLeft(t)' < StepsLeft(t)]_vars
<1>1. ASSUME IInv, [Next]_vars
      PROVE  [\A t \in Threads :
               /\ pc[t] # "idle" => StepsLeft(t)' <= StepsLeft(t)
               /\ Step(t) => StepsLeft(t)' < StepsLeft(t)]_vars
  <2> SUFFICES ASSUME Next, NEW t \in Threads
               PROVE  /\ pc[t] # "idle" => StepsLeft(t)' <= StepsLeft(t)
                      /\ Step(t) => StepsLeft(t)' < StepsLeft(t)
    BY <1>1
  <2>0. TypeOK /\ StepsLeft(t) \in 0..4
    BY <1>1 DEF IInv, TypeOK, StepsLeft
  <2>1. CASE Step(t)
    <3>1. /\ pc[t] \in {"waiting", "open", "write", "replace"}
          /\ \/ pc'[t] = "idle"
             \/ pc[t] = "waiting" /\ pc'[t] = "open"
             \/ pc[t] = "open" /\ pc'[t] = "write"
             \/ pc[t] = "write" /\ pc'[t] = "replace"
      BY <2>0, <2>1 DEF Step, RefuseTarget, Read, OpenTmp, WriteTmp, Replace,
                        WriteFails, End, TypeOK
    <3> QED
      BY <2>0, <3>1 DEF StepsLeft
  <2>2. CASE ~ Step(t)
    <3>1. ASSUME NEW u \in Threads, u # t, Step(u) \/ \E o \in Operations : Begin(u, o)
          PROVE  pc'[t] = pc[t]
      BY <2>0, <3>1 DEF Step, RefuseTarget, Read, OpenTmp, WriteTmp, Replace,
                        WriteFails, End, Begin, TypeOK
    <3>2. ASSUME NEW p \in Procs, Crash(p)
          PROVE  pc'[t] \in {pc[t], "idle"}
      BY <3>2 DEF Crash
    <3>3. ASSUME NEW o \in Operations, Begin(t, o) PROVE pc[t] = "idle"
      BY <3>3 DEF Begin
    <3>4. pc[t] # "idle" => pc'[t] \in {pc[t], "idle"}
      BY <2>2, <3>1, <3>2, <3>3 DEF Next
    <3> QED
      BY <2>0, <2>2, <3>4 DEF StepsLeft
  <2> QED
    BY <2>1, <2>2
<1> QED
  BY Invariance, <1>1, PTL DEF Spec

----------------------------------------------------------------------------
(* What holds while no two critical sections overlap: the file changes as the *)
(* ledger does, and what the ledger keeps, the file keeps.  The lock sees to  *)
(* it in one process; between processes it is up to whoever starts them, and  *)
(* when they do overlap all of it fails.                                      *)

NeverOverlap ==
  \A t, u \in Threads : Critical(t) /\ Critical(u) => t = u

\* One process, so that every thread waits for the same lock.
SharedLock == \A t, u \in Threads : ProcOf[t] = ProcOf[u]

\* The lock admits one thread of its process at a time.
THEOREM OneAtATime == ASSUME SharedLock PROVE Spec => []NeverOverlap
<1>1. LockSound => NeverOverlap
  BY DEF SharedLock, LockSound, NeverOverlap
<1> QED
  BY LockIsWorked, <1>1, PTL

\* What a thread between reading the file and renaming will write is its operation
\* applied to the file as it still is; and the temporary file is the one it opened,
\* empty until it is written and then exactly that.
InTurn(t) ==
  Critical(t) =>
    /\ snap[t] = Apply(op[t], Contents) /\ ~ Refuses(op[t], Contents)
    /\ pc[t] \in {"write", "replace"} => fd[t] = tmp
    /\ pc[t] = "write" => data[tmp] = <<>>
    /\ pc[t] = "replace" => data[tmp] = snap[t]

Serial ==
  /\ tmp # NoFile => tmp # main
  /\ \A t \in Threads : InTurn(t)

\* Nothing is left behind when an empty file is written.
LEMMA OverlayEmpty ==
  ASSUME NEW new \in Seq(Records), NEW d \in Overlay(new, <<>>) PROVE d = new
<1>1. CASE d # new
  <2>1. PICK k \in Len(new) + 1 .. Len(<<>>) + 1 :
          d = new \o SubSeq(<<>>, k, Len(<<>>))
    BY <1>1 DEF Overlay
  <2>2. Len(<<>>) = 0 /\ Len(new) \in Nat
    BY LenProperties, EmptySeq
  <2>3. new = <<>> /\ k = 1
    BY <2>1, <2>2, EmptySeq
  <2>4. SubSeq(<<>>, 1, 0) = <<>>
    OBVIOUS
  <2> QED
    BY <1>1, <2>1, <2>2, <2>3, <2>4
<1> QED
  BY <1>1

\* Only a rename changes what the file holds, or acknowledges an operation; and it
\* puts there what the operation makes of the file.
LEMMA ContentsStep ==
  ASSUME IInv, Serial, [Next]_vars
  PROVE  \/ Contents' = Contents /\ acked' = acked
         \/ \E t \in Threads :
              /\ pc[t] = "replace" /\ op[t] \in Operations
              /\ op[t].kind = "promote" => op[t].target \in Allowed
              /\ ~ Refuses(op[t], Contents)
              /\ Contents' = Apply(op[t], Contents)
              /\ acked' = [acked EXCEPT ![op[t]] = @ + 1]
<1>0. TypeOK
  BY DEF IInv
<1>1. CASE UNCHANGED <<files, acked>>
  BY <1>1 DEF files, Contents
<1>2. ASSUME NEW t \in Threads, OpenTmp(t)
      PROVE  Contents' = Contents /\ acked' = acked
  <2>1. main' = main /\ acked' = acked /\ data' = [data EXCEPT ![tmp'] = <<>>]
    BY <1>2 DEF OpenTmp
  <2>2. tmp' # main
    BY <1>0, <1>2, FreshInode DEF OpenTmp, Serial
  <2> QED
    BY <1>0, <2>1, <2>2 DEF Contents, TypeOK
<1>3. ASSUME NEW t \in Threads, WriteTmp(t)
      PROVE  Contents' = Contents /\ acked' = acked
  <2>1. main' = main /\ acked' = acked /\ \E d : data' = [data EXCEPT ![fd[t]] = d]
    BY <1>3 DEF WriteTmp
  <2>2. fd[t] = tmp /\ tmp # NoFile
    BY <1>3 DEF WriteTmp, Serial, InTurn, Critical, IInv, ThreadSound
  <2>3. fd[t] # main
    BY <2>2 DEF Serial
  <2> QED
    BY <1>0, <2>1, <2>3 DEF Contents, TypeOK
<1>4. ASSUME NEW t \in Threads, Replace(t), tmp # NoFile
      PROVE  /\ pc[t] = "replace" /\ op[t] \in Operations
             /\ op[t].kind = "promote" => op[t].target \in Allowed
             /\ ~ Refuses(op[t], Contents)
             /\ Contents' = Apply(op[t], Contents)
             /\ acked' = [acked EXCEPT ![op[t]] = @ + 1]
  <2>1. /\ pc[t] = "replace" /\ main' = tmp /\ data' = data
        /\ acked' = [acked EXCEPT ![op[t]] = @ + 1]
    BY <1>4 DEF Replace
  <2>2. op[t] \in Operations
    BY <2>1, AtWork
  <2>3. op[t].kind = "promote" => op[t].target \in Allowed
    BY <2>1 DEF IInv, ThreadSound
  <2>4. /\ ~ Refuses(op[t], Contents)
        /\ data[tmp] = Apply(op[t], Contents)
    BY <2>1 DEF Serial, InTurn, Critical
  <2>5. Contents' = data[tmp]
    BY <1>4, <2>1 DEF Contents
  <2> QED
    BY <2>1, <2>2, <2>3, <2>4, <2>5
<1>5. ASSUME NEW t \in Threads, Replace(t), tmp = NoFile
      PROVE  UNCHANGED <<files, acked>>
  BY <1>5 DEF Replace
<1>6. ASSUME NEW t \in Threads,
             RefuseTarget(t) \/ Read(t) \/ WriteFails(t)
               \/ \E o \in Operations : Begin(t, o)
      PROVE  UNCHANGED <<files, acked>>
  BY <1>6 DEF RefuseTarget, Read, WriteFails, Begin
<1>7. ASSUME NEW p \in Procs, Crash(p) PROVE UNCHANGED <<files, acked>>
  BY <1>7 DEF Crash
<1>8. CASE UNCHANGED vars
  BY <1>8 DEF vars, files, Contents
<1>9. ASSUME NEW t \in Threads, Replace(t), UNCHANGED <<files, acked>>
      PROVE  Contents' = Contents /\ acked' = acked
  BY <1>9 DEF files, Contents
<1>10. CASE \E t \in Threads : Replace(t)
  BY <1>4, <1>5, <1>9, <1>10
<1>11. CASE \E t \in Threads : OpenTmp(t) \/ WriteTmp(t)
  BY <1>2, <1>3, <1>11
<1>12. CASE \/ \E p \in Procs : Crash(p)
            \/ \E t \in Threads : RefuseTarget(t) \/ Read(t) \/ WriteFails(t)
                                    \/ \E o \in Operations : Begin(t, o)
  BY <1>1, <1>6, <1>7, <1>12
<1> QED
  BY <1>8, <1>10, <1>11, <1>12 DEF Next, Step

\* The temporary name and the file's name never name one inode.
LEMMA NamesApart ==
  ASSUME IInv, Serial, [Next]_vars PROVE tmp' # NoFile => tmp' # main'
<1>1. CASE UNCHANGED <<main, tmp>>
  BY <1>1 DEF Serial
<1>2. ASSUME NEW t \in Threads, OpenTmp(t) PROVE tmp' # main'
  BY <1>2, FreshInode DEF OpenTmp, Serial, IInv
<1>3. ASSUME NEW t \in Threads, Replace(t), tmp # NoFile PROVE tmp' = NoFile
  BY <1>3 DEF Replace
<1>4. ASSUME NEW t \in Threads, Replace(t), tmp = NoFile
      PROVE  UNCHANGED <<main, tmp>>
  BY <1>4 DEF Replace, files
<1>5. ASSUME NEW t \in Threads,
             RefuseTarget(t) \/ Read(t) \/ WriteTmp(t) \/ WriteFails(t)
               \/ \E o \in Operations : Begin(t, o)
      PROVE  UNCHANGED <<main, tmp>>
  BY <1>5 DEF RefuseTarget, Read, WriteTmp, WriteFails, Begin, files
<1>6. ASSUME NEW p \in Procs, Crash(p) PROVE UNCHANGED <<main, tmp>>
  BY <1>6 DEF Crash, files
<1>7. CASE UNCHANGED vars
  BY <1>1, <1>7 DEF vars, files
<1> QED
  BY <1>1, <1>2, <1>3, <1>4, <1>5, <1>6, <1>7 DEF Next, Step

\* What a thread has in its critical section survives every step, its own included.
LEMMA InTurnStep ==
  ASSUME IInv, Serial, NeverOverlap, NeverOverlap', [Next]_vars, NEW u \in Threads
  PROVE  InTurn(u)'
<1> DEFINE critical == {"open", "write", "replace"}
<1>0. /\ TypeOK /\ InTurn(u) /\ ProcOf \in [Threads -> Procs]
      /\ \A t \in Threads : pc[t] \in critical /\ pc[u] \in critical => t = u
      /\ \A t \in Threads : pc'[t] \in critical /\ pc'[u] \in critical => t = u
  BY FeedbackAssumption DEF IInv, Serial, NeverOverlap, Critical
<1>1. CASE pc'[u] \notin critical
  BY <1>1 DEF InTurn, Critical
<1>2. CASE /\ pc'[u] = pc[u] /\ op'[u] = op[u] /\ snap'[u] = snap[u]
           /\ fd'[u] = fd[u]
           /\ tmp' = tmp /\ data' = data /\ Contents' = Contents
  BY <1>0, <1>2 DEF InTurn, Critical, Refuses
<1>3. ASSUME NEW t \in Threads, t # u, pc[t] \in critical,
             Step(t)
      PROVE  pc'[u] \notin critical
  <2>1. pc[u] \notin critical
    BY <1>0, <1>3
  <2>2. pc'[u] = pc[u]
    BY <1>0, <1>3 DEF Step, RefuseTarget, Read, OpenTmp, WriteTmp, Replace, WriteFails,
         End, TypeOK
  <2> QED
    BY <2>1, <2>2
<1>4. ASSUME NEW t \in Threads, NEW o \in Operations, Begin(t, o) PROVE InTurn(u)'
  <2>1. CASE t = u
    BY <1>0, <1>1, <1>4, <2>1 DEF Begin, TypeOK
  <2>2. CASE t # u
    BY <1>0, <1>2, <1>4, <2>2 DEF Begin, TypeOK, files, Contents
  <2> QED
    BY <2>1, <2>2
<1>5. ASSUME NEW t \in Threads, RefuseTarget(t) PROVE InTurn(u)'
  <2>1. CASE t = u
    BY <1>0, <1>1, <1>5, <2>1 DEF RefuseTarget, End, TypeOK
  <2>2. CASE t # u
    BY <1>0, <1>2, <1>5, <2>2 DEF RefuseTarget, End, TypeOK, files, Contents
  <2> QED
    BY <2>1, <2>2
<1>6. ASSUME NEW t \in Threads, Read(t) PROVE InTurn(u)'
  <2>0. Contents' = Contents /\ tmp' = tmp /\ data' = data
    BY <1>6 DEF Read, files, Contents
  <2>1. CASE Refuses(op[t], Contents)
    <3>1. End(t, "refused") /\ lock' = lock
      BY <1>6, <2>1 DEF Read
    <3>2. CASE t = u
      BY <1>0, <1>1, <3>1, <3>2 DEF End, TypeOK
    <3>3. CASE t # u
      BY <1>0, <1>2, <2>0, <3>1, <3>3 DEF End, TypeOK
    <3> QED
      BY <3>2, <3>3
  <2>2. CASE ~ Refuses(op[t], Contents)
    <3>1. /\ pc' = [pc EXCEPT ![t] = "open"]
          /\ snap' = [snap EXCEPT ![t] = Apply(op[t], Contents)]
          /\ op' = op
      BY <1>6, <2>2 DEF Read
    <3>2. CASE t = u
      <4>1. pc'[u] = "open" /\ op'[u] = op[u] /\ snap'[u] = Apply(op[u], Contents)
        BY <1>0, <3>1, <3>2 DEF TypeOK
      <4> QED
        BY <2>0, <2>2, <3>2, <4>1 DEF InTurn, Critical, Refuses
    <3>3. CASE t # u
      <4>1. pc'[t] \in critical
        BY <1>0, <3>1 DEF TypeOK
      <4> QED
        BY <1>0, <1>1, <3>3, <4>1
    <3> QED
      BY <3>2, <3>3
  <2> QED
    BY <2>1, <2>2
<1>7. ASSUME OpenTmp(u) PROVE InTurn(u)'
  <2>1. /\ pc[u] = "open" /\ pc'[u] = "write" /\ fd'[u] = tmp' /\ tmp' \in Inodes
        /\ data'[tmp'] = <<>> /\ op' = op /\ snap' = snap
        /\ acked' = acked
    BY <1>0, <1>7, FreshInode DEF OpenTmp, TypeOK
  <2>2. Contents' = Contents
    <3>1. tmp' # main /\ main' = main /\ data' = [data EXCEPT ![tmp'] = <<>>]
      BY <1>0, <1>7, FreshInode DEF OpenTmp, Serial
    <3> QED
      BY <1>0, <3>1 DEF Contents, TypeOK
  <2> QED
    BY <1>0, <2>1, <2>2 DEF InTurn, Critical, Refuses
<1>8. ASSUME WriteTmp(u) PROVE InTurn(u)'
  <2>1. /\ pc[u] = "write" /\ pc'[u] = "replace" /\ fd' = fd /\ tmp' = tmp
        /\ main' = main /\ op' = op /\ snap' = snap
    BY <1>0, <1>8 DEF WriteTmp, TypeOK
  <2>2. fd[u] = tmp /\ tmp \in Inodes /\ data[tmp] = <<>> /\ snap[u] \in Seq(Records)
    BY <1>0, <2>1 DEF InTurn, Critical, IInv, ThreadSound, TypeOK
  <2>3. PICK d \in Overlay(snap[u], data[fd[u]]) : data' = [data EXCEPT ![fd[u]] = d]
    BY <1>8 DEF WriteTmp
  <2>4. d = snap[u]
    BY <2>2, <2>3, OverlayEmpty
  <2>5. data'[tmp] = snap[u] /\ tmp # main
    BY <1>0, <2>2, <2>3, <2>4 DEF TypeOK, Serial, Inodes, NoFile
  <2>6. Contents' = Contents
    BY <1>0, <2>1, <2>2, <2>3, <2>5 DEF Contents, TypeOK
  <2> QED
    BY <1>0, <2>1, <2>2, <2>5, <2>6 DEF InTurn, Critical, Refuses
<1>9. ASSUME Replace(u) \/ WriteFails(u) PROVE pc'[u] = "idle"
  BY <1>0, <1>9 DEF Replace, WriteFails, End, TypeOK
<1>10. ASSUME NEW p \in Procs, Crash(p) PROVE InTurn(u)'
  <2>1. CASE ProcOf[u] = p
    BY <1>1, <1>10, <2>1 DEF Crash
  <2>2. CASE ProcOf[u] # p
    BY <1>0, <1>2, <1>10, <2>2 DEF Crash, TypeOK, files, Contents
  <2> QED
    BY <2>1, <2>2
<1>11. CASE UNCHANGED vars
  BY <1>2, <1>11 DEF vars, files, Contents
<1>12. ASSUME NEW t \in Threads, t # u,
              OpenTmp(t) \/ WriteTmp(t) \/ Replace(t) \/ WriteFails(t)
       PROVE  InTurn(u)'
  BY <1>1, <1>3, <1>12 DEF Step, OpenTmp, WriteTmp, Replace, WriteFails
<1> QED
  BY <1>1, <1>4, <1>5, <1>6, <1>7, <1>8, <1>9, <1>10, <1>11, <1>12 DEF Next, Step

\* A critical section at a time keeps every thread's turn in order.
LEMMA SerialInv == Spec /\ []NeverOverlap => [](IInv /\ Serial)
<1>1. Init => Serial
  BY DEF Init, Serial, InTurn, Critical
<1>2. IInv /\ Serial /\ NeverOverlap /\ NeverOverlap' /\ [Next]_vars => Serial'
  BY NamesApart, InTurnStep DEF Serial
<1> QED
  BY Invariance, <1>1, <1>2, PTL DEF Spec

\* The ledger changes its records the way the store changes its snapshots: both
\* instantiate one module.
LEMMA SameRecords ==
  ASSUME NEW records, NEW id
  PROVE  /\ Ledger!Upsert(records, id) = Upsert(records, id)
         /\ Ledger!Dismiss(records, id) = Dismiss(records, id)
         /\ \A target :
              Ledger!Promote(records, id, target) = Promote(records, id, target)
         /\ Ledger!Open(records, id) = Open(records, id)
         /\ Ledger!Allowed = Allowed
<1>1. /\ Ledger!Open(records, id) = Open(records, id)
      /\ Ledger!Fresh(id) = Fresh(id)
      /\ Ledger!Allowed = Allowed
  BY DEF Ledger!Open, Open, Ledger!Fresh, Fresh, Ledger!Nowhere, Nowhere,
         Ledger!Allowed, Allowed
<1>2. \A i : Ledger!IsFirst(i, records, id) = IsFirst(i, records, id)
  BY <1>1 DEF Ledger!IsFirst, IsFirst
<1>3. Ledger!Upsert(records, id) = Upsert(records, id)
  BY <1>1, <1>2 DEF Ledger!Upsert, Upsert
<1>4. Ledger!Dismiss(records, id) = Dismiss(records, id)
  BY <1>2 DEF Ledger!Dismiss, Dismiss
<1>5. \A target : Ledger!Promote(records, id, target) = Promote(records, id, target)
  BY <1>2 DEF Ledger!Promote, Promote
<1> QED
  BY <1>1, <1>3, <1>4, <1>5

\* While critical sections do not overlap the file changes as the ledger does, one whole
\* operation at a time, whatever writes fail and whenever a process is killed (_LOCK,
\* tmp.replace).
THEOREM FileIsLedger == Spec /\ []NeverOverlap => ImplementsLedger
<1>1. Init => Ledger!LInit
  BY DEF Init, Contents, Ledger!LInit
<1>2. ASSUME IInv, Serial, [Next]_vars PROVE Ledger!LNext \/ UNCHANGED Contents
  <2>1. ASSUME NEW o \in Operations, o.kind = "promote" => o.target \in Allowed,
               ~ Refuses(o, Contents), Contents' = Apply(o, Contents)
        PROVE  Ledger!LNext
    <3>1. o.id \in Ids /\ o.kind \in {"work", "promote", "dismiss"}
      BY <2>1 DEF Operations
    <3>2. CASE o.kind = "work"
      BY <2>1, <3>1, <3>2, SameRecords DEF Apply, Ledger!LNext
    <3>3. CASE o.kind = "promote"
      BY <2>1, <3>1, <3>3, SameRecords DEF Apply, Refuses, Ledger!LNext
    <3>4. CASE o.kind = "dismiss"
      BY <2>1, <3>1, <3>4, SameRecords DEF Apply, Refuses, Ledger!LNext
    <3> QED
      BY <3>1, <3>2, <3>3, <3>4
  <2> QED
    BY <1>2, <2>1, ContentsStep
<1>3. IInv /\ Serial /\ [Next]_vars => [Ledger!LNext]_Contents
  BY <1>2
<1> QED
  BY SerialInv, <1>1, <1>3, PTL DEF Spec, ImplementsLedger, Ledger!LSpec

----------------------------------------------------------------------------
\* What the ledger keeps: one open candidate of an id, without a target, ...
OneOpen(records) ==
  \A id \in Ids : \A i, j \in Open(records, id) : i = j

Unplaced(records) ==
  \A i \in DOMAIN records :
    records[i].status = "candidate" => records[i].target = Nowhere

\* The operation that counts a signal.
Work(id) == [kind |-> "work", id |-> id, target |-> Nowhere]

\* ... as many signals as were acknowledged, and as many records of each decision.
Decided(records, o) ==
  {i \in DOMAIN records :
    /\ records[i].id = o.id
    /\ records[i].status = IF o.kind = "promote" THEN "promoted" ELSE "dismissed"
    /\ records[i].target = o.target}

Kept ==
  /\ OneOpen(Contents) /\ Unplaced(Contents)
  /\ \A id \in Ids :
       /\ IsFiniteSet(Signals(Contents, id))
       /\ Cardinality(Signals(Contents, id)) = acked[Work(id)]
  /\ \A o \in Operations : o.kind # "work" =>
       Cardinality(Decided(Contents, o)) >= acked[o]

\* A record another operation leaves open was open before, unless it is the fresh
\* one, which opens only where nothing was.
LEMMA OneOpenKept ==
  ASSUME NEW o \in Operations, NEW records \in Seq(Records),
         OneOpen(records), Unplaced(records)
  PROVE  OneOpen(Apply(o, records)) /\ Unplaced(Apply(o, records))
<1>0. /\ \A i \in DOMAIN records : records[i] \in Records
      /\ o.id \in Ids /\ o.kind \in {"work", "promote", "dismiss"}
  BY DEF Operations
<1>1. CASE o.kind = "work" /\ Open(records, o.id) = {}
  <2>1. Apply(o, records) = Append(records, Fresh(o.id))
    BY <1>1 DEF Apply, Upsert
  <2> DEFINE longer == Append(records, Fresh(o.id))
             last == Len(records) + 1
  <2>2. /\ DOMAIN longer = (DOMAIN records) \cup {last} /\ longer[last] = Fresh(o.id)
        /\ \A i \in DOMAIN records : longer[i] = records[i]
    OBVIOUS
  <2>3. Fresh(o.id).id = o.id /\ Fresh(o.id).target = Nowhere
    BY DEF Fresh
  <2> HIDE DEF longer, last
  <2>4. OneOpen(longer)
    BY <1>1, <2>2, <2>3 DEF OneOpen, Open
  <2>5. Unplaced(longer)
    BY <2>2, <2>3 DEF Unplaced
  <2> QED
    BY <2>1, <2>4, <2>5 DEF longer
<1>2. CASE o.kind # "work" \/ Open(records, o.id) # {}
  <2> DEFINE new == Apply(o, records)
  <2>1. DOMAIN new = DOMAIN records
    BY <1>0, <1>2 DEF Apply, Upsert, Promote, Dismiss
  <2>2. ASSUME NEW i \in DOMAIN records
        PROVE  new[i].id = records[i].id
               /\ (new[i].status = "candidate" =>
                     /\ records[i].status = "candidate"
                     /\ new[i].target = records[i].target)
    <3>0. records[i] \in Records
      BY <1>0
    <3>1. CASE o.kind = "work"
      BY <1>2, <3>0, <3>1 DEF Apply, Upsert, Records
    <3>2. CASE o.kind = "promote"
      BY <3>0, <3>2 DEF Apply, Promote, Records
    <3>3. CASE o.kind = "dismiss"
      BY <3>0, <3>3 DEF Apply, Dismiss, Records
    <3> QED
      BY <1>0, <3>1, <3>2, <3>3
  <2> HIDE DEF new
  <2>3. OneOpen(new)
    BY <2>1, <2>2 DEF OneOpen, Open
  <2>4. Unplaced(new)
    BY <2>1, <2>2 DEF Unplaced
  <2> QED
    BY <2>3, <2>4 DEF new
<1> QED
  BY <1>1, <1>2

\* No operation undoes a decision that is on record.
LEMMA DecidedStays ==
  ASSUME NEW o \in Operations, NEW d \in Operations, d.kind # "work",
         NEW records \in Seq(Records)
  PROVE  Decided(records, d) \subseteq Decided(Apply(o, records), d)
<1> SUFFICES ASSUME NEW i \in Decided(records, d)
             PROVE  i \in Decided(Apply(o, records), d)
  OBVIOUS
<1>1. /\ i \in DOMAIN records /\ records[i] \in Records
      /\ records[i].status # "candidate"
      /\ o.kind \in {"work", "promote", "dismiss"}
  BY DEF Decided, Operations
<1>2. ~ IsFirst(i, records, o.id)
  BY <1>1 DEF IsFirst, Open
<1>3. i \in DOMAIN Apply(o, records) /\ Apply(o, records)[i] = records[i]
  <2>1. CASE o.kind = "work"
    <3>1. CASE Open(records, o.id) = {}
      BY <1>1, <2>1, <3>1 DEF Apply, Upsert
    <3>2. CASE Open(records, o.id) # {}
      BY <1>1, <1>2, <2>1, <3>2 DEF Apply, Upsert
    <3> QED
      BY <3>1, <3>2
  <2>2. CASE o.kind = "promote"
    BY <1>1, <1>2, <2>2 DEF Apply, Promote
  <2>3. CASE o.kind = "dismiss"
    BY <1>1, <1>2, <2>3 DEF Apply, Dismiss
  <2> QED
    BY <1>1, <2>1, <2>2, <2>3
<1> QED
  BY <1>3 DEF Decided

\* Nothing is erased from a list of records: the i-th stays the i-th and counts no
\* fewer signals, and one that is closed stays exactly as it is.
NothingErased(before, after) ==
  \A i \in DOMAIN before :
    /\ i \in DOMAIN after /\ after[i].id = before[i].id
    /\ after[i].seen >= before[i].seen
    /\ before[i].status # "candidate" => after[i] = before[i]

\* No operation erases anything.
LEMMA ApplyErasesNothing ==
  ASSUME NEW o \in Operations, NEW records \in Seq(Records)
  PROVE  NothingErased(records, Apply(o, records))
<1> SUFFICES ASSUME NEW i \in DOMAIN records
             PROVE  /\ i \in DOMAIN Apply(o, records)
                    /\ Apply(o, records)[i].id = records[i].id
                    /\ Apply(o, records)[i].seen >= records[i].seen
                    /\ records[i].status # "candidate" =>
                         Apply(o, records)[i] = records[i]
  BY DEF NothingErased
<1>0. records[i] \in Records /\ o.kind \in {"work", "promote", "dismiss"}
  BY DEF Operations
<1>1. records[i].seen \in Nat
  BY <1>0 DEF Records
<1>2. IsFirst(i, records, o.id) => records[i].status = "candidate"
  BY DEF IsFirst, Open
<1>3. CASE o.kind = "work"
  <2>1. CASE Open(records, o.id) = {}
    BY <1>0, <1>1, <1>3, <2>1 DEF Apply, Upsert
  <2>2. CASE Open(records, o.id) # {}
    <3>1. Apply(o, records) =
            [j \in DOMAIN records |-> IF IsFirst(j, records, o.id)
               THEN [records[j] EXCEPT !.seen = @ + 1] ELSE records[j]]
      BY <1>3, <2>2 DEF Apply, Upsert
    <3>2. [records[i] EXCEPT !.seen = @ + 1].id = records[i].id
      BY <1>0 DEF Records
    <3>3. [records[i] EXCEPT !.seen = @ + 1].seen = records[i].seen + 1
      BY <1>0 DEF Records
    <3> QED
      BY <1>1, <1>2, <3>1, <3>2, <3>3
  <2> QED
    BY <2>1, <2>2
<1>4. CASE o.kind = "promote"
  BY <1>0, <1>1, <1>2, <1>4 DEF Apply, Promote, Records
<1>5. CASE o.kind = "dismiss"
  BY <1>0, <1>1, <1>2, <1>5 DEF Apply, Dismiss, Records
<1> QED
  BY <1>0, <1>3, <1>4, <1>5

\* The file is a ledger nothing is ever erased from, while critical sections do not
\* overlap, whatever fails or is killed in the middle (_write_all).
THEOREM NothingIsErased ==
  Spec /\ []NeverOverlap => [][NothingErased(Contents, Contents')]_vars
<1>1. ASSUME IInv, Serial, [Next]_vars
      PROVE  NothingErased(Contents, Contents')
  <2>0. Contents \in Seq(Records)
    BY <1>1 DEF IInv, TypeOK, Contents
  <2>1. CASE Contents' = Contents
    <3>1. \A i \in DOMAIN Contents : Contents[i].seen \in Nat
      <4>1. \A i \in DOMAIN Contents : Contents[i] \in Records
        BY <2>0
      <4> QED
        BY <4>1 DEF Records
    <3> QED
      BY <2>1, <3>1 DEF NothingErased
  <2>2. CASE Contents' # Contents
    BY <1>1, <2>0, <2>2, ContentsStep, ApplyErasesNothing
  <2> QED
    BY <2>1, <2>2
<1> QED
  BY SerialInv, <1>1, PTL DEF Spec

\* A decision that is not refused is on record once more than before.
LEMMA DecidedGrows ==
  ASSUME NEW o \in Operations, o.kind # "work", NEW records \in Seq(Records),
         OneOpen(records), Unplaced(records), ~ Refuses(o, records)
  PROVE  \E i \in Decided(Apply(o, records), o) : i \notin Decided(records, o)
<1>1. /\ o.id \in Ids /\ o.kind \in {"promote", "dismiss"}
      /\ o.kind = "dismiss" => o.target = Nowhere
  BY DEF Operations
<1>2. PICK i \in Open(records, o.id) : TRUE
  BY DEF Refuses
<1>3. i \in Nat /\ \A j \in Open(records, o.id) : i = j
  BY <1>1, <1>2 DEF OneOpen, Open
<1>4. IsFirst(i, records, o.id)
  BY <1>2, <1>3 DEF IsFirst
<1>5. /\ i \in DOMAIN records /\ records[i] \in Records /\ records[i].id = o.id
      /\ records[i].status = "candidate" /\ records[i].target = Nowhere
  BY <1>2 DEF Open, Unplaced
<1>6. i \notin Decided(records, o)
  BY <1>5 DEF Decided
<1>7. i \in Decided(Apply(o, records), o)
  <2>1. CASE o.kind = "promote"
    BY <1>4, <1>5, <2>1 DEF Apply, Promote, Decided, Records
  <2>2. CASE o.kind = "dismiss"
    BY <1>1, <1>4, <1>5, <2>2 DEF Apply, Dismiss, Decided, Records
  <2> QED
    BY <1>1, <2>1, <2>2
<1> QED
  BY <1>6, <1>7

\* A signal is one of the first of its record.
LEMMA SignalOf ==
  ASSUME NEW records, NEW id, NEW x
  PROVE  x \in Signals(records, id) <=>
           \E i \in DOMAIN records : \E k \in 1..records[i].seen :
             records[i].id = id /\ x = <<i, k>>
BY DEF Signals

\* An operation that counts no signal of an id leaves its signals as they were.
LEMMA SignalsStay ==
  ASSUME NEW o \in Operations, NEW records \in Seq(Records), NEW id \in Ids,
         o # Work(id)
  PROVE  Signals(Apply(o, records), id) = Signals(records, id)
<1> DEFINE new == Apply(o, records)
<1>0. /\ \A i \in DOMAIN records : records[i] \in Records
      /\ o.id \in Ids /\ o.kind \in {"work", "promote", "dismiss"}
      /\ o.kind = "work" => o.id # id
  BY DEF Operations, Work
<1>1. CASE o.kind = "work" /\ Open(records, o.id) = {}
  <2>1. new = Append(records, Fresh(o.id)) /\ Fresh(o.id).id # id
    BY <1>0, <1>1 DEF Apply, Upsert, Fresh
  <2>2. \A i \in DOMAIN new :
          \/ i \in DOMAIN records /\ new[i] = records[i]
          \/ new[i].id # id
    BY <2>1
  <2>3. \A i \in DOMAIN records : i \in DOMAIN new /\ new[i] = records[i]
    BY <2>1
  <2> HIDE DEF new
  <2>4. ASSUME NEW x PROVE x \in Signals(new, id) <=> x \in Signals(records, id)
    BY <2>2, <2>3, SignalOf
  <2> QED
    BY <2>4 DEF new
<1>2. CASE o.kind # "work" \/ Open(records, o.id) # {}
  <2>1. DOMAIN new = DOMAIN records
    BY <1>0, <1>2 DEF Apply, Upsert, Promote, Dismiss
  <2>2. ASSUME NEW i \in DOMAIN records
        PROVE  /\ new[i].id = records[i].id
               /\ records[i].id = id => new[i].seen = records[i].seen
    <3>0. records[i] \in Records
      BY <1>0
    <3>1. CASE o.kind = "work"
      BY <1>0, <1>2, <3>0, <3>1 DEF Apply, Upsert, IsFirst, Open, Records
    <3>2. CASE o.kind = "promote"
      BY <3>0, <3>2 DEF Apply, Promote, Records
    <3>3. CASE o.kind = "dismiss"
      BY <3>0, <3>3 DEF Apply, Dismiss, Records
    <3> QED
      BY <1>0, <3>1, <3>2, <3>3
  <2> HIDE DEF new
  <2>3. ASSUME NEW x PROVE x \in Signals(new, id) <=> x \in Signals(records, id)
    BY <2>1, <2>2, SignalOf
  <2> QED
    BY <2>3 DEF new
<1> QED
  BY <1>1, <1>2

\* record_work counts one signal more: the first of a new record, or the next of the
\* one open candidate.
LEMMA SignalCounted ==
  ASSUME NEW records \in Seq(Records), NEW id \in Ids, OneOpen(records)
  PROVE  \E x : /\ x \notin Signals(records, id)
                /\ Signals(Upsert(records, id), id) = Signals(records, id) \cup {x}
<1> DEFINE new == Upsert(records, id)
<1>0. \A i \in DOMAIN records : records[i] \in Records /\ records[i].seen \in Nat \ {0}
  <2>1. \A i \in DOMAIN records : records[i] \in Records
    OBVIOUS
  <2> QED
    BY <2>1 DEF Records
<1>1. CASE Open(records, id) = {}
  <2> DEFINE last == Len(records) + 1
  <2>1. new = Append(records, Fresh(id)) /\ Fresh(id).id = id /\ Fresh(id).seen = 1
    BY <1>1 DEF Upsert, Fresh
  <2>2. /\ DOMAIN new = (DOMAIN records) \cup {last} /\ last \notin DOMAIN records
        /\ new[last].id = id /\ new[last].seen = 1
        /\ \A i \in DOMAIN records : new[i] = records[i]
    BY <2>1
  <2> HIDE DEF new, last
  <2>3. <<last, 1>> \notin Signals(records, id)
    BY <2>2, SignalOf
  <2>4. 1..1 = {1}
    OBVIOUS
  <2>5. ASSUME NEW x
        PROVE  x \in Signals(new, id) <=> x \in Signals(records, id) \/ x = <<last, 1>>
    <3>1. x \in Signals(new, id) <=>
            \/ \E i \in DOMAIN records : \E k \in 1..records[i].seen :
                 records[i].id = id /\ x = <<i, k>>
            \/ \E k \in 1..1 : x = <<last, k>>
      BY <2>2, SignalOf
    <3> QED
      BY <2>4, <3>1, SignalOf
  <2>6. Signals(new, id) = Signals(records, id) \cup {<<last, 1>>}
    BY <2>5
  <2> QED
    BY <2>3, <2>6 DEF new
<1>2. CASE Open(records, id) # {}
  <2>1. PICK f \in Open(records, id) : TRUE
    BY <1>2
  <2>2. f \in DOMAIN records /\ f \in Nat /\ records[f].id = id
        /\ \A j \in Open(records, id) : j = f
    BY <2>1 DEF Open, OneOpen
  <2>3. \A i \in DOMAIN records : IsFirst(i, records, id) <=> i = f
    BY <2>1, <2>2 DEF IsFirst
  <2> DEFINE n == records[f].seen + 1
  <2>4. /\ DOMAIN new = DOMAIN records
        /\ \A i \in DOMAIN records :
             /\ new[i].id = records[i].id
             /\ i # f => new[i].seen = records[i].seen
        /\ new[f].seen = n
    BY <1>0, <1>2, <2>2, <2>3 DEF Upsert, Records
  <2>5. n \notin 1..records[f].seen /\ 1..n = (1..records[f].seen) \cup {n}
    BY <1>0, <2>2
  <2> HIDE DEF new, n
  <2>6. <<f, n>> \notin Signals(records, id)
    BY <2>2, <2>5, SignalOf
  <2>7. ASSUME NEW x
        PROVE  x \in Signals(new, id) <=> x \in Signals(records, id) \/ x = <<f, n>>
    <3>1. CASE \E k : x = <<f, k>>
      BY <2>2, <2>4, <2>5, <3>1, SignalOf
    <3>2. CASE ~ \E k : x = <<f, k>>
      BY <2>2, <2>4, <3>2, SignalOf
    <3> QED
      BY <3>1, <3>2
  <2>8. Signals(new, id) = Signals(records, id) \cup {<<f, n>>}
    BY <2>7
  <2> QED
    BY <2>6, <2>8 DEF new
<1> QED
  BY <1>1, <1>2

\* The records of a decision are finitely many.
LEMMA DecidedFinite ==
  ASSUME NEW records \in Seq(Records), NEW o
  PROVE  /\ IsFiniteSet(Decided(records, o))
         /\ Cardinality(Decided(records, o)) \in Nat
<1>1. IsFiniteSet(1..Len(records))
  BY LenProperties, FS_Interval
<1>2. Decided(records, o) \in SUBSET (1..Len(records))
  BY DEF Decided
<1> QED
  BY <1>1, <1>2, FS_Subset, FS_CardinalityType

\* Every step keeps what the ledger keeps.
LEMMA KeptStep ==
  ASSUME IInv, Serial, Kept, [Next]_vars PROVE Kept'
<1>0. acked \in [Operations -> Nat] /\ Contents \in Seq(Records)
  <2>1. CASE main = NoFile
    BY <2>1, EmptySeq DEF IInv, TypeOK, Contents
  <2>2. CASE main # NoFile
    BY <2>2 DEF IInv, TypeOK, Contents
  <2> QED
    BY <2>1, <2>2 DEF IInv, TypeOK
<1>1. CASE Contents' = Contents /\ acked' = acked
  BY <1>1 DEF Kept
<1>2. ASSUME NEW o \in Operations, o.kind = "promote" => o.target \in Allowed,
             ~ Refuses(o, Contents), Contents' = Apply(o, Contents),
             acked' = [acked EXCEPT ![o] = @ + 1]
      PROVE  Kept'
  <2> DEFINE before == Contents
             after == Apply(o, Contents)
  <2>1. OneOpen(before) /\ Unplaced(before) /\ before \in Seq(Records)
    BY <1>0 DEF Kept
  <2>2. OneOpen(after) /\ Unplaced(after)
    BY <2>1, OneOpenKept
  <2>3. after \in Seq(Records)
    BY <1>2, <2>1, ApplyType
  <2>4. ASSUME NEW d \in Operations, d.kind # "work"
        PROVE  Cardinality(Decided(after, d)) >= acked'[d]
    <3>1. /\ Cardinality(Decided(before, d)) >= acked[d] /\ acked[d] \in Nat
          /\ Decided(before, d) \subseteq Decided(after, d)
      BY <1>0, <2>1, <2>4, DecidedStays DEF Kept
    <3>2. /\ IsFiniteSet(Decided(after, d)) /\ Cardinality(Decided(after, d)) \in Nat
          /\ Cardinality(Decided(before, d)) \in Nat
      BY <2>1, <2>3, DecidedFinite
    <3>3. /\ Cardinality(Decided(before, d)) <= Cardinality(Decided(after, d))
          /\ Cardinality(Decided(before, d)) = Cardinality(Decided(after, d))
               => Decided(before, d) = Decided(after, d)
      BY <3>1, <3>2, FS_Subset
    <3> HIDE DEF before, after
    <3>4. CASE d = o
      <4>1. Decided(before, d) # Decided(after, d)
        BY <1>2, <2>1, <2>4, <3>4, DecidedGrows DEF before, after
      <4>2. acked'[d] = acked[d] + 1
        BY <1>0, <1>2, <3>4
      <4> QED
        BY <3>1, <3>2, <3>3, <4>1, <4>2
    <3>5. CASE d # o
      <4>1. acked'[d] = acked[d]
        BY <1>0, <1>2, <3>5
      <4> QED
        BY <3>1, <3>2, <3>3, <4>1
    <3> QED
      BY <3>4, <3>5
  <2>5. ASSUME NEW id \in Ids
        PROVE  /\ IsFiniteSet(Signals(after, id))
               /\ Cardinality(Signals(after, id)) = acked'[Work(id)]
    <3>0. /\ IsFiniteSet(Signals(before, id))
          /\ Cardinality(Signals(before, id)) = acked[Work(id)]
          /\ Work(id) \in Operations /\ acked[Work(id)] \in Nat
      BY <1>0 DEF Kept, Work, Operations
    <3>1. CASE o = Work(id)
      <4>1. after = Upsert(before, id)
        BY <3>1 DEF Apply, Work
      <4>2. PICK x : /\ x \notin Signals(before, id)
                     /\ Signals(after, id) = Signals(before, id) \cup {x}
        BY <2>1, <4>1, SignalCounted
      <4>3. acked'[Work(id)] = acked[Work(id)] + 1
        BY <1>0, <1>2, <3>0, <3>1
      <4> QED
        BY <3>0, <4>2, <4>3, FS_AddElement
    <3>2. CASE o # Work(id)
      <4>1. Signals(after, id) = Signals(before, id)
        BY <2>1, <3>2, SignalsStay
      <4>2. acked'[Work(id)] = acked[Work(id)]
        BY <1>0, <1>2, <3>0, <3>2
      <4> QED
        BY <3>0, <4>1, <4>2
    <3> QED
      BY <3>1, <3>2
  <2> QED
    BY <1>2, <2>2, <2>4, <2>5 DEF Kept
<1> QED
  BY <1>1, <1>2, ContentsStep

\* The lock, the stages and what the ledger keeps, together.
LEMMA KeptInv == Spec /\ []NeverOverlap => []Kept
<1>1. Init => Kept
  <2> SUFFICES ASSUME Init PROVE Kept
    OBVIOUS
  <2>1. Contents = <<>> /\ acked = [o \in Operations |-> 0]
    BY DEF Init, Contents
  <2>2. \A o : Decided(<<>>, o) = {}
    BY DEF Decided
  <2>3. OneOpen(<<>>) /\ Unplaced(<<>>)
    BY DEF OneOpen, Unplaced, Open
  <2>4. \A id \in Ids : Signals(<<>>, id) = {} /\ Work(id) \in Operations
    BY SignalOf DEF Work, Operations
  <2>5. Cardinality({}) = 0 /\ IsFiniteSet({})
    BY FS_EmptySet
  <2>6. \A id \in Ids : /\ IsFiniteSet(Signals(Contents, id))
                         /\ Cardinality(Signals(Contents, id)) = acked[Work(id)]
    BY <2>1, <2>4, <2>5
  <2>7. \A o \in Operations : Cardinality(Decided(Contents, o)) >= acked[o]
    <3>1. \A o \in Operations : acked[o] = 0
      BY <2>1
    <3>2. \A o : Cardinality(Decided(Contents, o)) = 0
      BY <2>1, <2>2, <2>5
    <3> QED
      BY <3>1, <3>2
  <2>8. OneOpen(Contents) /\ Unplaced(Contents)
    BY <2>1, <2>3
  <2> QED
    BY <2>6, <2>7, <2>8 DEF Kept
<1>2. IInv /\ Serial /\ Kept /\ [Next]_vars => Kept'
  BY KeptStep
<1> QED
  BY SerialInv, <1>1, <1>2, PTL DEF Spec

\* Repeated asks collapse into one open candidate, in any number of threads whose
\* critical sections do not overlap (_upsert under _LOCK).
THEOREM AsksCollapse == Spec /\ []NeverOverlap => []OneOpenPerId
<1>1. Kept => OneOpenPerId
  <2> SUFFICES ASSUME Kept, NEW id \in Ids
               PROVE  Cardinality(Open(Contents, id)) <= 1
    BY DEF OneOpenPerId
  <2>1. CASE Open(Contents, id) = {}
    BY <2>1, FS_EmptySet
  <2>2. CASE Open(Contents, id) # {}
    <3>1. \A i, j \in Open(Contents, id) : i = j
      BY DEF Kept, OneOpen
    <3>2. \E i : Open(Contents, id) = {i}
      BY <2>2, <3>1
    <3>3. Cardinality(Open(Contents, id)) = 1
      BY <3>2, FS_Singleton
    <3> QED
      BY <3>3
  <2> QED
    BY <2>1, <2>2
<1> QED
  BY KeptInv, <1>1, PTL

\* An acknowledged decision is on record for good, whatever fails or is killed
\* afterwards, while critical sections do not overlap.
THEOREM DecisionsLast == Spec /\ []NeverOverlap => []DecisionsDurable
<1>1. Kept => DecisionsDurable
  BY DEF Kept, DecisionsDurable, Decided
<1> QED
  BY KeptInv, <1>1, PTL

\* Every signal that was acknowledged is counted once, while critical sections do not
\* overlap (_upsert's seen).
THEOREM SignalsAreCounted == Spec /\ []NeverOverlap => []EverySignalCounted
<1>1. Kept => EverySignalCounted
  BY DEF Kept, EverySignalCounted, Work
<1> QED
  BY KeptInv, <1>1, PTL

\* All of it holds in one process, however many threads it has.
THEOREM OneProcessKeeps ==
  ASSUME SharedLock
  PROVE  Spec => /\ ImplementsLedger /\ []OneOpenPerId
                 /\ []EverySignalCounted /\ []DecisionsDurable
BY OneAtATime, FileIsLedger, AsksCollapse, SignalsAreCounted, DecisionsLast, PTL
=============================================================================
