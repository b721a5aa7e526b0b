--------------------------- MODULE MaturityProofs ---------------------------
(* The safety of Maturity for any calls, bars, window and numbers of answers, *)
(* gaps and files.  A report is right although its inputs are read at         *)
(* different times because what it read can only have been worse for it.      *)
EXTENDS Maturity, FiniteSetTheorems, TLAPS

\* What has been read so far, held against the stores when the report began.
ReadSound ==
  pc \notin {"idle", "done"} =>
    /\ seen.grounded > 0 =>
         seen.grounded = start.grounded /\ (start.crossed => ~ seen.clean)
    /\ pc # "open" /\ ~ blind => Cardinality(standing) <= seen.gaps

IInv == TypeOK /\ ReadSound /\ MisuseBarsReadiness /\ ReadyIsEarned

----------------------------------------------------------------------------
(* Arithmetic of the bars.                                                  *)

\* Multiplication is monotone.
LEMMA TimesMonotone ==
  ASSUME NEW m \in Nat, NEW a \in Nat, NEW b \in Nat, a <= b
  PROVE  m * a <= m * b
OBVIOUS

\* More answers and fewer gaps clear the bars when fewer and more do.
LEMMA RatesMonotone ==
  ASSUME NEW g \in Nat, NEW h \in Nat, g <= h,
         NEW a \in Nat, NEW b \in Nat, a <= b, RatesMeetBars(g, b)
  PROVE  RatesMeetBars(h, a) /\ g > 0
<1>1. GroundingBar \in 1..100 /\ DeclineCeiling \in 0..100
  BY MaturityAssumption
<1>2. 100 * g >= GroundingBar * (g + b) /\ 100 * b <= DeclineCeiling * (g + b)
      /\ g + b > 0
  BY DEF RatesMeetBars
<1>3. GroundingBar * (g + b) = GroundingBar * g + GroundingBar * b
      /\ GroundingBar * (h + a) = GroundingBar * h + GroundingBar * a
      /\ DeclineCeiling * (g + b) = DeclineCeiling * g + DeclineCeiling * b
      /\ DeclineCeiling * (h + a) = DeclineCeiling * h + DeclineCeiling * a
  BY ONLY <1>1
<1>4. g > 0
  <2> SUFFICES ASSUME g = 0 PROVE FALSE
    OBVIOUS
  <2>1. b > 0 /\ GroundingBar * b <= 0
    BY <1>2
  <2>2. \A x \in Nat : x >= 1 => b * 1 <= b * x
    BY TimesMonotone
  <2>3. b * 1 <= b * GroundingBar
    BY <1>1, <2>2
  <2>4. b * 1 = b /\ b * GroundingBar = GroundingBar * b
    BY <1>1
  <2> DEFINE product == GroundingBar * b
  <2>5. product \in Int
    BY <1>1
  <2>6. product <= 0 /\ b <= product
    BY <2>1, <2>3, <2>4
  <2> HIDE DEF product
  <2> QED
    BY <2>1, <2>5, <2>6
<1>5. 100 * h >= GroundingBar * (h + a)
  <2> DEFINE rest == 100 - GroundingBar
  <2>1. rest \in Nat /\ GroundingBar \in Nat
    BY <1>1
  <2>2. rest * g <= rest * h /\ GroundingBar * a <= GroundingBar * b
    BY <2>1, TimesMonotone
  <2>3. rest * g = 100 * g - GroundingBar * g /\ rest * h = 100 * h - GroundingBar * h
    BY ONLY <1>1
  <2> HIDE DEF rest
  <2> QED
    BY <1>1, <1>2, <1>3, <2>2, <2>3
<1>6. 100 * a <= DeclineCeiling * (h + a)
  <2> DEFINE rest == 100 - DeclineCeiling
  <2>1. rest \in Nat /\ DeclineCeiling \in Nat
    BY <1>1
  <2>2. rest * a <= rest * b /\ DeclineCeiling * g <= DeclineCeiling * h
    BY <2>1, TimesMonotone
  <2>3. rest * a = 100 * a - DeclineCeiling * a /\ rest * b = 100 * b - DeclineCeiling * b
    BY ONLY <1>1
  <2> HIDE DEF rest
  <2> QED
    BY <1>1, <1>2, <1>3, <2>2, <2>3
<1> QED
  BY <1>4, <1>5, <1>6 DEF RatesMeetBars

\* More files never make a lower band.
LEMMA BandMonotone ==
  ASSUME NEW m \in Nat, NEW n \in Nat, m <= n
  PROVE  /\ Band(n) = "sparse" => Band(m) = "sparse"
         /\ Band(m) = "broad" => Band(n) = "broad"
BY MaturityAssumption DEF Band

\* The stage never falls when every input moves in an instance's favour.
LEMMA StageMonotone ==
  ASSUME NEW g \in Nat, NEW h \in Nat, g <= h,
         NEW clean \in BOOLEAN, NEW cleaner \in BOOLEAN, clean => cleaner,
         NEW a \in Nat, NEW b \in Nat, a <= b,
         NEW p \in Nat, NEW q \in Nat, b > 0 \/ p > 0 => a > 0 \/ q > 0,
         NEW m \in Nat, NEW n \in Nat, m <= n,
         NEW marked \in BOOLEAN, NEW remarked \in BOOLEAN, marked => remarked
  PROVE  Height[Stage(g, clean, b, p, m, marked)]
           <= Height[Stage(h, cleaner, a, q, n, remarked)]
<1> DEFINE was   == g < MinAnswers /\ Band(m) = "sparse"
           is    == h < MinAnswers /\ Band(n) = "sparse"
           met   == MeetsGroundBar(g, clean, b, m)
           meets == MeetsGroundBar(h, cleaner, a, n)
           old   == Stage(g, clean, b, p, m, marked)
           new   == Stage(h, cleaner, a, q, n, remarked)
<1>1. is => was
  BY MaturityAssumption, BandMonotone
<1>2. met => meets
  BY RatesMonotone, BandMonotone DEF MeetsGroundBar
<1>3. old = IF was THEN "seeded"
            ELSE IF met THEN IF marked THEN "sustaining" ELSE "grounded"
            ELSE IF marked \/ b > 0 \/ p > 0 THEN "cultivating" ELSE "seeded"
  BY DEF Stage
<1>4. new = IF is THEN "seeded"
            ELSE IF meets THEN IF remarked THEN "sustaining" ELSE "grounded"
            ELSE IF remarked \/ a > 0 \/ q > 0 THEN "cultivating" ELSE "seeded"
  BY DEF Stage
<1> SUFFICES Height[old] <= Height[new]
  OBVIOUS
<1> HIDE DEF was, is, met, meets, old, new
<1>5. CASE was
  <2>1. old = "seeded"
    BY <1>3, <1>5
  <2>2. new \in {"seeded", "cultivating", "grounded", "sustaining"}
    BY <1>4
  <2> QED
    BY <2>1, <2>2 DEF Height
<1>6. CASE ~ was /\ met
  <2>1. ~ is /\ meets
    BY <1>1, <1>2, <1>6
  <2>2. old = (IF marked THEN "sustaining" ELSE "grounded")
    BY <1>3, <1>6
  <2>3. new = (IF remarked THEN "sustaining" ELSE "grounded")
    BY <1>4, <2>1
  <2> QED
    BY <2>2, <2>3 DEF Height
<1>7. CASE ~ was /\ ~ met
  <2>1. old = (IF marked \/ b > 0 \/ p > 0 THEN "cultivating" ELSE "seeded")
    BY <1>3, <1>7
  <2>2. ~ is
    BY <1>1, <1>7
  <2>3. CASE old = "seeded"
    <3>1. new \in {"seeded", "cultivating", "grounded", "sustaining"}
      BY <1>4
    <3> QED
      BY <2>3, <3>1 DEF Height
  <2>4. CASE marked \/ b > 0 \/ p > 0
    <3>1. remarked \/ a > 0 \/ q > 0
      BY <2>4
    <3>2. new \in {"cultivating", "grounded", "sustaining"}
      BY <1>4, <2>2, <3>1
    <3>3. old = "cultivating"
      BY <2>1, <2>4
    <3> QED
      BY <3>2, <3>3 DEF Height
  <2> QED
    BY <2>1, <2>3, <2>4
<1> QED
  BY <1>5, <1>6, <1>7

----------------------------------------------------------------------------
(* The trail and its window.                                                *)

\* A call's findings are codes.
LEMMA FindingsAreCodes ==
  ASSUME NEW call PROVE Findings(call) \subseteq Codes
<1>1. \A c, p : Reported(c, p) \subseteq {c}
  BY DEF Reported
<1>2. DetectEvidence(call.evidence, call.agent, call.request) \subseteq Codes
  BY DEF DetectEvidence, PacketReason, EvidenceCode, Codes, BlockCodes
<1>3. DetectTenet1(call.marks) \cup DetectTenet3(call.marks)
        \cup DetectTenet6(call.marks) \subseteq Codes
  BY <1>1 DEF DetectTenet1, DetectTenet3, DetectTenet6, Codes, BlockCodes, InfoCodes
<1>4. DetectTenet4(call.confidence, TrustZone(call.used_llm)) \subseteq Codes
  BY <1>1 DEF DetectTenet4, Codes, BlockCodes
<1>5. DetectTenet11(call.marks) \cup DetectTenet12(call.marks) \subseteq Codes
  BY <1>1 DEF DetectTenet11, DetectTenet12, Codes, BlockCodes, InfoCodes
<1> QED
  BY <1>2, <1>3, <1>4, <1>5 DEF Findings

\* What is recorded of a verdict is an event.
LEMMA EventOf ==
  ASSUME NEW call PROVE Event(Enforce(call)) \in Events
<1>1. Findings(call) \subseteq Codes
  BY FindingsAreCodes
<1>2. /\ Enforce(call).findings = Findings(call)
      /\ Enforce(call).blocked \in BOOLEAN
  BY DEF Enforce
<1> QED
  BY <1>1, <1>2 DEF Event, Events

\* A good answer is recorded as a grounded answer.
LEMMA GoodAnswer ==
  ASSUME NEW call \in WellAnswered
  PROVE  /\ IsGroundedAnswer(Event(Enforce(call)))
         /\ ~ IsMisuse(Event(Enforce(call)))
         /\ ~ IsGap(Enforce(call))
BY DEF WellAnswered, IsGap, Event, IsGroundedAnswer, IsMisuse

\* Windows are finite, and so are the answers in them.
LEMMA FiniteWindow ==
  ASSUME NEW events \in Seq(Events)
  PROVE  IsFiniteSet(GroundedIn(events)) /\ Cardinality(GroundedIn(events)) \in Nat
<1>1. Len(events) \in Nat /\ DOMAIN events = 1..Len(events)
  OBVIOUS
<1>2. IsFiniteSet(DOMAIN events)
  BY <1>1, FS_Interval
<1>3. GroundedIn(events) \in SUBSET DOMAIN events
  BY DEF GroundedIn, WindowOf
<1> QED
  BY <1>2, <1>3, FS_Subset, FS_CardinalityType

\* One more good answer: no fewer in the window, and no more misuse.
LEMMA OneMoreGood ==
  ASSUME NEW events \in Seq(Events), NEW e \in Events,
         IsGroundedAnswer(e), ~ IsMisuse(e)
  PROVE  /\ Cardinality(GroundedIn(events))
              <= Cardinality(GroundedIn(Append(events, e)))
         /\ MisuseIn(events) = {} => MisuseIn(Append(events, e)) = {}
<1> DEFINE n == Len(events)
           longer == Append(events, e)
           gone == n + 1 - Window
<1>1. /\ n \in Nat /\ Window \in Nat \ {0}
      /\ Len(longer) = n + 1 /\ DOMAIN longer = 1..(n + 1)
      /\ DOMAIN events = 1..n
      /\ \A i \in 1..n : longer[i] = events[i]
      /\ longer[n + 1] = e
  BY MaturityAssumption
<1> HIDE DEF n, longer
<1>2. /\ WindowOf(events) = {i \in 1..n : i > n - Window}
      /\ WindowOf(longer) = {i \in 1..(n + 1) : i > n + 1 - Window}
  BY <1>1 DEF WindowOf, n
<1>3. WindowOf(longer) = (WindowOf(events) \ {gone}) \cup {n + 1}
  BY <1>1, <1>2
<1>4. n + 1 \notin WindowOf(events)
  BY <1>1, <1>2
<1>5. \A i \in WindowOf(events) : longer[i] = events[i]
  BY <1>1, <1>2
<1>6. GroundedIn(longer) = (GroundedIn(events) \ {gone}) \cup {n + 1}
  BY <1>1, <1>3, <1>4, <1>5 DEF GroundedIn
<1>7. MisuseIn(longer) \subseteq MisuseIn(events)
  BY <1>1, <1>3, <1>5 DEF MisuseIn
<1>8. IsFiniteSet(GroundedIn(events)) /\ Cardinality(GroundedIn(events)) \in Nat
  BY FiniteWindow
<1>9. /\ IsFiniteSet(GroundedIn(events) \ {gone})
      /\ Cardinality(GroundedIn(events) \ {gone})
           >= Cardinality(GroundedIn(events)) - 1
  <2> HIDE DEF gone
  <2>1. /\ IsFiniteSet(GroundedIn(events) \ {gone})
        /\ Cardinality(GroundedIn(events) \ {gone}) =
             IF gone \in GroundedIn(events) THEN Cardinality(GroundedIn(events)) - 1
             ELSE Cardinality(GroundedIn(events))
    BY <1>8, FS_RemoveElement
  <2> QED
    BY <1>8, <2>1
<1>10. Cardinality(GroundedIn(events) \ {gone}) \in Nat
  BY <1>9, FS_CardinalityType
<1>11. n + 1 \notin GroundedIn(events) \ {gone}
  BY <1>4 DEF GroundedIn
<1>12. Cardinality((GroundedIn(events) \ {gone}) \cup {n + 1})
         = Cardinality(GroundedIn(events) \ {gone}) + 1
  BY <1>9, <1>11, FS_AddElement
<1>13. Cardinality(GroundedIn(events)) <= Cardinality(GroundedIn(longer))
  BY <1>6, <1>8, <1>9, <1>10, <1>12
<1> QED
  BY <1>7, <1>13 DEF longer

\* A boundary crossed in the window is misuse there.
LEMMA CrossingIsMisuse ==
  ASSUME NEW i \in WindowOf(trail), CrossedBoundary(trail[i])
  PROVE  MisuseIn(trail) # {}
<1>1. IsMisuse(trail[i])
  BY DEF CrossedBoundary, IsMisuse, NamedBoundary
<1> QED
  BY <1>1 DEF MisuseIn

\* The open and the standing candidates can be counted.
LEMMA Countable ==
  ASSUME NEW S, S \subseteq Ids
  PROVE  /\ IsFiniteSet(S) /\ Cardinality(S) \in Nat
         /\ \A T : T \subseteq S => Cardinality(T) \in Nat
                                    /\ Cardinality(T) <= Cardinality(S)
<1>1. IsFiniteSet(S)
  BY MaturityAssumption, FS_Subset
<1> QED
  BY <1>1, FS_Subset, FS_CardinalityType

----------------------------------------------------------------------------
(* The invariant.                                                           *)

\* Type correctness: every variable stays in its range.
LEMMA TypeStep == ASSUME IInv, [Next]_vars PROVE TypeOK'
<1> USE DEF IInv
<1>1. CASE UNCHANGED vars
  BY <1>1 DEF vars, stores, reading, TypeOK
<1>2. ASSUME NEW call \in Calls, NEW id \in Ids, Turn(call, id)
      PROVE  TypeOK'
  <2>1. trail' = trail \/ trail' = Append(trail, Event(Enforce(call)))
    BY <1>2 DEF Turn
  <2>2. trail' \in Seq(Events) /\ Len(trail') <= MaxEvents
    <3>1. Event(Enforce(call)) \in Events
      BY EventOf
    <3>2. trail \in Seq(Events) /\ Len(trail) < MaxEvents
      BY <1>2 DEF Turn, TypeOK
    <3> QED
      BY <2>1, <3>1, <3>2, MaturityAssumption
  <2>3. open' \subseteq Ids /\ standing \subseteq open'
    BY <1>2 DEF Turn, TypeOK
  <2> QED
    BY <1>2, <2>2, <2>3 DEF Turn, TypeOK, reading
<1>3. ASSUME NEW id \in Ids, Promote(id) \/ Dismiss(id)
      PROVE  TypeOK'
  <2>1. promoted' \in 0..MaxPromoted
    BY <1>3, MaturityAssumption DEF Promote, Dismiss, TypeOK
  <2> QED
    BY <1>3, <2>1 DEF Promote, Dismiss, TypeOK, reading
<1>4. CASE AddFile \/ RemoveFile \/ Ratify \/ Withdraw
  <2>1. AddFile \/ RemoveFile => files' \in 0..MaxFiles
    <3>1. files \in 0..MaxFiles /\ MaxFiles \in Nat
      BY MaturityAssumption DEF TypeOK
    <3> QED
      BY <3>1 DEF AddFile, RemoveFile
  <2>2. CASE AddFile
    BY <2>1, <2>2 DEF AddFile, TypeOK, reading
  <2>3. CASE RemoveFile
    BY <2>1, <2>3 DEF RemoveFile, TypeOK, reading
  <2>4. CASE Ratify \/ Withdraw
    BY <2>4 DEF Ratify, Withdraw, TypeOK, reading
  <2> QED
    BY <1>4, <2>2, <2>3, <2>4
<1>5. CASE ReadTrail
  <2> DEFINE none == MisuseIn(trail) = {}
             crossing == \E i \in WindowOf(trail) : CrossedBoundary(trail[i])
             many == Cardinality(GroundedIn(trail))
  <2>a. none \in BOOLEAN /\ crossing \in BOOLEAN
    OBVIOUS
  <2>b. /\ seen' \in {[grounded |-> many, clean |-> none,
                       gaps |-> 0, reviewed |-> 0, keys |-> 0],
                      [grounded |-> 0, clean |-> TRUE,
                       gaps |-> 0, reviewed |-> 0, keys |-> 0]}
        /\ start' = [grounded |-> many, crossed |-> crossing]
    BY <1>5 DEF ReadTrail
  <2>1. many \in Nat
    BY FiniteWindow DEF TypeOK
  <2> HIDE DEF none, crossing, many
  <2>c. \A n \in Nat, c \in BOOLEAN :
          /\ [grounded |-> n, clean |-> c,
              gaps |-> 0, reviewed |-> 0, keys |-> 0] \in Readings
          /\ [grounded |-> n, crossed |-> c] \in [grounded : Nat, crossed : BOOLEAN]
    BY DEF Readings
  <2>d. 0 \in Nat /\ TRUE \in BOOLEAN
    OBVIOUS
  <2>2. seen' \in Readings /\ start' \in [grounded : Nat, crossed : BOOLEAN]
    BY ONLY <2>a, <2>b, <2>c, <2>d, <2>1, Zenon
  <2> QED
    BY <1>5, <2>2 DEF ReadTrail, TypeOK, stores
<1>6. CASE ReadOpen
  <2>1. Cardinality(open) \in Nat
    BY Countable DEF TypeOK
  <2>2. seen' \in Readings
    BY <1>6, <2>1 DEF ReadOpen, TypeOK, Readings
  <2> QED
    BY <1>6, <2>2 DEF ReadOpen, TypeOK, stores
<1>7. CASE ReadPromoted
  <2>1. promoted \in Nat
    BY MaturityAssumption DEF TypeOK
  <2>2. seen' \in Readings
    BY <1>7, <2>1 DEF ReadPromoted, TypeOK, Readings
  <2> QED
    BY <1>7, <2>2 DEF ReadPromoted, TypeOK, stores
<1>8. CASE CountCoverage
  <2>1. 0..files \subseteq Nat
    BY MaturityAssumption DEF TypeOK
  <2>2. seen' \in Readings
    BY <1>8, <2>1 DEF CountCoverage, TypeOK, Readings
  <2> QED
    BY <1>8, <2>2 DEF CountCoverage, TypeOK, stores
<1>9. CASE Conclude
  <2>1. \A g, c, b, p, k, m :
          Stage(g, c, b, p, k, m) \in DOMAIN Height \ {"productionized"}
    BY DEF Stage, Height
  <2>2. report' \in [stage : DOMAIN Height \ {"productionized"}, eligible : BOOLEAN]
    BY <1>9, <2>1 DEF Conclude, MeetsGroundBar, RatesMeetBars
  <2> QED
    BY <1>9, <2>2 DEF Conclude, TypeOK, stores
<1>10. CASE HandOver
  BY <1>10 DEF HandOver, TypeOK, stores
<1> QED
  BY <1>1, <1>2, <1>3, <1>4, <1>5, <1>6, <1>7, <1>8, <1>9, <1>10 DEF Next

\* Outside the computation nothing is read, and a gap may only stop standing.
LEMMA OutsideStep ==
  ASSUME IInv, [Next]_vars,
         ~ (ReadTrail \/ ReadOpen \/ ReadPromoted \/ CountCoverage \/ Conclude
            \/ HandOver)
  PROVE  UNCHANGED reading /\ standing' \subseteq standing
BY DEF Next, vars, Turn, Promote, Dismiss, AddFile, RemoveFile, Ratify, Withdraw

\* Fewer standing gaps count for less.
LEMMA StandingShrinks ==
  ASSUME IInv, standing' \subseteq standing
  PROVE  /\ Cardinality(standing') \in Nat /\ Cardinality(standing) \in Nat
         /\ Cardinality(standing') <= Cardinality(standing)
BY Countable DEF IInv, TypeOK

\* Every step keeps what has been read no better than what was there.
LEMMA ReadStep == ASSUME IInv, [Next]_vars PROVE ReadSound'
<1>1. CASE ~ (ReadTrail \/ ReadOpen \/ ReadPromoted \/ CountCoverage \/ Conclude
              \/ HandOver)
  <2>1. UNCHANGED reading /\ standing' \subseteq standing
    BY <1>1, OutsideStep
  <2>2. Cardinality(standing') <= Cardinality(standing)
        /\ Cardinality(standing') \in Nat /\ Cardinality(standing) \in Nat
    BY <2>1, StandingShrinks
  <2>3. ASSUME pc' \notin {"idle", "done"} PROVE seen \in Readings
    BY <2>1, <2>3 DEF IInv, TypeOK, reading
  <2> QED
    BY <2>1, <2>2, <2>3 DEF IInv, ReadSound, reading, Readings
<1>2. CASE ReadTrail
  <2> DEFINE none == MisuseIn(trail) = {}
             crossing == \E i \in WindowOf(trail) : CrossedBoundary(trail[i])
             many == Cardinality(GroundedIn(trail))
  <2>a. none \in BOOLEAN /\ crossing \in BOOLEAN
    OBVIOUS
  <2>b. /\ seen' \in {[grounded |-> many, clean |-> none,
                       gaps |-> 0, reviewed |-> 0, keys |-> 0],
                      [grounded |-> 0, clean |-> TRUE,
                       gaps |-> 0, reviewed |-> 0, keys |-> 0]}
        /\ start' = [grounded |-> many, crossed |-> crossing]
    BY <1>2 DEF ReadTrail
  <2>1. crossing => ~ none
    BY CrossingIsMisuse
  <2>2. pc' = "open"
    BY <1>2 DEF ReadTrail
  <2> HIDE DEF none, crossing, many
  <2>3. seen'.grounded > 0 =>
          /\ seen'.grounded = start'.grounded
          /\ (start'.crossed => ~ seen'.clean)
    BY <2>a, <2>b, <2>1
  <2> QED
    BY <2>2, <2>3 DEF ReadSound
<1>3. CASE ReadOpen
  <2>1. seen \in Readings /\ seen.grounded > 0 =>
          seen.grounded = start.grounded /\ (start.crossed => ~ seen.clean)
    BY <1>3 DEF ReadOpen, IInv, TypeOK, ReadSound
  <2>2. /\ seen'.grounded = seen.grounded /\ seen'.clean = seen.clean
        /\ start' = start /\ standing' = standing
        /\ ~ blind' => seen'.gaps = Cardinality(open)
    BY <1>3 DEF ReadOpen, IInv, TypeOK, Readings
  <2>3. Cardinality(standing) <= Cardinality(open)
    BY Countable DEF IInv, TypeOK
  <2>4. pc' = "promoted" /\ seen \in Readings
    BY <1>3 DEF ReadOpen, IInv, TypeOK
  <2> QED
    BY <2>1, <2>2, <2>3, <2>4 DEF ReadSound
<1>4. CASE ReadPromoted \/ CountCoverage
  <2>1. /\ pc \notin {"idle", "open", "done"} /\ pc' \notin {"idle", "open", "done"}
        /\ seen'.grounded = seen.grounded /\ seen'.clean = seen.clean
        /\ seen'.gaps = seen.gaps
        /\ UNCHANGED <<blind, start, standing>>
    BY <1>4 DEF ReadPromoted, CountCoverage, IInv, TypeOK, Readings
  <2> QED
    BY <2>1 DEF IInv, ReadSound
<1>5. CASE Conclude \/ HandOver
  BY <1>5 DEF Conclude, HandOver, ReadSound
<1> QED
  BY <1>1, <1>2, <1>3, <1>4, <1>5

\* A report that says ready read answers and gaps that clear the bars, and no
\* misuse.
LEMMA ReadyMeets ==
  ASSUME IInv, Conclude, SaysReady'
  PROVE  /\ RatesMeetBars(seen.grounded, seen.gaps) /\ seen.clean
         /\ seen \in Readings
<1>1. seen \in Readings
  BY DEF Conclude, IInv, TypeOK
<1>2. MeetsGroundBar(seen.grounded, seen.clean, seen.gaps, seen.keys)
  <2>1. PICK marked \in {ratified, FALSE} :
          report' =
            [stage    |-> Stage(seen.grounded, seen.clean, seen.gaps,
                                seen.reviewed, seen.keys, marked),
             eligible |-> /\ ~ (seen.grounded < MinAnswers
                                   /\ Band(seen.keys) = "sparse")
                          /\ MeetsGroundBar(seen.grounded, seen.clean,
                                            seen.gaps, seen.keys)
                          /\ ~ marked]
    BY DEF Conclude
  <2>2. CASE report'.eligible
    BY <2>1, <2>2
  <2>3. CASE report'.stage \in {"grounded", "sustaining"}
    BY <2>1, <2>3 DEF Stage
  <2> QED
    BY <2>2, <2>3 DEF SaysReady
<1> QED
  BY <1>1, <1>2 DEF MeetsGroundBar

\* A concluded report keeps its word.
LEMMA ReportStep ==
  ASSUME IInv, [Next]_vars PROVE MisuseBarsReadiness' /\ ReadyIsEarned'
<1>1. CASE Conclude
  <2> SUFFICES ASSUME SaysReady'
               PROVE  /\ ~ start'.crossed
                      /\ ~ blind' =>
                           /\ start'.grounded > 0
                           /\ RatesMeetBars(start.grounded, Cardinality(standing))
    BY <1>1 DEF MisuseBarsReadiness, ReadyIsEarned, RatesMeetBars, Conclude
  <2>1. /\ RatesMeetBars(seen.grounded, seen.gaps) /\ seen.clean
        /\ seen.grounded \in Nat /\ seen.gaps \in Nat
    BY <1>1, ReadyMeets DEF Readings
  <2>2. seen.grounded > 0
    BY <2>1, RatesMonotone
  <2>3. seen.grounded = start.grounded /\ ~ start.crossed
    BY <1>1, <2>1, <2>2 DEF Conclude, IInv, ReadSound
  <2>4. ~ blind => Cardinality(standing) <= seen.gaps
    BY <1>1 DEF Conclude, IInv, ReadSound
  <2>5. Cardinality(standing) \in Nat
    BY Countable DEF IInv, TypeOK
  <2>6. ~ blind => RatesMeetBars(start.grounded, Cardinality(standing))
    BY <2>1, <2>3, <2>4, <2>5, RatesMonotone
  <2>7. UNCHANGED <<blind, start>>
    BY <1>1 DEF Conclude
  <2> QED
    BY <2>2, <2>3, <2>6, <2>7
<1>2. CASE ReadTrail \/ ReadOpen \/ ReadPromoted \/ CountCoverage \/ HandOver
  <2>1. pc' # "done"
    BY <1>2 DEF ReadTrail, ReadOpen, ReadPromoted, CountCoverage, HandOver
  <2> QED
    BY <2>1 DEF MisuseBarsReadiness, ReadyIsEarned, SaysReady
<1>3. CASE ~ (ReadTrail \/ ReadOpen \/ ReadPromoted \/ CountCoverage \/ Conclude
              \/ HandOver)
  <2>1. UNCHANGED reading /\ standing' \subseteq standing
    BY <1>3, OutsideStep
  <2>2. SaysReady' <=> SaysReady
    BY <2>1 DEF SaysReady, reading
  <2>3. MisuseBarsReadiness'
    BY <2>1, <2>2 DEF IInv, MisuseBarsReadiness, reading
  <2>4. ASSUME SaysReady', ~ blind'
        PROVE  /\ start.grounded > 0
               /\ RatesMeetBars(start.grounded, Cardinality(standing'))
    <3>1. start.grounded > 0 /\ start.grounded \in Nat
      BY <2>1, <2>2, <2>4 DEF IInv, ReadyIsEarned, reading, TypeOK, SaysReady
    <3>2. /\ Cardinality(standing') <= Cardinality(standing)
          /\ Cardinality(standing') \in Nat /\ Cardinality(standing) \in Nat
      BY <2>1, StandingShrinks
    <3>3. RatesMeetBars(start.grounded, Cardinality(standing))
      BY <2>1, <2>2, <2>4, <3>1, <3>2 DEF IInv, ReadyIsEarned, RatesMeetBars, reading
    <3> QED
      BY <3>1, <3>2, <3>3, RatesMonotone
  <2>5. ReadyIsEarned'
    BY <2>1, <2>4 DEF ReadyIsEarned, RatesMeetBars, reading
  <2> QED
    BY <2>3, <2>5
<1> QED
  BY <1>1, <1>2, <1>3

\* The invariant holds before anything is asked.
LEMMA InitInv == ASSUME Init PROVE IInv
<1>1. trail \in Seq(Events) /\ Len(trail) = 0
  BY DEF Init
<1>2. TypeOK
  <2>1. Len(trail) <= MaxEvents /\ promoted \in 0..MaxPromoted
    BY <1>1, MaturityAssumption DEF Init
  <2> QED
    BY <1>1, <2>1 DEF Init, TypeOK
<1>3. pc = "idle"
  BY DEF Init
<1> QED
  BY <1>2, <1>3 DEF IInv, ReadSound, MisuseBarsReadiness, ReadyIsEarned, SaysReady

\* The inductive invariant: what a report has read flatters nobody.
THEOREM Invariance == Spec => []IInv
<1>1. IInv /\ [Next]_vars => IInv'
  BY TypeStep, ReadStep, ReportStep DEF IInv
<1> QED
  BY InitInv, <1>1, PTL DEF Spec

----------------------------------------------------------------------------
\* Growth moves every input of the stage in the instance's favour.
LEMMA GrowthStep ==
  ASSUME IInv, Growth PROVE Height[StageNow'] >= Height[StageNow]
<1> DEFINE g == Cardinality(GroundedIn(trail))
           h == Cardinality(GroundedIn(trail'))
           clean == MisuseIn(trail) = {}
           cleaner == MisuseIn(trail') = {}
           b == Cardinality(open)
           a == Cardinality(open')
<1>1. /\ trail \in Seq(Events) /\ open \subseteq Ids /\ promoted \in Nat
      /\ files \in Nat /\ ratified \in BOOLEAN
      /\ IsFiniteSet(open) /\ b \in Nat /\ g \in Nat
  BY Countable, FiniteWindow, MaturityAssumption DEF IInv, TypeOK
<1>2. /\ h \in Nat /\ g <= h /\ a \in Nat /\ a <= b
      /\ clean => cleaner
      /\ promoted' \in Nat /\ (b > 0 \/ promoted > 0 => a > 0 \/ promoted' > 0)
      /\ files' \in Nat /\ files <= files'
      /\ ratified' \in BOOLEAN /\ (ratified => ratified')
  <2>1. CASE \E call \in WellAnswered, id \in Ids : Turn(call, id)
    <3>1. PICK call \in WellAnswered, id \in Ids : Turn(call, id)
      BY <2>1
    <3>2. /\ IsGroundedAnswer(Event(Enforce(call)))
          /\ ~ IsMisuse(Event(Enforce(call))) /\ ~ IsGap(Enforce(call))
      BY GoodAnswer
    <3>3. Event(Enforce(call)) \in Events
      BY EventOf
    <3>4. open' = open /\ UNCHANGED <<promoted, files, ratified>>
      BY <3>1, <3>2 DEF Turn
    <3>5. trail' = trail \/ trail' = Append(trail, Event(Enforce(call)))
      BY <3>1 DEF Turn
    <3>6. trail' \in Seq(Events) /\ h \in Nat
      BY <1>1, <3>3, <3>5, FiniteWindow
    <3>7. g <= h /\ (clean => cleaner)
      <4>1. CASE trail' = trail
        BY <1>1, <4>1
      <4>2. CASE trail' = Append(trail, Event(Enforce(call)))
        BY <1>1, <3>2, <3>3, <4>2, OneMoreGood
      <4> QED
        BY <3>5, <4>1, <4>2
    <3> QED
      BY <1>1, <3>4, <3>6, <3>7
  <2>2. CASE \E id \in Ids : Promote(id)
    <3>1. PICK id \in Ids : Promote(id)
      BY <2>2
    <3>2. /\ open' = open \ {id} /\ promoted' = promoted + 1
          /\ UNCHANGED <<trail, files, ratified>>
      BY <3>1 DEF Promote
    <3>3. a \in Nat /\ a <= b
      BY <1>1, <3>2, Countable
    <3> QED
      BY <1>1, <3>2, <3>3
  <2>3. CASE AddFile
    <3>1. UNCHANGED <<trail, open, promoted, ratified>> /\ files' = files + 1
      BY <2>3 DEF AddFile
    <3> QED
      BY <1>1, <3>1
  <2>4. CASE Ratify
    <3>1. UNCHANGED <<trail, open, promoted, files>> /\ ratified' = TRUE
      BY <2>4 DEF Ratify
    <3> QED
      BY <1>1, <3>1
  <2> QED
    BY <2>1, <2>2, <2>3, <2>4 DEF Growth
<1>3. StageNow = Stage(g, clean, b, promoted, files, ratified)
  BY DEF StageNow
<1>4. StageNow' = Stage(h, cleaner, a, promoted', files', ratified')
  BY DEF StageNow, Stage, GroundedIn, MisuseIn, WindowOf
<1>5. clean \in BOOLEAN /\ cleaner \in BOOLEAN
  OBVIOUS
<1> HIDE DEF g, h, clean, cleaner, a, b
<1>6. Height[Stage(g, clean, b, promoted, files, ratified)]
        <= Height[Stage(h, cleaner, a, promoted', files', ratified')]
  BY <1>1, <1>2, <1>5, StageMonotone
<1>7. /\ StageNow \in DOMAIN Height /\ StageNow' \in DOMAIN Height
  BY <1>3, <1>4 DEF Stage, Height
<1>8. Height[StageNow] \in Int /\ Height[StageNow'] \in Int
  BY <1>7 DEF Height
<1> QED
  BY <1>3, <1>4, <1>6, <1>8

----------------------------------------------------------------------------
\* Type correctness, and that no report says productionized, for any calls, bars
\* and bounds.
THEOREM TypeCorrect == Spec => []TypeOK
BY Invariance, PTL DEF IInv

\* A boundary crossed in the window bars readiness (compute_maturity:181-189).
THEOREM MisuseIsSeen == Spec => []MisuseBarsReadiness
BY Invariance, PTL DEF IInv

\* Readiness is earned by the answers and the gaps there were all the while
\* (compute_maturity:194-211).
THEOREM Earned == Spec => []ReadyIsEarned
BY Invariance, PTL DEF IInv

\* Growth never demotes, for any window, bars and bands (compute_maturity:217-241).
THEOREM NoDemotionByGrowth == Spec => GrowthNeverDemotes
<1>1. IInv /\ [Next]_vars => [Growth => Height[StageNow'] >= Height[StageNow]]_vars
  BY GrowthStep
<1> QED
  BY <1>1, Invariance, PTL DEF Spec, GrowthNeverDemotes
=============================================================================
