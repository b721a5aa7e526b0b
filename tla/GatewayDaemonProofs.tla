------------------------- MODULE GatewayDaemonProofs -------------------------
(* The env file under the daemon and any number of write-env processes, for  *)
(* every skew, floor and lifetime that satisfy DaemonAssumption.             *)
EXTENDS GatewayDaemon, TLAPS

\* Refreshes keep their bound, and a token granted in one is as young as it.
Timed ==
  /\ \A p \in Procs : pc[p] \in Refreshing =>
       since[p] <= now /\ now <= since[p] + MaxRefresh
  /\ \A p \in Procs : pc[p] \in {"minted"} \cup Saving =>
       token[p] # None /\ since[p] + Ttl <= token[p]
  /\ pc[Daemon] = "asleep" => now <= wake /\ wake <= now + NextSleep

\* When the daemon's next refresh begins, or began.
Due == IF pc[Daemon] = "asleep" THEN wake ELSE since[Daemon]

\* The daemon is at work, and the token in the file, whoever put it there, lasts
\* until the daemon's next refresh is over.
Covered ==
  /\ \A p \in Writers : pc[p] # "asleep"
  /\ kept => pc[Daemon] \in {"asleep"} \cup Refreshing
  /\ kept /\ file.token # None => Due + MaxRefresh < file.token
  /\ kept /\ file.token = None => spoiled \/ \E p \in Procs : pc[p] = "emptied"

\* A token somebody wrote into a file that p had emptied is of an age with p's own,
\* give or take a refresh.
LateToken ==
  \A p \in Procs :
    pc[p] = "emptied" /\ file.token # None =>
      since[p] + Ttl <= file.token + MaxRefresh

IInv == TypeOK /\ Timed /\ LateToken /\ Covered

----------------------------------------------------------------------------
\* The margin in numbers.
LEMMA NextSleepNat ==
  /\ NextSleep \in Nat /\ MaxRefresh \in Nat /\ Ttl \in Nat
  /\ NextSleep + 3 * MaxRefresh < Ttl
BY DaemonAssumption DEF NextSleep, AtLeast

\* Type correctness is preserved.
LEMMA TypeStep == ASSUME TypeOK, Timed, [Next]_vars PROVE TypeOK'
<1> USE DaemonAssumption DEF TypeOK, Refreshing, Saving
<1>1. CASE Tick
  BY <1>1 DEF Tick
<1>2. CASE Wake
  BY <1>2 DEF Wake, Procs
<1>3. ASSUME NEW p \in Procs, Start(p) PROVE TypeOK'
  BY <1>3 DEF Start
<1>4. ASSUME NEW p \in Procs, Grant(p) PROVE TypeOK'
  BY <1>4 DEF Grant
<1>5. ASSUME NEW p \in Procs, Read(p) PROVE TypeOK'
  <2>1. file.others \in BOOLEAN
    <3>1. file \in [token : Nat \cup {None}, others : BOOLEAN]
      OBVIOUS
    <3> QED BY ONLY <3>1
  <2>2. others' \in [Procs -> BOOLEAN]
    BY <1>5, <2>1 DEF Read
  <2>3. mixed' \in BOOLEAN
    BY <1>5 DEF Read
  <2>4. pc' \in [Procs -> {"idle", "asleep"} \cup Refreshing]
    BY <1>5 DEF Read
  <2> QED BY <1>5, <2>2, <2>3, <2>4 DEF Read
<1>6. ASSUME NEW p \in Procs, Empty(p) PROVE TypeOK'
  BY <1>6 DEF Empty
<1>7. ASSUME NEW p \in Procs, Fill(p) PROVE TypeOK'
  <2>1. file' \in [token : Nat \cup {None}, others : BOOLEAN]
    <3>1. file \in [token : Nat \cup {None}, others : BOOLEAN]
          /\ token[p] \in Nat \cup {None} /\ others[p] \in BOOLEAN
      OBVIOUS
    <3>2. file' \in Overwritten(p)
      BY <1>7 DEF Fill
    <3> QED
      BY <3>1, <3>2 DEF Overwritten
  <2>2. wake' \in Nat /\ kept' \in BOOLEAN
    <3>1. CASE p = Daemon
      <4>1. wake' = now + NextSleep /\ kept' = TRUE
        BY <1>7, <3>1 DEF Fill
      <4> QED BY <4>1, NextSleepNat
    <3>2. CASE p # Daemon
      <4>1. wake' = wake /\ kept' = kept
        BY <1>7, <3>2 DEF Fill
      <4> QED BY <4>1
    <3> QED BY <3>1, <3>2
  <2>3. pc' \in [Procs -> {"idle", "asleep"} \cup Refreshing]
    BY <1>7 DEF Fill, Leave
  <2>4. /\ token' \in [Procs -> Nat \cup {None}] /\ since' \in [Procs -> Nat]
        /\ others' \in [Procs -> BOOLEAN]
    BY <1>7 DEF Fill, Leave
  <2>5. spoiled' \in BOOLEAN /\ UNCHANGED <<now, mixed>>
    BY <1>7 DEF Fill
  <2> QED BY <2>1, <2>2, <2>3, <2>4, <2>5
<1>8. ASSUME NEW p \in Procs, End(p) PROVE TypeOK'
  <2>1. /\ pc' \in [Procs -> {"idle", "asleep"} \cup Refreshing]
        /\ token' \in [Procs -> Nat \cup {None}] /\ since' \in [Procs -> Nat]
        /\ others' \in [Procs -> BOOLEAN]
    BY <1>8 DEF End, Leave
  <2>2. kept' \in BOOLEAN /\ spoiled' \in BOOLEAN /\ mixed' \in BOOLEAN
    BY <1>8 DEF End
  <2>3. UNCHANGED <<now, file, wake>>
    BY <1>8 DEF End
  <2> QED BY <2>1, <2>2, <2>3
<1>9. CASE UNCHANGED vars
  BY <1>9 DEF vars
<1> QED BY <1>1, <1>2, <1>3, <1>4, <1>5, <1>6, <1>7, <1>8, <1>9 DEF Next

\* The clocks of sleeping and refreshing processes keep their bounds.
LEMMA TimedStep == ASSUME TypeOK, Timed, [Next]_vars PROVE Timed'
<1> USE DaemonAssumption, NextSleepNat
<1>t. /\ now \in Nat /\ wake \in Nat /\ Daemon \in Procs
      /\ \A p \in Procs : since[p] \in Nat
      /\ \A p \in Procs : token[p] # None => token[p] \in Nat
  BY DEF TypeOK, Procs
<1>1. CASE Tick
  <2>1. now' = now + 1 /\ UNCHANGED <<pc, token, since, wake>>
    BY <1>1 DEF Tick
  <2>2. \A p \in Procs : pc[p] \in Refreshing => now + 1 <= since[p] + MaxRefresh
    BY <1>t, <1>1 DEF Tick
  <2>3. pc[Daemon] = "asleep" => now + 1 <= wake
    BY <1>t, <1>1 DEF Tick
  <2> QED BY <1>t, <2>1, <2>2, <2>3 DEF Timed
<1>2. CASE Wake
  <2>1. /\ pc'[Daemon] = "minting" /\ since'[Daemon] = now
        /\ UNCHANGED <<now, token>>
        /\ \A q \in Procs \ {Daemon} : pc'[q] = pc[q] /\ since'[q] = since[q]
    BY <1>t, <1>2 DEF Wake, TypeOK
  <2> QED BY <1>t, <2>1 DEF Timed, Refreshing, Saving
<1>3. ASSUME NEW p \in Procs, Start(p) PROVE Timed'
  <2>1. /\ pc'[p] = "minting" /\ since'[p] = now
        /\ UNCHANGED <<now, token, wake>>
        /\ \A q \in Procs \ {p} : pc'[q] = pc[q] /\ since'[q] = since[q]
    BY <1>3 DEF Start, TypeOK
  <2> QED BY <1>t, <2>1 DEF Timed, Refreshing, Saving
<1>4. ASSUME NEW p \in Procs, Grant(p) PROVE Timed'
  <2>1. /\ pc[p] = "minting" /\ pc'[p] = "minted" /\ token'[p] = now + Ttl
        /\ UNCHANGED <<now, since, wake>>
        /\ \A q \in Procs \ {p} : pc'[q] = pc[q] /\ token'[q] = token[q]
    BY <1>4 DEF Grant, TypeOK
  <2>2. token'[p] # None /\ since[p] + Ttl <= token'[p]
    BY <1>t, <2>1 DEF Timed, Refreshing
  <2> QED BY <1>t, <2>1, <2>2 DEF Timed, Refreshing, Saving
<1>5. ASSUME NEW p \in Procs, Read(p) \/ Empty(p) PROVE Timed'
  <2>1. /\ pc[p] \in {"minted", "loaded"} /\ pc'[p] \in Saving
        /\ UNCHANGED <<now, since, wake, token>>
        /\ \A q \in Procs \ {p} : pc'[q] = pc[q]
    BY <1>5 DEF Read, Empty, TypeOK, Saving
  <2> QED BY <1>t, <2>1 DEF Timed, Refreshing, Saving
<1>6. ASSUME NEW p \in Procs, Fill(p) PROVE Timed'
  <2>1. /\ pc'[p] = IF p = Daemon THEN "asleep" ELSE "idle"
        /\ now' = now
        /\ wake' = IF p = Daemon THEN now + NextSleep ELSE wake
        /\ \A q \in Procs \ {p} : /\ pc'[q] = pc[q] /\ since'[q] = since[q]
                                  /\ token'[q] = token[q]
    BY <1>6 DEF Fill, Leave, TypeOK
  <2> QED BY <1>t, <2>1 DEF Timed, Refreshing, Saving
<1>7. ASSUME NEW p \in Procs, End(p) PROVE Timed'
  <2>1. /\ pc'[p] = "idle" /\ UNCHANGED <<now, wake>>
        /\ \A q \in Procs \ {p} : /\ pc'[q] = pc[q] /\ since'[q] = since[q]
                                  /\ token'[q] = token[q]
    BY <1>7 DEF End, Leave, TypeOK
  <2> QED BY <1>t, <2>1 DEF Timed, Refreshing, Saving
<1>8. CASE UNCHANGED vars
  BY <1>8 DEF vars, Timed
<1> QED BY <1>1, <1>2, <1>3, <1>4, <1>5, <1>6, <1>7, <1>8 DEF Next

\* What ends up in the file when p has filled it: p's token or a late one, which in
\* either case lasts for a sleep and one more refresh.
LEMMA Filled ==
  ASSUME TypeOK, Timed, LateToken, NEW p \in Procs, Fill(p)
  PROVE  /\ file'.token \in Nat
         /\ file'.token = token[p] \/ file'.token = file.token
         /\ now + NextSleep + MaxRefresh < file'.token
 <1> USE NextSleepNat
<1>1. /\ pc[p] = "emptied" /\ file' \in Overwritten(p)
  BY DEF Fill
<1>2. /\ now \in Nat /\ since[p] \in Nat /\ token[p] \in Nat \cup {None}
      /\ file.token \in Nat \cup {None} /\ None \notin Nat
  BY DaemonAssumption DEF TypeOK
<1>3. /\ token[p] # None /\ since[p] + Ttl <= token[p]
      /\ now <= since[p] + MaxRefresh
  BY <1>1 DEF Timed, Refreshing, Saving
<1>4. /\ file'.token # None
      /\ file'.token = token[p] \/ file'.token = file.token
  BY <1>1, <1>3 DEF Overwritten
<1>5. file'.token # token[p] => since[p] + Ttl <= file'.token + MaxRefresh
  BY <1>1, <1>4 DEF LateToken
<1>6. file'.token \in Nat
  BY <1>2, <1>4
<1> QED
  BY <1>2, <1>3, <1>4, <1>5, <1>6

\* Tokens that are written late keep their age.
LEMMA LateStep == ASSUME TypeOK, Timed, LateToken, [Next]_vars PROVE LateToken'
<1> USE NextSleepNat
<1>t. /\ now \in Nat /\ Daemon \in Procs /\ file.token \in Nat \cup {None}
      /\ \A p \in Procs : since[p] \in Nat
  BY DEF TypeOK, Procs
<1>1. ASSUME file' = file,
             \A q \in Procs : pc'[q] = "emptied" => pc[q] = "emptied" /\ since'[q] = since[q]
      PROVE  LateToken'
  BY <1>1 DEF LateToken
<1>2. CASE Tick \/ Wake \/ UNCHANGED vars
  BY <1>t, <1>1, <1>2 DEF Tick, Wake, vars, TypeOK
<1>3. ASSUME NEW p \in Procs, Start(p) \/ Grant(p) \/ Read(p) PROVE LateToken'
  BY <1>t, <1>1, <1>3 DEF Start, Grant, Read, TypeOK
<1>4. ASSUME NEW p \in Procs, End(p) PROVE LateToken'
  BY <1>t, <1>1, <1>4 DEF End, Leave, TypeOK
<1>5. ASSUME NEW p \in Procs, Empty(p) PROVE LateToken'
  BY <1>5 DEF Empty, LateToken
<1>6. ASSUME NEW p \in Procs, Fill(p) PROVE LateToken'
  <2>1. /\ pc'[p] # "emptied"
        /\ \A q \in Procs \ {p} : pc'[q] = pc[q] /\ since'[q] = since[q]
    BY <1>6 DEF Fill, Leave, TypeOK
  <2>2. /\ file'.token \in Nat
        /\ file'.token = token[p] \/ file'.token = file.token
    BY <1>6, Filled
  <2>3. /\ pc[p] = "emptied" /\ token[p] # None /\ since[p] + Ttl <= token[p]
        /\ now <= since[p] + MaxRefresh
    BY <1>6 DEF Fill, Timed, Refreshing, Saving
  <2>4. ASSUME NEW q \in Procs, q # p, pc[q] = "emptied"
        PROVE  since[q] + Ttl <= file'.token + MaxRefresh
    <3>1. since[q] <= now
      BY <2>4 DEF Timed, Refreshing, Saving
    <3>2. CASE file'.token = token[p]
      BY <1>t, <2>2, <2>3, <3>1, <3>2
    <3>3. CASE file'.token = file.token
      <4>1. file.token # None
        BY <2>2, <3>3, DaemonAssumption
      <4> QED
        BY <2>4, <3>3, <4>1 DEF LateToken
    <3> QED
      BY <2>2, <3>2, <3>3
  <2> QED
    BY <2>1, <2>4 DEF LateToken
<1> QED
  BY <1>2, <1>3, <1>4, <1>5, <1>6 DEF Next

\* The token in the file stays good for a whole refresh more, whoever saves.
LEMMA CoveredStep == ASSUME IInv, [Next]_vars PROVE Covered'
<1> USE DaemonAssumption, NextSleepNat
<1>0. TypeOK /\ Timed /\ LateToken /\ Covered
  BY DEF IInv
<1>t. /\ now \in Nat /\ wake \in Nat /\ Daemon \in Procs
      /\ \A p \in Procs : since[p] \in Nat
      /\ \A p \in Procs : token[p] # None => token[p] \in Nat
      /\ \A p \in Writers : p \in Procs /\ p # Daemon
  BY <1>0 DEF TypeOK, Procs
<1>1. CASE Tick
  BY <1>0, <1>1 DEF Tick, Covered, Due
<1>2. CASE Wake
  <2>1. /\ pc[Daemon] = "asleep" /\ now >= wake
        /\ pc'[Daemon] = "minting" /\ since'[Daemon] = now
        /\ UNCHANGED <<file, kept, spoiled>>
        /\ \A q \in Procs \ {Daemon} : pc'[q] = pc[q]
    BY <1>0, <1>t, <1>2 DEF Wake, TypeOK
  <2>2. now = wake
    BY <1>0, <1>t, <2>1 DEF Timed
  <2>3. Due' = Due
    BY <2>1, <2>2 DEF Due
  <2>4. kept' => pc'[Daemon] \in {"asleep"} \cup Refreshing
    BY <2>1 DEF Refreshing
  <2>5. \A p \in Writers : pc'[p] # "asleep"
    BY <1>0, <1>t, <2>1 DEF Covered
  <2>6. (\E p \in Procs : pc[p] = "emptied") => \E p \in Procs : pc'[p] = "emptied"
    BY <2>1
  <2> QED BY <1>0, <2>1, <2>3, <2>4, <2>5, <2>6 DEF Covered
<1>3. ASSUME NEW p \in Procs, Start(p) PROVE Covered'
  <2>1. /\ pc[p] = "idle" /\ pc'[p] = "minting"
        /\ UNCHANGED <<file, kept, spoiled, wake>>
        /\ \A q \in Procs \ {p} : pc'[q] = pc[q] /\ since'[q] = since[q]
    BY <1>0, <1>3 DEF Start, TypeOK
  <2>2. kept => p # Daemon
    BY <1>0, <2>1 DEF Covered, Refreshing, Saving
  <2>3. kept => Due' = Due
    BY <1>t, <2>1, <2>2 DEF Due
  <2>4. (\E q \in Procs : pc[q] = "emptied") => \E q \in Procs : pc'[q] = "emptied"
    BY <2>1
  <2> QED BY <1>0, <1>t, <2>1, <2>2, <2>3, <2>4 DEF Covered
<1>4. ASSUME NEW p \in Procs, Grant(p) \/ Read(p) PROVE Covered'
  <2>1. /\ pc[p] \in {"minting", "minted"} /\ pc'[p] \in {"minted", "loaded"}
        /\ UNCHANGED <<file, kept, spoiled, wake, since>>
        /\ \A q \in Procs \ {p} : pc'[q] = pc[q]
    BY <1>0, <1>4 DEF Grant, Read, TypeOK
  <2>2. Due' = Due
    BY <1>t, <2>1 DEF Due
  <2>3. kept' => pc'[Daemon] \in {"asleep"} \cup Refreshing
    BY <1>0, <1>t, <2>1 DEF Covered, Refreshing, Saving
  <2>4. \A q \in Writers : pc'[q] # "asleep"
    BY <1>0, <1>t, <2>1 DEF Covered
  <2>5. (\E q \in Procs : pc[q] = "emptied") => \E q \in Procs : pc'[q] = "emptied"
    BY <2>1
  <2> QED BY <1>0, <2>1, <2>2, <2>3, <2>4, <2>5 DEF Covered
<1>5. ASSUME NEW p \in Procs, Empty(p) PROVE Covered'
  <2>1. /\ pc[p] = "loaded" /\ pc'[p] = "emptied" /\ file'.token = None
        /\ UNCHANGED <<kept, spoiled>>
        /\ \A q \in Procs \ {p} : pc'[q] = pc[q]
    BY <1>0, <1>5 DEF Empty, TypeOK
  <2>2. kept' => pc'[Daemon] \in {"asleep"} \cup Refreshing
    BY <1>0, <1>t, <2>1 DEF Covered, Refreshing, Saving
  <2>3. \A q \in Writers : pc'[q] # "asleep"
    BY <1>0, <1>t, <2>1 DEF Covered
  <2> QED BY <2>1, <2>2, <2>3 DEF Covered
<1>6. ASSUME NEW p \in Procs, Fill(p) PROVE Covered'
  <2>1. /\ pc[p] = "emptied" /\ pc'[p] = IF p = Daemon THEN "asleep" ELSE "idle"
        /\ spoiled' = FALSE
        /\ wake' = IF p = Daemon THEN now + NextSleep ELSE wake
        /\ p # Daemon => kept' = kept
        /\ \A q \in Procs \ {p} : pc'[q] = pc[q] /\ since'[q] = since[q]
    BY <1>0, <1>6 DEF Fill, Leave, TypeOK
  <2>2. /\ file'.token \in Nat /\ file'.token # None
        /\ now + NextSleep + MaxRefresh < file'.token
    BY <1>0, <1>6, Filled
  <2>3. kept' => Due' + MaxRefresh < file'.token
    <3>1. CASE p = Daemon
      BY <2>1, <2>2, <3>1 DEF Due
    <3>2. CASE p # Daemon /\ kept /\ pc[Daemon] = "asleep"
      <4>1. Due' = wake /\ wake <= now + NextSleep
        BY <1>0, <1>t, <2>1, <3>2 DEF Due, Timed
      <4> QED BY <1>t, <2>2, <4>1
    <3>3. CASE p # Daemon /\ kept /\ pc[Daemon] # "asleep"
      <4>1. Due' = since[Daemon] /\ since[Daemon] <= now
        BY <1>0, <1>t, <2>1, <3>3 DEF Due, Timed, Covered
      <4> QED BY <1>t, <2>2, <4>1
    <3> QED BY <2>1, <3>1, <3>2, <3>3
  <2>4. kept' => pc'[Daemon] \in {"asleep"} \cup Refreshing
    BY <1>0, <1>t, <2>1 DEF Covered
  <2>5. \A q \in Writers : pc'[q] # "asleep"
    BY <1>0, <1>t, <2>1 DEF Covered
  <2> QED BY <2>1, <2>2, <2>3, <2>4, <2>5 DEF Covered
<1>7. ASSUME NEW p \in Procs, End(p) PROVE Covered'
  <2>1. /\ pc'[p] = "idle" /\ file' = file /\ wake' = wake
        /\ kept' = (kept /\ p # Daemon)
        /\ spoiled' = (spoiled \/ pc[p] = "emptied")
        /\ \A q \in Procs \ {p} : pc'[q] = pc[q] /\ since'[q] = since[q]
    BY <1>0, <1>7 DEF End, Leave, TypeOK
  <2>2. kept' => Due' = Due
    BY <1>t, <2>1 DEF Due
  <2>3. kept' => pc'[Daemon] \in {"asleep"} \cup Refreshing
    BY <1>0, <1>t, <2>1 DEF Covered
  <2>4. \A q \in Writers : pc'[q] # "asleep"
    BY <1>0, <1>t, <2>1 DEF Covered
  <2>5. (\E q \in Procs : pc[q] = "emptied") =>
          spoiled' \/ \E q \in Procs : pc'[q] = "emptied"
    BY <2>1
  <2>6. spoiled => spoiled'
    BY <2>1
  <2> QED BY <1>0, <2>1, <2>2, <2>3, <2>4, <2>5, <2>6 DEF Covered
<1>8. CASE UNCHANGED vars
  BY <1>0, <1>8 DEF vars, Covered, Due
<1> QED BY <1>1, <1>2, <1>3, <1>4, <1>5, <1>6, <1>7, <1>8 DEF Next

----------------------------------------------------------------------------
\* IInv holds of every reachable state.
THEOREM Invariant == Spec => []IInv
<1>1. Init => IInv
  <2> SUFFICES ASSUME Init PROVE IInv
    OBVIOUS
  <2>1. TypeOK
    BY DEF Init, TypeOK
  <2>2. Timed
    BY DEF Init, Timed, Refreshing, Saving, Procs
  <2>3. LateToken /\ Covered
    BY DEF Init, LateToken, Covered, Procs
  <2> QED BY <2>1, <2>2, <2>3 DEF IInv
<1>2. IInv /\ [Next]_vars => IInv'
  BY TypeStep, TimedStep, LateStep, CoveredStep DEF IInv
<1> QED BY <1>1, <1>2, PTL DEF Spec

\* The env file holds a good token while the daemon is at work, whatever margin
\* and lifetime leave time for three refreshes, and however many write-env
\* processes save to it, over each other's halves of saves too (gateway_token.py, run and _next_sleep).
THEOREM DaemonKeepsFileFresh == Spec => []FileKeptFresh
<1>1. IInv => FileKeptFresh
  <2> SUFFICES ASSUME IInv, kept, ~ spoiled, \A p \in Procs : pc[p] # "emptied"
               PROVE  file.token # None /\ now < file.token
    BY DEF FileKeptFresh
  <2>1. file.token # None /\ Due + MaxRefresh < file.token
    BY DEF IInv, Covered
  <2>2. now <= Due + MaxRefresh
    <3>1. Daemon \in Procs /\ now \in Nat /\ wake \in Nat /\ since[Daemon] \in Nat
      BY DEF IInv, TypeOK, Procs
    <3>2. CASE pc[Daemon] = "asleep"
      BY <3>1, <3>2, NextSleepNat DEF Due, IInv, Timed
    <3>3. CASE pc[Daemon] # "asleep"
      BY <3>1, <3>3 DEF Due, IInv, Timed, Covered
    <3> QED BY <3>2, <3>3
  <2>3. now \in Nat /\ Due \in Nat /\ file.token \in Nat /\ MaxRefresh \in Nat
    <3>1. file \in [token : Nat \cup {None}, others : BOOLEAN]
      BY DEF IInv, TypeOK
    <3>2. file.token \in Nat
      BY <2>1, <3>1
    <3>3. now \in Nat /\ Due \in Nat
      BY DEF IInv, TypeOK, Due, Procs
    <3> QED BY <3>2, <3>3, NextSleepNat
  <2> QED BY <2>1, <2>2, <2>3
<1> QED BY <1>1, Invariant, PTL

\* Type correctness.
THEOREM TypeCorrect == Spec => []TypeOK
<1>1. IInv => TypeOK
  BY DEF IInv
<1> QED BY <1>1, Invariant, PTL

----------------------------------------------------------------------------
\* As long as nothing was mixed, saves come one at a time and the other lines are
\* in the file, or with the process that is saving it.
Apart ==
  ~ mixed =>
    /\ \A p, q \in Procs : pc[p] \in Saving /\ pc[q] \in Saving => p = q
    /\ \A p \in Procs : pc[p] \in Saving => others[p]
    /\ (\A p \in Procs : pc[p] # "emptied") => file.others

\* One save at a time hands the other lines back.
LEMMA ApartStep == ASSUME TypeOK, Apart, [Next]_vars PROVE Apart'
<1> USE DEF Saving
<1>1. CASE Tick
  BY <1>1 DEF Tick, Apart
<1>2. CASE Wake
  <2>1. /\ pc'[Daemon] = "minting" /\ UNCHANGED <<file, others, mixed>>
        /\ \A q \in Procs \ {Daemon} : pc'[q] = pc[q]
        /\ pc[Daemon] = "asleep" /\ Daemon \in Procs
    BY <1>2 DEF Wake, TypeOK, Procs
  <2> QED BY <2>1 DEF Apart
<1>3. ASSUME NEW p \in Procs, Start(p) \/ Grant(p) PROVE Apart'
  <2>1. /\ pc[p] \in {"idle", "minting"} /\ pc'[p] \in {"minting", "minted"}
        /\ UNCHANGED <<file, others, mixed>>
        /\ \A q \in Procs \ {p} : pc'[q] = pc[q]
    BY <1>3 DEF Start, Grant, TypeOK
  <2> QED BY <2>1 DEF Apart
<1>4. ASSUME NEW p \in Procs, Read(p) PROVE Apart'
  <2> SUFFICES ASSUME ~ mixed' PROVE Apart'
    BY DEF Apart
  <2>1. ~ mixed /\ \A q \in Procs \ {p} : pc[q] \notin Saving
    BY <1>4 DEF Read
  <2>2. /\ pc[p] = "minted" /\ pc'[p] = "loaded" /\ file' = file
        /\ others'[p] = file.others
        /\ \A q \in Procs \ {p} : pc'[q] = pc[q]
    BY <1>4 DEF Read, TypeOK
  <2>3. \A q \in Procs : pc[q] # "emptied"
    BY <2>1, <2>2
  <2>4. file.others
    BY <2>1, <2>3 DEF Apart
  <2>5. \A q \in Procs : pc'[q] \in Saving => q = p
    BY <2>1, <2>2
  <2>6. \A q \in Procs : pc'[q] \in Saving => others'[q]
    BY <2>2, <2>4, <2>5
  <2> QED BY <2>2, <2>4, <2>5, <2>6 DEF Apart
<1>5. ASSUME NEW p \in Procs, Empty(p) PROVE Apart'
  <2>1. /\ pc[p] = "loaded" /\ pc'[p] = "emptied"
        /\ UNCHANGED <<others, mixed>>
        /\ \A q \in Procs \ {p} : pc'[q] = pc[q]
    BY <1>5 DEF Empty, TypeOK
  <2>2. /\ \A q \in Procs : pc'[q] \in Saving <=> pc[q] \in Saving
        /\ ~ \A q \in Procs : pc'[q] # "emptied"
    BY <2>1
  <2> QED BY <2>1, <2>2 DEF Apart
<1>6. ASSUME NEW p \in Procs, Fill(p) PROVE Apart'
  <2>1. /\ pc[p] = "emptied" /\ pc'[p] \in {"asleep", "idle"}
        /\ file' \in Overwritten(p) /\ mixed' = mixed
        /\ \A q \in Procs \ {p} : pc'[q] = pc[q] /\ others'[q] = others[q]
    BY <1>6 DEF Fill, Leave, TypeOK
  <2> SUFFICES ASSUME ~ mixed PROVE Apart'
    BY <2>1 DEF Apart
  <2>2. \A q \in Procs : pc'[q] \notin Saving
    BY <2>1 DEF Apart
  <2>3. others[p]
    BY <2>1 DEF Apart
  <2>4. file'.others
    BY <2>1, <2>3 DEF Overwritten
  <2> QED BY <2>2, <2>4 DEF Apart
<1>7. ASSUME NEW p \in Procs, End(p) PROVE Apart'
  <2>1. /\ pc'[p] = "idle" /\ file' = file
        /\ mixed' = (mixed \/ pc[p] = "emptied")
        /\ \A q \in Procs \ {p} : pc'[q] = pc[q] /\ others'[q] = others[q]
    BY <1>7 DEF End, Leave, TypeOK
  <2> SUFFICES ASSUME ~ mixed, pc[p] # "emptied" PROVE Apart'
    BY <2>1 DEF Apart
  <2>2. \A q \in Procs : pc'[q] \in Saving => pc[q] \in Saving /\ q # p
    BY <2>1
  <2>3. (\A q \in Procs : pc'[q] # "emptied") => \A q \in Procs : pc[q] # "emptied"
    BY <2>1
  <2> QED BY <2>1, <2>2, <2>3 DEF Apart
<1>8. CASE UNCHANGED vars
  BY <1>8 DEF vars, Apart
<1> QED BY <1>1, <1>2, <1>3, <1>4, <1>5, <1>6, <1>7, <1>8 DEF Next

\* The user's other lines survive every save that was alone and came to its end,
\* for any number of processes (write_env_token).
THEOREM LoneSavesKeepOthers == Spec => []OthersKept
<1>1. Init => Apart
  BY DEF Init, Apart, Saving
<1>2. TypeOK /\ Apart /\ [Next]_vars => Apart'
  BY ApartStep
<1>3. Apart => OthersKept
  BY DEF Apart, OthersKept
<1> QED BY <1>1, <1>2, <1>3, TypeCorrect, PTL DEF Spec
=============================================================================
