------------------------- MODULE TokenProviderProofs -------------------------
(* What the bridge's token provider and client do for any number of calls,   *)
(* any clock and any durations that satisfy TokenAssumption.                 *)
EXTENDS TokenProvider, TLAPS

\* Minting is what the lock protects, and whoever has an answer has a token.
Held ==
  /\ \A c \in Calls : pc[c] \in Minting <=> lock = c
  /\ \A c \in Calls : pc[c] \in {"minted", "posting"} => token[c] # None
  /\ \A c \in Calls : pc[c] \in Working => attempt[c] \in {1, 2}

Base == TypeOK /\ Held

\* Waits keep their bounds; the cache is never more optimistic than the issuer
\* by more than the floor; a call leaves get_token with time for its exchange.
Timed ==
  /\ \A i \in 1..Len(issued) : issued[i].from <= now
  /\ \A c \in Calls : pc[c] \in Minting =>
       since[c] <= now /\ now <= since[c] + MaxMint
  /\ \A c \in Calls : pc[c] = "minted" => since[c] <= issued[token[c]].from
  /\ \A c \in Calls : pc[c] = "posting" =>
       now <= since[c] + MaxPost /\ since[c] + MaxPost < Ends(token[c])
  /\ cache.token # None =>
       cache.expiry <= issued[cache.token].from
                         + AtLeast(MinTtl, issued[cache.token].ttl)

\* Once a call has invalidated the cache, nothing older than its rejection is
\* cached, being minted, or used by it.
Fresh ==
  \A c \in Calls : attempt[c] = 2 =>
    /\ cache.token # None => seen[c] < cache.token
    /\ \A d \in Calls : pc[d] = "minted" => seen[c] < token[d]
    /\ pc[c] = "posting" => seen[c] < token[c]

\* A rejection takes a sign-out, and every token the first one ended had been
\* issued before it.
Counted ==
  \A c \in Calls \ Forbidden :
    /\ pc[c] = "rejected" \/ attempt[c] = 2 =>
         signOuts >= 1 /\ (signOuts = 1 => revoked <= seen[c])
    /\ pc[c] = "denied" => signOuts >= 2

SignOutsCounted == revoked > 0 => signOuts >= 1

IInv == Base /\ Timed /\ Fresh /\ Counted /\ SignOutsCounted

----------------------------------------------------------------------------
\* A new token goes behind the others and leaves them as they are.
LEMMA IssueGrows ==
  ASSUME TypeOK, NEW ttl \in Lifetimes,
         issued' = Append(issued, [from |-> now, ttl |-> ttl])
  PROVE  /\ issued' \in Seq([from : Nat, ttl : Lifetimes])
         /\ Len(issued) \in Nat
         /\ Len(issued') = Len(issued) + 1
         /\ issued'[Len(issued) + 1] = [from |-> now, ttl |-> ttl]
         /\ \A i \in 1..Len(issued) : issued'[i] = issued[i]
<1>1. now \in Nat /\ issued \in Seq([from : Nat, ttl : Lifetimes])
  BY TokenAssumption DEF TypeOK
<1>2. [from |-> now, ttl |-> ttl] \in [from : Nat, ttl : Lifetimes]
  BY <1>1
<1> QED BY <1>1, <1>2

\* What TypeOK says of one token.
LEMMA TokenType ==
  ASSUME TypeOK, NEW i \in 1..Len(issued)
  PROVE  /\ issued[i].from \in Nat /\ issued[i].ttl \in Nat
         /\ issued[i].ttl \in Lifetimes
         /\ MaxMint + MaxPost < issued[i].ttl
<1> DEFINE Token == [from : Nat, ttl : Lifetimes]
<1>1. issued \in Seq(Token)
  BY DEF TypeOK
<1> HIDE DEF Token
<1>2. issued[i] \in Token
  BY <1>1
<1>3. issued[i].from \in Nat /\ issued[i].ttl \in Lifetimes
  BY <1>2 DEF Token
<1> QED BY <1>3, TokenAssumption

\* What TypeOK says of the clock, the cache and the tokens the calls hold.
LEMMA Ranges ==
  ASSUME TypeOK
  PROVE  /\ now \in Nat
         /\ \A c \in Calls : since[c] \in Nat
         /\ \A c \in Calls : token[c] # None => token[c] \in 1..Len(issued)
         /\ cache.token # None => cache.token \in 1..Len(issued)
         /\ cache.expiry \in Nat
<1>1. now \in Nat
  BY TokenAssumption DEF TypeOK
<1>2. /\ \A c \in Calls : since[c] \in Nat
      /\ \A c \in Calls : token[c] # None => token[c] \in 1..Len(issued)
  BY DEF TypeOK
<1>3. cache \in [token : 1..Len(issued) \cup {None}, expiry : Nat]
  BY DEF TypeOK
<1>4. cache.token \in 1..Len(issued) \cup {None} /\ cache.expiry \in Nat
  BY <1>3
<1> QED BY <1>1, <1>2, <1>4

\* Whatever step a call leaves for, its variables stay in their ranges.
LEMMA LeaveTyped ==
  ASSUME TypeOK, NEW c \in Calls, NEW next \in {"idle"} \cup Working \cup Ended,
         Leave(c, next)
  PROVE  /\ pc' \in [Calls -> {"idle"} \cup Working \cup Ended]
         /\ token' \in [Calls -> 1..Len(issued) \cup {None}]
         /\ since' \in [Calls -> Nat]
BY DEF TypeOK, Leave

\* Type correctness is preserved: what a call stores in the cache is the token
\* it was granted.
LEMMA TypeStep == ASSUME Base, [Next]_vars PROVE TypeOK'
<1> USE TokenAssumption DEF Minting, Working, Ended
<1>0. TypeOK
  BY DEF Base
<1>1. CASE Tick
  BY <1>0, <1>1 DEF Tick, TypeOK, callVars
<1>2. CASE SignOut
  BY <1>0, <1>2 DEF SignOut, TypeOK, callVars
<1>3. ASSUME NEW c \in Calls, Begin(c) PROVE TypeOK'
  BY <1>0, <1>3 DEF Begin, TypeOK, world
<1>4. ASSUME NEW c \in Calls, GetCached(c) PROVE TypeOK'
  BY <1>0, <1>4 DEF GetCached, Usable, TypeOK, world
<1>5. ASSUME NEW c \in Calls, StartMint(c) PROVE TypeOK'
  BY <1>0, <1>5 DEF StartMint, TypeOK, world
<1>6. ASSUME NEW c \in Calls, Issue(c) PROVE TypeOK'
  <2>1. PICK ttl \in Lifetimes :
          issued' = Append(issued, [from |-> now, ttl |-> ttl])
    BY <1>6 DEF Issue
  <2>2. /\ issued' \in Seq([from : Nat, ttl : Lifetimes])
        /\ Len(issued') = Len(issued) + 1 /\ Len(issued) \in Nat
    BY <1>0, <2>1, IssueGrows
  <2>3. /\ 1..Len(issued) \subseteq 1..Len(issued')
        /\ 0..Len(issued) \subseteq 0..Len(issued')
        /\ Len(issued) + 1 \in 1..Len(issued')
    BY <2>2
  <2>4. token' \in [Calls -> 1..Len(issued') \cup {None}]
    BY <1>0, <1>6, <2>3 DEF Issue, TypeOK
  <2>5. cache' \in [token : 1..Len(issued') \cup {None}, expiry : Nat]
    BY <1>0, <1>6, <2>3 DEF Issue, TypeOK
  <2>6. revoked' \in 0..Len(issued') /\ seen' \in [Calls -> 0..Len(issued')]
    BY <1>0, <1>6, <2>3 DEF Issue, TypeOK
  <2> QED BY <1>0, <1>6, <2>2, <2>4, <2>5, <2>6 DEF Issue, TypeOK
<1>7. ASSUME NEW c \in Calls, FinishMint(c) PROVE TypeOK'
  <2>1. token[c] \in 1..Len(issued) /\ since[c] \in Nat /\ now \in Nat
    BY <1>0, <1>7 DEF TypeOK, Base, Held, FinishMint
  <2>2. AtLeast(MinTtl, issued[token[c]].ttl) \in Nat
    BY <1>0, <2>1, TokenType DEF AtLeast
  <2>3. cache' \in [token : 1..Len(issued) \cup {None}, expiry : Nat]
    BY <1>7, <2>1, <2>2 DEF FinishMint
  <2> QED BY <1>0, <1>7, <2>1, <2>3 DEF FinishMint, TypeOK, world
<1>8. ASSUME NEW c \in Calls, MintRaises(c) PROVE TypeOK'
  <2>1. Leave(c, "failed")
    BY <1>8 DEF MintRaises
  <2> QED BY <1>0, <1>8, <2>1, LeaveTyped DEF MintRaises, TypeOK, world
<1>9. ASSUME NEW c \in Calls, Serve(c) PROVE TypeOK'
  <2>1. Leave(c, "answered")
    BY <1>9 DEF Serve
  <2> QED BY <1>0, <1>9, <2>1, LeaveTyped DEF Serve, TypeOK, world
<1>10. ASSUME NEW c \in Calls, PostRaises(c) PROVE TypeOK'
  <2>1. Leave(c, "failed")
    BY <1>10 DEF PostRaises
  <2> QED BY <1>0, <1>10, <2>1, LeaveTyped DEF PostRaises, TypeOK, world
<1>11. ASSUME NEW c \in Calls, Reject(c) PROVE TypeOK'
  <2>1. Len(issued) \in 0..Len(issued)
    BY <1>0 DEF TypeOK
  <2>2. PICK next \in {"rejected", "denied"} : Leave(c, next)
    BY <1>11 DEF Reject
  <2>3. seen' \in [Calls -> 0..Len(issued)]
    BY <1>0, <1>11, <2>1 DEF Reject, TypeOK
  <2>4. UNCHANGED <<world, lock, cache, attempt>>
    BY <1>11 DEF Reject
  <2> QED BY <1>0, <2>2, <2>3, <2>4, LeaveTyped DEF TypeOK, world
<1>12. ASSUME NEW c \in Calls, Invalidate(c) PROVE TypeOK'
  <2>1. cache' \in [token : 1..Len(issued) \cup {None}, expiry : Nat]
    BY <1>0, <1>12 DEF Invalidate, TypeOK
  <2>2. attempt' \in [Calls -> 0..2]
    BY <1>0, <1>12 DEF Invalidate, TypeOK
  <2>3. pc' \in [Calls -> {"idle"} \cup Working \cup Ended]
    BY <1>0, <1>12 DEF Invalidate, TypeOK
  <2> QED BY <1>0, <1>12, <2>1, <2>2, <2>3 DEF Invalidate, TypeOK, world
<1>13. CASE UNCHANGED vars
  BY <1>0, <1>13 DEF TypeOK, vars
<1> QED BY <1>1, <1>2, <1>3, <1>4, <1>5, <1>6, <1>7, <1>8, <1>9, <1>10, <1>11,
           <1>12, <1>13 DEF Next, Step

\* The lock is preserved as what protects the mint.
LEMMA HeldStep == ASSUME Base, [Next]_vars PROVE Held'
<1> USE TokenAssumption DEF Minting, Working, Base, Held, TypeOK
<1>1. CASE Tick \/ SignOut
  BY <1>1 DEF Tick, SignOut, callVars
<1>2. ASSUME NEW c \in Calls, Begin(c) PROVE Held'
  BY <1>2 DEF Begin, world
<1>3. ASSUME NEW c \in Calls, GetCached(c) PROVE Held'
  BY <1>3 DEF GetCached, Usable, world
<1>4. ASSUME NEW c \in Calls, StartMint(c) PROVE Held'
  BY <1>4 DEF StartMint, world
<1>5. ASSUME NEW c \in Calls, Issue(c) PROVE Held'
  <2>1. Len(issued) + 1 # None
    OBVIOUS
  <2> QED BY <1>5, <2>1 DEF Issue
<1>6. ASSUME NEW c \in Calls, FinishMint(c) PROVE Held'
  BY <1>6 DEF FinishMint, world
<1>7. ASSUME NEW c \in Calls, MintRaises(c) PROVE Held'
  BY <1>7 DEF MintRaises, Leave, world
<1>8. ASSUME NEW c \in Calls, Serve(c) \/ PostRaises(c) PROVE Held'
  BY <1>8 DEF Serve, PostRaises, Leave, world
<1>9. ASSUME NEW c \in Calls, Reject(c) PROVE Held'
  BY <1>9 DEF Reject, Leave, world
<1>10. ASSUME NEW c \in Calls, Invalidate(c) PROVE Held'
  BY <1>10 DEF Invalidate, world
<1>11. CASE UNCHANGED vars
  BY <1>11 DEF vars
<1> QED BY <1>1, <1>2, <1>3, <1>4, <1>5, <1>6, <1>7, <1>8, <1>9, <1>10, <1>11
        DEF Next, Step
\* What Timed says of an action that leaves the clock and the tokens alone.
LEMMA TimedOfCall ==
  ASSUME Base, Timed, TypeOK', UNCHANGED <<now, issued>>, NEW c \in Calls,
         \A d \in Calls \ {c} : /\ pc'[d] = pc[d] /\ token'[d] = token[d]
                                /\ since'[d] = since[d],
         pc'[c] \in Minting => since'[c] <= now /\ now <= since'[c] + MaxMint,
         pc'[c] # "minted",
         pc'[c] = "posting" =>
           now <= since'[c] + MaxPost /\ since'[c] + MaxPost < Ends(token'[c]),
         cache'.token # None =>
           cache'.expiry <= issued[cache'.token].from
                              + AtLeast(MinTtl, issued[cache'.token].ttl)
  PROVE  Timed'
BY DEF Timed, Ends, AtLeast

\* A call that leaves waits for nobody, so the bounds stay what they were.
LEMMA TimedOfLeave ==
  ASSUME Base, Timed, NEW c \in Calls,
         NEW next \in {"failed", "answered", "rejected", "denied"},
         Leave(c, next), UNCHANGED <<now, issued, cache>>
  PROVE  Timed'
<1>1. /\ pc'[c] = next
      /\ \A d \in Calls \ {c} : /\ pc'[d] = pc[d] /\ token'[d] = token[d]
                                /\ since'[d] = since[d]
  BY DEF Leave, Base, TypeOK
<1>2. next \notin Minting /\ next # "minted" /\ next # "posting"
  BY DEF Minting
<1> QED BY <1>1, <1>2 DEF Timed, Ends

\* The bounds on waits and on the cache are preserved.
LEMMA TimedStep == ASSUME Base, Timed, [Next]_vars PROVE Timed'
<1> USE TokenAssumption
<1>0. TypeOK /\ TypeOK' /\ Held
  BY TypeStep DEF Base
<1>t. /\ now \in Nat
      /\ \A c \in Calls : since[c] \in Nat
      /\ \A c \in Calls : token[c] # None => token[c] \in 1..Len(issued)
      /\ cache.token # None => cache.token \in 1..Len(issued)
      /\ cache.expiry \in Nat
  BY <1>0, Ranges
<1>1. CASE Tick
  <2>1. now' = now + 1 /\ UNCHANGED <<issued, cache, pc, token, since>>
    BY <1>1 DEF Tick, callVars
  <2>2. \A c \in Calls : /\ pc[c] \in Minting => now + 1 <= since[c] + MaxMint
                         /\ pc[c] = "posting" => now + 1 <= since[c] + MaxPost
    BY <1>t, <1>1 DEF Tick
  <2>3. \A i \in 1..Len(issued) : issued[i].from <= now + 1
    BY <1>0, <1>t, TokenType DEF Timed
  <2>4. \A c \in Calls : pc[c] \in Minting => since[c] <= now + 1
    BY <1>t DEF Timed
  <2> QED BY <2>1, <2>2, <2>3, <2>4 DEF Timed, Ends
<1>2. CASE SignOut
  BY <1>2 DEF SignOut, Timed, Ends, callVars
<1>3. ASSUME NEW c \in Calls, Begin(c) PROVE Timed'
  BY <1>0, <1>3 DEF Begin, Timed, TypeOK, Ends, Minting, world
<1>4. ASSUME NEW c \in Calls, GetCached(c) PROVE Timed'
  <2> DEFINE i == cache.token
  <2>1. i \in 1..Len(issued) /\ now < cache.expiry - Skew
    BY <1>t, <1>4 DEF GetCached, Usable
  <2>2. /\ issued[i].from \in Nat /\ issued[i].ttl \in Nat
        /\ issued[i].from <= now
        /\ cache.expiry <= issued[i].from + AtLeast(MinTtl, issued[i].ttl)
    BY <1>0, <1>t, <2>1, TokenType DEF Timed
  <2>3. now + MaxPost < Ends(i)
    BY <1>t, <2>1, <2>2 DEF AtLeast, Ends
  <2>4. /\ pc'[c] = "posting" /\ since'[c] = now /\ token'[c] = i
        /\ UNCHANGED <<now, issued, cache>>
        /\ \A d \in Calls \ {c} : /\ pc'[d] = pc[d] /\ token'[d] = token[d]
                                  /\ since'[d] = since[d]
    BY <1>0, <1>4 DEF GetCached, TypeOK, world
  <2> HIDE DEF i
  <2>5. pc'[c] \notin Minting /\ pc'[c] # "minted"
    BY <2>4 DEF Minting
  <2>6. cache'.token # None =>
           cache'.expiry <= issued[cache'.token].from
                              + AtLeast(MinTtl, issued[cache'.token].ttl)
    BY <2>4 DEF Timed
  <2>7. now <= since'[c] + MaxPost /\ since'[c] + MaxPost < Ends(token'[c])
    BY <1>t, <2>3, <2>4
  <2> QED BY <1>0, <2>4, <2>5, <2>6, <2>7, TimedOfCall DEF Base
<1>5. ASSUME NEW c \in Calls, StartMint(c) PROVE Timed'
  <2>1. /\ pc'[c] = "minting" /\ since'[c] = now
        /\ UNCHANGED <<now, issued, cache>>
        /\ \A d \in Calls \ {c} : /\ pc'[d] = pc[d] /\ token'[d] = token[d]
                                  /\ since'[d] = since[d]
    BY <1>0, <1>5 DEF StartMint, TypeOK, world
  <2>2. now <= since'[c] + MaxMint /\ since'[c] <= now
    BY <1>t, <2>1
  <2>3. cache'.token # None =>
           cache'.expiry <= issued[cache'.token].from
                              + AtLeast(MinTtl, issued[cache'.token].ttl)
    BY <2>1 DEF Timed
  <2>4. pc'[c] # "posting" /\ pc'[c] # "minted"
    BY <2>1
  <2> QED BY <1>0, <2>1, <2>2, <2>3, <2>4, TimedOfCall DEF Base
<1>6. ASSUME NEW c \in Calls, Issue(c) PROVE Timed'
  <2>1. PICK ttl \in Lifetimes :
          issued' = Append(issued, [from |-> now, ttl |-> ttl])
    BY <1>6 DEF Issue
  <2>2. /\ Len(issued) \in Nat /\ Len(issued') = Len(issued) + 1
        /\ issued'[Len(issued) + 1] = [from |-> now, ttl |-> ttl]
        /\ \A i \in 1..Len(issued) : issued'[i] = issued[i]
    BY <1>0, <2>1, IssueGrows
  <2>3. /\ pc[c] = "minting" /\ pc'[c] = "minted"
        /\ token'[c] = Len(issued) + 1
        /\ \A d \in Calls \ {c} : pc'[d] = pc[d] /\ token'[d] = token[d]
        /\ UNCHANGED <<now, cache, since>>
    BY <1>0, <1>6 DEF Issue, TypeOK
  <2>4. \A i \in 1..Len(issued') : issued'[i].from <= now'
    BY <1>t, <2>2, <2>3 DEF Timed
  <2>5. \A d \in Calls : pc'[d] \in Minting =>
          since'[d] <= now' /\ now' <= since'[d] + MaxMint
    BY <2>3 DEF Timed, Minting
  <2>6. \A d \in Calls : pc'[d] = "minted" => since'[d] <= issued'[token'[d]].from
    <3>1. since'[c] <= issued'[token'[c]].from
      BY <2>2, <2>3 DEF Timed, Minting
    <3>2. ASSUME NEW d \in Calls \ {c}, pc'[d] = "minted"
          PROVE  since'[d] <= issued'[token'[d]].from
      <4>1. token[d] \in 1..Len(issued)
        BY <1>0, <1>t, <2>3, <3>2 DEF Held
      <4> QED BY <2>2, <2>3, <3>2, <4>1 DEF Timed
    <3> QED BY <3>1, <3>2
  <2>7. \A d \in Calls : pc'[d] = "posting" =>
          /\ now' <= since'[d] + MaxPost
          /\ since'[d] + MaxPost < Ends(token[d])'
    <3>1. ASSUME NEW d \in Calls, pc'[d] = "posting"
          PROVE  /\ now' <= since'[d] + MaxPost
                 /\ since'[d] + MaxPost < Ends(token[d])'
      <4>1. d # c /\ pc[d] = "posting" /\ token'[d] = token[d]
        BY <2>3, <3>1
      <4>2. token[d] \in 1..Len(issued)
        BY <1>0, <1>t, <4>1 DEF Held
      <4> QED BY <2>2, <2>3, <4>1, <4>2 DEF Timed, Ends
    <3> QED BY <3>1
  <2>8. cache'.token # None =>
           cache'.expiry <= issued'[cache'.token].from
                              + AtLeast(MinTtl, issued'[cache'.token].ttl)
    BY <1>t, <2>2, <2>3 DEF Timed
  <2> QED BY <2>4, <2>5, <2>6, <2>7, <2>8 DEF Timed
<1>7. ASSUME NEW c \in Calls, FinishMint(c) PROVE Timed'
  <2> DEFINE i == token[c]
  <2>1. pc[c] = "minted" /\ i \in 1..Len(issued)
    BY <1>0, <1>t, <1>7 DEF FinishMint, Held
  <2>2. /\ issued[i].from \in Nat /\ issued[i].ttl \in Nat
        /\ MaxMint + MaxPost < issued[i].ttl
        /\ since[c] <= issued[i].from /\ now <= since[c] + MaxMint
    BY <1>0, <2>1, TokenType DEF Timed, Minting
  <2>3. now + MaxPost < Ends(i)
    BY <1>t, <2>1, <2>2 DEF Ends
  <2>4. /\ pc'[c] = "posting" /\ since'[c] = now /\ token'[c] = i
        /\ UNCHANGED <<now, issued>>
        /\ cache'.token = i
        /\ cache'.expiry = since[c] + AtLeast(MinTtl, issued[i].ttl)
        /\ \A d \in Calls \ {c} : /\ pc'[d] = pc[d] /\ token'[d] = token[d]
                                  /\ since'[d] = since[d]
    BY <1>0, <1>7 DEF FinishMint, TypeOK, world
  <2>5. cache'.expiry <= issued[i].from + AtLeast(MinTtl, issued[i].ttl)
    BY <1>t, <2>2, <2>4 DEF AtLeast
  <2> HIDE DEF i
  <2>6. pc'[c] \notin Minting /\ pc'[c] # "minted"
    BY <2>4 DEF Minting
  <2>7. now <= since'[c] + MaxPost /\ since'[c] + MaxPost < Ends(token'[c])
    BY <1>t, <2>3, <2>4
  <2> QED BY <1>0, <2>4, <2>5, <2>6, <2>7, TimedOfCall DEF Base
<1>8. ASSUME NEW c \in Calls, MintRaises(c) PROVE Timed'
  <2>1. Leave(c, "failed") /\ UNCHANGED <<now, issued, cache>>
    BY <1>8 DEF MintRaises, world
  <2> QED BY <1>0, <2>1, TimedOfLeave
<1>9. ASSUME NEW c \in Calls, Serve(c) PROVE Timed'
  <2>1. Leave(c, "answered") /\ UNCHANGED <<now, issued, cache>>
    BY <1>9 DEF Serve, world
  <2> QED BY <1>0, <2>1, TimedOfLeave
<1>10. ASSUME NEW c \in Calls, PostRaises(c) PROVE Timed'
  <2>1. Leave(c, "failed") /\ UNCHANGED <<now, issued, cache>>
    BY <1>10 DEF PostRaises, world
  <2> QED BY <1>0, <2>1, TimedOfLeave
<1>11. ASSUME NEW c \in Calls, Reject(c) PROVE Timed'
  <2>1. PICK next \in {"rejected", "denied"} : Leave(c, next)
    BY <1>11 DEF Reject
  <2>2. UNCHANGED <<now, issued, cache>>
    BY <1>11 DEF Reject, world
  <2> QED BY <1>0, <2>1, <2>2, TimedOfLeave
<1>12. ASSUME NEW c \in Calls, Invalidate(c) PROVE Timed'
  <2>1. /\ UNCHANGED <<now, issued, token, since>> /\ cache'.token = None
        /\ pc'[c] = "asking" /\ \A d \in Calls \ {c} : pc'[d] = pc[d]
    BY <1>0, <1>12 DEF Invalidate, TypeOK, world
  <2> QED BY <2>1 DEF Timed, Minting, Ends
<1>13. CASE UNCHANGED vars
  BY <1>13 DEF vars, Timed, Ends
<1> QED BY <1>1, <1>2, <1>3, <1>4, <1>5, <1>6, <1>7, <1>8, <1>9, <1>10, <1>11,
           <1>12, <1>13 DEF Next, Step

\* After an invalidation nothing older than the rejection comes back: preserved,
\* because a mint that began before it would still hold the lock.
LEMMA FreshStep == ASSUME Base, Fresh, [Next]_vars PROVE Fresh'
<1> USE TokenAssumption
<1>0. TypeOK /\ Held
  BY DEF Base
<1>1. CASE Tick \/ SignOut
  BY <1>1 DEF Tick, SignOut, Fresh, callVars
<1>2. ASSUME NEW c \in Calls, Begin(c) PROVE Fresh'
  <2>1. /\ pc'[c] = "asking" /\ attempt'[c] = 1
        /\ \A d \in Calls \ {c} : pc'[d] = pc[d] /\ attempt'[d] = attempt[d]
        /\ UNCHANGED <<cache, token, seen>>
    BY <1>0, <1>2 DEF Begin, TypeOK
  <2> QED BY <2>1 DEF Fresh
<1>3. ASSUME NEW c \in Calls, GetCached(c) PROVE Fresh'
  <2>1. /\ pc'[c] = "posting" /\ token'[c] = cache.token
        /\ \A d \in Calls \ {c} : pc'[d] = pc[d] /\ token'[d] = token[d]
        /\ UNCHANGED <<cache, attempt, seen>>
        /\ cache.token # None
    BY <1>0, <1>3 DEF GetCached, Usable, TypeOK
  <2> QED BY <2>1 DEF Fresh
<1>4. ASSUME NEW c \in Calls, StartMint(c) PROVE Fresh'
  <2>1. /\ pc'[c] = "minting"
        /\ \A d \in Calls \ {c} : pc'[d] = pc[d] /\ token'[d] = token[d]
        /\ UNCHANGED <<cache, attempt, seen>>
    BY <1>0, <1>4 DEF StartMint, TypeOK
  <2> QED BY <2>1 DEF Fresh
<1>5. ASSUME NEW c \in Calls, Issue(c) PROVE Fresh'
  <2>1. /\ pc'[c] = "minted" /\ token'[c] = Len(issued) + 1
        /\ \A d \in Calls \ {c} : pc'[d] = pc[d] /\ token'[d] = token[d]
        /\ UNCHANGED <<cache, attempt, seen>>
    BY <1>0, <1>5 DEF Issue, TypeOK
  <2>2. \A d \in Calls : seen[d] < token'[c]
    BY <1>0, <2>1 DEF TypeOK
  <2> QED BY <2>1, <2>2 DEF Fresh
<1>6. ASSUME NEW c \in Calls, FinishMint(c) PROVE Fresh'
  <2>1. /\ pc[c] = "minted" /\ pc'[c] = "posting" /\ cache'.token = token[c]
        /\ \A d \in Calls \ {c} : pc'[d] = pc[d]
        /\ UNCHANGED <<token, attempt, seen>>
    BY <1>0, <1>6 DEF FinishMint, TypeOK
  <2> QED BY <2>1 DEF Fresh
<1>7. ASSUME NEW c \in Calls, MintRaises(c) \/ Serve(c) \/ PostRaises(c)
      PROVE  Fresh'
  <2>1. /\ pc'[c] \notin {"minted", "posting"}
        /\ \A d \in Calls \ {c} : pc'[d] = pc[d] /\ token'[d] = token[d]
        /\ UNCHANGED <<cache, attempt, seen>>
    BY <1>0, <1>7 DEF MintRaises, Serve, PostRaises, Leave, TypeOK
  <2> QED BY <2>1 DEF Fresh
<1>8. ASSUME NEW c \in Calls, Reject(c) PROVE Fresh'
  <2>1. /\ pc'[c] \notin {"minted", "posting"}
        /\ \A d \in Calls \ {c} : pc'[d] = pc[d] /\ token'[d] = token[d]
        /\ \A d \in Calls : attempt[d] = 2 => seen'[d] = seen[d]
        /\ UNCHANGED <<cache, attempt>>
    BY <1>0, <1>8 DEF Reject, Leave, TypeOK
  <2> QED BY <2>1 DEF Fresh
<1>9. ASSUME NEW c \in Calls, Invalidate(c) PROVE Fresh'
  <2>1. /\ pc'[c] = "asking" /\ cache'.token = None
        /\ \A d \in Calls \ {c} : pc'[d] = pc[d] /\ attempt'[d] = attempt[d]
        /\ UNCHANGED <<token, seen>>
    BY <1>0, <1>9 DEF Invalidate, TypeOK
  <2>2. \A d \in Calls : pc[d] # "minted"
    BY <1>0, <1>9 DEF Invalidate, Held, Minting
  <2> QED BY <2>1, <2>2 DEF Fresh
<1>10. CASE UNCHANGED vars
  BY <1>10 DEF vars, Fresh
<1> QED BY <1>1, <1>2, <1>3, <1>4, <1>5, <1>6, <1>7, <1>8, <1>9, <1>10
        DEF Next, Step

\* A token in flight has not expired.
LEMMA TimedInFlight ==
  ASSUME Base, Timed, NEW c \in Calls, pc[c] = "posting"
  PROVE  token[c] \in 1..Len(issued) /\ now < Ends(token[c])
<1>1. token[c] \in 1..Len(issued)
  BY Ranges DEF Base, Held
<1>2. issued[token[c]].from \in Nat /\ issued[token[c]].ttl \in Nat
  BY <1>1, TokenType DEF Base
<1>3. now \in Nat /\ since[c] \in Nat
  BY Ranges DEF Base
<1>4. now <= since[c] + MaxPost /\ since[c] + MaxPost < Ends(token[c])
  BY DEF Timed
<1>5. Ends(token[c]) \in Nat /\ MaxPost \in Nat
  BY <1>2, TokenAssumption DEF Ends
<1> QED BY ONLY <1>1, <1>3, <1>4, <1>5

\* Rejections and sign-outs stay counted: a call is rejected because a sign-out
\* ended its token, and a retry because another one ended a fresher token.
LEMMA CountedStep ==
  ASSUME IInv, [Next]_vars PROVE Counted' /\ SignOutsCounted'
<1> USE TokenAssumption
<1>0. TypeOK /\ Held /\ Counted /\ SignOutsCounted
  BY DEF IInv, Base
<1>n. /\ signOuts \in Nat /\ revoked \in Nat /\ Len(issued) \in Nat
      /\ revoked <= Len(issued) /\ \A c \in Calls : seen[c] \in Nat
  BY <1>0 DEF TypeOK
<1>1. CASE Tick
  BY <1>0, <1>1 DEF Tick, Counted, SignOutsCounted, callVars
<1>2. CASE SignOut
  <2>1. signOuts' = signOuts + 1 /\ UNCHANGED <<pc, attempt, seen>>
    BY <1>2 DEF SignOut, callVars
  <2> QED BY <1>0, <1>n, <2>1 DEF Counted, SignOutsCounted
<1>3. ASSUME NEW c \in Calls, Reject(c) PROVE Counted' /\ SignOutsCounted'
  <2>1. /\ UNCHANGED <<revoked, signOuts, attempt>>
        /\ \A d \in Calls \ {c} : pc'[d] = pc[d] /\ seen'[d] = seen[d]
    BY <1>0, <1>3 DEF Reject, Leave, TypeOK, world
  <2>2. attempt[c] \in {1, 2} /\ pc[c] = "posting"
    BY <1>0, <1>3 DEF Reject, Held, Working
  <2>3. ASSUME c \notin Forbidden PROVE token[c] <= revoked /\ token[c] \in 1..Len(issued)
    <3>1. token[c] \in 1..Len(issued) /\ now < Ends(token[c])
      BY <2>2, TimedInFlight DEF IInv
    <3>2. ~ Accepted(token[c])
      BY <1>3, <2>3 DEF Reject
    <3> QED BY <1>n, <3>1, <3>2 DEF Accepted
  <2>4. CASE attempt[c] = 1
    <3>1. pc'[c] = "rejected" /\ seen'[c] = Len(issued)
      BY <1>0, <1>3, <2>4 DEF Reject, Leave, TypeOK
    <3>2. c \notin Forbidden => signOuts >= 1 /\ revoked <= seen'[c]
      BY <1>0, <1>n, <2>3, <3>1 DEF SignOutsCounted
    <3> QED BY <1>0, <2>1, <2>4, <3>1, <3>2 DEF Counted, SignOutsCounted
  <2>5. CASE attempt[c] = 2
    <3>1. pc'[c] = "denied" /\ seen'[c] = seen[c]
      BY <1>0, <1>3, <2>5 DEF Reject, Leave, TypeOK
    <3>2. seen[c] < token[c]
      BY <2>2, <2>5 DEF IInv, Fresh
    <3>3. c \notin Forbidden => signOuts >= 2
      BY <1>0, <1>n, <2>3, <2>5, <3>2 DEF Counted
    <3> QED BY <1>0, <2>1, <2>5, <3>1, <3>3 DEF Counted, SignOutsCounted
  <2> QED BY <2>2, <2>4, <2>5
<1>4. ASSUME NEW c \in Calls, Invalidate(c) PROVE Counted' /\ SignOutsCounted'
  <2>1. /\ UNCHANGED <<revoked, signOuts, seen>>
        /\ pc[c] = "rejected" /\ pc'[c] = "asking"
        /\ \A d \in Calls \ {c} : pc'[d] = pc[d] /\ attempt'[d] = attempt[d]
    BY <1>0, <1>4 DEF Invalidate, TypeOK, world
  <2> QED BY <1>0, <2>1 DEF Counted, SignOutsCounted
<1>5. ASSUME NEW c \in Calls, Begin(c) PROVE Counted' /\ SignOutsCounted'
  <2>1. /\ UNCHANGED <<revoked, signOuts, seen>>
        /\ pc'[c] = "asking" /\ attempt'[c] = 1
        /\ \A d \in Calls \ {c} : pc'[d] = pc[d] /\ attempt'[d] = attempt[d]
    BY <1>0, <1>5 DEF Begin, TypeOK, world
  <2> QED BY <1>0, <2>1 DEF Counted, SignOutsCounted
<1>6. ASSUME NEW c \in Calls,
             \/ GetCached(c) \/ StartMint(c) \/ Issue(c) \/ FinishMint(c)
             \/ MintRaises(c) \/ Serve(c) \/ PostRaises(c)
      PROVE  Counted' /\ SignOutsCounted'
  <2>1. UNCHANGED <<revoked, signOuts, attempt, seen>>
    BY <1>6 DEF GetCached, StartMint, Issue, FinishMint, MintRaises, Serve,
                PostRaises, world
  <2>2. /\ pc'[c] \notin {"rejected", "denied"}
        /\ \A d \in Calls \ {c} : pc'[d] = pc[d]
    BY <1>0, <1>6 DEF GetCached, StartMint, Issue, FinishMint, MintRaises, Serve,
                      PostRaises, Leave, TypeOK
  <2> QED BY <1>0, <2>1, <2>2 DEF Counted, SignOutsCounted
<1>7. CASE UNCHANGED vars
  BY <1>0, <1>7 DEF vars, Counted, SignOutsCounted
<1> QED BY <1>1, <1>2, <1>3, <1>4, <1>5, <1>6, <1>7 DEF Next, Step, IInv

----------------------------------------------------------------------------
\* IInv holds of every reachable state, whatever the number of calls.
THEOREM Invariant == Spec => []IInv
<1>1. Init => IInv
  <2> SUFFICES ASSUME Init PROVE IInv
    OBVIOUS
  <2>1. TypeOK
    <3>1. /\ issued \in Seq([from : Nat, ttl : Lifetimes]) /\ Len(issued) = 0
          /\ now \in 0..Horizon /\ signOuts \in 0..MaxSignOuts
      BY TokenAssumption DEF Init
    <3>2. cache \in [token : 1..Len(issued) \cup {None}, expiry : Nat]
      BY DEF Init
    <3> QED BY <3>1, <3>2 DEF Init, TypeOK
  <2>2. Held
    BY TokenAssumption DEF Init, Held, Minting, Working
  <2>3. Timed /\ Fresh /\ Counted /\ SignOutsCounted
    BY DEF Init, Timed, Fresh, Counted, SignOutsCounted, Minting
  <2> QED BY <2>1, <2>2, <2>3 DEF IInv, Base
<1>2. IInv /\ [Next]_vars => IInv'
  BY TypeStep, HeldStep, TimedStep, FreshStep, CountedStep DEF IInv, Base
<1> QED BY <1>1, <1>2, PTL DEF Spec

\* Type correctness (get_token stores what the issuer granted it).
THEOREM TypeCorrect == Spec => []TypeOK
<1>1. IInv => TypeOK
  BY DEF IInv, Base
<1> QED BY <1>1, Invariant, PTL

\* No token is used past its expiry, for every skew that covers the HTTP timeout
\* and every floor under the skew.
THEOREM NeverExpiresInFlight == Spec => []NoExpiryInFlight
<1>1. IInv => NoExpiryInFlight
  BY TimedInFlight DEF IInv, NoExpiryInFlight
<1> QED BY <1>1, Invariant, PTL

\* Every retry uses a token issued after the rejection it answers.
THEOREM RetriesAreFresher == Spec => []RetryIsFresher
<1>1. IInv => RetryIsFresher
  BY DEF IInv, Fresh, RetryIsFresher
<1> QED BY <1>1, Invariant, PTL

\* invoke hides one end of the sessions from every caller.
THEOREM SignOutIsTransparent == Spec => []OneSignOutIsTransparent
<1>1. IInv => OneSignOutIsTransparent
  BY DEF IInv, Counted, OneSignOutIsTransparent
<1> QED BY <1>1, Invariant, PTL

----------------------------------------------------------------------------
\* What is left of EveryInvocationEnds without fairness: no call waits for anything
\* but a mint under way, and each of its own steps brings it closer to its end.

\* A call that is rejected has asked once; and a call waits for the lock only while
\* another one mints.
Orderly ==
  \A c \in Calls :
    /\ pc[c] = "rejected" => attempt[c] = 1
    /\ pc[c] \in {"asking", "rejected"} =>
         lock = None \/ \E d \in Calls \ {c} : lock = d /\ pc[d] \in Minting

\* Steps a call still has before it at most: those of an attempt, and of the retry.
StepsOfAttempt ==
  [asking |-> 4, minting |-> 3, minted |-> 2, posting |-> 1, rejected |-> 0]

StepsLeft(c) ==
  CASE pc[c] = "idle"  -> 10
    [] pc[c] \in Ended -> 0
    [] OTHER -> StepsOfAttempt[pc[c]] + (IF attempt[c] = 1 THEN 5 ELSE 0)

\* The lock is held by the call that mints and by nobody else, whatever raises: a
\* call that needs the lock finds it free or waits for a mint (get_token, invalidate).
THEOREM LockIsTheMints == Spec => []Orderly
<1>1. Init => Orderly
  BY DEF Init, Orderly
<1>2. IInv /\ Orderly /\ IInv' /\ [Next]_vars => Orderly'
  <2> SUFFICES ASSUME IInv, Orderly, IInv', [Next]_vars, NEW c \in Calls
               PROVE  /\ pc'[c] = "rejected" => attempt'[c] = 1
                      /\ pc'[c] \in {"asking", "rejected"} =>
                           \/ lock' = None
                           \/ \E d \in Calls \ {c} : lock' = d /\ pc'[d] \in Minting
    BY DEF Orderly
  <2>1. pc'[c] \in {"asking", "rejected"} =>
          lock' = None \/ \E d \in Calls \ {c} : lock' = d /\ pc'[d] \in Minting
    BY DEF IInv, Base, Held, TypeOK, Minting
  <2>2. pc'[c] = "rejected" => attempt'[c] = 1
    <3>1. CASE pc'[c] = pc[c] /\ attempt'[c] = attempt[c]
      BY <3>1 DEF Orderly
    <3>2. CASE Begin(c) \/ Step(c)
      BY <3>2 DEF Begin, Step, GetCached, StartMint, Issue, FinishMint, MintRaises,
           Serve, PostRaises, Reject, Invalidate, Leave, IInv, Base, TypeOK
    <3>3. CASE UNCHANGED vars \/ Tick \/ SignOut
      BY <3>1, <3>3 DEF vars, Tick, SignOut, callVars
    <3>4. ASSUME NEW d \in Calls, d # c, Begin(d) \/ Step(d)
          PROVE  pc'[c] = pc[c] /\ attempt'[c] = attempt[c]
      BY <3>4 DEF Begin, Step, GetCached, StartMint, Issue, FinishMint, MintRaises,
           Serve, PostRaises, Reject, Invalidate, Leave, IInv, Base, TypeOK
    <3> QED
      BY <3>1, <3>2, <3>3, <3>4 DEF Next
  <2> QED
    BY <2>1, <2>2
<1> QED
  BY Invariant, <1>1, <1>2, PTL DEF Spec

\* Every step of a call brings it closer to its end, and nobody else's step takes it
\* back: an invocation is over after ten steps of its own, however the calls
\* interleave and whatever raises (invoke's one retry).
THEOREM CallsAdvance ==
  Spec => [][\A c \in Calls :
               /\ StepsLeft(c) \in 0..10 /\ StepsLeft(c)' <= StepsLeft(c)
               /\ Begin(c) \/ Step(c) => StepsLeft(c)' < StepsLeft(c)]_vars
<1>1. IInv /\ Orderly /\ [Next]_vars =>
        [\A c \in Calls :
               /\ StepsLeft(c) \in 0..10 /\ StepsLeft(c)' <= StepsLeft(c)
               /\ Begin(c) \/ Step(c) => StepsLeft(c)' < StepsLeft(c)]_vars
  <2> SUFFICES ASSUME IInv, Orderly, Next, NEW c \in Calls
               PROVE  /\ StepsLeft(c) \in 0..10 /\ StepsLeft(c)' <= StepsLeft(c)
                      /\ Begin(c) \/ Step(c) => StepsLeft(c)' < StepsLeft(c)
    OBVIOUS
  <2>1. /\ pc[c] \in {"idle"} \cup Working \cup Ended
        /\ pc[c] \in Working => attempt[c] \in {1, 2}
        /\ pc[c] = "rejected" => attempt[c] = 1
    BY DEF IInv, Base, Held, TypeOK, Orderly
  <2>2. StepsLeft(c) \in 0..10
    BY <2>1 DEF StepsLeft, StepsOfAttempt, Working, Minting, Ended
  <2>3. CASE Begin(c) \/ Step(c)
    <3>1. CASE Begin(c)
      BY <3>1, <2>1 DEF Begin, StepsLeft, StepsOfAttempt, IInv, Base, TypeOK, Ended
    <3>2. CASE GetCached(c) \/ StartMint(c) \/ Issue(c) \/ FinishMint(c)
      BY <3>2, <2>1 DEF GetCached, StartMint, Issue, FinishMint, StepsLeft,
           StepsOfAttempt, IInv, Base, TypeOK, Ended
    <3>3. CASE MintRaises(c) \/ Serve(c) \/ PostRaises(c) \/ Reject(c)
      BY <3>3, <2>1 DEF MintRaises, Serve, PostRaises, Reject, Leave, StepsLeft,
           StepsOfAttempt, IInv, Base, TypeOK, Ended, Working, Minting
    <3>4. CASE Invalidate(c)
      BY <3>4, <2>1 DEF Invalidate, StepsLeft, StepsOfAttempt, IInv, Base, TypeOK, Ended
    <3> QED
      BY <2>2, <2>3, <3>1, <3>2, <3>3, <3>4 DEF Step
  <2>4. CASE ~ (Begin(c) \/ Step(c))
    <3>1. ASSUME NEW d \in Calls, d # c, Begin(d) \/ Step(d)
          PROVE  pc'[c] = pc[c] /\ attempt'[c] = attempt[c]
      BY <3>1 DEF Begin, Step, GetCached, StartMint, Issue, FinishMint, MintRaises,
           Serve, PostRaises, Reject, Invalidate, Leave, IInv, Base, TypeOK
    <3>2. pc'[c] = pc[c] /\ attempt'[c] = attempt[c]
      BY <2>4, <3>1 DEF Next, Tick, SignOut, callVars
    <3> QED
      BY <2>2, <2>4, <3>2 DEF StepsLeft
  <2> QED
    BY <2>2, <2>3, <2>4
<1> QED
  BY Invariant, LockIsTheMints, <1>1, PTL DEF Spec
=============================================================================
