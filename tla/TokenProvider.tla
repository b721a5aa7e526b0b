---------------------------- MODULE TokenProvider ----------------------------
(* The bridge of frontdoor/: calls of CompanionRuntimeClient.invoke run in   *)
(* threads of one process and share one CognitoTokenProvider.  get_token     *)
(* serves the cached token or mints one while it holds the lock; a rejected  *)
(* call invalidates the cache and retries once.  The issuer and the runtime  *)
(* are outside: they take time, fail, and end sessions.                      *)
EXTENDS Integers, Sequences

CONSTANTS
  Calls,        \* calls of CompanionRuntimeClient.invoke
  Forbidden,    \* those the runtime refuses whatever their token
  Skew,         \* skew_seconds
  MinTtl,       \* the floor of last_ttl
  Lifetimes,    \* lifetimes the issuer may grant
  MaxMint,      \* how long a mint may take
  MaxPost,      \* how long an HTTP call may take, once it has its token
  Horizon,      \* bound: the last instant
  MaxSignOuts,  \* bound: how often the user's sessions are ended
  None          \* nobody, no token

\* The defaults of the code are Skew = 120, MinTtl = 60 and a timeout of 120; a
\* token outlives the exchange it is minted for.
ASSUME TokenAssumption ==
  /\ Skew \in Nat /\ MinTtl \in Nat /\ MaxMint \in Nat /\ MaxPost \in Nat
  /\ Horizon \in Nat /\ MaxSignOuts \in Nat
  /\ MinTtl <= Skew /\ MaxPost <= Skew
  /\ \A ttl \in Lifetimes : ttl \in Nat /\ MaxMint + MaxPost < ttl
  /\ Forbidden \subseteq Calls
  /\ None \notin Calls /\ None \notin Nat

VARIABLES
  now,       \* the clock
  issued,    \* the tokens issued so far, each [from, ttl]
  revoked,   \* tokens up to this one were ended by a sign-out
  signOuts,  \* how many sign-outs there were
  lock,      \* the call that holds the provider's lock
  cache,     \* the provider: [token, expiry]; last_ttl is read by the daemon only
  pc,        \* call -> the step it reached
  attempt,   \* call -> how many times it has asked for a token
  token,     \* call -> the token it holds, an index of issued
  since,     \* call -> when its mint or its HTTP call began
  seen       \* call -> how many tokens had been issued when it was rejected

world == <<now, issued, revoked, signOuts>>
callVars == <<pc, attempt, token, since, seen>>
vars == <<now, issued, revoked, signOuts, lock, cache, pc, attempt, token,
          since, seen>>

Minting == {"minting", "minted"}
Working == {"asking", "posting", "rejected"} \cup Minting
Ended == {"answered", "failed", "denied"}

AtLeast(floor, n) == IF n < floor THEN floor ELSE n

Init ==
  /\ now = 0 /\ issued = <<>> /\ revoked = 0 /\ signOuts = 0
  /\ lock = None
  /\ cache = [token |-> None, expiry |-> 0]
  /\ pc = [c \in Calls |-> "idle"]
  /\ attempt = [c \in Calls |-> 0]
  /\ token = [c \in Calls |-> None]
  /\ since = [c \in Calls |-> 0]
  /\ seen = [c \in Calls |-> 0]

----------------------------------------------------------------------------
\* Time passes, but no mint and no HTTP call outlasts its bound.
Tick ==
  /\ now < Horizon
  /\ \A c \in Calls : /\ pc[c] \in Minting => now < since[c] + MaxMint
                      /\ pc[c] = "posting" => now < since[c] + MaxPost
  /\ now' = now + 1
  /\ UNCHANGED <<issued, revoked, signOuts, lock, cache, callVars>>

\* A global sign-out ends every token issued so far.
SignOut ==
  /\ signOuts < MaxSignOuts
  /\ signOuts' = signOuts + 1
  /\ revoked' = Len(issued)
  /\ UNCHANGED <<now, issued, lock, cache, callVars>>

Ends(i) == issued[i].from + issued[i].ttl

\* The authorizer of the runtime.
Accepted(i) == revoked < i /\ now < Ends(i)

Begin(c) ==
  /\ pc[c] = "idle"
  /\ pc' = [pc EXCEPT ![c] = "asking"]
  /\ attempt' = [attempt EXCEPT ![c] = 1]
  /\ UNCHANGED <<world, lock, cache, token, since, seen>>

\* The condition of get_token.
Usable == cache.token # None /\ now < cache.expiry - Skew

GetCached(c) ==
  /\ pc[c] = "asking" /\ lock = None /\ Usable
  /\ pc' = [pc EXCEPT ![c] = "posting"]
  /\ token' = [token EXCEPT ![c] = cache.token]
  /\ since' = [since EXCEPT ![c] = now]
  /\ UNCHANGED <<world, lock, cache, attempt, seen>>

\* Mutant: the lock guards the fields, not the mint.
StartMintUnlocked(c) ==
  /\ pc[c] = "asking" /\ lock = None /\ ~ Usable
  /\ pc' = [pc EXCEPT ![c] = "minting"]
  /\ token' = [token EXCEPT ![c] = None]
  /\ since' = [since EXCEPT ![c] = now]
  /\ UNCHANGED <<world, lock, cache, attempt, seen>>

\* get_token reads the clock and calls the issuer with the lock held.
StartMint(c) ==
  /\ pc[c] = "asking" /\ lock = None /\ ~ Usable
  /\ lock' = c
  /\ pc' = [pc EXCEPT ![c] = "minting"]
  /\ token' = [token EXCEPT ![c] = None]
  /\ since' = [since EXCEPT ![c] = now]
  /\ UNCHANGED <<world, cache, attempt, seen>>

\* The issuer grants a token, some time before its answer is back.
Issue(c) ==
  /\ pc[c] = "minting"
  /\ \E ttl \in Lifetimes :
       issued' = Append(issued, [from |-> now, ttl |-> ttl])
  /\ pc' = [pc EXCEPT ![c] = "minted"]
  /\ token' = [token EXCEPT ![c] = Len(issued) + 1]
  /\ UNCHANGED <<now, revoked, signOuts, lock, cache, attempt, since, seen>>

\* Mutant: the token's age is counted from when the answer came back.
FinishMintLateClock(c) ==
  /\ pc[c] = "minted"
  /\ cache' = [token |-> token[c],
                expiry |-> now + AtLeast(MinTtl, issued[token[c]].ttl)]
  /\ lock' = None
  /\ pc' = [pc EXCEPT ![c] = "posting"]
  /\ since' = [since EXCEPT ![c] = now]
  /\ UNCHANGED <<world, attempt, token, seen>>

\* The rest of get_token: the token's age is counted from before the mint.
FinishMint(c) ==
  /\ pc[c] = "minted"
  /\ cache' = [token |-> token[c],
                expiry |-> since[c] + AtLeast(MinTtl, issued[token[c]].ttl)]
  /\ lock' = None
  /\ pc' = [pc EXCEPT ![c] = "posting"]
  /\ since' = [since EXCEPT ![c] = now]
  /\ UNCHANGED <<world, attempt, token, seen>>

\* c leaves the issuer or the runtime for the step next; what it held is dropped.
Leave(c, next) ==
  /\ pc' = [pc EXCEPT ![c] = next]
  /\ token' = [token EXCEPT ![c] = None]
  /\ since' = [since EXCEPT ![c] = 0]

\* Mutant: acquire and release instead of a with block.
MintRaisesLocked(c) ==
  /\ pc[c] \in Minting
  /\ Leave(c, "failed")
  /\ UNCHANGED <<world, lock, cache, attempt, seen>>

\* _mint raises, before or after the issuer granted a token: the with block frees
\* the lock, the cache stays as it was and invoke raises.
MintRaises(c) ==
  /\ pc[c] \in Minting
  /\ lock' = None
  /\ Leave(c, "failed")
  /\ UNCHANGED <<world, cache, attempt, seen>>

\* The runtime lets the call in: it answers, or fails in some other way.
Serve(c) ==
  /\ pc[c] = "posting"
  /\ c \notin Forbidden /\ Accepted(token[c])
  /\ Leave(c, "answered")
  /\ UNCHANGED <<world, lock, cache, attempt, seen>>

\* No answer, or a status from 400 on that is not about authorization.
PostRaises(c) ==
  /\ pc[c] = "posting"
  /\ Leave(c, "failed")
  /\ UNCHANGED <<world, lock, cache, attempt, seen>>

\* A 401 or 403: the first one is caught by invoke, the second leaves it.
Reject(c) ==
  /\ pc[c] = "posting"
  /\ c \in Forbidden \/ ~ Accepted(token[c])
  /\ Leave(c, IF attempt[c] = 1 THEN "rejected" ELSE "denied")
  /\ seen' = [seen EXCEPT ![c] = IF attempt[c] = 1 THEN Len(issued) ELSE @]
  /\ UNCHANGED <<world, lock, cache, attempt>>

\* Mutant: the retry trusts the cache to notice.
RetryOnly(c) ==
  /\ pc[c] = "rejected" /\ lock = None
  /\ attempt' = [attempt EXCEPT ![c] = 2]
  /\ pc' = [pc EXCEPT ![c] = "asking"]
  /\ UNCHANGED <<world, lock, cache, token, since, seen>>

\* Mutant: the token goes, its expiry stays behind without a value.
InvalidateBoth(c) ==
  /\ pc[c] = "rejected" /\ lock = None
  /\ cache' = [cache EXCEPT !.token = None, !.expiry = None]
  /\ attempt' = [attempt EXCEPT ![c] = 2]
  /\ pc' = [pc EXCEPT ![c] = "asking"]
  /\ UNCHANGED <<world, lock, token, since, seen>>

\* invalidate drops whatever is cached by now, and invoke asks again.
Invalidate(c) ==
  /\ pc[c] = "rejected" /\ lock = None
  /\ cache' = [cache EXCEPT !.token = None, !.expiry = 0]
  /\ attempt' = [attempt EXCEPT ![c] = 2]
  /\ pc' = [pc EXCEPT ![c] = "asking"]
  /\ UNCHANGED <<world, lock, token, since, seen>>

Step(c) ==
  \/ GetCached(c) \/ StartMint(c) \/ Issue(c) \/ FinishMint(c) \/ MintRaises(c)
  \/ Serve(c) \/ PostRaises(c) \/ Reject(c) \/ Invalidate(c)

Next == Tick \/ SignOut \/ \E c \in Calls : Begin(c) \/ Step(c)

Spec == Init /\ [][Next]_vars

\* A call that has begun runs on: mints and HTTP calls have timeouts, and the lock
\* is held by one of the finitely many calls at a time.
FairSpec == Spec /\ \A c \in Calls : WF_vars(Step(c))

----------------------------------------------------------------------------
\* Every variable stays in its range.
TypeOK ==
  /\ now \in 0..Horizon /\ signOuts \in 0..MaxSignOuts
  /\ issued \in Seq([from : Nat, ttl : Lifetimes])
  /\ revoked \in 0..Len(issued)
  /\ lock \in Calls \cup {None}
  /\ cache \in [token : 1..Len(issued) \cup {None}, expiry : Nat]
  /\ pc \in [Calls -> {"idle"} \cup Working \cup Ended]
  /\ attempt \in [Calls -> 0..2]
  /\ token \in [Calls -> 1..Len(issued) \cup {None}]
  /\ since \in [Calls -> Nat]
  /\ seen \in [Calls -> 0..Len(issued)]

\* A token is never used past its expiry: the margin kept by get_token covers
\* the HTTP call, however long the mint took and whatever the floor of the
\* lifetime (now < expiry - skew, max(60, expires_in)).
NoExpiryInFlight ==
  \A c \in Calls : pc[c] = "posting" => now < Ends(token[c])

\* A retry uses a token issued after the rejection it answers, although other
\* calls mint, store and invalidate meanwhile (invoke, get_token, invalidate).
RetryIsFresher ==
  \A c \in Calls :
    pc[c] = "posting" /\ attempt[c] = 2 => seen[c] < token[c]

\* One end of the sessions is transparent: a call the runtime would let in is
\* denied only if a second sign-out hit its retry (invoke).
OneSignOutIsTransparent ==
  \A c \in Calls : pc[c] = "denied" => c \in Forbidden \/ signOuts >= 2

\* Every invocation ends, also when mints fail with the lock held.
EveryInvocationEnds == \A c \in Calls : pc[c] \in Working ~> pc[c] \in Ended
=============================================================================
