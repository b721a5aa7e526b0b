---------------------------- MODULE GatewayDaemon ----------------------------
(* frontdoor/gateway_token.py: the daemon keeps the token in an env file     *)
(* fresh, and a human may run write-env on the same file at any moment.      *)
(* Both mint, read the file, and rewrite it with the token's line replaced;  *)
(* write_text empties the file before it fills it.                           *)
EXTENDS Integers

CONSTANTS
  Daemon, Writers,  \* the daemon, and processes that run write-env
  Skew,             \* --skew
  Floor,            \* the least _next_sleep
  MinTtl,           \* the floor of last_ttl
  Ttl,              \* lifetime of the client's tokens
  MaxRefresh,       \* how long a refresh may take, mint and save together
  Horizon,          \* bound: the last instant
  None              \* no token

Procs == Writers \cup {Daemon}

AtLeast(floor, n) == IF n < floor THEN floor ELSE n

\* _next_sleep of last_ttl.
NextSleep == AtLeast(Floor, AtLeast(MinTtl, Ttl) - Skew)

\* What a user has to give the daemon: a margin, and a lifetime, that leave time
\* for three refreshes.
ASSUME DaemonAssumption ==
  /\ Skew \in Nat /\ Floor \in Nat /\ MinTtl \in Nat /\ Ttl \in Nat
  /\ MaxRefresh \in Nat /\ Horizon \in Nat
  /\ NextSleep + 3 * MaxRefresh < Ttl
  /\ Daemon \notin Writers /\ None \notin Nat

VARIABLES
  now,       \* the clock
  file,      \* the env file: the end of its token, and whether its other
             \* lines are there
  pc,        \* process -> the step it reached
  token,     \* process -> the end of the token it minted
  others,    \* process -> whether it read the other lines
  since,     \* process -> when its refresh began
  wake,      \* when the daemon's sleep ends
  kept,      \* the daemon has saved a token and not stopped since
  spoiled,   \* a save failed with the file emptied, and none succeeded since
  mixed      \* two saves overlapped, or one failed

vars == <<now, file, pc, token, others, since, wake, kept, spoiled, mixed>>

Saving == {"loaded", "emptied"}
Refreshing == {"minting", "minted"} \cup Saving

Init ==
  /\ now = 0
  /\ file = [token |-> None, others |-> TRUE]
  /\ pc = [p \in Procs |-> "idle"]
  /\ token = [p \in Procs |-> None]
  /\ others = [p \in Procs |-> FALSE]
  /\ since = [p \in Procs |-> 0]
  /\ wake = 0 /\ kept = FALSE /\ spoiled = FALSE /\ mixed = FALSE

----------------------------------------------------------------------------
\* Time passes; a refresh keeps its bound and the daemon wakes when it should.
Tick ==
  /\ now < Horizon
  /\ \A p \in Procs : pc[p] \in Refreshing => now < since[p] + MaxRefresh
  /\ pc[Daemon] = "asleep" => now < wake
  /\ now' = now + 1
  /\ UNCHANGED <<file, pc, token, others, since, wake, kept, spoiled, mixed>>

\* A human starts the daemon or runs write-env; its provider has no token yet.
Start(p) ==
  /\ pc[p] = "idle"
  /\ pc' = [pc EXCEPT ![p] = "minting"]
  /\ since' = [since EXCEPT ![p] = now]
  /\ UNCHANGED <<now, file, token, others, wake, kept, spoiled, mixed>>

\* The next turn of the loop, which invalidates first and so always mints.
Wake ==
  /\ pc[Daemon] = "asleep" /\ now >= wake
  /\ pc' = [pc EXCEPT ![Daemon] = "minting"]
  /\ since' = [since EXCEPT ![Daemon] = now]
  /\ wake' = 0
  /\ UNCHANGED <<now, file, token, others, kept, spoiled, mixed>>

Grant(p) ==
  /\ pc[p] = "minting"
  /\ pc' = [pc EXCEPT ![p] = "minted"]
  /\ token' = [token EXCEPT ![p] = now + Ttl]
  /\ UNCHANGED <<now, file, others, since, wake, kept, spoiled, mixed>>

\* Mutant: the file is written anew.
ReadNothing(p) ==
  /\ pc[p] = "minted"
  /\ pc' = [pc EXCEPT ![p] = "loaded"]
  /\ others' = [others EXCEPT ![p] = FALSE]
  /\ mixed' = (mixed \/ \E q \in Procs \ {p} : pc[q] \in Saving)
  /\ UNCHANGED <<now, file, token, since, wake, kept, spoiled>>

\* write_env_token reads what it will put back.
Read(p) ==
  /\ pc[p] = "minted"
  /\ pc' = [pc EXCEPT ![p] = "loaded"]
  /\ others' = [others EXCEPT ![p] = file.others]
  /\ mixed' = (mixed \/ \E q \in Procs \ {p} : pc[q] \in Saving)
  /\ UNCHANGED <<now, file, token, since, wake, kept, spoiled>>

\* Mutant: the old file is removed first.
Unlink(p) ==
  /\ pc[p] = "loaded"
  /\ pc' = [pc EXCEPT ![p] = "emptied"]
  /\ file' = None
  /\ UNCHANGED <<now, token, others, since, wake, kept, spoiled, mixed>>

\* write_text opens the file.
Empty(p) ==
  /\ pc[p] = "loaded"
  /\ pc' = [pc EXCEPT ![p] = "emptied"]
  /\ file' = [token |-> None, others |-> FALSE]
  /\ UNCHANGED <<now, token, others, since, wake, kept, spoiled, mixed>>

\* p is done with its refresh and forgets what it read and minted.
Leave(p, next) ==
  /\ pc' = [pc EXCEPT ![p] = next]
  /\ token' = [token EXCEPT ![p] = None]
  /\ others' = [others EXCEPT ![p] = FALSE]
  /\ since' = [since EXCEPT ![p] = 0]

\* p's text over what another save wrote since p emptied the file.  If that is
\* longer, its tail remains, perhaps with its own token's line in it, which is then
\* the last and so the one that counts, or with the other lines.
Overwritten(p) ==
  IF ~ others[p] /\ file.others
  THEN [token : {token[p], file.token} \ {None}, others : BOOLEAN]
  ELSE {[token |-> token[p], others |-> others[p]]}

\* Mutant: the daemon sleeps until the token ends.
FillUntilExpiry(p) ==
  /\ pc[p] = "emptied"
  /\ file' \in Overwritten(p)
  /\ spoiled' = FALSE
  /\ Leave(p, IF p = Daemon THEN "asleep" ELSE "idle")
  /\ IF p = Daemon
     THEN wake' = now + AtLeast(Floor, AtLeast(MinTtl, Ttl)) /\ kept' = TRUE
     ELSE UNCHANGED <<wake, kept>>
  /\ UNCHANGED <<now, mixed>>

\* write_text fills it; the daemon goes to sleep, write-env is done.
Fill(p) ==
  /\ pc[p] = "emptied"
  /\ file' \in Overwritten(p)
  /\ spoiled' = FALSE
  /\ Leave(p, IF p = Daemon THEN "asleep" ELSE "idle")
  /\ IF p = Daemon
     THEN wake' = now + NextSleep /\ kept' = TRUE
     ELSE UNCHANGED <<wake, kept>>
  /\ UNCHANGED <<now, mixed>>

\* A mint or a save raises, or the human interrupts: nothing is caught, and a
\* daemon ends like any other process.
End(p) ==
  /\ pc[p] # "idle"
  /\ Leave(p, "idle")
  /\ kept' = (kept /\ p # Daemon)
  /\ spoiled' = (spoiled \/ pc[p] = "emptied")
  /\ mixed' = (mixed \/ pc[p] = "emptied")
  /\ UNCHANGED <<now, file, wake>>

Next ==
  \/ Tick \/ Wake
  \/ \E p \in Procs :
       Start(p) \/ Grant(p) \/ Read(p) \/ Empty(p) \/ Fill(p) \/ End(p)

Spec == Init /\ [][Next]_vars

----------------------------------------------------------------------------
\* Every variable stays in its range.
TypeOK ==
  /\ now \in Nat /\ wake \in Nat
  /\ file \in [token : Nat \cup {None}, others : BOOLEAN]
  /\ pc \in [Procs -> {"idle", "asleep"} \cup Refreshing]
  /\ token \in [Procs -> Nat \cup {None}]
  /\ others \in [Procs -> BOOLEAN]
  /\ since \in [Procs -> Nat]
  /\ kept \in BOOLEAN /\ spoiled \in BOOLEAN /\ mixed \in BOOLEAN

\* From the daemon's first save until it ends, whoever reads the env file between
\* saves finds a token that is still good, also if write-env put an older one
\* there (gateway_token.py: "keep the env file fresh in a loop before each
\* expiry").  A save that failed half way is the exception.
FileKeptFresh ==
  kept /\ ~ spoiled /\ (\A p \in Procs : pc[p] # "emptied") =>
    file.token # None /\ now < file.token

\* The user's other lines are lost only if two saves overlapped or one was cut
\* short (write_env_token, _upsert).
OthersKept ==
  ~ mixed /\ (\A p \in Procs : pc[p] # "emptied") => file.others
=============================================================================
