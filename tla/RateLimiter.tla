---------------------------- MODULE RateLimiter ----------------------------
(***************************************************************************)
(* The Redis rate limiter (rate_limit.py) as request_context (main.py)     *)
(* uses it, for concurrent requests on any number of API replicas.  A step *)
(* is one Redis command with the decision of the middleware that follows   *)
(* from its reply; the requests that are answered 401 before the limiter,  *)
(* and /health and /ready, which skip it, change none of this state.       *)
(***************************************************************************)
EXTENDS Naturals, FiniteSets

CONSTANTS
    Clients,     \* the keys of the limiter: X-API-Key values or addresses
    Requests,    \* what handles one request at a time, on some replica
    Limit,       \* RATE_LIMIT_REQUESTS
    FailClosed,  \* RATE_LIMIT_FAIL_CLOSED
    Resends,     \* does the Redis client send a command again without a reply?
    MaxFaults    \* how many Redis commands fail, or replicas die, in a behaviour

ASSUME RateLimiterAssumption ==
    /\ Limit \in Nat \ {0}
    /\ MaxFaults \in Nat
    /\ FailClosed \in BOOLEAN
    /\ Resends \in BOOLEAN

VARIABLES
    bucket,   \* the key rate-limit:{client}: its count, and has it a TTL?
    at,       \* the next Redis command of each request
    client,   \* whose request it is
    passed,   \* history: requests let through since the bucket was created
    faults    \* how many faults have happened

vars == <<bucket, at, client, passed, faults>>

\* The code only compares a count with 1 and with Limit, so Limit + 1 stands
\* for every larger one.  An absent key has count 0.
Counts == 0..(Limit + 1)
\* Mutant: a request is counted twice.
BumpTwice(n) == IF n > Limit THEN n ELSE n + 2

Bump(n) == IF n > Limit THEN n ELSE n + 1

NoBucket == [count |-> 0, expires |-> FALSE]

TypeOK ==
    /\ bucket \in [Clients -> [count : Counts, expires : BOOLEAN]]
    /\ at \in [Requests -> {"incr", "expire", "ttl"}]
    /\ client \in [Requests -> Clients]
    /\ passed \in [Clients -> Nat]
    /\ faults \in 0..MaxFaults

Init ==
    /\ bucket = [c \in Clients |-> NoBucket]
    /\ at = [r \in Requests |-> "incr"]
    /\ client \in [Requests -> Clients]
    /\ passed = [c \in Clients |-> 0]
    /\ faults = 0

Goto(r, command) == at' = [at EXCEPT ![r] = command]

\* call_next runs the handler.
LetThrough(c) == passed' = [passed EXCEPT ![c] = @ + 1]

-----------------------------------------------------------------------------
(* RedisRateLimiter.check                                                  *)

\* Mutant: the limit is off by one.
CountOneMore(r, c, count) ==
    /\ at[r] = "incr"
    /\ client' = [client EXCEPT ![r] = c]
    /\ bucket' = [bucket EXCEPT ![c].count = count]
    /\ \/ count = 1 /\ Goto(r, "expire") /\ UNCHANGED passed
       \/ count > 1 /\ count <= Limit + 1 /\ LetThrough(c) /\ UNCHANGED at
       \/ count > Limit + 1 /\ Goto(r, "ttl") /\ UNCHANGED passed

\* Mutant: the last request of the budget is refused.
CountOneLess(r, c, count) ==
    /\ at[r] = "incr"
    /\ client' = [client EXCEPT ![r] = c]
    /\ bucket' = [bucket EXCEPT ![c].count = count]
    /\ \/ count = 1 /\ Goto(r, "expire") /\ UNCHANGED passed
       \/ count > 1 /\ count < Limit /\ LetThrough(c) /\ UNCHANGED at
       \/ count > 1 /\ count >= Limit /\ Goto(r, "ttl") /\ UNCHANGED passed

\* A request is counted.  Only the one whose INCR returned 1 goes on to set
\* the key's expiry, before it is let through.
Count(r, c, count) ==
    /\ at[r] = "incr"
    /\ client' = [client EXCEPT ![r] = c]
    /\ bucket' = [bucket EXCEPT ![c].count = count]
    /\ \/ count = 1 /\ Goto(r, "expire") /\ UNCHANGED passed
       \/ count > 1 /\ count <= Limit /\ LetThrough(c) /\ UNCHANGED at
       \/ count > Limit /\ Goto(r, "ttl") /\ UNCHANGED passed

Incr(r, c) == Count(r, c, Bump(bucket[c].count)) /\ UNCHANGED faults

\* Mutant: EXPIRE names another key.
ExpireOtherKey(r) ==
    /\ at[r] = "expire"
    /\ LetThrough(client[r])
    /\ Goto(r, "incr")
    /\ UNCHANGED <<bucket, client, faults>>

Expire(r) ==
    /\ at[r] = "expire"
    /\ bucket' = [bucket EXCEPT ![client[r]].expires = TRUE]
    /\ LetThrough(client[r])
    /\ Goto(r, "incr")
    /\ UNCHANGED <<client, faults>>

\* 429, with a Retry-After of max(ttl, 1).
ReadTtl(r) ==
    /\ at[r] = "ttl"
    /\ Goto(r, "incr")
    /\ UNCHANGED <<bucket, client, passed, faults>>

-----------------------------------------------------------------------------
(* Failures.                                                               *)

Fault == faults < MaxFaults /\ faults' = faults + 1

\* The command raised: 503, or on to the handler without the limiter.
Unprotected(c) == IF FailClosed THEN UNCHANGED passed ELSE LetThrough(c)

\* The reply of an INCR was lost and the Redis client sent it again.
IncrResent(r, c) ==
    /\ Resends
    /\ Fault
    /\ Count(r, c, Bump(Bump(bucket[c].count)))

\* A command that raises may have been applied or not.
IncrFails(r, c) ==
    /\ Fault
    /\ at[r] = "incr"
    /\ \/ UNCHANGED bucket
       \/ bucket' = [bucket EXCEPT ![c].count = Bump(@)]
    /\ Unprotected(c)
    /\ UNCHANGED <<at, client>>

ExpireFails(r) ==
    /\ Fault
    /\ at[r] = "expire"
    /\ \/ UNCHANGED bucket
       \/ bucket' = [bucket EXCEPT ![client[r]].expires = TRUE]
    /\ Unprotected(client[r])
    /\ Goto(r, "incr")
    /\ UNCHANGED client

TtlFails(r) ==
    /\ Fault
    /\ at[r] = "ttl"
    /\ Unprotected(client[r])
    /\ Goto(r, "incr")
    /\ UNCHANGED <<bucket, client>>

\* The replica dies between two commands of a request.
ReplicaDies(r) ==
    /\ Fault
    /\ at[r] # "incr"
    /\ Goto(r, "incr")
    /\ UNCHANGED <<bucket, client, passed>>

\* RATE_LIMIT_WINDOW_SECONDS after EXPIRE, Redis removes the key.
WindowEnds(c) ==
    /\ bucket[c].expires
    /\ bucket' = [bucket EXCEPT ![c] = NoBucket]
    /\ passed' = [passed EXCEPT ![c] = 0]
    /\ UNCHANGED <<at, client, faults>>

-----------------------------------------------------------------------------

Next == \/ \E r \in Requests :
              \/ \E c \in Clients : Incr(r, c) \/ IncrResent(r, c) \/ IncrFails(r, c)
              \/ Expire(r) \/ ReadTtl(r)
              \/ ExpireFails(r) \/ TtlFails(r) \/ ReplicaDies(r)
        \/ \E c \in Clients : WindowEnds(c)

Spec == Init /\ [][Next]_vars

\* A request that was counted is worked on (the Redis client's timeout bounds
\* every command), and Redis expires keys; clients need not send requests.
\* MaxFaults makes every behaviour end in a time without faults.
FairSpec == /\ Spec
            /\ \A r \in Requests : WF_vars(Expire(r) \/ ReadTtl(r))
            /\ \A c \in Clients : WF_vars(WindowEnds(c))

-----------------------------------------------------------------------------
(* Properties.                                                             *)

Openers(c) == {r \in Requests : at[r] = "expire" /\ client[r] = c}

Budgeted(c) == IF bucket[c].count < Limit THEN bucket[c].count ELSE Limit

\* README "multiple API instances share the same request budget": however the
\* replicas interleave, whatever fails and whichever replica dies, with
\* RATE_LIMIT_FAIL_CLOSED at most Limit requests of a client are let through
\* in one window.
BudgetKept == FailClosed => \A c \in Clients : passed[c] <= Limit

\* Without faults a client also gets all of its budget: what was counted, up to
\* Limit, was let through, except a request that is about to set the expiry.
BudgetUsed ==
    faults = 0 =>
        \A c \in Clients : passed[c] + Cardinality(Openers(c)) = Budgeted(c)

\* A window that has been opened will end: its key has a TTL, or exactly one
\* request is about to give it one.  Nothing else ever would.
WindowHasOwner ==
    faults = 0 =>
        \A c \in Clients :
            Cardinality(Openers(c)) =
                IF bucket[c].count > 0 /\ ~bucket[c].expires THEN 1 ELSE 0

\* README "protected requests return 503 until request protection is available
\* again", and no longer: a client that has used up its window gets a new one.
ClientRecovers ==
    \A c \in Clients : bucket[c].count > Limit ~> bucket[c].count <= Limit

\* A client that has used up its window gets a new one, as long as nothing
\* fails between the INCR that opens a window and its EXPIRE.
RecoversWithoutFaults == [](faults = 0) => ClientRecovers

=============================================================================
