------------------------- MODULE RateLimiterProofs -------------------------
(***************************************************************************)
(* What the limiter lets through, and who ends a window, for any number of *)
(* clients and concurrent requests, any limit and any number of faults.    *)
(***************************************************************************)
EXTENDS RateLimiter, FiniteSetTheorems, TLAPS

\* RATE_LIMIT_REQUESTS bounds what is let through because a window has at most
\* one opener, the window cannot end before its opener has set the expiry, and
\* what was let through, plus that opener, has been counted.
OpenerAlone ==
    \A r \in Requests : at[r] = "expire" =>
        /\ bucket[client[r]].count > 0
        /\ ~bucket[client[r]].expires
        /\ \A q \in Requests :
              at[q] = "expire" /\ client[q] = client[r] => q = r

\* A key that does not exist has no TTL.
AbsentIsBare == \A c \in Clients : bucket[c].count = 0 => ~bucket[c].expires

Opened(c) == \E r \in Requests : at[r] = "expire" /\ client[r] = c

PassedWereCounted ==
    FailClosed =>
        \A c \in Clients :
            /\ passed[c] <= Budgeted(c)
            /\ Opened(c) => passed[c] < Budgeted(c)

BudgetInv == TypeOK /\ OpenerAlone /\ AbsentIsBare /\ PassedWereCounted

-----------------------------------------------------------------------------

\* Counting an INCR, once or twice, stays within the counts of the model.
LEMMA BumpType ==
    ASSUME NEW n \in Counts
    PROVE  Bump(n) \in Counts /\ Bump(n) > 0 /\ Bump(n) >= n
           /\ (n <= Limit => Bump(n) = n + 1)
  BY RateLimiterAssumption DEF Counts, Bump

\* The types hold in every reachable state.
LEMMA TypeInit == Init => TypeOK
  BY RateLimiterAssumption DEF Init, TypeOK, NoBucket, Counts

LEMMA CountType ==
    ASSUME TypeOK, NEW r \in Requests, NEW c \in Clients, NEW n \in Counts,
           Count(r, c, n), faults' \in 0..MaxFaults
    PROVE  TypeOK'
  <1>1. bucket' \in [Clients -> [count : Counts, expires : BOOLEAN]]
    BY DEF TypeOK, Count
  <1>2. at' \in [Requests -> {"incr", "expire", "ttl"}]
    BY DEF TypeOK, Count, Goto
  <1>3. client' \in [Requests -> Clients]
    BY DEF TypeOK, Count
  <1>4. passed' \in [Clients -> Nat]
    BY DEF TypeOK, Count, LetThrough
  <1> QED BY <1>1, <1>2, <1>3, <1>4 DEF TypeOK

LEMMA TypeStep == TypeOK /\ [Next]_vars => TypeOK'
  <1> SUFFICES ASSUME TypeOK, [Next]_vars PROVE TypeOK'
    OBVIOUS
  <1>c. ASSUME NEW c \in Clients PROVE bucket[c].count \in Counts
    BY DEF TypeOK
  <1>f. Fault => faults' \in 0..MaxFaults
    BY RateLimiterAssumption DEF TypeOK, Fault
  <1>n. ASSUME NEW c \in Clients PROVE passed[c] + 1 \in Nat
    BY DEF TypeOK
  <1>1. ASSUME NEW r \in Requests, NEW c \in Clients, Incr(r, c) PROVE TypeOK'
    <2>1. Bump(bucket[c].count) \in Counts
      BY <1>c, BumpType
    <2> QED BY <1>1, <2>1, CountType DEF Incr, TypeOK
  <1>2. ASSUME NEW r \in Requests, NEW c \in Clients, IncrResent(r, c)
        PROVE  TypeOK'
    <2>1. Bump(Bump(bucket[c].count)) \in Counts
      BY <1>c, BumpType
    <2> QED BY <1>2, <1>f, <2>1, CountType DEF IncrResent
  <1>3. ASSUME NEW r \in Requests, NEW c \in Clients, IncrFails(r, c)
        PROVE  TypeOK'
    <2>1. Bump(bucket[c].count) \in Counts
      BY <1>c, BumpType
    <2> QED BY <1>3, <1>f, <1>n, <2>1
            DEF IncrFails, Unprotected, LetThrough, TypeOK
  <1>4. ASSUME NEW r \in Requests, Expire(r) PROVE TypeOK'
    BY <1>4, <1>n DEF Expire, LetThrough, Goto, TypeOK
  <1>5. ASSUME NEW r \in Requests, ReadTtl(r) PROVE TypeOK'
    BY <1>5 DEF ReadTtl, Goto, TypeOK
  <1>6. ASSUME NEW r \in Requests, ExpireFails(r) PROVE TypeOK'
    <2>1. client[r] \in Clients
      BY DEF TypeOK
    <2>2. passed' \in [Clients -> Nat]
      BY <1>6, <1>n, <2>1 DEF ExpireFails, Unprotected, LetThrough, TypeOK
    <2>3. bucket' \in [Clients -> [count : Counts, expires : BOOLEAN]]
      BY <1>6, <2>1 DEF ExpireFails, TypeOK
    <2> QED BY <1>6, <1>f, <2>2, <2>3 DEF ExpireFails, Goto, TypeOK
  <1>7. ASSUME NEW r \in Requests, TtlFails(r) PROVE TypeOK'
    BY <1>7, <1>f, <1>n DEF TtlFails, Unprotected, LetThrough, Goto, TypeOK
  <1>8. ASSUME NEW r \in Requests, ReplicaDies(r) PROVE TypeOK'
    BY <1>8, <1>f DEF ReplicaDies, Goto, TypeOK
  <1>9. ASSUME NEW c \in Clients, WindowEnds(c) PROVE TypeOK'
    BY <1>9, RateLimiterAssumption DEF WindowEnds, NoBucket, Counts, TypeOK
  <1>10. CASE UNCHANGED vars
    BY <1>10 DEF vars, TypeOK
  <1> QED BY <1>1, <1>2, <1>3, <1>4, <1>5, <1>6, <1>7, <1>8, <1>9, <1>10 DEF Next

-----------------------------------------------------------------------------

LEMMA BudgetInit == Init => BudgetInv
  <1> SUFFICES ASSUME Init PROVE OpenerAlone /\ AbsentIsBare /\ PassedWereCounted
    BY TypeInit DEF BudgetInv
  <1>1. OpenerAlone
    BY DEF Init, OpenerAlone
  <1>2. PassedWereCounted
    BY RateLimiterAssumption
       DEF Init, PassedWereCounted, Budgeted, Opened, NoBucket
  <1>3. AbsentIsBare
    BY DEF Init, AbsentIsBare, NoBucket
  <1> QED BY <1>1, <1>2, <1>3

\* An INCR, whether counted once or twice.
LEMMA CountStep ==
    ASSUME BudgetInv, NEW r \in Requests, NEW c \in Clients, NEW n \in Counts,
           n > 0, n >= bucket[c].count,
           bucket[c].count <= Limit => n > bucket[c].count,
           Count(r, c, n)
    PROVE  OpenerAlone' /\ AbsentIsBare' /\ PassedWereCounted'
  <1> USE RateLimiterAssumption
  <1>0. /\ TypeOK
        /\ bucket' = [bucket EXCEPT ![c].count = n]
        /\ client' = [client EXCEPT ![r] = c]
        /\ at[r] = "incr"
    BY DEF BudgetInv, Count
  <1>b. /\ bucket'[c].count = n
        /\ bucket'[c].expires = bucket[c].expires
        /\ \A d \in Clients : d # c => bucket'[d] = bucket[d]
    BY <1>0 DEF TypeOK
  <1>1. OpenerAlone'
    <2>1. CASE n = 1 /\ Goto(r, "expire")
      <3>1. bucket[c].count = 0
        BY <1>0, <2>1 DEF TypeOK, Counts
      <3>2. ~Opened(c) /\ ~bucket[c].expires
        BY <3>1 DEF BudgetInv, OpenerAlone, AbsentIsBare, Opened
      <3> QED BY <1>0, <1>b, <2>1, <3>2
              DEF BudgetInv, OpenerAlone, Opened, Goto, TypeOK
    <2>2. CASE at' = at \/ Goto(r, "ttl")
      BY <1>0, <1>b, <2>2 DEF BudgetInv, OpenerAlone, Goto, TypeOK, Counts
    <2> QED BY <2>1, <2>2 DEF Count
  <1>2. AbsentIsBare'
    BY <1>b DEF BudgetInv, AbsentIsBare
  <1>3. PassedWereCounted'
    <2> SUFFICES ASSUME FailClosed, NEW d \in Clients
                 PROVE  /\ passed'[d] <= Budgeted(d)'
                        /\ Opened(d)' => passed'[d] < Budgeted(d)'
      BY DEF PassedWereCounted
    <2>1. /\ passed[d] \in Nat
          /\ bucket[d].count \in Counts
          /\ passed[d] <= Budgeted(d)
          /\ Opened(d) => passed[d] < Budgeted(d)
      BY <1>0 DEF BudgetInv, PassedWereCounted, TypeOK
    <2>2. CASE d # c
      <3>1. passed'[d] = passed[d] /\ Budgeted(d)' = Budgeted(d)
        BY <1>0, <1>b, <2>2 DEF Count, LetThrough, Budgeted, TypeOK
      <3>2. Opened(d)' => Opened(d)
        BY <1>0, <2>2 DEF Count, Goto, Opened, TypeOK
      <3> QED BY <2>1, <3>1, <3>2
    <2>3. CASE d = c /\ n = 1 /\ Goto(r, "expire") /\ UNCHANGED passed
      <3>1. passed'[c] = 0
        BY <1>0, <2>1, <2>3 DEF Budgeted, Counts
      <3>2. Budgeted(c)' = 1
        BY <1>b, <2>3 DEF Budgeted
      <3> QED BY <2>3, <3>1, <3>2
    <2>4. CASE d = c /\ n <= Limit /\ LetThrough(c) /\ UNCHANGED at
      <3>1. passed'[c] = passed[c] + 1
        BY <1>0, <2>4 DEF LetThrough, TypeOK
      <3>2. Budgeted(c)' = n /\ Budgeted(c) < n
        BY <1>b, <2>1, <2>4 DEF Budgeted, Counts
      <3>3. Opened(c)' => Opened(c)
        BY <1>0, <2>4 DEF Opened, TypeOK
      <3>4. Budgeted(c) \in Nat /\ n \in Nat
        BY <2>1, <2>4 DEF Budgeted, Counts
      <3> QED BY <2>1, <2>4, <3>1, <3>2, <3>3, <3>4
    <2>5. CASE d = c /\ n > Limit /\ Goto(r, "ttl") /\ UNCHANGED passed
      <3>1. Budgeted(c)' = Limit /\ Budgeted(c) <= Limit /\ Budgeted(c) \in Nat
        BY <1>b, <2>1, <2>5 DEF Budgeted, Counts
      <3>2. Opened(c)' => Opened(c)
        BY <1>0, <2>5 DEF Opened, Goto, TypeOK
      <3> QED BY <2>1, <2>5, <3>1, <3>2
    <2> QED BY <2>2, <2>3, <2>4, <2>5 DEF Count
  <1> QED BY <1>1, <1>2, <1>3


\* Every step keeps the invariant.
LEMMA BudgetStep == BudgetInv /\ [Next]_vars => BudgetInv'
  <1> SUFFICES ASSUME BudgetInv, [Next]_vars
               PROVE  OpenerAlone' /\ AbsentIsBare' /\ PassedWereCounted'
    BY TypeStep DEF BudgetInv
  <1> USE RateLimiterAssumption
  <1>t. TypeOK
    BY DEF BudgetInv
  <1>c. ASSUME NEW c \in Clients PROVE bucket[c].count \in Counts
    BY <1>t DEF TypeOK
  <1>1. ASSUME NEW r \in Requests, NEW c \in Clients, Incr(r, c)
        PROVE  OpenerAlone' /\ AbsentIsBare' /\ PassedWereCounted'
    <2> DEFINE n == Bump(bucket[c].count)
    <2>1. n \in Counts /\ n > 0 /\ n >= bucket[c].count
          /\ (bucket[c].count <= Limit => n > bucket[c].count)
      BY <1>c, BumpType DEF Counts
    <2> HIDE DEF n
    <2>2. Count(r, c, n)
      BY <1>1 DEF Incr, n
    <2> QED BY <2>1, <2>2, CountStep
  <1>2. ASSUME NEW r \in Requests, NEW c \in Clients, IncrResent(r, c)
        PROVE  OpenerAlone' /\ AbsentIsBare' /\ PassedWereCounted'
    <2> DEFINE m == Bump(bucket[c].count)
               n == Bump(m)
    <2>1. m \in Counts /\ m > 0 /\ m >= bucket[c].count
          /\ (bucket[c].count <= Limit => m > bucket[c].count)
      BY <1>c, BumpType DEF Counts
    <2> HIDE DEF m
    <2>2. n \in Counts /\ n > 0 /\ n >= m
      BY <2>1, BumpType
    <2> HIDE DEF n
    <2>3. Count(r, c, n)
      BY <1>2 DEF IncrResent, m, n
    <2>4. n >= bucket[c].count /\ (bucket[c].count <= Limit => n > bucket[c].count)
      BY <1>c, <2>1, <2>2 DEF Counts
    <2> QED BY <2>2, <2>3, <2>4, CountStep
  <1>3. ASSUME NEW r \in Requests, NEW c \in Clients, IncrFails(r, c)
        PROVE  OpenerAlone' /\ AbsentIsBare' /\ PassedWereCounted'
    <2>1. Bump(bucket[c].count) \in Counts /\ Bump(bucket[c].count) > 0
          /\ Bump(bucket[c].count) >= bucket[c].count
      BY <1>c, BumpType
    <2>2. /\ at' = at /\ client' = client
          /\ \A d \in Clients :
                /\ bucket'[d].expires = bucket[d].expires
                /\ bucket'[d].count \in Counts
                /\ bucket'[d].count >= bucket[d].count
      BY <1>3, <1>t, <1>c, <2>1 DEF IncrFails, TypeOK, Counts
    <2>3. OpenerAlone' /\ AbsentIsBare'
      BY <1>t, <1>c, <2>2 DEF BudgetInv, OpenerAlone, AbsentIsBare, TypeOK, Counts
    <2>4. FailClosed => UNCHANGED passed
      BY <1>3 DEF IncrFails, Unprotected
    <2>5. ASSUME NEW d \in Clients
          PROVE  Budgeted(d)' >= Budgeted(d) /\ Budgeted(d) \in Nat
                 /\ Budgeted(d)' \in Nat
      BY <1>c, <2>2 DEF Budgeted, Counts
    <2>6. ASSUME NEW d \in Clients PROVE passed[d] \in Nat /\ Opened(d)' = Opened(d)
      BY <1>t, <2>2 DEF TypeOK, Opened
    <2> QED BY <2>3, <2>4, <2>5, <2>6 DEF BudgetInv, PassedWereCounted
  <1>4. ASSUME NEW r \in Requests, Expire(r)
        PROVE  OpenerAlone' /\ AbsentIsBare' /\ PassedWereCounted'
    <2>1. /\ at[r] = "expire" /\ client' = client
          /\ client[r] \in Clients
          /\ \A q \in Requests : at'[q] = IF q = r THEN "incr" ELSE at[q]
          /\ \A d \in Clients :
                /\ bucket'[d].count = bucket[d].count
                /\ d # client[r] => bucket'[d] = bucket[d]
                /\ passed'[d] = IF d = client[r] THEN passed[d] + 1 ELSE passed[d]
      BY <1>4, <1>t DEF Expire, Goto, LetThrough, TypeOK
    <2>2. OpenerAlone' /\ AbsentIsBare'
      BY <1>t, <2>1 DEF BudgetInv, OpenerAlone, AbsentIsBare, TypeOK
    <2>3. Opened(client[r]) /\ ~Opened(client[r])'
      BY <1>t, <2>1 DEF BudgetInv, OpenerAlone, Opened, TypeOK
    <2>4. ASSUME NEW d \in Clients
          PROVE  Budgeted(d)' = Budgeted(d) /\ Budgeted(d) \in Nat
                 /\ passed[d] \in Nat
      BY <1>t, <1>c, <2>1 DEF Budgeted, Counts, TypeOK
    <2>5. ASSUME NEW d \in Clients PROVE Opened(d)' => Opened(d)
      BY <2>1 DEF Opened
    <2> QED BY <2>1, <2>2, <2>3, <2>4, <2>5 DEF BudgetInv, PassedWereCounted
  <1>5. ASSUME NEW r \in Requests,
               ReadTtl(r) \/ TtlFails(r) \/ ExpireFails(r) \/ ReplicaDies(r)
        PROVE  OpenerAlone' /\ AbsentIsBare' /\ PassedWereCounted'
    <2>1. /\ at[r] # "incr" /\ client' = client
          /\ client[r] \in Clients
          /\ \A q \in Requests : at'[q] = IF q = r THEN "incr" ELSE at[q]
          /\ \A d \in Clients :
                /\ bucket'[d].count = bucket[d].count
                /\ bucket'[d] # bucket[d] => at[r] = "expire" /\ d = client[r]
          /\ FailClosed => passed' = passed
      BY <1>5, <1>t DEF ReadTtl, TtlFails, ExpireFails, ReplicaDies, Goto,
                        Unprotected, TypeOK
    <2>2. OpenerAlone'
      BY <1>t, <2>1 DEF BudgetInv, OpenerAlone, TypeOK
    <2>3. AbsentIsBare'
      BY <1>t, <2>1 DEF BudgetInv, OpenerAlone, AbsentIsBare, TypeOK
    <2>4. ASSUME NEW d \in Clients
          PROVE  Budgeted(d)' = Budgeted(d) /\ (Opened(d)' => Opened(d))
      BY <2>1 DEF Budgeted, Opened
    <2> QED BY <2>1, <2>2, <2>3, <2>4 DEF BudgetInv, PassedWereCounted
  <1>6. ASSUME NEW c \in Clients, WindowEnds(c)
        PROVE  OpenerAlone' /\ AbsentIsBare' /\ PassedWereCounted'
    <2>1. /\ at' = at /\ client' = client
          /\ bucket[c].expires
          /\ \A d \in Clients :
                /\ bucket'[d] = IF d = c THEN NoBucket ELSE bucket[d]
                /\ passed'[d] = IF d = c THEN 0 ELSE passed[d]
      BY <1>6, <1>t DEF WindowEnds, TypeOK
    <2>2. ~Opened(c)
      BY <2>1 DEF BudgetInv, OpenerAlone, Opened
    <2>3. OpenerAlone' /\ AbsentIsBare'
      BY <1>t, <2>1, <2>2
         DEF BudgetInv, OpenerAlone, AbsentIsBare, Opened, NoBucket, TypeOK
    <2>4. ASSUME NEW d \in Clients
          PROVE  /\ Opened(d)' = Opened(d)
                 /\ d # c => Budgeted(d)' = Budgeted(d)
                 /\ d = c => Budgeted(d)' = 0
      BY <2>1 DEF Budgeted, Opened, NoBucket
    <2> QED BY <2>1, <2>2, <2>3, <2>4 DEF BudgetInv, PassedWereCounted
  <1>7. CASE UNCHANGED vars
    BY <1>7 DEF vars, BudgetInv, OpenerAlone, AbsentIsBare, PassedWereCounted,
                Budgeted, Opened
  <1> QED BY <1>1, <1>2, <1>3, <1>4, <1>5, <1>6, <1>7 DEF Next

-----------------------------------------------------------------------------

\* The invariant that BudgetAlways rests on.
THEOREM BudgetInvariant == Spec => []BudgetInv
  BY BudgetInit, BudgetStep, PTL DEF Spec

\* rate_limit.py: the variables keep their types, however many faults happen.
THEOREM TypeCorrect == Spec => []TypeOK
  BY TypeInit, TypeStep, PTL DEF Spec

\* README "multiple API instances share the same request budget": no
\* interleaving of replicas and no faults let a client exceed its limit.
THEOREM BudgetAlways == Spec => []BudgetKept
  <1>1. BudgetInv => BudgetKept
    <2> SUFFICES ASSUME BudgetInv, FailClosed, NEW c \in Clients
                 PROVE  passed[c] <= Limit
      BY DEF BudgetKept
    <2>1. /\ passed[c] <= Budgeted(c)
          /\ passed[c] \in Nat
          /\ bucket[c].count \in Counts
      BY DEF BudgetInv, PassedWereCounted, TypeOK
    <2> QED BY <2>1, RateLimiterAssumption DEF Budgeted, Counts
  <1> QED BY <1>1, BudgetInvariant, PTL

-----------------------------------------------------------------------------
(* Without faults the budget is used, and every window will end.           *)

Opening(c) == IF Opened(c) THEN 1 ELSE 0

\* Until something fails: a request that was counted within the budget was let
\* through, or is about to be; a window without a TTL has its opener.
UsedInv ==
    faults = 0 =>
        \A c \in Clients :
            /\ passed[c] + Opening(c) = Budgeted(c)
            /\ bucket[c].count > 0 /\ ~bucket[c].expires => Opened(c)

LEMMA OpenersCount ==
    ASSUME OpenerAlone, NEW c \in Clients
    PROVE  Cardinality(Openers(c)) = Opening(c)
  <1>1. CASE ~Opened(c)
    <2>1. Openers(c) = {}
      BY <1>1 DEF Openers, Opened
    <2> QED BY <1>1, <2>1, FS_EmptySet DEF Opening
  <1>2. CASE Opened(c)
    <2> PICK r \in Requests : at[r] = "expire" /\ client[r] = c
      BY <1>2 DEF Opened
    <2>1. Openers(c) = {r}
      BY DEF Openers, OpenerAlone
    <2> QED BY <1>2, <2>1, FS_Singleton DEF Opening
  <1> QED BY <1>1, <1>2

LEMMA UsedCount ==
    ASSUME BudgetInv, UsedInv, faults = 0,
           NEW r \in Requests, NEW c \in Clients, Incr(r, c)
    PROVE  UsedInv'
  <1> USE RateLimiterAssumption
  <1> DEFINE n == Bump(bucket[c].count)
  <1>1. /\ TypeOK /\ OpenerAlone /\ bucket[c].count \in Counts
        /\ at[r] = "incr" /\ client' = [client EXCEPT ![r] = c]
        /\ bucket' = [bucket EXCEPT ![c].count = n]
    BY DEF BudgetInv, TypeOK, Incr, Count
  <1>2. /\ n \in Counts /\ n > 0
        /\ bucket[c].count <= Limit => n = bucket[c].count + 1
        /\ bucket[c].count > Limit => n = bucket[c].count
    BY <1>1, BumpType DEF Bump
  <1>3. \/ n = 1 /\ Goto(r, "expire") /\ UNCHANGED passed
        \/ n > 1 /\ n <= Limit /\ LetThrough(c) /\ UNCHANGED at
        \/ n > Limit /\ Goto(r, "ttl") /\ UNCHANGED passed
    BY DEF Incr, Count
  <1> HIDE DEF n
  <1>4. /\ bucket'[c].count = n /\ bucket'[c].expires = bucket[c].expires
        /\ \A d \in Clients \ {c} : bucket'[d] = bucket[d] /\ passed'[d] = passed[d]
    BY <1>1, <1>3 DEF TypeOK, LetThrough
  <1>5. \A d \in Clients \ {c} : Opened(d)' <=> Opened(d)
    BY <1>1, <1>3 DEF Opened, Goto, TypeOK
  <1>6. ASSUME NEW d \in Clients \ {c}
        PROVE  /\ passed'[d] + Opening(d)' = Budgeted(d)'
               /\ bucket'[d].count > 0 /\ ~bucket'[d].expires => Opened(d)'
    <2>1. Opening(d)' = Opening(d) /\ Budgeted(d)' = Budgeted(d)
      BY <1>4, <1>5 DEF Opening, Budgeted
    <2> QED BY <1>4, <1>5, <2>1 DEF UsedInv
  <1>7. passed[c] \in Nat /\ passed[c] + Opening(c) = Budgeted(c)
    BY <1>1 DEF UsedInv, TypeOK
  <1>8. CASE n = 1 /\ Goto(r, "expire") /\ UNCHANGED passed
    <2>1. bucket[c].count = 0
      BY <1>1, <1>2, <1>8 DEF Counts
    <2>2. ~Opened(c)
      BY <1>1, <2>1 DEF OpenerAlone, Opened
    <2>3. passed'[c] = 0
      BY <1>7, <1>8, <2>1, <2>2 DEF Opening, Budgeted
    <2>4. Opened(c)'
      BY <1>1, <1>8 DEF Opened, Goto, TypeOK
    <2>5. Opening(c)' = 1 /\ Budgeted(c)' = 1
      BY <1>4, <1>8, <2>4 DEF Opening, Budgeted
    <2> QED BY <1>6, <2>3, <2>4, <2>5 DEF UsedInv
  <1>9. CASE n > 1 /\ n <= Limit /\ LetThrough(c) /\ UNCHANGED at
    <2>1. Opened(c)' <=> Opened(c)
      BY <1>1, <1>9 DEF Opened, TypeOK
    <2>2. bucket[c].count = n - 1
      BY <1>1, <1>2, <1>9 DEF Counts
    <2>3. Budgeted(c) = n - 1 /\ Budgeted(c)' = n /\ Opening(c)' = Opening(c)
      BY <1>1, <1>2, <1>4, <1>9, <2>1, <2>2 DEF Budgeted, Counts, Opening
    <2>4. passed'[c] = passed[c] + 1
      BY <1>1, <1>9 DEF LetThrough, TypeOK
    <2>5. passed'[c] + Opening(c)' = Budgeted(c)'
      BY <1>2, <1>7, <2>3, <2>4 DEF Opening, Counts
    <2>6. bucket'[c].count > 0 /\ ~bucket'[c].expires => Opened(c)'
      BY <1>2, <1>4, <1>9, <2>1, <2>2 DEF UsedInv, Counts
    <2> QED BY <1>6, <2>5, <2>6 DEF UsedInv
  <1>10. CASE n > Limit /\ Goto(r, "ttl") /\ UNCHANGED passed
    <2>1. Opened(c)' <=> Opened(c)
      BY <1>1, <1>10 DEF Opened, Goto, TypeOK
    <2>2. bucket[c].count >= Limit
      BY <1>1, <1>2, <1>10 DEF Counts
    <2>3. Budgeted(c) = Limit /\ Budgeted(c)' = Limit /\ Opening(c)' = Opening(c)
      BY <1>1, <1>2, <1>4, <1>10, <2>1, <2>2 DEF Budgeted, Counts, Opening
    <2>4. bucket'[c].count > 0 /\ ~bucket'[c].expires => Opened(c)'
      BY <1>1, <1>4, <2>1, <2>2 DEF UsedInv, Counts
    <2> QED BY <1>6, <1>7, <1>10, <2>3, <2>4 DEF UsedInv
  <1> QED BY <1>3, <1>8, <1>9, <1>10

LEMMA UsedStep == BudgetInv /\ UsedInv /\ [Next]_vars => UsedInv'
  <1> SUFFICES ASSUME BudgetInv, UsedInv, [Next]_vars, faults' = 0 PROVE UsedInv'
    BY DEF UsedInv
  <1> USE RateLimiterAssumption
  <1>0. TypeOK /\ OpenerAlone /\ faults \in Nat
    BY DEF BudgetInv, TypeOK
  <1>1. faults = 0 /\ ~Fault
    <2>1. ~Fault
      BY <1>0 DEF Fault
    <2> QED BY <2>1 DEF Next, vars, Incr, IncrResent, IncrFails, Expire, ReadTtl,
                        ExpireFails, TtlFails, ReplicaDies, WindowEnds
  <1>2. ASSUME NEW r \in Requests, NEW c \in Clients, Incr(r, c) PROVE UsedInv'
    BY <1>1, <1>2, UsedCount
  <1>3. ASSUME NEW r \in Requests, Expire(r) PROVE UsedInv'
    <2> DEFINE c == client[r]
    <2>1. /\ c \in Clients /\ at[r] = "expire" /\ client' = client
          /\ \A q \in Requests : at'[q] = IF q = r THEN "incr" ELSE at[q]
          /\ \A d \in Clients :
                /\ bucket'[d].count = bucket[d].count
                /\ d # c => bucket'[d] = bucket[d] /\ passed'[d] = passed[d]
          /\ bucket'[c].expires = TRUE
          /\ passed'[c] = passed[c] + 1 /\ passed[c] \in Nat
      BY <1>0, <1>3 DEF Expire, Goto, LetThrough, TypeOK
    <2>2. \A d \in Clients \ {c} : Opened(d)' <=> Opened(d)
      BY <2>1 DEF Opened
    <2>3. ASSUME NEW d \in Clients \ {c}
          PROVE  /\ passed'[d] + Opening(d)' = Budgeted(d)'
                 /\ bucket'[d].count > 0 /\ ~bucket'[d].expires => Opened(d)'
      <3>1. Opening(d)' = Opening(d) /\ Budgeted(d)' = Budgeted(d)
        BY <2>1, <2>2 DEF Opening, Budgeted
      <3> QED BY <1>1, <2>1, <2>2, <3>1 DEF UsedInv
    <2>4. Opened(c)
      BY <2>1 DEF Opened
    <2>5. \A d \in Clients : d = c => ~Opened(d)'
      BY <1>0, <2>1 DEF Opened, OpenerAlone
    <2>6. ASSUME NEW d \in Clients, d = c
          PROVE  /\ passed'[d] + Opening(d)' = Budgeted(d)'
                 /\ bucket'[d].count > 0 /\ ~bucket'[d].expires => Opened(d)'
      <3>1. passed[d] + 1 = Budgeted(d)
        BY <1>1, <2>4, <2>6 DEF UsedInv, Opening
      <3>2. Opening(d)' = 0 /\ Budgeted(d)' = Budgeted(d)
        BY <2>1, <2>5, <2>6 DEF Opening, Budgeted
      <3>3. bucket'[d].expires
        BY <2>1, <2>6
      <3>4. passed'[d] + 0 = Budgeted(d)
        BY <2>1, <2>6, <3>1
      <3> QED BY <3>2, <3>3, <3>4
    <2> QED BY <2>3, <2>6 DEF UsedInv
  <1>4. ASSUME NEW r \in Requests, ReadTtl(r) PROVE UsedInv'
    <2>1. UNCHANGED <<bucket, passed>> /\ \A d \in Clients : Opened(d)' <=> Opened(d)
      BY <1>0, <1>4 DEF ReadTtl, Goto, Opened, TypeOK
    <2>2. \A d \in Clients : Opening(d)' = Opening(d) /\ Budgeted(d)' = Budgeted(d)
      BY <2>1 DEF Opening, Budgeted
    <2> QED BY <1>1, <2>1, <2>2 DEF UsedInv
  <1>5. ASSUME NEW c \in Clients, WindowEnds(c) PROVE UsedInv'
    <2>1. /\ UNCHANGED <<at, client>> /\ bucket[c].expires
          /\ \A d \in Clients :
                /\ bucket'[d] = IF d = c THEN NoBucket ELSE bucket[d]
                /\ passed'[d] = IF d = c THEN 0 ELSE passed[d]
      BY <1>0, <1>5 DEF WindowEnds, TypeOK
    <2>2. ~Opened(c) /\ \A d \in Clients : Opened(d)' <=> Opened(d)
      BY <1>0, <2>1 DEF OpenerAlone, Opened
    <2>3. ASSUME NEW d \in Clients
          PROVE  /\ passed'[d] + Opening(d)' = Budgeted(d)'
                 /\ bucket'[d].count > 0 /\ ~bucket'[d].expires => Opened(d)'
      <3>1. CASE d = c
        <4>1. Opening(d)' = 0 /\ passed'[d] = 0 /\ bucket'[d].count = 0
          BY <2>1, <2>2, <3>1 DEF Opening, NoBucket
        <4> QED BY <4>1 DEF Budgeted
      <3>2. CASE d # c
        <4>1. Opening(d)' = Opening(d) /\ Budgeted(d)' = Budgeted(d)
          BY <2>1, <2>2, <3>2 DEF Opening, Budgeted
        <4> QED BY <1>1, <2>1, <2>2, <3>2, <4>1 DEF UsedInv
      <3> QED BY <3>1, <3>2
    <2> QED BY <2>3 DEF UsedInv
  <1>6. CASE UNCHANGED vars
    BY <1>6 DEF vars, UsedInv, Opening, Opened, Budgeted
  <1> QED BY <1>1, <1>2, <1>3, <1>4, <1>5, <1>6
          DEF Next, IncrResent, IncrFails, ExpireFails, TtlFails, ReplicaDies

\* What holds until something fails, for every behaviour.
THEOREM UsedInvariant == Spec => []UsedInv
  <1>1. Init => UsedInv
    <2> SUFFICES ASSUME Init, NEW c \in Clients
                 PROVE  /\ passed[c] + Opening(c) = Budgeted(c)
                        /\ bucket[c].count > 0 /\ ~bucket[c].expires => Opened(c)
      BY DEF UsedInv
    <2>1. bucket[c].count = 0 /\ passed[c] = 0 /\ Opening(c) = 0
      BY DEF Init, NoBucket, Opening, Opened
    <2>2. Budgeted(c) = 0
      BY <2>1, RateLimiterAssumption DEF Budgeted
    <2> QED BY <2>1, <2>2
  <1> QED BY <1>1, UsedStep, BudgetInvariant, PTL DEF Spec

\* Without faults a client gets all of its budget: what was counted within the
\* limit was let through, but for the request that is about to set the expiry.
THEOREM BudgetIsUsed == Spec => []BudgetUsed
  <1>1. BudgetInv /\ UsedInv => BudgetUsed
    BY OpenersCount DEF BudgetInv, UsedInv, BudgetUsed
  <1> QED BY <1>1, BudgetInvariant, UsedInvariant, PTL

\* A window that has been opened will end: its key has a TTL, or exactly one
\* request is about to give it one.
THEOREM WindowsHaveOwners == Spec => []WindowHasOwner
  <1>1. BudgetInv /\ UsedInv => WindowHasOwner
    <2> SUFFICES ASSUME BudgetInv, UsedInv, faults = 0, NEW c \in Clients
                 PROVE  Cardinality(Openers(c)) =
                           IF bucket[c].count > 0 /\ ~bucket[c].expires THEN 1 ELSE 0
      BY DEF WindowHasOwner
    <2>1. Opened(c) <=> bucket[c].count > 0 /\ ~bucket[c].expires
      BY DEF BudgetInv, OpenerAlone, UsedInv, Opened
    <2> QED BY <2>1, OpenersCount DEF BudgetInv, Opening
  <1> QED BY <1>1, BudgetInvariant, UsedInvariant, PTL

=============================================================================
