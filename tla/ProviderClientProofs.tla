----------------------- MODULE ProviderClientProofs -----------------------
(***************************************************************************)
(* Theorems about ProviderClient, for any number of concurrent calls,      *)
(* client instances, feeds and retries and any age a stale feed may have.  *)
(***************************************************************************)
EXTENDS ProviderClient, TLAPS

LEMMA Constants == MaxRetries \in Nat /\ Stale \in Nat
BY ProviderClientAssumption DEF ProviderClientAssumption

-----------------------------------------------------------------------------
(* The two providers, and the calls.                                       *)

LEMMA OtherProvider ==
    ASSUME NEW p \in Providers
    PROVE  /\ Other(p) \in Providers /\ Other(p) # p
           /\ \A q \in Providers : q # p => q = Other(p)
<1>1. \E q \in Providers : q # p
  BY DEF Providers
<1>2. Other(p) \in Providers /\ Other(p) # p
  BY <1>1 DEF Other
<1> QED BY <1>2 DEF Providers

LEMMA CallType ==
    ASSUME TypeOK, NEW c \in Calls
    PROVE  /\ call[c].at \in {"waiting", "sending", "done"}
           /\ call[c].kind \in Kinds /\ call[c].client \in Clients
           /\ call[c].key \in Keys /\ call[c].provider \in Providers
           /\ call[c].sent \in [Providers -> 0..(MaxRetries + 1)]
           /\ call[c].errors \in SUBSET {"upstream", "config"}
           /\ call[c].reply \in {"none", "ok", "stale", "422", "500", "502", "503"}
           /\ setting.first \in Providers /\ setting.key \in BOOLEAN
BY DEF TypeOK, Call

(* What a client's caller may be told when both providers have failed. *)
LEMMA FailureReplies ==
    ASSUME NEW kind, NEW key, NEW errors
    PROVE  /\ Failure(kind, key, errors) \in {"stale", "422", "502", "503"}
           /\ kind = "feed" => (Failure(kind, key, errors) = "stale"
                                  <=> cache[key] # NoEntry)
BY DEF Failure, HttpStatus

(* A step of one call changes no other. *)
Only(c) == /\ call' \in [Calls -> Call]
           /\ \A d \in Calls \ {c} : call'[d] = call[d]

LEMMA BeginEffect ==
    ASSUME TypeOK, NEW c \in Calls, NEW kind \in Kinds, NEW client \in Clients,
           NEW key \in Keys, Begin(c, kind, client, key)
    PROVE  /\ Only(c) /\ call'[c] = Fresh(kind, client, key)
           /\ UNCHANGED <<setting, cache>>
<1>1. Fresh(kind, client, key) \in Call
  BY Constants DEF TypeOK, Fresh, Call
<1> QED BY <1>1 DEF TypeOK, Begin, Only

(* On to the other provider, or the end. *)
LEMMA ProviderFailsEffect ==
    ASSUME TypeOK, NEW c \in Calls, NEW error \in {"upstream", "config"},
           ProviderFails(c, error)
    PROVE  /\ Only(c)
           /\ call'[c].kind = call[c].kind /\ call'[c].client = call[c].client
           /\ call'[c].key = call[c].key   /\ call'[c].sent = call[c].sent
           /\ call[c].provider = setting.first =>
                 /\ call'[c].at = "waiting" /\ call'[c].reply = call[c].reply
                 /\ call'[c].provider = Other(setting.first)
           /\ call[c].provider # setting.first =>
                 /\ call'[c].at = "done" /\ call'[c].provider = call[c].provider
                 /\ \E errors : call'[c].reply = Failure(call[c].kind, call[c].key, errors)
<1>1. call \in [Calls -> Call] /\ call[c] \in Call
  BY DEF TypeOK
<1> DEFINE errors == call[c].errors \cup {error}
<1> DEFINE reply == Failure(call[c].kind, call[c].key, errors)
<1>2. CASE call[c].provider # setting.first
  <2> DEFINE next == [call[c] EXCEPT !.errors = errors, !.at = "done", !.reply = reply]
  <2>1. reply \in {"stale", "422", "502", "503"}
    BY FailureReplies
  <2> HIDE DEF reply
  <2>2. next \in Call
    BY <1>1, <2>1 DEF Call
  <2>3. call' = [call EXCEPT ![c] = next]
    BY <1>1, <1>2 DEF ProviderFails, reply, Call
  <2> QED BY <1>1, <1>2, <2>2, <2>3 DEF Only, Call, reply
<1>3. CASE call[c].provider = setting.first
  <2> DEFINE next == [call[c] EXCEPT !.errors = errors, !.at = "waiting",
                                     !.provider = Other(call[c].provider)]
  <2>1. Other(call[c].provider) \in Providers
    BY <1>1, OtherProvider DEF Call
  <2>2. next \in Call
    BY <1>1, <2>1 DEF Call
  <2>3. call' = [call EXCEPT ![c] = next]
    BY <1>1, <1>3 DEF ProviderFails, Call
  <2> QED BY <1>1, <1>3, <2>2, <2>3 DEF Only, Call
<1> QED BY <1>2, <1>3

LEMMA SendEffect ==
    ASSUME TypeOK, NEW c \in Calls, Send(c)
    PROVE  /\ Only(c)
           /\ call'[c].at = "sending" /\ call'[c].reply = call[c].reply
           /\ call'[c].kind = call[c].kind /\ call'[c].client = call[c].client
           /\ call'[c].key = call[c].key /\ call'[c].provider = call[c].provider
           /\ call'[c].sent = [call[c].sent EXCEPT ![call[c].provider] = 1]
<1> DEFINE next == [call[c] EXCEPT !.at = "sending",
                        !.sent = [call[c].sent EXCEPT ![call[c].provider] = 1]]
<1>1. call \in [Calls -> Call] /\ call[c] \in Call
  BY DEF TypeOK
<1>2. [call[c].sent EXCEPT ![call[c].provider] = 1] \in [Providers -> 0..(MaxRetries + 1)]
  BY <1>1, Constants DEF Call
<1>3. next \in Call
  BY <1>1, <1>2 DEF Call
<1>4. call' = [call EXCEPT ![c] = next]
  BY <1>1 DEF Send, Call
<1> QED BY <1>1, <1>3, <1>4 DEF Only, Call

LEMMA RetryEffect ==
    ASSUME TypeOK, NEW c \in Calls, Retry(c)
    PROVE  /\ Only(c)
           /\ call'[c].at = "sending" /\ call'[c].reply = call[c].reply
           /\ call'[c].kind = call[c].kind /\ call'[c].client = call[c].client
           /\ call'[c].key = call[c].key /\ call'[c].provider = call[c].provider
           /\ call'[c].sent = [call[c].sent EXCEPT ![call[c].provider] = @ + 1]
<1> DEFINE next == [call[c] EXCEPT
                !.sent = [call[c].sent EXCEPT
                            ![call[c].provider] = call[c].sent[call[c].provider] + 1]]
<1>1. call \in [Calls -> Call] /\ call[c] \in Call
  BY DEF TypeOK
<1>2. [call[c].sent EXCEPT ![call[c].provider] = call[c].sent[call[c].provider] + 1]
         \in [Providers -> 0..(MaxRetries + 1)]
  BY <1>1, Constants DEF Call, Retry
<1>3. next \in Call
  BY <1>1, <1>2 DEF Call
<1>4. call' = [call EXCEPT ![c] = next]
  BY <1>1 DEF Retry, Call
<1> QED BY <1>1, <1>3, <1>4 DEF Only, Call, Retry

(* An answer, or one that nobody expects. *)
LEMMA EndEffect ==
    ASSUME TypeOK, NEW c \in Calls, Answer(c) \/ Malformed(c)
    PROVE  /\ Only(c)
           /\ call'[c].at = "done" /\ call'[c].reply \in {"ok", "500"}
           /\ cache' \in [Keys -> Ages]
<1>1. call \in [Calls -> Call] /\ call[c] \in Call /\ call[c].key \in Keys
  BY CallType DEF TypeOK
<1>2. cache' \in [Keys -> Ages]
  BY <1>1, Constants DEF TypeOK, Answer, Malformed, Ages, NoEntry
<1>3. ASSUME NEW reply \in {"ok", "500"},
             call' = [call EXCEPT ![c].at = "done", ![c].reply = reply]
      PROVE  Only(c) /\ call'[c].at = "done" /\ call'[c].reply = reply
  BY <1>1, <1>3 DEF Only, Call
<1> QED BY <1>2, <1>3 DEF Answer, Malformed

-----------------------------------------------------------------------------
(* The invariant.                                                          *)

(* A provider was asked, or could not be. *)
Tried(r, p) == r.sent[p] > 0 \/ (p = "parse" /\ ~setting.key)

(* How far one call has come with its two providers. *)
Progress(r) ==
    /\ r.at # "done" => r.reply = "none"
    /\ r.at = "sending" => r.sent[r.provider] > 0
    /\ r.at # "done" /\ r.provider # setting.first => Tried(r, setting.first)
    /\ r.reply \in {"stale", "422", "502", "503"} => \A p \in Providers : Tried(r, p)

(* The cache knows what the calls have returned to their callers, and when. *)
Invariant == TypeOK /\ (\A c \in Calls : Progress(call[c])) /\ cache = fetched

LEMMA ProgressMeansTried == (\A c \in Calls : Progress(call[c])) => TriesEverything
BY DEF Progress, Tried, Providers, TriesEverything

LEMMA InvariantInit == Init => Invariant
<1> SUFFICES ASSUME Init PROVE Invariant
  OBVIOUS
<1>1. PICK client \in Clients, key \in Keys :
         call = [c \in Calls |-> [Fresh("feed", client, key) EXCEPT
                                    !.at = "done", !.reply = "ok"]]
  BY DEF Init
<1> DEFINE ended == [Fresh("feed", client, key) EXCEPT !.at = "done", !.reply = "ok"]
<1>2. setting.first \in Providers
  BY DEF Init
<1>3. Fresh("feed", client, key) \in Call
  BY <1>2, Constants DEF Fresh, Call, Kinds
<1>4. ended \in Call /\ ended.at = "done" /\ ended.reply = "ok"
  BY <1>3 DEF Call
<1> HIDE DEF ended
<1>5. TypeOK
  BY <1>1, <1>4, Constants DEF Init, TypeOK, Ages, NoEntry, ended
<1>6. ASSUME NEW c \in Calls PROVE Progress(call[c]) /\ call[c].at = "done"
  BY <1>1, <1>4 DEF Progress, ended
<1> QED BY <1>5, <1>6 DEF Invariant, Init

(* A step of one call, which returns a feed exactly if it fills the cache. *)
LEMMA OneCall ==
    ASSUME Invariant, NEW c \in Calls, Only(c), UNCHANGED setting,
           Progress(call[c])', Observe,
           IF call[c].at # "done" /\ call[c].kind = "feed" /\ call'[c].reply = "ok"
           THEN cache' = [cache EXCEPT ![call[c].key] = 0]
           ELSE UNCHANGED cache
    PROVE  Invariant'
<1>0. TypeOK /\ cache = fetched /\ cache \in [Keys -> Ages] /\ 0 \in Ages
  BY Constants DEF Invariant, TypeOK, Ages, NoEntry
<1>1. cache' \in [Keys -> Ages]
  BY <1>0
<1>2. ASSUME NEW d \in Calls PROVE Progress(call[d])'
  <2>1. CASE d = c
    BY <2>1
  <2>2. CASE d # c
    BY <2>2 DEF Invariant, Only, Progress, Tried
  <2> QED BY <2>1, <2>2
<1>3. ASSUME NEW d \in Calls \ {c}, call[d].at # "done" PROVE call'[d].reply # "ok"
  BY <1>3 DEF Invariant, Only, Progress
<1>4. fetched' = cache'
  <2>1. CASE /\ call[c].at # "done" /\ call[c].kind = "feed" /\ call'[c].reply = "ok"
    <3>1. \A k \in Keys : (\E d \in Calls : /\ call[d].at # "done"
                                            /\ call[d].kind = "feed" /\ call[d].key = k
                                            /\ call'[d].reply = "ok")
                             <=> k = call[c].key
      BY <1>3, <2>1
    <3>2. fetched' = [k \in Keys |-> IF k = call[c].key THEN 0 ELSE cache[k]]
      BY <1>0, <3>1 DEF Observe
    <3> QED BY <1>0, <2>1, <3>2
  <2>2. CASE ~(/\ call[c].at # "done" /\ call[c].kind = "feed" /\ call'[c].reply = "ok")
    <3>1. \A d \in Calls : ~(/\ call[d].at # "done" /\ call[d].kind = "feed"
                             /\ call'[d].reply = "ok")
      BY <1>3, <2>2
    <3>2. fetched' = [k \in Keys |-> cache[k]]
      BY <1>0, <3>1 DEF Observe
    <3> QED BY <1>0, <2>2, <3>2
  <2> QED BY <2>1, <2>2
<1>5. TypeOK'
  BY <1>0, <1>1, <1>4 DEF TypeOK, Only
<1> QED BY <1>2, <1>4, <1>5 DEF Invariant

LEMMA ProviderFailsKept ==
    ASSUME Invariant, NEW c \in Calls, NEW error \in {"upstream", "config"},
           ProviderFails(c, error), UNCHANGED <<setting, cache>>, Observe,
           call[c].at # "done", Tried(call[c], call[c].provider)
    PROVE  Invariant'
<1>1. /\ TypeOK /\ Progress(call[c]) /\ setting.first \in Providers
      /\ call[c].provider \in Providers
  BY CallType DEF Invariant
<1>2. /\ Only(c) /\ call'[c].sent = call[c].sent
      /\ call[c].provider = setting.first =>
            /\ call'[c].at = "waiting" /\ call'[c].reply = call[c].reply
            /\ call'[c].provider = Other(setting.first)
      /\ call[c].provider # setting.first =>
            /\ call'[c].at = "done" /\ call'[c].provider = call[c].provider
  BY <1>1, ProviderFailsEffect
<1>3. \A p \in Providers : Tried(call[c], p)' = Tried(call[c], p)
  BY <1>2 DEF Tried
<1>4. Progress(call[c])'
  <2>1. CASE call[c].provider = setting.first
    BY <1>1, <1>2, <1>3, <2>1 DEF Progress
  <2>2. CASE call[c].provider # setting.first
    <3>1. \A p \in Providers : p = setting.first \/ p = call[c].provider
      BY <1>1, <2>2, OtherProvider
    <3>2. \A p \in Providers : Tried(call[c], p)
      BY <1>1, <2>2, <3>1 DEF Progress
    <3> QED BY <1>2, <1>3, <2>2, <3>2 DEF Progress
  <2> QED BY <2>1, <2>2
<1>5. call'[c].reply # "ok"
  BY <1>1, <1>2, <1>4, ProviderFailsEffect, FailureReplies DEF Progress
<1> QED BY <1>1, <1>2, <1>4, <1>5, OneCall

LEMMA InvariantStep == Invariant /\ [Next]_vars => Invariant'
<1> SUFFICES ASSUME Invariant, [Next]_vars PROVE Invariant'
  OBVIOUS
<1>0. TypeOK /\ cache = fetched /\ \A c \in Calls : Progress(call[c])
  BY DEF Invariant
<1>1. ASSUME NEW c \in Calls, KeyMissing(c), Observe PROVE Invariant'
  BY <1>1, ProviderFailsKept DEF KeyMissing, NeedsKey, Tried
<1>2. ASSUME NEW c \in Calls, GiveUp(c), Observe PROVE Invariant'
  BY <1>0, <1>2, ProviderFailsKept DEF GiveUp, Tried, Progress
<1>3. ASSUME NEW c \in Calls, Answer(c) \/ Malformed(c), Observe PROVE Invariant'
  <2>1. Only(c) /\ call'[c].at = "done" /\ call'[c].reply \in {"ok", "500"}
        /\ cache' \in [Keys -> Ages]
    BY <1>0, <1>3, EndEffect
  <2>2. Progress(call[c])' /\ UNCHANGED setting
    BY <1>3, <2>1 DEF Progress, Answer, Malformed
  <2>3. IF call[c].at # "done" /\ call[c].kind = "feed" /\ call'[c].reply = "ok"
        THEN cache' = [cache EXCEPT ![call[c].key] = 0]
        ELSE UNCHANGED cache
    <3>1. CASE Answer(c)
      <4>1. call'[c].reply = "ok"
        BY <1>0, <3>1 DEF Answer, TypeOK, Call
      <4> QED BY <3>1, <4>1 DEF Answer
    <3>2. CASE Malformed(c)
      <4>1. call'[c].reply = "500"
        BY <1>0, <3>2 DEF Malformed, TypeOK, Call
      <4> QED BY <3>2, <4>1 DEF Malformed
    <3> QED BY <1>3, <3>1, <3>2
  <2> QED BY <1>3, <2>1, <2>2, <2>3, OneCall
<1>4. ASSUME NEW c \in Calls, Send(c) \/ Retry(c), Observe PROVE Invariant'
  <2>1. /\ Only(c) /\ call'[c].at = "sending" /\ call'[c].reply = call[c].reply
        /\ call'[c].client = call[c].client /\ call'[c].provider = call[c].provider
    BY <1>0, <1>4, SendEffect, RetryEffect
  <2>2. /\ call[c].at # "done" /\ UNCHANGED <<setting, cache>>
    BY <1>4 DEF Send, Retry
  <2>3. \A p \in Providers :
           /\ p = call[c].provider => call'[c].sent[p] > 0
           /\ p # call[c].provider => call'[c].sent[p] = call[c].sent[p]
    <3>1. /\ call[c].sent \in [Providers -> 0..(MaxRetries + 1)]
          /\ call[c].provider \in Providers
      BY <1>0, CallType
    <3>2. CASE Send(c)
      <4>1. call'[c].sent = [call[c].sent EXCEPT ![call[c].provider] = 1]
        BY <1>0, <3>2, SendEffect
      <4> QED BY <3>1, <4>1
    <3>3. CASE Retry(c)
      <4>1. call'[c].sent = [call[c].sent EXCEPT ![call[c].provider] = @ + 1]
        BY <1>0, <3>3, RetryEffect
      <4> QED BY <3>1, <4>1, Constants
    <3> QED BY <1>4, <3>2, <3>3
  <2>4. setting.first \in Providers /\ call[c].provider \in Providers
    BY <1>0, CallType
  <2>5. Progress(call[c])'
    BY <1>0, <2>1, <2>2, <2>3, <2>4 DEF Progress, Tried
  <2>6. call'[c].reply # "ok"
    BY <1>0, <2>1, <2>2 DEF Progress
  <2> QED BY <1>4, <2>1, <2>2, <2>5, <2>6, OneCall
<1>5. ASSUME NEW c \in Calls, NEW kind \in Kinds, NEW client \in Clients,
             NEW key \in Keys, Begin(c, kind, client, key), Observe
      PROVE  Invariant'
  <2>1. /\ Only(c) /\ call'[c] = Fresh(kind, client, key)
        /\ UNCHANGED <<setting, cache>>
    BY <1>0, <1>5, BeginEffect
  <2>2. Progress(call[c])' /\ call'[c].reply = "none"
    BY <2>1 DEF Progress, Fresh
  <2> QED BY <1>5, <2>1, <2>2, OneCall
<1>6. CASE Tick
  <2>1. cache' \in [Keys -> Ages] /\ cache' = fetched'
    BY <1>0, <1>6, Constants DEF Tick, Older, TypeOK, Ages, NoEntry
  <2> QED BY <1>0, <1>6, <2>1 DEF Invariant, Tick, TypeOK, Progress, Tried
<1>7. CASE UNCHANGED vars
  BY <1>0, <1>7 DEF vars, Invariant, TypeOK, Progress, Tried
<1> QED BY <1>1, <1>2, <1>3, <1>4, <1>5, <1>6, <1>7 DEF Next, Work

-----------------------------------------------------------------------------

(* What the theorems below rest on. *)
THEOREM ClientInvariant == Spec => []Invariant
  BY InvariantInit, InvariantStep, PTL DEF Spec

(* client.py: the calls, their counts of requests and the ages in the cache keep *)
(* their types; no call sends more than SPORTYBET_MAX_RETRIES + 1 requests to a  *)
(* provider.                                                                     *)
THEOREM ClientTypeCorrect == Spec => []TypeOK
<1>1. Invariant => TypeOK
  BY DEF Invariant
<1> QED BY <1>1, ClientInvariant, PTL

(* "Automatically falls back to the other provider on failure": whatever the     *)
(* other calls do, a call that ends in an error or with a stale feed has asked   *)
(* every provider it can.                                                        *)
THEOREM EverythingIsTried == Spec => []TriesEverything
<1>1. Invariant => TriesEverything
  BY ProgressMeansTried DEF Invariant
<1> QED BY <1>1, ClientInvariant, PTL

(* "When both providers fail, generators can serve this stale feed": for any     *)
(* number of calls, feeds and clients, a feed call whose providers both failed    *)
(* is answered with a stale feed exactly if some call was answered with that feed *)
(* within Stale ticks: the cache never misses what a caller was given.            *)
THEOREM OutagesAreBridged == Spec => CacheBridgesOutage
<1> DEFINE Bridged ==
      \A c \in Calls :
          /\ call[c].at # "done"
          /\ call[c].kind = "feed"
          /\ call'[c].reply \in {"stale", "502", "503"}
          => (call'[c].reply = "stale" <=> fetched[call[c].key] <= Stale)
<1>1. Invariant /\ [Next]_vars => Bridged
  <2> SUFFICES ASSUME Invariant, [Next]_vars, NEW c \in Calls, call[c].at # "done",
                      call[c].kind = "feed",
                      call'[c].reply \in {"stale", "502", "503"}
               PROVE  call'[c].reply = "stale" <=> fetched[call[c].key] <= Stale
    OBVIOUS
  <2>1. TypeOK /\ call[c].reply = "none"
    BY DEF Invariant, Progress
  <2>2. CASE \E error \in {"upstream", "config"} : ProviderFails(c, error)
    <3>1. call'[c].reply = "stale" <=> cache[call[c].key] # NoEntry
      BY <2>1, <2>2, ProviderFailsEffect, FailureReplies
    <3>2. cache = fetched /\ fetched[call[c].key] \in Ages
      BY <2>1, CallType DEF Invariant, TypeOK
    <3> QED BY <3>1, <3>2, Constants DEF Ages, NoEntry
  <2>3. ASSUME NEW d \in Calls, d # c, Only(d) PROVE FALSE
    BY <2>1, <2>3 DEF Only
  <2>4. ASSUME NEW d \in Calls, d # c, NEW error \in {"upstream", "config"},
               ProviderFails(d, error)
        PROVE  FALSE
    BY <2>1, <2>3, <2>4, ProviderFailsEffect
  <2>5. ASSUME NEW d \in Calls,
               \/ Answer(d) \/ Malformed(d) \/ Send(d) \/ Retry(d)
               \/ \E kind \in Kinds, client \in Clients, key \in Keys :
                     Begin(d, kind, client, key)
        PROVE  FALSE
    <3>1. CASE d # c
      BY <2>1, <2>3, <2>5, <3>1, EndEffect, SendEffect, RetryEffect, BeginEffect
    <3>2. CASE d = c
      BY <2>1, <2>5, <3>2, EndEffect, SendEffect, RetryEffect DEF Begin
    <3> QED BY <3>1, <3>2
  <2>6. CASE UNCHANGED call
    BY <2>1, <2>6
  <2> QED BY <2>2, <2>4, <2>5, <2>6 DEF Next, Work, KeyMissing, GiveUp, Tick, vars
<1> QED BY <1>1, ClientInvariant, PTL DEF Spec, CacheBridgesOutage

=============================================================================
