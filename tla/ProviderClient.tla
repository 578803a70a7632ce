--------------------------- MODULE ProviderClient ---------------------------
(***************************************************************************)
(* SportyBetClient (providers/sportybet/client.py) and, behind it,         *)
(* ParseSportyBetClient, in one process: concurrent calls that try the two *)
(* providers in turn, each with its retries under its client's lock, and   *)
(* the feed cache the calls share.  A step runs up to the next await: a    *)
(* lock acquired, or one HTTP answer with all that follows from it.        *)
(***************************************************************************)
EXTENDS Naturals

CONSTANTS
    Calls,       \* what awaits one client method at a time
    Clients,     \* the SportyBetClient instances
    Keys,        \* the keys of _FEED_CACHE: page, page size, hours, markets
    MaxRetries,  \* SPORTYBET_MAX_RETRIES
    Stale        \* _FEED_STALE_SECONDS, in ticks

ASSUME ProviderClientAssumption == MaxRetries \in Nat /\ Stale \in Nat

VARIABLES
    setting,   \* SPORTYBET_PROVIDER, and is PARSE_API_KEY set?
    call,      \* the calls
    cache,     \* the age of each entry of _FEED_CACHE
    fetched    \* history: how long ago a call last returned the feed of each key

vars == <<setting, call, cache, fetched>>

Providers == {"direct", "parse"}

\* get_upcoming_events, get_event_markets and create_booking.
Kinds == {"feed", "lookup", "book"}

\* An entry older than Stale is as good as none.
NoEntry == Stale + 1
Ages == 0..NoEntry

\* "waiting" for the lock of provider's client, "sending" holds it until the
\* last attempt, the sleeps between attempts included.
Call == [at       : {"waiting", "sending", "done"},
         kind     : Kinds,
         client   : Clients,
         key      : Keys,
         provider : Providers,
         sent     : [Providers -> 0..(MaxRetries + 1)],   \* requests
         errors   : SUBSET {"upstream", "config"},
         reply    : {"none", "ok", "stale", "422", "500", "502", "503"}]

TypeOK ==
    /\ setting \in [first : Providers, key : BOOLEAN]
    /\ call \in [Calls -> Call]
    /\ cache \in [Keys -> Ages]
    /\ fetched \in [Keys -> Ages]

Fresh(kind, client, key) ==
    [at |-> "waiting", kind |-> kind, client |-> client, key |-> key,
     provider |-> setting.first, sent |-> [p \in Providers |-> 0],
     errors |-> {}, reply |-> "none"]

Init ==
    /\ setting \in [first : Providers, key : BOOLEAN]
    /\ \E client \in Clients, key \in Keys :
          call = [c \in Calls |-> [Fresh("feed", client, key) EXCEPT
                                     !.at = "done", !.reply = "ok"]]
    /\ cache = [k \in Keys |-> NoEntry]
    /\ fetched = [k \in Keys |-> NoEntry]

-----------------------------------------------------------------------------
(* How a call ends.                                                        *)

\* provider_http_status: any marker of a configuration problem in the joined
\* messages of the providers makes it 503.
HttpStatus(errors) == IF "config" \in errors THEN "503" ELSE "502"

\* When both providers have failed a feed is served from the cache if it can;
\* TicketBuilder answers 422 for a lookup that raised.
Failure(kind, key, errors) ==
    CASE kind = "lookup"                         -> "422"
      [] kind = "feed" /\ cache[key] # NoEntry   -> "stale"
      [] OTHER                                   -> HttpStatus(errors)

Other(p) == CHOOSE q \in Providers : q # p

\* Mutant: a missing key is not a reason to try the other provider.
ProviderFailsEarly(c, error) ==
    LET errors == call[c].errors \cup {error}
        last   == call[c].provider # setting.first \/ error = "config"
    IN  call' = [call EXCEPT
            ![c].errors   = errors,
            ![c].at       = IF last THEN "done" ELSE "waiting",
            ![c].provider = IF last THEN @ ELSE Other(@),
            ![c].reply    = IF last THEN Failure(call[c].kind, call[c].key, errors)
                                    ELSE @]

\* Mutant: the providers are tried in turn for ever.
ProviderFailsForever(c, error) ==
    call' = [call EXCEPT
        ![c].errors   = @ \cup {error},
        ![c].at       = "waiting",
        ![c].provider = Other(@)]

\* The provider has failed for good: on to the other one, or raise.
ProviderFails(c, error) ==
    LET errors == call[c].errors \cup {error}
        last   == call[c].provider # setting.first
    IN  call' = [call EXCEPT
            ![c].errors   = errors,
            ![c].at       = IF last THEN "done" ELSE "waiting",
            ![c].provider = IF last THEN @ ELSE Other(@),
            ![c].reply    = IF last THEN Failure(call[c].kind, call[c].key, errors)
                                    ELSE @]

-----------------------------------------------------------------------------
(* The calls.                                                              *)

Begin(c, kind, client, key) ==
    /\ call[c].at = "done"
    /\ call' = [call EXCEPT ![c] = Fresh(kind, client, key)]
    /\ UNCHANGED <<setting, cache>>

NeedsKey(c) == call[c].provider = "parse" /\ ~setting.key

\* _request of the Parse adapter raises before it takes the lock.
KeyMissing(c) ==
    /\ call[c].at = "waiting"
    /\ NeedsKey(c)
    /\ ProviderFails(c, "config")
    /\ UNCHANGED <<setting, cache>>

\* Each instance has a lock for the direct feed and one for its Parse adapter.
LockFree(c) ==
    \A d \in Calls : ~(/\ call[d].at = "sending"
                       /\ call[d].client = call[c].client
                       /\ call[d].provider = call[c].provider)

\* Take the lock and send the first request.
Send(c) ==
    /\ call[c].at = "waiting"
    /\ ~NeedsKey(c)
    /\ LockFree(c)
    /\ call' = [call EXCEPT ![c].at = "sending", ![c].sent[call[c].provider] = 1]
    /\ UNCHANGED <<setting, cache>>

\* Mutant: only the first provider's feed goes to the cache.
AnswerUncached(c) ==
    /\ call[c].at = "sending"
    /\ call' = [call EXCEPT ![c].at = "done", ![c].reply = "ok"]
    /\ cache' = IF call[c].kind = "feed" /\ call[c].provider = setting.first
                THEN [cache EXCEPT ![call[c].key] = 0]
                ELSE cache
    /\ UNCHANGED setting

\* The answer is good; a feed goes to the cache.
Answer(c) ==
    /\ call[c].at = "sending"
    /\ call' = [call EXCEPT ![c].at = "done", ![c].reply = "ok"]
    /\ cache' = IF call[c].kind = "feed" THEN [cache EXCEPT ![call[c].key] = 0]
                                         ELSE cache
    /\ UNCHANGED setting

\* Mutant: one retry too many.
RetryOneMore(c) ==
    LET p == call[c].provider
    IN  /\ call[c].at = "sending"
        /\ call[c].sent[p] <= MaxRetries + 1
        /\ call' = [call EXCEPT ![c].sent[p] = @ + 1]
        /\ UNCHANGED <<setting, cache>>

\* A timeout, a transport error, HTTP 429 or 5xx: send it again after a sleep.
Retry(c) ==
    LET p == call[c].provider
    IN  /\ call[c].at = "sending"
        /\ call[c].sent[p] <= MaxRetries
        /\ call' = [call EXCEPT ![c].sent[p] = @ + 1]
        /\ UNCHANGED <<setting, cache>>

\* That was the last attempt, or an answer that is not retried: bizCode, a 4xx
\* of Parse, an event that is not in the feed.
GiveUp(c) ==
    /\ call[c].at = "sending"
    /\ ProviderFails(c, "upstream")
    /\ UNCHANGED <<setting, cache>>

\* An answer of an unexpected shape raises what nobody catches but main.py.
Malformed(c) ==
    /\ call[c].at = "sending"
    /\ call' = [call EXCEPT ![c].at = "done", ![c].reply = "500"]
    /\ UNCHANGED <<setting, cache>>

Older(age) == IF age = NoEntry THEN NoEntry ELSE age + 1

Tick ==
    /\ cache' = [k \in Keys |-> Older(cache[k])]
    /\ fetched' = [k \in Keys |-> Older(fetched[k])]
    /\ UNCHANGED <<setting, call>>

\* History: which feeds the step has returned to a caller, by what the caller
\* sees of it.
Observe ==
    fetched' = [k \in Keys |->
        IF \E c \in Calls : /\ call[c].at # "done"
                            /\ call[c].kind = "feed" /\ call[c].key = k
                            /\ call'[c].reply = "ok"
        THEN 0 ELSE fetched[k]]

-----------------------------------------------------------------------------

Work(c) == /\ KeyMissing(c) \/ Answer(c) \/ Retry(c) \/ GiveUp(c) \/ Malformed(c)
           /\ Observe

Next == \/ \E c \in Calls :
              \/ Work(c)
              \/ Send(c) /\ Observe
              \/ /\ \E kind \in Kinds, client \in Clients, key \in Keys :
                       Begin(c, kind, client, key)
                 /\ Observe
        \/ Tick

Spec == Init /\ [][Next]_vars

\* The HTTP timeout ends every request, and asyncio.Lock serves its waiters in
\* the order of their arrival.  Nobody has to begin a call.
FairSpec == /\ Spec
            /\ \A c \in Calls : WF_vars(Work(c)) /\ SF_vars(Send(c) /\ Observe)

-----------------------------------------------------------------------------
(* Properties.                                                             *)

\* "Automatically falls back to the other provider on failure": a call that
\* ends in an error, or with a stale feed, has asked every provider it can.
TriesEverything ==
    \A c \in Calls :
        call[c].reply \in {"stale", "422", "502", "503"} =>
            /\ call[c].sent["direct"] > 0
            /\ setting.key => call[c].sent["parse"] > 0

\* "When both providers fail, generators can serve this stale feed": a feed call
\* whose providers both failed is answered with a stale feed exactly if some call
\* of the process was answered with that feed by a provider within Stale ticks.
CacheBridgesOutage ==
    [][\A c \in Calls :
          /\ call[c].at # "done"
          /\ call[c].kind = "feed"
          /\ call'[c].reply \in {"stale", "502", "503"}
          => (call'[c].reply = "stale" <=> fetched[call[c].key] <= Stale)]_vars

\* Every call returns or raises, also when it shares its client.
CallsEnd == \A c \in Calls : call[c].at # "done" ~> call[c].at = "done"

=============================================================================
