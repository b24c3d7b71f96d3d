------------------------------ MODULE MarketData ------------------------------
(***************************************************************************)
(* src/paper_market.py: the evidence a weekly run gathers from the public  *)
(* exchange, request by request, and the validation that admits it         *)
(* (PaperTradingSystem._validate_snapshot).  Markets once, then for every  *)
(* asset the candles, then every ticker, every reference price, and every  *)
(* executionRules answer.                                                  *)
(*                                                                         *)
(* Time passes during requests, back-off and processing.  Prices, volumes  *)
(* and filters are abstracted to whether they pass their checks.           *)
(***************************************************************************)
EXTENDS Integers, Sequences

CONSTANTS
    Order,         \* config.assets
    MaxRetries,    \* settings.max_retries
    MaxAge,        \* max_quote_staleness_minutes
    MaxSkew,       \* max_quote_timestamp_skew_seconds
    MaxCandleAge,  \* max_data_staleness_minutes
    Window,        \* the instants of the decision window
    Midnight,      \* the instant at which a UTC day begins
    MaxClock,      \* bound: the last instant
    Lags,          \* how far the exchange's time stamps lie behind the clock
    None           \* nothing yet; no time stamp; no reference price

Assets == {Order[i] : i \in DOMAIN Order}

\* The kinds of requests, and what follows each of them.
Then == [markets |-> "candles", candles |-> "quotes", quotes |-> "references",
         references |-> "ranges", ranges |-> "snapshot"]
Requests == DOMAIN Then

VARIABLES
    clock,
    started,   \* current: the instant the fetch began
    phase,     \* the kind of request being made, "idle", "raised" or "over"
    at,        \* the asset it is made for, by its place in Order
    attempt,   \* failures of this request that were retried
    error,     \* the exception in flight, or that ended the fetch, or None
    candles,   \* asset -> do they end on yesterday and pass their checks
    quotes,    \* asset -> time stamp of its ticker
    references,\* asset -> [time, received], or None
    ranges,    \* asset -> [status, time, received]
    limited,   \* history: referencePrice or executionRules has answered 418 or 429
    late,      \* history: a request was made after that
    failed,    \* history: assets whose last executionRules request gave no rules
    result     \* how the fetch and the validation ended, or None

place    == <<phase, at, attempt>>
evidence == <<candles, quotes, references, ranges>>
history  == <<limited, late, failed>>
vars     == <<clock, started, place, error, evidence, history, result>>

Day(t) == IF t < Midnight THEN 0 ELSE 1
DayStart(t) == IF t < Midnight THEN 0 ELSE Midnight

Unavailable == {"TRANSPORT_FAILURE", "MALFORMED_RESPONSE"}
Statuses    == {"PRICE_RANGE_PRESENT", "PRICE_RANGE_ABSENT"} \cup Unavailable
\* Network failures, which call_with_retry catches; 418 and 429 of the two direct
\* endpoints; any other exception.
Errors      == {"transport", "limit", "other"}
Results     == {"admitted", "data_halt", "missed", "transient", "deferred", "terminal"}

TypeOK ==
    /\ clock \in 0..MaxClock /\ started \in 0..MaxClock
    /\ phase \in Requests \cup {"idle", "snapshot", "raised", "over"}
    /\ at \in 1..Len(Order)
    /\ attempt \in 0..MaxRetries
    /\ error \in Errors \cup {None}
    /\ \A a \in DOMAIN candles : candles[a] \in BOOLEAN
    /\ \A a \in DOMAIN quotes : quotes[a] \in Int
    /\ \A a \in DOMAIN ranges : ranges[a].status \in Statuses
    /\ UNION {DOMAIN candles, DOMAIN quotes, DOMAIN references, DOMAIN ranges}
         \subseteq Assets
    /\ limited \in BOOLEAN /\ late \in BOOLEAN /\ failed \subseteq Assets
    /\ result \in Results \cup {None}
    /\ phase = "over" <=> result # None

Init ==
    /\ clock = 0 /\ started = 0
    /\ phase = "idle" /\ at = 1 /\ attempt = 0 /\ error = None
    /\ candles = << >> /\ quotes = << >> /\ references = << >> /\ ranges = << >>
    /\ limited = FALSE /\ late = FALSE /\ failed = {}
    /\ result = None

-----------------------------------------------------------------------------

\* Work, the network and back-off take time.
Tick ==
    /\ phase # "over"
    /\ clock < MaxClock
    /\ clock' = clock + 1
    /\ UNCHANGED <<started, place, error, evidence, history, result>>

Begin ==
    /\ phase = "idle"
    /\ phase' = "markets"
    /\ started' = clock
    /\ UNCHANGED <<clock, at, attempt, error, evidence, history, result>>

\* A request for the asset at hand is made and answered or not.
Ask(kind) ==
    /\ phase = kind
    /\ error = None
    /\ late' = (late \/ limited)

\* The next asset in the same phase, or the first one in the next phase.
Advance ==
    LET last == phase = "markets" \/ at = Len(Order)
    IN  /\ at' = IF last THEN 1 ELSE at + 1
        /\ phase' = IF last THEN Then[phase] ELSE phase
        /\ attempt' = 0
        /\ error' = None

With(f, value) == [a \in DOMAIN f \cup {Order[at]} |->
                     IF a = Order[at] THEN value ELSE f[a]]

Stamped == {clock - lag : lag \in Lags}

\* Phase A, before it load_markets.  The candles of the current day are cut off,
\* by the day on which the fetch began.
LoadMarkets ==
    /\ Ask("markets")
    /\ Advance
    /\ UNCHANGED <<clock, started, evidence, limited, failed, result>>

FetchCandles ==
    /\ Ask("candles")
    /\ \E c \in BOOLEAN : candles' = With(candles, c)
    /\ Advance
    /\ UNCHANGED <<clock, started, quotes, references, ranges, limited, failed, result>>

\* Phase B.
FetchTicker ==
    /\ Ask("quotes")
    /\ \E t \in Stamped : quotes' = With(quotes, t)
    /\ Advance
    /\ UNCHANGED <<clock, started, candles, references, ranges, limited, failed, result>>

\* validate_reference_price_evidence: now is the receipt, or the admission.
ReferenceFresh(r, now) ==
    r # None => r.time <= r.received /\ now - r.time <= MaxAge

\* Phase C.  -2043 and an explicit null stand for no reference price; a stale or
\* a future one is an error.
FetchReference ==
    /\ Ask("references")
    /\ \E r \in {None} \cup [time : Stamped, received : {clock}] :
          /\ ReferenceFresh(r, clock)
          /\ references' = With(references, r)
    /\ Advance
    /\ UNCHANGED <<clock, started, candles, quotes, ranges, limited, failed, result>>

\* Phase D.  An answer that cannot be parsed, or a refusal other than a rate
\* limit, becomes evidence too.
FetchRules ==
    /\ Ask("ranges")
    /\ \E s \in Statuses \ {"TRANSPORT_FAILURE"}, t \in Stamped \cup {None} :
          /\ s = "MALFORMED_RESPONSE" => t = None
          /\ ranges' = With(ranges, [status |-> s, time |-> t, received |-> clock])
          /\ failed' = IF s \in Unavailable THEN failed \cup {Order[at]} ELSE failed
    /\ Advance
    /\ UNCHANGED <<clock, started, candles, quotes, references, limited, result>>

-----------------------------------------------------------------------------
(* Failures *)

\* The request raises.  The exchange library reports its own rate limits as
\* network failures; an answer without the fields that are needed, a permanent
\* refusal, a stale reference price is an exception of another kind.
Fail ==
    /\ \E kind \in Requests : Ask(kind)
    /\ \E e \in Errors :
          /\ e = "limit" => phase \in {"references", "ranges"}
          /\ error' = e
          /\ limited' = (limited \/ e = "limit")
    /\ UNCHANGED <<clock, started, place, evidence, failed, result>>

\* Mutant: one retry too many.
RetryOnceMore ==
    /\ phase \in Requests
    /\ error = "transport" /\ attempt <= MaxRetries
    /\ attempt' = attempt + 1 /\ error' = None
    /\ UNCHANGED <<clock, started, phase, at, evidence, history, result>>

\* call_with_retry: a network failure is tried again.
Retry ==
    /\ phase \in Requests
    /\ error = "transport" /\ attempt < MaxRetries
    /\ attempt' = attempt + 1 /\ error' = None
    /\ UNCHANGED <<clock, started, phase, at, evidence, history, result>>

\* The exception has left call_with_retry.
Raised == error # None /\ (error = "transport" => attempt = MaxRetries)

RecordUnavailable ==
    /\ ranges' = With(ranges, [status |-> "TRANSPORT_FAILURE", time |-> None,
                               received |-> clock])
    /\ failed' = failed \cup {Order[at]}
    /\ Advance
    /\ UNCHANGED <<clock, started, candles, quotes, references, limited, late, result>>

\* Mutant: the handler takes a rate limit for a failure of the transport.
LimitUnavailable ==
    /\ phase = "ranges" /\ Raised /\ error \in {"transport", "limit"}
    /\ RecordUnavailable

\* The handler of phase D turns an exhausted request into evidence; a rate limit,
\* which has the same exception class, it raises again.
RulesUnavailable ==
    /\ phase = "ranges" /\ Raised /\ error = "transport"
    /\ RecordUnavailable

\* The exception leaves the fetch.
Escape ==
    /\ phase \in Requests /\ Raised
    /\ phase = "ranges" => error # "transport"
    /\ phase' = "raised"
    /\ UNCHANGED <<clock, started, at, attempt, error, evidence, history, result>>

End(r) ==
    /\ result' = r
    /\ phase' = "over"
    /\ UNCHANGED <<clock, started, at, attempt, error, evidence, history>>

\* main() prints the deferral for a rate limit and ends with 4, as for a network
\* failure, or with 2.
FetchFails ==
    /\ phase = "raised"
    /\ End([transport |-> "transient", limit |-> "deferred", other |-> "terminal"][error])

-----------------------------------------------------------------------------
(* main() and _validate_snapshot, at execution_now *)

RangeFresh(r) ==
    IF r.time = None THEN clock - r.received <= MaxAge
                     ELSE r.time <= r.received /\ clock - r.time <= MaxAge

RangesValid ==
    \A a \in Assets : ranges[a].status \notin Unavailable /\ RangeFresh(ranges[a])

\* Mutant: yesterday is reckoned from the beginning of the fetch.
CandlesOfTheFetch == \A a \in Assets : candles[a]

CandlesValid ==
    /\ \A a \in Assets : candles[a]
    /\ Day(started) = Day(clock)
    /\ clock \in Window => clock - DayStart(clock) <= MaxCandleAge

ReferencesValid == \A a \in Assets : ReferenceFresh(references[a], clock)

QuotesValid ==
    /\ \A a \in Assets : quotes[a] <= clock /\ clock - quotes[a] <= MaxAge
    /\ \A a, b \in Assets : quotes[a] - quotes[b] <= MaxSkew

\* The window in which main() began is over.
Missed == started \in Window /\ clock \notin Window

Verdict ==
    /\ phase = "snapshot"
    /\ \/ Missed /\ End("missed")
       \/ /\ ~Missed
          /\ RangesValid /\ CandlesValid /\ ReferencesValid /\ QuotesValid
          /\ End("admitted")
       \/ /\ ~Missed
          /\ ~(RangesValid /\ CandlesValid /\ ReferencesValid /\ QuotesValid)
          /\ End("data_halt")

Next ==
    \/ Tick \/ Begin
    \/ LoadMarkets \/ FetchCandles \/ FetchTicker \/ FetchReference \/ FetchRules
    \/ Fail \/ Retry \/ RulesUnavailable \/ Escape \/ FetchFails
    \/ Verdict

Spec == Init /\ [][Next]_vars

-----------------------------------------------------------------------------
(* Correctness properties *)

Admitted == result = "admitted"

\* After a 418 or a 429 of referencePrice or executionRules no other request is
\* made, neither again nor for another asset, the answer is not recorded as
\* evidence of a failure, and the invocation can only end by the deferral that
\* keeps its launcher from another attempt; nothing else is deferred so
\* (docs/binance-execution-rules-audit.md:56-63).
SilentAfterRateLimit ==
    /\ limited => /\ ~late
                  /\ Order[at] \notin DOMAIN ranges
                  /\ result \in {None, "deferred"}
    /\ result = "deferred" => limited

\* Nothing is traded on evidence that could not be had: a request for rules that
\* failed closes the run, whichever asset it was for and whatever came after.
FailsClosed == Admitted => failed = {} /\ DOMAIN ranges = Assets

\* What is admitted was had for every asset, is of the day of the admission and
\* not older than the limit at that instant, however long retries took and across
\* midnight.
AdmittedIsCurrent ==
    FailsClosed /\ (Admitted =>
        /\ Day(started) = Day(clock)
        /\ \A a \in Assets :
             /\ clock - quotes[a] \in 0..MaxAge
             /\ references[a] # None => clock - references[a].time <= MaxAge
             /\ ranges[a].time # None => clock - ranges[a].time <= MaxAge)

=============================================================================
