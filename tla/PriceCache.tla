----------------------------- MODULE PriceCache -----------------------------
(***************************************************************************)
(* The price cache: get_prices (backend/src/data_service.py) over the      *)
(* prices table (backend/src/database.py).  Several callers run at once:   *)
(* API threads, RQ workers and the scheduled refresh.  A table access or a *)
(* save of what was downloaded is one atomic step.                         *)
(*                                                                         *)
(* Dates number the trading days.  A close price is only present or absent *)
(* here: two downloads of one day agree.                                   *)
(***************************************************************************)
EXTENDS Integers, FiniteSets

CONSTANTS
  Ticker,
  Basket,    \* bound: the sets of tickers asked for
  Caller,
  LastDay,   \* bound: the last day that is ever published
  FirstDay   \* bound: how much is published at the start

Day == 1..LastDay

ASSUME PriceAssumption ==
  /\ IsFiniteSet(Ticker)
  /\ Basket \subseteq SUBSET Ticker
  /\ LastDay \in Nat
  /\ FirstDay \in 1..LastDay

VARIABLES
  prices,     \* the days stored for each ticker
  call,       \* each caller's progress through get_prices
  published,  \* the last day Yahoo has
  troubled,   \* history: calls for which a download failed or came short
  raced       \* history: tickers stored twice as new

vars == <<prices, call, published, troubled, raced>>

\* Nothing wanted; also what is left of a call that raised.
Idle == [pc |-> "idle", want |-> {}, start |-> 1, end |-> 1,
         latest |-> [t \in Ticker |-> 0], todo |-> {}, known |-> 0,
         reply |-> [t \in Ticker |-> {}]]

Init ==
  /\ prices = [t \in Ticker |-> {}]
  /\ call = [c \in Caller |-> Idle]
  /\ published = FirstDay
  /\ troubled = {}
  /\ raced = {}

\* SELECT MAX(date); 0 when the ticker has no rows.
IsLatest(d, days) ==
  \/ days = {} /\ d = 0
  \/ d \in days /\ \A e \in days : e <= d

\* yf.download(start, end) includes start and excludes end.
Yahoo(from, end) == {d \in Day : from <= d /\ d < end /\ d <= published}

Missing(c) == {t \in call[c].want : call[c].latest[t] = 0}
Group(c, cutoff) == {t \in call[c].want : call[c].latest[t] = cutoff}

\* Mutant: a ticker without rows is grouped as stale, too.
CutoffsOfAll(latest, want, end) ==
  {d \in 0..LastDay : d < end /\ \E t \in want : latest[t] = d}

Cutoffs(latest, want, end) ==
  {d \in Day : d < end /\ \E t \in want : latest[t] = d}

\* save_prices: an upsert, in one transaction.
SavePrices(served, days) ==
  prices' = [t \in Ticker |-> IF t \in served THEN prices[t] \cup days
                                              ELSE prices[t]]

\* latest_date, and the split into missing and stale tickers.
Begin(c, want, start, end) ==
  /\ call[c].pc \in {"idle", "done"}
  /\ \E latest \in [Ticker -> 0..LastDay] :
       /\ \A t \in Ticker : IF t \in want THEN IsLatest(latest[t], prices[t])
                                          ELSE latest[t] = 0
       /\ call' = [call EXCEPT ![c] =
            [pc |-> "missing", want |-> want, start |-> start, end |-> end,
             latest |-> latest, todo |-> Cutoffs(latest, want, end),
             known |-> published, reply |-> [t \in Ticker |-> {}]]]
  /\ troubled' = troubled \ {c}
  /\ UNCHANGED <<prices, published, raced>>

\* One download for the tickers without rows; Yahoo may know only some.
FetchMissing(c) ==
  /\ call[c].pc = "missing"
  /\ \E served \in SUBSET Missing(c) :
       /\ SavePrices(served, Yahoo(call[c].start, call[c].end))
       /\ troubled' = IF served = Missing(c) THEN troubled ELSE troubled \cup {c}
       /\ raced' = raced \cup {t \in served : prices[t] # {}}
  /\ call' = [call EXCEPT ![c].pc = "stale"]
  /\ UNCHANGED published

\* That download is not protected: get_prices raises.
MissingRaises(c) ==
  /\ call[c].pc = "missing"
  /\ Missing(c) # {}
  /\ call' = [call EXCEPT ![c] = Idle]
  /\ UNCHANGED <<prices, published, troubled, raced>>

\* Mutant: the increment starts two days after the cutoff.
FetchStaleSkipsDay(c, cutoff) ==
  /\ call[c].pc = "stale"
  /\ cutoff \in call[c].todo
  /\ SavePrices(Group(c, cutoff), Yahoo(cutoff + 2, call[c].end))
  /\ call' = [call EXCEPT ![c].todo = @ \ {cutoff}]
  /\ UNCHANGED <<published, troubled, raced>>

\* Mutant: a group whose download failed counts as fetched.
FetchStaleLosesGroup(c, cutoff) ==
  /\ call[c].pc = "stale"
  /\ cutoff \in call[c].todo
  /\ call' = [call EXCEPT ![c].todo = @ \ {cutoff}]
  /\ UNCHANGED <<prices, published, troubled, raced>>

\* The pool downloads one group per cutoff; they complete in any order, and a
\* failure is logged and swallowed.
FetchStale(c, cutoff) ==
  /\ call[c].pc = "stale"
  /\ cutoff \in call[c].todo
  /\ \E served \in SUBSET Group(c, cutoff) :
       /\ SavePrices(served, Yahoo(cutoff + 1, call[c].end))
       /\ troubled' = IF served = Group(c, cutoff) THEN troubled
                                                   ELSE troubled \cup {c}
  /\ call' = [call EXCEPT ![c].todo = @ \ {cutoff}]
  /\ UNCHANGED <<published, raced>>

\* date BETWEEN start AND end
Loaded(c, t) ==
  IF t \in call[c].want
    THEN {d \in prices[t] : call[c].start <= d /\ d <= call[c].end} ELSE {}

\* dropna(axis=1, thresh=int(0.80 * len(prices)))
Enough(c, days) ==
  Cardinality(days) >=
    (8 * Cardinality(UNION {Loaded(c, t) : t \in Ticker})) \div 10

\* load_prices, and the tickers with too many gaps are dropped.
LoadPrices(c) ==
  /\ call[c].pc = "stale"
  /\ call[c].todo = {}
  /\ call' = [call EXCEPT
       ![c].pc = "done",
       ![c].latest = Idle.latest,
       ![c].reply = [t \in Ticker |-> IF Enough(c, Loaded(c, t)) THEN Loaded(c, t)
                                                                 ELSE {}]]
  /\ UNCHANGED <<prices, published, troubled, raced>>

\* External: another day of trading ends.
Publish ==
  /\ published < LastDay
  /\ published' = published + 1
  /\ UNCHANGED <<prices, call, troubled, raced>>

Step(c) ==
  \/ \E want \in Basket :
       \E start \in Day, end \in 2..(LastDay + 1) :
         start < end /\ Begin(c, want, start, end)
  \/ FetchMissing(c) \/ MissingRaises(c)
  \/ \E cutoff \in Day : FetchStale(c, cutoff)
  \/ LoadPrices(c)

Next == Publish \/ \E c \in Caller : Step(c)

Spec == Init /\ [][Next]_vars

-----------------------------------------------------------------------------
(* Properties.                                                              *)

Call == [pc : {"idle", "missing", "stale", "done"}, want : SUBSET Ticker,
         start : Day, end : 1..(LastDay + 1), latest : [Ticker -> 0..LastDay],
         todo : SUBSET Day, known : 0..LastDay, reply : [Ticker -> SUBSET Day]]

\* The table, the calls and what Yahoo has published keep their types; a cutoff
\* still to be fetched is the date of a row, never "no rows".
TypeOK ==
  /\ prices \in [Ticker -> SUBSET Day]
  /\ call \in [Caller -> Call]
  /\ published \in Day
  /\ troubled \subseteq Caller
  /\ raced \subseteq Ticker

Gapless(days) == \A a, b \in days : \A d \in Day : a <= d /\ d <= b => d \in days

\* The days stored for a ticker have no hole, which matters because nothing
\* ever fills one: later downloads start after the latest day.  Only two
\* callers that both found the ticker new can leave one.
NoGap == \A t \in Ticker : t \in raced \/ Gapless(prices[t])

\* When get_prices returns and no download came short, every ticker asked for
\* reaches as far as Yahoo did when the call began.
UpToDate ==
  \A c \in Caller :
    (call[c].pc = "done" /\ c \notin troubled) =>
      \A t \in call[c].want, d \in Day :
        (call[c].start <= d /\ d < call[c].end /\ d <= call[c].known)
          => \E e \in prices[t] : d <= e
=============================================================================
