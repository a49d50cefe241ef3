-------------------------- MODULE PriceCacheProofs --------------------------
(* Theorems about PriceCache, for any tickers, callers and span of days.    *)
EXTENDS PriceCache, TLAPS

Reached(days, start, end, known) ==
  \A d \in Day : (start <= d /\ d < end /\ d <= known) => \E e \in days : d <= e

\* What a call read about a ticker is in the table, where nothing is deleted.
ReadIsStored ==
  \A c \in Caller, t \in Ticker :
    (call[c].pc \in {"missing", "stale"} /\ call[c].latest[t] # 0)
      => call[c].latest[t] \in prices[t]

\* A ticker asked for is waiting for its download or has reached the range.
InHand(k, t) ==
  \/ k.pc = "missing" /\ k.latest[t] = 0
  \/ k.pc # "done" /\ k.latest[t] \in k.todo

OnTheWay ==
  \A c \in Caller : (call[c].pc # "idle" /\ c \notin troubled) =>
    /\ call[c].known <= published
    /\ \A t \in call[c].want :
         \/ InHand(call[c], t)
         \/ Reached(prices[t], call[c].start, call[c].end, call[c].known)

-----------------------------------------------------------------------------
LEMMA YahooIsDays ==
  ASSUME NEW from, NEW end
  PROVE  Yahoo(from, end) \in SUBSET Day
BY DEF Yahoo

LEMMA SavedIsDays ==
  ASSUME prices \in [Ticker -> SUBSET Day], NEW served, NEW days \in SUBSET Day,
         SavePrices(served, days)
  PROVE  prices' \in [Ticker -> SUBSET Day]
BY DEF SavePrices

LEMMA IdleIsCall == Idle \in Call
BY PriceAssumption DEF Idle, Call, Day

LEMMA CallWithPc ==
  ASSUME NEW k \in Call, NEW p \in {"idle", "missing", "stale", "done"}
  PROVE  [k EXCEPT !.pc = p] \in Call
BY DEF Call

LEMMA CallWithTodo ==
  ASSUME NEW k \in Call, NEW todo \in SUBSET Day
  PROVE  [k EXCEPT !.todo = todo] \in Call
BY DEF Call

LEMMA CallDone ==
  ASSUME NEW k \in Call, NEW latest \in [Ticker -> 0..LastDay],
         NEW reply \in [Ticker -> SUBSET Day]
  PROVE  [k EXCEPT !.pc = "done", !.latest = latest, !.reply = reply] \in Call
BY DEF Call

LEMMA TypeStep == TypeOK /\ [Next]_vars => TypeOK'
<1> SUFFICES ASSUME TypeOK, [Next]_vars PROVE TypeOK'
  OBVIOUS
<1> USE DEF TypeOK
<1>1. CASE Publish
  BY <1>1, PriceAssumption DEF Publish, Day
<1>2. ASSUME NEW c \in Caller, Step(c) PROVE TypeOK'
  <2>1. ASSUME NEW want \in Basket, NEW start \in Day, NEW end \in 2..(LastDay + 1),
               Begin(c, want, start, end)
        PROVE  TypeOK'
    <3>1. PICK latest \in [Ticker -> 0..LastDay] :
            call' = [call EXCEPT ![c] =
              [pc |-> "missing", want |-> want, start |-> start, end |-> end,
               latest |-> latest, todo |-> Cutoffs(latest, want, end),
               known |-> published, reply |-> [t \in Ticker |-> {}]]]
      BY <2>1 DEF Begin
    <3>2. /\ Cutoffs(latest, want, end) \in SUBSET Day
          /\ want \in SUBSET Ticker
          /\ end \in 1..(LastDay + 1)
          /\ published \in 0..LastDay
          /\ [t \in Ticker |-> {}] \in [Ticker -> SUBSET Day]
      BY PriceAssumption DEF Cutoffs, Day
    <3>3. [pc |-> "missing", want |-> want, start |-> start, end |-> end,
           latest |-> latest, todo |-> Cutoffs(latest, want, end),
           known |-> published, reply |-> [t \in Ticker |-> {}]] \in Call
      BY <3>2 DEF Call
    <3>4. call' \in [Caller -> Call]
      BY <3>1, <3>3
    <3> QED BY <2>1, <3>4 DEF Begin
  <2>2. CASE FetchMissing(c)
    <3>1. prices' \in [Ticker -> SUBSET Day]
      BY <2>2, YahooIsDays, SavedIsDays DEF FetchMissing
    <3>2. call' \in [Caller -> Call]
      <4>1. call' = [call EXCEPT ![c] = [call[c] EXCEPT !.pc = "stale"]]
        BY <2>2 DEF FetchMissing
      <4> QED BY <4>1, CallWithPc
    <3>3. raced' \subseteq Ticker /\ troubled' \subseteq Caller
      <4>1. Missing(c) \subseteq Ticker
        BY DEF Missing, Call
      <4> QED BY <2>2, <4>1 DEF FetchMissing
    <3> QED BY <2>2, <3>1, <3>2, <3>3 DEF FetchMissing
  <2>3. CASE MissingRaises(c)
    BY <2>3, IdleIsCall DEF MissingRaises
  <2>4. ASSUME NEW cutoff \in Day, FetchStale(c, cutoff) PROVE TypeOK'
    <3>1. prices' \in [Ticker -> SUBSET Day]
      BY <2>4, YahooIsDays, SavedIsDays DEF FetchStale
    <3>2. call' \in [Caller -> Call]
      <4>1. call' = [call EXCEPT ![c] =
                       [call[c] EXCEPT !.todo = call[c].todo \ {cutoff}]]
        BY <2>4 DEF FetchStale
      <4>2. call[c].todo \ {cutoff} \in SUBSET Day
        BY DEF Call
      <4> QED BY <4>1, <4>2, CallWithTodo
    <3> QED BY <2>4, <3>1, <3>2 DEF FetchStale
  <2>5. CASE LoadPrices(c)
    <3>1. \A t \in Ticker : Loaded(c, t) \in SUBSET Day
      BY DEF Loaded
    <3>2. [t \in Ticker |-> IF Enough(c, Loaded(c, t)) THEN Loaded(c, t) ELSE {}]
            \in [Ticker -> SUBSET Day]
      BY <3>1
    <3>3. Idle.latest \in [Ticker -> 0..LastDay]
      BY PriceAssumption DEF Idle
    <3>4. call' \in [Caller -> Call]
      <4>1. call' = [call EXCEPT ![c] =
              [call[c] EXCEPT !.pc = "done", !.latest = Idle.latest,
                 !.reply = [t \in Ticker |->
                   IF Enough(c, Loaded(c, t)) THEN Loaded(c, t) ELSE {}]]]
        BY <2>5 DEF LoadPrices
      <4> QED BY <3>2, <3>3, <4>1, CallDone
    <3> QED BY <2>5, <3>4 DEF LoadPrices
  <2> QED BY <1>2, <2>1, <2>2, <2>3, <2>4, <2>5 DEF Step
<1>3. CASE UNCHANGED vars
  BY <1>3 DEF vars
<1> HIDE DEF TypeOK
<1> QED BY <1>1, <1>2, <1>3 DEF Next

\* Every variable keeps its type.
THEOREM PriceTypes == Spec => []TypeOK
<1>1. Init => TypeOK
  BY IdleIsCall, PriceAssumption DEF Init, TypeOK, Day
<1> QED BY <1>1, TypeStep, PTL DEF Spec

-----------------------------------------------------------------------------
\* Prices are only ever added.
LEMMA PricesGrow ==
  ASSUME TypeOK, [Next]_vars, NEW t \in Ticker
  PROVE  prices[t] \subseteq prices'[t]
BY DEF TypeOK, Next, Step, Begin, FetchMissing, MissingRaises, FetchStale,
       LoadPrices, Publish, SavePrices, vars

LEMMA ReadStep == TypeOK /\ ReadIsStored /\ [Next]_vars => ReadIsStored'
<1> SUFFICES ASSUME TypeOK, ReadIsStored, [Next]_vars,
                    NEW b \in Caller, NEW t \in Ticker,
                    call'[b].pc \in {"missing", "stale"}, call'[b].latest[t] # 0
             PROVE  call'[b].latest[t] \in prices'[t]
  BY DEF ReadIsStored
<1>0. prices[t] \subseteq prices'[t]
  BY PricesGrow
<1>1. CASE /\ call[b].pc \in {"missing", "stale"}
           /\ call[b].latest[t] = call'[b].latest[t]
  BY <1>0, <1>1 DEF ReadIsStored
<1>2. CASE Publish \/ UNCHANGED vars
  BY <1>1, <1>2 DEF Publish, vars
<1>3. ASSUME NEW c \in Caller, Step(c) PROVE call'[b].latest[t] \in prices'[t]
  <2> USE DEF TypeOK, Call
  <2>1. CASE b # c
    <3>1. call'[b] = call[b]
      BY <1>3, <2>1 DEF Step, Begin, FetchMissing, MissingRaises, FetchStale,
                        LoadPrices
    <3> QED BY <1>1, <3>1
  <2>2. CASE b = c
    <3>1. ASSUME NEW want \in Basket, NEW start \in Day,
                 NEW end \in 2..(LastDay + 1), Begin(c, want, start, end)
          PROVE  call'[b].latest[t] \in prices'[t]
      <4>1. PICK latest \in [Ticker -> 0..LastDay] :
              /\ \A x \in Ticker : IF x \in want THEN IsLatest(latest[x], prices[x])
                                                 ELSE latest[x] = 0
              /\ call'[c].latest = latest
        BY <3>1 DEF Begin
      <4> QED BY <1>0, <2>2, <4>1 DEF IsLatest
    <3>2. CASE FetchMissing(c) \/ \E cutoff \in Day : FetchStale(c, cutoff)
      BY <1>1, <2>2, <3>2 DEF FetchMissing, FetchStale
    <3>3. CASE MissingRaises(c) \/ LoadPrices(c)
      BY <2>2, <3>3 DEF MissingRaises, LoadPrices, Idle
    <3> QED BY <1>3, <3>1, <3>2, <3>3 DEF Step
  <2> QED BY <2>1, <2>2
<1> QED BY <1>2, <1>3 DEF Next

LEMMA ReadInvariant == Spec => []ReadIsStored
<1>1. Init => ReadIsStored
  BY DEF Init, ReadIsStored, Idle
<1> QED BY <1>1, ReadStep, PriceTypes, PTL DEF Spec

-----------------------------------------------------------------------------
\* A download attached to a day that is stored leaves no hole.
LEMMA ExtensionIsGapless ==
  ASSUME NEW days \in SUBSET Day, Gapless(days), NEW cutoff \in days, NEW end \in Int,
         published \in Day
  PROVE  Gapless(days \cup Yahoo(cutoff + 1, end))
<1> DEFINE more == Yahoo(cutoff + 1, end)
<1> SUFFICES ASSUME NEW a \in days \cup more, NEW b \in days \cup more,
                    NEW d \in Day, a <= d, d <= b, d \notin days
             PROVE  d \in more
  BY DEF Gapless
<1>1. CASE d <= cutoff
  <2>1. a \in days
    BY <1>1, PriceAssumption DEF Yahoo, Day
  <2> QED BY <1>1, <2>1 DEF Gapless
<1>2. CASE d > cutoff
  <2>1. b \in more
    BY <1>2, PriceAssumption DEF Gapless, Day
  <2> QED BY <1>2, <2>1, PriceAssumption DEF Yahoo, Day
<1> QED BY <1>1, <1>2, PriceAssumption DEF Day

LEMMA DownloadIsGapless ==
  ASSUME NEW from \in Int, NEW end \in Int, published \in Day
  PROVE  Gapless(Yahoo(from, end))
BY PriceAssumption DEF Gapless, Yahoo, Day

\* The stored prices of a ticker have no hole, however many callers download
\* it at once, unless two of them found it new.
THEOREM PricesHaveNoGap == Spec => []NoGap
<1>1. Init => NoGap
  BY DEF Init, NoGap, Gapless
<1>2. TypeOK /\ ReadIsStored /\ NoGap /\ [Next]_vars => NoGap'
  <2> SUFFICES ASSUME TypeOK, ReadIsStored, NoGap, [Next]_vars,
                      NEW t \in Ticker, t \notin raced'
               PROVE  Gapless(prices'[t])
    BY DEF NoGap, Gapless
  <2>1. CASE prices' = prices /\ raced' = raced
    BY <2>1 DEF NoGap
  <2>2. ASSUME NEW c \in Caller, FetchMissing(c) PROVE Gapless(prices'[t])
    <3>1. t \notin raced
      BY <2>2 DEF FetchMissing
    <3>2. PICK served \in SUBSET Missing(c) :
            /\ SavePrices(served, Yahoo(call[c].start, call[c].end))
            /\ raced' = raced \cup {x \in served : prices[x] # {}}
      BY <2>2 DEF FetchMissing
    <3>3. CASE t \in served
      <4>1. prices'[t] = Yahoo(call[c].start, call[c].end)
        BY <3>2, <3>3 DEF SavePrices
      <4>2. call[c].start \in Int /\ call[c].end \in Int /\ published \in Day
        BY PriceAssumption DEF TypeOK, Call, Day
      <4> QED BY <4>1, <4>2, DownloadIsGapless
    <3>4. CASE t \notin served
      BY <3>1, <3>2, <3>4 DEF SavePrices, NoGap
    <3> QED BY <3>3, <3>4
  <2>3. ASSUME NEW c \in Caller, NEW cutoff \in Day, FetchStale(c, cutoff)
        PROVE  Gapless(prices'[t])
    <3>1. t \notin raced
      BY <2>3 DEF FetchStale
    <3>2. PICK served \in SUBSET Group(c, cutoff) :
            SavePrices(served, Yahoo(cutoff + 1, call[c].end))
      BY <2>3 DEF FetchStale
    <3>3. CASE t \in served
      <4>1. prices'[t] = prices[t] \cup Yahoo(cutoff + 1, call[c].end)
        BY <3>2, <3>3 DEF SavePrices
      <4>2. cutoff \in prices[t]
        BY <2>3, <3>3, PriceAssumption DEF Group, FetchStale, ReadIsStored, Day
      <4>3. prices[t] \in SUBSET Day /\ call[c].end \in Int /\ published \in Day
        BY PriceAssumption DEF TypeOK, Call, Day
      <4>4. Gapless(prices[t])
        BY <3>1 DEF NoGap
      <4> QED BY <4>1, <4>2, <4>3, <4>4, ExtensionIsGapless
    <3>4. CASE t \notin served
      BY <3>1, <3>2, <3>4 DEF SavePrices, NoGap
    <3> QED BY <3>3, <3>4
  <2> QED BY <2>1, <2>2, <2>3
       DEF Next, Step, Begin, MissingRaises, LoadPrices, Publish, vars
<1> QED BY <1>1, <1>2, PriceTypes, ReadInvariant, PTL DEF Spec

-----------------------------------------------------------------------------
LEMMA PublishedGrows ==
  ASSUME TypeOK, [Next]_vars
  PROVE  published' \in Int /\ published <= published'
<1>0. published \in Int
  BY DEF TypeOK, Day
<1>1. CASE Publish
  BY <1>0, <1>1 DEF Publish
<1>2. ASSUME NEW c \in Caller, Step(c) PROVE published' = published
  BY <1>2 DEF Step, Begin, FetchMissing, MissingRaises, FetchStale, LoadPrices
<1>3. CASE UNCHANGED vars
  BY <1>0, <1>3 DEF vars
<1> QED BY <1>0, <1>1, <1>2, <1>3 DEF Next

LEMMA ReachedGrows ==
  ASSUME NEW days, NEW more, days \subseteq more, NEW s, NEW e, NEW k,
         Reached(days, s, e, k)
  PROVE  Reached(more, s, e, k)
BY DEF Reached

LEMMA OnTheWayStep == TypeOK /\ ReadIsStored /\ OnTheWay /\ [Next]_vars => OnTheWay'
<1> SUFFICES ASSUME TypeOK, ReadIsStored, OnTheWay, [Next]_vars,
                    NEW b \in Caller, call'[b].pc # "idle", b \notin troubled'
             PROVE  /\ call'[b].known <= published'
                    /\ \A t \in call'[b].want :
                         \/ InHand(call'[b], t)
                         \/ Reached(prices'[t], call'[b].start, call'[b].end,
                                    call'[b].known)
  BY DEF OnTheWay
<1> DEFINE Goal == /\ call'[b].known <= published'
                   /\ \A t \in call'[b].want :
                        \/ InHand(call'[b], t)
                        \/ Reached(prices'[t], call'[b].start, call'[b].end,
                                   call'[b].known)
<1>0. /\ published \in Int /\ LastDay \in Int
      /\ call[b].known \in Int /\ call[b].end \in Int /\ call[b].start \in Int
      /\ call[b].want \subseteq Ticker
  BY PriceAssumption DEF TypeOK, Call, Day
<1>1. CASE call'[b] = call[b] /\ b \notin troubled
  <2>1. published' \in Int /\ published <= published'
    BY PublishedGrows
  <2>2. call[b].known <= published'
    BY <1>0, <1>1, <2>1 DEF OnTheWay
  <2>3. ASSUME NEW t \in call[b].want
        PROVE  \/ InHand(call[b], t)
               \/ Reached(prices'[t], call[b].start, call[b].end, call[b].known)
    <3>1. prices[t] \subseteq prices'[t]
      BY <1>0, PricesGrow
    <3> QED BY <1>1, <3>1, ReachedGrows DEF OnTheWay
  <2> QED BY <1>1, <2>2, <2>3
<1>2. CASE Publish \/ UNCHANGED vars
  BY <1>1, <1>2 DEF Publish, vars
<1>3. ASSUME NEW c \in Caller, Step(c), c # b PROVE Goal
  <2>1. call'[b] = call[b] /\ b \notin troubled
    BY <1>3 DEF Step, Begin, FetchMissing, MissingRaises, FetchStale, LoadPrices,
                TypeOK
  <2> QED BY <1>1, <2>1
<1>4. ASSUME NEW want \in Basket, NEW start \in Day, NEW end \in 2..(LastDay + 1),
             Begin(b, want, start, end)
      PROVE  Goal
  <2>1. PICK latest \in [Ticker -> 0..LastDay] :
          /\ \A t \in Ticker : IF t \in want THEN IsLatest(latest[t], prices[t])
                                             ELSE latest[t] = 0
          /\ call' = [call EXCEPT ![b] =
               [pc |-> "missing", want |-> want, start |-> start, end |-> end,
                latest |-> latest, todo |-> Cutoffs(latest, want, end),
                known |-> published, reply |-> [t \in Ticker |-> {}]]]
    BY <1>4 DEF Begin
  <2>2. /\ call'[b].pc = "missing" /\ call'[b].want = want
        /\ call'[b].start = start /\ call'[b].end = end
        /\ call'[b].latest = latest /\ call'[b].known = published
        /\ call'[b].todo = Cutoffs(latest, want, end)
        /\ published' = published /\ prices' = prices
    BY <1>4, <2>1 DEF TypeOK, Begin
  <2>3. ASSUME NEW t \in want
        PROVE  InHand(call'[b], t) \/ Reached(prices[t], start, end, published)
    <3>1. t \in Ticker
      BY PriceAssumption
    <3>2. CASE latest[t] = 0
      BY <2>2, <3>2 DEF InHand
    <3>3. CASE latest[t] # 0 /\ latest[t] < end
      <4>1. latest[t] \in Day
        BY <3>1, <3>3, PriceAssumption DEF Day
      <4> QED BY <2>2, <3>3, <4>1 DEF InHand, Cutoffs
    <3>4. CASE latest[t] # 0 /\ ~(latest[t] < end)
      <4>1. latest[t] \in prices[t]
        BY <2>1, <3>1, <3>4 DEF IsLatest
      <4>2. latest[t] \in Int
        BY <3>1, PriceAssumption
      <4> QED BY <3>4, <4>1, <4>2, PriceAssumption DEF Reached, Day
    <3> QED BY <3>2, <3>3, <3>4
  <2> QED BY <1>0, <2>2, <2>3
<1>5. CASE FetchMissing(b)
  <2>1. /\ b \notin troubled
        /\ SavePrices(Missing(b), Yahoo(call[b].start, call[b].end))
    BY <1>5 DEF FetchMissing
  <2>2. /\ call[b].pc = "missing" /\ call'[b].pc = "stale"
        /\ call'[b].want = call[b].want /\ call'[b].start = call[b].start
        /\ call'[b].end = call[b].end /\ call'[b].latest = call[b].latest
        /\ call'[b].known = call[b].known /\ call'[b].todo = call[b].todo
        /\ published' = published
    BY <1>5 DEF FetchMissing, TypeOK, Call
  <2>3. ASSUME NEW t \in call[b].want
        PROVE  \/ InHand(call'[b], t)
               \/ Reached(prices'[t], call[b].start, call[b].end, call[b].known)
    <3>0. t \in Ticker
      BY <1>0
    <3>1. CASE call[b].latest[t] = 0
      <4>1. prices'[t] = prices[t] \cup Yahoo(call[b].start, call[b].end)
        BY <2>1, <3>0, <3>1 DEF SavePrices, Missing
      <4>2. call[b].known <= published
        BY <2>1, <2>2 DEF OnTheWay
      <4> QED BY <1>0, <4>1, <4>2 DEF Reached, Yahoo, Day
    <3>2. CASE call[b].latest[t] # 0
      <4>1. InHand(call[b], t) \/ Reached(prices[t], call[b].start, call[b].end,
                                          call[b].known)
        BY <2>1, <2>2 DEF OnTheWay
      <4>2. prices[t] \subseteq prices'[t]
        BY <3>0, PricesGrow
      <4> QED BY <2>2, <3>2, <4>1, <4>2, ReachedGrows DEF InHand
    <3> QED BY <3>1, <3>2
  <2>4. call[b].known <= published
    BY <2>1, <2>2 DEF OnTheWay
  <2> QED BY <2>2, <2>3, <2>4
<1>6. ASSUME NEW cutoff \in Day, FetchStale(b, cutoff) PROVE Goal
  <2>1. /\ b \notin troubled
        /\ SavePrices(Group(b, cutoff), Yahoo(cutoff + 1, call[b].end))
    BY <1>6 DEF FetchStale
  <2>2. /\ call[b].pc = "stale" /\ call'[b].pc = "stale"
        /\ call'[b].want = call[b].want /\ call'[b].start = call[b].start
        /\ call'[b].end = call[b].end /\ call'[b].latest = call[b].latest
        /\ call'[b].known = call[b].known
        /\ call'[b].todo = call[b].todo \ {cutoff}
        /\ published' = published
    BY <1>6 DEF FetchStale, TypeOK, Call
  <2>3. ASSUME NEW t \in call[b].want
        PROVE  \/ InHand(call'[b], t)
               \/ Reached(prices'[t], call[b].start, call[b].end, call[b].known)
    <3>0. t \in Ticker
      BY <1>0
    <3>1. CASE call[b].latest[t] = cutoff
      <4>1. prices'[t] = prices[t] \cup Yahoo(cutoff + 1, call[b].end)
        BY <2>1, <3>0, <3>1 DEF SavePrices, Group
      <4>2. cutoff \in prices[t] /\ cutoff \in Int
        BY <2>2, <3>0, <3>1, PriceAssumption DEF ReadIsStored, Day
      <4>3. call[b].known <= published
        BY <2>1, <2>2 DEF OnTheWay
      <4>4. ASSUME NEW d \in Day, d < call[b].end, d <= call[b].known
            PROVE  \E e \in prices'[t] : d <= e
        <5>1. CASE d <= cutoff
          BY <4>1, <4>2, <5>1
        <5>2. CASE ~(d <= cutoff)
          <6>1. d \in Yahoo(cutoff + 1, call[b].end)
            BY <1>0, <4>2, <4>3, <4>4, <5>2 DEF Yahoo, Day
          <6>2. d <= d
            BY DEF Day
          <6> QED BY <4>1, <6>1, <6>2
        <5> QED BY <5>1, <5>2
      <4> QED BY <4>4 DEF Reached
    <3>2. CASE call[b].latest[t] # cutoff
      <4>1. InHand(call[b], t) \/ Reached(prices[t], call[b].start, call[b].end,
                                          call[b].known)
        BY <2>1, <2>2 DEF OnTheWay
      <4>2. prices[t] \subseteq prices'[t]
        BY <3>0, PricesGrow
      <4> QED BY <2>2, <3>2, <4>1, <4>2, ReachedGrows DEF InHand
    <3> QED BY <3>1, <3>2
  <2>4. call[b].known <= published
    BY <2>1, <2>2 DEF OnTheWay
  <2> QED BY <2>2, <2>3, <2>4
<1>7. CASE LoadPrices(b)
  <2>1. /\ call[b].pc = "stale" /\ call[b].todo = {} /\ b \notin troubled
        /\ call'[b].want = call[b].want /\ call'[b].start = call[b].start
        /\ call'[b].end = call[b].end /\ call'[b].known = call[b].known
        /\ published' = published /\ prices' = prices
    BY <1>7 DEF LoadPrices, TypeOK, Call
  <2> QED BY <2>1 DEF OnTheWay, InHand
<1>8. CASE MissingRaises(b)
  BY <1>8 DEF MissingRaises, Idle, TypeOK
<1> QED BY <1>2, <1>3, <1>4, <1>5, <1>6, <1>7, <1>8 DEF Next, Step

\* A get_prices whose downloads all came through leaves every ticker it asked
\* for as recent as Yahoo was when it began, whatever ran beside it.
THEOREM PricesUpToDate == Spec => []UpToDate
<1>1. Init => OnTheWay
  BY DEF Init, OnTheWay, Idle
<1>2. OnTheWay => UpToDate
  BY DEF OnTheWay, UpToDate, InHand, Reached
<1> QED BY <1>1, <1>2, OnTheWayStep, PriceTypes, ReadInvariant, PTL DEF Spec
=============================================================================
