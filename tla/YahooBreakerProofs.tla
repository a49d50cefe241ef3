------------------------- MODULE YahooBreakerProofs -------------------------
(* Theorems about YahooBreaker, for any number of threads and any limits.   *)
EXTENDS YahooBreaker, TLAPS

\* The types that the dating argument needs.
Timing ==
  /\ failures \in Nat
  /\ age \in Age \cup {None}
  /\ clock \in [Thread -> Age]
  /\ pc \in [Thread -> {"idle", "elapsed", "download", "stamp"}]

LEMMA OlderIsAnAge ==
  ASSUME NEW a \in Age
  PROVE  Older(a) \in Age
BY BreakerAssumption DEF Older, Age, Expired

LEMMA OlderNone == Older(None) = None
BY BreakerAssumption DEF Older

LEMMA AgeIsDated == None \notin Age
BY BreakerAssumption DEF Age, Expired

LEMMA TimingInit == Init => Timing
BY BreakerAssumption DEF Init, Timing, Age, Expired

LEMMA TimingStep == Timing /\ [Next]_vars => Timing'
<1> SUFFICES ASSUME Timing, [Next]_vars PROVE Timing'
  OBVIOUS
<1> USE DEF Timing
<1>1. CASE Tick
  <2>1. age' \in Age \cup {None}
    BY <1>1, OlderIsAnAge, OlderNone DEF Tick
  <2>2. clock' \in [Thread -> Age]
    BY <1>1, OlderIsAnAge DEF Tick
  <2> QED BY <1>1, <2>1, <2>2 DEF Tick
<1>2. CASE Weather
  BY <1>2 DEF Weather
<1>3. ASSUME NEW t \in Thread, Fetch(t) PROVE Timing'
  <2>1. CASE CheckClosed(t)
    BY <2>1 DEF CheckClosed
  <2>2. CASE CheckOpen(t)
    BY <2>2 DEF CheckOpen
  <2>3. CASE Elapsed(t)
    BY <2>3 DEF Elapsed
  <2>4. CASE Succeed(t)
    BY <2>4 DEF Succeed
  <2>5. CASE Fail(t)
    <3>1. 0 \in Age
      BY BreakerAssumption DEF Age, Expired
    <3> QED BY <2>5, <3>1 DEF Fail
  <2>6. CASE Stamp(t)
    BY <2>6 DEF Stamp
  <2> QED BY <1>3, <2>1, <2>2, <2>3, <2>4, <2>5, <2>6 DEF Fetch
<1>4. CASE UNCHANGED vars
  BY <1>4 DEF vars
<1> QED BY <1>1, <1>2, <1>3, <1>4 DEF Next

\* The variable only the environment moves.
LEMMA WeatherStep ==
  ASSUME healthy \in BOOLEAN, [Next]_vars
  PROVE  healthy' \in BOOLEAN
<1>0. 0 \in Age
  BY BreakerAssumption DEF Age, Expired
<1>1. CASE Tick
  BY <1>1, OlderIsAnAge DEF Tick
<1>2. CASE Weather
  BY <1>2 DEF Weather
<1>3. ASSUME NEW t \in Thread, Fetch(t)
      PROVE  healthy' \in BOOLEAN
  BY <1>0, <1>3 DEF Fetch, CheckClosed, CheckOpen, Elapsed, Succeed, Fail, Stamp
<1>4. CASE UNCHANGED vars
  BY <1>4 DEF vars
<1> QED BY <1>1, <1>2, <1>3, <1>4 DEF Next

\* Every variable of the breaker keeps its type, whatever the threads do and
\* for however many of them.
THEOREM BreakerTypes == Spec => []TypeOK
<1>1. Init => TypeOK
  BY BreakerAssumption DEF Init, TypeOK, Age, Expired
<1>2. TypeOK /\ [Next]_vars => TypeOK'
  BY TimingStep, WeatherStep DEF TypeOK, Timing
<1> QED BY <1>1, <1>2, PTL DEF Spec

\* An open breaker is dated, or about to be: no interleaving of late failures
\* with successes leaves it rejecting every call for ever.
THEOREM OpenBreakerGetsDated == Spec => []OpenGetsDated
<1>1. Init => OpenGetsDated
  BY BreakerAssumption DEF Init, OpenGetsDated
<1>2. Timing /\ OpenGetsDated /\ [Next]_vars => OpenGetsDated'
  <2> SUFFICES ASSUME Timing, OpenGetsDated, [Next]_vars,
                      failures' >= FailMax, age' = None
               PROVE  \E t \in Thread : pc'[t] = "stamp"
    BY DEF OpenGetsDated
  <2>1. CASE Tick
    <3>1. age = None
      BY <2>1, OlderIsAnAge, AgeIsDated DEF Tick, Timing
    <3> QED BY <2>1, <3>1 DEF Tick, OpenGetsDated
  <2>2. CASE Weather
    BY <2>2 DEF Weather, OpenGetsDated
  <2>3. ASSUME NEW t \in Thread, Fetch(t)
        PROVE  \E u \in Thread : pc'[u] = "stamp"
    <3>1. CASE CheckClosed(t)
      BY <3>1 DEF CheckClosed, OpenGetsDated, Timing
    <3>2. CASE CheckOpen(t)
      BY <3>2 DEF CheckOpen, OpenGetsDated, Timing
    <3>3. CASE Elapsed(t)
      BY <3>3 DEF Elapsed, OpenGetsDated, Timing
    <3>4. CASE Succeed(t)
      BY <3>4, BreakerAssumption DEF Succeed
    <3>5. CASE Fail(t)
      BY <3>5 DEF Fail, Timing
    <3>6. CASE Stamp(t)
      BY <3>6, AgeIsDated DEF Stamp, Timing
    <3> QED BY <2>3, <3>1, <3>2, <3>3, <3>4, <3>5, <3>6 DEF Fetch
  <2>4. CASE UNCHANGED vars
    BY <2>4 DEF vars, OpenGetsDated
  <2> QED BY <2>1, <2>2, <2>3, <2>4 DEF Next
<1>3. TypeOK => Timing
  BY DEF TypeOK, Timing
<1> QED BY <1>1, <1>2, <1>3, BreakerTypes, PTL DEF Spec
=============================================================================
