---------------------------- MODULE YahooBreaker ----------------------------
(***************************************************************************)
(* The circuit breaker in front of Yahoo Finance (src/downloader.py): two  *)
(* module-level globals read and written by every thread that downloads,   *)
(* with no lock.  CPython switches threads at a call, so _record_success   *)
(* is atomic, while _circuit_open and _record_failure can lose the GIL     *)
(* around their call of time.monotonic().                                  *)
(***************************************************************************)
EXTENDS Naturals

CONSTANTS
  Thread,        \* threads of one process that call fetch_from_yahoo
  FailMax,       \* _CB_FAIL_MAX
  ResetTimeout,  \* _CB_RESET_TIMEOUT
  MaxFailures,   \* bound on _cb_failures
  None

ASSUME BreakerAssumption ==
  /\ FailMax \in Nat \ {0}
  /\ ResetTimeout \in Nat
  /\ MaxFailures \in Nat
  /\ None \notin Nat

VARIABLES
  failures,  \* _cb_failures
  age,       \* time since _cb_opened_at, saturated; None while it is None
  pc,        \* where each thread is in fetch_from_yahoo
  clock,     \* time since the thread read time.monotonic() to open the breaker
  healthy    \* whether Yahoo answers

vars == <<failures, age, pc, clock, healthy>>

Expired == ResetTimeout + 1
Age     == 0..Expired
Older(a) == IF a \in 0..ResetTimeout THEN a + 1 ELSE a

\* Each global and each thread keeps its type: a date is a date or None.
TypeOK ==
  /\ failures \in Nat
  /\ age \in Age \cup {None}
  /\ pc \in [Thread -> {"idle", "elapsed", "download", "stamp"}]
  /\ clock \in [Thread -> Age]
  /\ healthy \in BOOLEAN

Init ==
  /\ failures = 0
  /\ age = None
  /\ pc = [t \in Thread |-> "idle"]
  /\ clock = [t \in Thread |-> 0]
  /\ healthy \in BOOLEAN

\* _circuit_open finds too few failures: the download starts.
CheckClosed(t) ==
  /\ pc[t] = "idle"
  /\ failures < FailMax
  /\ pc' = [pc EXCEPT ![t] = "download"]
  /\ UNCHANGED <<failures, age, clock, healthy>>

\* Enough failures, and a date to compare with; without one the call is
\* rejected on the spot and nothing changes.
CheckOpen(t) ==
  /\ pc[t] = "idle"
  /\ failures >= FailMax
  /\ age # None
  /\ pc' = [pc EXCEPT ![t] = "elapsed"]
  /\ UNCHANGED <<failures, age, clock, healthy>>

\* After time.monotonic() _cb_opened_at is read again: the call is let
\* through, rejected, or dies of a TypeError if a success just cleared it.
Elapsed(t) ==
  /\ pc[t] = "elapsed"
  /\ pc' = [pc EXCEPT ![t] = IF age = Expired THEN "download" ELSE "idle"]
  /\ UNCHANGED <<failures, age, clock, healthy>>

\* Mutant: _record_success forgets the failure count.
SucceedKeepsCount(t) ==
  /\ pc[t] = "download"
  /\ healthy
  /\ age' = None
  /\ pc' = [pc EXCEPT ![t] = "idle"]
  /\ UNCHANGED <<failures, clock, healthy>>

\* yf.download returned: _record_success.
Succeed(t) ==
  /\ pc[t] = "download"
  /\ healthy
  /\ failures' = 0
  /\ age' = None
  /\ pc' = [pc EXCEPT ![t] = "idle"]
  /\ UNCHANGED <<clock, healthy>>

\* Mutants: the breaker is dated only by a failure past the limit, when every
\* caller is rejected already; it is dated with the failure count.
FailDatesAtLimitOnly(t) ==
  /\ pc[t] = "download"
  /\ ~healthy
  /\ failures < MaxFailures
  /\ failures' = failures + 1
  /\ pc' = [pc EXCEPT ![t] = IF failures' > FailMax /\ age = None
                               THEN "stamp" ELSE "idle"]
  /\ clock' = [clock EXCEPT ![t] = 0]
  /\ UNCHANGED <<age, healthy>>
FailStampsCount(t) ==
  /\ pc[t] = "download"
  /\ ~healthy
  /\ failures < MaxFailures
  /\ failures' = failures + 1
  /\ age' = failures + 1
  /\ pc' = [pc EXCEPT ![t] = "idle"]
  /\ UNCHANGED <<clock, healthy>>

\* yf.download raised for the third time (tenacity): _record_failure.
Fail(t) ==
  /\ pc[t] = "download"
  /\ ~healthy
  /\ failures < MaxFailures
  /\ failures' = failures + 1
  /\ pc' = [pc EXCEPT ![t] = IF failures' >= FailMax /\ age = None
                               THEN "stamp" ELSE "idle"]
  /\ clock' = [clock EXCEPT ![t] = 0]
  /\ UNCHANGED <<age, healthy>>

\* _cb_opened_at = the time read before.
Stamp(t) ==
  /\ pc[t] = "stamp"
  /\ age' = clock[t]
  /\ pc' = [pc EXCEPT ![t] = "idle"]
  /\ UNCHANGED <<failures, clock, healthy>>

Tick ==
  /\ age' = Older(age)
  /\ clock' = [t \in Thread |-> Older(clock[t])]
  /\ UNCHANGED <<failures, pc, healthy>>

\* Yahoo goes down and comes back.
Weather ==
  /\ healthy' = ~healthy
  /\ UNCHANGED <<failures, age, pc, clock>>

Fetch(t) == CheckClosed(t) \/ CheckOpen(t) \/ Elapsed(t) \/ Succeed(t)
              \/ Fail(t) \/ Stamp(t)

Next == Tick \/ Weather \/ \E t \in Thread : Fetch(t)

\* Callers keep asking for prices, threads are scheduled and time passes.
Spec == /\ Init /\ [][Next]_vars
        /\ WF_vars(Tick)
        /\ \A t \in Thread : WF_vars(Fetch(t))

-----------------------------------------------------------------------------
(* Properties.                                                              *)

\* An open breaker has a date, or a thread that is about to give it one:
\* without it _circuit_open would reject every call until the process
\* restarts, since a rejected call never reaches _record_failure.
OpenGetsDated ==
  (failures >= FailMax /\ age = None) => \E t \in Thread : pc[t] = "stamp"

\* Once Yahoo stays up the breaker closes and stays closed, provided callers
\* keep coming.
RecoversWhenHealthy == <>[]healthy => <>[](failures < FailMax)
=============================================================================
