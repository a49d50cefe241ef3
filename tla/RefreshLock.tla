---------------------------- MODULE RefreshLock ----------------------------
(***************************************************************************)
(* The daily market-data refresh that every API replica schedules          *)
(* (services/scheduler.py) and the Redis lock that is to keep the replicas *)
(* apart (services/distributed_lock.py).                                   *)
(***************************************************************************)
EXTENDS Naturals

CONSTANTS
  Replica,
  None,
  HasRedis,   \* REDIS_URL is set
  LastDay,    \* bound: days
  MaxFaults   \* bound: Redis errors, failed downloads and crashes

\* Without Redis the deployment is one process.
ASSUME LockAssumption ==
  /\ HasRedis \in BOOLEAN
  /\ Replica # {}
  /\ HasRedis \/ \E r \in Replica : Replica = {r}
  /\ LastDay \in Nat
  /\ MaxFaults \in Nat
  /\ None \notin Replica \X Nat

VARIABLES
  key,      \* lock:market-refresh: the token of its holder, or None
  pc,       \* each replica's run of the day's job
  day,
  overrun,  \* history: replicas at work whose key expired under them
  ran,      \* history: replicas whose refresh succeeded today
  faults,
  before    \* history: how many of the faults are of earlier days

vars == <<key, pc, day, overrun, ran, faults, before>>

\* Mutant: the time to live in milliseconds, as PX would take it.
TtlInMilliseconds == 600000

\* acquire_lock("market-refresh", ttl=600), in seconds.
Ttl == 600

\* The cron trigger's period at the least.
DayLength == 86400

\* The uuid4 of an attempt: a replica makes one attempt a day.
Token(r) == <<r, day>>

Init ==
  /\ key = None
  /\ pc = [r \in Replica |-> "waiting"]
  /\ day = 0
  /\ overrun = {}
  /\ ran = {}
  /\ faults = 0
  /\ before = 0

Fails ==
  /\ faults < MaxFaults
  /\ faults' = faults + 1

Move(r, to) == pc' = [pc EXCEPT ![r] = to]

\* Mutants: a constant for a token; SET without NX.
AcquireAnonymously(r) ==
  /\ pc[r] = "waiting"
  /\ key' = IF key = None THEN "1" ELSE key
  /\ Move(r, IF key = None THEN "work" ELSE "done")
  /\ UNCHANGED <<day, overrun, ran, faults, before>>
AcquireAlways(r) ==
  /\ pc[r] = "waiting"
  /\ key' = Token(r)
  /\ Move(r, "work")
  /\ UNCHANGED <<day, overrun, ran, faults, before>>

\* The cron trigger fires, within misfire_grace_time, and acquire() runs
\* SET NX EX: the replica refreshes, or skips because another one holds it.
Acquire(r) ==
  /\ pc[r] = "waiting"
  /\ IF ~HasRedis THEN key' = key /\ Move(r, "work")
     ELSE IF key = None THEN key' = Token(r) /\ Move(r, "work")
     ELSE key' = key /\ Move(r, "done")
  /\ UNCHANGED <<day, overrun, ran, faults, before>>

\* The call raises, with the SET carried out or not: the job is over.
AcquireRaises(r) ==
  /\ pc[r] = "waiting"
  /\ HasRedis
  /\ Fails
  /\ key' \in {key, IF key = None THEN Token(r) ELSE key}
  /\ Move(r, "done")
  /\ UNCHANGED <<day, overrun, ran, before>>

\* _do_refresh.
Refresh(r) ==
  /\ pc[r] = "work"
  /\ ran' = ran \cup {r}
  /\ Move(r, "release")
  /\ UNCHANGED <<key, day, overrun, faults, before>>

\* Its own errors are logged and swallowed.
RefreshFails(r) ==
  /\ pc[r] = "work"
  /\ Fails
  /\ Move(r, "release")
  /\ UNCHANGED <<key, day, overrun, ran, before>>

\* Mutant: a plain DEL.
ReleaseBlindly(r) ==
  /\ pc[r] = "release"
  /\ key' = None
  /\ overrun' = overrun \ {r}
  /\ Move(r, "done")
  /\ UNCHANGED <<day, ran, faults, before>>

\* The Lua script: compare, then delete.
CompareAndDelete(token) == key' = IF key = token THEN None ELSE key

Release(r) ==
  /\ pc[r] = "release"
  /\ CompareAndDelete(Token(r))
  /\ overrun' = overrun \ {r}
  /\ Move(r, "done")
  /\ UNCHANGED <<day, ran, faults, before>>

\* An error of it is logged and swallowed; the key is left to expire.
ReleaseFails(r) ==
  /\ pc[r] = "release"
  /\ HasRedis
  /\ Fails
  /\ overrun' = overrun \ {r}
  /\ Move(r, "done")
  /\ UNCHANGED <<key, day, ran, before>>

Crash(r) ==
  /\ pc[r] \in {"work", "release"}
  /\ Fails
  /\ overrun' = overrun \ {r}
  /\ Move(r, "done")
  /\ UNCHANGED <<key, day, ran, before>>

Busy == {r \in Replica : pc[r] \in {"work", "release"}}

\* The time to live counts from the SET, whatever the holder is doing: a slow
\* one is overrun.
Expire ==
  /\ key # None
  /\ key' = None
  /\ overrun' = overrun \cup {r \in Busy : key = Token(r)}
  /\ UNCHANGED <<pc, day, ran, faults, before>>

\* No refresh takes a day.  A key that nobody released is gone by the next day
\* if its time to live is shorter.
NewDay ==
  /\ Ttl < DayLength => key = None
  /\ day < LastDay
  /\ \A r \in Replica : pc[r] = "done"
  /\ day' = day + 1
  /\ pc' = [r \in Replica |-> "waiting"]
  /\ ran' = {}
  /\ before' = faults
  /\ UNCHANGED <<key, overrun, faults>>

Run(r) ==
  \/ Acquire(r) \/ AcquireRaises(r)
  \/ Refresh(r) \/ RefreshFails(r)
  \/ Release(r) \/ ReleaseFails(r)

Next == Expire \/ NewDay \/ \E r \in Replica : Run(r) \/ Crash(r)

Spec == Init /\ [][Next]_vars

-----------------------------------------------------------------------------
(* Properties.                                                              *)

\* The key holds a token or nothing, and only replicas at work can have outlived
\* their lock.
TypeOK ==
  /\ key \in (Replica \X Nat) \cup {None}
  /\ pc \in [Replica -> {"waiting", "work", "release", "done"}]
  /\ day \in Nat
  /\ overrun \subseteq Busy
  /\ ran \subseteq Replica
  /\ faults \in Nat
  /\ before \in 0..faults

\* Two replicas are at the refresh together only if one of them has outlived
\* its lock.
Exclusive ==
  \A r, s \in Busy : r # s => r \in overrun \/ s \in overrun

\* Nobody but its holder deletes the lock of a replica at work; it goes when
\* the holder releases it or when its time is up.
LockIsKept ==
  [][\A r \in Busy :
       key = Token(r) => key' = key \/ pc'[r] = "done" \/ r \in overrun']_vars

\* Losing the lock to a dead holder, to a lost answer or to a failed release costs
\* no more than the day it happens on: a day without a fault of its own does not
\* pass without a refresh that succeeded, whatever the days before left behind.
RefreshedDaily ==
  (faults = before /\ \A r \in Replica : pc[r] = "done") => ran # {}
=============================================================================
