---------------------------- MODULE BoundedStore ----------------------------
(***************************************************************************)
(* The in-process store that CacheService falls back to without Redis, and *)
(* the counters MetricsService keeps in it next to jobs, flags and cached  *)
(* answers.  The threads of one API process share the dictionary _mem.     *)
(* Each call enters the lock once per section, and reads the clock before  *)
(* it waits for the lock; between two sections of a call other threads run. *)
(***************************************************************************)
EXTENDS Integers, Sequences, FiniteSets

CONSTANTS
  Thread,      \* API threads
  Job,         \* entries of jobs
  Flag,        \* flags, and alike the snapshots of dead letters
  Aside,       \* answers cached aside: the stock universe, histories, details
  Ttl,         \* time to live of each item
  CounterTtl,  \* _COUNTER_TTL, and the same week in MetricsService
  Cap,         \* _MEM_MAX_ENTRIES
  Duration,    \* how long an optimization may take
  MaxTime,     \* bound on the clock
  MaxCalls     \* bound on the calls made

Item == Job \cup Flag \cup Aside

\* "requests" stands for the counters that are only counted.
Counter == {"requests", "hits", "misses", "sum", "count"}
Key == Item \cup Counter

ASSUME StoreAssumption ==
  /\ Item \cap Counter = {}
  /\ Ttl \in [Item -> Nat \ {0}]
  /\ CounterTtl \in Nat \ {0}
  /\ Cap \in Nat \ {0}
  /\ Duration \subseteq Nat \ {0}
  /\ MaxTime \in Nat /\ MaxCalls \in Nat

VARIABLES
  clock,    \* time.monotonic()
  mem,      \* _mem: key -> when it expires and its number (0 for an item)
  todo,     \* per thread, the sections of its call it has yet to enter
  since,    \* per thread, the earliest it can have read the clock; 0 when idle
  seen,     \* per thread, the sum and count its report of metrics has read
  calls,    \* calls made so far
  longest,  \* history: the longest duration recorded
  lapsed    \* history: the count of durations was lost and may start again

vars == <<clock, mem, todo, since, seen, calls, longest, lapsed>>

Lifetime(k) == IF k \in Counter THEN CounterTtl ELSE Ttl[k]

\* A "fill" reads and stores on a miss, an "update" reads and stores on a hit.
Read == {"get", "fill", "update"}
Section == [do : Read \cup {"set", "add"}, key : Key, by : Nat]
Reads(do, k) == [do |-> do, key |-> k, by |-> 0]
Get(k)    == Reads("get", k)
Set(k)    == [do |-> "set", key |-> k, by |-> 0]
Add(c, d) == [do |-> "add", key |-> c, by |-> d]

NothingSeen == [sum |-> 0, count |-> 0]

\* The entries of _mem that are not in K stay as they are.
Without(K) == [k \in DOMAIN mem \ K |-> mem[k]]

Live(k, now) == k \in DOMAIN mem /\ mem[k].until > now

Init ==
  /\ clock = 0 /\ calls = 0
  /\ mem = [k \in {} |-> 0]
  /\ todo = [t \in Thread |-> <<>>]
  /\ since = [t \in Thread |-> 0]
  /\ seen = [t \in Thread |-> NothingSeen]
  /\ longest = 0
  /\ lapsed = FALSE

-----------------------------------------------------------------------------
(* The calls, as the sections they will enter.                             *)

Call(t, sections) ==
  /\ todo[t] = <<>> /\ calls < MaxCalls
  /\ todo' = [todo EXCEPT ![t] = sections]
  /\ since' = [since EXCEPT ![t] = clock]
  /\ calls' = calls + 1
  /\ UNCHANGED <<clock, mem, lapsed>>

Quietly(t, sections) == Call(t, sections) /\ UNCHANGED <<seen, longest>>

\* A submission counts the job, an _update counts one that is settled.
CreateJob(t) == \E j \in Job : Quietly(t, <<Add("requests", 1), Set(j)>>)
UpdateJob(t) ==
  \E j \in Job, count \in {<<>>, <<Add("requests", 1)>>} :
    Quietly(t, <<Reads("update", j)>> \o count)
PollJob(t)   == \E j \in Job : Quietly(t, <<Get(j)>>)

IsEnabled(t) == \E f \in Flag : Quietly(t, <<Get(f)>>)
SetFlag(t)   == \E f \in Flag : Quietly(t, <<Set(f)>>)

\* The endpoints of flags list them one by one, set one, or reset one (below).
FlagEndpoint(t) == IsEnabled(t) \/ SetFlag(t)

\* GET /stocks and the other answers that are cached aside.
GetStocks(t) == \E a \in Aside : Quietly(t, <<Reads("fill", a)>>)

\* The middleware counts a request.
CountRequest(t) == Quietly(t, <<Add("requests", 1)>>)

\* A run that has taken d records its duration: the count, then the sum.
Recording(t, d, sections) ==
  /\ Call(t, sections)
  /\ longest' = IF d > longest THEN d ELSE longest
  /\ UNCHANGED seen

\* Mutant: the sum first.
RecordDurationSumFirst(t, d) == Recording(t, d, <<Add("sum", d), Add("count", 1)>>)

RecordDuration(t, d) == Recording(t, d, <<Add("count", 1), Add("sum", d)>>)

\* GET /admin/metrics reads the counters one by one, in this order.
Report(t) ==
  /\ Call(t, <<Get("requests"), Get("hits"), Get("misses"), Get("sum"), Get("count")>>)
  /\ seen' = [seen EXCEPT ![t] = NothingSeen]
  /\ UNCHANGED longest

\* cache.delete is one section and reads no clock.
Delete(k) ==
  /\ k \in DOMAIN mem /\ calls < MaxCalls
  /\ mem' = Without({k})
  /\ calls' = calls + 1
  /\ UNCHANGED <<clock, todo, since, seen, longest, lapsed>>

ResetFlag == \E f \in Flag : Delete(f)

\* The daily refresh and a saved portfolio drop the cached answers.
Invalidate == \E a \in Aside : Delete(a)

-----------------------------------------------------------------------------
(* The sections, under the lock, with a clock that was read before it.     *)

Enters(t, dos, now) ==
  /\ todo[t] # <<>> /\ Head(todo[t]).do \in dos
  /\ now \in since[t]..clock

\* _track follows a read, unless a counter was read.
Tracking(k, hit) ==
  IF k \in Counter THEN <<>> ELSE <<Add(IF hit THEN "hits" ELSE "misses", 1)>>

\* What the caller does with the answer.
Storing(do, k, hit) ==
  IF do = IF hit THEN "update" ELSE "fill" THEN <<Set(k)>> ELSE <<>>

Leaves(t, next) ==
  /\ todo' = [todo EXCEPT ![t] = next]
  /\ since' = [since EXCEPT ![t] = IF next = <<>> THEN 0 ELSE clock]
  /\ UNCHANGED <<clock, calls, longest>>

\* History: the count of durations is there no more, or is about to start again.
Lapses(K) == lapsed' = (lapsed \/ "count" \in K)

MemGet(t, now) ==
  LET k   == Head(todo[t]).key
      hit == Live(k, now)
  IN  /\ Enters(t, Read, now)
      /\ mem' = IF hit THEN mem ELSE Without({k})
      /\ Lapses(DOMAIN mem \ DOMAIN mem')
      /\ seen' = IF k \in {"sum", "count"} /\ hit
                   THEN [seen EXCEPT ![t][k] = mem[k].n] ELSE seen
      /\ Leaves(t, Tracking(k, hit) \o Storing(Head(todo[t]).do, k, hit) \o Tail(todo[t]))

\* A set first drops what has expired.
Kept(now) == {k \in DOMAIN mem : mem[k].until > now}

\* At the cap a new key takes the place of the one that would expire first.
Soonest(K) == {k \in K : \A j \in K : mem[k].until <= mem[j].until}

Stored(kept, k, now) ==
  [j \in kept \cup {k} |->
     IF j = k THEN [until |-> now + Lifetime(k), n |-> 0] ELSE mem[j]]

SetEvicting(t, now, victims) ==
  LET k    == Head(todo[t]).key
      kept == Kept(now)
  IN  /\ Enters(t, {"set"}, now)
      /\ IF k \notin kept /\ Cardinality(kept) >= Cap
           THEN \E victim \in victims : mem' = Stored(kept \ {victim}, k, now)
           ELSE mem' = Stored(kept, k, now)
      /\ Lapses(DOMAIN mem \ DOMAIN mem')
      /\ Leaves(t, Tail(todo[t]))
      /\ UNCHANGED seen

\* Mutant: any entry goes.
MemSetEvictsAny(t, now) == SetEvicting(t, now, Kept(now))

MemSet(t, now) == SetEvicting(t, now, Soonest(Kept(now)))

\* A counter pays no attention to the cap, and an expired one starts from 0.
AddUntil(t, now, until) ==
  LET c    == Head(todo[t]).key
      base == IF Live(c, now) THEN mem[c].n ELSE 0
  IN  /\ Enters(t, {"add"}, now)
      /\ mem' = [j \in DOMAIN mem \cup {c} |->
                   IF j = c THEN [until |-> until, n |-> base + Head(todo[t]).by]
                            ELSE mem[j]]
      /\ Lapses(IF Live(c, now) THEN {} ELSE {c} \cap DOMAIN mem)
      /\ Leaves(t, Tail(todo[t]))
      /\ UNCHANGED seen

\* Mutant: an increment prolongs what is left of the counter's life.
MemAddProlongs(t, now) ==
  LET c == Head(todo[t]).key
  IN  AddUntil(t, now, CounterTtl + IF Live(c, now) THEN mem[c].until ELSE now)

MemAdd(t, now) == AddUntil(t, now, now + CounterTtl)

-----------------------------------------------------------------------------
Tick == clock < MaxTime /\ clock' = clock + 1
        /\ UNCHANGED <<mem, todo, since, seen, calls, longest, lapsed>>

\* The process is restarted: everything in it is gone.
Restart ==
  /\ mem' = Without(DOMAIN mem)
  /\ todo' = [t \in Thread |-> <<>>]
  /\ since' = [t \in Thread |-> 0]
  /\ seen' = [t \in Thread |-> NothingSeen]
  /\ longest' = 0
  /\ lapsed' = FALSE
  /\ UNCHANGED <<clock, calls>>

Begin(t) ==
  \/ CreateJob(t) \/ UpdateJob(t) \/ PollJob(t)
  \/ FlagEndpoint(t) \/ GetStocks(t)
  \/ CountRequest(t) \/ Report(t)
  \/ \E d \in Duration : RecordDuration(t, d)

Continue(t) == \E now \in 0..MaxTime : MemGet(t, now) \/ MemSet(t, now) \/ MemAdd(t, now)

Next ==
  \/ \E t \in Thread : Begin(t) \/ Continue(t)
  \/ ResetFlag \/ Invalidate
  \/ Tick
  \/ Restart

Spec == Init /\ [][Next]_vars

-----------------------------------------------------------------------------
(* Types, with the bound that makes the store forget: whatever thread wrote *)
(* an entry, and however long it waited for the lock, the entry expires     *)
(* within its time to live from now.                                        *)
EntryTypes ==
  /\ DOMAIN mem \subseteq Key
  /\ \A k \in DOMAIN mem :
       /\ mem[k] \in [until : Nat, n : Nat]
       /\ mem[k].until <= clock + Lifetime(k)

ThreadTypes ==
  /\ clock \in 0..MaxTime
  /\ todo \in [Thread -> Seq(Section)]
  /\ since \in [Thread -> 0..MaxTime]
  /\ \A t \in Thread : since[t] <= clock

TypeOK ==
  /\ EntryTypes
  /\ ThreadTypes
  /\ seen \in [Thread -> [sum : Nat, count : Nat]]
  /\ calls \in 0..MaxCalls
  /\ longest \in Nat
  /\ lapsed \in BOOLEAN

\* _mem_set "evicts by soonest expiry once the cap is reached": an entry whose
\* time has not come is lost only to a delete, to a restart, or to a new item
\* while Cap entries are there, and then all that stay outlive it.  So a counter
\* is lost to make room only when it has been idle for so long that it expires
\* within the time to live of every item that stays.
EvictsSoonest ==
  [][\A k \in DOMAIN mem \ DOMAIN mem' :
       mem[k].until > clock =>
         \/ Delete(k) \/ Restart
         \/ /\ Cardinality(DOMAIN mem) >= Cap
            /\ \A j \in DOMAIN mem \cap DOMAIN mem' :
                 mem[j].until > clock =>
                   /\ mem[k].until <= mem[j].until
                   /\ mem[k].until <= clock + Lifetime(j)]_vars

\* The average duration that GET /admin/metrics shows is never above the longest
\* duration recorded: the count is written before the sum and read after it, so
\* an unfinished recording can only lower the average.  Not so once the count
\* has lapsed or was evicted, which the sum may survive.
AverageHonest ==
  lapsed \/ \A t \in Thread :
    seen[t].count > 0 => seen[t].sum <= longest * seen[t].count
=============================================================================
