------------------------------ MODULE JobSystem ------------------------------
(***************************************************************************)
(* Asynchronous optimization jobs: the API handler that accepts a job      *)
(* (routers/jobs.py), the job store it shares with the workers             *)
(* (services/job_service.py), the task a worker runs (workers/tasks.py),   *)
(* the dead letter queue (services/dlq_service.py) and the two operator    *)
(* endpoints over it (routers/sre.py).                                     *)
(*                                                                         *)
(* Every cache call is one atomic action; nothing else is.  An update of a *)
(* job is a read followed by a write of the whole entry, so two runs of    *)
(* one job, or a run and an operator, can overwrite each other.            *)
(***************************************************************************)
EXTENDS Naturals, Sequences

CONSTANTS
  Job,         \* job ids (uuid4)
  Key,         \* values of the Idempotency-Key header
  Request,     \* POST /api/v1/jobs/optimize calls, each a thread of the API
  Worker,      \* RQ worker processes
  None,        \* absence: no header, no cache entry, Python's None
  HasRedis,    \* settings.has_redis: RQ and a shared store, or one process
  MaxRetries,  \* settings.dlq_max_retries
  Faults,      \* which kinds of fault the environment may inject
  MaxFaults    \* bound: how many of them in one behaviour

Status  == {"queued", "running", "completed", "failed", "dead"}
Settled == {"completed", "failed", "dead"}
Entry   == [status : Status, retries : Nat, result : BOOLEAN]

ASSUME JobAssumption ==
  /\ MaxRetries \in Nat \ {0}
  /\ MaxFaults \in Nat
  /\ HasRedis \in BOOLEAN
  /\ Faults \subseteq {"cache", "crash", "enqueue", "expiry", "timeout"}
  /\ None \notin Job \cup Key \cup Entry
  /\ Request \cap Worker = {}

\* A BackgroundTasks run executes in the thread of the request that added it.
Runner == Worker \cup Request

VARIABLES
  store,     \* job:<id>          the entry, or None
  idem,      \* idempotency:<key> the job id remembered for the key, or None
  dlq,       \* dlq:job:<id>      the snapshot, or None
  listed,    \* dlq:index         the ids in it
  queue,     \* the RQ queue
  req,       \* the API threads
  task,      \* the runs in progress, one per runner
  admin,     \* the operator's POST .../retry or DELETE .../dlq/{id}
  issued,    \* history: ids handed out by uuid4
  failures,  \* history: failed runs of each job
  saved,     \* history: jobs a portfolio row was saved for
  excused,   \* history: jobs a fault or the operator may leave to nobody
  faults     \* how many faults happened

history == <<issued, failures, saved>>
vars == <<store, idem, dlq, listed, queue, req, task, admin, issued,
          failures, saved, excused, faults>>

NewEntry == [status |-> "queued", retries |-> 0, result |-> FALSE]
Idle     == [pc |-> "idle", job |-> None, copy |-> None, count |-> 0,
             snap |-> None]
Started(j) == [Idle EXCEPT !.pc = "start", !.job = j]
NewRequest == [pc |-> "new", key |-> None, job |-> None]
NoAdmin    == [pc |-> "idle", job |-> None, snap |-> None]

Init ==
  /\ store = [j \in Job |-> None]
  /\ idem = [k \in Key |-> None]
  /\ dlq = [j \in Job |-> None]
  /\ listed = {}
  /\ queue = << >>
  /\ req = [r \in Request |-> NewRequest]
  /\ task = [x \in Runner |-> Idle]
  /\ admin = NoAdmin
  /\ issued = {}
  /\ failures = [j \in Job |-> 0]
  /\ saved = {}
  /\ excused = {}
  /\ faults = 0

-----------------------------------------------------------------------------
(* Faults.  A cache call that meets a Redis error is swallowed by           *)
(* CacheService: a read answers None, a write or a delete does nothing.     *)
(* The in-process store used without Redis cannot fail.                     *)

Fault(kind) ==
  /\ kind \in Faults
  /\ faults < MaxFaults
  /\ faults' = faults + 1

Answer == {"ok", "error"}

Cache(a) ==
  \/ a = "ok" /\ UNCHANGED faults
  \/ a = "error" /\ HasRedis /\ Fault("cache")

Got(a, value) == IF a = "ok" THEN value ELSE None

Become(x, t) == task' = [task EXCEPT ![x] = t]

Excuse(a, j) == excused' = IF a = "ok" THEN excused ELSE excused \cup {j}

-----------------------------------------------------------------------------
(* The API thread: queue_optimize, JobService.create and _enqueue.          *)

Submit(r) ==
  /\ req[r].pc = "new"
  /\ \E k \in Key \cup {None} :
       req' = [req EXCEPT ![r].key = k,
                          ![r].pc = IF k = None THEN "create" ELSE "lookup"]
  /\ UNCHANGED <<store, idem, dlq, listed, queue, task, admin, history,
                 excused, faults>>

\* cache.get("idempotency:<key>")
Lookup(r, a) ==
  /\ req[r].pc = "lookup"
  /\ Cache(a)
  /\ LET hit == Got(a, idem[req[r].key]) IN
       req' = [req EXCEPT ![r].job = hit,
                          ![r].pc = IF hit = None THEN "create" ELSE "check"]
  /\ UNCHANGED <<store, idem, dlq, listed, queue, task, admin, history,
                 excused>>

\* The remembered job is returned if its entry still exists; the handler
\* enqueues it again when the entry it read says "queued".
Check(r, a) ==
  /\ req[r].pc = "check"
  /\ Cache(a)
  /\ LET e == Got(a, store[req[r].job]) IN
       req' = IF e = None
                THEN [req EXCEPT ![r].job = None, ![r].pc = "create"]
                ELSE [req EXCEPT ![r].pc = IF e.status = "queued"
                                             THEN "enqueue" ELSE "done"]
  /\ UNCHANGED <<store, idem, dlq, listed, queue, task, admin, history,
                 excused>>

Create(r, a) ==
  /\ req[r].pc = "create"
  /\ Cache(a)
  /\ \E j \in Job \ issued :
       /\ issued' = issued \cup {j}
       /\ store' = IF a = "ok" THEN [store EXCEPT ![j] = NewEntry] ELSE store
       /\ req' = [req EXCEPT ![r].job = j,
                             ![r].pc = IF req[r].key = None
                                         THEN "enqueue" ELSE "remember"]
  /\ UNCHANGED <<idem, dlq, listed, queue, task, admin, failures, saved,
                 excused>>

Remember(r, a) ==
  /\ req[r].pc = "remember"
  /\ Cache(a)
  /\ idem' = IF a = "ok" THEN [idem EXCEPT ![req[r].key] = req[r].job] ELSE idem
  /\ req' = [req EXCEPT ![r].pc = "enqueue"]
  /\ UNCHANGED <<store, dlq, listed, queue, task, admin, history, excused>>

EnqueueRq(r) ==
  /\ req[r].pc = "enqueue"
  /\ HasRedis
  /\ queue' = Append(queue, req[r].job)
  /\ req' = [req EXCEPT ![r].pc = "done"]
  /\ UNCHANGED <<store, idem, dlq, listed, task, admin, history, excused,
                 faults>>

\* Mutant: the fallback answers 202 but never adds the background task.
EnqueueLocalDropsTask(r) ==
  /\ req[r].pc = "enqueue"
  /\ ~HasRedis
  /\ req' = [req EXCEPT ![r].pc = "done"]
  /\ UNCHANGED <<store, idem, dlq, listed, queue, task, admin, history,
                 excused, faults>>

\* q.enqueue raised, or there is no Redis: the run goes to BackgroundTasks.
\* An enqueue whose answer is lost has landed on the queue as well.
EnqueueLocal(r) ==
  /\ req[r].pc = "enqueue"
  /\ \/ ~HasRedis /\ UNCHANGED <<queue, faults>>
     \/ /\ HasRedis
        /\ Fault("enqueue")
        /\ queue' \in {queue, Append(queue, req[r].job)}
  /\ Become(r, Started(req[r].job))
  /\ req' = [req EXCEPT ![r].pc = "done"]
  /\ UNCHANGED <<store, idem, dlq, listed, admin, history, excused>>

RequestStep(r) ==
  \/ Submit(r)
  \/ \E a \in Answer : Lookup(r, a) \/ Check(r, a) \/ Create(r, a)
                           \/ Remember(r, a)
  \/ EnqueueRq(r)
  \/ EnqueueLocal(r)

-----------------------------------------------------------------------------
(* A run: run_optimize_task.  Its pc names the next call it makes; the      *)
(* -ing pcs sit between the read and the write of JobService._update.       *)

ReadPc  == {"start", "complete", "recount", "fail", "bury"}
WritePc == {"starting", "completing", "requeueing", "failing", "burying"}

Updating(pc) ==
  CASE pc = "start"    -> "starting"
    [] pc = "complete" -> "completing"
    [] pc = "recount"  -> "requeueing"
    [] pc = "fail"     -> "failing"
    [] pc = "bury"     -> "burying"

Take(w) ==
  /\ task[w].pc = "idle"
  /\ HasRedis
  /\ queue # << >>
  /\ Become(w, Started(Head(queue)))
  /\ queue' = Tail(queue)
  /\ UNCHANGED <<store, idem, dlq, listed, req, admin, history, excused,
                 faults>>

\* JobService._update, first half: job = self.get(job_id)
Read(x, a) ==
  /\ task[x].pc \in ReadPc
  /\ Cache(a)
  /\ Become(x, [task[x] EXCEPT !.pc = Updating(task[x].pc),
                               !.copy = Got(a, store[task[x].job])])
  /\ Excuse(a, task[x].job)
  /\ UNCHANGED <<store, idem, dlq, listed, queue, req, admin, history>>

\* Mutant: mark_completed forgets the result.
UpdatedNoResult(t) ==
  CASE t.pc = "starting"   -> [t.copy EXCEPT !.status = "running"]
    [] t.pc = "completing" -> [t.copy EXCEPT !.status = "completed"]
    [] t.pc = "requeueing" -> [t.copy EXCEPT !.status = "queued",
                                             !.retries = t.count]
    [] t.pc = "failing"    -> [t.copy EXCEPT !.status = "failed"]
    [] t.pc = "burying"    -> [t.copy EXCEPT !.status = "dead"]

\* What each caller of _update puts over the entry it read.
Updated(t) ==
  CASE t.pc = "starting"   -> [t.copy EXCEPT !.status = "running"]
    [] t.pc = "completing" -> [t.copy EXCEPT !.status = "completed",
                                             !.result = TRUE]
    [] t.pc = "requeueing" -> [t.copy EXCEPT !.status = "queued",
                                             !.retries = t.count]
    [] t.pc = "failing"    -> [t.copy EXCEPT !.status = "failed"]
    [] t.pc = "burying"    -> [t.copy EXCEPT !.status = "dead"]

\* Mutants of the control flow after an update: a failure below the limit is
\* never marked failed; the limit is one too low; the dead job is not pushed.
OnwardForgetsFailed(t) ==
  IF t.pc = "requeueing" THEN Idle ELSE [t EXCEPT !.copy = None, !.pc = "run"]
OnwardOffByOne(t) ==
  [t EXCEPT !.copy = None,
            !.pc = CASE t.pc = "starting" -> "run"
                     [] t.pc = "requeueing" ->
                          IF t.count + 1 >= MaxRetries THEN "inspect" ELSE "fail"
                     [] t.pc = "burying" -> "push"
                     [] OTHER -> "return"]
OnwardSkipsPush(t) ==
  [t EXCEPT !.copy = None,
            !.pc = CASE t.pc = "starting" -> "run"
                     [] t.pc = "requeueing" ->
                          IF t.count >= MaxRetries THEN "inspect" ELSE "fail"
                     [] OTHER -> "return"]

\* What run_optimize_task does after that update.
Onward(t) ==
  CASE t.pc = "starting"   -> [t EXCEPT !.copy = None, !.pc = "run"]
    [] t.pc = "completing" -> [t EXCEPT !.copy = None, !.pc = "return"]
    [] t.pc = "requeueing" -> [t EXCEPT !.copy = None,
                                 !.pc = IF t.count >= MaxRetries
                                          THEN "inspect" ELSE "fail"]
    [] t.pc = "failing"    -> Idle
    [] t.pc = "burying"    -> [t EXCEPT !.copy = None, !.pc = "push"]

\* JobService._update, second half: a write, or nothing if the read missed.
Write(x, a) ==
  LET t == task[x] IN
  /\ t.pc \in WritePc
  /\ Cache(a)
  /\ store' = IF a = "ok" /\ t.copy # None
                THEN [store EXCEPT ![t.job] = Updated(t)] ELSE store
  /\ Become(x, Onward(t))
  /\ Excuse(a, t.job)
  /\ UNCHANGED <<idem, dlq, listed, queue, req, admin, history>>

\* PortfolioService().optimize saves the portfolio and returns.
Optimize(x) ==
  /\ task[x].pc = "run"
  /\ saved' = saved \cup {task[x].job}
  /\ Become(x, [task[x] EXCEPT !.pc = "complete"])
  /\ UNCHANGED <<store, idem, dlq, listed, queue, req, admin, issued,
                 failures, excused, faults>>

\* It raises, before or after the row was saved.
OptimizeRaises(x) ==
  /\ task[x].pc = "run"
  /\ saved' \in {saved, saved \cup {task[x].job}}
  /\ Become(x, [task[x] EXCEPT !.pc = "count"])
  /\ UNCHANGED <<store, idem, dlq, listed, queue, req, admin, issued,
                 failures, excused, faults>>

\* RQ's job_timeout raises in the worker wherever the run happens to be.  In
\* the try block it is caught: the except branch counts one more failure.
\* During the optimization this is one more OptimizeRaises; inside a cache call
\* CacheService swallows it like an error of Redis.
Timeout(x) ==
  /\ x \in Worker
  /\ task[x].pc \in {"complete", "completing", "return"}
  /\ Fault("timeout")
  /\ Become(x, [task[x] EXCEPT !.pc = "count", !.copy = None])
  /\ UNCHANGED <<store, idem, dlq, listed, queue, req, admin, history,
                 excused>>

\* Before the try (mark_running and the lines up to it) and in the except branch
\* nothing catches it: the run ends and leaves the job as it stands, queued,
\* running or dead, with nobody to go on.  RQ is given no retry policy.
TimeoutUncaught(x) ==
  /\ x \in Worker
  /\ task[x].pc \notin {"idle", "complete", "completing", "return"}
  /\ Fault("timeout")
  /\ Become(x, Idle)
  /\ excused' = excused \cup {task[x].job}
  /\ UNCHANGED <<store, idem, dlq, listed, queue, req, admin, history>>

Return(x) ==
  /\ task[x].pc = "return"
  /\ Become(x, Idle)
  /\ UNCHANGED <<store, idem, dlq, listed, queue, req, admin, history,
                 excused, faults>>

\* increment_retry's own read, before the one of its _update: a missing
\* entry counts 0 and the job is marked failed.
Count(x, a) ==
  /\ task[x].pc = "count"
  /\ Cache(a)
  /\ LET j == task[x].job
         e == Got(a, store[j]) IN
       /\ failures' = [failures EXCEPT ![j] = @ + 1]
       /\ Become(x, IF e = None
                      THEN [task[x] EXCEPT !.pc = "fail"]
                      ELSE [task[x] EXCEPT !.pc = "recount",
                                           !.count = e.retries + 1])
       /\ Excuse(a, j)
  /\ UNCHANGED <<store, idem, dlq, listed, queue, req, admin, issued, saved>>

\* Mutant: the snapshot is not checked before the job is buried.
InspectUnchecked(x, a) ==
  /\ task[x].pc = "inspect"
  /\ Cache(a)
  /\ Become(x, [task[x] EXCEPT !.pc = "bury",
                               !.snap = Got(a, store[task[x].job])])
  /\ Excuse(a, task[x].job)
  /\ UNCHANGED <<store, idem, dlq, listed, queue, req, admin, history>>

\* job = job_service.get(job_id), the snapshot for the dead letter queue.
Inspect(x, a) ==
  /\ task[x].pc = "inspect"
  /\ Cache(a)
  /\ LET e == Got(a, store[task[x].job]) IN
       Become(x, IF e = None THEN Idle
                             ELSE [task[x] EXCEPT !.pc = "bury", !.snap = e])
  /\ Excuse(a, task[x].job)
  /\ UNCHANGED <<store, idem, dlq, listed, queue, req, admin, history>>

\* dlq.push: the snapshot, then the index.
Push(x, a) ==
  /\ task[x].pc = "push"
  /\ Cache(a)
  /\ dlq' = IF a = "ok" THEN [dlq EXCEPT ![task[x].job] = task[x].snap] ELSE dlq
  /\ Become(x, [task[x] EXCEPT !.pc = "list"])
  /\ Excuse(a, task[x].job)
  /\ UNCHANGED <<store, idem, listed, queue, req, admin, history>>

\* LPUSH: a client is made for the call, and none without Redis.
PushIndex(x, a) ==
  /\ task[x].pc = "list"
  /\ Cache(a)
  /\ listed' = IF a = "ok" /\ HasRedis THEN listed \cup {task[x].job} ELSE listed
  /\ Become(x, Idle)
  /\ Excuse(a, task[x].job)
  /\ UNCHANGED <<store, idem, dlq, queue, req, admin, history>>

TaskStep(x) ==
  \/ \E a \in Answer : \/ Read(x, a) \/ Write(x, a) \/ Count(x, a)
                         \/ Inspect(x, a) \/ Push(x, a) \/ PushIndex(x, a)
  \/ Optimize(x) \/ OptimizeRaises(x) \/ Return(x)

-----------------------------------------------------------------------------
(* The operator: inspect_dlq, which shows ListJobs, retry_dlq_job and       *)
(* discard_dlq_job.  None of them enqueues.                                 *)

\* LRANGE; the in-process store keeps no index.
Index == IF HasRedis THEN listed ELSE {}

\* The indexed jobs whose snapshot is still there.
ListJobs == {j \in Index : dlq[j] # None}

AdminOpen(j) ==
  /\ admin.pc = "idle"
  /\ dlq[j] # None
  /\ \E next \in {"restore", "remove"} :
       admin' = [pc |-> next, job |-> j, snap |-> dlq[j]]
  /\ UNCHANGED <<store, idem, dlq, listed, queue, req, task, history,
                 excused, faults>>

AdminRestore(a) ==
  /\ admin.pc = "restore"
  /\ Cache(a)
  /\ store' = IF a = "ok"
                THEN [store EXCEPT ![admin.job] =
                        [admin.snap EXCEPT !.status = "queued", !.retries = 0]]
                ELSE store
  /\ admin' = [admin EXCEPT !.pc = "remove"]
  /\ excused' = excused \cup {admin.job}
  /\ UNCHANGED <<idem, dlq, listed, queue, req, task, history>>

AdminRemove(a) ==
  /\ admin.pc = "remove"
  /\ Cache(a)
  /\ dlq' = IF a = "ok" THEN [dlq EXCEPT ![admin.job] = None] ELSE dlq
  /\ admin' = [admin EXCEPT !.pc = "unlist"]
  /\ excused' = excused \cup {admin.job}
  /\ UNCHANGED <<store, idem, listed, queue, req, task, history>>

AdminUnlist(a) ==
  /\ admin.pc = "unlist"
  /\ Cache(a)
  /\ listed' = IF a = "ok" THEN listed \ {admin.job} ELSE listed
  /\ admin' = NoAdmin
  /\ UNCHANGED <<store, idem, dlq, queue, req, task, history, excused>>

AdminStep ==
  \/ \E j \in Job : AdminOpen(j)
  \/ \E a \in Answer : AdminRestore(a) \/ AdminRemove(a) \/ AdminUnlist(a)

-----------------------------------------------------------------------------
(* The environment: time to live, crashes, restarts.                        *)

\* A key's time to live ends, or the in-process store evicts it at its cap.
ExpireJob(j) ==
  /\ store[j] # None
  /\ Fault("expiry")
  /\ store' = [store EXCEPT ![j] = None]
  /\ UNCHANGED <<idem, dlq, listed, queue, req, task, admin, history, excused>>

ExpireKey(k) ==
  /\ idem[k] # None
  /\ Fault("expiry")
  /\ idem' = [idem EXCEPT ![k] = None]
  /\ UNCHANGED <<store, dlq, listed, queue, req, task, admin, history, excused>>

ExpireSnapshot(j) ==
  /\ dlq[j] # None
  /\ Fault("expiry")
  /\ dlq' = [dlq EXCEPT ![j] = None]
  /\ excused' = excused \cup {j}
  /\ UNCHANGED <<store, idem, listed, queue, req, task, admin, history>>

\* A worker, or the thread running a BackgroundTask, dies in mid-run.  RQ is
\* given no retry policy, so the taken job is not delivered again.
CrashTask(x) ==
  /\ HasRedis
  /\ task[x].pc # "idle"
  /\ Fault("crash")
  /\ Become(x, Idle)
  /\ excused' = excused \cup {task[x].job}
  /\ UNCHANGED <<store, idem, dlq, listed, queue, req, admin, history>>

\* An API process dies with the request unanswered.
CrashRequest(r) ==
  /\ HasRedis
  /\ req[r].pc \notin {"new", "done", "lost"}
  /\ Fault("crash")
  /\ req' = [req EXCEPT ![r].pc = "lost"]
  /\ excused' = IF req[r].job = None THEN excused
                                     ELSE excused \cup {req[r].job}
  /\ UNCHANGED <<store, idem, dlq, listed, queue, task, admin, history>>

\* Without Redis the API process is everything: the in-process store, the
\* BackgroundTasks and the requests in flight are gone together.
Restart ==
  /\ ~HasRedis
  /\ Fault("crash")
  /\ store' = [j \in Job |-> None]
  /\ idem' = [k \in Key |-> None]
  /\ dlq' = [j \in Job |-> None]
  /\ task' = [x \in Runner |-> Idle]
  /\ req' = [r \in Request |-> IF req[r].pc \in {"new", "done"} THEN req[r]
                               ELSE [req[r] EXCEPT !.pc = "lost"]]
  /\ admin' = NoAdmin
  /\ UNCHANGED <<listed, queue, history, excused>>

Environment ==
  \/ \E j \in Job : ExpireJob(j) \/ ExpireSnapshot(j)
  \/ \E k \in Key : ExpireKey(k)
  \/ \E x \in Runner : CrashTask(x) \/ Timeout(x) \/ TimeoutUncaught(x)
  \/ \E r \in Request : CrashRequest(r)
  \/ Restart

Next ==
  \/ \E r \in Request : RequestStep(r)
  \/ \E w \in Worker : Take(w)
  \/ \E x \in Runner : TaskStep(x)
  \/ AdminStep
  \/ Environment

\* Threads and workers are scheduled; clients, operators and faults are not
\* obliged to act.
Fairness ==
  /\ \A r \in Request : WF_vars(req[r].pc # "new" /\ RequestStep(r))
  /\ \A w \in Worker : WF_vars(Take(w))
  /\ \A x \in Runner : WF_vars(TaskStep(x))

Spec == Init /\ [][Next]_vars /\ Fairness

-----------------------------------------------------------------------------
(* Properties.                                                              *)

TaskPc == {"idle", "start", "starting", "run", "complete", "completing",
           "return", "count", "recount", "requeueing", "inspect", "fail",
           "failing", "bury", "burying", "push", "list"}

RequestPc == {"new", "lookup", "check", "create", "remember", "enqueue", "done",
              "lost"}

Task     == [pc : TaskPc, job : Job \cup {None}, copy : Entry \cup {None},
             count : Nat, snap : Entry \cup {None}]
Handler  == [pc : RequestPc, key : Key \cup {None}, job : Job \cup {None}]
Operator == [pc : {"idle", "restore", "remove", "unlist"},
             job : Job \cup {None}, snap : Entry \cup {None}]

StoreTypes ==
  /\ store \in [Job -> Entry \cup {None}]
  /\ idem \in [Key -> Job \cup {None}]
  /\ dlq \in [Job -> Entry \cup {None}]
  /\ listed \subseteq Job
  /\ queue \in Seq(Job)

RequestTypes ==
  /\ req \in [Request -> Handler]
  /\ \A r \in Request :
       /\ req[r].pc \in {"check", "remember", "enqueue", "done"}
            => req[r].job \in Job
       /\ req[r].pc \in {"lookup", "check", "remember"} => req[r].key \in Key

TaskTypes ==
  /\ task \in [Runner -> Task]
  /\ \A x \in Runner :
       /\ task[x].pc # "idle" => task[x].job \in Job
       /\ task[x].pc \in {"bury", "burying", "push"} => task[x].snap \in Entry

AdminTypes ==
  /\ admin \in Operator
  /\ admin.pc # "idle" => admin.job \in Job /\ admin.snap \in Entry

HistoryTypes ==
  /\ issued \subseteq Job
  /\ failures \in [Job -> Nat]
  /\ saved \subseteq Job
  /\ excused \subseteq Job
  /\ faults \in Nat

\* Every variable stays in its type, and each thread of control holds the job,
\* the key and the snapshot that its next step needs.
TypeOK ==
  /\ StoreTypes
  /\ RequestTypes
  /\ TaskTypes
  /\ AdminTypes
  /\ HistoryTypes

InQueue(j) == \E i \in 1..Len(queue) : queue[i] = j

\* A run is finished with its job once the write that settles it is done, or
\* will not happen because the entry was missing when it looked.
Pending(t) ==
  /\ t.pc \notin {"idle", "return", "push", "list"}
  /\ t.pc \in {"completing", "failing", "burying"} => t.copy # None

Outstanding(j) ==
  \/ InQueue(j)
  \/ \E r \in Request : req[r].job = j /\ req[r].pc \in {"remember", "enqueue"}
  \/ \E x \in Runner : task[x].job = j /\ Pending(task[x])

\* A job a poller sees as queued or running is still owned by somebody who
\* will settle it: a queue entry, a handler about to enqueue it, or a run
\* that has not made its last update.  Duplicate deliveries of one job, the
\* lost updates of _update and a job_timeout in the try block do not strand it.
\* What does is in excused: a crash, a cache error, a job_timeout that strikes
\* in mark_running or in the except branch, and the operator's retry, which
\* enqueues nothing.
NoStuckJob ==
  \A j \in Job :
    (store[j] # None /\ store[j].status \notin Settled /\ j \notin excused)
      => Outstanding(j)

\* No retry_count, wherever a copy of it is kept, exceeds the failed runs of
\* the job, and a job is marked dead or dead-lettered only after
\* dlq_max_retries of its runs failed, stale copies, concurrent failures
\* and restored snapshots included.
DeadLetterEarned ==
  \A j \in Job :
    /\ store[j] # None => /\ store[j].retries <= failures[j]
                          /\ store[j].status = "dead"
                               => failures[j] >= MaxRetries
    /\ dlq[j] # None => /\ dlq[j].retries <= failures[j]
                        /\ failures[j] >= MaxRetries

\* A poller that is told "completed" is given a result, and a result, even
\* one that survives in a later failed entry or in a dead-letter snapshot, is
\* that of a run which saved its portfolio.
CompletedIsBacked ==
  \A j \in Job :
    /\ store[j] # None => /\ store[j].status = "completed" => store[j].result
                          /\ store[j].result => j \in saved
    /\ (dlq[j] # None /\ dlq[j].result) => j \in saved

\* A job marked dead can be inspected: its snapshot is in the dead letter
\* queue and, with Redis, in the listing the operator is shown, or the run
\* that marked it is about to put it there.  Other runs of the job and timeouts
\* in their try blocks do not change that; a run that is cut short between
\* mark_dead and the end of push (by a crash or a job_timeout) excuses its job.
DeadIsInspectable ==
  \A j \in Job :
    (store[j] # None /\ store[j].status = "dead" /\ j \notin excused)
      => \/ dlq[j] # None /\ (HasRedis => j \in ListJobs)
         \/ \E x \in Runner : task[x].job = j /\ task[x].pc \in {"push", "list"}
=============================================================================
