--------------------------- MODULE JobSystemProofs ---------------------------
(***************************************************************************)
(* Machine-checked proofs about JobSystem, for every set of jobs, keys,    *)
(* requests and workers, with or without Redis, and for every bound.       *)
(* Each lemma follows one group of variables: its last step but one names  *)
(* the actions that touch the group, the steps before take them in turn.   *)
(***************************************************************************)
EXTENDS JobRefinement, TLAPS

USE DEF history

-----------------------------------------------------------------------------
(* Type correctness.                                                        *)

\* What the steps of each actor leave alone.
LEMMA RequestFrame ==
  ASSUME NEW r \in Request, RequestStep(r)
  PROVE  UNCHANGED <<dlq, listed, admin, failures, saved, excused>>
BY DEF RequestStep, Submit, Lookup, Check, Create, Remember, EnqueueRq,
       EnqueueLocal

LEMMA TakeFrame ==
  ASSUME NEW w \in Worker, Take(w)
  PROVE  UNCHANGED <<store, idem, dlq, listed, req, admin, issued, failures,
                     saved, excused, faults>>
BY DEF Take

LEMMA TaskFrame ==
  ASSUME NEW x \in Runner, TaskStep(x)
  PROVE  UNCHANGED <<idem, queue, req, admin, issued>>
BY DEF TaskStep, Read, Write, Count, Inspect, Push, PushIndex, Optimize,
       OptimizeRaises, Return

LEMMA AdminFrame ==
  ASSUME AdminStep
  PROVE  UNCHANGED <<idem, queue, req, task, issued, failures, saved>>
BY DEF AdminStep, AdminOpen, AdminRestore, AdminRemove, AdminUnlist

\* The handler threads keep their types and hold what their next step needs.
LEMMA RequestTypesStep == TypeOK /\ [Next]_vars => RequestTypes'
<1> SUFFICES ASSUME TypeOK, [Next]_vars PROVE RequestTypes'
  OBVIOUS
<1> USE DEF RequestTypes, Handler, RequestPc
<1>1. ASSUME NEW r \in Request, Submit(r) PROVE RequestTypes'
  BY <1>1 DEF Submit, TypeOK
<1>2. ASSUME NEW r \in Request, NEW a \in Answer, Lookup(r, a)
      PROVE  RequestTypes'
  BY <1>2 DEF Lookup, Got, TypeOK, StoreTypes
<1>3. ASSUME NEW r \in Request, NEW a \in Answer, Check(r, a)
      PROVE  RequestTypes'
  BY <1>3 DEF Check, Got, TypeOK, StoreTypes
<1>4. ASSUME NEW r \in Request, NEW a \in Answer, Create(r, a)
      PROVE  RequestTypes'
  BY <1>4 DEF Create, TypeOK
<1>5. ASSUME NEW r \in Request, NEW a \in Answer, Remember(r, a)
      PROVE  RequestTypes'
  BY <1>5 DEF Remember, TypeOK
<1>6. ASSUME NEW r \in Request, EnqueueRq(r) \/ EnqueueLocal(r)
      PROVE  RequestTypes'
  BY <1>6 DEF EnqueueRq, EnqueueLocal, TypeOK
<1>7. CASE UNCHANGED req
  BY <1>7 DEF TypeOK
<1>8. CASE Environment
  <2>1. ASSUME NEW r \in Request, CrashRequest(r) PROVE RequestTypes'
    BY <2>1 DEF CrashRequest, TypeOK
  <2>2. CASE Restart
    BY <2>2 DEF Restart, TypeOK
  <2>3. UNCHANGED req \/ Restart \/ \E r \in Request : CrashRequest(r)
    BY <1>8 DEF Environment, ExpireJob, ExpireKey, ExpireSnapshot, CrashTask,
                Timeout, TimeoutUncaught
  <2> QED
    BY <2>1, <2>2, <2>3, <1>7
<1> QED
  BY <1>1, <1>2, <1>3, <1>4, <1>5, <1>6, <1>7, <1>8, TakeFrame, TaskFrame,
     AdminFrame DEF Next, RequestStep, vars

\* Every write to the store, the keys, the dead letter queue and the RQ queue
\* writes a value of the right kind.
LEMMA StoreTypesStep == TypeOK /\ [Next]_vars => StoreTypes'
<1> SUFFICES ASSUME TypeOK, [Next]_vars PROVE StoreTypes'
  OBVIOUS
<1> USE DEF StoreTypes
<1>1. ASSUME NEW r \in Request, RequestStep(r) PROVE StoreTypes'
  <2>1. ASSUME NEW a \in Answer, Create(r, a) PROVE StoreTypes'
    BY <2>1 DEF Create, TypeOK, NewEntry, Entry, Status
  <2>2. ASSUME NEW a \in Answer, Remember(r, a) PROVE StoreTypes'
    BY <2>2 DEF Remember, TypeOK, RequestTypes
  <2>3. CASE EnqueueRq(r)
    BY <2>3 DEF EnqueueRq, TypeOK, RequestTypes
  <2>4. CASE EnqueueLocal(r)
    <3>1. req[r].job \in Job
      BY <2>4 DEF EnqueueLocal, TypeOK, RequestTypes
    <3> QED
      BY <2>4, <3>1 DEF EnqueueLocal, TypeOK
  <2>5. ASSUME NEW a \in Answer, Submit(r) \/ Lookup(r, a) \/ Check(r, a)
        PROVE  StoreTypes'
    BY <2>5 DEF Submit, Lookup, Check, TypeOK
  <2> QED
    BY <1>1, <2>1, <2>2, <2>3, <2>4, <2>5 DEF RequestStep, Answer
<1>2. ASSUME NEW w \in Worker, Take(w) PROVE StoreTypes'
  BY <1>2 DEF Take, TypeOK
<1>3. ASSUME NEW x \in Runner, TaskStep(x) PROVE StoreTypes'
  <2>1. ASSUME NEW a \in Answer, Write(x, a) PROVE StoreTypes'
    <3>1. task[x].job \in Job /\ task[x].count \in Nat
            /\ (task[x].copy # None => task[x].copy \in Entry)
      BY <2>1 DEF Write, WritePc, TypeOK, TaskTypes, Task
    <3>2. task[x].copy # None => Updated(task[x]) \in Entry
      BY <2>1, <3>1 DEF Write, WritePc, Updated, Entry, Status
    <3> QED
      BY <2>1, <3>1, <3>2 DEF Write, TypeOK
  <2>2. ASSUME NEW a \in Answer, Push(x, a) \/ PushIndex(x, a)
        PROVE  StoreTypes'
    BY <2>2 DEF Push, PushIndex, TypeOK, TaskTypes
  <2>3. ASSUME NEW a \in Answer, Read(x, a) \/ Count(x, a) \/ Inspect(x, a)
        PROVE  StoreTypes'
    BY <2>3 DEF Read, Count, Inspect, TypeOK
  <2>4. CASE Optimize(x) \/ OptimizeRaises(x) \/ Return(x)
    BY <2>4 DEF Optimize, OptimizeRaises, Return, TypeOK
  <2> QED
    BY <1>3, <2>1, <2>2, <2>3, <2>4 DEF TaskStep
<1>4. CASE AdminStep
  <2>1. ASSUME NEW a \in Answer, AdminRestore(a) PROVE StoreTypes'
    <3>1. [admin.snap EXCEPT !.status = "queued", !.retries = 0] \in Entry
      BY <2>1 DEF AdminRestore, TypeOK, AdminTypes, Entry, Status
    <3> QED
      BY <2>1, <3>1 DEF AdminRestore, TypeOK
  <2>2. ASSUME NEW a \in Answer, AdminRemove(a) \/ AdminUnlist(a)
        PROVE  StoreTypes'
    BY <2>2 DEF AdminRemove, AdminUnlist, TypeOK
  <2>3. ASSUME NEW j \in Job, AdminOpen(j) PROVE StoreTypes'
    BY <2>3 DEF AdminOpen, TypeOK
  <2> QED
    BY <1>4, <2>1, <2>2, <2>3 DEF AdminStep
<1>5. CASE Environment
  BY <1>5 DEF Environment, ExpireJob, ExpireKey, ExpireSnapshot, CrashTask,
              CrashRequest, Timeout, TimeoutUncaught, Restart, TypeOK
<1>6. CASE UNCHANGED vars
  BY <1>6 DEF vars, TypeOK
<1> QED
  BY <1>1, <1>2, <1>3, <1>4, <1>5, <1>6 DEF Next

\* A run always has a job, and a snapshot from the moment it reads one until
\* it is pushed.
LEMMA TaskTypesStep == TypeOK /\ [Next]_vars => TaskTypes'
<1> SUFFICES ASSUME TypeOK, [Next]_vars PROVE TaskTypes'
  OBVIOUS
<1> DEFINE Good(t) ==
      /\ t \in Task
      /\ t.pc # "idle" => t.job \in Job
      /\ t.pc \in {"bury", "burying", "push"} => t.snap \in Entry
<1>1. ASSUME NEW x \in Runner, NEW t, Good(t), Become(x, t) PROVE TaskTypes'
  BY <1>1 DEF Become, TypeOK, TaskTypes
<1>2. \A x \in Runner : Good(task[x])
  BY DEF TypeOK, TaskTypes
<1>3. Good(Idle) /\ \A j \in Job : Good(Started(j))
  BY DEF Idle, Started, Task, TaskPc
<1>4. ASSUME NEW r \in Request, EnqueueLocal(r) PROVE TaskTypes'
  <2>1. req[r].job \in Job
    BY <1>4 DEF EnqueueLocal, TypeOK, RequestTypes
  <2> QED
    BY <1>1, <1>3, <1>4, <2>1 DEF EnqueueLocal, Runner
<1>5. ASSUME NEW w \in Worker, Take(w) PROVE TaskTypes'
  <2>1. Head(queue) \in Job
    BY <1>5 DEF Take, TypeOK, StoreTypes
  <2> QED
    BY <1>1, <1>3, <1>5, <2>1 DEF Take, Runner
<1>6. ASSUME NEW x \in Runner, TaskStep(x) PROVE TaskTypes'
  <2> USE <1>2 DEF Task, TaskPc
  <2>1. ASSUME NEW a \in Answer, Read(x, a) PROVE TaskTypes'
    <3>1. Got(a, store[task[x].job]) \in Entry \cup {None}
      BY <2>1 DEF Read, ReadPc, Got, TypeOK, StoreTypes
    <3>2. Good([task[x] EXCEPT !.pc = Updating(task[x].pc),
                               !.copy = Got(a, store[task[x].job])])
      BY <2>1, <3>1 DEF Read, ReadPc, Updating
    <3> QED
      BY <1>1, <2>1, <3>2 DEF Read
  <2>2. ASSUME NEW a \in Answer, Write(x, a) PROVE TaskTypes'
    <3>1. task[x].pc \in WritePc
      BY <2>2 DEF Write
    <3>2. CASE task[x].pc = "failing"
      BY <1>1, <1>3, <2>2, <3>2 DEF Write, Onward
    <3>3. CASE task[x].pc = "requeueing"
      <4>1. Good([task[x] EXCEPT !.copy = None,
                    !.pc = IF task[x].count >= MaxRetries
                             THEN "inspect" ELSE "fail"])
        BY <3>3
      <4> QED
        BY <1>1, <2>2, <3>3, <4>1 DEF Write, Onward
    <3>4. ASSUME NEW pc, Onward(task[x]) = [task[x] EXCEPT !.copy = None, !.pc = pc],
                 \/ task[x].pc = "starting" /\ pc = "run"
                 \/ task[x].pc = "completing" /\ pc = "return"
                 \/ task[x].pc = "burying" /\ pc = "push"
          PROVE  TaskTypes'
      <4>1. Good([task[x] EXCEPT !.copy = None, !.pc = pc])
        BY <3>4
      <4> QED
        BY <1>1, <2>2, <3>4, <4>1 DEF Write
    <3> QED
      BY <3>1, <3>2, <3>3, <3>4 DEF WritePc, Onward
  <2>3. ASSUME NEW a \in Answer, Count(x, a) PROVE TaskTypes'
    <3> DEFINE e == Got(a, store[task[x].job])
    <3>1. e \in Entry \cup {None}
      BY <2>3 DEF Count, Got, TypeOK, StoreTypes
    <3>2. Good([task[x] EXCEPT !.pc = "fail"])
      BY <2>3 DEF Count
    <3>3. \A n \in Nat : Good([task[x] EXCEPT !.pc = "recount", !.count = n])
      BY <2>3 DEF Count
    <3>4. e # None => e.retries + 1 \in Nat
      BY <3>1 DEF Entry
    <3> QED
      BY <1>1, <2>3, <3>2, <3>3, <3>4 DEF Count
  <2>4. ASSUME NEW a \in Answer, Inspect(x, a) PROVE TaskTypes'
    <3> DEFINE e == Got(a, store[task[x].job])
    <3>1. e \in Entry \cup {None}
      BY <2>4 DEF Inspect, Got, TypeOK, StoreTypes
    <3>2. e # None => Good([task[x] EXCEPT !.pc = "bury", !.snap = e])
      BY <2>4, <3>1 DEF Inspect
    <3> QED
      BY <1>1, <1>3, <2>4, <3>2 DEF Inspect
  <2>5. ASSUME NEW a \in Answer, Push(x, a) \/ PushIndex(x, a)
        PROVE  TaskTypes'
    <3>1. task[x].pc = "push" => Good([task[x] EXCEPT !.pc = "list"])
      OBVIOUS
    <3> QED
      BY <1>1, <1>3, <2>5, <3>1 DEF Push, PushIndex
  <2>6. CASE Optimize(x) \/ OptimizeRaises(x) \/ Return(x)
    <3>1. task[x].pc = "run" => /\ Good([task[x] EXCEPT !.pc = "complete"])
                                /\ Good([task[x] EXCEPT !.pc = "count"])
      OBVIOUS
    <3> QED
      BY <1>1, <1>3, <2>6, <3>1 DEF Optimize, OptimizeRaises, Return
  <2> QED
    BY <1>6, <2>1, <2>2, <2>3, <2>4, <2>5, <2>6 DEF TaskStep
<1>7. CASE UNCHANGED task
  BY <1>7 DEF TypeOK, TaskTypes
<1>8. CASE Environment
  <2>1. ASSUME NEW x \in Runner, CrashTask(x) \/ Timeout(x) \/ TimeoutUncaught(x)
        PROVE  TaskTypes'
    <3>1. task[x].pc # "idle"
            => Good([task[x] EXCEPT !.pc = "count", !.copy = None])
      BY <1>2 DEF Task, TaskPc
    <3> QED
      BY <1>1, <1>3, <2>1, <3>1 DEF CrashTask, Timeout, TimeoutUncaught
  <2>2. CASE Restart
    BY <1>3, <2>2 DEF Restart, TaskTypes
  <2>3. \/ UNCHANGED task
        \/ Restart
        \/ \E x \in Runner : CrashTask(x) \/ Timeout(x) \/ TimeoutUncaught(x)
    BY <1>8 DEF Environment, ExpireJob, ExpireKey, ExpireSnapshot,
                CrashRequest
  <2> QED
    BY <1>7, <2>1, <2>2, <2>3
<1>9. ASSUME NEW r \in Request, RequestStep(r), ~EnqueueLocal(r)
      PROVE  UNCHANGED task
  BY <1>9 DEF RequestStep, Submit, Lookup, Check, Create, Remember, EnqueueRq
<1> QED
  BY <1>4, <1>5, <1>6, <1>7, <1>8, <1>9, AdminFrame DEF Next, vars

\* An operator's request in progress has a job and its snapshot.
LEMMA AdminTypesStep == TypeOK /\ [Next]_vars => AdminTypes'
<1> SUFFICES ASSUME TypeOK, [Next]_vars PROVE AdminTypes'
  OBVIOUS
<1> USE DEF AdminTypes, Operator
<1>1. CASE AdminStep
  BY <1>1 DEF AdminStep, AdminOpen, AdminRestore, AdminRemove, AdminUnlist,
              NoAdmin, TypeOK, StoreTypes
<1>2. CASE UNCHANGED admin
  BY <1>2 DEF TypeOK
<1>3. CASE Environment
  <2>1. Restart \/ UNCHANGED admin
    BY <1>3 DEF Environment, ExpireJob, ExpireKey, ExpireSnapshot, CrashTask,
                CrashRequest, Timeout, TimeoutUncaught
  <2> QED
    BY <1>2, <2>1 DEF Restart, NoAdmin
<1> QED
  BY <1>1, <1>2, <1>3, RequestFrame, TakeFrame, TaskFrame DEF Next, vars

\* The history variables keep their types.
LEMMA HistoryTypesStep == TypeOK /\ [Next]_vars => HistoryTypes'
<1> SUFFICES ASSUME TypeOK, [Next]_vars PROVE HistoryTypes'
  OBVIOUS
<1> USE DEF HistoryTypes, Cache, Answer, Fault, Excuse
<1>1. ASSUME NEW r \in Request, RequestStep(r) PROVE HistoryTypes'
  <2>1. faults' \in Nat
    BY <1>1 DEF RequestStep, Submit, Lookup, Check, Create, Remember,
                EnqueueRq, EnqueueLocal, TypeOK
  <2>2. issued' \subseteq Job
    BY <1>1 DEF RequestStep, Submit, Lookup, Check, Create, Remember,
                EnqueueRq, EnqueueLocal, TypeOK
  <2> QED
    BY <1>1, <2>1, <2>2, RequestFrame DEF TypeOK
<1>2. ASSUME NEW w \in Worker, Take(w) PROVE HistoryTypes'
  BY <1>2 DEF Take, TypeOK
<1>3. ASSUME NEW x \in Runner, NEW a \in Answer, Read(x, a) \/ Write(x, a)
      PROVE  HistoryTypes'
  BY <1>3 DEF Read, ReadPc, Write, WritePc, TypeOK, TaskTypes
<1>4. ASSUME NEW x \in Runner, NEW a \in Answer, Count(x, a) \/ Inspect(x, a)
      PROVE  HistoryTypes'
  BY <1>4 DEF Count, Inspect, TypeOK, TaskTypes
<1>5. ASSUME NEW x \in Runner, NEW a \in Answer,
             Push(x, a) \/ PushIndex(x, a)
      PROVE  HistoryTypes'
  BY <1>5 DEF Push, PushIndex, TypeOK, TaskTypes
<1>6. ASSUME NEW x \in Runner, Optimize(x) \/ OptimizeRaises(x) \/ Return(x)
      PROVE  HistoryTypes'
  BY <1>6 DEF Optimize, OptimizeRaises, Return, TypeOK, TaskTypes
<1>7. CASE AdminStep
  BY <1>7 DEF AdminStep, AdminOpen, AdminRestore, AdminRemove, AdminUnlist,
              TypeOK, AdminTypes
<1>8. CASE Environment
  <2>1. ASSUME NEW j \in Job, ExpireJob(j) \/ ExpireSnapshot(j)
        PROVE  HistoryTypes'
    BY <2>1 DEF ExpireJob, ExpireSnapshot, TypeOK
  <2>2. ASSUME NEW x \in Runner, CrashTask(x) \/ Timeout(x) \/ TimeoutUncaught(x)
        PROVE  HistoryTypes'
    BY <2>2 DEF CrashTask, Timeout, TimeoutUncaught, TypeOK, TaskTypes
  <2>3. ASSUME NEW r \in Request, CrashRequest(r) PROVE HistoryTypes'
    BY <2>3 DEF CrashRequest, TypeOK, RequestTypes, Handler
  <2>4. ASSUME NEW k \in Key, ExpireKey(k) \/ Restart PROVE HistoryTypes'
    BY <2>4 DEF ExpireKey, Restart, TypeOK
  <2>5. CASE Restart
    BY <2>5 DEF Restart, TypeOK
  <2> QED
    BY <1>8, <2>1, <2>2, <2>3, <2>4, <2>5 DEF Environment
<1>9. CASE UNCHANGED vars
  BY <1>9 DEF vars, TypeOK
<1> QED
  BY <1>1, <1>2, <1>3, <1>4, <1>5, <1>6, <1>7, <1>8, <1>9 DEF Next, TaskStep

\* Every reachable state of the job system is well formed.
THEOREM TypeCorrect == Spec => []TypeOK
<1>1. Init => TypeOK
  BY DEF Init, TypeOK, StoreTypes, RequestTypes, TaskTypes, AdminTypes,
         HistoryTypes, NewRequest, Idle, NoAdmin, Handler, RequestPc, Task,
         TaskPc, Operator
<1>2. TypeOK /\ [Next]_vars => TypeOK'
  BY RequestTypesStep, StoreTypesStep, TaskTypesStep, AdminTypesStep,
     HistoryTypesStep DEF TypeOK
<1> QED
  BY <1>1, <1>2, PTL DEF Spec

-----------------------------------------------------------------------------
(* What every copy of an entry says is backed by the history of its job.    *)

Sound(e, j, f, s) ==
  e # None => /\ e.retries <= f[j]
              /\ e.result => j \in s

SoundEntry(e, j, f, s) ==
  /\ Sound(e, j, f, s)
  /\ e # None => /\ e.status = "dead" => f[j] >= MaxRetries
                 /\ e.status = "completed" => e.result

SoundSnap(e, j, f, s) ==
  /\ Sound(e, j, f, s)
  /\ e # None => f[j] >= MaxRetries

SoundTask(t, f, s) ==
  t.pc # "idle" =>
    /\ Sound(t.copy, t.job, f, s)
    /\ Sound(t.snap, t.job, f, s)
    /\ t.count <= f[t.job]
    /\ t.pc \in {"inspect", "bury", "burying", "push"}
         => f[t.job] >= MaxRetries
    /\ t.pc \in {"complete", "completing", "return"} => t.job \in s

StoreSound == \A j \in Job : SoundEntry(store[j], j, failures, saved)
DlqSound   == \A j \in Job : SoundSnap(dlq[j], j, failures, saved)
TaskSound  == \A x \in Runner : SoundTask(task[x], failures, saved)
AdminSound ==
  admin.pc # "idle" => Sound(admin.snap, admin.job, failures, saved)

\* The inductive invariant behind DeadLetterEarned and CompletedIsBacked: the
\* copies in flight must be covered too, because any of them may be written
\* back over the entry.
HistoryInv == StoreSound /\ DlqSound /\ TaskSound /\ AdminSound

\* Soundness survives more failures and more saved portfolios.
LEMMA SoundGrows ==
  ASSUME NEW f \in [Job -> Nat], NEW g \in [Job -> Nat], NEW s, NEW u,
         \A j \in Job : f[j] <= g[j], s \subseteq u
  PROVE  /\ \A j \in Job, e \in Entry \cup {None} :
              /\ Sound(e, j, f, s) => Sound(e, j, g, u)
              /\ SoundEntry(e, j, f, s) => SoundEntry(e, j, g, u)
              /\ SoundSnap(e, j, f, s) => SoundSnap(e, j, g, u)
         /\ \A t \in Task : (t.pc # "idle" => t.job \in Job)
                              => (SoundTask(t, f, s) => SoundTask(t, g, u))
<1>1. ASSUME NEW j \in Job, NEW e \in Entry \cup {None}
      PROVE  Sound(e, j, f, s) => Sound(e, j, g, u)
  BY DEF Sound, Entry
<1>2. ASSUME NEW j \in Job
      PROVE  f[j] >= MaxRetries => g[j] >= MaxRetries
  BY JobAssumption
<1>3. ASSUME NEW j \in Job, NEW e \in Entry \cup {None}
      PROVE  /\ SoundEntry(e, j, f, s) => SoundEntry(e, j, g, u)
             /\ SoundSnap(e, j, f, s) => SoundSnap(e, j, g, u)
  BY <1>1, <1>2 DEF SoundEntry, SoundSnap
<1>4. ASSUME NEW t \in Task, t.pc # "idle" => t.job \in Job, SoundTask(t, f, s)
      PROVE  SoundTask(t, g, u)
  <2> SUFFICES ASSUME t.pc # "idle" PROVE SoundTask(t, g, u)
    BY DEF SoundTask
  <2>1. t.job \in Job /\ t.copy \in Entry \cup {None}
          /\ t.snap \in Entry \cup {None} /\ t.count \in Nat
    BY <1>4 DEF Task
  <2>2. t.count <= f[t.job] => t.count <= g[t.job]
    BY <2>1
  <2> QED
    BY <1>1, <1>2, <1>4, <2>1, <2>2 DEF SoundTask
<1> QED
  BY <1>1, <1>3, <1>4

\* Failures are only added, saved portfolios never forgotten.
LEMMA HistoryGrows ==
  TypeOK /\ [Next]_vars
    => /\ \A j \in Job : failures[j] <= failures'[j]
       /\ saved \subseteq saved'
<1> SUFFICES ASSUME TypeOK, [Next]_vars
             PROVE  /\ \A j \in Job : failures[j] <= failures'[j]
                    /\ saved \subseteq saved'
  OBVIOUS
<1>1. failures \in [Job -> Nat]
  BY DEF TypeOK, HistoryTypes
<1>2. CASE UNCHANGED <<failures, saved>>
  BY <1>1, <1>2
<1>3. ASSUME NEW x \in Runner, TaskStep(x)
      PROVE  /\ \A j \in Job : failures[j] <= failures'[j]
             /\ saved \subseteq saved'
  <2>1. ASSUME NEW a \in Answer, Count(x, a)
        PROVE  /\ \A j \in Job : failures[j] <= failures'[j]
               /\ saved \subseteq saved'
    BY <1>1, <2>1 DEF Count
  <2>2. CASE Optimize(x) \/ OptimizeRaises(x)
    BY <1>1, <2>2 DEF Optimize, OptimizeRaises
  <2>3. \/ UNCHANGED <<failures, saved>>
        \/ Optimize(x) \/ OptimizeRaises(x)
        \/ \E a \in Answer : Count(x, a)
    BY <1>3 DEF TaskStep, Read, Write, Inspect, Push, PushIndex, Return
  <2> QED
    BY <1>2, <2>1, <2>2, <2>3
<1>4. CASE Environment
  BY <1>2, <1>4 DEF Environment, ExpireJob, ExpireKey, ExpireSnapshot,
                    CrashTask, CrashRequest, Timeout, TimeoutUncaught, Restart
<1> QED
  BY <1>2, <1>3, <1>4, RequestFrame, TakeFrame, AdminFrame DEF Next, vars

\* Whatever is written to the store is sound: a new entry, an update of a
\* copy, or a restored snapshot.
LEMMA StoreSoundStep == TypeOK /\ HistoryInv /\ [Next]_vars => StoreSound'
<1> SUFFICES ASSUME TypeOK, HistoryInv, [Next]_vars PROVE StoreSound'
  OBVIOUS
<1>1. /\ failures \in [Job -> Nat] /\ failures' \in [Job -> Nat]
      /\ store \in [Job -> Entry \cup {None}]
  BY HistoryTypesStep DEF TypeOK, HistoryTypes, StoreTypes
<1>2. \A j \in Job, e \in Entry \cup {None} :
        /\ SoundEntry(e, j, failures, saved)
             => SoundEntry(e, j, failures', saved')
        /\ Sound(e, j, failures, saved) => Sound(e, j, failures', saved')
  BY <1>1, HistoryGrows, SoundGrows
<1>3. ASSUME NEW j \in Job, NEW e, SoundEntry(e, j, failures', saved'),
             store' = [store EXCEPT ![j] = e]
      PROVE  StoreSound'
  BY <1>1, <1>2, <1>3 DEF StoreSound, HistoryInv
<1>4. CASE UNCHANGED store
  BY <1>1, <1>2, <1>4 DEF StoreSound, HistoryInv
<1>5. \A j \in Job : SoundEntry(None, j, failures', saved')
  BY DEF SoundEntry, Sound
<1>6. ASSUME NEW r \in Request, RequestStep(r) PROVE StoreSound'
  <2>1. ASSUME NEW a \in Answer, Create(r, a) PROVE StoreSound'
    <3>1. \A j \in Job : SoundEntry(NewEntry, j, failures', saved')
      BY <1>1 DEF SoundEntry, Sound, NewEntry
    <3> QED
      BY <1>3, <1>4, <2>1, <3>1 DEF Create
  <2>2. (\E a \in Answer : Create(r, a)) \/ UNCHANGED store
    BY <1>6 DEF RequestStep, Submit, Lookup, Check, Remember, EnqueueRq,
                EnqueueLocal
  <2> QED
    BY <1>4, <2>1, <2>2
<1>7. ASSUME NEW x \in Runner, TaskStep(x) PROVE StoreSound'
  <2>1. ASSUME NEW a \in Answer, Write(x, a) PROVE StoreSound'
    <3> DEFINE t == task[x]
    <3>1. CASE t.copy = None \/ a # "ok"
      BY <1>4, <2>1, <3>1 DEF Write
    <3>2. CASE t.copy # None /\ a = "ok"
      <4>1. t.pc \in WritePc /\ t.job \in Job /\ t.copy \in Entry
              /\ t.count \in Nat /\ SoundTask(t, failures, saved)
        BY <2>1, <3>2 DEF Write, WritePc, TypeOK, TaskTypes, Task, HistoryInv,
                          TaskSound
      <4>2. UNCHANGED <<failures, saved>>
        BY <2>1 DEF Write
      <4>3. SoundEntry(Updated(t), t.job, failures, saved)
        BY <1>1, <4>1, <3>2 DEF WritePc, Updated, SoundTask, SoundEntry,
                                Sound, Entry
      <4> QED
        BY <1>3, <2>1, <3>2, <4>1, <4>2, <4>3 DEF Write
    <3> QED
      BY <3>1, <3>2
  <2>2. (\E a \in Answer : Write(x, a)) \/ UNCHANGED store
    BY <1>7 DEF TaskStep, Read, Count, Inspect, Push, PushIndex, Optimize,
                OptimizeRaises, Return
  <2> QED
    BY <1>4, <2>1, <2>2
<1>8. CASE AdminStep
  <2>1. ASSUME NEW a \in Answer, AdminRestore(a) PROVE StoreSound'
    <3> DEFINE e == [admin.snap EXCEPT !.status = "queued", !.retries = 0]
    <3>1. admin.job \in Job /\ admin.snap \in Entry /\ admin.snap # None
            /\ Sound(admin.snap, admin.job, failures', saved')
      BY <1>2, <2>1, JobAssumption
         DEF AdminRestore, TypeOK, AdminTypes, HistoryInv, AdminSound
    <3>2. SoundEntry(e, admin.job, failures', saved')
      BY <1>1, <3>1 DEF SoundEntry, Sound, Entry
    <3> QED
      BY <1>3, <1>4, <2>1, <3>1, <3>2 DEF AdminRestore
  <2>2. (\E a \in Answer : AdminRestore(a)) \/ UNCHANGED store
    BY <1>8 DEF AdminStep, AdminOpen, AdminRemove, AdminUnlist
  <2> QED
    BY <1>4, <2>1, <2>2
<1>9. CASE Environment
  <2>1. ASSUME NEW j \in Job, ExpireJob(j) PROVE StoreSound'
    BY <1>3, <1>5, <2>1 DEF ExpireJob
  <2>2. CASE Restart
    BY <1>5, <2>2 DEF Restart, StoreSound
  <2>3. UNCHANGED store \/ Restart \/ \E j \in Job : ExpireJob(j)
    BY <1>9 DEF Environment, ExpireKey, ExpireSnapshot, CrashTask,
                CrashRequest, Timeout, TimeoutUncaught
  <2> QED
    BY <1>4, <2>1, <2>2, <2>3
<1> QED
  BY <1>4, <1>6, <1>7, <1>8, <1>9, TakeFrame DEF Next, vars

\* A snapshot enters the dead letter queue only from a run that counted
\* dlq_max_retries failures of its job.
LEMMA DlqSoundStep == TypeOK /\ HistoryInv /\ [Next]_vars => DlqSound'
<1> SUFFICES ASSUME TypeOK, HistoryInv, [Next]_vars PROVE DlqSound'
  OBVIOUS
<1>1. /\ failures \in [Job -> Nat] /\ failures' \in [Job -> Nat]
      /\ dlq \in [Job -> Entry \cup {None}]
  BY HistoryTypesStep DEF TypeOK, HistoryTypes, StoreTypes
<1>2. \A j \in Job, e \in Entry \cup {None} :
        SoundSnap(e, j, failures, saved) => SoundSnap(e, j, failures', saved')
  BY <1>1, HistoryGrows, SoundGrows
<1>3. ASSUME NEW j \in Job, NEW e, SoundSnap(e, j, failures', saved'),
             dlq' = [dlq EXCEPT ![j] = e]
      PROVE  DlqSound'
  BY <1>1, <1>2, <1>3 DEF DlqSound, HistoryInv
<1>4. CASE UNCHANGED dlq
  BY <1>1, <1>2, <1>4 DEF DlqSound, HistoryInv
<1>5. \A j \in Job : SoundSnap(None, j, failures', saved')
  BY DEF SoundSnap, Sound
<1>6. ASSUME NEW x \in Runner, TaskStep(x) PROVE DlqSound'
  <2>1. ASSUME NEW a \in Answer, Push(x, a) PROVE DlqSound'
    <3>1. task[x].job \in Job /\ SoundTask(task[x], failures, saved)
      BY <2>1 DEF Push, TypeOK, TaskTypes, HistoryInv, TaskSound
    <3>2. UNCHANGED <<failures, saved>>
      BY <2>1 DEF Push
    <3>3. SoundSnap(task[x].snap, task[x].job, failures, saved)
      BY <2>1, <3>1 DEF Push, SoundTask, SoundSnap
    <3> QED
      BY <1>3, <1>4, <2>1, <3>1, <3>2, <3>3 DEF Push
  <2>2. (\E a \in Answer : Push(x, a)) \/ UNCHANGED dlq
    BY <1>6 DEF TaskStep, Read, Write, Count, Inspect, PushIndex, Optimize,
                OptimizeRaises, Return
  <2> QED
    BY <1>4, <2>1, <2>2
<1>7. CASE AdminStep
  <2>1. ASSUME NEW a \in Answer, AdminRemove(a) PROVE DlqSound'
    <3>1. admin.job \in Job
      BY <2>1 DEF AdminRemove, TypeOK, AdminTypes
    <3> QED
      BY <1>3, <1>4, <1>5, <2>1, <3>1 DEF AdminRemove
  <2>2. (\E a \in Answer : AdminRemove(a)) \/ UNCHANGED dlq
    BY <1>7 DEF AdminStep, AdminOpen, AdminRestore, AdminUnlist
  <2> QED
    BY <1>4, <2>1, <2>2
<1>8. CASE Environment
  <2>1. ASSUME NEW j \in Job, ExpireSnapshot(j) PROVE DlqSound'
    BY <1>3, <1>5, <2>1 DEF ExpireSnapshot
  <2>2. CASE Restart
    BY <1>5, <2>2 DEF Restart, DlqSound
  <2>3. UNCHANGED dlq \/ Restart \/ \E j \in Job : ExpireSnapshot(j)
    BY <1>8 DEF Environment, ExpireKey, ExpireJob, CrashTask, CrashRequest,
                Timeout, TimeoutUncaught
  <2> QED
    BY <1>4, <2>1, <2>2, <2>3
<1> QED
  BY <1>4, <1>6, <1>7, <1>8, RequestFrame, TakeFrame DEF Next, vars

\* A run only ever holds copies, a count and a snapshot that the history of
\* its job justifies.
LEMMA TaskSoundStep == TypeOK /\ HistoryInv /\ [Next]_vars => TaskSound'
<1> SUFFICES ASSUME TypeOK, HistoryInv, [Next]_vars PROVE TaskSound'
  OBVIOUS
<1>1. /\ failures \in [Job -> Nat] /\ failures' \in [Job -> Nat]
      /\ store \in [Job -> Entry \cup {None}] /\ task \in [Runner -> Task]
      /\ \A x \in Runner : task[x].pc # "idle" => task[x].job \in Job
  BY HistoryTypesStep DEF TypeOK, HistoryTypes, StoreTypes, TaskTypes
<1>2. \A x \in Runner : SoundTask(task[x], failures', saved')
  BY <1>1, HistoryGrows, SoundGrows DEF HistoryInv, TaskSound
<1>3. ASSUME NEW x \in Runner, NEW t, SoundTask(t, failures', saved'),
             Become(x, t)
      PROVE  TaskSound'
  BY <1>1, <1>2, <1>3 DEF TaskSound, Become
<1>4. CASE UNCHANGED task
  BY <1>2, <1>4 DEF TaskSound
<1>5. /\ SoundTask(Idle, failures', saved')
      /\ \A j \in Job : SoundTask(Started(j), failures', saved')
  BY <1>1 DEF SoundTask, Sound, Idle, Started
<1>6. \A j \in Job : Sound(store[j], j, failures', saved')
  BY <1>1, HistoryGrows, SoundGrows DEF HistoryInv, StoreSound, SoundEntry
<1>7. ASSUME NEW r \in Request, RequestStep(r) PROVE TaskSound'
  <2>1. CASE EnqueueLocal(r)
    <3>1. req[r].job \in Job
      BY <2>1 DEF EnqueueLocal, TypeOK, RequestTypes
    <3> QED
      BY <1>3, <1>5, <2>1, <3>1 DEF EnqueueLocal, Runner
  <2>2. EnqueueLocal(r) \/ UNCHANGED task
    BY <1>7 DEF RequestStep, Submit, Lookup, Check, Create, Remember,
                EnqueueRq
  <2> QED
    BY <1>4, <2>1, <2>2
<1>8. ASSUME NEW w \in Worker, Take(w) PROVE TaskSound'
  <2>1. Head(queue) \in Job
    BY <1>8 DEF Take, TypeOK, StoreTypes
  <2> QED
    BY <1>3, <1>5, <1>8, <2>1 DEF Take, Runner
<1>9. ASSUME NEW x \in Runner, TaskStep(x) PROVE TaskSound'
  <2> DEFINE t == task[x]
             j == task[x].job
  <2> t.pc # "idle"
    BY <1>9 DEF TaskStep, Read, ReadPc, Write, WritePc, Count, Inspect, Push,
                PushIndex, Optimize, OptimizeRaises, Return
  <2>1. /\ t \in Task /\ j \in Job
        /\ SoundTask(t, failures', saved')
    BY <1>1, <1>2
  <2>2. \A a : Sound(Got(a, store[j]), j, failures', saved')
    BY <1>6, <2>1 DEF Got, Sound
  <2>3. ASSUME NEW a \in Answer, Read(x, a) PROVE TaskSound'
    <3>1. SoundTask([t EXCEPT !.pc = Updating(t.pc), !.copy = Got(a, store[j])],
                    failures', saved')
      BY <2>1, <2>2, <2>3 DEF Read, ReadPc, Updating, SoundTask, Task
    <3> QED
      BY <1>3, <2>3, <3>1 DEF Read
  <2>4. ASSUME NEW a \in Answer, Write(x, a) PROVE TaskSound'
    <3>1. Sound(None, j, failures', saved')
      BY DEF Sound
    <3>2. t.count >= MaxRetries => failures'[j] >= MaxRetries
      BY <1>1, <2>1, JobAssumption DEF SoundTask, Task
    <3>3. SoundTask(Onward(t), failures', saved')
      BY <1>5, <2>1, <2>4, <3>1, <3>2 DEF Write, WritePc, Onward, SoundTask,
                                          Task
    <3> QED
      BY <1>3, <2>4, <3>3 DEF Write
  <2>5. ASSUME NEW a \in Answer, Count(x, a) PROVE TaskSound'
    <3> DEFINE e == Got(a, store[j])
    <3>1. e # None => e.retries + 1 <= failures'[j]
      <4>1. failures'[j] = failures[j] + 1
        BY <1>1, <2>1, <2>5 DEF Count
      <4>2. e # None => e \in Entry /\ e.retries <= failures[j]
        BY <1>1, <2>1 DEF Got, HistoryInv, StoreSound, SoundEntry, Sound
      <4> QED
        BY <1>1, <2>1, <4>1, <4>2 DEF Entry
    <3>2. e # None => SoundTask([t EXCEPT !.pc = "recount",
                                          !.count = e.retries + 1],
                                failures', saved')
      BY <2>1, <3>1 DEF SoundTask, Task
    <3>3. SoundTask([t EXCEPT !.pc = "fail"], failures', saved')
      BY <2>1 DEF SoundTask, Task
    <3> QED
      BY <1>3, <2>5, <3>2, <3>3 DEF Count
  <2>6. ASSUME NEW a \in Answer, Inspect(x, a) PROVE TaskSound'
    <3>1. SoundTask([t EXCEPT !.pc = "bury", !.snap = Got(a, store[j])],
                    failures', saved')
      BY <2>1, <2>2, <2>6 DEF Inspect, SoundTask, Task
    <3> QED
      BY <1>3, <1>5, <2>6, <3>1 DEF Inspect
  <2>7. ASSUME NEW a \in Answer, Push(x, a) \/ PushIndex(x, a)
        PROVE  TaskSound'
    <3>1. SoundTask([t EXCEPT !.pc = "list"], failures', saved')
      BY <2>1 DEF SoundTask, Task
    <3> QED
      BY <1>3, <1>5, <2>7, <3>1 DEF Push, PushIndex
  <2>8. CASE Optimize(x)
    <3>1. j \in saved'
      BY <2>8 DEF Optimize
    <3>2. SoundTask([t EXCEPT !.pc = "complete"], failures', saved')
      BY <2>1, <3>1 DEF SoundTask, Task
    <3> QED
      BY <1>3, <2>8, <3>2 DEF Optimize
  <2>9. CASE OptimizeRaises(x) \/ Return(x)
    <3>1. SoundTask([t EXCEPT !.pc = "count"], failures', saved')
      BY <2>1 DEF SoundTask, Task
    <3> QED
      BY <1>3, <1>5, <2>9, <3>1 DEF OptimizeRaises, Return
  <2> QED
    BY <1>9, <2>3, <2>4, <2>5, <2>6, <2>7, <2>8, <2>9 DEF TaskStep
<1>10. CASE Environment
  <2>1. ASSUME NEW x \in Runner, CrashTask(x) \/ Timeout(x) \/ TimeoutUncaught(x)
        PROVE  TaskSound'
    <3>1. task[x].pc # "idle" => SoundTask([task[x] EXCEPT !.pc = "count",
                                                           !.copy = None],
                                           failures', saved')
      BY <1>1, <1>2 DEF SoundTask, Sound, Task
    <3> QED
      BY <1>3, <1>5, <2>1, <3>1 DEF CrashTask, Timeout, TimeoutUncaught
  <2>2. CASE Restart
    BY <1>5, <2>2 DEF Restart, TaskSound
  <2>3. \/ UNCHANGED task
        \/ Restart
        \/ \E x \in Runner : CrashTask(x) \/ Timeout(x) \/ TimeoutUncaught(x)
    BY <1>10 DEF Environment, ExpireJob, ExpireKey, ExpireSnapshot,
                 CrashRequest
  <2> QED
    BY <1>4, <2>1, <2>2, <2>3
<1> QED
  BY <1>4, <1>7, <1>8, <1>9, <1>10, AdminFrame DEF Next, vars

\* So does the operator.
LEMMA AdminSoundStep == TypeOK /\ HistoryInv /\ [Next]_vars => AdminSound'
<1> SUFFICES ASSUME TypeOK, HistoryInv, [Next]_vars PROVE AdminSound'
  OBVIOUS
<1>1. /\ failures \in [Job -> Nat] /\ failures' \in [Job -> Nat]
      /\ dlq \in [Job -> Entry \cup {None}]
      /\ admin.pc # "idle" => admin.job \in Job /\ admin.snap \in Entry
      /\ admin \in Operator
  BY HistoryTypesStep DEF TypeOK, HistoryTypes, StoreTypes, AdminTypes
<1>2. admin.pc # "idle" => Sound(admin.snap, admin.job, failures', saved')
  BY <1>1, HistoryGrows, SoundGrows DEF HistoryInv, AdminSound
<1>3. CASE UNCHANGED admin
  BY <1>2, <1>3 DEF AdminSound
<1>4. CASE AdminStep
  <2>1. ASSUME NEW j \in Job, AdminOpen(j) PROVE AdminSound'
    <3>1. Sound(dlq[j], j, failures', saved')
      BY <1>1, HistoryGrows, SoundGrows DEF HistoryInv, DlqSound, SoundSnap
    <3> QED
      BY <2>1, <3>1 DEF AdminOpen, AdminSound
  <2>2. ASSUME NEW a \in Answer,
               AdminRestore(a) \/ AdminRemove(a) \/ AdminUnlist(a)
        PROVE  AdminSound'
    BY <1>1, <1>2, <2>2 DEF AdminRestore, AdminRemove, AdminUnlist, NoAdmin,
                            AdminSound, Operator
  <2> QED
    BY <1>4, <2>1, <2>2 DEF AdminStep
<1>5. CASE Environment
  <2>1. Restart \/ UNCHANGED admin
    BY <1>5 DEF Environment, ExpireJob, ExpireKey, ExpireSnapshot, CrashTask,
                CrashRequest, Timeout, TimeoutUncaught
  <2> QED
    BY <1>3, <2>1 DEF Restart, NoAdmin, AdminSound
<1> QED
  BY <1>3, <1>4, <1>5, RequestFrame, TakeFrame, TaskFrame DEF Next, vars

\* The type invariant and the history invariant together are inductive.
THEOREM HistoryCorrect == Spec => [](TypeOK /\ HistoryInv)
<1>1. Init => HistoryInv
  BY DEF Init, HistoryInv, StoreSound, DlqSound, TaskSound, AdminSound,
         SoundEntry, SoundSnap, SoundTask, Sound, Idle, NoAdmin
<1>2. TypeOK /\ HistoryInv /\ [Next]_vars => HistoryInv'
  BY StoreSoundStep, DlqSoundStep, TaskSoundStep, AdminSoundStep DEF HistoryInv
<1> QED
  BY <1>1, <1>2, TypeCorrect, PTL DEF Spec

\* A job is marked dead, and enters the dead letter queue, only after
\* dlq_max_retries of its runs failed, whatever overwrites whatever.
THEOREM DeadLettersEarned == Spec => []DeadLetterEarned
<1>1. TypeOK /\ HistoryInv => DeadLetterEarned
  BY DEF HistoryInv, StoreSound, DlqSound, SoundEntry, SoundSnap, Sound,
         DeadLetterEarned
<1> QED
  BY <1>1, HistoryCorrect, PTL

\* A job reported completed has a result, and every result is that of a run
\* that saved its portfolio.
THEOREM CompletedBacked == Spec => []CompletedIsBacked
<1>1. TypeOK /\ HistoryInv => CompletedIsBacked
  BY DEF HistoryInv, StoreSound, DlqSound, SoundEntry, SoundSnap, Sound,
         CompletedIsBacked
<1> QED
  BY <1>1, HistoryCorrect, PTL

-----------------------------------------------------------------------------
(* No job is stranded.                                                      *)

\* A request thread runs no background task before it has answered.
ThreadInv == \A r \in Request : req[r].pc # "done" => task[r].pc = "idle"

LEMMA ThreadInvStep == TypeOK /\ ThreadInv /\ [Next]_vars => ThreadInv'
<1> SUFFICES ASSUME TypeOK, ThreadInv, [Next]_vars, NEW r \in Request,
                    req'[r].pc # "done"
             PROVE  task'[r].pc = "idle"
  BY DEF ThreadInv
<1>1. /\ req \in [Request -> Handler] /\ task \in [Runner -> Task]
      /\ r \in Runner /\ r \notin Worker
  BY JobAssumption DEF TypeOK, RequestTypes, TaskTypes, Runner
<1>2. req[r].pc # "done" => task[r].pc = "idle"
  BY DEF ThreadInv
<1>3. CASE UNCHANGED <<req, task>>
  BY <1>2, <1>3
<1>4. ASSUME NEW s \in Request, RequestStep(s) PROVE task'[r].pc = "idle"
  <2>1. CASE EnqueueLocal(s)
    BY <1>1, <1>2, <2>1 DEF EnqueueLocal, Become
  <2>2. CASE EnqueueRq(s)
    BY <1>1, <1>2, <2>2 DEF EnqueueRq
  <2>3. ASSUME NEW a \in Answer,
               \/ Submit(s) \/ Lookup(s, a) \/ Check(s, a) \/ Create(s, a)
               \/ Remember(s, a)
        PROVE  task'[r].pc = "idle"
    <3>1. UNCHANGED task /\ (req'[r] = req[r] \/ req[r].pc # "done")
      BY <1>1, <2>3 DEF Submit, Lookup, Check, Create, Remember
    <3> QED
      BY <1>2, <3>1
  <2> QED
    BY <1>4, <2>1, <2>2, <2>3 DEF RequestStep, Answer
<1>5. ASSUME NEW w \in Worker, Take(w) PROVE task'[r].pc = "idle"
  BY <1>1, <1>2, <1>5 DEF Take, Become
<1>6. ASSUME NEW x \in Runner, TaskStep(x) PROVE task'[r].pc = "idle"
  <2>1. UNCHANGED req
    BY <1>6, TaskFrame
  <2>2. task[x].pc # "idle" /\ \E t : Become(x, t)
    BY <1>6 DEF TaskStep, Read, ReadPc, Write, WritePc, Count, Inspect, Push,
                PushIndex, Optimize, OptimizeRaises, Return
  <2> QED
    BY <1>1, <1>2, <2>1, <2>2 DEF Become
<1>7. CASE Environment
  <2>1. ASSUME NEW x \in Runner, CrashTask(x) \/ TimeoutUncaught(x)
        PROVE  task'[r].pc = "idle"
    BY <1>1, <1>2, <2>1 DEF CrashTask, TimeoutUncaught, Become, Idle
  <2>2. ASSUME NEW x \in Runner, Timeout(x) PROVE task'[r].pc = "idle"
    BY <1>1, <1>2, <2>2 DEF Timeout, Become
  <2>3. ASSUME NEW s \in Request, CrashRequest(s) PROVE task'[r].pc = "idle"
    BY <1>1, <1>2, <2>3 DEF CrashRequest
  <2>4. CASE Restart
    BY <1>1, <2>4 DEF Restart, Idle
  <2>5. \/ UNCHANGED <<req, task>> \/ Restart
        \/ \E x \in Runner : CrashTask(x) \/ Timeout(x) \/ TimeoutUncaught(x)
        \/ \E s \in Request : CrashRequest(s)
    BY <1>7 DEF Environment, ExpireJob, ExpireKey, ExpireSnapshot
  <2> QED
    BY <1>3, <2>1, <2>2, <2>3, <2>4, <2>5
<1> QED
  BY <1>3, <1>4, <1>5, <1>6, <1>7, AdminFrame DEF Next, vars

\* An entry of j that a poller finds unsettled and no fault explains.
Waiting(j) ==
  store[j] # None /\ store[j].status \notin Settled /\ j \notin excused

\* While its job is waiting, a step of a run leaves the run pending, or it
\* was not pending before and did not touch the entry.
LEMMA RunKeepsPending ==
  ASSUME TypeOK, NEW x \in Runner, NEW j, j = task[x].job, TaskStep(x),
         Waiting(j)'
  PROVE  \/ Pending(task'[x]) /\ task'[x].job = j
         \/ ~Pending(task[x]) /\ store' = store
<1> DEFINE t == task[x]
           Goal == \/ Pending(task'[x]) /\ task'[x].job = j
                   \/ ~Pending(t) /\ store' = store
<1>1. /\ t \in Task /\ \A u : Become(x, u) => task'[x] = u
      /\ store \in [Job -> Entry \cup {None}]
  BY DEF TypeOK, TaskTypes, StoreTypes, Become
<1>2. /\ store'[j] # None /\ store'[j].status \notin Settled /\ j \notin excused'
  BY DEF Waiting
<1>3. ASSUME NEW a \in Answer, Read(x, a) PROVE Goal
  <2>1. a = "ok" /\ store' = store
    BY <1>2, <1>3 DEF Read, Excuse
  <2>2. Got(a, store[j]) # None
    BY <1>2, <2>1 DEF Got
  <2> QED
    BY <1>1, <1>3, <2>2 DEF Read, ReadPc, Updating, Pending, Task
<1>4. ASSUME NEW a \in Answer, Write(x, a) PROVE Goal
  <2>1. a = "ok" /\ j \in Job
    BY <1>2, <1>4 DEF Write, WritePc, Excuse, TypeOK, TaskTypes
  <2>2. CASE t.pc \in {"starting", "requeueing"}
    BY <1>1, <1>4, <2>2 DEF Write, Onward, Pending, Task
  <2>3. CASE t.pc \in {"completing", "failing", "burying"} /\ t.copy = None
    BY <1>4, <2>3 DEF Write, Pending
  <2>4. CASE t.pc \in {"completing", "failing", "burying"} /\ t.copy # None
    <3>1. store'[j] = Updated(t) /\ t.copy \in Entry
      BY <1>1, <1>4, <2>1, <2>4 DEF Write, Task
    <3>2. Updated(t).status \in Settled
      BY <2>4, <3>1 DEF Updated, Entry, Settled
    <3> QED
      BY <1>2, <3>1, <3>2
  <2> QED
    BY <1>4, <2>2, <2>3, <2>4 DEF Write, WritePc
<1>5. ASSUME NEW a \in Answer, Count(x, a) PROVE Goal
  BY <1>1, <1>5 DEF Count, Pending, Task
<1>6. ASSUME NEW a \in Answer, Inspect(x, a) PROVE Goal
  <2>1. a = "ok" /\ store' = store
    BY <1>2, <1>6 DEF Inspect, Excuse
  <2>2. Got(a, store[j]) # None
    BY <1>2, <2>1 DEF Got
  <2> QED
    BY <1>1, <1>6, <2>2 DEF Inspect, Pending, Task
<1>7. ASSUME NEW a \in Answer, Push(x, a) \/ PushIndex(x, a) \/ Return(x)
      PROVE  Goal
  BY <1>7 DEF Push, PushIndex, Return, Pending
<1>8. CASE Optimize(x) \/ OptimizeRaises(x)
  BY <1>1, <1>8 DEF Optimize, OptimizeRaises, Pending, Task
<1> QED
  BY <1>3, <1>4, <1>5, <1>6, <1>7, <1>8 DEF TaskStep, Answer

\* The queue keeps what it holds except for the head a worker takes.
LEMMA QueueKeeps ==
  ASSUME TypeOK, NEW j \in Job, InQueue(j)
  PROVE  /\ \A i \in Job : queue' = Append(queue, i) => InQueue(j)'
         /\ (queue # << >> /\ queue' = Tail(queue))
              => InQueue(j)' \/ j = Head(queue)
<1>1. queue \in Seq(Job)
  BY DEF TypeOK, StoreTypes
<1>2. PICK n \in 1..Len(queue) : queue[n] = j
  BY DEF InQueue
<1>3. ASSUME NEW i \in Job, queue' = Append(queue, i) PROVE InQueue(j)'
  <2>1. n \in 1..Len(queue') /\ queue'[n] = j
    BY <1>1, <1>2, <1>3
  <2> QED
    BY <2>1 DEF InQueue
<1>4. ASSUME queue # << >>, queue' = Tail(queue), j # Head(queue)
      PROVE  InQueue(j)'
  <2>1. n # 1
    BY <1>1, <1>2, <1>4
  <2>2. n - 1 \in 1..Len(queue') /\ queue'[n - 1] = j
    BY <1>1, <1>2, <1>4, <2>1
  <2> QED
    BY <2>2 DEF InQueue
<1> QED
  BY <1>3, <1>4

LEMMA NoStuckJobStep ==
  TypeOK /\ ThreadInv /\ NoStuckJob /\ [Next]_vars => NoStuckJob'
<1> SUFFICES ASSUME TypeOK, ThreadInv, NoStuckJob, [Next]_vars,
                    NEW j \in Job, Waiting(j)'
             PROVE  Outstanding(j)'
  BY DEF NoStuckJob, Waiting
<1>1. /\ req \in [Request -> Handler] /\ task \in [Runner -> Task]
      /\ store \in [Job -> Entry \cup {None}] /\ queue \in Seq(Job)
  BY DEF TypeOK, RequestTypes, TaskTypes, StoreTypes
<1>2. Waiting(j) => Outstanding(j)
  BY DEF NoStuckJob, Waiting
<1>3. CASE UNCHANGED <<store, queue, req, task>> /\ j \notin excused
  BY <1>2, <1>3 DEF Waiting, Outstanding, InQueue, Pending
<1>4. ASSUME NEW r \in Request, RequestStep(r) PROVE Outstanding(j)'
  <2>1. excused' = excused
    BY <1>4, RequestFrame
  <2>2. ASSUME NEW a \in Answer,
               \/ Submit(r) \/ Lookup(r, a) \/ Check(r, a) \/ Remember(r, a)
        PROVE  Outstanding(j)'
    <3>1. /\ UNCHANGED <<store, queue, task>>
          /\ \A s \in Request \ {r} : req'[s] = req[s]
      BY <1>1, <2>2 DEF Submit, Lookup, Check, Remember
    <3>2. req[r].pc \in {"remember", "enqueue"}
            => /\ req'[r].pc \in {"remember", "enqueue"}
               /\ req'[r].job = req[r].job
      BY <1>1, <2>2 DEF Submit, Lookup, Check, Remember, Handler
    <3> QED
      BY <1>2, <2>1, <3>1, <3>2 DEF Waiting, Outstanding, InQueue, Pending
  <2>3. ASSUME NEW a \in Answer, Create(r, a) PROVE Outstanding(j)'
    <3>1. PICK i \in Job :
            /\ store' = IF a = "ok" THEN [store EXCEPT ![i] = NewEntry] ELSE store
            /\ req' = [req EXCEPT ![r].job = i,
                                  ![r].pc = IF req[r].key = None
                                              THEN "enqueue" ELSE "remember"]
      BY <2>3 DEF Create
    <3>2. UNCHANGED <<queue, task>> /\ req[r].pc = "create"
      BY <2>3 DEF Create
    <3>3. req'[r].job = i /\ req'[r].pc \in {"remember", "enqueue"}
            /\ \A s \in Request \ {r} : req'[s] = req[s]
      BY <1>1, <3>1 DEF Handler
    <3>4. CASE i = j
      BY <3>3, <3>4 DEF Outstanding
    <3>5. CASE i # j
      <4>1. store'[j] = store[j]
        BY <1>1, <3>1, <3>5
      <4> QED
        BY <1>2, <2>1, <3>2, <3>3, <4>1 DEF Waiting, Outstanding, InQueue,
                                             Pending
    <3> QED
      BY <3>4, <3>5
  <2>4. CASE EnqueueRq(r)
    <3>1. /\ UNCHANGED <<store, task>> /\ req[r].pc = "enqueue"
          /\ queue' = Append(queue, req[r].job) /\ req[r].job \in Job
          /\ \A s \in Request \ {r} : req'[s] = req[s]
      BY <1>1, <2>4 DEF EnqueueRq, TypeOK, RequestTypes
    <3>2. ASSUME j = req[r].job PROVE InQueue(j)'
      <4>1. /\ Len(queue) + 1 \in 1..Len(queue')
            /\ queue'[Len(queue) + 1] = j
        BY <1>1, <3>1, <3>2
      <4> QED
        BY <4>1 DEF InQueue
    <3>3. InQueue(j) => InQueue(j)'
      BY <3>1, QueueKeeps
    <3>4. Outstanding(j)
      BY <1>2, <2>1, <3>1 DEF Waiting
    <3> QED
      BY <3>1, <3>2, <3>3, <3>4 DEF Outstanding, Pending
  <2>5. CASE EnqueueLocal(r)
    <3>1. /\ UNCHANGED store /\ req[r].pc = "enqueue" /\ req[r].job \in Job
          /\ queue' \in {queue, Append(queue, req[r].job)}
          /\ \A s \in Request \ {r} : req'[s] = req[s]
      BY <1>1, <2>5 DEF EnqueueLocal, TypeOK, RequestTypes
    <3>2. /\ r \in Runner /\ task[r].pc = "idle"
          /\ task'[r] = Started(req[r].job)
          /\ \A x \in Runner \ {r} : task'[x] = task[x]
      BY <1>1, <2>5, <3>1 DEF EnqueueLocal, Runner, Become, ThreadInv
    <3>3. Pending(task'[r]) /\ task'[r].job = req[r].job
      BY <3>2 DEF Started, Idle, Pending
    <3>4. InQueue(j) => InQueue(j)'
      BY <3>1, QueueKeeps DEF InQueue
    <3>5. Outstanding(j)
      BY <1>2, <2>1, <3>1 DEF Waiting
    <3> QED
      BY <3>1, <3>2, <3>3, <3>4, <3>5 DEF Outstanding, Pending
  <2> QED
    BY <1>4, <2>2, <2>3, <2>4, <2>5 DEF RequestStep, Answer
<1>5. ASSUME NEW w \in Worker, Take(w) PROVE Outstanding(j)'
  <2>1. /\ queue # << >> /\ queue' = Tail(queue) /\ w \in Runner
        /\ task[w].pc = "idle" /\ task'[w] = Started(Head(queue))
        /\ \A x \in Runner \ {w} : task'[x] = task[x]
    BY <1>1, <1>5 DEF Take, Become, Runner
  <2>2. Pending(task'[w]) /\ task'[w].job = Head(queue)
    BY <2>1 DEF Started, Idle, Pending
  <2>3. InQueue(j) => InQueue(j)' \/ j = Head(queue)
    BY <2>1, QueueKeeps
  <2>4. Outstanding(j) /\ UNCHANGED req
    BY <1>2, <1>5, TakeFrame DEF Waiting
  <2> QED
    BY <2>1, <2>2, <2>3, <2>4 DEF Outstanding, Pending
<1>6. ASSUME NEW x \in Runner, TaskStep(x) PROVE Outstanding(j)'
  <2>1. /\ UNCHANGED <<queue, req>> /\ excused \subseteq excused'
        /\ \E t : Become(x, t)
        /\ \A i \in Job : i # task[x].job => store'[i] = store[i]
    BY <1>1, <1>6, TaskFrame
       DEF TaskStep, Read, Write, Count, Inspect, Push, PushIndex, Optimize,
           OptimizeRaises, Return, Excuse
  <2>2. \A y \in Runner \ {x} : task'[y] = task[y]
    BY <1>1, <2>1 DEF Become
  <2>3. CASE j = task[x].job
    <3>1. CASE Pending(task'[x]) /\ task'[x].job = j
      BY <3>1 DEF Outstanding
    <3>2. CASE ~Pending(task[x]) /\ store' = store
      <4>1. Outstanding(j)
        BY <1>2, <2>1, <3>2 DEF Waiting
      <4> QED
        BY <2>1, <2>2, <3>2, <4>1 DEF Outstanding, InQueue, Pending
    <3> QED
      BY <1>6, <2>3, <3>1, <3>2, RunKeepsPending
  <2>4. CASE j # task[x].job
    <3>1. Outstanding(j)
      BY <1>2, <2>1, <2>4 DEF Waiting
    <3> QED
      BY <2>1, <2>2, <2>4, <3>1 DEF Outstanding, InQueue, Pending
  <2> QED
    BY <2>3, <2>4
<1>7. CASE AdminStep
  <2>1. /\ UNCHANGED <<queue, req, task>> /\ excused \subseteq excused'
        /\ \A i \in Job : i \notin excused' => store'[i] = store[i]
    BY <1>1, <1>7, AdminFrame DEF AdminStep, AdminOpen, AdminRestore,
                                  AdminRemove, AdminUnlist
  <2>2. Outstanding(j)
    BY <1>2, <2>1 DEF Waiting
  <2> QED
    BY <2>1, <2>2 DEF Outstanding, InQueue, Pending
<1>8. CASE Environment
  <2>1. ASSUME NEW x \in Runner, CrashTask(x) \/ TimeoutUncaught(x)
        PROVE  Outstanding(j)'
    <3>1. /\ UNCHANGED <<store, queue, req>> /\ j # task[x].job /\ j \notin excused
          /\ \A y \in Runner \ {x} : task'[y] = task[y]
      BY <1>1, <2>1 DEF CrashTask, TimeoutUncaught, Become, Waiting
    <3> QED
      BY <1>2, <3>1 DEF Waiting, Outstanding, InQueue, Pending
  <2>2. ASSUME NEW x \in Runner, Timeout(x) PROVE Outstanding(j)'
    <3>1. /\ UNCHANGED <<store, queue, req, excused>>
          /\ task'[x].job = task[x].job /\ Pending(task'[x])
          /\ \A y \in Runner \ {x} : task'[y] = task[y]
      BY <1>1, <2>2 DEF Timeout, Become, Task, Pending
    <3> QED
      BY <1>2, <3>1 DEF Waiting, Outstanding, InQueue, Pending
  <2>3. ASSUME NEW r \in Request, CrashRequest(r) PROVE Outstanding(j)'
    <3>1. /\ UNCHANGED <<store, queue, task>> /\ j # req[r].job /\ j \notin excused
          /\ \A s \in Request \ {r} : req'[s] = req[s]
      BY <1>1, <2>3, JobAssumption DEF CrashRequest, Waiting
    <3> QED
      BY <1>2, <3>1 DEF Waiting, Outstanding, InQueue, Pending
  <2>4. CASE Restart
    BY <2>4 DEF Restart, Waiting
  <2>5. ASSUME NEW i \in Job, ExpireJob(i) PROVE Outstanding(j)'
    <3>1. UNCHANGED <<queue, req, task, excused>> /\ store'[j] = store[j]
      BY <1>1, <2>5 DEF ExpireJob, Waiting
    <3> QED
      BY <1>2, <3>1 DEF Waiting, Outstanding, InQueue, Pending
  <2>6. ASSUME NEW k, ExpireKey(k) \/ ExpireSnapshot(k) PROVE Outstanding(j)'
    BY <1>3, <2>6 DEF ExpireKey, ExpireSnapshot, Waiting
  <2> QED
    BY <1>8, <2>1, <2>2, <2>3, <2>4, <2>5, <2>6 DEF Environment
<1>9. CASE UNCHANGED vars
  BY <1>3, <1>9 DEF vars, Waiting
<1> QED
  BY <1>4, <1>5, <1>6, <1>7, <1>8, <1>9 DEF Next

\* An unsettled job always has somebody who will settle it, whatever the
\* duplicate deliveries, the lost updates and the timeouts that the except branch
\* catches.  Excused are the jobs of a crash, of a cache error, of a job_timeout
\* outside the try and of an operator's retry: the code leaves those to nobody.
THEOREM NoJobStranded == Spec => []NoStuckJob
<1>1. Init => ThreadInv /\ NoStuckJob
  BY DEF Init, ThreadInv, NoStuckJob, NewRequest, Idle, Runner
<1>2. TypeOK /\ ThreadInv /\ NoStuckJob /\ [Next]_vars
        => ThreadInv' /\ NoStuckJob'
  BY ThreadInvStep, NoStuckJobStep
<1> QED
  BY <1>1, <1>2, TypeCorrect, PTL DEF Spec

-----------------------------------------------------------------------------
(* A dead job can be inspected.                                             *)

\* A snapshot that is about to be indexed is in the queue, and one that is
\* taken off the index is that of a job the operator dealt with.
IndexInv ==
  /\ \A x \in Runner : task[x].pc = "list"
       => dlq[task[x].job] # None \/ task[x].job \in excused
  /\ admin.pc = "unlist" => admin.job \in excused

\* The snapshot of a job no fault and no operator touched is only ever added.
LEMMA SnapshotStays ==
  ASSUME TypeOK, [Next]_vars, NEW j \in Job, j \notin excused',
         HasRedis \/ ~Restart
  PROVE  j \notin excused /\ (dlq[j] # None => dlq'[j] # None)
<1>1. /\ dlq \in [Job -> Entry \cup {None}] /\ excused \subseteq Job
      /\ task \in [Runner -> Task]
  BY DEF TypeOK, StoreTypes, HistoryTypes, TaskTypes
<1>2. ASSUME NEW x \in Runner, TaskStep(x)
      PROVE  j \notin excused /\ (dlq[j] # None => dlq'[j] # None)
  <2>1. ASSUME NEW a \in Answer, Push(x, a)
        PROVE  j \notin excused /\ (dlq[j] # None => dlq'[j] # None)
    <3>1. task[x].snap # None
      BY <2>1, JobAssumption DEF Push, TypeOK, TaskTypes
    <3> QED
      BY <1>1, <2>1, <3>1 DEF Push, Excuse
  <2>2. CASE ~\E a \in Answer : Push(x, a)
    BY <1>1, <1>2, <2>2 DEF TaskStep, Read, Write, Count, Inspect, PushIndex,
                            Optimize, OptimizeRaises, Return, Excuse
  <2> QED
    BY <2>1, <2>2
<1>3. CASE AdminStep
  BY <1>1, <1>3 DEF AdminStep, AdminOpen, AdminRestore, AdminRemove,
                    AdminUnlist
<1>4. CASE Environment
  BY <1>1, <1>4 DEF Environment, ExpireJob, ExpireKey, ExpireSnapshot,
                    CrashTask, CrashRequest, Timeout, TimeoutUncaught, Restart
<1>5. CASE UNCHANGED vars
  BY <1>5 DEF vars
<1> QED
  BY <1>2, <1>3, <1>4, <1>5, RequestFrame, TakeFrame DEF Next

\* What a runner is about to do to the dead letter queue is its own doing:
\* it is at "list" only after its push, and at "push" until then.
LEMMA PushPcs ==
  ASSUME TypeOK, ThreadInv, [Next]_vars, NEW x \in Runner, ~Restart
  PROVE  /\ task'[x].pc = "list" =>
              \/ task'[x] = task[x]
              \/ task[x].pc = "push" /\ \E a \in Answer : Push(x, a)
         /\ task[x].pc \in {"push", "list"} =>
              \/ task'[x] = task[x]
              \/ \E a \in Answer : Push(x, a) \/ PushIndex(x, a)
              \/ task[x].job \in excused'
<1> DEFINE Goal ==
      /\ task'[x].pc = "list" =>
           \/ task'[x] = task[x]
           \/ task[x].pc = "push" /\ \E a \in Answer : Push(x, a)
      /\ task[x].pc \in {"push", "list"} =>
           \/ task'[x] = task[x]
           \/ \E a \in Answer : Push(x, a) \/ PushIndex(x, a)
           \/ task[x].job \in excused'
<1>1. task \in [Runner -> Task]
  BY DEF TypeOK, TaskTypes
<1>2. CASE task'[x] = task[x]
  BY <1>2
<1>3. ASSUME NEW y \in Runner, NEW t, Become(y, t)
      PROVE  task'[x] = IF x = y THEN t ELSE task[x]
  BY <1>1, <1>3 DEF Become
<1>4. ASSUME NEW r \in Request, EnqueueLocal(r) PROVE Goal
  <2>1. r \in Runner /\ task[r].pc = "idle"
    BY <1>4 DEF EnqueueLocal, Runner, ThreadInv
  <2>2. /\ task'[x] = IF x = r THEN Started(req[r].job) ELSE task[x]
        /\ Started(req[r].job).pc = "start"
    BY <1>3, <1>4, <2>1 DEF EnqueueLocal, Started, Idle
  <2> QED
    BY <1>2, <2>1, <2>2
<1>5. ASSUME NEW w \in Worker, Take(w) PROVE Goal
  <2>1. w \in Runner /\ task[w].pc = "idle"
    BY <1>5 DEF Take, Runner
  <2>2. /\ task'[x] = IF x = w THEN Started(Head(queue)) ELSE task[x]
        /\ Started(Head(queue)).pc = "start"
    BY <1>3, <1>5, <2>1 DEF Take, Started, Idle
  <2> QED
    BY <1>2, <2>1, <2>2
<1>6. ASSUME NEW y \in Runner, TaskStep(y) PROVE Goal
  <2>1. ASSUME NEW a \in Answer, Push(y, a) \/ PushIndex(y, a) PROVE Goal
    BY <1>2, <1>3, <2>1 DEF Push, PushIndex, Idle
  <2>2. ASSUME NEW a \in Answer,
               Read(y, a) \/ Write(y, a) \/ Count(y, a) \/ Inspect(y, a)
        PROVE  Goal
    <3>1. task[y].pc \notin {"push", "list"}
      BY <2>2 DEF Read, ReadPc, Write, WritePc, Count, Inspect
    <3>2. task[y] \in Task
      BY <1>1
    <3>3. CASE Read(y, a)
      <4> DEFINE t == [task[y] EXCEPT !.pc = Updating(task[y].pc),
                                      !.copy = Got(a, store[task[y].job])]
      <4>1. Become(y, t)
        BY <3>3 DEF Read
      <4>2. t.pc # "list"
        BY <3>2, <3>3 DEF Read, ReadPc, Updating, Task
      <4> HIDE DEF t
      <4> QED
        BY <1>2, <1>3, <3>1, <4>1, <4>2
    <3>4. CASE Write(y, a)
      <4>1. Onward(task[y]).pc # "list"
        BY <3>2, <3>4 DEF Write, WritePc, Onward, Idle, Task
      <4> QED
        BY <1>2, <1>3, <3>1, <3>4, <4>1 DEF Write
    <3>5. CASE Count(y, a) \/ Inspect(y, a)
      <4> DEFINE e == Got(a, store[task[y].job])
                 t == IF Count(y, a)
                        THEN IF e = None THEN [task[y] EXCEPT !.pc = "fail"]
                             ELSE [task[y] EXCEPT !.pc = "recount",
                                                  !.count = e.retries + 1]
                        ELSE IF e = None THEN Idle
                             ELSE [task[y] EXCEPT !.pc = "bury", !.snap = e]
      <4>1. Become(y, t)
        BY <3>5 DEF Count, Inspect
      <4>2. t.pc # "list"
        BY <3>2 DEF Idle, Task
      <4> HIDE DEF t
      <4> QED
        BY <1>2, <1>3, <3>1, <4>1, <4>2
    <3> QED
      BY <2>2, <3>3, <3>4, <3>5
  <2>3. CASE Optimize(y) \/ OptimizeRaises(y) \/ Return(y)
    <3>1. PICK t : Become(y, t) /\ t.pc # "list"
      BY <1>1, <2>3 DEF Optimize, OptimizeRaises, Return, Idle, Task
    <3>2. task[y].pc \notin {"push", "list"}
      BY <2>3 DEF Optimize, OptimizeRaises, Return
    <3> QED
      BY <1>2, <1>3, <3>1, <3>2
  <2> QED
    BY <1>6, <2>1, <2>2, <2>3 DEF TaskStep
<1>7. ASSUME NEW y \in Runner, CrashTask(y) \/ Timeout(y) \/ TimeoutUncaught(y)
      PROVE  Goal
  <2>1. CASE CrashTask(y) \/ TimeoutUncaught(y)
    BY <1>2, <1>3, <2>1 DEF CrashTask, TimeoutUncaught, Idle
  <2>2. CASE Timeout(y)
    <3>1. task'[x] = IF x = y
                       THEN [task[y] EXCEPT !.pc = "count", !.copy = None]
                       ELSE task[x]
      BY <1>3, <2>2 DEF Timeout
    <3> QED
      BY <1>1, <2>2, <3>1 DEF Timeout, Task
  <2> QED
    BY <1>7, <2>1, <2>2
<1>8. \/ UNCHANGED task
      \/ \E r \in Request : EnqueueLocal(r)
      \/ \E w \in Worker : Take(w)
      \/ \E y \in Runner : TaskStep(y) \/ CrashTask(y) \/ Timeout(y)
                                       \/ TimeoutUncaught(y)
  BY AdminFrame
     DEF Next, vars, RequestStep, Submit, Lookup, Check, Create, Remember,
         EnqueueRq, Environment, ExpireJob, ExpireKey, ExpireSnapshot,
         CrashRequest
<1> QED
  BY <1>2, <1>4, <1>5, <1>6, <1>7, <1>8

LEMMA IndexInvStep ==
  TypeOK /\ ThreadInv /\ IndexInv /\ [Next]_vars => IndexInv'
<1> SUFFICES ASSUME TypeOK, ThreadInv, IndexInv, [Next]_vars PROVE IndexInv'
  OBVIOUS
<1>1. CASE Restart
  BY <1>1 DEF Restart, IndexInv, Idle, NoAdmin
<1>2. ASSUME ~Restart, NEW x \in Runner, task'[x].pc = "list",
             task'[x].job \notin excused'
      PROVE  dlq'[task'[x].job] # None
  <2>1. task'[x].job \in Job
    BY <1>2, TaskTypesStep DEF TaskTypes
  <2>2. CASE task'[x] = task[x]
    BY <1>2, <2>1, <2>2, SnapshotStays DEF IndexInv
  <2>3. ASSUME NEW a \in Answer, Push(x, a), task[x].pc = "push"
        PROVE  dlq'[task'[x].job] # None
    <3>1. /\ task[x] \in Task /\ task \in [Runner -> Task]
          /\ dlq \in [Job -> Entry \cup {None}] /\ task[x].snap # None
      BY <2>3, JobAssumption DEF TypeOK, TaskTypes, StoreTypes
    <3>2. task'[x].job = task[x].job
      BY <2>3, <3>1 DEF Push, Become, Task
    <3>3. a = "ok"
      BY <1>2, <2>3, <3>2 DEF Push, Excuse
    <3> QED
      BY <2>1, <2>3, <3>1, <3>2, <3>3 DEF Push
  <2> QED
    BY <1>2, <2>2, <2>3, PushPcs
<1>3. (admin.pc = "unlist" => admin.job \in excused)'
  <2>1. CASE AdminStep
    <3>1. admin \in Operator
      BY DEF TypeOK, AdminTypes
    <3> QED
      BY <2>1, <3>1 DEF AdminStep, AdminOpen, AdminRestore, AdminRemove,
                        AdminUnlist, NoAdmin, Operator
  <2>2. CASE UNCHANGED admin /\ excused \subseteq excused'
    BY <2>2 DEF IndexInv
  <2>3. ASSUME NEW x \in Runner, TaskStep(x)
        PROVE  UNCHANGED admin /\ excused \subseteq excused'
    BY <2>3 DEF TaskStep, Read, Write, Count, Inspect, Push, PushIndex,
                Optimize, OptimizeRaises, Return, Excuse
  <2>4. CASE Environment
    <3>1. Restart \/ (UNCHANGED admin /\ excused \subseteq excused')
      BY <2>4 DEF Environment, ExpireJob, ExpireKey, ExpireSnapshot,
                  CrashTask, CrashRequest, Timeout, TimeoutUncaught
    <3> QED
      BY <2>2, <3>1 DEF Restart, NoAdmin
  <2>5. CASE UNCHANGED vars
    BY <2>2, <2>5 DEF vars
  <2> QED
    BY <2>1, <2>2, <2>3, <2>4, <2>5, RequestFrame, TakeFrame DEF Next
<1> QED
  BY <1>1, <1>2, <1>3 DEF IndexInv

\* A job marked dead that neither a fault nor the operator touched.
Dead(j) == store[j] # None /\ store[j].status = "dead" /\ j \notin excused

\* What the operator can be shown of it, and who will put it there.
Shown(j)   == dlq[j] # None /\ (HasRedis => j \in ListJobs)
Pushing(j) == \E x \in Runner : task[x].job = j /\ task[x].pc \in {"push", "list"}

\* Only a run that goes on to push its snapshot marks a job dead.
LEMMA OnlyBuried ==
  ASSUME TypeOK, [Next]_vars, NEW j \in Job, Dead(j)', j \notin excused
  PROVE  Dead(j) \/ Pushing(j)'
<1>1. /\ store \in [Job -> Entry \cup {None}] /\ task \in [Runner -> Task]
      /\ admin \in Operator
  BY DEF TypeOK, StoreTypes, TaskTypes, AdminTypes
<1>2. CASE store'[j] = store[j]
  BY <1>2 DEF Dead
<1>3. ASSUME NEW r \in Request, RequestStep(r) PROVE Dead(j)
  <2>1. ASSUME NEW a \in Answer, Create(r, a) PROVE store'[j] = store[j]
    <3>1. PICK i \in Job : store' = IF a = "ok"
                                     THEN [store EXCEPT ![i] = NewEntry]
                                     ELSE store
      BY <2>1 DEF Create
    <3>2. NewEntry.status = "queued"
      BY DEF NewEntry
    <3> QED
      BY <1>1, <3>1, <3>2 DEF Dead
  <2>2. UNCHANGED store \/ \E a \in Answer : Create(r, a)
    BY <1>3 DEF RequestStep, Submit, Lookup, Check, Remember, EnqueueRq,
                EnqueueLocal
  <2>3. store'[j] = store[j]
    BY <2>1, <2>2
  <2> QED
    BY <2>3 DEF Dead
<1>4. ASSUME NEW x \in Runner, NEW a \in Answer, Write(x, a),
             store'[j] # store[j]
      PROVE  Pushing(j)'
  <2>1. /\ task[x].job = j /\ a = "ok" /\ task[x].copy \in Entry
        /\ store'[j] = Updated(task[x])
    BY <1>1, <1>4 DEF Write, Task
  <2>2. task[x].pc = "burying"
    BY <1>4, <2>1 DEF Write, WritePc, Updated, Entry, Dead
  <2>3. task'[x] = [task[x] EXCEPT !.copy = None, !.pc = "push"]
    BY <1>1, <1>4, <2>2 DEF Write, Onward, Become
  <2>4. task'[x].job = j /\ task'[x].pc = "push"
    BY <1>1, <2>1, <2>3 DEF Task
  <2> QED
    BY <2>4 DEF Pushing
<1>5. ASSUME NEW x \in Runner, TaskStep(x), ~\E a \in Answer : Write(x, a)
      PROVE  UNCHANGED store
  BY <1>5 DEF TaskStep, Read, Count, Inspect, Push, PushIndex, Optimize,
              OptimizeRaises, Return
<1>6. CASE AdminStep
  <2>1. ASSUME NEW a \in Answer, AdminRestore(a) PROVE store'[j] = store[j]
    BY <1>1, <2>1 DEF AdminRestore, Dead
  <2>2. CASE ~\E a \in Answer : AdminRestore(a)
    BY <1>2, <1>6, <2>2 DEF AdminStep, AdminOpen, AdminRemove, AdminUnlist
  <2> QED
    BY <1>2, <2>1, <2>2
<1>7. CASE Environment
  BY <1>1, <1>2, <1>7 DEF Environment, ExpireJob, ExpireKey, ExpireSnapshot,
       CrashTask, CrashRequest, Timeout, TimeoutUncaught, Restart, Dead
<1>8. CASE UNCHANGED vars
  BY <1>2, <1>8 DEF vars
<1> QED
  BY <1>2, <1>3, <1>4, <1>5, <1>6, <1>7, <1>8, TakeFrame DEF Next

\* A job leaves the index only at the hands of the operator.
LEMMA IndexStays ==
  ASSUME IndexInv, [Next]_vars, NEW j \in Job, j \notin excused, j \in listed
  PROVE  j \in listed'
<1>1. CASE AdminStep
  BY <1>1 DEF AdminStep, AdminOpen, AdminRestore, AdminRemove, AdminUnlist,
              IndexInv
<1>2. ASSUME NEW x \in Runner, TaskStep(x) PROVE j \in listed'
  BY <1>2 DEF TaskStep, Read, Write, Count, Inspect, Push, PushIndex,
              Optimize, OptimizeRaises, Return
<1>3. CASE Environment
  BY <1>3 DEF Environment, ExpireJob, ExpireKey, ExpireSnapshot, CrashTask,
              CrashRequest, Timeout, TimeoutUncaught, Restart
<1>4. CASE UNCHANGED vars
  BY <1>4 DEF vars
<1> QED
  BY <1>1, <1>2, <1>3, <1>4, RequestFrame, TakeFrame DEF Next

LEMMA DeadIsInspectableStep ==
  TypeOK /\ ThreadInv /\ IndexInv /\ DeadIsInspectable /\ [Next]_vars
    => DeadIsInspectable'
<1> SUFFICES ASSUME TypeOK, ThreadInv, IndexInv, DeadIsInspectable,
                    [Next]_vars, NEW j \in Job, Dead(j)'
             PROVE  Shown(j)' \/ Pushing(j)'
  BY DEF DeadIsInspectable, Dead, Shown, Pushing
<1>1. ~Restart
  BY DEF Restart, Dead
<1>2. j \notin excused /\ j \notin excused' /\ (dlq[j] # None => dlq'[j] # None)
  BY <1>1, SnapshotStays DEF Dead
<1>3. CASE Shown(j)
  BY <1>2, <1>3, IndexStays DEF Shown, ListJobs, Index
<1>4. ASSUME NEW x \in Runner, task[x].job = j, task[x].pc \in {"push", "list"}
      PROVE  Shown(j)' \/ Pushing(j)'
  <2>1. task \in [Runner -> Task]
    BY DEF TypeOK, TaskTypes
  <2>2. CASE task'[x] = task[x]
    BY <1>4, <2>2 DEF Pushing
  <2>3. ASSUME NEW a \in Answer, Push(x, a) PROVE Pushing(j)'
    BY <1>4, <2>1, <2>3 DEF Push, Become, Pushing, Task
  <2>4. ASSUME NEW a \in Answer, PushIndex(x, a) PROVE Shown(j)'
    <3>1. a = "ok" /\ UNCHANGED dlq
      BY <1>2, <1>4, <2>4 DEF PushIndex, Excuse
    <3>2. dlq[j] # None
      BY <1>2, <1>4, <2>4 DEF PushIndex, IndexInv
    <3> QED
      BY <1>4, <2>4, <3>1, <3>2 DEF PushIndex, Shown, ListJobs, Index
  <2> QED
    BY <1>1, <1>2, <1>4, <2>2, <2>3, <2>4, PushPcs
<1>5. CASE Dead(j)
  BY <1>3, <1>4, <1>5 DEF DeadIsInspectable, Dead, Shown, Pushing
<1> QED
  BY <1>2, <1>5, OnlyBuried

\* A job marked dead is in the dead letter queue and in the operator's listing
\* of it, or about to be, whatever other runs of the job are doing, with the
\* same jobs excused.
THEOREM DeadJobsInspectable == Spec => []DeadIsInspectable
<1>1. Init => ThreadInv /\ IndexInv /\ DeadIsInspectable
  BY DEF Init, ThreadInv, IndexInv, DeadIsInspectable, NewRequest, Idle,
         NoAdmin, Runner
<1>2. TypeOK /\ ThreadInv /\ IndexInv /\ DeadIsInspectable /\ [Next]_vars
        => ThreadInv' /\ IndexInv' /\ DeadIsInspectable'
  BY ThreadInvStep, IndexInvStep, DeadIsInspectableStep
<1> QED
  BY <1>1, <1>2, TypeCorrect, PTL DEF Spec

-----------------------------------------------------------------------------
(* The job system keeps the promise of JobPromise, where a job is delivered *)
(* once: without keys no request enqueues another's job, no ambiguous       *)
(* enqueue puts it into two places, and, with a limit above one, nothing is *)
(* buried for the operator to bring back.  A job timeout that strikes after *)
(* mark_completed is the one thing that undoes a final status of a job that *)
(* is delivered once.                                                       *)

SingleDelivery ==
  /\ Key = {}
  /\ MaxRetries > 1
  /\ Faults \cap {"enqueue", "timeout"} = {}

OpenOrGone(j) == store[j] # None => store[j].status \in {"queued", "running"}

\* A job that no run has taken up.
Unrun(j) == j \in issued /\ failures[j] = 0 /\ OpenOrGone(j)

\* Where a run can be before its one attempt has failed.
Attempt == {"start", "starting", "run", "complete", "completing", "count"}

Hands(r) == req[r].pc = "enqueue"
Runs(x)  == task[x].pc # "idle"

Handing ==
  \A r \in Request : /\ req[r].pc \in {"new", "create", "enqueue", "done", "lost"}
                     /\ Hands(r) => Unrun(req[r].job)

Waits == \A i \in 1..Len(queue) : Unrun(queue[i])

\* Nothing settled the job of a run before the run's last update, and no
\* second failure buries it.
OwnRun(x) ==
  Runs(x) =>
    /\ task[x].job \in issued
    /\ task[x].pc \in Attempt
         \cup {"return", "recount", "requeueing", "fail", "failing"}
    /\ task[x].pc \in Attempt => failures[task[x].job] = 0
    /\ task[x].count <= 1
    /\ task[x].pc # "return" => OpenOrGone(task[x].job)

\* A job is in one place: with a handler, in the queue, or in a run.
ApartHands ==
  /\ \A r, s \in Request : Hands(r) /\ Hands(s) /\ req[r].job = req[s].job => r = s
  /\ \A r \in Request : Hands(r) => ~InQueue(req[r].job)
  /\ \A r \in Request, x \in Runner :
       Hands(r) /\ Runs(x) => req[r].job # task[x].job

ApartRuns ==
  /\ \A x, y \in Runner : Runs(x) /\ Runs(y) /\ task[x].job = task[y].job => x = y
  /\ \A x \in Runner : Runs(x) => ~InQueue(task[x].job)

ApartQueue == \A i, k \in 1..Len(queue) : queue[i] = queue[k] => i = k

Untouched == \A j \in Job \ issued : store[j] = None /\ failures[j] = 0

Quiet == (\A j \in Job : dlq[j] = None) /\ admin.pc = "idle"

SingleInv ==
  /\ Handing /\ Waits /\ \A x \in Runner : OwnRun(x)
  /\ ApartHands /\ ApartRuns /\ ApartQueue
  /\ Untouched /\ Quiet

-----------------------------------------------------------------------------
(* The steps that are left in such a system.                                *)

HandlerStep(r) ==
  Submit(r) \/ (\E a \in Answer : Create(r, a)) \/ EnqueueRq(r) \/ EnqueueLocal(r)

RunStep(x, a) ==
  \/ Read(x, a) \/ Write(x, a) \/ Count(x, a)
  \/ Optimize(x) \/ OptimizeRaises(x) \/ Return(x)

LossStep ==
  \/ \E j \in Job : ExpireJob(j)
  \/ \E x \in Runner : CrashTask(x)
  \/ \E r \in Request : CrashRequest(r)
  \/ Restart

LEMMA SingleSteps ==
  ASSUME SingleDelivery, TypeOK, SingleInv, Next
  PROVE  \/ \E r \in Request : HandlerStep(r)
         \/ \E w \in Worker : Take(w)
         \/ \E x \in Runner, a \in Answer : RunStep(x, a)
         \/ LossStep
<1>1. ASSUME NEW r \in Request, RequestStep(r) PROVE HandlerStep(r)
  <2>1. req[r].pc \in {"new", "create", "enqueue", "done", "lost"}
    BY DEF SingleInv, Handing
  <2>2. \A a \in Answer : ~Lookup(r, a) /\ ~Check(r, a) /\ ~Remember(r, a)
    BY <2>1 DEF Lookup, Check, Remember
  <2> QED
    BY <1>1, <2>2 DEF RequestStep, HandlerStep
<1>2. ASSUME NEW x \in Runner, TaskStep(x)
      PROVE  \E a \in Answer : RunStep(x, a)
  <2>1. Runs(x)
    <3>1. \A a \in Answer :
            ~(task[x].pc = "idle" /\ (Read(x, a) \/ Write(x, a)))
      BY DEF Read, ReadPc, Write, WritePc
    <3>2. \A a \in Answer :
            ~(task[x].pc = "idle" /\ \/ Count(x, a) \/ Inspect(x, a)
                                     \/ Push(x, a) \/ PushIndex(x, a))
      BY DEF Count, Inspect, Push, PushIndex
    <3> QED
      BY <1>2, <3>1, <3>2 DEF TaskStep, Optimize, OptimizeRaises, Return, Runs
  <2>2. task[x].pc \notin {"inspect", "push", "list"}
    BY <2>1 DEF SingleInv, OwnRun, Attempt
  <2>3. \A a \in Answer : ~Inspect(x, a) /\ ~Push(x, a) /\ ~PushIndex(x, a)
    BY <2>2 DEF Inspect, Push, PushIndex
  <2> QED
    BY <1>2, <2>3 DEF TaskStep, RunStep, Answer
<1>3. ~AdminStep
  BY DEF AdminStep, AdminOpen, AdminRestore, AdminRemove, AdminUnlist, SingleInv,
         Quiet
<1>4. Environment => LossStep
  <2>1. \A j \in Job : ~ExpireSnapshot(j)
    BY DEF ExpireSnapshot, SingleInv, Quiet
  <2>2. \A x \in Runner : ~Timeout(x) /\ ~TimeoutUncaught(x)
    BY DEF Timeout, TimeoutUncaught, Fault, SingleDelivery
  <2> QED
    BY <2>1, <2>2 DEF Environment, LossStep, SingleDelivery
<1> QED
  BY <1>1, <1>2, <1>3, <1>4 DEF Next

-----------------------------------------------------------------------------
(* No step brings a job to a second place.                                  *)

\* What a step that moves no job further preserves.
LEMMA FewerPlaces ==
  ASSUME TypeOK, SingleInv, UNCHANGED <<queue, failures, issued>>,
         \A r \in Request :
           /\ req'[r].pc \in {"new", "create", "enqueue", "done", "lost"}
           /\ Hands(r)' => Hands(r) /\ req'[r].job = req[r].job,
         \A x \in Runner : Runs(x)' => Runs(x) /\ task'[x] = task[x],
         \A j \in Job : store'[j] \in {store[j], None},
         Quiet'
  PROVE  SingleInv'
<1>0. /\ issued \subseteq Job
      /\ \A i \in 1..Len(queue) : queue[i] \in Job
      /\ \A x \in Runner : Runs(x) => task[x].job \in Job
      /\ Handing /\ Waits /\ \A x \in Runner : OwnRun(x)
      /\ ApartHands /\ ApartRuns /\ ApartQueue /\ Untouched
  BY DEF TypeOK, HistoryTypes, StoreTypes, TaskTypes, SingleInv, Runs
<1>1. \A j \in Job : OpenOrGone(j) => (store'[j] # None
                       => store'[j].status \in {"queued", "running"})
  BY DEF OpenOrGone
<1>2. Handing'
  BY <1>0, <1>1 DEF Handing, Unrun, OpenOrGone
<1>3. Waits'
  BY <1>0, <1>1 DEF Waits, Unrun, OpenOrGone
<1>4. ASSUME NEW x \in Runner PROVE OwnRun(x)'
  BY <1>0, <1>1, <1>4 DEF OwnRun, OpenOrGone
<1>5. ApartHands'
  BY <1>0 DEF ApartHands, InQueue
<1>6. ApartRuns' /\ ApartQueue'
  BY <1>0 DEF ApartRuns, ApartQueue, InQueue
<1>7. Untouched'
  BY <1>0 DEF Untouched
<1> QED
  BY <1>2, <1>3, <1>4, <1>5, <1>6, <1>7 DEF SingleInv

LEMMA LossKeeps ==
  ASSUME TypeOK, SingleInv, LossStep
  PROVE  SingleInv'
<1>0. /\ req \in [Request -> Handler] /\ task \in [Runner -> Task]
      /\ store \in [Job -> Entry \cup {None}]
      /\ Quiet /\ \A r \in Request : req[r].pc \in {"new", "create", "enqueue",
                                                     "done", "lost"}
  BY DEF TypeOK, RequestTypes, TaskTypes, StoreTypes, SingleInv, Handing
<1>1. ASSUME NEW j \in Job, ExpireJob(j) PROVE SingleInv'
  <2>1. UNCHANGED <<queue, failures, issued, req, task, dlq, admin>>
    BY <1>1 DEF ExpireJob
  <2>2. \A i \in Job : store'[i] \in {store[i], None}
    BY <1>0, <1>1 DEF ExpireJob
  <2> QED
    BY <1>0, <2>1, <2>2, FewerPlaces DEF Quiet, Hands, Runs
<1>2. ASSUME NEW x \in Runner, CrashTask(x) PROVE SingleInv'
  <2>1. UNCHANGED <<queue, failures, issued, req, store, dlq, admin>>
    BY <1>2 DEF CrashTask
  <2>2. \A y \in Runner : Runs(y)' => Runs(y) /\ task'[y] = task[y]
    BY <1>0, <1>2 DEF CrashTask, Become, Idle, Runs
  <2> QED
    BY <1>0, <2>1, <2>2, FewerPlaces DEF Quiet, Hands
<1>3. ASSUME NEW r \in Request, CrashRequest(r) PROVE SingleInv'
  <2>1. UNCHANGED <<queue, failures, issued, task, store, dlq, admin>>
    BY <1>3 DEF CrashRequest
  <2>2. \A s \in Request :
          /\ req'[s].pc \in {"new", "create", "enqueue", "done", "lost"}
          /\ Hands(s)' => Hands(s) /\ req'[s].job = req[s].job
    BY <1>0, <1>3 DEF CrashRequest, Handler, Hands
  <2> QED
    BY <1>0, <2>1, <2>2, FewerPlaces DEF Quiet, Runs
<1>4. CASE Restart
  <2>1. /\ UNCHANGED <<queue, failures, issued>>
        /\ \A j \in Job : store'[j] = None /\ dlq'[j] = None
        /\ admin'.pc = "idle"
        /\ \A x \in Runner : task'[x].pc = "idle"
    BY <1>4 DEF Restart, Idle, NoAdmin
  <2>2. ASSUME NEW s \in Request
        PROVE  /\ req'[s].pc \in {"new", "create", "enqueue", "done", "lost"}
               /\ Hands(s)' => Hands(s) /\ req'[s].job = req[s].job
    <3>1. req'[s] = IF req[s].pc \in {"new", "done"} THEN req[s]
                    ELSE [req[s] EXCEPT !.pc = "lost"]
      BY <1>4 DEF Restart
    <3> QED
      BY <1>0, <3>1 DEF Handler, Hands
  <2> QED
    BY <2>1, <2>2, FewerPlaces DEF Quiet, Runs
<1> QED
  BY <1>1, <1>2, <1>3, <1>4 DEF LossStep

\* Where a handler and a worker put the job they move.
LEMMA Appended ==
  ASSUME TypeOK, NEW j \in Job, queue' = Append(queue, j)
  PROVE  /\ Len(queue') = Len(queue) + 1 /\ Len(queue) \in Nat
         /\ \A i \in 1..Len(queue) : queue'[i] = queue[i]
         /\ queue'[Len(queue) + 1] = j
BY DEF TypeOK, StoreTypes

LEMMA Taken ==
  ASSUME TypeOK, queue # << >>, queue' = Tail(queue)
  PROVE  /\ Len(queue') = Len(queue) - 1 /\ Len(queue) \in Nat
         /\ \A i \in 1..Len(queue') : queue'[i] = queue[i + 1]
         /\ Len(queue) > 0 /\ Head(queue) = queue[1] /\ Head(queue) \in Job
BY DEF TypeOK, StoreTypes

LEMMA HandlerKeeps ==
  ASSUME SingleDelivery, TypeOK, SingleInv, NEW r \in Request, HandlerStep(r)
  PROVE  SingleInv'
<1>0. /\ req \in [Request -> Handler] /\ task \in [Runner -> Task]
      /\ store \in [Job -> Entry \cup {None}] /\ issued \subseteq Job
      /\ r \in Runner /\ Key = {} /\ None \notin Job
      /\ \A i \in 1..Len(queue) : queue[i] \in Job
      /\ \A x \in Runner : Runs(x) => task[x].job \in Job
      /\ \A s \in Request : Hands(s) => req[s].job \in Job
  BY JobAssumption DEF TypeOK, RequestTypes, TaskTypes, StoreTypes, HistoryTypes,
                       Runner, SingleDelivery, Runs, Hands
<1>1. /\ Handing /\ Waits /\ \A x \in Runner : OwnRun(x)
      /\ ApartHands /\ ApartRuns /\ ApartQueue /\ Untouched /\ Quiet
  BY DEF SingleInv
<1>2. UNCHANGED <<dlq, admin, failures>>
  BY DEF HandlerStep, Submit, Create, EnqueueRq, EnqueueLocal
<1>3. Quiet'
  BY <1>1, <1>2 DEF Quiet
<1>4. CASE Submit(r)
  <2>1. UNCHANGED <<queue, issued, task, store>>
    BY <1>4 DEF Submit
  <2>2. req'[r].pc = "create" /\ \A s \in Request : s # r => req'[s] = req[s]
    BY <1>0, <1>4 DEF Submit, Handler
  <2> QED
    BY <1>1, <1>2, <1>3, <2>1, <2>2, FewerPlaces DEF Handing, Hands, Runs
<1>5. ASSUME NEW a \in Answer, Create(r, a) PROVE SingleInv'
  <2>1. PICK j \in Job \ issued :
          /\ issued' = issued \cup {j}
          /\ store' = IF a = "ok" THEN [store EXCEPT ![j] = NewEntry] ELSE store
          /\ req' = [req EXCEPT ![r].job = j,
                                ![r].pc = IF req[r].key = None
                                            THEN "enqueue" ELSE "remember"]
    BY <1>5 DEF Create
  <2>2. req[r].key = None /\ UNCHANGED <<queue, task>>
    BY <1>0, <1>5 DEF Create, Handler
  <2>3. /\ \A s \in Request : s # r => req'[s] = req[s]
        /\ req'[r].pc = "enqueue" /\ req'[r].job = j
        /\ \A i \in Job : i # j => store'[i] = store[i]
        /\ store'[j] \in {NewEntry, store[j]}
    BY <1>0, <2>1, <2>2 DEF Handler
  <2>4. \A i \in issued : i # j /\ i \in issued' /\ i \in Job
    BY <1>0, <2>1
  <2>5. Unrun(j)'
    BY <1>1, <1>2, <2>1, <2>3 DEF Untouched, Unrun, OpenOrGone, NewEntry
  <2>6. Handing'
    <3>1. ASSUME NEW s \in Request, s # r
          PROVE  /\ req'[s].pc \in {"new", "create", "enqueue", "done", "lost"}
                 /\ Hands(s)' => Unrun(req[s].job)'
      BY <1>1, <1>2, <2>3, <2>4, <3>1 DEF Handing, Hands, Unrun, OpenOrGone
    <3>2. Hands(r)' => Unrun(req[r].job)'
      BY <2>3, <2>5 DEF Unrun, OpenOrGone
    <3> QED
      BY <2>3, <3>1, <3>2 DEF Handing
  <2>7. Waits'
    BY <1>1, <1>2, <2>2, <2>3, <2>4 DEF Waits, Unrun, OpenOrGone
  <2>8. ASSUME NEW x \in Runner PROVE OwnRun(x)'
    BY <1>1, <1>2, <2>2, <2>3, <2>4, <2>8 DEF OwnRun, Runs, OpenOrGone
  <2>9. ApartHands'
    <3>1. \A s \in Request : Hands(s) => req[s].job # j
      BY <1>1, <2>4 DEF Handing, Unrun
    <3>2. ~InQueue(j) /\ \A x \in Runner : Runs(x) => task[x].job # j
      BY <1>1, <2>4 DEF Waits, Unrun, InQueue, OwnRun
    <3> QED
      BY <1>1, <2>2, <2>3, <3>1, <3>2 DEF ApartHands, Hands, Runs, InQueue
  <2>10. ApartRuns' /\ ApartQueue'
    BY <1>1, <2>2 DEF ApartRuns, ApartQueue, Runs, InQueue
  <2>11. Untouched'
    BY <1>1, <1>2, <2>1, <2>3 DEF Untouched
  <2> QED
    BY <1>3, <2>6, <2>7, <2>8, <2>9, <2>10, <2>11 DEF SingleInv
<1>6. CASE EnqueueRq(r) \/ EnqueueLocal(r)
  <2> DEFINE j == req[r].job
  <2>1. /\ Hands(r) /\ UNCHANGED <<store, issued>>
        /\ req' = [req EXCEPT ![r].pc = "done"]
    BY <1>6 DEF EnqueueRq, EnqueueLocal, Hands
  <2>2. /\ \A s \in Request : s # r => req'[s] = req[s]
        /\ req'[r].pc = "done"
    BY <1>0, <2>1 DEF Handler
  <2>3. /\ j \in Job /\ Unrun(j) /\ ~InQueue(j)
        /\ \A s \in Request : Hands(s) /\ s # r => req[s].job # j
        /\ \A x \in Runner : Runs(x) => task[x].job # j
    BY <1>0, <1>1, <2>1 DEF Handing, ApartHands
  <2> HIDE DEF j
  <2>4. Handing' /\ Untouched'
    BY <1>1, <1>2, <2>1, <2>2 DEF Handing, Hands, Unrun, OpenOrGone, Untouched
  <2>5. CASE EnqueueRq(r)
    <3>1. queue' = Append(queue, j) /\ UNCHANGED task
      BY <2>5 DEF EnqueueRq, j
    <3>2. /\ Len(queue') = Len(queue) + 1 /\ Len(queue) \in Nat
          /\ \A i \in 1..Len(queue) : queue'[i] = queue[i]
          /\ queue'[Len(queue) + 1] = j
      BY <2>3, <3>1, Appended
    <3>3. \A i \in 1..Len(queue') : i \in 1..Len(queue) \/ i = Len(queue) + 1
      BY <3>2
    <3>4. Waits'
      BY <1>1, <1>2, <2>1, <2>3, <3>2, <3>3 DEF Waits, Unrun, OpenOrGone
    <3>5. ASSUME NEW x \in Runner PROVE OwnRun(x)'
      BY <1>1, <1>2, <2>1, <3>1, <3>5 DEF OwnRun, Runs, OpenOrGone
    <3>6. \A i \in Job : InQueue(i)' => InQueue(i) \/ i = j
      BY <3>2, <3>3 DEF InQueue
    <3>7. ApartHands'
      BY <1>0, <1>1, <2>2, <2>3, <3>1, <3>6 DEF ApartHands, Hands, Runs
    <3>8. ApartRuns'
      BY <1>0, <1>1, <2>3, <3>1, <3>6 DEF ApartRuns, Runs
    <3>9. ApartQueue'
      BY <1>1, <2>3, <3>2, <3>3 DEF ApartQueue, InQueue
    <3> QED
      BY <1>3, <2>4, <3>4, <3>5, <3>7, <3>8, <3>9 DEF SingleInv
  <2>6. CASE EnqueueLocal(r)
    <3>1. UNCHANGED queue /\ Become(r, Started(j))
      BY <2>6 DEF EnqueueLocal, Fault, SingleDelivery, j
    <3>2. /\ \A x \in Runner : x # r => task'[x] = task[x]
          /\ task'[r].pc = "start" /\ task'[r].job = j /\ task'[r].count = 0
      BY <1>0, <3>1 DEF Become, Started, Idle
    <3>3. Waits' /\ ApartQueue'
      BY <1>1, <1>2, <2>1, <3>1 DEF Waits, Unrun, OpenOrGone, ApartQueue
    <3>4. ASSUME NEW x \in Runner PROVE OwnRun(x)'
      <4>1. CASE x = r
        BY <1>2, <2>1, <2>3, <3>2, <4>1 DEF OwnRun, Unrun, OpenOrGone, Attempt
      <4>2. CASE x # r
        BY <1>1, <1>2, <2>1, <3>2, <3>4, <4>2 DEF OwnRun, Runs, OpenOrGone
      <4> QED
        BY <4>1, <4>2
    <3>5. ApartHands'
      BY <1>1, <2>2, <2>3, <3>1, <3>2 DEF ApartHands, Hands, Runs, InQueue
    <3>6. ApartRuns'
      BY <1>1, <2>3, <3>1, <3>2 DEF ApartRuns, Runs, InQueue
    <3> QED
      BY <1>3, <2>4, <3>3, <3>4, <3>5, <3>6 DEF SingleInv
  <2> QED
    BY <1>6, <2>5, <2>6
<1> QED
  BY <1>4, <1>5, <1>6 DEF HandlerStep

LEMMA TakeKeeps ==
  ASSUME TypeOK, SingleInv, NEW w \in Worker, Take(w)
  PROVE  SingleInv'
<1> DEFINE j == Head(queue)
<1>0. /\ task \in [Runner -> Task] /\ w \in Runner
      /\ Handing /\ Waits /\ \A x \in Runner : OwnRun(x)
      /\ ApartHands /\ ApartRuns /\ ApartQueue /\ Untouched /\ Quiet
  BY DEF TypeOK, TaskTypes, Runner, SingleInv
<1>1. /\ UNCHANGED <<store, dlq, req, admin, issued, failures>>
      /\ queue # << >> /\ queue' = Tail(queue) /\ Become(w, Started(j))
  BY DEF Take
<1>2. /\ Len(queue') = Len(queue) - 1 /\ Len(queue) \in Nat
      /\ \A i \in 1..Len(queue') : queue'[i] = queue[i + 1]
      /\ Len(queue) > 0 /\ j = queue[1] /\ j \in Job
  BY <1>1, Taken
<1> HIDE DEF j
<1>3. /\ \A x \in Runner : x # w => task'[x] = task[x]
      /\ task'[w].pc = "start" /\ task'[w].job = j /\ task'[w].count = 0
  BY <1>0, <1>1 DEF Become, Started, Idle
<1>4. \A i \in 1..Len(queue') : i + 1 \in 1..Len(queue) /\ i + 1 # 1
  BY <1>2
<1>5. InQueue(j) /\ 1 \in 1..Len(queue)
  BY <1>2 DEF InQueue
<1>6. /\ Unrun(j)
      /\ \A r \in Request : Hands(r) => req[r].job # j
      /\ \A x \in Runner : Runs(x) => task[x].job # j
  BY <1>0, <1>2, <1>5 DEF Waits, ApartHands, ApartRuns
<1>7. \A i : InQueue(i)' => InQueue(i) /\ i # j
  BY <1>0, <1>2, <1>4, <1>5 DEF InQueue, ApartQueue
<1>8. Handing' /\ Untouched' /\ Quiet'
  BY <1>0, <1>1 DEF Handing, Hands, Unrun, OpenOrGone, Untouched, Quiet
<1>9. Waits'
  BY <1>0, <1>1, <1>2, <1>4 DEF Waits, Unrun, OpenOrGone
<1>10. ASSUME NEW x \in Runner PROVE OwnRun(x)'
  <2>1. CASE x = w
    BY <1>1, <1>3, <1>6, <2>1 DEF OwnRun, Unrun, OpenOrGone, Attempt
  <2>2. CASE x # w
    BY <1>0, <1>1, <1>3, <1>10, <2>2 DEF OwnRun, Runs, OpenOrGone
  <2> QED
    BY <2>1, <2>2
<1>11. ApartHands'
  BY <1>0, <1>1, <1>3, <1>6, <1>7 DEF ApartHands, Hands, Runs
<1>12. ApartRuns'
  BY <1>0, <1>3, <1>6, <1>7 DEF ApartRuns, Runs
<1>13. ApartQueue'
  <2> SUFFICES ASSUME NEW i \in 1..Len(queue'), NEW k \in 1..Len(queue'),
                      queue'[i] = queue'[k]
               PROVE  i = k
    BY DEF ApartQueue
  <2>1. i + 1 = k + 1
    BY <1>0, <1>2, <1>4 DEF ApartQueue
  <2> QED
    BY <2>1
<1> QED
  BY <1>8, <1>9, <1>10, <1>11, <1>12, <1>13 DEF SingleInv

\* What a step of a run makes of its worker or thread and of its job's entry.
LEMMA RunGoesOn ==
  ASSUME SingleDelivery, TypeOK, HistoryInv, SingleInv,
         NEW x \in Runner, NEW a \in Answer, RunStep(x, a)
  PROVE  /\ Runs(x) /\ task[x].job \in Job
         /\ UNCHANGED <<dlq, admin, req, queue, issued>>
         /\ \A y \in Runner : y # x => task'[y] = task[y]
         /\ \A i \in Job : i # task[x].job =>
              store'[i] = store[i] /\ failures'[i] = failures[i]
         /\ Runs(x)' => task'[x].job = task[x].job
         /\ OwnRun(x)'
<1> DEFINE t == task[x]
           j == task[x].job
           StillOpen == store'[j] # None => store'[j].status \in {"queued", "running"}
<1>0. /\ task \in [Runner -> Task] /\ store \in [Job -> Entry \cup {None}]
      /\ failures \in [Job -> Nat] /\ OwnRun(x)
      /\ MaxRetries \in Nat /\ MaxRetries > 1
      /\ None \notin Entry /\ issued \subseteq Job
  BY JobAssumption DEF TypeOK, TaskTypes, StoreTypes, HistoryTypes,
                       SingleDelivery, SingleInv
<1>1. /\ Runs(x) /\ j \in issued /\ j \in Job /\ t \in Task /\ j = t.job
      /\ t.count <= 1
      /\ t.pc \in Attempt => failures[j] = 0
      /\ t.pc # "return" => OpenOrGone(j)
      /\ t.pc \in Attempt
           \cup {"return", "recount", "requeueing", "fail", "failing"}
  <2>1. Runs(x)
    BY DEF RunStep, Read, ReadPc, Write, WritePc, Count, Optimize,
           OptimizeRaises, Return, Runs
  <2> QED
    BY <1>0, <2>1 DEF OwnRun
<1>2. UNCHANGED <<dlq, admin, req, queue, issued>>
  BY DEF RunStep, Read, Write, Count, Optimize, OptimizeRaises, Return
<1>3. ASSUME NEW u, Become(x, u),
             u.pc # "idle" =>
               /\ u.job = j /\ u.count <= 1
               /\ u.pc \in Attempt
                    \cup {"return", "recount", "requeueing", "fail", "failing"}
               /\ u.pc \in Attempt => failures'[j] = 0
               /\ u.pc # "return" => StillOpen
      PROVE  /\ OwnRun(x)' /\ \A y \in Runner : y # x => task'[y] = task[y]
             /\ Runs(x)' => task'[x].job = j
  <2>1. task'[x] = u /\ \A y \in Runner : y # x => task'[y] = task[y]
    BY <1>0, <1>3 DEF Become
  <2> QED
    BY <1>1, <1>2, <1>3, <2>1 DEF OwnRun, OpenOrGone, Runs
<1> DEFINE Going == /\ OwnRun(x)' /\ \A y \in Runner : y # x => task'[y] = task[y]
                    /\ Runs(x)' => task'[x].job = j
           Elsewhere == \A i \in Job :
             i # j => store'[i] = store[i] /\ failures'[i] = failures[i]
<1> HIDE DEF t
<1> SUFFICES Going /\ Elsewhere
  BY <1>1, <1>2 DEF t
<1>4. CASE Read(x, a)
  <2> DEFINE u == [t EXCEPT !.pc = Updating(t.pc), !.copy = Got(a, store[j])]
  <2>1. Become(x, u) /\ t.pc \in ReadPc /\ UNCHANGED <<store, failures>>
    BY <1>4 DEF Read, t
  <2>2. t.pc \in {"start", "complete", "recount", "fail"}
    BY <1>1, <2>1 DEF ReadPc, Attempt
  <2>3. /\ u.job = t.job /\ u.count = t.count
        /\ u.pc \in {"starting", "completing", "requeueing", "failing"}
        /\ u.pc \in Attempt => t.pc \in Attempt
    BY <1>1, <2>2 DEF Task, Updating, Attempt
  <2>4. StillOpen
    BY <1>1, <2>1, <2>2 DEF OpenOrGone
  <2> HIDE DEF u
  <2>5. /\ u.job = j /\ u.count <= 1 /\ Become(x, u)
        /\ u.pc \in Attempt
             \cup {"return", "recount", "requeueing", "fail", "failing"}
    BY <1>1, <2>1, <2>3 DEF Attempt
  <2>6. u.pc \in Attempt => failures'[j] = 0
    BY <1>1, <2>1, <2>3
  <2>7. Going
    <3> HIDE DEF StillOpen
    <3> QED
      BY <1>3, <2>4, <2>5, <2>6
  <2> QED
    BY <2>1, <2>7
<1>5. CASE Write(x, a)
  <2>1. /\ t.pc \in WritePc /\ Become(x, Onward(t)) /\ UNCHANGED failures
        /\ store' = IF a = "ok" /\ t.copy # None
                      THEN [store EXCEPT ![j] = Updated(t)] ELSE store
    BY <1>5 DEF Write, t
  <2>2. t.pc \in {"starting", "completing", "requeueing", "failing"}
    BY <1>1, <2>1 DEF WritePc, Attempt
  <2>3. t.count \in Nat /\ ~(t.count >= MaxRetries)
    BY <1>0, <1>1 DEF Task
  <2>4. CASE t.pc = "failing"
    <3>1. Onward(t).pc = "idle"
      BY <2>4 DEF Onward, Idle
    <3> QED
      BY <1>0, <1>1, <1>3, <2>1, <3>1
  <2>5. CASE t.pc = "completing"
    <3>1. /\ Onward(t).pc = "return" /\ Onward(t).job = t.job
          /\ Onward(t).count = t.count
      BY <1>1, <2>5 DEF Onward, Task
    <3> QED
      BY <1>0, <1>1, <1>3, <2>1, <3>1 DEF Attempt
  <2>6. CASE t.pc \in {"starting", "requeueing"}
    <3>1. /\ Onward(t).job = t.job /\ Onward(t).count = t.count
          /\ Onward(t).pc = IF t.pc = "starting" THEN "run" ELSE "fail"
      BY <1>1, <2>3, <2>6 DEF Onward, Task
    <3>2. t.copy # None => /\ Updated(t) # None
                           /\ Updated(t).status \in {"queued", "running"}
      <4>1. t.copy # None => t.copy \in Entry
        BY <1>1 DEF Task
      <4>2. t.copy # None => Updated(t) \in Entry
        BY <2>3, <2>6, <4>1 DEF Updated, Entry, Status
      <4>3. t.copy # None => Updated(t).status \in {"queued", "running"}
        BY <2>6, <4>1 DEF Updated, Entry
      <4> QED
        BY <1>0, <4>2, <4>3
    <3>3. StillOpen
      <4>1. store'[j] = store[j] \/ (t.copy # None /\ store'[j] = Updated(t))
        BY <1>0, <1>1, <2>1
      <4>2. OpenOrGone(j)
        BY <1>1, <2>6
      <4> QED
        BY <3>2, <4>1, <4>2 DEF OpenOrGone
    <3>4. Going
      BY <1>1, <1>3, <2>1, <2>6, <3>1, <3>3 DEF Attempt
    <3> QED
      BY <1>0, <1>1, <2>1, <3>4
  <2> QED
    BY <2>2, <2>4, <2>5, <2>6
<1>6. CASE Count(x, a)
  <2> DEFINE e == Got(a, store[j])
             u == IF e = None THEN [t EXCEPT !.pc = "fail"]
                  ELSE [t EXCEPT !.pc = "recount", !.count = e.retries + 1]
  <2>1. /\ t.pc = "count" /\ UNCHANGED store
        /\ failures' = [failures EXCEPT ![j] = @ + 1]
        /\ Become(x, u)
    BY <1>6 DEF Count, t
  <2>2. e # None => e.retries = 0
    <3>1. e # None => e = store[j]
      BY DEF Got
    <3>2. store[j] # None => store[j].retries <= failures[j] /\ store[j] \in Entry
      BY <1>0, <1>1 DEF HistoryInv, StoreSound, SoundEntry, Sound
    <3>3. failures[j] = 0
      BY <1>1, <2>1 DEF Attempt
    <3> HIDE DEF e
    <3> QED
      BY <3>1, <3>2, <3>3 DEF Entry
  <2>3. StillOpen
    BY <1>1, <2>1 DEF OpenOrGone
  <2>4. u.pc \in {"fail", "recount"} /\ u.job = j /\ u.count <= 1
    <3> HIDE DEF e
    <3>1. CASE e = None
      BY <1>1, <3>1 DEF Task
    <3>2. CASE e # None
      <4>1. e.retries + 1 = 1
        BY <2>2, <3>2
      <4>2. u = [t EXCEPT !.pc = "recount", !.count = 1]
        BY <3>2, <4>1
      <4>3. u.pc = "recount" /\ u.job = t.job /\ u.count = 1
        <5> HIDE DEF u, j
        <5> QED
          BY <1>1, <4>2 DEF Task
      <4> QED
        BY <1>1, <4>3
    <3> QED
      BY <3>1, <3>2
  <2> HIDE DEF u, e
  <2>5. u.pc \notin Attempt
    BY <2>4 DEF Attempt
  <2>6. Going
    <3> HIDE DEF StillOpen
    <3> QED
      BY <1>3, <2>1, <2>3, <2>4, <2>5
  <2> QED
    BY <1>0, <1>1, <2>1, <2>6
<1>7. CASE Optimize(x) \/ OptimizeRaises(x)
  <2>1. PICK pc \in {"complete", "count"} :
          /\ Become(x, [t EXCEPT !.pc = pc])
          /\ t.pc = "run" /\ UNCHANGED <<store, failures>>
    BY <1>7 DEF Optimize, OptimizeRaises, t
  <2> DEFINE u == [t EXCEPT !.pc = pc]
  <2>2. u.pc \in {"complete", "count"} /\ u.job = t.job /\ u.count = t.count
    BY <1>1 DEF Task
  <2>3. StillOpen
    BY <1>1, <2>1 DEF OpenOrGone
  <2> HIDE DEF u
  <2>4. Become(x, u) /\ u.job = j /\ u.count <= 1
    BY <1>1, <2>1, <2>2 DEF u
  <2>5. u.pc \in Attempt /\ failures'[j] = 0
    BY <1>1, <2>1, <2>2 DEF Attempt
  <2>6. Going
    <3> HIDE DEF StillOpen
    <3> QED
      BY <1>3, <2>2, <2>3, <2>4, <2>5
  <2> QED
    BY <2>1, <2>6
<1>8. CASE Return(x)
  <2>1. Become(x, Idle) /\ UNCHANGED <<store, failures>>
    BY <1>8 DEF Return
  <2> QED
    BY <1>3, <2>1 DEF Idle
<1> QED
  BY <1>4, <1>5, <1>6, <1>7, <1>8 DEF RunStep

LEMMA RunKeeps ==
  ASSUME SingleDelivery, TypeOK, HistoryInv, SingleInv,
         NEW x \in Runner, NEW a \in Answer, RunStep(x, a)
  PROVE  SingleInv'
<1> DEFINE j == task[x].job
<1>0. /\ issued \subseteq Job
      /\ \A i \in 1..Len(queue) : queue[i] \in Job
      /\ \A y \in Runner : Runs(y) => task[y].job \in Job
      /\ \A s \in Request : Hands(s) => req[s].job \in Job
  BY DEF TypeOK, RequestTypes, TaskTypes, StoreTypes, HistoryTypes, Runs, Hands
<1>1. /\ Runs(x) /\ j \in Job
      /\ UNCHANGED <<dlq, admin, req, queue, issued>>
      /\ \A y \in Runner : y # x => task'[y] = task[y]
      /\ \A i \in Job : i # j => store'[i] = store[i] /\ failures'[i] = failures[i]
      /\ Runs(x)' => task'[x].job = j
      /\ OwnRun(x)'
  BY RunGoesOn
<1>2. /\ Handing /\ Waits /\ \A y \in Runner : OwnRun(y)
      /\ ApartHands /\ ApartRuns /\ ApartQueue /\ Untouched /\ Quiet
  BY DEF SingleInv
<1>3. /\ j \in issued /\ ~InQueue(j)
      /\ \A s \in Request : Hands(s) => req[s].job # j
      /\ \A y \in Runner : Runs(y) /\ y # x => task[y].job # j
  BY <1>1, <1>2 DEF OwnRun, ApartRuns, ApartHands
<1> HIDE DEF j
<1>4. Handing'
  BY <1>0, <1>1, <1>2, <1>3 DEF Handing, Hands, Unrun, OpenOrGone
<1>5. Waits'
  BY <1>0, <1>1, <1>2, <1>3 DEF Waits, Unrun, OpenOrGone, InQueue
<1>6. ASSUME NEW y \in Runner, y # x PROVE OwnRun(y)'
  BY <1>0, <1>1, <1>2, <1>3, <1>6 DEF OwnRun, Runs, OpenOrGone
<1>7. ApartHands'
  BY <1>1, <1>2, <1>3 DEF ApartHands, Hands, Runs, InQueue
<1>8. ApartRuns' /\ ApartQueue'
  BY <1>1, <1>2, <1>3 DEF ApartRuns, ApartQueue, Runs, InQueue
<1>9. Untouched' /\ Quiet'
  BY <1>1, <1>2, <1>3 DEF Untouched, Quiet
<1> QED
  BY <1>1, <1>4, <1>5, <1>6, <1>7, <1>8, <1>9 DEF SingleInv

LEMMA SingleInvInit == Init => SingleInv
BY JobAssumption
   DEF Init, SingleInv, Handing, Waits, OwnRun, ApartHands, ApartRuns,
       ApartQueue, Untouched, Quiet, Hands, Runs, InQueue, Idle, NewRequest,
       NoAdmin, Runner

LEMMA SingleInvStep ==
  SingleDelivery /\ TypeOK /\ HistoryInv /\ SingleInv /\ [Next]_vars => SingleInv'
<1> SUFFICES ASSUME SingleDelivery, TypeOK, HistoryInv, SingleInv, [Next]_vars
             PROVE  SingleInv'
  OBVIOUS
<1>1. CASE UNCHANGED vars
  <2>1. UNCHANGED <<queue, failures, issued, req, task, store, dlq, admin>>
    BY <1>1 DEF vars
  <2> QED
    BY <2>1, FewerPlaces DEF SingleInv, Handing, Quiet, Hands, Runs
<1>2. CASE Next
  BY <1>2, SingleSteps, HandlerKeeps, TakeKeeps, RunKeeps, LossKeeps
<1> QED
  BY <1>1, <1>2

-----------------------------------------------------------------------------
(* Every step is one of the promise, or invisible to a poller.              *)

\* A write to an entry that is not settled is a step of the promise.
LEMMA EntryProceeds ==
  ASSUME TypeOK, StoreTypes', NEW j \in Job, OpenOrGone(j), store'[j] # None,
         \A i \in Job : i # j => store'[i] = store[i]
  PROVE  Promise!Next
<1>0. /\ store' \in [Job -> Entry \cup {None}]
      /\ "absent" \notin Promise!Final
  BY DEF StoreTypes, Promise!Final
<1>1. ToldNow[j] \notin Promise!Final
  BY DEF ToldNow, OpenOrGone, Promise!Final
<1>2. store'[j].status \in Promise!Open \cup Promise!Final
  BY <1>0 DEF Entry, Status, Promise!Open, Promise!Final
<1>3. ToldNow' = [ToldNow EXCEPT ![j] = store'[j].status]
  BY DEF ToldNow
<1> QED
  BY <1>1, <1>2, <1>3 DEF Promise!Next, Promise!Proceed

LEMMA PromiseStep ==
  SingleDelivery /\ TypeOK /\ SingleInv /\ [Next]_vars
    => [Promise!Next]_ToldNow
<1> SUFFICES ASSUME SingleDelivery, TypeOK, SingleInv, [Next]_vars
             PROVE  Promise!Next \/ UNCHANGED ToldNow
  OBVIOUS
<1>0. /\ StoreTypes' /\ store \in [Job -> Entry \cup {None}]
      /\ task \in [Runner -> Task] /\ None \notin Entry
  BY StoreTypesStep, JobAssumption DEF TypeOK, StoreTypes, TaskTypes
<1>1. CASE UNCHANGED store
  BY <1>1 DEF ToldNow
<1>2. ASSUME NEW r \in Request, NEW a \in Answer, Create(r, a)
      PROVE  Promise!Next \/ UNCHANGED store
  <2>1. PICK j \in Job \ issued :
          store' = IF a = "ok" THEN [store EXCEPT ![j] = NewEntry] ELSE store
    BY <1>2 DEF Create
  <2>2. store[j] = None
    BY <2>1 DEF SingleInv, Untouched
  <2>3. CASE a = "ok"
    <3>1. store'[j] = NewEntry /\ \A i \in Job : i # j => store'[i] = store[i]
      BY <1>0, <2>1, <2>3
    <3>2. NewEntry \in Entry
      BY DEF NewEntry, Entry, Status
    <3>3. NewEntry # None
      BY <1>0, <3>2
    <3> QED
      BY <1>0, <2>2, <3>1, <3>3, EntryProceeds DEF OpenOrGone
  <2> QED
    BY <2>1, <2>3
<1>3. ASSUME NEW x \in Runner, NEW a \in Answer, Write(x, a)
      PROVE  Promise!Next \/ UNCHANGED store
  <2> DEFINE t == task[x]
  <2>1. /\ t.pc \in WritePc
        /\ store' = IF a = "ok" /\ t.copy # None
                      THEN [store EXCEPT ![t.job] = Updated(t)] ELSE store
    BY <1>3 DEF Write
  <2>2. t.job \in Job /\ OpenOrGone(t.job) /\ t.pc # "burying" /\ t \in Task
    BY <1>0, <2>1 DEF WritePc, SingleInv, OwnRun, Runs, Attempt, TypeOK,
                      TaskTypes
  <2>3. CASE a # "ok" \/ t.copy = None
    BY <2>1, <2>3
  <2>4. CASE a = "ok" /\ t.copy # None
    <3> HIDE DEF t
    <3>1. t.copy \in Entry /\ t.count \in Nat
      BY <2>2, <2>4 DEF Task
    <3>2. Updated(t) \in Entry
      BY <2>1, <2>2, <3>1 DEF Updated, Entry, Status, WritePc
    <3>3. store'[t.job] # None /\ \A i \in Job : i # t.job => store'[i] = store[i]
      BY <1>0, <2>1, <2>2, <2>4, <3>2
    <3> QED
      BY <1>0, <2>2, <3>3, EntryProceeds
  <2> QED
    BY <2>3, <2>4
<1>4. ASSUME NEW j \in Job, ExpireJob(j) PROVE Promise!Next
  <2>1. ToldNow' = [i \in Job |-> IF i \in {j} THEN "absent" ELSE ToldNow[i]]
    BY <1>0, <1>4 DEF ExpireJob, ToldNow
  <2> QED
    BY <2>1 DEF Promise!Next, Promise!Forget
<1>5. CASE Restart
  <2>1. ToldNow' = [i \in Job |-> IF i \in Job THEN "absent" ELSE ToldNow[i]]
    BY <1>5 DEF Restart, ToldNow
  <2> QED
    BY <2>1 DEF Promise!Next, Promise!Forget
<1>6. ASSUME NEW r \in Request, HandlerStep(r)
      PROVE  Promise!Next \/ UNCHANGED store
  BY <1>2, <1>6 DEF HandlerStep, Submit, EnqueueRq, EnqueueLocal
<1>7. ASSUME NEW x \in Runner, NEW a \in Answer, RunStep(x, a)
      PROVE  Promise!Next \/ UNCHANGED store
  BY <1>3, <1>7 DEF RunStep, Read, Count, Optimize, OptimizeRaises, Return
<1>8. ASSUME NEW w \in Worker, Take(w) PROVE UNCHANGED store
  BY <1>8 DEF Take
<1>9. CASE LossStep
  BY <1>1, <1>4, <1>5, <1>9 DEF LossStep, CrashTask, CrashRequest
<1>10. CASE UNCHANGED vars
  BY <1>1, <1>10 DEF vars
<1>11. CASE Next
  BY <1>1, <1>6, <1>7, <1>8, <1>9, <1>11, SingleSteps
<1> QED
  BY <1>10, <1>11

\* Where each job is delivered once, with or without Redis, every behaviour of
\* the job system keeps the safety half of JobPromise: no step of a handler, a
\* run or the operator, no crash, cache error, expiry or restart takes a
\* settled entry back while it exists.
THEOREM KeepsPromise ==
  ASSUME SingleDelivery
  PROVE  Spec => Promise!Safety
<1>1. Init => SingleInv
  BY SingleInvInit
<1>2. Init => Promise!Init
  BY DEF Init, ToldNow, Promise!Init
<1>3. TypeOK /\ HistoryInv /\ SingleInv /\ [Next]_vars
        => SingleInv' /\ [Promise!Next]_ToldNow
  BY SingleInvStep, PromiseStep
<1> QED
  BY <1>1, <1>2, <1>3, HistoryCorrect, PTL DEF Spec, Promise!Safety

\* Nothing is dead-lettered in such a system.
NothingDead ==
  \A j \in Job : dlq[j] = None /\ (store[j] # None => store[j].status # "dead")

LEMMA NothingDeadStep ==
  SingleDelivery /\ TypeOK /\ SingleInv /\ SingleInv' /\ NothingDead /\ [Next]_vars
    => NothingDead'
<1> SUFFICES ASSUME SingleDelivery, TypeOK, SingleInv, SingleInv', NothingDead,
                    [Next]_vars, NEW j \in Job, store'[j] # None,
                    store'[j] # store[j]
             PROVE  store'[j].status # "dead"
  BY DEF NothingDead, SingleInv, Quiet
<1>0. /\ store \in [Job -> Entry \cup {None}] /\ task \in [Runner -> Task]
      /\ None \notin Entry
  BY JobAssumption DEF TypeOK, StoreTypes, TaskTypes
<1>1. ~UNCHANGED store
  OBVIOUS
<1>2. ASSUME NEW r \in Request, HandlerStep(r) PROVE store'[j].status # "dead"
  <2>1. PICK a \in Answer : Create(r, a)
    BY <1>1, <1>2 DEF HandlerStep, Submit, EnqueueRq, EnqueueLocal
  <2>2. PICK i \in Job \ issued :
          store' = IF a = "ok" THEN [store EXCEPT ![i] = NewEntry] ELSE store
    BY <2>1 DEF Create
  <2>3. store'[j] = NewEntry
    BY <1>0, <2>2
  <2> QED
    BY <2>3 DEF NewEntry
<1>3. ASSUME NEW x \in Runner, NEW a \in Answer, RunStep(x, a)
      PROVE  store'[j].status # "dead"
  <2> DEFINE t == task[x]
  <2>1. Write(x, a)
    BY <1>1, <1>3 DEF RunStep, Read, Count, Optimize, OptimizeRaises, Return
  <2>2. /\ t.pc \in WritePc
        /\ store' = IF a = "ok" /\ t.copy # None
                      THEN [store EXCEPT ![t.job] = Updated(t)] ELSE store
    BY <2>1 DEF Write
  <2>3. t \in Task /\ t.pc # "burying"
    BY <1>0, <2>2 DEF WritePc, SingleInv, OwnRun, Runs, Attempt
  <2>4. t.copy # None /\ store'[j] = Updated(t)
    BY <1>0, <2>2
  <2> HIDE DEF t
  <2>5. t.copy \in Entry
    BY <2>3, <2>4 DEF Task
  <2>6. Updated(t).status # "dead"
    BY <2>2, <2>3, <2>5 DEF Updated, Entry, WritePc
  <2> QED
    BY <2>4, <2>6
<1>4. ASSUME NEW w \in Worker, Take(w) PROVE FALSE
  BY <1>1, <1>4 DEF Take
<1>5. ~LossStep
  <2>1. \A i \in Job : ~ExpireJob(i)
    BY <1>0 DEF ExpireJob
  <2>2. ~Restart
    BY DEF Restart
  <2> QED
    BY <1>1, <2>1, <2>2 DEF LossStep, CrashTask, CrashRequest
<1>6. Next
  BY <1>1 DEF vars
<1> QED
  BY <1>2, <1>3, <1>4, <1>5, <1>6, SingleSteps

\* run_optimize_task gives up after the first failure and leaves the next try
\* to a delivery that nobody makes: where each job is delivered once, with a
\* dlq_max_retries of two or more, no job is ever marked dead and the dead
\* letter queue stays empty, however many runs fail.
THEOREM DeadLettersNeedDuplicates ==
  ASSUME SingleDelivery
  PROVE  Spec => []NothingDead
<1>1. Init => SingleInv /\ NothingDead
  BY SingleInvInit DEF Init, NothingDead
<1>2. TypeOK /\ HistoryInv /\ SingleInv /\ NothingDead /\ [Next]_vars
        => SingleInv' /\ NothingDead'
  BY SingleInvStep, NothingDeadStep
<1> QED
  BY <1>1, <1>2, HistoryCorrect, PTL DEF Spec

=============================================================================
