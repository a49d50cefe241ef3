---------------------------- MODULE JobRefinement ----------------------------
(***************************************************************************)
(* The job system keeps the promise of JobPromise.  A poller reads the     *)
(* store, so the store is the abstract state.                              *)
(***************************************************************************)
EXTENDS JobSystem

\* JobService.get, and the 404 of get_job when there is no entry.
ToldNow == [j \in Job |-> IF store[j] = None THEN "absent" ELSE store[j].status]

Promise == INSTANCE JobPromise WITH told <- ToldNow

\* Without Redis and without idempotency keys, each job is delivered once, and
\* the store, its handlers and its runs implement JobPromise, expired entries
\* and restarts of the process included: no read-modify-write of a run undoes
\* a final status, and an open one is always followed up.
ImplementsPromise == Promise!Spec
=============================================================================
