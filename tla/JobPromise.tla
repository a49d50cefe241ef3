------------------------------ MODULE JobPromise ------------------------------
(***************************************************************************)
(* What GET /api/v1/jobs/{job_id} promises to whoever polls it: a job that *)
(* was seen settled is never seen otherwise until its entry is gone, and a *)
(* job that was seen open is settled or gone in the end.  JobSystem shows  *)
(* under which conditions the job store keeps the promise; JobPolling      *)
(* relies on it.                                                           *)
(***************************************************************************)
CONSTANT Job

VARIABLE told  \* what a poll of each job would be told now

Open  == {"queued", "running"}
Final == {"completed", "failed", "dead"}
Told  == {"absent"} \cup Open \cup Final

Init == told = [j \in Job |-> "absent"]

\* A run, or a handler, writes the job's entry.
Proceed(j) ==
  /\ told[j] \notin Final
  /\ \E s \in Open \cup Final : told' = [told EXCEPT ![j] = s]

\* Entries expire, are evicted, or are lost with the process.
Forget(J) == told' = [j \in Job |-> IF j \in J THEN "absent" ELSE told[j]]

Next == (\E j \in Job : Proceed(j)) \/ (\E J \in SUBSET Job : Forget(J))

\* What no step may break, whether or not anything ever settles.
Safety == Init /\ [][Next]_told

Settles == \A j \in Job : (told[j] \in Open) ~> (told[j] \notin Open)

Spec == Safety /\ Settles
=============================================================================
