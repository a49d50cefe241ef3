------------------------------ MODULE JobPolling ------------------------------
(***************************************************************************)
(* The page that submits optimizations and follows their jobs              *)
(* (hooks/useOptimize.ts, services/jobService.ts, pages/Optimize.tsx)      *)
(* against a server that keeps JobPromise.                                 *)
(*                                                                         *)
(* One visit of the page is modelled: visits share currentPortfolio only,  *)
(* and a page that was left does not set it.  An interval is named by the  *)
(* job it polls.  Polls overlap: an interval does not wait for the answer  *)
(* to its last one.  setJob, the render that follows and the effect React  *)
(* runs after that are three steps.                                        *)
(***************************************************************************)
EXTENDS JobPromise, Naturals, Functions

CONSTANTS
  None,
  MaxPolls,  \* bound: polls in flight at once
  MaxFaults  \* bound: lost requests and answers, entries lost before they settle

ASSUME PollingAssumption ==
  None \notin Job /\ MaxPolls \in Nat /\ MaxFaults \in Nat

VARIABLES
  mounted,     \* FALSE once the page was left
  loading,     \* the spinner
  error,       \* an error message is set
  view,        \* the state variable job: which one, and its status
  unrendered,  \* view was set and not rendered yet
  effect,      \* the view that a pending effect was rendered with, or Blank
  pollRef,     \* the interval stopPolling would clear, or None
  current,     \* currentPortfolio: the job it is the result of, or None
  post,        \* POST /api/v1/jobs/optimize of each job
  ticking,     \* the intervals that are set
  polls,       \* GET /api/v1/jobs/{id} in flight: how many of each kind
  latest,      \* history: the last job submitted
  crossed,     \* history: the answer to a poll of an earlier job was acted on
  faults

page == <<mounted, loading, error, view, unrendered, effect, pollRef, current>>
vars == <<told, page, post, ticking, polls, latest, crossed, faults>>

Blank == [job |-> None, status |-> "none"]

\* The page tells these answers apart; "dead" is not known to it.
Heard(s) == IF s \in {"completed", "failed", "absent"} THEN s ELSE "open"
Answer   == {"completed", "failed", "absent", "open"}
InFlight == [job : Job, ans : Answer \cup {"sent"}]

PollingInit ==
  /\ Init
  /\ mounted = TRUE /\ loading = FALSE /\ error = FALSE /\ unrendered = FALSE
  /\ view = Blank /\ effect = Blank
  /\ pollRef = None /\ current = None
  /\ post = [j \in Job |-> "none"]
  /\ ticking = {}
  /\ polls = [m \in InFlight |-> 0]
  /\ latest = None /\ crossed = FALSE
  /\ faults = 0

Fault == faults < MaxFaults /\ faults' = faults + 1

\* stopPolling: clears the interval in pollRef, whichever that is by now.
StopPolling == ticking' = ticking \ {pollRef} /\ pollRef' = None

\* Mutant: the job is set without its id.
SetJobUnnamed(j, s) ==
  IF mounted THEN view' = [job |-> None, status |-> s] /\ unrendered' = TRUE
             ELSE UNCHANGED <<view, unrendered>>

\* setJob: nothing happens once the page was left.
SetJob(j, s) ==
  IF mounted THEN view' = [job |-> j, status |-> s] /\ unrendered' = TRUE
             ELSE UNCHANGED <<view, unrendered>>

\* setLoading(false) and setError(msg), likewise.
Report == loading' = FALSE /\ error' = mounted

Crossing(j) == crossed' = (crossed \/ j # latest)

-----------------------------------------------------------------------------
(* The user and React.                                                      *)

\* Mutant: no cleanup on unmount.
UnmountForgetsTimer ==
  /\ mounted
  /\ mounted' = FALSE
  /\ loading' = FALSE /\ error' = FALSE /\ unrendered' = FALSE
  /\ view' = Blank /\ effect' = Blank
  /\ pollRef' = None
  /\ UNCHANGED <<told, current, post, ticking, polls, latest, crossed, faults>>

\* The cleanup stops the interval.  A POST in flight goes on.
Unmount ==
  /\ mounted
  /\ mounted' = FALSE
  /\ loading' = FALSE /\ error' = FALSE /\ unrendered' = FALSE
  /\ view' = Blank /\ effect' = Blank
  /\ StopPolling
  /\ UNCHANGED <<told, current, post, polls, latest, crossed, faults>>

\* optimize, up to its await.  The form refuses a submission while loading.
Submit(j) ==
  /\ mounted /\ ~loading
  /\ post[j] = "none"
  /\ post' = [post EXCEPT ![j] = "sent"]
  /\ latest' = j
  /\ loading' = TRUE /\ error' = FALSE
  /\ view' = Blank /\ unrendered' = FALSE
  /\ StopPolling
  /\ UNCHANGED <<told, mounted, effect, current, polls, crossed, faults>>

\* A render.  The effect of the render before has run by then.
Render ==
  /\ unrendered /\ effect = Blank
  /\ unrendered' = FALSE
  /\ effect' = IF view.status \in {"completed", "failed"} THEN view ELSE Blank
  /\ UNCHANGED <<told, mounted, loading, error, view, pollRef, current, post,
                 ticking, polls, latest, crossed, faults>>

\* Mutants: a failed job stops the polling and leaves the spinner; the result
\* is not put into the context.
ReactIgnoresFailed ==
  /\ effect # Blank
  /\ IF effect.status = "completed"
       THEN current' = effect.job /\ loading' = FALSE /\ UNCHANGED error
       ELSE error' = TRUE /\ UNCHANGED <<current, loading>>
  /\ StopPolling
  /\ effect' = Blank
  /\ Crossing(effect.job)
  /\ UNCHANGED <<told, mounted, view, unrendered, post, polls, latest, faults>>
ReactShowsNothing ==
  /\ effect # Blank
  /\ error' = (error \/ effect.status = "failed")
  /\ loading' = FALSE
  /\ StopPolling
  /\ effect' = Blank
  /\ Crossing(effect.job)
  /\ UNCHANGED <<told, mounted, view, unrendered, current, post, polls, latest,
                 faults>>

\* The effect on job: a settled one ends the spinner and the polling.
React ==
  /\ effect # Blank
  /\ IF effect.status = "completed"
       THEN current' = effect.job /\ UNCHANGED error
       ELSE error' = TRUE /\ UNCHANGED current
  /\ loading' = FALSE
  /\ StopPolling
  /\ effect' = Blank
  /\ Crossing(effect.job)
  /\ UNCHANGED <<told, mounted, view, unrendered, post, polls, latest, faults>>

-----------------------------------------------------------------------------
(* The network.                                                             *)

Accept(j) ==
  /\ post[j] = "sent"
  /\ post' = [post EXCEPT ![j] = "accepted"]
  /\ told' = [told EXCEPT ![j] = "queued"]
  /\ UNCHANGED <<page, ticking, polls, latest, crossed, faults>>

\* The request or its answer is lost, or the server refuses it.
LosePost(j) ==
  /\ post[j] \in {"sent", "accepted"}
  /\ Fault
  /\ post' = [post EXCEPT ![j] = "failed"]
  /\ UNCHANGED <<told, page, ticking, polls, latest, crossed>>

\* optimize after its await: the page shows "queued" and the interval is set,
\* on a page that was left as well.
PostAnswer(j) ==
  /\ post[j] = "accepted"
  /\ post' = [post EXCEPT ![j] = "done"]
  /\ SetJob(j, "open")
  /\ ticking' = ticking \cup {j}
  /\ pollRef' = j
  /\ UNCHANGED <<told, mounted, loading, error, effect, current, polls, latest,
                 crossed, faults>>

PostError(j) ==
  /\ post[j] = "failed"
  /\ post' = [post EXCEPT ![j] = "done"]
  /\ Report
  /\ UNCHANGED <<told, mounted, view, unrendered, effect, pollRef, current,
                 ticking, polls, latest, crossed, faults>>

Poll(j, ans) == [job |-> j, ans |-> ans]

\* An interval is due.
Tick(j) ==
  /\ j \in ticking
  /\ SumFunction(polls) < MaxPolls
  /\ polls' = [polls EXCEPT ![Poll(j, "sent")] = @ + 1]
  /\ UNCHANGED <<told, page, post, ticking, latest, crossed, faults>>

\* get_job: a missing entry is a 404.
Serve(j) ==
  /\ polls[Poll(j, "sent")] > 0
  /\ polls' = [polls EXCEPT ![Poll(j, "sent")] = @ - 1,
                            ![Poll(j, Heard(told[j]))] = @ + 1]
  /\ UNCHANGED <<told, page, post, ticking, latest, crossed, faults>>

\* Lost, or timed out: a rejection like the 404.
LosePoll(m) ==
  /\ polls[m] > 0
  /\ Fault
  /\ m.ans # "absent"
  /\ polls' = [polls EXCEPT ![m] = @ - 1, ![Poll(m.job, "absent")] = @ + 1]
  /\ UNCHANGED <<told, page, post, ticking, latest, crossed>>

Deliver(j, ans) ==
  /\ polls[Poll(j, ans)] > 0
  /\ SetJob(j, ans)
  /\ Crossing(j)
  /\ polls' = [polls EXCEPT ![Poll(j, ans)] = @ - 1]
  /\ UNCHANGED <<told, mounted, loading, error, effect, pollRef, current, post,
                 ticking, latest, faults>>

\* Mutant: a failed poll leaves the interval set.
DeliverErrorTicksOn(j) ==
  /\ polls[Poll(j, "absent")] > 0
  /\ Report
  /\ Crossing(j)
  /\ polls' = [polls EXCEPT ![Poll(j, "absent")] = @ - 1]
  /\ UNCHANGED <<told, mounted, view, unrendered, effect, pollRef, current, post,
                 ticking, latest, faults>>

\* Mutant: a failed poll stops the interval and leaves the spinner.
DeliverErrorSpinsOn(j) ==
  /\ polls[Poll(j, "absent")] > 0
  /\ StopPolling
  /\ error' = mounted
  /\ Crossing(j)
  /\ polls' = [polls EXCEPT ![Poll(j, "absent")] = @ - 1]
  /\ UNCHANGED <<told, mounted, loading, view, unrendered, effect, current, post,
                 latest, faults>>

\* "Lost connection to job": a rejected poll of any job stops the polling.
DeliverError(j) ==
  /\ polls[Poll(j, "absent")] > 0
  /\ StopPolling
  /\ Report
  /\ Crossing(j)
  /\ polls' = [polls EXCEPT ![Poll(j, "absent")] = @ - 1]
  /\ UNCHANGED <<told, mounted, view, unrendered, effect, current, post, latest,
                 faults>>

-----------------------------------------------------------------------------
(* The server behind JobPromise.  A settled entry expires in the end.       *)

Work(j) ==
  /\ told[j] \in Open
  /\ Proceed(j)
  /\ UNCHANGED <<page, post, ticking, polls, latest, crossed, faults>>

Settle(j) == Work(j) /\ told'[j] \in Final

Expire(j) ==
  /\ told[j] \in Final
  /\ Forget({j})
  /\ UNCHANGED <<page, post, ticking, polls, latest, crossed, faults>>

Vanish(j) ==
  /\ told[j] \in Open
  /\ Fault
  /\ Forget({j})
  /\ UNCHANGED <<page, post, ticking, polls, latest, crossed>>

PostStep(j)   == Accept(j) \/ LosePost(j) \/ PostAnswer(j) \/ PostError(j)
PollAnswer(j) == Serve(j) \/ DeliverError(j)
                   \/ \E ans \in Answer \ {"absent"} : Deliver(j, ans)

PollingNext ==
  \/ Unmount \/ Render \/ React
  \/ \E j \in Job : \/ Submit(j) \/ PostStep(j) \/ Tick(j) \/ PollAnswer(j)
                    \/ Work(j) \/ Expire(j) \/ Vanish(j)
  \/ \E m \in InFlight : LosePoll(m)

\* Callbacks run, intervals fire, requests are answered or time out, jobs
\* settle, and settled entries expire.
Fairness ==
  /\ WF_vars(Render \/ React)
  /\ \A j \in Job : /\ WF_vars(PostStep(j))
                    /\ WF_vars(Tick(j))
                    /\ WF_vars(PollAnswer(j))
                    /\ WF_vars(Settle(j) \/ Expire(j))

PollingSpec == PollingInit /\ [][PollingNext]_vars /\ Fairness

-----------------------------------------------------------------------------
(* Properties.                                                              *)

Setting == {Blank} \cup [job : Job, status : Answer]

PageTypes ==
  /\ mounted \in BOOLEAN /\ loading \in BOOLEAN /\ error \in BOOLEAN
  /\ unrendered \in BOOLEAN
  /\ view \in Setting /\ effect \in Setting
  /\ pollRef \in Job \cup {None} /\ current \in Job \cup {None}

NetworkTypes ==
  /\ told \in [Job -> Told]
  /\ post \in [Job -> {"none", "sent", "accepted", "failed", "done"}]
  /\ ticking \subseteq Job
  /\ polls \in [InFlight -> Nat]
  /\ latest \in Job \cup {None}
  /\ crossed \in BOOLEAN
  /\ faults \in Nat

TypeOK == PageTypes /\ NetworkTypes

Posting(j) == post[j] \in {"sent", "accepted", "failed"}

\* The page has one interval at most, and it is the one stopPolling would
\* clear, unless the answer to a poll of an earlier job was acted on: then two
\* submissions can overlap, and the interval of one is never cleared.
OwnTimerOnly == ~crossed => ticking \subseteq {pollRef} \ {None}

\* The spinner turns only while something is left that can stop it: the POST
\* of the last submission, or the interval in pollRef.  No late answer and no
\* stale effect takes away the one without stopping the other.
SpinnerWatched == loading => Posting(latest) \/ pollRef \in ticking

\* Once the spinner has stopped without an error, the page shows the result
\* of what was submitted last, whatever answers to earlier polls of that job
\* came late; unless one of an earlier job was acted on.
OutcomeShown ==
  (mounted /\ latest # None /\ ~loading /\ ~error /\ ~crossed)
    => current = latest

\* Every spinner stops, even for a job marked "dead", a status the page does
\* not know.
SpinnerEnds == loading ~> ~loading

\* Every interval is cleared in the end, also that of a page that was left
\* while its POST was under way, unless an earlier job's answer orphaned it.
PollingEnds == \A j \in Job : (j \in ticking) ~> (j \notin ticking \/ crossed)
=============================================================================
