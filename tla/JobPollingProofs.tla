--------------------------- MODULE JobPollingProofs ---------------------------
(* Theorems about JobPolling, for any jobs, polls in flight and faults.      *)
EXTENDS JobPolling, TLAPS

\* What the page holds of a job, it holds since the job's POST was answered.
Done(j) == post[j] = "done"

Answered ==
  /\ effect # Blank => Done(effect.job)
  /\ view # Blank => Done(view.job)
  /\ \A m \in InFlight : polls[m] > 0 => Done(m.job)
  /\ \A j \in ticking : Done(j)

\* Up to the first crossing only the last submission can be under way, with
\* the spinner on (or the page left) and no interval set.
OneAtATime ==
  ~crossed => \A j \in Job : Posting(j) =>
                 j = latest /\ ticking = {} /\ (loading \/ ~mounted)

Submitted == loading => latest \in Job

Knowledge == TypeOK /\ Answered

IInv ==
  /\ Knowledge /\ OneAtATime /\ Submitted
  /\ OwnTimerOnly /\ SpinnerWatched /\ OutcomeShown

-----------------------------------------------------------------------------
(* Types, and what the page holds.                                          *)

LEMMA PollIsInFlight ==
  ASSUME NEW j \in Job
  PROVE  /\ \A ans \in Answer \cup {"sent"} :
              Poll(j, ans) \in InFlight /\ Poll(j, ans).job = j
         /\ Poll(j, "sent") \in InFlight /\ Poll(j, "sent").job = j
         /\ Poll(j, "absent") \in InFlight /\ Poll(j, "absent").job = j
BY DEF Poll, InFlight, Answer

LEMMA HeardIsAnswer == ASSUME NEW s PROVE Heard(s) \in Answer
BY DEF Heard, Answer

LEMMA SettingOf ==
  ASSUME NEW j \in Job, NEW s \in Answer
  PROVE  [job |-> j, status |-> s] \in Setting /\ Blank \in Setting
BY DEF Setting

\* A view with a settled status names a job.
LEMMA SettledView ==
  ASSUME NEW v \in Setting
  PROVE  v # Blank => v.job \in Job /\ v.status \in Answer
BY DEF Setting

LEMMA TypeStep == TypeOK /\ [PollingNext]_vars => TypeOK'
<1> SUFFICES ASSUME TypeOK, [PollingNext]_vars PROVE TypeOK'
  OBVIOUS
<1> USE DEF TypeOK, PageTypes, NetworkTypes
<1> USE SettingOf
<1>1. CASE Unmount
  BY <1>1 DEF Unmount, StopPolling, Setting
<1>2. CASE Render
  BY <1>2 DEF Render, Setting
<1>3. CASE React
  BY <1>3, SettledView DEF React, StopPolling, Crossing, Setting
<1>4. ASSUME NEW j \in Job, Submit(j) PROVE TypeOK'
  BY <1>4 DEF Submit, StopPolling, Setting
<1>5. ASSUME NEW j \in Job, PostStep(j) PROVE TypeOK'
  <2>1. CASE Accept(j)
    BY <2>1 DEF Accept, page, Told, Open
  <2>2. CASE LosePost(j)
    BY <2>2 DEF LosePost, Fault, page
  <2>3. CASE PostAnswer(j)
    BY <2>3 DEF PostAnswer, SetJob, Answer
  <2>4. CASE PostError(j)
    BY <2>4 DEF PostError, Report
  <2> QED BY <1>5, <2>1, <2>2, <2>3, <2>4 DEF PostStep
<1>6. ASSUME NEW j \in Job, Tick(j) PROVE TypeOK'
  <2>1. Poll(j, "sent") \in InFlight
    BY PollIsInFlight
  <2>2. polls' \in [InFlight -> Nat]
    BY <1>6, <2>1 DEF Tick
  <2> QED BY <1>6, <2>2 DEF Tick, page
<1>7. ASSUME NEW j \in Job, PollAnswer(j) PROVE TypeOK'
  <2>1. CASE Serve(j)
    <3>1. Poll(j, Heard(told[j])) \in InFlight
      BY PollIsInFlight, HeardIsAnswer
    <3> QED BY <2>1, <3>1, PollIsInFlight DEF Serve, page
  <2>2. CASE DeliverError(j)
    <3>1. Poll(j, "absent") \in InFlight
      BY PollIsInFlight
    <3>2. polls' \in [InFlight -> Nat]
      BY <2>2, <3>1 DEF DeliverError
    <3> QED BY <2>2, <3>2 DEF DeliverError, StopPolling, Report, Crossing
  <2>3. ASSUME NEW ans \in Answer, Deliver(j, ans) PROVE TypeOK'
    <3>1. Poll(j, ans) \in InFlight
      BY PollIsInFlight
    <3>2. polls' \in [InFlight -> Nat]
      BY <2>3, <3>1 DEF Deliver
    <3> QED BY <2>3, <3>2 DEF Deliver, SetJob, Crossing
  <2> QED BY <1>7, <2>1, <2>2, <2>3 DEF PollAnswer
<1>8. ASSUME NEW j \in Job, Work(j) \/ Expire(j) \/ Vanish(j) PROVE TypeOK'
  <2>1. told' \in [Job -> Told]
    BY <1>8 DEF Work, Expire, Vanish, Proceed, Forget, Told
  <2> QED BY <1>8, <2>1 DEF Work, Expire, Vanish, Fault, page
<1>9. ASSUME NEW m \in InFlight, LosePoll(m) PROVE TypeOK'
  <2>1. Poll(m.job, "absent") \in InFlight
    BY PollIsInFlight DEF InFlight
  <2> QED BY <1>9, <2>1 DEF LosePoll, Fault, page
<1>10. CASE UNCHANGED vars
  BY <1>10 DEF vars, page
<1> QED
  BY <1>1, <1>2, <1>3, <1>4, <1>5, <1>6, <1>7, <1>8, <1>9, <1>10 DEF PollingNext

LEMMA AnsweredStep == Knowledge /\ [PollingNext]_vars => Answered'
<1> SUFFICES ASSUME TypeOK, Answered, [PollingNext]_vars PROVE Answered'
  BY DEF Knowledge
<1> USE DEF TypeOK, PageTypes, NetworkTypes, Answered, Done
<1>1. CASE Unmount
  BY <1>1 DEF Unmount, StopPolling
<1>2. CASE Render
  BY <1>2 DEF Render, Blank
<1>3. CASE React
  BY <1>3 DEF React, StopPolling
<1>4. ASSUME NEW j \in Job, Submit(j) PROVE Answered'
  BY <1>4, SettledView DEF Submit, StopPolling, InFlight
<1>5. ASSUME NEW j \in Job, PostStep(j) PROVE Answered'
  <2>1. CASE Accept(j)
    BY <2>1, SettledView DEF Accept, page, InFlight
  <2>2. CASE LosePost(j)
    BY <2>2, SettledView DEF LosePost, page, InFlight
  <2>3. CASE PostAnswer(j)
    BY <2>3, SettledView DEF PostAnswer, SetJob, InFlight
  <2>4. CASE PostError(j)
    BY <2>4, SettledView DEF PostError, InFlight
  <2> QED BY <1>5, <2>1, <2>2, <2>3, <2>4 DEF PostStep
<1>6. ASSUME NEW j \in Job, Tick(j) PROVE Answered'
  BY <1>6, PollIsInFlight DEF Tick, page
<1>7. ASSUME NEW j \in Job, PollAnswer(j) PROVE Answered'
  <2>1. CASE Serve(j)
    BY <2>1, PollIsInFlight, HeardIsAnswer DEF Serve, page
  <2>2. CASE DeliverError(j)
    BY <2>2, PollIsInFlight DEF DeliverError, StopPolling, Answer
  <2>3. ASSUME NEW ans \in Answer, Deliver(j, ans) PROVE Answered'
    BY <2>3, PollIsInFlight DEF Deliver, SetJob
  <2> QED BY <1>7, <2>1, <2>2, <2>3 DEF PollAnswer
<1>8. ASSUME NEW j \in Job, Work(j) \/ Expire(j) \/ Vanish(j) PROVE Answered'
  BY <1>8 DEF Work, Expire, Vanish, page
<1>9. ASSUME NEW m \in InFlight, LosePoll(m) PROVE Answered'
  <2>1. m.job \in Job /\ Poll(m.job, "absent") \in InFlight
        /\ Poll(m.job, "absent").job = m.job
    BY PollIsInFlight DEF InFlight
  <2>2. Done(m.job)
    BY <1>9 DEF LosePoll
  <2> QED BY <1>9, <2>1, <2>2 DEF LosePoll, page
<1>10. CASE UNCHANGED vars
  BY <1>10 DEF vars, page
<1> QED
  BY <1>1, <1>2, <1>3, <1>4, <1>5, <1>6, <1>7, <1>8, <1>9, <1>10 DEF PollingNext

LEMMA KnowledgeStep == Knowledge /\ [PollingNext]_vars => Knowledge'
BY TypeStep, AnsweredStep DEF Knowledge

-----------------------------------------------------------------------------
(* One submission at a time, and the spinner.                               *)

LEMMA OneAtATimeStep ==
  Knowledge /\ OneAtATime /\ OwnTimerOnly /\ [PollingNext]_vars
    => OneAtATime' /\ OwnTimerOnly'
<1> SUFFICES ASSUME Knowledge, OneAtATime, OwnTimerOnly, [PollingNext]_vars, ~crossed'
             PROVE  /\ \A i \in Job : Posting(i)' =>
                         i = latest' /\ ticking' = {} /\ (loading' \/ ~mounted')
                    /\ ticking' \subseteq {pollRef'} \ {None}
  BY DEF OneAtATime, OwnTimerOnly
<1> USE PollingAssumption
    DEF Knowledge, TypeOK, PageTypes, NetworkTypes, Answered, Done, OneAtATime,
        OwnTimerOnly, Posting
<1>1. CASE Unmount
  BY <1>1 DEF Unmount, StopPolling
<1>2. CASE Render
  BY <1>2 DEF Render
<1>3. CASE React
  BY <1>3, SettledView DEF React, StopPolling, Crossing
<1>4. ASSUME NEW j \in Job, Submit(j)
      PROVE  /\ \A i \in Job : Posting(i)' =>
                  i = latest' /\ ticking' = {} /\ (loading' \/ ~mounted')
             /\ ticking' \subseteq {pollRef'} \ {None}
  BY <1>4 DEF Submit, StopPolling
<1>5. ASSUME NEW j \in Job, PostStep(j)
      PROVE  /\ \A i \in Job : Posting(i)' =>
                  i = latest' /\ ticking' = {} /\ (loading' \/ ~mounted')
             /\ ticking' \subseteq {pollRef'} \ {None}
  <2>1. CASE Accept(j)
    BY <2>1 DEF Accept, page
  <2>2. CASE LosePost(j)
    BY <2>2 DEF LosePost, page
  <2>3. CASE PostAnswer(j)
    BY <2>3 DEF PostAnswer
  <2>4. CASE PostError(j)
    BY <2>4 DEF PostError, Report
  <2> QED BY <1>5, <2>1, <2>2, <2>3, <2>4 DEF PostStep
<1>6. ASSUME NEW j \in Job, DeliverError(j)
      PROVE  /\ \A i \in Job : Posting(i)' =>
                  i = latest' /\ ticking' = {} /\ (loading' \/ ~mounted')
             /\ ticking' \subseteq {pollRef'} \ {None}
  <2>1. Done(j)
    BY <1>6, PollIsInFlight DEF DeliverError
  <2>2. j = latest /\ ~crossed
    BY <1>6 DEF DeliverError, Crossing
  <2> QED BY <1>6, <2>1, <2>2 DEF DeliverError, StopPolling
<1>7. CASE UNCHANGED <<mounted, loading, post, ticking, pollRef, latest>>
           /\ (crossed => crossed')
  BY <1>7
<1>8. ASSUME NEW j \in Job, Tick(j) \/ Serve(j) \/ Work(j) \/ Expire(j) \/ Vanish(j)
      PROVE  UNCHANGED <<mounted, loading, post, ticking, pollRef, latest>>
             /\ (crossed => crossed')
  BY <1>8 DEF Tick, Serve, Work, Expire, Vanish, page
<1>9. ASSUME NEW j \in Job, NEW ans \in Answer, Deliver(j, ans)
      PROVE  UNCHANGED <<mounted, loading, post, ticking, pollRef, latest>>
             /\ (crossed => crossed')
  BY <1>9 DEF Deliver, Crossing
<1>10. ASSUME NEW m \in InFlight, LosePoll(m)
       PROVE  UNCHANGED <<mounted, loading, post, ticking, pollRef, latest>>
              /\ (crossed => crossed')
  BY <1>10 DEF LosePoll, page
<1>11. CASE UNCHANGED vars
  BY <1>11 DEF vars, page
<1> QED
  BY <1>1, <1>2, <1>3, <1>4, <1>5, <1>6, <1>7, <1>8, <1>9, <1>10, <1>11
     DEF PollingNext, PollAnswer

LEMMA SpinnerStep ==
  Knowledge /\ Submitted /\ SpinnerWatched /\ [PollingNext]_vars
    => Submitted' /\ SpinnerWatched'
<1> SUFFICES ASSUME Knowledge, Submitted, SpinnerWatched, [PollingNext]_vars, loading'
             PROVE  latest' \in Job /\ (Posting(latest)' \/ pollRef' \in ticking')
  BY DEF Submitted, SpinnerWatched
<1> USE DEF Knowledge, TypeOK, PageTypes, NetworkTypes, Submitted, SpinnerWatched,
            Posting
<1>1. CASE Unmount \/ React
  BY <1>1 DEF Unmount, React
<1>2. ASSUME NEW j \in Job, Submit(j) \/ PostError(j) \/ DeliverError(j)
      PROVE  latest' \in Job /\ (Posting(latest)' \/ pollRef' \in ticking')
  BY <1>2 DEF Submit, PostError, DeliverError, Report
<1>3. ASSUME NEW j \in Job, Accept(j) \/ LosePost(j)
      PROVE  latest' \in Job /\ (Posting(latest)' \/ pollRef' \in ticking')
  BY <1>3 DEF Accept, LosePost, page
<1>4. ASSUME NEW j \in Job, PostAnswer(j)
      PROVE  latest' \in Job /\ (Posting(latest)' \/ pollRef' \in ticking')
  BY <1>4 DEF PostAnswer
<1>5. CASE UNCHANGED <<loading, post, ticking, pollRef, latest>>
  BY <1>5
<1>6. ASSUME NEW j \in Job, Tick(j) \/ Serve(j) \/ Work(j) \/ Expire(j) \/ Vanish(j)
      PROVE  UNCHANGED <<loading, post, ticking, pollRef, latest>>
  BY <1>6 DEF Tick, Serve, Work, Expire, Vanish, page
<1>7. ASSUME NEW j \in Job, NEW ans \in Answer, Deliver(j, ans)
      PROVE  UNCHANGED <<loading, post, ticking, pollRef, latest>>
  BY <1>7 DEF Deliver
<1>8. ASSUME NEW m \in InFlight, LosePoll(m)
      PROVE  UNCHANGED <<loading, post, ticking, pollRef, latest>>
  BY <1>8 DEF LosePoll, page
<1>9. CASE Render \/ UNCHANGED vars
  BY <1>9 DEF Render, vars, page
<1> QED
  BY <1>1, <1>2, <1>3, <1>4, <1>5, <1>6, <1>7, <1>8, <1>9
     DEF PollingNext, PostStep, PollAnswer

LEMMA OutcomeStep ==
  Knowledge /\ OutcomeShown /\ [PollingNext]_vars => OutcomeShown'
<1> SUFFICES ASSUME Knowledge, OutcomeShown, [PollingNext]_vars,
                    mounted', latest' # None, ~loading', ~error', ~crossed'
             PROVE  current' = latest'
  BY DEF OutcomeShown
<1> USE DEF Knowledge, TypeOK, PageTypes, NetworkTypes, OutcomeShown
<1>1. CASE Unmount
  BY <1>1 DEF Unmount
<1>2. CASE React
  BY <1>2 DEF React, Crossing
<1>3. ASSUME NEW j \in Job, Submit(j) PROVE current' = latest'
  BY <1>3 DEF Submit
<1>4. ASSUME NEW j \in Job, PostError(j) \/ DeliverError(j)
      PROVE  current' = latest'
  BY <1>4 DEF PostError, DeliverError, Report
<1>5. CASE UNCHANGED <<mounted, loading, error, current, latest>>
           /\ (crossed => crossed')
  BY <1>5
<1>6. ASSUME NEW j \in Job, Accept(j) \/ LosePost(j) \/ PostAnswer(j) \/ Tick(j)
                              \/ Serve(j) \/ Work(j) \/ Expire(j) \/ Vanish(j)
      PROVE  UNCHANGED <<mounted, loading, error, current, latest>>
             /\ (crossed => crossed')
  BY <1>6 DEF Accept, LosePost, PostAnswer, Tick, Serve, Work, Expire, Vanish, page
<1>7. ASSUME NEW j \in Job, NEW ans \in Answer, Deliver(j, ans)
      PROVE  UNCHANGED <<mounted, loading, error, current, latest>>
             /\ (crossed => crossed')
  BY <1>7 DEF Deliver, Crossing
<1>8. ASSUME NEW m \in InFlight, LosePoll(m)
      PROVE  UNCHANGED <<mounted, loading, error, current, latest>>
             /\ (crossed => crossed')
  BY <1>8 DEF LosePoll, page
<1>9. CASE Render \/ UNCHANGED vars
  BY <1>9 DEF Render, vars, page
<1> QED
  BY <1>1, <1>2, <1>3, <1>4, <1>5, <1>6, <1>7, <1>8, <1>9
     DEF PollingNext, PostStep, PollAnswer

-----------------------------------------------------------------------------

LEMMA Invariance == PollingSpec => []IInv
<1>1. PollingInit => IInv
  <2> SUFFICES ASSUME PollingInit PROVE IInv
    OBVIOUS
  <2>1. TypeOK
    BY DEF PollingInit, Init, TypeOK, PageTypes, NetworkTypes, Setting, Told
  <2>2. Answered
    BY DEF PollingInit, Answered
  <2>3. OneAtATime /\ OwnTimerOnly
    BY DEF PollingInit, OneAtATime, OwnTimerOnly, Posting
  <2>4. Submitted /\ SpinnerWatched /\ OutcomeShown
    BY DEF PollingInit, Submitted, SpinnerWatched, OutcomeShown
  <2> QED BY <2>1, <2>2, <2>3, <2>4 DEF IInv, Knowledge
<1>2. IInv /\ [PollingNext]_vars => IInv'
  BY KnowledgeStep, OneAtATimeStep, SpinnerStep, OutcomeStep DEF IInv
<1> QED BY <1>1, <1>2, PTL DEF PollingSpec

\* Every variable of the page and of the network stays in its type
\* (hooks/useOptimize.ts).
THEOREM PollingTypes == PollingSpec => []TypeOK
BY Invariance, PTL DEF IInv, Knowledge

\* useOptimize keeps one interval, the one it can clear, until the answer to a
\* poll of an earlier job is acted on.
THEOREM OneInterval == PollingSpec => []OwnTimerOnly
BY Invariance, PTL DEF IInv

\* While the spinner of useOptimize turns, the POST or the current interval is
\* there to stop it, however polls, effects and submissions interleave.
THEOREM SpinnerHasWatcher == PollingSpec => []SpinnerWatched
BY Invariance, PTL DEF IInv

\* A page that stopped its spinner without an error shows the result of the
\* last submission, until an answer about an earlier one is acted on.
THEOREM LastOutcome == PollingSpec => []OutcomeShown
BY Invariance, PTL DEF IInv
=============================================================================
