-------------------------- MODULE RefreshLockProofs --------------------------
(* Theorems about RefreshLock, for any number of replicas, days and faults.  *)
EXTENDS RefreshLock, TLAPS

USE DEF CompareAndDelete

\* A replica at work still holds the key, unless it expired under it; without
\* Redis there is only one replica.
Held == HasRedis => \A r \in Busy \ overrun : key = Token(r)

IInv == TypeOK /\ Held

LEMMA TokensDiffer ==
  ASSUME TypeOK, NEW r \in Replica, NEW s \in Replica
  PROVE  /\ Token(r) \in Replica \X Nat
         /\ Token(r) # None
         /\ Token(r) = Token(s) => r = s
<1>1. Token(r) \in Replica \X Nat
  BY DEF Token, TypeOK
<1>2. Token(r) # None
  BY <1>1, LockAssumption
<1>3. Token(r) = Token(s) => r = s
  BY DEF Token
<1> QED BY <1>1, <1>2, <1>3

\* Without Redis there is one replica.
LEMMA AloneWithoutRedis ==
  ASSUME NEW r \in Replica, NEW s \in Replica, r # s
  PROVE  HasRedis
<1> SUFFICES ASSUME \E x \in Replica : Replica = {x} PROVE FALSE
  BY LockAssumption
<1>1. PICK x \in Replica : Replica = {x}
  OBVIOUS
<1> QED BY <1>1

LEMMA TypeStep == TypeOK /\ [Next]_vars => TypeOK'
<1> SUFFICES ASSUME TypeOK, [Next]_vars PROVE TypeOK'
  OBVIOUS
<1> USE TokensDiffer DEF TypeOK, Busy
<1>1. CASE Expire
  BY <1>1 DEF Expire
<1>2. CASE NewDay
  BY <1>2 DEF NewDay
<1>3. ASSUME NEW r \in Replica, Run(r) \/ Crash(r) PROVE TypeOK'
  <2>1. CASE Acquire(r)
    BY <2>1 DEF Acquire, Move
  <2>2. CASE AcquireRaises(r)
    BY <2>2 DEF AcquireRaises, Fails, Move
  <2>3. CASE Refresh(r)
    BY <2>3 DEF Refresh, Move
  <2>4. CASE Release(r)
    BY <2>4 DEF Release, Move
  <2>5. CASE ReleaseFails(r)
    BY <2>5 DEF ReleaseFails, Fails, Move
  <2>6. CASE Crash(r)
    BY <2>6 DEF Crash, Fails, Move
  <2>7. CASE RefreshFails(r)
    BY <2>7 DEF RefreshFails, Fails, Move
  <2> QED BY <1>3, <2>1, <2>2, <2>3, <2>4, <2>5, <2>6, <2>7 DEF Run
<1>4. CASE UNCHANGED vars
  BY <1>4 DEF vars
<1> QED BY <1>1, <1>2, <1>3, <1>4 DEF Next

LEMMA HeldStep == TypeOK /\ Held /\ [Next]_vars => Held'
<1> SUFFICES ASSUME TypeOK, Held, [Next]_vars, HasRedis,
                    NEW s \in Replica,
                    s \in Busy', s \notin overrun'
             PROVE  key' = Token(s)'
  BY DEF Held, Busy
<1> USE TokensDiffer DEF TypeOK, Busy, Held
<1>1. CASE Expire
  BY <1>1 DEF Expire, Token
<1>2. CASE NewDay
  BY <1>2 DEF NewDay
<1>3. ASSUME NEW r \in Replica, Run(r) \/ Crash(r) PROVE key' = Token(s)'
  <2>1. CASE Acquire(r)
    BY <2>1 DEF Acquire, Move, Token
  <2>2. CASE AcquireRaises(r)
    BY <2>2 DEF AcquireRaises, Move, Token
  <2>3. CASE Refresh(r)
    BY <2>3 DEF Refresh, Move, Token
  <2>4. CASE Release(r)
    BY <2>4 DEF Release, Move, Token
  <2>5. CASE ReleaseFails(r)
    BY <2>5 DEF ReleaseFails, Move, Token
  <2>6. CASE Crash(r)
    BY <2>6 DEF Crash, Move, Token
  <2>7. CASE RefreshFails(r)
    BY <2>7 DEF RefreshFails, Move, Token
  <2> QED BY <1>3, <2>1, <2>2, <2>3, <2>4, <2>5, <2>6, <2>7 DEF Run
<1>4. CASE UNCHANGED vars
  BY <1>4 DEF vars, Token
<1> QED BY <1>1, <1>2, <1>3, <1>4 DEF Next

LEMMA Invariance == Spec => []IInv
<1>1. Init => IInv
  BY DEF Init, IInv, TypeOK, Held, Busy
<1>2. IInv /\ [Next]_vars => IInv'
  BY TypeStep, HeldStep DEF IInv
<1> QED BY <1>1, <1>2, PTL DEF Spec

\* The lock, the runs and the bookkeeping keep their types.
THEOREM LockTypes == Spec => []TypeOK
<1>1. IInv => TypeOK
  BY DEF IInv
<1> QED BY <1>1, Invariance, PTL

\* Mutual exclusion of the refresh between any number of replicas, up to the
\* expiry of a lock under its holder.
THEOREM RefreshExclusion == Spec => []Exclusive
<1>1. IInv => Exclusive
  <2> SUFFICES ASSUME IInv, NEW r \in Busy, NEW s \in Busy, r # s,
                      r \notin overrun, s \notin overrun
               PROVE  FALSE
    BY DEF Exclusive
  <2>1. r \in Replica /\ s \in Replica
    BY DEF Busy
  <2>2. HasRedis
    BY <2>1, AloneWithoutRedis
  <2> QED BY <2>1, <2>2, TokensDiffer DEF IInv, Held
<1> QED BY <1>1, Invariance, PTL

\* The compare-and-delete of the release takes the lock from nobody.
THEOREM LockIsNotStolen == Spec => LockIsKept
<1> DEFINE Kept == \A r \in Busy :
             key = Token(r) => key' = key \/ pc'[r] = "done" \/ r \in overrun'
<1>1. TypeOK /\ [Next]_vars => [Kept]_vars
  <2> SUFFICES ASSUME TypeOK, Next, NEW r \in Replica, r \in Busy,
                      key = Token(r)
               PROVE  key' = key \/ pc'[r] = "done" \/ r \in overrun'
    BY DEF Busy
  <2> USE TokensDiffer DEF TypeOK, Busy
  <2>1. CASE Expire
    BY <2>1 DEF Expire
  <2>2. CASE NewDay
    BY <2>2 DEF NewDay
  <2>3. ASSUME NEW s \in Replica, Run(s) \/ Crash(s)
        PROVE  key' = key \/ pc'[r] = "done" \/ r \in overrun'
    BY <2>3 DEF Run, Acquire, AcquireRaises, Refresh, RefreshFails, Release,
                ReleaseFails, Crash, Move
  <2> QED BY <2>1, <2>2, <2>3 DEF Next
<1> QED BY <1>1, LockTypes, PTL DEF Spec, LockIsKept

\* On a day without a fault so far the refresh is done, under way, or still
\* everybody's to begin, the lock being free for the first who tries.
Begun ==
  faults = before => \/ ran # {}
                     \/ \E r \in Replica : pc[r] = "work"
                     \/ key = None /\ \A r \in Replica : pc[r] = "waiting"

\* A key left over from the day before is gone when the day begins.
LEMMA FreeAtDawn == NewDay => key' = None
BY DEF NewDay, Ttl, DayLength

LEMMA BegunStep == TypeOK /\ Begun /\ [Next]_vars => Begun'
<1> SUFFICES ASSUME TypeOK, Begun, [Next]_vars, faults' = before' PROVE Begun'
  BY DEF Begun
<1> USE DEF TypeOK
<1>1. CASE Expire
  BY <1>1 DEF Expire, Begun
<1>2. CASE NewDay
  BY <1>2, FreeAtDawn DEF NewDay, Begun
<1>3. ASSUME NEW r \in Replica, Acquire(r) PROVE Begun'
  <2>1. faults = before /\ ran' = ran
    BY <1>3 DEF Acquire
  <2>2. CASE ran # {}
    BY <2>1, <2>2 DEF Begun
  <2>3. ASSUME NEW s \in Replica, pc[s] = "work" PROVE Begun'
    <3>1. pc'[s] = "work"
      BY <1>3, <2>3 DEF Acquire, Move
    <3> QED BY <3>1 DEF Begun
  <2>4. CASE key = None
    <3>1. pc'[r] = "work"
      BY <1>3, <2>4 DEF Acquire, Move
    <3> QED BY <3>1 DEF Begun
  <2> QED BY <2>1, <2>2, <2>3, <2>4 DEF Begun
<1>4. ASSUME NEW r \in Replica,
             \/ AcquireRaises(r) \/ RefreshFails(r)
             \/ ReleaseFails(r) \/ Crash(r)
      PROVE  FALSE
  BY <1>4 DEF AcquireRaises, RefreshFails, ReleaseFails, Crash, Fails
<1>5. ASSUME NEW r \in Replica, Refresh(r) PROVE Begun'
  BY <1>5 DEF Refresh, Begun
<1>6. ASSUME NEW r \in Replica, Release(r) PROVE Begun'
  <2>1. /\ faults = before /\ ran' = ran
        /\ pc[r] = "release"
        /\ \A s \in Replica : pc[s] = "work" => pc'[s] = "work"
    BY <1>6 DEF Release, Move
  <2> QED BY <2>1 DEF Begun
<1>7. CASE UNCHANGED vars
  BY <1>7 DEF vars, Begun
<1> QED BY <1>1, <1>2, <1>3, <1>4, <1>5, <1>6, <1>7 DEF Next, Run

\* A day without a fault of its own does not pass without a refresh that
\* succeeded, whatever lock the faults of earlier days left behind, however often
\* the lock expired and in whatever order the replicas' triggers fired.
THEOREM RefreshedEveryDay == Spec => []RefreshedDaily
<1>1. Init => Begun
  BY DEF Init, Begun
<1>2. Begun => RefreshedDaily
  BY LockAssumption DEF Begun, RefreshedDaily
<1> QED BY <1>1, <1>2, BegunStep, LockTypes, PTL DEF Spec
=============================================================================
