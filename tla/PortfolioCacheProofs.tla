------------------------ MODULE PortfolioCacheProofs ------------------------
(***************************************************************************)
(* Theorems about PortfolioCache, for any number of users, portfolios and  *)
(* threads.  Types hold whatever id the database gives a new row; that the *)
(* cache serves what is in the table, to its owner, needs ids that are     *)
(* never given twice, which PostgreSQL's sequence guarantees.              *)
(***************************************************************************)
EXTENDS PortfolioCache, FiniteSetTheorems, TLAPS

\* Every row ever saved has taken the next id: what a sequence does.
Sequential ==
  \A n \in 0..(Cardinality(Portfolio) - 1) : \A used \in SUBSET (1..n) :
    Rowid(used, n) = n + 1

\* A row belongs to a portfolio that was saved, and ids are given in turn.
Numbered ==
  \A i \in Id : rows[i] # None => rows[i] \in Saved /\ i <= Cardinality(Saved)

Types == TypeOK /\ Numbered

-----------------------------------------------------------------------------
(* Keys, rows and counts.                                                   *)

LEMMA KeysDiffer ==
  /\ \A u, v : HistoryKey(u) = HistoryKey(v) => u = v
  /\ \A u, v, i : HistoryKey(u) # DetailKey(v, i)
  /\ \A u, v, i, j : DetailKey(u, i) = DetailKey(v, j) => u = v /\ i = j
<1>1. \A u, v : <<u>> = <<v>> => u = v
  OBVIOUS
<1>2. \A u, v, i : <<u>> # <<v, i>>
  OBVIOUS
<1>3. \A u, v, i, j : <<u, i>> = <<v, j>> => u = v /\ i = j
  OBVIOUS
<1> QED BY <1>1, <1>2, <1>3 DEF HistoryKey, DetailKey

LEMMA IdFacts ==
  /\ Cardinality(Portfolio) \in Nat
  /\ Id \subseteq Nat
  /\ None \notin Id /\ None \notin User /\ None \notin Portfolio
BY PortfolioAssumption, FS_CardinalityType DEF Id

\* Saving a portfolio adds one to what was saved, which was not yet all.
LEMMA SavedGrows ==
  ASSUME TypeOK, NEW p \in Portfolio, p \notin Saved
  PROVE  /\ Cardinality(Saved) \in Nat
         /\ Cardinality(Saved) < Cardinality(Portfolio)
         /\ Cardinality(Saved \cup {p}) = Cardinality(Saved) + 1
<1>1. Saved \subseteq Portfolio
  BY DEF Saved
<1>2. IsFiniteSet(Saved)
  BY <1>1, PortfolioAssumption, FS_Subset
<1>3. Saved # Portfolio
  OBVIOUS
<1>4. Cardinality(Saved) \in Nat /\ Cardinality(Saved) < Cardinality(Portfolio)
  BY <1>1, <1>2, <1>3, PortfolioAssumption, FS_Subset, FS_CardinalityType
<1>5. Cardinality(Saved \cup {p}) = Cardinality(Saved) + 1
  BY <1>2, FS_AddElement
<1> QED BY <1>4, <1>5

LEMMA SavedCount ==
  ASSUME TypeOK
  PROVE  Cardinality(Saved) \in Nat
<1>1. Saved \subseteq Portfolio
  BY DEF Saved
<1> QED BY <1>1, PortfolioAssumption, FS_Subset, FS_CardinalityType

\* The id of a new row is nobody's; a sequence gives the next one.
LEMMA FreshId ==
  ASSUME Types, NEW p \in Portfolio, p \notin Saved
  PROVE  /\ Rowid(Used, Cardinality(Saved)) \in Id
         /\ Rowid(Used, Cardinality(Saved)) <= Cardinality(Saved) + 1
         /\ rows[Rowid(Used, Cardinality(Saved))] = None
         /\ Sequential => Rowid(Used, Cardinality(Saved)) = Cardinality(Saved) + 1
<1> DEFINE n == Cardinality(Saved)
<1>1. /\ n \in Nat /\ n < Cardinality(Portfolio) /\ Cardinality(Portfolio) \in Nat
  BY SavedGrows, IdFacts DEF Types
<1>2. Used \in SUBSET (1..n)
  <2>1. \A i \in Used : i \in Id /\ i <= n
    BY DEF Used, Types, Numbered
  <2> QED BY <2>1, <1>1 DEF Id
<1>3. n \in 0..(Cardinality(Portfolio) - 1)
  BY <1>1
<1> HIDE DEF n
<1>4. Rowid(Used, n) \in (1..(n + 1)) \ Used
  BY <1>2, <1>3, PortfolioAssumption
<1>5. Rowid(Used, n) \in Id /\ Rowid(Used, n) <= n + 1
  BY <1>1, <1>4 DEF Id
<1>6. rows[Rowid(Used, n)] = None
  BY <1>4, <1>5 DEF Used
<1>7. Sequential => Rowid(Used, n) = n + 1
  BY <1>2, <1>3 DEF Sequential
<1> QED BY <1>5, <1>6, <1>7 DEF n

\* What the tables look like after a save.
LEMMA AfterInsert ==
  ASSUME Types, NEW u \in User, NEW p \in Portfolio, p \notin Saved,
         InsertRow(u, p)
  PROVE  /\ rows' \in [Id -> Portfolio \cup {None}]
         /\ owner' \in [Portfolio -> User \cup {None}]
         /\ Saved' = Saved \cup {p}
         /\ Cardinality(Saved') = Cardinality(Saved) + 1
         /\ Cardinality(Saved) \in Nat
         /\ \A q \in Saved : owner'[q] = owner[q]
         /\ owner'[p] = u
         /\ \A i \in Id : rows'[i] # rows[i] =>
              /\ rows[i] = None /\ rows'[i] = p
              /\ i = Rowid(Used, Cardinality(Saved))
<1> DEFINE r == Rowid(Used, Cardinality(Saved))
<1>1. r \in Id /\ rows[r] = None
  BY FreshId
<1>2. rows' = [rows EXCEPT ![r] = p] /\ owner' = [owner EXCEPT ![p] = u]
  BY DEF InsertRow
<1>3. rows \in [Id -> Portfolio \cup {None}] /\ owner \in [Portfolio -> User \cup {None}]
  BY DEF Types, TypeOK
<1>4. u # None
  BY IdFacts
<1> HIDE DEF r
<1>5. rows' \in [Id -> Portfolio \cup {None}] /\ owner' \in [Portfolio -> User \cup {None}]
  BY <1>2, <1>3
<1>6. \A q \in Portfolio : owner'[q] = IF q = p THEN u ELSE owner[q]
  BY <1>2, <1>3
<1>7. Saved' = Saved \cup {p}
  BY <1>4, <1>6 DEF Saved
<1>8. /\ Cardinality(Saved') = Cardinality(Saved) + 1
      /\ Cardinality(Saved) \in Nat
  BY <1>7, SavedGrows DEF Types
<1>9. \A i \in Id : rows'[i] # rows[i] => rows[i] = None /\ rows'[i] = p /\ i = r
  BY <1>1, <1>2, <1>3
<1>10. \A q \in Saved : owner'[q] = owner[q]
  BY <1>6 DEF Saved
<1>11. owner'[p] = u
  BY <1>6
<1> QED BY <1>5, <1>7, <1>8, <1>9, <1>10, <1>11 DEF r

-----------------------------------------------------------------------------
(* Threads.                                                                 *)

\* A thread that has begun knows what its next step needs.
Knows(t) ==
  /\ t.pc # "idle" => t.user \in User
  /\ t.pc \notin {"idle", "list", "fillHistory", "dropHistory"} => t.id \in Id
  /\ t.pc = "fillHistory" => t.list \in SUBSET Portfolio
  /\ t.pc \in {"readOwner", "readWeights", "fillDetail"} => t.row \in Portfolio

Sound == {t \in Thread : Knows(t)}

ThreadTypes == call \in [Call -> Sound]

LEMMA ThreadsAreSound == TypeOK => ThreadTypes
<1> SUFFICES ASSUME TypeOK PROVE ThreadTypes
  OBVIOUS
<1>1. call \in [Call -> Thread]
  BY DEF TypeOK
<1>2. \A c \in Call : Knows(call[c])
  BY DEF TypeOK, Knows
<1> QED BY <1>1, <1>2 DEF ThreadTypes, Sound

LEMMA IdleIsSound == Idle \in Sound
BY DEF Idle, Sound, Thread, Pc, Knows

LEMMA NewThreadIsSound ==
  ASSUME NEW u \in User
  PROVE  /\ \A pc \in {"list", "dropHistory"} :
              [Idle EXCEPT !.pc = pc, !.user = u, !.id = None] \in Sound
         /\ \A pc \in {"readRow", "findOwner"}, i \in Id :
              [Idle EXCEPT !.pc = pc, !.user = u, !.id = i] \in Sound
BY DEF Idle, Sound, Thread, Pc, Knows

\* The next step of a thread keeps it sound.
LEMMA NextThreadIsSound ==
  ASSUME NEW t \in Sound
  PROVE  /\ t.pc = "list" => \A list \in SUBSET Portfolio :
              [t EXCEPT !.pc = "fillHistory", !.list = list] \in Sound
         /\ t.pc = "readRow" => \A p \in Portfolio :
              [t EXCEPT !.pc = "readOwner", !.row = p] \in Sound
         /\ t.pc = "readOwner" => [t EXCEPT !.pc = "readWeights"] \in Sound
         /\ t.pc = "readWeights" => \A w \in Portfolio \cup {None} :
              [t EXCEPT !.pc = "fillDetail", !.weights = w] \in Sound
         /\ t.pc = "findOwner" => [t EXCEPT !.pc = "delete"] \in Sound
         /\ t.pc = "delete" => [t EXCEPT !.pc = "dropDetail"] \in Sound
         /\ t.pc = "dropDetail" => [t EXCEPT !.pc = "dropHistory"] \in Sound
<1>1. t \in Thread /\ Knows(t)
  BY DEF Sound
<1>2. ASSUME t.pc = "list", NEW list \in SUBSET Portfolio
      PROVE  [t EXCEPT !.pc = "fillHistory", !.list = list] \in Sound
  BY <1>1, <1>2 DEF Sound, Thread, Pc, Knows
<1>3. ASSUME t.pc = "readRow", NEW p \in Portfolio
      PROVE  [t EXCEPT !.pc = "readOwner", !.row = p] \in Sound
  BY <1>1, <1>3 DEF Sound, Thread, Pc, Knows
<1>4. t.pc = "readOwner" => [t EXCEPT !.pc = "readWeights"] \in Sound
  BY <1>1 DEF Sound, Thread, Pc, Knows
<1>5. ASSUME t.pc = "readWeights", NEW w \in Portfolio \cup {None}
      PROVE  [t EXCEPT !.pc = "fillDetail", !.weights = w] \in Sound
  BY <1>1, <1>5 DEF Sound, Thread, Pc, Knows
<1>6. t.pc = "findOwner" => [t EXCEPT !.pc = "delete"] \in Sound
  BY <1>1 DEF Sound, Thread, Pc, Knows
<1>7. t.pc = "delete" => [t EXCEPT !.pc = "dropDetail"] \in Sound
  BY <1>1 DEF Sound, Thread, Pc, Knows
<1>8. t.pc = "dropDetail" => [t EXCEPT !.pc = "dropHistory"] \in Sound
  BY <1>1 DEF Sound, Thread, Pc, Knows
<1> QED BY <1>2, <1>3, <1>4, <1>5, <1>6, <1>7, <1>8

\* A step of c: its thread becomes t.
Become(c, t) == call' = [call EXCEPT ![c] = t]

LEMMA ThreadFrame ==
  ASSUME call \in [Call -> Sound], NEW c \in Call, NEW t \in Sound, Become(c, t)
  PROVE  /\ call' \in [Call -> Sound]
         /\ call'[c] = t
         /\ \A d \in Call : d # c => call'[d] = call[d]
BY DEF Become

\* What each step makes of the thread that takes it.
LEMMA ThreadSteps ==
  ASSUME TypeOK, NEW c \in Call
  PROVE  /\ \A u \in User : HistoryMiss(c, u)
              => Become(c, [Idle EXCEPT !.pc = "list", !.user = u, !.id = None])
         /\ \A u \in User, i \in Id : DetailMiss(c, u, i)
              => Become(c, [Idle EXCEPT !.pc = "readRow", !.user = u, !.id = i])
         /\ \A u \in User, i \in Id : FindRow(c, u, i)
              => Become(c, [Idle EXCEPT !.pc = "findOwner", !.user = u, !.id = i])
         /\ \A u \in User, p \in Portfolio : Save(c, u, p)
              => Become(c, [Idle EXCEPT !.pc = "dropHistory", !.user = u, !.id = None])
         /\ ListRows(c)
              => Become(c, [call[c] EXCEPT !.pc = "fillHistory",
                                           !.list = Owned(call[c].user)])
         /\ ReadRow(c)
              => \/ Become(c, Idle)
                 \/ /\ rows[call[c].id] # None
                    /\ Become(c, [call[c] EXCEPT !.pc = "readOwner",
                                                 !.row = rows[call[c].id]])
         /\ ReadOwner(c)
              => \/ Become(c, Idle) /\ overtaken' = overtaken \ {c}
                 \/ /\ OwnerOf(call[c].id) = call[c].user /\ UNCHANGED overtaken
                    /\ Become(c, [call[c] EXCEPT !.pc = "readWeights"])
         /\ ReadWeights(c)
              => Become(c, [call[c] EXCEPT !.pc = "fillDetail",
                                           !.weights = rows[call[c].id]])
         /\ FindOwner(c)
              => \/ Become(c, Idle)
                 \/ /\ OwnerOf(call[c].id) = call[c].user
                    /\ Become(c, [call[c] EXCEPT !.pc = "delete"])
         /\ DeleteRow(c) => Become(c, [call[c] EXCEPT !.pc = "dropDetail"])
         /\ InvalidateDetail(c) => Become(c, [call[c] EXCEPT !.pc = "dropHistory"])
         /\ FillHistory(c) \/ FillDetail(c) \/ InvalidateHistory(c) \/ Crash(c)
              => Become(c, Idle)
<1>0. call \in [Call -> Thread] /\ call[c] \in Thread
  BY DEF TypeOK
<1>1. ASSUME NEW u \in User, HistoryMiss(c, u)
      PROVE  Become(c, [Idle EXCEPT !.pc = "list", !.user = u, !.id = None])
  BY <1>1 DEF HistoryMiss, Serve, Become
<1>2. ASSUME NEW u \in User, NEW i \in Id, DetailMiss(c, u, i)
      PROVE  Become(c, [Idle EXCEPT !.pc = "readRow", !.user = u, !.id = i])
  BY <1>2 DEF DetailMiss, Serve, Become
<1>3. ASSUME NEW u \in User, NEW i \in Id, FindRow(c, u, i)
      PROVE  Become(c, [Idle EXCEPT !.pc = "findOwner", !.user = u, !.id = i])
  BY <1>3 DEF FindRow, Serve, Become
<1>4. ASSUME NEW u \in User, NEW p \in Portfolio, Save(c, u, p)
      PROVE  Become(c, [Idle EXCEPT !.pc = "dropHistory", !.user = u, !.id = None])
  BY <1>4 DEF Save, Serve, Become
<1>5. ASSUME ListRows(c)
      PROVE  Become(c, [call[c] EXCEPT !.pc = "fillHistory",
                                       !.list = Owned(call[c].user)])
  <2> DEFINE L == Owned(call[c].user)
  <2>1. call' = [call EXCEPT ![c].pc = "fillHistory", ![c].list = L]
    BY <1>5 DEF ListRows
  <2> HIDE DEF L
  <2>2. call' = [call EXCEPT ![c] = [call[c] EXCEPT !.pc = "fillHistory", !.list = L]]
    BY <2>1, <1>0
  <2> QED BY <2>2 DEF Become, L
<1>6. ASSUME ReadRow(c)
      PROVE  \/ Become(c, Idle)
             \/ /\ rows[call[c].id] # None
                /\ Become(c, [call[c] EXCEPT !.pc = "readOwner",
                                             !.row = rows[call[c].id]])
  <2>1. CASE RowOf(call[c].id) = None
    BY <2>1, <1>6 DEF ReadRow, Finish, Become
  <2>2. CASE RowOf(call[c].id) # None
    <3>1. call' = [call EXCEPT ![c].pc = "readOwner", ![c].row = rows[call[c].id]]
      BY <2>2, <1>6 DEF ReadRow, RowOf
    <3>2. call' = [call EXCEPT ![c] = [call[c] EXCEPT !.pc = "readOwner",
                                                      !.row = rows[call[c].id]]]
      BY <3>1, <1>0
    <3> QED BY <3>2, <2>2 DEF Become, RowOf
  <2> QED BY <2>1, <2>2
<1>7. ASSUME ReadOwner(c)
      PROVE  \/ Become(c, Idle) /\ overtaken' = overtaken \ {c}
             \/ /\ OwnerOf(call[c].id) = call[c].user /\ UNCHANGED overtaken
                /\ Become(c, [call[c] EXCEPT !.pc = "readWeights"])
  BY <1>7 DEF ReadOwner, Goto, Finish, Become
<1>8. ASSUME ReadWeights(c)
      PROVE  Become(c, [call[c] EXCEPT !.pc = "fillDetail",
                                       !.weights = rows[call[c].id]])
  <2>1. call' = [call EXCEPT ![c].pc = "fillDetail", ![c].weights = rows[call[c].id]]
    BY <1>8 DEF ReadWeights, WeightsOf
  <2>2. call' = [call EXCEPT ![c] = [call[c] EXCEPT !.pc = "fillDetail",
                                                    !.weights = rows[call[c].id]]]
    BY <2>1, <1>0
  <2> QED BY <2>2 DEF Become
<1>9. ASSUME FindOwner(c)
      PROVE  \/ Become(c, Idle)
             \/ /\ OwnerOf(call[c].id) = call[c].user
                /\ Become(c, [call[c] EXCEPT !.pc = "delete"])
  BY <1>9 DEF FindOwner, Goto, Finish, Become
<1>10. DeleteRow(c) => Become(c, [call[c] EXCEPT !.pc = "dropDetail"])
  BY DEF DeleteRow, Goto, Become
<1>11. InvalidateDetail(c) => Become(c, [call[c] EXCEPT !.pc = "dropHistory"])
  BY DEF InvalidateDetail, Goto, Become
<1>12. FillHistory(c) => Become(c, Idle)
  BY DEF FillHistory, Finish, Become
<1>13. FillDetail(c) => Become(c, Idle)
  BY DEF FillDetail, Finish, Become
<1>14. InvalidateHistory(c) => Become(c, Idle)
  BY DEF InvalidateHistory, Finish, Become
<1>15. Crash(c) => Become(c, Idle)
  BY DEF Crash, Finish, Become
<1> QED
  BY <1>1, <1>2, <1>3, <1>4, <1>5, <1>6, <1>7, <1>8, <1>9, <1>10, <1>11,
     <1>12, <1>13, <1>14, <1>15

\* Every step leaves the other threads where they are, and its own sound.
LEMMA ThreadStep ==
  ASSUME TypeOK, NEW c \in Call, Begin(c) \/ Continue(c) \/ Crash(c)
  PROVE  /\ call' \in [Call -> Sound]
         /\ \A d \in Call : d # c => call'[d] = call[d]
<1>0. call \in [Call -> Sound] /\ call[c] \in Sound /\ Knows(call[c])
  BY ThreadsAreSound DEF ThreadTypes, Sound
<1> SUFFICES \E t \in Sound : Become(c, t)
  BY <1>0, ThreadFrame
<1>1. CASE Begin(c)
  <2>1. PICK u \in User :
          \/ HistoryMiss(c, u)
          \/ \E i \in Id : DetailMiss(c, u, i) \/ FindRow(c, u, i)
          \/ \E p \in Portfolio : Save(c, u, p)
    BY <1>1 DEF Begin
  <2>2. CASE HistoryMiss(c, u)
    BY <2>2, ThreadSteps, NewThreadIsSound
  <2>3. CASE \E i \in Id : DetailMiss(c, u, i) \/ FindRow(c, u, i)
    BY <2>3, ThreadSteps, NewThreadIsSound
  <2>4. CASE \E p \in Portfolio : Save(c, u, p)
    BY <2>4, ThreadSteps, NewThreadIsSound
  <2> QED BY <2>1, <2>2, <2>3, <2>4
<1>2. CASE ListRows(c)
  <2>1. Owned(call[c].user) \in SUBSET Portfolio
    BY DEF Owned
  <2>2. call[c].pc = "list"
    BY <1>2 DEF ListRows, At
  <2> QED BY <1>0, <1>2, <2>1, <2>2, ThreadSteps, NextThreadIsSound
<1>3. CASE ReadRow(c)
  <2>1. call[c].pc = "readRow" /\ call[c].id \in Id
    BY <1>0, <1>3 DEF ReadRow, At, Knows
  <2>2. rows[call[c].id] \in Portfolio \cup {None}
    BY <2>1 DEF TypeOK
  <2> QED BY <1>0, <1>3, <2>1, <2>2, ThreadSteps, NextThreadIsSound, IdleIsSound
<1>4. CASE ReadOwner(c)
  <2>1. call[c].pc = "readOwner"
    BY <1>4 DEF ReadOwner, At
  <2> QED BY <1>0, <1>4, <2>1, ThreadSteps, NextThreadIsSound, IdleIsSound
<1>5. CASE ReadWeights(c)
  <2>1. call[c].pc = "readWeights" /\ call[c].id \in Id
    BY <1>0, <1>5 DEF ReadWeights, At, Knows
  <2>2. rows[call[c].id] \in Portfolio \cup {None}
    BY <2>1 DEF TypeOK
  <2> QED BY <1>0, <1>5, <2>1, <2>2, ThreadSteps, NextThreadIsSound
<1>6. CASE FindOwner(c)
  <2>1. call[c].pc = "findOwner"
    BY <1>6 DEF FindOwner, At
  <2> QED BY <1>0, <1>6, <2>1, ThreadSteps, NextThreadIsSound, IdleIsSound
<1>7. CASE DeleteRow(c)
  <2>1. call[c].pc = "delete"
    BY <1>7 DEF DeleteRow, At
  <2> QED BY <1>0, <1>7, <2>1, ThreadSteps, NextThreadIsSound
<1>8. CASE InvalidateDetail(c)
  <2>1. call[c].pc = "dropDetail"
    BY <1>8 DEF InvalidateDetail, At
  <2> QED BY <1>0, <1>8, <2>1, ThreadSteps, NextThreadIsSound
<1>9. CASE FillHistory(c) \/ FillDetail(c) \/ InvalidateHistory(c) \/ Crash(c)
  BY <1>9, ThreadSteps, IdleIsSound
<1> QED BY <1>1, <1>2, <1>3, <1>4, <1>5, <1>6, <1>7, <1>8, <1>9 DEF Continue

\* The steps that only read the tables and the cache.
Reading(c) ==
  \/ \E u \in User :
       \/ HistoryMiss(c, u)
       \/ \E i \in Id : DetailMiss(c, u, i) \/ FindRow(c, u, i)
  \/ ListRows(c) \/ ReadRow(c) \/ ReadOwner(c) \/ ReadWeights(c) \/ FindOwner(c)

LEMMA Reads ==
  ASSUME TypeOK, NEW c \in Call, Reading(c)
  PROVE  /\ UNCHANGED <<rows, owner, hist, detail, late>>
         /\ overtaken \ {c} \subseteq overtaken' /\ overtaken' \subseteq overtaken
         /\ faults' \in Nat
<1>0. faults \in Nat
  BY DEF TypeOK
<1>1. ASSUME NEW u \in User,
             HistoryMiss(c, u) \/ \E i \in Id : DetailMiss(c, u, i) \/ FindRow(c, u, i)
      PROVE  UNCHANGED <<rows, owner, hist, detail, late, overtaken>> /\ faults' \in Nat
  BY <1>0, <1>1 DEF HistoryMiss, DetailMiss, FindRow, CacheFails
<1>2. ListRows(c) \/ ReadRow(c) \/ ReadWeights(c) \/ FindOwner(c)
        => UNCHANGED <<rows, owner, hist, detail, late, overtaken, faults>>
  BY DEF ListRows, ReadRow, ReadWeights, FindOwner
<1>3. ReadOwner(c)
        => /\ UNCHANGED <<rows, owner, hist, detail, late, faults>>
           /\ overtaken' = overtaken \/ overtaken' = overtaken \ {c}
  BY DEF ReadOwner
<1> QED BY <1>0, <1>1, <1>2, <1>3 DEF Reading

LEMMA StepsSplit ==
  ASSUME NEW c \in Call, Begin(c) \/ Continue(c) \/ Crash(c)
  PROVE  \/ Reading(c)
         \/ \E u \in User, p \in Portfolio : Save(c, u, p)
         \/ DeleteRow(c)
         \/ FillHistory(c) \/ FillDetail(c)
         \/ InvalidateHistory(c) \/ InvalidateDetail(c)
         \/ Crash(c)
BY DEF Begin, Continue, Reading

-----------------------------------------------------------------------------
(* Type correctness.                                                        *)

Tables ==
  /\ rows \in [Id -> Portfolio \cup {None}]
  /\ owner \in [Portfolio -> User \cup {None}]

Keys == {HistoryKey(u) : u \in User} \cup {DetailKey(u, i) : u \in User, i \in Id}

Caches ==
  /\ hist \in [User -> {None} \cup SUBSET Portfolio]
  /\ detail \in [User -> [Id -> Detail \cup {None}]]
  /\ overtaken \subseteq Call
  /\ late \subseteq Keys
  /\ faults \in Nat

LEMMA TypeParts == TypeOK <=> Tables /\ Caches /\ ThreadTypes
<1>1. TypeOK => Tables /\ Caches /\ ThreadTypes
  BY ThreadsAreSound DEF TypeOK, Tables, Caches, Keys
<1>2. ASSUME Tables, Caches, ThreadTypes PROVE TypeOK
  <2>1. call \in [Call -> Thread] /\ \A c \in Call : Knows(call[c])
    BY <1>2 DEF ThreadTypes, Sound
  <2> QED BY <1>2, <2>1 DEF TypeOK, Tables, Caches, Keys, Knows
<1> QED BY <1>1, <1>2

LEMMA KeyFacts ==
  /\ \A u \in User : HistoryKey(u) \in Keys
  /\ \A u \in User, i \in Id : DetailKey(u, i) \in Keys
BY DEF Keys

LEMMA ReadersAreCalls ==
  /\ \A u : HistoryReaders(u) \subseteq Call
  /\ \A u, i : DetailReaders(u, i) \subseteq Call
BY DEF HistoryReaders, DetailReaders

\* A cached portfolio is dropped, or one is filled.
LEMMA DetailChanged ==
  ASSUME detail \in [User -> [Id -> Detail \cup {None}]],
         NEW u \in User, NEW i \in Id, NEW d \in Detail \cup {None},
         detail' = [detail EXCEPT ![u][i] = d]
  PROVE  /\ detail' \in [User -> [Id -> Detail \cup {None}]]
         /\ detail'[u][i] = d
         /\ \A v \in User, j \in Id : v # u \/ j # i => detail'[v][j] = detail[v][j]
OBVIOUS

LEMMA TypesInit == Init => Types
<1> SUFFICES ASSUME Init PROVE Types
  OBVIOUS
<1>1. Tables
  BY DEF Init, Tables
<1>2. Caches
  BY DEF Init, Caches
<1>3. ThreadTypes
  BY IdleIsSound DEF Init, ThreadTypes
<1>4. Numbered
  BY DEF Init, Numbered
<1> QED BY <1>1, <1>2, <1>3, <1>4, TypeParts DEF Types

LEMMA TablesStep ==
  ASSUME Types, NEW c \in Call, Begin(c) \/ Continue(c) \/ Crash(c)
  PROVE  Tables' /\ Numbered'
<1>0. Tables /\ Numbered /\ Cardinality(Saved) \in Nat /\ Id \subseteq Nat
  BY TypeParts, SavedCount, IdFacts DEF Types
<1>1. CASE UNCHANGED <<rows, owner>>
  BY <1>0, <1>1 DEF Tables, Numbered, Saved, Id
<1>2. ASSUME NEW u \in User, NEW p \in Portfolio, Save(c, u, p)
      PROVE  Tables' /\ Numbered'
  <2>1. p \notin Saved /\ InsertRow(u, p)
    BY <1>2 DEF Save
  <2>2. Tables'
    BY <2>1, AfterInsert DEF Tables
  <2>3. ASSUME NEW i \in Id, rows'[i] # None
        PROVE  rows'[i] \in Saved' /\ i <= Cardinality(Saved')
    <3>1. CASE rows'[i] = rows[i]
      <4>1. rows[i] \in Saved /\ i <= Cardinality(Saved)
        BY <1>0, <2>3, <3>1 DEF Numbered
      <4> QED BY <4>1, <3>1, <2>1, <1>0, AfterInsert
    <3>2. CASE rows'[i] # rows[i]
      <4>1. rows'[i] = p /\ i = Rowid(Used, Cardinality(Saved))
        BY <3>2, <2>1, AfterInsert
      <4> QED BY <4>1, <2>1, AfterInsert, FreshId
    <3> QED BY <3>1, <3>2
  <2>4. Numbered'
    BY <2>3 DEF Numbered, Id
  <2> QED BY <2>2, <2>4
<1>3. CASE DeleteRow(c)
  <2>1. rows' = [rows EXCEPT ![call[c].id] = None] /\ UNCHANGED owner
    BY <1>3 DEF DeleteRow
  <2> QED BY <1>0, <2>1 DEF Tables, Numbered, Saved, Id
<1>4. Reading(c) => UNCHANGED <<rows, owner>>
  BY Reads DEF Types
<1>5. FillHistory(c) \/ FillDetail(c) \/ InvalidateHistory(c) \/ InvalidateDetail(c)
        \/ Crash(c) => UNCHANGED <<rows, owner>>
  BY DEF FillHistory, FillDetail, InvalidateHistory, InvalidateDetail, Crash
<1> QED BY <1>1, <1>2, <1>3, <1>4, <1>5, StepsSplit

\* What a thread of each kind holds.
LEMMA ThreadFacts ==
  ASSUME TypeOK, NEW c \in Call
  PROVE  /\ call[c].pc # "idle" => call[c].user \in User
         /\ call[c].pc \in {"readRow", "readOwner", "readWeights", "fillDetail",
                            "findOwner", "delete", "dropDetail"}
              => call[c].id \in Id
         /\ call[c].pc = "fillHistory" => call[c].list \in SUBSET Portfolio
         /\ call[c].pc \in {"readOwner", "readWeights", "fillDetail"}
              => call[c].row \in Portfolio
         /\ call[c].weights \in Portfolio \cup {None}
         /\ call[c] \in Thread
BY DEF TypeOK, Thread

LEMMA CachesStep ==
  ASSUME TypeOK, NEW c \in Call, Begin(c) \/ Continue(c) \/ Crash(c)
  PROVE  Caches'
<1>0. Caches /\ faults \in Nat
  BY TypeParts DEF Caches
<1> DEFINE u == call[c].user
           i == call[c].id
<1>1. CASE Reading(c)
  BY <1>0, <1>1, Reads DEF Caches
<1>2. ASSUME NEW v \in User, NEW p \in Portfolio, Save(c, v, p)
      PROVE  Caches'
  BY <1>0, <1>2 DEF Save, Caches
<1>3. CASE DeleteRow(c)
  BY <1>0, <1>3 DEF DeleteRow, Caches
<1>4. CASE FillHistory(c)
  <2>1. u \in User /\ call[c].list \in SUBSET Portfolio
    BY <1>4, ThreadFacts DEF FillHistory, At
  <2>2. HistoryKey(u) \in Keys
    BY <2>1, KeyFacts
  <2>3. UNCHANGED detail /\ overtaken' = overtaken \ {c}
    BY <1>4 DEF FillHistory
  <2>4. faults' \in Nat
    BY <1>0, <1>4 DEF FillHistory, CacheFails
  <2>5. hist' = hist \/ hist' = [hist EXCEPT ![u] = call[c].list]
    BY <1>4 DEF FillHistory
  <2>6. late' \subseteq late \cup {HistoryKey(u)}
    BY <1>4 DEF FillHistory
  <2> HIDE DEF u
  <2> QED BY <1>0, <2>1, <2>2, <2>3, <2>4, <2>5, <2>6 DEF Caches
<1>5. CASE FillDetail(c)
  <2>1. u \in User /\ i \in Id /\ call[c].row \in Portfolio
    BY <1>5, ThreadFacts DEF FillDetail, At
  <2>2. DetailKey(u, i) \in Keys
    BY <2>1, KeyFacts
  <2>3. UNCHANGED hist /\ overtaken' = overtaken \ {c}
    BY <1>5 DEF FillDetail
  <2>4. faults' \in Nat
    BY <1>0, <1>5 DEF FillDetail, CacheFails
  <2> DEFINE e == [row |-> call[c].row, weights |-> call[c].weights]
  <2>5. e \in Detail
    BY <2>1, ThreadFacts DEF Detail
  <2>6. detail' = detail \/ detail' = [detail EXCEPT ![u][i] = e]
    BY <1>5 DEF FillDetail
  <2>7. late' \subseteq late \cup {DetailKey(u, i)}
    BY <1>5 DEF FillDetail
  <2> HIDE DEF u, i, e
  <2>8. detail' \in [User -> [Id -> Detail \cup {None}]]
    BY <1>0, <2>1, <2>5, <2>6, DetailChanged DEF Caches
  <2> QED BY <1>0, <2>2, <2>3, <2>4, <2>7, <2>8 DEF Caches
<1>6. CASE InvalidateHistory(c)
  <2>1. u \in User
    BY <1>6, ThreadFacts DEF InvalidateHistory, At
  <2>2. HistoryKey(u) \in Keys /\ HistoryReaders(u) \subseteq Call
    BY <2>1, KeyFacts, ReadersAreCalls
  <2>3. UNCHANGED detail /\ overtaken' = overtaken \cup HistoryReaders(u)
    BY <1>6 DEF InvalidateHistory, DropHistory
  <2>4. faults' \in Nat
    BY <1>0, <1>6 DEF InvalidateHistory, DropHistory, CacheFails
  <2>5. hist' = hist \/ hist' = [hist EXCEPT ![u] = None]
    BY <1>6 DEF InvalidateHistory, DropHistory
  <2>6. late' \subseteq late \cup {HistoryKey(u)}
    BY <1>6 DEF InvalidateHistory, DropHistory
  <2> HIDE DEF u
  <2> QED BY <1>0, <2>1, <2>2, <2>3, <2>4, <2>5, <2>6 DEF Caches
<1>7. CASE InvalidateDetail(c)
  <2>1. u \in User /\ i \in Id
    BY <1>7, ThreadFacts DEF InvalidateDetail, At
  <2>2. DetailKey(u, i) \in Keys /\ DetailReaders(u, i) \subseteq Call
    BY <2>1, KeyFacts, ReadersAreCalls
  <2>3. UNCHANGED hist /\ overtaken' = overtaken \cup DetailReaders(u, i)
    BY <1>7 DEF InvalidateDetail, DropDetail
  <2>4. faults' \in Nat
    BY <1>0, <1>7 DEF InvalidateDetail, DropDetail, CacheFails
  <2>5. detail' = detail \/ detail' = [detail EXCEPT ![u][i] = None]
    BY <1>7 DEF InvalidateDetail, DropDetail
  <2>6. late' \subseteq late \cup {DetailKey(u, i)}
    BY <1>7 DEF InvalidateDetail, DropDetail
  <2> HIDE DEF u, i
  <2>7. detail' \in [User -> [Id -> Detail \cup {None}]]
    BY <1>0, <2>1, <2>5, DetailChanged DEF Caches
  <2> QED BY <1>0, <2>2, <2>3, <2>4, <2>6, <2>7 DEF Caches
<1>8. CASE Crash(c)
  <2>1. UNCHANGED <<hist, detail>> /\ faults' \in Nat
    BY <1>0, <1>8 DEF Crash
  <2>2. overtaken' \subseteq Call
    BY <1>0, <1>8, ReadersAreCalls DEF Crash, Caches
  <2>3. late' \subseteq Keys
    <3>1. CASE call[c].pc = "dropHistory"
      <4>1. late' = late \cup {HistoryKey(u)} /\ u \in User
        BY <1>8, <3>1, ThreadFacts DEF Crash, At
      <4> QED BY <1>0, <4>1, KeyFacts DEF Caches
    <3>2. CASE call[c].pc = "dropDetail"
      <4>1. /\ late' = late \cup {HistoryKey(u), DetailKey(u, i)}
            /\ u \in User /\ i \in Id
        BY <1>8, <3>2, ThreadFacts DEF Crash, At
      <4> QED BY <1>0, <4>1, KeyFacts DEF Caches
    <3>3. CASE call[c].pc \notin {"dropHistory", "dropDetail"}
      <4>1. late' = late
        BY <1>8, <3>3 DEF Crash, At
      <4> QED BY <1>0, <4>1 DEF Caches
    <3> QED BY <3>1, <3>2, <3>3
  <2> QED BY <2>1, <2>2, <2>3, <1>0 DEF Caches
<1> QED BY <1>1, <1>2, <1>3, <1>4, <1>5, <1>6, <1>7, <1>8, StepsSplit

\* An expiry drops one key.
LEMMA ExpireCaches ==
  ASSUME TypeOK, Expire
  PROVE  Caches'
<1>0. Caches
  BY TypeParts
<1>1. UNCHANGED <<overtaken, faults>>
  BY DEF Expire
<1>2. ASSUME NEW u \in User, hist' = [hist EXCEPT ![u] = None],
             late' = late \ {HistoryKey(u)}, UNCHANGED detail
      PROVE  Caches'
  BY <1>0, <1>1, <1>2 DEF Caches
<1>3. ASSUME NEW u \in User, NEW i \in Id, detail' = [detail EXCEPT ![u][i] = None],
             late' = late \ {DetailKey(u, i)}, UNCHANGED hist
      PROVE  Caches'
  <2>1. detail' \in [User -> [Id -> Detail \cup {None}]]
    BY <1>3, <1>0, DetailChanged DEF Caches
  <2> QED BY <1>0, <1>1, <1>3, <2>1 DEF Caches
<1> QED BY <1>2, <1>3 DEF Expire

LEMMA TypePartsNext == Tables' /\ Caches' /\ ThreadTypes' => TypeOK'
BY TypeParts, PTL

LEMMA TypesStep == Types /\ [Next]_vars => Types'
<1> SUFFICES ASSUME Types, [Next]_vars PROVE Types'
  OBVIOUS
<1>0. TypeOK /\ Tables /\ Caches /\ ThreadTypes /\ Numbered
  BY TypeParts DEF Types
<1>1. CASE Expire
  <2>1. Caches' /\ UNCHANGED <<rows, owner, call>>
    BY <1>0, <1>1, ExpireCaches DEF Expire
  <2>2. Tables' /\ ThreadTypes' /\ Numbered'
    BY <1>0, <2>1 DEF Tables, ThreadTypes, Sound, Thread, Numbered, Saved, Id
  <2> QED BY <2>1, <2>2, TypePartsNext DEF Types
<1>2. ASSUME NEW c \in Call, Begin(c) \/ Continue(c) \/ Crash(c)
      PROVE  Types'
  <2>1. Tables' /\ Numbered'
    BY <1>2, TablesStep
  <2>2. Caches'
    BY <1>0, <1>2, CachesStep
  <2>3. ThreadTypes'
    BY <1>0, <1>2, ThreadStep DEF ThreadTypes, Sound, Thread, Id
  <2> QED BY <2>1, <2>2, <2>3, TypePartsNext DEF Types
<1>3. CASE UNCHANGED vars
  <2>1. UNCHANGED <<rows, owner, hist, detail, call, overtaken, late, faults>>
    BY <1>3 DEF vars
  <2>2. Tables' /\ Caches' /\ ThreadTypes' /\ Numbered'
    BY <1>0, <2>1 DEF Tables, Caches, ThreadTypes, Sound, Thread, Numbered, Saved,
                      Keys, HistoryKey, DetailKey, Id
  <2> QED BY <2>2, TypePartsNext DEF Types
<1> QED BY <1>1, <1>2, <1>3 DEF Next

\* Tables, cache and threads keep their types whatever id a new row is given.
THEOREM PortfolioTypes == Spec => []TypeOK
<1>1. Init => Types
  BY TypesInit
<1>2. Types /\ [Next]_vars => Types'
  BY TypesStep
<1>3. Types => TypeOK
  BY DEF Types
<1> QED BY <1>1, <1>2, <1>3, PTL DEF Spec

-----------------------------------------------------------------------------
(* What keeps the cache current when ids are not reused.                    *)

\* The row a thread holds, or is about to delete, was saved, and its id means
\* that row or no row any more.
IdStands(c) ==
  /\ call[c].pc \in {"readOwner", "readWeights", "fillDetail", "findOwner", "delete"}
       => call[c].id <= Cardinality(Saved)
  /\ At(c, "readOwner") => rows[call[c].id] \in {call[c].row, None}
  /\ At(c, "delete") => OwnerOf(call[c].id) \in {call[c].user, None}

\* A copy of a portfolio is its owner's; it is what the table has, unless an
\* invalidation is still to come or has overtaken the thread.
DetailCopy(c) ==
  call[c].pc \in {"readWeights", "fillDetail"} =>
    /\ owner[call[c].row] = call[c].user
    /\ \/ /\ rows[call[c].id] = call[c].row
          /\ At(c, "fillDetail") => call[c].weights = call[c].row
       \/ DetailDue(call[c].user, call[c].id)
       \/ c \in overtaken

\* Likewise for a list of portfolios.
HistoryCopy(c) ==
  At(c, "fillHistory") =>
    \/ call[c].list = Owned(call[c].user)
    \/ HistoryDue(call[c].user)
    \/ c \in overtaken

Stands(c) == IdStands(c) /\ DetailCopy(c) /\ HistoryCopy(c)

Fresh == HistoryFresh /\ DetailFresh /\ OwnDetailOnly

Inv == Types /\ (\A c \in Call : Stands(c)) /\ Fresh

\* An invalidation that is due stays due until the thread that owes it acts.
LEMMA DuesStay ==
  ASSUME NEW c \in Call, \A d \in Call : d # c => call'[d] = call[d]
  PROVE  /\ \A u : HistoryDue(u) => \/ HistoryDue(u)'
                                    \/ /\ call[c].user = u
                                       /\ call[c].pc \in {"dropDetail", "dropHistory"}
         /\ \A u, i : DetailDue(u, i) => \/ DetailDue(u, i)'
                                         \/ /\ call[c].user = u /\ call[c].id = i
                                            /\ call[c].pc = "dropDetail"
BY DEF HistoryDue, DetailDue, For, At

LEMMA ReadersHold ==
  ASSUME NEW c \in Call
  PROVE  /\ call[c].pc = "fillHistory" => c \in HistoryReaders(call[c].user)
         /\ call[c].pc \in {"readWeights", "fillDetail"}
              => c \in DetailReaders(call[c].user, call[c].id)
BY DEF HistoryReaders, DetailReaders, For, At

\* A thread that does not move keeps standing when the tables stay and an
\* invalidation that is no longer due has overtaken it.
LEMMA OthersStand ==
  ASSUME NEW c \in Call, NEW d \in Call, call'[d] = call[d], Stands(d),
         UNCHANGED <<rows, owner>>,
         c # d, overtaken \ {c} \subseteq overtaken',
         \A u : HistoryDue(u)
                  => HistoryDue(u)' \/ HistoryReaders(u) \ {c} \subseteq overtaken',
         \A u, i : DetailDue(u, i)
                  => DetailDue(u, i)' \/ DetailReaders(u, i) \ {c} \subseteq overtaken'
  PROVE  Stands(d)'
<1> DEFINE t == call[d]
<1>1. Saved' = Saved /\ OwnerOf(t.id)' = OwnerOf(t.id)
  BY DEF Saved, OwnerOf
<1>2. IdStands(d)'
  BY <1>1 DEF Stands, IdStands, At, OwnerOf, Saved
<1>3. ASSUME t.pc \in {"readWeights", "fillDetail"}
      PROVE  DetailCopy(d)'
  <2>1. /\ owner[t.row] = t.user
        /\ \/ rows[t.id] = t.row /\ (t.pc = "fillDetail" => t.weights = t.row)
           \/ DetailDue(t.user, t.id)
           \/ d \in overtaken
    BY <1>3 DEF Stands, DetailCopy, At
  <2>2. d \in DetailReaders(t.user, t.id)
    BY <1>3, ReadersHold
  <2>3. DetailDue(t.user, t.id)
          => \E u, i : u = t.user /\ i = t.id /\ (DetailDue(u, i)' \/ d \in overtaken')
    BY <2>2
  <2> QED BY <2>1, <2>3 DEF DetailCopy, At
<1>4. ASSUME t.pc = "fillHistory"
      PROVE  HistoryCopy(d)'
  <2>1. \/ t.list = Owned(t.user) \/ HistoryDue(t.user) \/ d \in overtaken
    BY <1>4 DEF Stands, HistoryCopy, At
  <2>2. d \in HistoryReaders(t.user)
    BY <1>4, ReadersHold
  <2>3. HistoryDue(t.user)
          => \E u : u = t.user /\ (HistoryDue(u)' \/ d \in overtaken')
    BY <2>2
  <2>4. t.list = Owned(t.user) => \E u : u = t.user /\ t.list = Owned(u)'
    BY DEF Owned
  <2> QED BY <2>1, <2>3, <2>4 DEF HistoryCopy, At
<1> QED BY <1>2, <1>3, <1>4 DEF Stands, DetailCopy, HistoryCopy, At

\* The freshness of one key is not disturbed by what leaves it alone.
LEMMA FreshStays ==
  ASSUME Fresh, UNCHANGED <<rows, owner, hist, detail>>, late \subseteq late',
         \A u : HistoryDue(u) => HistoryDue(u)' \/ HistoryKey(u) \in late',
         \A u, i : DetailDue(u, i) => DetailDue(u, i)' \/ DetailKey(u, i) \in late'
  PROVE  Fresh'
<1>1. \A u : Owned(u)' = Owned(u)
  BY DEF Owned
<1>2. HistoryFresh'
  BY <1>1 DEF Fresh, HistoryFresh, HistoryKey
<1>3. DetailFresh'
  BY DEF Fresh, DetailFresh, DetailKey
<1>4. OwnDetailOnly'
  BY DEF Fresh, OwnDetailOnly
<1> QED BY <1>2, <1>3, <1>4 DEF Fresh

\* A reader takes what the tables have, after the checks of its operation.
LEMMA ReadingStands ==
  ASSUME Inv, NEW c \in Call, Reading(c)
  PROVE  Stands(c)'
<1> DEFINE t == call[c]
<1>0. /\ TypeOK /\ Types /\ Stands(c)
      /\ t \in Thread
      /\ rows \in [Id -> Portfolio \cup {None}]
  BY ThreadFacts DEF Inv, Types, TypeOK
<1>1. UNCHANGED <<rows, owner>> /\ Saved' = Saved
  BY <1>0, Reads DEF Saved
<1>3. \A e : Become(c, e) => call'[c] = e
  BY <1>0 DEF Become, TypeOK
<1>4. ASSUME NEW u \in User, HistoryMiss(c, u)
      PROVE  Stands(c)'
  <2>0. Become(c, [Idle EXCEPT !.pc = "list", !.user = u, !.id = None])
    BY <1>0, <1>4, ThreadSteps
  <2>1. call'[c].pc = "list"
    BY <1>3, <2>0 DEF Idle
  <2> QED BY <2>1 DEF Stands, IdStands, DetailCopy, HistoryCopy, At
<1>5. ASSUME NEW u \in User, NEW i \in Id, DetailMiss(c, u, i)
      PROVE  Stands(c)'
  <2>0. Become(c, [Idle EXCEPT !.pc = "readRow", !.user = u, !.id = i])
    BY <1>0, <1>5, ThreadSteps
  <2>1. call'[c].pc = "readRow"
    BY <1>3, <2>0 DEF Idle
  <2> QED BY <2>1 DEF Stands, IdStands, DetailCopy, HistoryCopy, At
<1>6. ASSUME NEW u \in User, NEW i \in Id, FindRow(c, u, i)
      PROVE  Stands(c)'
  <2>0. Become(c, [Idle EXCEPT !.pc = "findOwner", !.user = u, !.id = i])
    BY <1>0, <1>6, ThreadSteps
  <2>1. call'[c].pc = "findOwner" /\ call'[c].id = i
    BY <1>3, <2>0 DEF Idle
  <2>2. i <= Cardinality(Saved)
    BY <1>0, <1>6 DEF FindRow, RowOf, Types, Numbered
  <2> QED BY <1>1, <2>1, <2>2 DEF Stands, IdStands, DetailCopy, HistoryCopy, At
<1>7. CASE ListRows(c)
  <2>0. Become(c, [t EXCEPT !.pc = "fillHistory", !.list = Owned(t.user)])
    BY <1>0, <1>7, ThreadSteps
  <2>1. /\ call'[c].pc = "fillHistory" /\ call'[c].user = t.user
        /\ call'[c].list = Owned(t.user)
    BY <1>0, <1>3, <2>0 DEF Thread
  <2>2. \E u : u = call'[c].user /\ call'[c].list = Owned(u)'
    BY <1>1, <2>1 DEF Owned
  <2> QED BY <2>1, <2>2 DEF Stands, IdStands, DetailCopy, HistoryCopy, At
<1>8. CASE ReadRow(c)
  <2>1. CASE Become(c, Idle)
    <3>1. call'[c].pc = "idle"
      BY <1>3, <2>1 DEF Idle
    <3> QED BY <3>1 DEF Stands, IdStands, DetailCopy, HistoryCopy, At
  <2>2. CASE /\ rows[t.id] # None
             /\ Become(c, [t EXCEPT !.pc = "readOwner", !.row = rows[t.id]])
    <3>1. /\ call'[c].pc = "readOwner" /\ call'[c].id = t.id
          /\ call'[c].row = rows[t.id]
      BY <1>0, <1>3, <2>2 DEF Thread
    <3>2. t.id \in Id
      BY <1>0, <1>8, ThreadFacts DEF ReadRow, At
    <3>3. t.id <= Cardinality(Saved)
      BY <1>0, <2>2, <3>2 DEF Types, Numbered
    <3> QED BY <1>1, <3>1, <3>3 DEF Stands, IdStands, DetailCopy, HistoryCopy, At
  <2> QED BY <1>0, <1>8, <2>1, <2>2, ThreadSteps
<1>9. CASE ReadOwner(c)
  <2>1. CASE Become(c, Idle)
    <3>1. call'[c].pc = "idle"
      BY <1>3, <2>1 DEF Idle
    <3> QED BY <3>1 DEF Stands, IdStands, DetailCopy, HistoryCopy, At
  <2>2. CASE /\ OwnerOf(t.id) = t.user
             /\ Become(c, [t EXCEPT !.pc = "readWeights"])
    <3>1. /\ call'[c].pc = "readWeights" /\ call'[c].id = t.id
          /\ call'[c].row = t.row /\ call'[c].user = t.user
      BY <1>0, <1>3, <2>2 DEF Thread
    <3>2. t.pc = "readOwner" /\ t.user \in User
      BY <1>0, <1>9, ThreadFacts DEF ReadOwner, At
    <3>3. rows[t.id] # None /\ owner[rows[t.id]] = t.user
      BY <2>2, <3>2, IdFacts DEF OwnerOf
    <3>4. rows[t.id] = t.row /\ t.id <= Cardinality(Saved)
      BY <1>0, <3>2, <3>3 DEF Stands, IdStands, At
    <3> QED BY <1>1, <3>1, <3>3, <3>4 DEF Stands, IdStands, DetailCopy, HistoryCopy, At
  <2> QED BY <1>0, <1>9, <2>1, <2>2, ThreadSteps
<1>10. CASE ReadWeights(c)
  <2>0. Become(c, [t EXCEPT !.pc = "fillDetail", !.weights = rows[t.id]])
    BY <1>0, <1>10, ThreadSteps
  <2>1. /\ call'[c].pc = "fillDetail" /\ call'[c].id = t.id
        /\ call'[c].row = t.row /\ call'[c].user = t.user
        /\ call'[c].weights = rows[t.id]
    BY <1>0, <1>3, <2>0 DEF Thread
  <2>2. t.pc = "readWeights"
    BY <1>10 DEF ReadWeights, At
  <2>3. /\ t.id <= Cardinality(Saved)
        /\ owner[t.row] = t.user
        /\ rows[t.id] = t.row \/ DetailDue(t.user, t.id) \/ c \in overtaken
    BY <1>0, <2>2 DEF Stands, IdStands, DetailCopy, At
  <2>4. /\ \A d \in Call : d # c => call'[d] = call[d]
        /\ overtaken' = overtaken
    BY <1>0, <1>10, ThreadStep DEF Continue, ReadWeights
  <2>5. \A u, i : DetailDue(u, i) => DetailDue(u, i)'
    BY <2>2, <2>4, DuesStay
  <2>6. DetailDue(t.user, t.id) => \E u, i : u = t.user /\ i = t.id /\ DetailDue(u, i)'
    BY <2>5
  <2>7. IdStands(c)' /\ HistoryCopy(c)'
    BY <1>1, <2>1, <2>3 DEF IdStands, HistoryCopy, At
  <2>8. DetailCopy(c)'
    BY <1>1, <2>1, <2>3, <2>4, <2>6 DEF DetailCopy, At
  <2> QED BY <2>7, <2>8 DEF Stands
<1>11. CASE FindOwner(c)
  <2>1. CASE Become(c, Idle)
    <3>1. call'[c].pc = "idle"
      BY <1>3, <2>1 DEF Idle
    <3> QED BY <3>1 DEF Stands, IdStands, DetailCopy, HistoryCopy, At
  <2>2. CASE /\ OwnerOf(t.id) = t.user
             /\ Become(c, [t EXCEPT !.pc = "delete"])
    <3>1. call'[c].pc = "delete" /\ call'[c].id = t.id /\ call'[c].user = t.user
      BY <1>0, <1>3, <2>2 DEF Thread
    <3>2. t.pc = "findOwner"
      BY <1>11 DEF FindOwner, At
    <3>3. t.id <= Cardinality(Saved)
      BY <1>0, <3>2 DEF Stands, IdStands
    <3>4. IdStands(c)'
      BY <1>1, <2>2, <3>1, <3>3 DEF IdStands, At, OwnerOf
    <3> QED BY <3>1, <3>4 DEF Stands, DetailCopy, HistoryCopy, At
  <2> QED BY <1>0, <1>11, <2>1, <2>2, ThreadSteps
<1> QED BY <1>4, <1>5, <1>6, <1>7, <1>8, <1>9, <1>10, <1>11 DEF Reading

LEMMA IdleStands ==
  ASSUME TypeOK, NEW c \in Call, Become(c, Idle)
  PROVE  Stands(c)'
<1>1. call'[c].pc = "idle"
  BY DEF Become, Idle, TypeOK
<1> QED BY <1>1 DEF Stands, IdStands, DetailCopy, HistoryCopy, At

LEMMA ReadingStep ==
  ASSUME Inv, NEW c \in Call, Reading(c)
  PROVE  (\A d \in Call : Stands(d)') /\ Fresh'
<1>0. TypeOK /\ Fresh
  BY DEF Inv, Types
<1>1. /\ UNCHANGED <<rows, owner, hist, detail, late>>
      /\ overtaken \ {c} \subseteq overtaken'
  BY <1>0, Reads
<1>2. \A d \in Call : d # c => call'[d] = call[d]
  <2>1. Begin(c) \/ Continue(c)
    BY DEF Reading, Begin, Continue
  <2> QED BY <1>0, <2>1, ThreadStep
<1>3. call[c].pc \notin {"dropDetail", "dropHistory"}
  BY DEF Reading, HistoryMiss, DetailMiss, FindRow, ListRows, ReadRow, ReadOwner,
         ReadWeights, FindOwner, At
<1>4. /\ \A u : HistoryDue(u) => HistoryDue(u)'
      /\ \A u, i : DetailDue(u, i) => DetailDue(u, i)'
  BY <1>2, <1>3, DuesStay
<1>5. ASSUME NEW d \in Call, d # c
      PROVE  Stands(d)'
  <2>1. Stands(d) /\ call'[d] = call[d]
    BY <1>2, <1>5 DEF Inv
  <2> QED BY <1>1, <1>4, <1>5, <2>1, OthersStand
<1>6. Stands(c)'
  BY ReadingStands
<1>7. Fresh'
  BY <1>0, <1>1, <1>4, FreshStays
<1> QED BY <1>5, <1>6, <1>7

\* A reader fills the key with its copy, marked late if it was overtaken.
LEMMA FillHistoryStep ==
  ASSUME Inv, NEW c \in Call, FillHistory(c)
  PROVE  (\A d \in Call : Stands(d)') /\ Fresh'
<1> DEFINE t == call[c]
<1>0. /\ TypeOK /\ Fresh /\ Stands(c) /\ t.pc = "fillHistory" /\ t.user \in User
      /\ hist \in [User -> {None} \cup SUBSET Portfolio]
  BY ThreadFacts DEF Inv, Types, FillHistory, At, TypeOK
<1>1. UNCHANGED <<rows, owner, detail>> /\ overtaken' = overtaken \ {c}
  BY DEF FillHistory
<1>2. \A d \in Call : d # c => call'[d] = call[d]
  BY <1>0, ThreadStep DEF Continue
<1>3. /\ \A u : HistoryDue(u) => HistoryDue(u)'
      /\ \A u, i : DetailDue(u, i) => DetailDue(u, i)'
  BY <1>0, <1>2, DuesStay
<1>4. ASSUME NEW d \in Call, d # c
      PROVE  Stands(d)'
  <2>1. Stands(d) /\ call'[d] = call[d]
    BY <1>2, <1>4 DEF Inv
  <2> QED BY <1>1, <1>3, <1>4, <2>1, OthersStand
<1>5. Stands(c)'
  BY <1>0, ThreadSteps, IdleStands
<1>6. Fresh'
  <2>1. CASE UNCHANGED <<hist, late>>
    BY <1>0, <1>1, <1>3, <2>1, FreshStays
  <2>2. CASE /\ hist' = [hist EXCEPT ![t.user] = t.list]
             /\ late' = IF c \in overtaken THEN late \cup {HistoryKey(t.user)}
                                           ELSE late \ {HistoryKey(t.user)}
    <3>1. \A u : Owned(u)' = Owned(u)
      BY <1>1 DEF Owned
    <3>2. ASSUME NEW u \in User, hist'[u] # None
          PROVE  hist'[u] = Owned(u)' \/ HistoryDue(u)' \/ HistoryKey(u) \in late'
      <4>1. CASE u = t.user
        <5>1. hist'[u] = t.list
          BY <1>0, <2>2, <4>1
        <5>2. t.list = Owned(u) \/ HistoryDue(u) \/ c \in overtaken
          BY <1>0, <4>1 DEF Stands, HistoryCopy, At
        <5> QED BY <2>2, <4>1, <5>1, <5>2, <3>1, <1>3
      <4>2. CASE u # t.user
        <5>1. hist'[u] = hist[u]
          BY <1>0, <2>2, <4>2
        <5>2. HistoryKey(u) \in late => HistoryKey(u) \in late'
          BY <2>2, <4>2, KeysDiffer
        <5>3. hist[u] = Owned(u) \/ HistoryDue(u) \/ HistoryKey(u) \in late
          BY <1>0, <3>2, <5>1 DEF Fresh, HistoryFresh
        <5> QED BY <5>1, <5>2, <5>3, <3>1, <1>3
      <4> QED BY <4>1, <4>2
    <3>3. HistoryFresh'
      BY <3>2 DEF HistoryFresh, HistoryKey
    <3>4. \A u, i : DetailKey(u, i) \in late => DetailKey(u, i) \in late'
      BY <2>2, KeysDiffer
    <3>5. DetailFresh'
      BY <1>0, <1>1, <1>3, <3>4 DEF Fresh, DetailFresh, DetailKey
    <3>6. OwnDetailOnly'
      BY <1>0, <1>1 DEF Fresh, OwnDetailOnly
    <3> QED BY <3>3, <3>5, <3>6 DEF Fresh
  <2> QED BY <2>1, <2>2 DEF FillHistory
<1> QED BY <1>4, <1>5, <1>6

LEMMA FillDetailStep ==
  ASSUME Inv, NEW c \in Call, FillDetail(c)
  PROVE  (\A d \in Call : Stands(d)') /\ Fresh'
<1> DEFINE t == call[c]
           e == [row |-> t.row, weights |-> t.weights]
<1>0. /\ TypeOK /\ Fresh /\ Stands(c) /\ t.pc = "fillDetail"
      /\ t.user \in User /\ t.id \in Id /\ t.row \in Portfolio
      /\ t.weights \in Portfolio \cup {None}
      /\ detail \in [User -> [Id -> Detail \cup {None}]]
  BY ThreadFacts DEF Inv, Types, FillDetail, At, TypeOK
<1>1. UNCHANGED <<rows, owner, hist>> /\ overtaken' = overtaken \ {c}
  BY DEF FillDetail
<1>2. \A d \in Call : d # c => call'[d] = call[d]
  BY <1>0, ThreadStep DEF Continue
<1>3. /\ \A u : HistoryDue(u) => HistoryDue(u)'
      /\ \A u, i : DetailDue(u, i) => DetailDue(u, i)'
  BY <1>0, <1>2, DuesStay
<1>4. ASSUME NEW d \in Call, d # c
      PROVE  Stands(d)'
  <2>1. Stands(d) /\ call'[d] = call[d]
    BY <1>2, <1>4 DEF Inv
  <2> QED BY <1>1, <1>3, <1>4, <2>1, OthersStand
<1>5. Stands(c)'
  BY <1>0, ThreadSteps, IdleStands
<1>6. Fresh'
  <2>1. CASE UNCHANGED <<detail, late>>
    BY <1>0, <1>1, <1>3, <2>1, FreshStays
  <2>2. CASE /\ detail' = [detail EXCEPT ![t.user][t.id] = e]
             /\ late' = IF c \in overtaken THEN late \cup {DetailKey(t.user, t.id)}
                                           ELSE late \ {DetailKey(t.user, t.id)}
    <3>1. \A u : HistoryKey(u) \in late => HistoryKey(u) \in late'
      BY <2>2, KeysDiffer
    <3>2. HistoryFresh'
      <4>1. \A u : Owned(u)' = Owned(u)
        BY <1>1 DEF Owned
      <4> QED BY <1>0, <1>1, <1>3, <3>1, <4>1 DEF Fresh, HistoryFresh, HistoryKey
    <3>3. e \in Detail
      BY <1>0 DEF Detail
    <3>4. /\ detail'[t.user][t.id] = e
          /\ \A u \in User, i \in Id :
               u # t.user \/ i # t.id => detail'[u][i] = detail[u][i]
      <4> HIDE DEF e, t
      <4> QED BY <1>0, <2>2, <3>3, DetailChanged
    <3>5. /\ owner[t.row] = t.user
          /\ \/ rows[t.id] = t.row /\ t.weights = t.row
             \/ DetailDue(t.user, t.id)
             \/ c \in overtaken
      BY <1>0 DEF Stands, DetailCopy, At
    <3>6. ASSUME NEW u \in User, NEW i \in Id, detail'[u][i] # None
          PROVE  /\ \/ rows[i] # None /\ detail'[u][i] = [row |-> rows[i], weights |-> rows[i]]
                    \/ DetailDue(u, i)'
                    \/ DetailKey(u, i) \in late'
                 /\ owner[detail'[u][i].row] = u
      <4>1. CASE u = t.user /\ i = t.id
        <5>1. detail'[u][i] = e
          BY <3>4, <4>1
        <5>2. t.row # None
          BY <1>0, IdFacts
        <5>3. \/ rows[i] # None /\ e = [row |-> rows[i], weights |-> rows[i]]
              \/ DetailDue(u, i)
              \/ c \in overtaken
          BY <3>5, <4>1, <5>2
        <5>4. c \in overtaken => DetailKey(u, i) \in late'
          BY <2>2, <4>1
        <5> QED BY <5>1, <5>3, <5>4, <3>5, <4>1, <1>3
      <4>2. CASE u # t.user \/ i # t.id
        <5>1. detail'[u][i] = detail[u][i]
          BY <3>4, <4>2
        <5>2. DetailKey(u, i) \in late => DetailKey(u, i) \in late'
          BY <2>2, <4>2, KeysDiffer
        <5> QED BY <1>0, <1>3, <3>6, <5>1, <5>2 DEF Fresh, DetailFresh, OwnDetailOnly
      <4> QED BY <4>1, <4>2
    <3>7. DetailFresh'
      BY <1>1, <3>6 DEF DetailFresh, DetailKey
    <3>8. OwnDetailOnly'
      BY <1>1, <3>6 DEF OwnDetailOnly
    <3> QED BY <3>2, <3>7, <3>8 DEF Fresh
  <2> QED BY <2>1, <2>2 DEF FillDetail
<1> QED BY <1>4, <1>5, <1>6

\* An invalidation drops the key, or leaves it late, and overtakes its readers.
LEMMA InvalidateHistoryStep ==
  ASSUME Inv, NEW c \in Call, InvalidateHistory(c)
  PROVE  (\A d \in Call : Stands(d)') /\ Fresh'
<1> DEFINE t == call[c]
<1>0. /\ TypeOK /\ Fresh /\ t.pc = "dropHistory" /\ t.user \in User
      /\ hist \in [User -> {None} \cup SUBSET Portfolio]
  BY ThreadFacts DEF Inv, Types, InvalidateHistory, At, TypeOK
<1>1. /\ UNCHANGED <<rows, owner, detail>>
      /\ overtaken' = overtaken \cup HistoryReaders(t.user)
      /\ \/ hist' = [hist EXCEPT ![t.user] = None] /\ late' = late \ {HistoryKey(t.user)}
         \/ UNCHANGED hist /\ late' = late \cup {HistoryKey(t.user)}
  BY DEF InvalidateHistory, DropHistory
<1>2. \A d \in Call : d # c => call'[d] = call[d]
  BY <1>0, ThreadStep DEF Continue
<1>3. /\ \A u : HistoryDue(u) => HistoryDue(u)' \/ u = t.user
      /\ \A u, i : DetailDue(u, i) => DetailDue(u, i)'
  BY <1>0, <1>2, DuesStay
<1>4. ASSUME NEW d \in Call, d # c
      PROVE  Stands(d)'
  <2>1. Stands(d) /\ call'[d] = call[d]
    BY <1>2, <1>4 DEF Inv
  <2>2. \A u : HistoryDue(u)
                 => HistoryDue(u)' \/ HistoryReaders(u) \ {c} \subseteq overtaken'
    BY <1>1, <1>3
  <2> QED BY <1>1, <1>3, <1>4, <2>1, <2>2, OthersStand
<1>5. Stands(c)'
  BY <1>0, ThreadSteps, IdleStands
<1>6. ASSUME NEW u \in User, hist'[u] # None
      PROVE  hist'[u] = Owned(u)' \/ HistoryDue(u)' \/ HistoryKey(u) \in late'
  <2>1. Owned(u)' = Owned(u)
    BY <1>1 DEF Owned
  <2>2. CASE u = t.user
    BY <1>0, <1>1, <1>6, <2>2
  <2>3. CASE u # t.user
    <3>1. hist'[u] = hist[u]
      BY <1>0, <1>1, <2>3
    <3>2. HistoryKey(u) \in late => HistoryKey(u) \in late'
      BY <1>1, <2>3, KeysDiffer
    <3>3. hist[u] = Owned(u) \/ HistoryDue(u) \/ HistoryKey(u) \in late
      BY <1>0, <1>6, <3>1 DEF Fresh, HistoryFresh
    <3> QED BY <1>3, <2>1, <2>3, <3>1, <3>2, <3>3
  <2> QED BY <2>2, <2>3
<1>7. \A u, i : DetailKey(u, i) \in late => DetailKey(u, i) \in late'
  BY <1>1, KeysDiffer
<1>8. HistoryFresh'
  BY <1>6 DEF HistoryFresh, HistoryKey
<1>9. DetailFresh'
  BY <1>0, <1>1, <1>3, <1>7 DEF Fresh, DetailFresh, DetailKey
<1>10. OwnDetailOnly'
  BY <1>0, <1>1 DEF Fresh, OwnDetailOnly
<1> QED BY <1>4, <1>5, <1>8, <1>9, <1>10 DEF Fresh

LEMMA InvalidateDetailStep ==
  ASSUME Inv, NEW c \in Call, InvalidateDetail(c)
  PROVE  (\A d \in Call : Stands(d)') /\ Fresh'
<1> DEFINE t == call[c]
<1>0. /\ TypeOK /\ Fresh /\ t.pc = "dropDetail" /\ t \in Thread
      /\ t.user \in User /\ t.id \in Id
      /\ detail \in [User -> [Id -> Detail \cup {None}]]
  BY ThreadFacts DEF Inv, Types, InvalidateDetail, At, TypeOK
<1>1. /\ UNCHANGED <<rows, owner, hist>>
      /\ overtaken' = overtaken \cup DetailReaders(t.user, t.id)
      /\ \/ /\ detail' = [detail EXCEPT ![t.user][t.id] = None]
            /\ late' = late \ {DetailKey(t.user, t.id)}
         \/ UNCHANGED detail /\ late' = late \cup {DetailKey(t.user, t.id)}
  BY DEF InvalidateDetail, DropDetail
<1>2. \A d \in Call : d # c => call'[d] = call[d]
  BY <1>0, ThreadStep DEF Continue
<1>3. call'[c].pc = "dropHistory" /\ call'[c].user = t.user
  <2>1. Become(c, [t EXCEPT !.pc = "dropHistory"])
    BY <1>0, ThreadSteps
  <2> QED BY <1>0, <2>1 DEF Become, TypeOK, Thread
<1>4. /\ \A u : HistoryDue(u) => HistoryDue(u)'
      /\ \A u, i : DetailDue(u, i) => DetailDue(u, i)' \/ (u = t.user /\ i = t.id)
  <2>1. HistoryDue(call[c].user)
    BY <1>0 DEF HistoryDue, For
  <2>2. \A u : u = t.user => HistoryDue(u)'
    BY <1>3 DEF HistoryDue, For
  <2> QED BY <1>2, <2>2, DuesStay
<1>5. ASSUME NEW d \in Call, d # c
      PROVE  Stands(d)'
  <2>1. Stands(d) /\ call'[d] = call[d]
    BY <1>2, <1>5 DEF Inv
  <2>2. \A u, i : DetailDue(u, i)
           => DetailDue(u, i)' \/ DetailReaders(u, i) \ {c} \subseteq overtaken'
    BY <1>1, <1>4
  <2> QED BY <1>1, <1>4, <1>5, <2>1, <2>2, OthersStand
<1>6. Stands(c)'
  BY <1>3 DEF Stands, IdStands, DetailCopy, HistoryCopy, At
<1>7. ASSUME NEW u \in User, NEW i \in Id, detail'[u][i] # None
      PROVE  /\ \/ rows[i] # None /\ detail'[u][i] = [row |-> rows[i], weights |-> rows[i]]
                \/ DetailDue(u, i)'
                \/ DetailKey(u, i) \in late'
             /\ owner[detail'[u][i].row] = u
  <2>0. /\ \/ rows[i] # None /\ detail[u][i] = [row |-> rows[i], weights |-> rows[i]]
           \/ DetailDue(u, i)
           \/ DetailKey(u, i) \in late
           \/ detail[u][i] = None
        /\ detail[u][i] # None => owner[detail[u][i].row] = u
    BY <1>0 DEF Fresh, DetailFresh, OwnDetailOnly
  <2>2. CASE /\ detail' = [detail EXCEPT ![t.user][t.id] = None]
             /\ late' = late \ {DetailKey(t.user, t.id)}
    <3>1. /\ detail'[t.user][t.id] = None
          /\ \A v \in User, j \in Id :
               v # t.user \/ j # t.id => detail'[v][j] = detail[v][j]
      <4> HIDE DEF t
      <4> QED BY <1>0, <2>2, DetailChanged
    <3>2. u # t.user \/ i # t.id
      BY <1>7, <3>1
    <3>3. DetailKey(u, i) \in late => DetailKey(u, i) \in late'
      BY <2>2, <3>2, KeysDiffer
    <3> QED BY <1>4, <1>7, <2>0, <3>1, <3>2, <3>3
  <2>3. CASE UNCHANGED detail /\ late' = late \cup {DetailKey(t.user, t.id)}
    BY <1>4, <1>7, <2>0, <2>3
  <2> QED BY <1>1, <2>2, <2>3
<1>8. \A u : HistoryKey(u) \in late => HistoryKey(u) \in late'
  BY <1>1, KeysDiffer
<1>9. HistoryFresh'
  <2>1. \A u : Owned(u)' = Owned(u)
    BY <1>1 DEF Owned
  <2> QED BY <1>0, <1>1, <1>4, <1>8, <2>1 DEF Fresh, HistoryFresh, HistoryKey
<1>10. DetailFresh'
  BY <1>1, <1>7 DEF DetailFresh, DetailKey
<1>11. OwnDetailOnly'
  BY <1>1, <1>7 DEF OwnDetailOnly
<1> QED BY <1>5, <1>6, <1>9, <1>10, <1>11 DEF Fresh

\* A thread that dies leaves late what it had to invalidate.
LEMMA CrashStep ==
  ASSUME Inv, NEW c \in Call, Crash(c)
  PROVE  (\A d \in Call : Stands(d)') /\ Fresh'
<1> DEFINE t == call[c]
<1>0. TypeOK /\ Fresh
  BY DEF Inv, Types
<1>1. UNCHANGED <<rows, owner, hist, detail>>
  BY DEF Crash
<1>2. \A d \in Call : d # c => call'[d] = call[d]
  BY <1>0, ThreadStep
<1>3. late \subseteq late' /\ overtaken \ {c} \subseteq overtaken'
  BY DEF Crash
<1>4. t.pc \in {"dropDetail", "dropHistory"}
        => /\ HistoryKey(t.user) \in late'
           /\ HistoryReaders(t.user) \ {c} \subseteq overtaken'
  <2>1. CASE t.pc = "dropHistory"
    BY <2>1 DEF Crash, At
  <2>2. CASE t.pc = "dropDetail"
    BY <2>2 DEF Crash, At
  <2> QED BY <2>1, <2>2
<1>5. t.pc = "dropDetail"
        => /\ DetailKey(t.user, t.id) \in late'
           /\ DetailReaders(t.user, t.id) \ {c} \subseteq overtaken'
  BY DEF Crash, At
<1>6. \A u : HistoryDue(u)
        => HistoryDue(u)'
             \/ (HistoryKey(u) \in late' /\ HistoryReaders(u) \ {c} \subseteq overtaken')
  BY <1>2, <1>4, DuesStay
<1>7. \A u, i : DetailDue(u, i)
        => DetailDue(u, i)'
             \/ (DetailKey(u, i) \in late' /\ DetailReaders(u, i) \ {c} \subseteq overtaken')
  BY <1>2, <1>5, DuesStay
<1>8. ASSUME NEW d \in Call, d # c
      PROVE  Stands(d)'
  <2>1. Stands(d) /\ call'[d] = call[d]
    BY <1>2, <1>8 DEF Inv
  <2> QED BY <1>1, <1>3, <1>6, <1>7, <1>8, <2>1, OthersStand
<1>9. Stands(c)'
  BY <1>0, ThreadSteps, IdleStands
<1>10. Fresh'
  BY <1>0, <1>1, <1>3, <1>6, <1>7, FreshStays
<1> QED BY <1>8, <1>9, <1>10

\* A new row takes an id nobody holds; its owner's history is due.
LEMMA SaveStep ==
  ASSUME Sequential, Inv, NEW c \in Call, NEW u \in User, NEW p \in Portfolio,
         Save(c, u, p)
  PROVE  (\A d \in Call : Stands(d)') /\ Fresh'
<1>0. /\ TypeOK /\ Types /\ Numbered /\ Fresh
      /\ call[c].pc = "idle" /\ p \notin Saved /\ InsertRow(u, p)
      /\ UNCHANGED <<hist, detail, overtaken, late>>
      /\ rows \in [Id -> Portfolio \cup {None}]
      /\ owner \in [Portfolio -> User \cup {None}]
      /\ Id \subseteq Nat
  BY IdFacts DEF Inv, Types, Save, At, TypeOK
<1> DEFINE n == Cardinality(Saved)
<1>1. /\ n \in Nat /\ Cardinality(Saved') = n + 1
      /\ Saved' = Saved \cup {p}
      /\ \A q \in Saved : owner'[q] = owner[q]
      /\ owner'[p] = u
      /\ \A i \in Id : rows'[i] # rows[i]
            => rows[i] = None /\ rows'[i] = p /\ i = n + 1
  BY <1>0, AfterInsert, FreshId
<1>2. \A d \in Call : d # c => call'[d] = call[d]
  BY <1>0, ThreadStep DEF Begin
<1>3. call'[c].pc = "dropHistory" /\ call'[c].user = u
  <2>1. Become(c, [Idle EXCEPT !.pc = "dropHistory", !.user = u, !.id = None])
    BY <1>0, ThreadSteps
  <2> QED BY <1>0, <2>1 DEF Become, TypeOK, Idle
<1>4. /\ \A v : HistoryDue(v) => HistoryDue(v)'
      /\ \A v, i : DetailDue(v, i) => DetailDue(v, i)'
      /\ HistoryDue(u)'
  <2>1. HistoryDue(u)'
    BY <1>3 DEF HistoryDue, For
  <2> QED BY <1>0, <1>2, <2>1, DuesStay
<1> HIDE DEF n
<1>5. \A i \in Id : i <= n => rows'[i] = rows[i]
  BY <1>0, <1>1
<1>6. \A i \in Id : rows[i] # None => rows'[i] = rows[i] /\ rows[i] \in Saved
  BY <1>0, <1>1 DEF Numbered
<1>7. \A q \in Portfolio : owner[q] # None => q \in Saved /\ owner'[q] = owner[q]
  BY <1>1 DEF Saved
<1>8. \A v \in User : v # u => Owned(v)' = Owned(v)
  <2> SUFFICES ASSUME NEW v \in User, v # u, NEW q \in Portfolio
               PROVE  q \in Owned(v)' <=> q \in Owned(v)
    BY DEF Owned
  <2>1. v # None
    BY IdFacts
  <2>2. ASSUME q \in Owned(v) PROVE q \in Owned(v)'
    <3>1. PICK i \in Id : rows[i] = q /\ owner[q] = v
      BY <2>2 DEF Owned
    <3>2. rows'[i] = q /\ owner'[q] = v
      BY <1>6, <1>7, <2>1, <3>1, IdFacts
    <3> QED BY <3>1, <3>2 DEF Owned
  <2>3. ASSUME q \in Owned(v)' PROVE q \in Owned(v)
    <3>1. PICK i \in Id : rows'[i] = q /\ owner'[q] = v
      BY <2>3 DEF Owned
    <3>2. q # p
      BY <1>1, <3>1
    <3>3. rows[i] = q
      BY <1>1, <3>1, <3>2
    <3>4. owner[q] = v
      BY <1>1, <1>6, <3>1, <3>3, IdFacts
    <3> QED BY <3>3, <3>4 DEF Owned
  <2> QED BY <2>2, <2>3
<1>9. ASSUME NEW d \in Call, d # c
      PROVE  Stands(d)'
  <2> DEFINE t == call[d]
  <2>0. Stands(d) /\ call'[d] = t
    BY <1>2, <1>9 DEF Inv
  <2>1. ASSUME t.pc \in {"readOwner", "readWeights", "fillDetail", "findOwner", "delete"}
        PROVE  /\ t.id \in Id /\ t.user \in User
               /\ t.id <= n /\ t.id <= n + 1 /\ rows'[t.id] = rows[t.id]
               /\ OwnerOf(t.id)' = OwnerOf(t.id)
    <3>1. t.id \in Id /\ t.user \in User
      BY <1>0, <2>1, ThreadFacts
    <3>2. t.id <= n
      BY <2>0, <2>1 DEF Stands, IdStands, n
    <3>3. rows'[t.id] = rows[t.id]
      BY <1>5, <3>1, <3>2
    <3>4. OwnerOf(t.id)' = OwnerOf(t.id)
      BY <1>1, <1>6, <2>0, <3>1, <3>3 DEF OwnerOf
    <3>5. t.id <= n + 1
      <4>1. t.id \in Nat
        BY <1>0, <3>1
      <4>2. n \in Nat
        BY <1>1
      <4> HIDE DEF t
      <4> QED BY <3>2, <4>1, <4>2
    <3> QED BY <3>1, <3>2, <3>3, <3>4, <3>5
  <2>2. IdStands(d)'
    <3>1. t.pc \in {"readOwner", "readWeights", "fillDetail", "findOwner", "delete"}
            => t.id <= Cardinality(Saved')
      BY <1>1, <2>1
    <3>2. t.pc = "readOwner" => rows'[t.id] \in {t.row, None}
      BY <2>0, <2>1 DEF Stands, IdStands, At
    <3>3. t.pc = "delete" => OwnerOf(t.id)' \in {t.user, None}
      BY <2>0, <2>1 DEF Stands, IdStands, At
    <3> QED BY <2>0, <3>1, <3>2, <3>3 DEF IdStands, At, OwnerOf
  <2>3. ASSUME t.pc \in {"readWeights", "fillDetail"}
        PROVE  DetailCopy(d)'
    <3>1. /\ owner[t.row] = t.user
          /\ \/ rows[t.id] = t.row /\ (t.pc = "fillDetail" => t.weights = t.row)
             \/ DetailDue(t.user, t.id)
             \/ d \in overtaken
      BY <2>0, <2>3 DEF Stands, DetailCopy, At
    <3>2. t.row \in Portfolio /\ t.user # None
      BY <1>0, <2>1, <2>3, ThreadFacts, IdFacts
    <3>3. owner'[t.row] = t.user
      BY <1>7, <3>1, <3>2
    <3>4. DetailDue(t.user, t.id)
            => \E v, i : v = t.user /\ i = t.id /\ DetailDue(v, i)'
      BY <1>4
    <3> QED BY <1>0, <2>0, <2>1, <2>3, <3>1, <3>3, <3>4 DEF DetailCopy, At
  <2>4. ASSUME t.pc = "fillHistory"
        PROVE  HistoryCopy(d)'
    <3>1. t.list = Owned(t.user) \/ HistoryDue(t.user) \/ d \in overtaken
      BY <2>0, <2>4 DEF Stands, HistoryCopy, At
    <3>2. t.user \in User
      BY <1>0, <2>4, ThreadFacts
    <3>3. \E v : /\ v = t.user
                 /\ HistoryDue(v)' \/ t.list = Owned(v)' \/ d \in overtaken
      BY <1>4, <1>8, <3>1, <3>2
    <3> QED BY <1>0, <2>0, <3>3 DEF HistoryCopy, At
  <2> QED BY <2>0, <2>2, <2>3, <2>4 DEF Stands, DetailCopy, HistoryCopy, At
<1>10. Stands(c)'
  BY <1>3 DEF Stands, IdStands, DetailCopy, HistoryCopy, At
<1>11. HistoryFresh'
  BY <1>0, <1>4, <1>8 DEF Fresh, HistoryFresh, HistoryKey
<1>12. DetailFresh'
  BY <1>0, <1>4, <1>6 DEF Fresh, DetailFresh, DetailKey
<1>13. OwnDetailOnly'
  <2>1. ASSUME NEW v \in User, NEW i \in Id, detail[v][i] # None
        PROVE  owner'[detail[v][i].row] = v
    <3>1. detail[v][i].row \in Portfolio /\ owner[detail[v][i].row] = v
      BY <1>0, <2>1 DEF TypeOK, Detail, Fresh, OwnDetailOnly
    <3> QED BY <1>7, <3>1, IdFacts
  <2> QED BY <1>0, <2>1 DEF OwnDetailOnly
<1> QED BY <1>9, <1>10, <1>11, <1>12, <1>13 DEF Fresh

\* Whoever reaches the delete removes a row of her own, and owes both keys.
LEMMA DeleteStep ==
  ASSUME Inv, NEW c \in Call, DeleteRow(c)
  PROVE  (\A d \in Call : Stands(d)') /\ Fresh'
<1> DEFINE i == call[c].id
           u == call[c].user
<1>0. /\ TypeOK /\ Types /\ Fresh /\ Stands(c)
      /\ call[c].pc = "delete" /\ i \in Id /\ u \in User
      /\ UNCHANGED <<owner, hist, detail, overtaken, late>>
      /\ rows' = [rows EXCEPT ![i] = None]
      /\ rows \in [Id -> Portfolio \cup {None}]
      /\ owner \in [Portfolio -> User \cup {None}]
      /\ call[c] \in Thread
  BY ThreadFacts DEF Inv, Types, DeleteRow, At, TypeOK
<1>1. rows[i] = None \/ owner[rows[i]] = u \/ owner[rows[i]] = None
  BY <1>0 DEF Stands, IdStands, At, OwnerOf
<1>2. \A d \in Call : d # c => call'[d] = call[d]
  BY <1>0, ThreadStep DEF Continue
<1>3. call'[c].pc = "dropDetail" /\ call'[c].user = u /\ call'[c].id = i
  <2>1. Become(c, [call[c] EXCEPT !.pc = "dropDetail"])
    BY <1>0, ThreadSteps
  <2> QED BY <1>0, <2>1 DEF Become, TypeOK, Thread
<1>4. /\ \A v : HistoryDue(v) => HistoryDue(v)'
      /\ \A v, j : DetailDue(v, j) => DetailDue(v, j)'
      /\ \A v : v = u => HistoryDue(v)'
      /\ \A v, j : v = u /\ j = i => DetailDue(v, j)'
  <2>1. /\ \A v : v = u => HistoryDue(v)'
        /\ \A v, j : v = u /\ j = i => DetailDue(v, j)'
    BY <1>3 DEF HistoryDue, DetailDue, For, At
  <2>2. /\ \A v : HistoryDue(v) => HistoryDue(v)'
        /\ \A v, j : DetailDue(v, j) => DetailDue(v, j)'
    BY <1>0, <1>2, DuesStay
  <2> QED BY <2>1, <2>2
<1>5. Saved' = Saved
  BY <1>0 DEF Saved
<1>6. \A j \in Id : rows'[j] = IF j = i THEN None ELSE rows[j]
  BY <1>0
<1>7. \A v \in User : v # u => Owned(v)' = Owned(v)
  <2> SUFFICES ASSUME NEW v \in User, v # u, NEW q \in Portfolio
               PROVE  q \in Owned(v)' <=> q \in Owned(v)
    BY DEF Owned
  <2>1. ASSUME q \in Owned(v) PROVE q \in Owned(v)'
    <3>1. PICK j \in Id : rows[j] = q /\ owner[q] = v
      BY <2>1 DEF Owned
    <3>2. j # i
      BY <1>1, <3>1, IdFacts
    <3> QED BY <1>0, <1>6, <3>1, <3>2 DEF Owned
  <2>2. ASSUME q \in Owned(v)' PROVE q \in Owned(v)
    BY <1>0, <1>6, <2>2, IdFacts DEF Owned
  <2> QED BY <2>1, <2>2
<1>8. ASSUME NEW v \in User, NEW j \in Id, NEW q \in Portfolio,
             rows[j] = q, owner[q] = v
      PROVE  rows'[j] = q \/ DetailDue(v, j)'
  <2>1. CASE j # i
    BY <1>6, <1>8, <2>1
  <2>2. CASE j = i
    <3>1. v = u
      BY <1>1, <1>8, <2>2, IdFacts
    <3> QED BY <1>4, <2>2, <3>1
  <2> QED BY <2>1, <2>2
<1>9. ASSUME NEW d \in Call, d # c
      PROVE  Stands(d)'
  <2> DEFINE t == call[d]
  <2>0. Stands(d) /\ call'[d] = t
    BY <1>2, <1>9 DEF Inv
  <2>1. IdStands(d)'
    <3>1. t.pc \in {"readOwner", "delete"} => t.id \in Id
      BY <1>0, ThreadFacts
    <3>2. t.pc = "readOwner" => rows'[t.id] \in {t.row, None}
      BY <1>6, <2>0, <3>1 DEF Stands, IdStands, At
    <3>3. t.pc = "delete" => OwnerOf(t.id)' \in {t.user, None}
      BY <1>0, <1>6, <2>0, <3>1 DEF Stands, IdStands, At, OwnerOf
    <3> QED BY <1>5, <2>0, <3>2, <3>3 DEF Stands, IdStands, At, OwnerOf
  <2>2. ASSUME t.pc \in {"readWeights", "fillDetail"}
        PROVE  DetailCopy(d)'
    <3>1. /\ owner[t.row] = t.user
          /\ \/ rows[t.id] = t.row /\ (t.pc = "fillDetail" => t.weights = t.row)
             \/ DetailDue(t.user, t.id)
             \/ d \in overtaken
      BY <2>0, <2>2 DEF Stands, DetailCopy, At
    <3>2. t.row \in Portfolio /\ t.user \in User /\ t.id \in Id
      BY <1>0, <2>2, ThreadFacts
    <3>3. \E v, j : /\ v = t.user /\ j = t.id
                    /\ \/ rows'[t.id] = t.row /\ (t.pc = "fillDetail" => t.weights = t.row)
                       \/ DetailDue(v, j)'
                       \/ d \in overtaken
      BY <1>4, <1>8, <3>1, <3>2
    <3> QED BY <1>0, <2>0, <3>1, <3>3 DEF DetailCopy, At
  <2>3. ASSUME t.pc = "fillHistory"
        PROVE  HistoryCopy(d)'
    <3>1. t.list = Owned(t.user) \/ HistoryDue(t.user) \/ d \in overtaken
      BY <2>0, <2>3 DEF Stands, HistoryCopy, At
    <3>2. t.user \in User
      BY <1>0, <2>3, ThreadFacts
    <3>3. \E v : /\ v = t.user
                 /\ HistoryDue(v)' \/ t.list = Owned(v)' \/ d \in overtaken
      BY <1>4, <1>7, <3>1, <3>2
    <3> QED BY <1>0, <2>0, <3>3 DEF HistoryCopy, At
  <2> QED BY <2>0, <2>1, <2>2, <2>3 DEF Stands, DetailCopy, HistoryCopy, At
<1>10. Stands(c)'
  BY <1>3 DEF Stands, IdStands, DetailCopy, HistoryCopy, At
<1>11. HistoryFresh'
  BY <1>0, <1>4, <1>7 DEF Fresh, HistoryFresh, HistoryKey
<1>12. DetailFresh'
  <2>1. ASSUME NEW v \in User, NEW j \in Id, detail[v][j] # None
        PROVE  \/ rows'[j] # None /\ detail[v][j] = [row |-> rows'[j], weights |-> rows'[j]]
               \/ DetailDue(v, j)'
               \/ DetailKey(v, j) \in late
    <3>1. \/ rows[j] # None /\ detail[v][j] = [row |-> rows[j], weights |-> rows[j]]
          \/ DetailDue(v, j)
          \/ DetailKey(v, j) \in late
      BY <1>0, <2>1 DEF Fresh, DetailFresh
    <3>2. owner[detail[v][j].row] = v
      BY <1>0, <2>1 DEF Fresh, OwnDetailOnly
    <3>3. CASE rows[j] # None /\ detail[v][j] = [row |-> rows[j], weights |-> rows[j]]
      <4>1. owner[rows[j]] = v /\ rows[j] \in Portfolio
        BY <1>0, <3>2, <3>3
      <4>2. rows'[j] = rows[j] \/ DetailDue(v, j)'
        BY <1>8, <4>1
      <4> QED BY <3>3, <4>2
    <3> QED BY <1>4, <3>1, <3>3
  <2> QED BY <1>0, <2>1 DEF DetailFresh, DetailKey
<1>13. OwnDetailOnly'
  BY <1>0 DEF Fresh, OwnDetailOnly
<1> QED BY <1>9, <1>10, <1>11, <1>12, <1>13 DEF Fresh

LEMMA TablesAndThreadsStay ==
  ASSUME UNCHANGED <<rows, owner, call, overtaken>>, NEW d \in Call, Stands(d)
  PROVE  Stands(d)'
BY DEF Stands, IdStands, DetailCopy, HistoryCopy, At, OwnerOf, Saved, Owned,
       HistoryDue, DetailDue, For

\* A key that expires is fresh, and makes no other key stale.
LEMMA ExpireStep ==
  ASSUME Inv, Expire
  PROVE  (\A d \in Call : Stands(d)') /\ Fresh'
<1>0. /\ TypeOK /\ Fresh
      /\ UNCHANGED <<rows, owner, call, overtaken>>
      /\ hist \in [User -> {None} \cup SUBSET Portfolio]
      /\ detail \in [User -> [Id -> Detail \cup {None}]]
  BY DEF Inv, Types, TypeOK, Expire
<1>1. \A d \in Call : Stands(d)'
  BY <1>0, TablesAndThreadsStay DEF Inv
<1>2. /\ \A v : Owned(v)' = Owned(v)
      /\ \A v : HistoryDue(v)' = HistoryDue(v)
      /\ \A v, j : DetailDue(v, j)' = DetailDue(v, j)
  BY <1>0 DEF Owned, HistoryDue, DetailDue, For, At
<1>3. ASSUME NEW u \in User, hist' = [hist EXCEPT ![u] = None],
             late' = late \ {HistoryKey(u)}, UNCHANGED detail
      PROVE  Fresh'
  <2>1. /\ hist'[u] = None
        /\ \A v \in User : v # u =>
             hist'[v] = hist[v] /\ (HistoryKey(v) \in late => HistoryKey(v) \in late')
        /\ \A v, j : DetailKey(v, j) \in late => DetailKey(v, j) \in late'
    BY <1>0, <1>3, KeysDiffer
  <2>2. ASSUME NEW v \in User, hist'[v] # None
        PROVE  hist'[v] = Owned(v)' \/ HistoryDue(v)' \/ HistoryKey(v) \in late'
    BY <1>0, <1>2, <2>1, <2>2 DEF Fresh, HistoryFresh
  <2>3. HistoryFresh'
    BY <2>2 DEF HistoryFresh, HistoryKey
  <2>4. DetailFresh'
    BY <1>0, <1>2, <1>3, <2>1 DEF Fresh, DetailFresh, DetailKey
  <2>5. OwnDetailOnly'
    BY <1>0, <1>3 DEF Fresh, OwnDetailOnly
  <2> QED BY <2>3, <2>4, <2>5 DEF Fresh
<1>4. ASSUME NEW u \in User, NEW i \in Id, detail' = [detail EXCEPT ![u][i] = None],
             late' = late \ {DetailKey(u, i)}, UNCHANGED hist
      PROVE  Fresh'
  <2>1. /\ detail'[u][i] = None
        /\ \A v \in User, j \in Id : v # u \/ j # i => detail'[v][j] = detail[v][j]
    BY <1>0, <1>4, DetailChanged
  <2>2. /\ \A v, j : v # u \/ j # i =>
             (DetailKey(v, j) \in late => DetailKey(v, j) \in late')
        /\ \A v : HistoryKey(v) \in late => HistoryKey(v) \in late'
    BY <1>4, KeysDiffer
  <2>3. HistoryFresh'
    BY <1>0, <1>2, <1>4, <2>2 DEF Fresh, HistoryFresh, HistoryKey
  <2>4. ASSUME NEW v \in User, NEW j \in Id, detail'[v][j] # None
        PROVE  /\ detail'[v][j] = detail[v][j]
               /\ DetailKey(v, j) \in late => DetailKey(v, j) \in late'
    BY <2>1, <2>2, <2>4
  <2>5. DetailFresh'
    BY <1>0, <1>2, <2>4 DEF Fresh, DetailFresh, DetailKey
  <2>6. OwnDetailOnly'
    BY <1>0, <2>4 DEF Fresh, OwnDetailOnly
  <2> QED BY <2>3, <2>5, <2>6 DEF Fresh
<1> QED BY <1>1, <1>3, <1>4 DEF Expire

LEMMA Invariance ==
  ASSUME Sequential
  PROVE  Inv /\ [Next]_vars => Inv'
<1> SUFFICES ASSUME Inv, [Next]_vars PROVE Inv'
  OBVIOUS
<1>1. Types'
  BY TypesStep DEF Inv
<1> SUFFICES (\A d \in Call : Stands(d)') /\ Fresh'
  BY <1>1 DEF Inv
<1>2. ASSUME NEW c \in Call, Begin(c) \/ Continue(c) \/ Crash(c)
      PROVE  (\A d \in Call : Stands(d)') /\ Fresh'
  <2>1. CASE Reading(c)
    BY <2>1, ReadingStep
  <2>2. ASSUME NEW u \in User, NEW p \in Portfolio, Save(c, u, p)
        PROVE  (\A d \in Call : Stands(d)') /\ Fresh'
    BY <2>2, SaveStep
  <2>3. CASE DeleteRow(c)
    BY <2>3, DeleteStep
  <2>4. CASE FillHistory(c)
    BY <2>4, FillHistoryStep
  <2>5. CASE FillDetail(c)
    BY <2>5, FillDetailStep
  <2>6. CASE InvalidateHistory(c)
    BY <2>6, InvalidateHistoryStep
  <2>7. CASE InvalidateDetail(c)
    BY <2>7, InvalidateDetailStep
  <2>8. CASE Crash(c)
    BY <2>8, CrashStep
  <2> QED
    BY <1>2, <2>1, <2>2, <2>3, <2>4, <2>5, <2>6, <2>7, <2>8, StepsSplit
<1>3. CASE UNCHANGED vars
  <2>1. UNCHANGED <<rows, owner, hist, detail, call, overtaken, late, faults>>
    BY <1>3 DEF vars
  <2>2. \A d \in Call : Stands(d)'
    BY <2>1, TablesAndThreadsStay DEF Inv
  <2>3. \A u, i : (HistoryDue(u) => HistoryDue(u)') /\ (DetailDue(u, i) => DetailDue(u, i)')
    BY <2>1 DEF HistoryDue, DetailDue, For, At
  <2>4. Fresh'
    BY <2>1, <2>3, FreshStays DEF Inv
  <2> QED BY <2>2, <2>4
<1> QED BY <1>2, <1>3, ExpireStep DEF Next

LEMMA InvInit == Init => Inv
<1> SUFFICES ASSUME Init PROVE Inv
  OBVIOUS
<1>1. Types
  BY TypesInit
<1>2. \A c \in Call : Stands(c)
  BY DEF Init, Idle, Stands, IdStands, DetailCopy, HistoryCopy, At
<1>3. Fresh
  BY DEF Init, Fresh, HistoryFresh, DetailFresh, OwnDetailOnly
<1> QED BY <1>1, <1>2, <1>3 DEF Inv

LEMMA Invariant ==
  ASSUME Sequential
  PROVE  Spec => []Inv
<1>1. Inv /\ [Next]_vars => Inv'
  BY Invariance
<1> QED BY InvInit, <1>1, PTL DEF Spec

\* A cached list is its user's portfolios, or its invalidation is due or late.
THEOREM ListsAreFresh ==
  ASSUME Sequential
  PROVE  Spec => []HistoryFresh
<1>1. Inv => HistoryFresh
  BY DEF Inv, Fresh
<1> QED BY Invariant, <1>1, PTL

\* Likewise a cached portfolio, whose row and weights belong together.
THEOREM PortfoliosAreFresh ==
  ASSUME Sequential
  PROVE  Spec => []DetailFresh
<1>1. Inv => DetailFresh
  BY DEF Inv, Fresh
<1> QED BY Invariant, <1>1, PTL

\* The cache serves a user no portfolio but her own.
THEOREM OwnersOnly ==
  ASSUME Sequential
  PROVE  Spec => []OwnDetailOnly
<1>1. Inv => OwnDetailOnly
  BY DEF Inv, Fresh
<1> QED BY Invariant, <1>1, PTL

\* A row that goes is its owner's to delete: she is the one who deletes it.
LEMMA DeletesOwn ==
  ASSUME Inv, [Next]_vars, NEW i \in Id, rows[i] # None, rows'[i] = None
  PROVE  \E c \in Call : At(c, "delete") /\ For(c, owner[rows[i]])
<1>0. /\ TypeOK /\ Types /\ rows[i] \in Saved
      /\ rows \in [Id -> Portfolio \cup {None}]
  BY DEF Inv, Types, Numbered, TypeOK
<1>1. ~ UNCHANGED rows
  OBVIOUS
<1>2. ASSUME NEW c \in Call, DeleteRow(c)
      PROVE  At(c, "delete") /\ For(c, owner[rows[i]])
  <2>1. At(c, "delete") /\ rows' = [rows EXCEPT ![call[c].id] = None]
    BY <1>2 DEF DeleteRow
  <2>2. i = call[c].id
    BY <1>0, <2>1
  <2>3. OwnerOf(i) \in {call[c].user, None}
    BY <2>1, <2>2 DEF Inv, Stands, IdStands
  <2>4. owner[rows[i]] = call[c].user
    BY <1>0, <2>3 DEF OwnerOf, Saved
  <2> QED BY <2>1, <2>4 DEF For
<1>3. ASSUME NEW c \in Call, NEW u \in User, NEW p \in Portfolio, Save(c, u, p)
      PROVE  FALSE
  <2>1. p \notin Saved /\ InsertRow(u, p)
    BY <1>3 DEF Save
  <2>2. rows'[i] # rows[i] => rows'[i] = p
    BY <1>0, <2>1, AfterInsert
  <2> QED BY <2>2, IdFacts
<1>4. ASSUME NEW c \in Call,
             \/ Reading(c) \/ FillHistory(c) \/ FillDetail(c)
             \/ InvalidateHistory(c) \/ InvalidateDetail(c) \/ Crash(c)
      PROVE  FALSE
  <2>1. Reading(c) => UNCHANGED rows
    BY <1>0, Reads
  <2> QED BY <1>1, <1>4, <2>1 DEF FillHistory, FillDetail, InvalidateHistory,
                                  InvalidateDetail, Crash
<1>5. Expire \/ UNCHANGED vars => FALSE
  BY <1>1 DEF Expire, vars
<1> QED BY <1>2, <1>3, <1>4, <1>5, StepsSplit DEF Next

\* A delete removes a portfolio of the user who asked for it, although the
\* owner was checked two transactions earlier.
THEOREM UsersDeleteTheirOwn ==
  ASSUME Sequential
  PROVE  Spec => DeletesOwnOnly
<1>1. Inv /\ [Next]_vars =>
        [\A i \in Id :
           (rows[i] # None /\ rows'[i] = None)
             => \E c \in Call : At(c, "delete") /\ For(c, owner[rows[i]])]_vars
  BY DeletesOwn
<1> QED BY Invariant, <1>1, PTL DEF Spec, DeletesOwnOnly

=============================================================================
