--------------------------- MODULE PortfolioCache ---------------------------
(***************************************************************************)
(* Saved portfolios and the cache in front of them: the four operations of *)
(* services/portfolio_service.py over repositories/portfolio_repository.py *)
(* and models/database.py.  Each SQL transaction and each cache call is    *)
(* one atomic step; API threads interleave between them.                   *)
(***************************************************************************)
EXTENDS Naturals, FiniteSets

CONSTANTS
  User,
  Portfolio,   \* portfolios that may be saved; saving gives one its row
  Call,        \* threads of the API, each serving one request at a time
  None,
  Rowid(_, _), \* the id the database gives a row: used ids, rows ever saved
  Fault,       \* which faults may happen, a subset of {"cache", "crash"}
  MaxFaults    \* bound: how many

\* SQLite reuses the highest rowid after a delete, PostgreSQL's sequence does
\* not; an id in use is never given again by either.
Id == 1..Cardinality(Portfolio)

ASSUME PortfolioAssumption ==
  /\ IsFiniteSet(Portfolio)
  /\ \A n \in 0..(Cardinality(Portfolio) - 1) : \A used \in SUBSET (1..n) :
       Rowid(used, n) \in (1..(n + 1)) \ used
  /\ None \notin User \cup Portfolio \cup Id
  /\ \A list \in SUBSET Portfolio : list # None
  /\ Fault \subseteq {"cache", "crash"}
  /\ MaxFaults \in Nat

VARIABLES
  rows,      \* portfolios table, weights included: the portfolio of each id
  owner,     \* its user_id column, kept after the row is deleted
  hist,      \* portfolio:history:<user>   the portfolios listed, or None
  detail,    \* portfolio:<user>:<id>      the row and the weights, or None
  call,      \* where each thread is, for whom, and what it has read
  overtaken, \* history: threads whose copy an invalidation overtook
  late,      \* history: keys filled by such a thread or left by a failure
  faults

vars == <<rows, owner, hist, detail, call, overtaken, late, faults>>

Idle == [pc |-> "idle", user |-> None, id |-> None, list |-> None,
         row |-> None, weights |-> None]

HistoryKey(u)   == <<u>>
DetailKey(u, i) == <<u, i>>

Saved    == {p \in Portfolio : owner[p] # None}
Used     == {i \in Id : rows[i] # None}
Owned(u) == {p \in Portfolio : owner[p] = u /\ \E i \in Id : rows[i] = p}
OwnerOf(i) == IF rows[i] = None THEN None ELSE owner[rows[i]]

\* A portfolio stands for its row and for its weights.
RowOf(i)     == rows[i]
WeightsOf(i) == rows[i]

\* The row and the weights are inserted in one transaction.
InsertRow(u, p) ==
  /\ rows' = [rows EXCEPT ![Rowid(Used, Cardinality(Saved))] = p]
  /\ owner' = [owner EXCEPT ![p] = u]

At(c, pc)     == call[c].pc = pc
For(c, u)     == call[c].user = u
Goto(c, pc)   == call' = [call EXCEPT ![c].pc = pc]
Finish(c)     == call' = [call EXCEPT ![c] = Idle]
Serve(c, pc, u, i) ==
  call' = [call EXCEPT ![c] = [Idle EXCEPT !.pc = pc, !.user = u, !.id = i]]

Init ==
  /\ rows = [i \in Id |-> None]
  /\ owner = [p \in Portfolio |-> None]
  /\ hist = [u \in User |-> None]
  /\ detail = [u \in User |-> [i \in Id |-> None]]
  /\ call = [c \in Call |-> Idle]
  /\ overtaken = {}
  /\ late = {}
  /\ faults = 0

\* A Redis error is swallowed: the write or the delete does not happen.
CacheFails ==
  /\ "cache" \in Fault
  /\ faults < MaxFaults
  /\ faults' = faults + 1

-----------------------------------------------------------------------------
(* get_history                                                              *)

\* A miss, or an error that looks like one; a hit answers at once.
HistoryMiss(c, u) ==
  /\ At(c, "idle")
  /\ \/ hist[u] = None /\ UNCHANGED faults
     \/ hist[u] # None /\ CacheFails
  /\ Serve(c, "list", u, None)
  /\ UNCHANGED <<rows, owner, hist, detail, overtaken, late>>

ListRows(c) ==
  /\ At(c, "list")
  /\ call' = [call EXCEPT ![c].pc = "fillHistory",
                          ![c].list = Owned(call[c].user)]
  /\ UNCHANGED <<rows, owner, hist, detail, overtaken, late, faults>>

FillHistory(c) ==
  LET u == call[c].user IN
  /\ At(c, "fillHistory")
  /\ \/ /\ hist' = [hist EXCEPT ![u] = call[c].list]
        /\ late' = IF c \in overtaken THEN late \cup {HistoryKey(u)}
                                      ELSE late \ {HistoryKey(u)}
        /\ UNCHANGED faults
     \/ CacheFails /\ UNCHANGED <<hist, late>>
  /\ overtaken' = overtaken \ {c}
  /\ Finish(c)
  /\ UNCHANGED <<rows, owner, detail>>

-----------------------------------------------------------------------------
(* get_by_id: the row, its owner and its weights are three transactions.    *)

DetailMiss(c, u, i) ==
  /\ At(c, "idle")
  /\ \/ detail[u][i] = None /\ UNCHANGED faults
     \/ detail[u][i] # None /\ CacheFails
  /\ Serve(c, "readRow", u, i)
  /\ UNCHANGED <<rows, owner, hist, detail, overtaken, late>>

\* Mutant: a missing row is not noticed.
ReadRowUnchecked(c) ==
  /\ At(c, "readRow")
  /\ call' = [call EXCEPT ![c].pc = "readOwner", ![c].row = RowOf(call[c].id)]
  /\ UNCHANGED <<rows, owner, hist, detail, overtaken, late, faults>>

\* NotFoundError when there is no row.
ReadRow(c) ==
  /\ At(c, "readRow")
  /\ IF RowOf(call[c].id) = None
       THEN Finish(c)
       ELSE call' = [call EXCEPT ![c].pc = "readOwner",
                                 ![c].row = RowOf(call[c].id)]
  /\ UNCHANGED <<rows, owner, hist, detail, overtaken, late, faults>>

\* Mutant: the owner is not compared with the user.
ReadOwnerUnchecked(c) ==
  /\ At(c, "readOwner")
  /\ Goto(c, "readWeights")
  /\ UNCHANGED <<rows, owner, hist, detail, overtaken, late, faults>>

\* AuthorizationError when somebody else, or nobody any more, owns the row.
ReadOwner(c) ==
  /\ At(c, "readOwner")
  /\ IF OwnerOf(call[c].id) = call[c].user
       THEN Goto(c, "readWeights") /\ UNCHANGED overtaken
       ELSE Finish(c) /\ overtaken' = overtaken \ {c}
  /\ UNCHANGED <<rows, owner, hist, detail, late, faults>>

ReadWeights(c) ==
  /\ At(c, "readWeights")
  /\ call' = [call EXCEPT ![c].pc = "fillDetail",
                          ![c].weights = WeightsOf(call[c].id)]
  /\ UNCHANGED <<rows, owner, hist, detail, overtaken, late, faults>>

FillDetail(c) ==
  LET u == call[c].user
      i == call[c].id IN
  /\ At(c, "fillDetail")
  /\ \/ /\ detail' = [detail EXCEPT ![u][i] = [row |-> call[c].row,
                                               weights |-> call[c].weights]]
        /\ late' = IF c \in overtaken THEN late \cup {DetailKey(u, i)}
                                      ELSE late \ {DetailKey(u, i)}
        /\ UNCHANGED faults
     \/ CacheFails /\ UNCHANGED <<detail, late>>
  /\ overtaken' = overtaken \ {c}
  /\ Finish(c)
  /\ UNCHANGED <<rows, owner, hist>>

-----------------------------------------------------------------------------
(* Invalidation.  A reader holding a copy of the key is overtaken by it.    *)

HistoryReaders(u) == {c \in Call : For(c, u) /\ At(c, "fillHistory")}
DetailReaders(u, i) ==
  {c \in Call : For(c, u) /\ call[c].id = i
                  /\ call[c].pc \in {"readOwner", "readWeights", "fillDetail"}}

DropHistory(u) ==
  /\ \/ /\ hist' = [hist EXCEPT ![u] = None]
        /\ late' = late \ {HistoryKey(u)}
        /\ UNCHANGED faults
     \/ CacheFails /\ late' = late \cup {HistoryKey(u)} /\ UNCHANGED hist
  /\ overtaken' = overtaken \cup HistoryReaders(u)

DropDetail(u, i) ==
  /\ \/ /\ detail' = [detail EXCEPT ![u][i] = None]
        /\ late' = late \ {DetailKey(u, i)}
        /\ UNCHANGED faults
     \/ CacheFails /\ late' = late \cup {DetailKey(u, i)} /\ UNCHANGED detail
  /\ overtaken' = overtaken \cup DetailReaders(u, i)

-----------------------------------------------------------------------------
(* optimize: prices and weights are computed before the row is saved; a run *)
(* that fails until then changes nothing.                                   *)

\* Mutant: the new row does not invalidate the history.
SaveOnly(c, u, p) ==
  /\ At(c, "idle")
  /\ p \notin Saved
  /\ InsertRow(u, p)
  /\ UNCHANGED <<hist, detail, call, overtaken, late, faults>>

Save(c, u, p) ==
  /\ At(c, "idle")
  /\ p \notin Saved
  /\ InsertRow(u, p)
  /\ Serve(c, "dropHistory", u, None)
  /\ UNCHANGED <<hist, detail, overtaken, late, faults>>

\* cache.delete(history); the audit row and the answer follow.
InvalidateHistory(c) ==
  /\ At(c, "dropHistory")
  /\ DropHistory(call[c].user)
  /\ Finish(c)
  /\ UNCHANGED <<rows, owner, detail>>

-----------------------------------------------------------------------------
(* delete                                                                   *)

FindRow(c, u, i) ==
  /\ At(c, "idle")
  /\ RowOf(i) # None
  /\ Serve(c, "findOwner", u, i)
  /\ UNCHANGED <<rows, owner, hist, detail, overtaken, late, faults>>

\* Mutant: anybody may delete.
FindOwnerUnchecked(c) ==
  /\ At(c, "findOwner")
  /\ Goto(c, "delete")
  /\ UNCHANGED <<rows, owner, hist, detail, overtaken, late, faults>>

FindOwner(c) ==
  /\ At(c, "findOwner")
  /\ IF OwnerOf(call[c].id) = call[c].user THEN Goto(c, "delete") ELSE Finish(c)
  /\ UNCHANGED <<rows, owner, hist, detail, overtaken, late, faults>>

\* The weights and the row, whoever's they are by now.
DeleteRow(c) ==
  /\ At(c, "delete")
  /\ rows' = [rows EXCEPT ![call[c].id] = None]
  /\ Goto(c, "dropDetail")
  /\ UNCHANGED <<owner, hist, detail, overtaken, late, faults>>

\* Mutant: the detail key is left to expire.
InvalidateDetailForgotten(c) ==
  /\ At(c, "dropDetail")
  /\ Goto(c, "dropHistory")
  /\ UNCHANGED <<rows, owner, hist, detail, overtaken, late, faults>>

InvalidateDetail(c) ==
  /\ At(c, "dropDetail")
  /\ DropDetail(call[c].user, call[c].id)
  /\ Goto(c, "dropHistory")
  /\ UNCHANGED <<rows, owner, hist>>

-----------------------------------------------------------------------------
(* The environment.                                                         *)

\* _HISTORY_TTL, _DETAIL_TTL
Expire ==
  /\ \/ \E u \in User :
          /\ hist[u] # None
          /\ hist' = [hist EXCEPT ![u] = None]
          /\ late' = late \ {HistoryKey(u)}
          /\ UNCHANGED detail
     \/ \E u \in User, i \in Id :
          /\ detail[u][i] # None
          /\ detail' = [detail EXCEPT ![u][i] = None]
          /\ late' = late \ {DetailKey(u, i)}
          /\ UNCHANGED hist
  /\ UNCHANGED <<rows, owner, call, overtaken, faults>>

\* The process dies: what it was about to invalidate stays.
Crash(c) ==
  LET u == call[c].user
      i == call[c].id IN
  /\ ~At(c, "idle")
  /\ "crash" \in Fault
  /\ faults < MaxFaults
  /\ faults' = faults + 1
  /\ late' = CASE At(c, "dropHistory") -> late \cup {HistoryKey(u)}
               [] At(c, "dropDetail")  -> late \cup {HistoryKey(u), DetailKey(u, i)}
               [] OTHER -> late
  /\ overtaken' =
       (CASE At(c, "dropHistory") -> overtaken \cup HistoryReaders(u)
          [] At(c, "dropDetail")  -> overtaken \cup HistoryReaders(u)
                                               \cup DetailReaders(u, i)
          [] OTHER -> overtaken) \ {c}
  /\ Finish(c)
  /\ UNCHANGED <<rows, owner, hist, detail>>

Begin(c) ==
  \E u \in User :
    \/ HistoryMiss(c, u)
    \/ \E i \in Id : DetailMiss(c, u, i) \/ FindRow(c, u, i)
    \/ \E p \in Portfolio : Save(c, u, p)

Continue(c) ==
  \/ ListRows(c) \/ FillHistory(c)
  \/ ReadRow(c) \/ ReadOwner(c) \/ ReadWeights(c) \/ FillDetail(c)
  \/ InvalidateHistory(c)
  \/ FindOwner(c) \/ DeleteRow(c) \/ InvalidateDetail(c)

Next == Expire \/ \E c \in Call : Begin(c) \/ Continue(c) \/ Crash(c)

Spec == Init /\ [][Next]_vars

-----------------------------------------------------------------------------
(* Properties.                                                              *)

Pc == {"idle", "list", "fillHistory", "readRow", "readOwner", "readWeights",
       "fillDetail", "dropHistory", "findOwner", "delete", "dropDetail"}

Detail == [row : Portfolio, weights : Portfolio \cup {None}]

Thread == [pc : Pc, user : User \cup {None}, id : Id \cup {None},
           list : {None} \cup SUBSET Portfolio,
           row : Portfolio \cup {None}, weights : Portfolio \cup {None}]

\* Every table, cache key and thread keeps its type, and a thread that has
\* begun knows its user, its id and the row it read.
TypeOK ==
  /\ rows \in [Id -> Portfolio \cup {None}]
  /\ owner \in [Portfolio -> User \cup {None}]
  /\ hist \in [User -> {None} \cup SUBSET Portfolio]
  /\ detail \in [User -> [Id -> Detail \cup {None}]]
  /\ call \in [Call -> Thread]
  /\ \A c \in Call :
       /\ call[c].pc # "idle" => call[c].user \in User
       /\ call[c].pc \notin {"idle", "list", "fillHistory", "dropHistory"}
            => call[c].id \in Id
       /\ call[c].pc = "fillHistory" => call[c].list \in SUBSET Portfolio
       /\ call[c].pc \in {"readOwner", "readWeights", "fillDetail"}
            => call[c].row \in Portfolio
  /\ overtaken \subseteq Call
  /\ late \subseteq {HistoryKey(u) : u \in User}
                      \cup {DetailKey(u, i) : u \in User, i \in Id}
  /\ faults \in Nat

\* Somebody is still going to invalidate the key.
HistoryDue(u) ==
  \E c \in Call : For(c, u) /\ call[c].pc \in {"dropDetail", "dropHistory"}
DetailDue(u, i) ==
  \E c \in Call : For(c, u) /\ call[c].id = i /\ At(c, "dropDetail")

\* A cached list is the user's portfolios as they are, unless the writer that
\* changed them is about to drop it, or the list is late: put there by a
\* reader that an invalidation overtook, or kept by a failed invalidation.
HistoryFresh ==
  \A u \in User :
    hist[u] # None
      => hist[u] = Owned(u) \/ HistoryDue(u) \/ HistoryKey(u) \in late

\* Likewise for a cached portfolio, whose row and weights also belong together.
DetailFresh ==
  \A u \in User, i \in Id :
    detail[u][i] # None
      => \/ rows[i] # None /\ detail[u][i] = [row |-> rows[i], weights |-> rows[i]]
         \/ DetailDue(u, i)
         \/ DetailKey(u, i) \in late

\* The cache serves a user no portfolio but her own: the key carries the user
\* and only a reader that passed the owner check fills it.
OwnDetailOnly ==
  \A u \in User, i \in Id :
    detail[u][i] # None => owner[detail[u][i].row] = u

\* A delete removes a portfolio of the user who asked, although the owner was
\* checked two transactions earlier.
DeletesOwnOnly ==
  [][\A i \in Id :
       (rows[i] # None /\ rows'[i] = None)
         => \E c \in Call : At(c, "delete") /\ For(c, owner[rows[i]])]_vars
=============================================================================
