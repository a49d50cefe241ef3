------------------------- MODULE BoundedStoreProofs -------------------------
(***************************************************************************)
(* Proofs about BoundedStore, for any threads, keys, times to live and cap. *)
(* The invariant describes what a thread can still have before it: plain   *)
(* sections, a recording of which the count or only the sum is left, or    *)
(* the rest of a report.  From that the balance of count and sum follows:  *)
(* the count runs ahead of the sum by one for each recording half done.    *)
(***************************************************************************)
EXTENDS BoundedStore, FiniteSetTheorems, TLAPS

-----------------------------------------------------------------------------
(* The invariant.                                                          *)

Plain == [do : Read \cup {"set"}, key : Item, by : {0}]
           \cup [do : {"add"}, key : {"requests", "hits", "misses"}, by : Nat]

Reporting ==
  {<<Get("requests"), Get("hits"), Get("misses"), Get("sum"), Get("count")>>,
   <<Get("hits"), Get("misses"), Get("sum"), Get("count")>>,
   <<Get("misses"), Get("sum"), Get("count")>>,
   <<Get("sum"), Get("count")>>,
   <<Get("count")>>}

Both(d)    == <<Add("count", 1), Add("sum", d)>>
SumOnly(d) == <<Add("sum", d)>>

Shaped(t) ==
  \/ todo[t] \in Seq(Plain)
  \/ \E d \in 1..longest : todo[t] = Both(d) \/ todo[t] = SumOnly(d)
  \/ todo[t] \in Reporting /\ (todo[t] # <<Get("count")>> => seen[t].count = 0)

Value(c) == IF c \in DOMAIN mem THEN mem[c].n ELSE 0

\* Threads that have written the count of a duration and not its sum.
Pending == {t \in Thread : /\ todo[t] # <<>>
                           /\ Head(todo[t]).do = "add"
                           /\ Head(todo[t]).key = "sum"}

Balance ==
  ~lapsed => \E m \in Nat : /\ Value("count") = m + Cardinality(Pending)
                            /\ Value("sum") <= longest * m

Readings ==
  ~lapsed => \A t \in Thread : seen[t].sum <= longest * Value("count")

IInv ==
  /\ TypeOK
  /\ IsFiniteSet(DOMAIN mem)
  /\ IsFiniteSet(Pending)
  /\ \A t \in Thread : Shaped(t)
  /\ Balance
  /\ Readings
  /\ AverageHonest

-----------------------------------------------------------------------------
(* Sequences of sections.                                                  *)

LEMMA PlainNext ==
  ASSUME NEW s \in Seq(Plain), s # <<>>
  PROVE  Head(s) \in Plain /\ Tail(s) \in Seq(Plain)
OBVIOUS

LEMMA PlainJoin ==
  ASSUME NEW a \in Seq(Plain), NEW b \in Seq(Plain), NEW s \in Seq(Plain)
  PROVE  a \o b \o s \in Seq(Plain)
OBVIOUS

LEMMA PlainIsSection == Seq(Plain) \subseteq Seq(Section)
<1>1. Plain \subseteq Section
  BY DEF Plain, Section, Key, Counter, Read
<1> QED BY <1>1

LEMMA RecordingNext ==
  ASSUME NEW d \in Nat
  PROVE  /\ Both(d) # <<>> /\ SumOnly(d) # <<>>
         /\ Head(Both(d)) = Add("count", 1) /\ Tail(Both(d)) = SumOnly(d)
         /\ Head(SumOnly(d)) = Add("sum", d) /\ Tail(SumOnly(d)) = <<>>
         /\ Both(d) \in Seq(Section) /\ SumOnly(d) \in Seq(Section)
BY DEF Both, SumOnly, Add, Section, Key, Counter

LEMMA ReportNext ==
  ASSUME NEW s \in Reporting
  PROVE  /\ s # <<>>
         /\ Head(s).do = "get" /\ Head(s).key \in Counter
         /\ Head(s).key = "count" <=> s = <<Get("count")>>
         /\ Head(s).key = "count" => Tail(s) = <<>>
         /\ Head(s).key # "count" => Tail(s) \in Reporting
         /\ <<>> \o <<>> \o Tail(s) = Tail(s)
         /\ s \in Seq(Section)
<1> USE DEF Get, Reads, Section, Key, Counter, Read
<1>1. CASE s = <<Get("requests"), Get("hits"), Get("misses"), Get("sum"), Get("count")>>
  <2>1. Tail(s) = <<Get("hits"), Get("misses"), Get("sum"), Get("count")>>
    BY <1>1
  <2> QED BY <1>1, <2>1 DEF Reporting
<1>2. CASE s = <<Get("hits"), Get("misses"), Get("sum"), Get("count")>>
  <2>1. Tail(s) = <<Get("misses"), Get("sum"), Get("count")>>
    BY <1>2
  <2> QED BY <1>2, <2>1 DEF Reporting
<1>3. CASE s = <<Get("misses"), Get("sum"), Get("count")>>
  <2>1. Tail(s) = <<Get("sum"), Get("count")>>
    BY <1>3
  <2> QED BY <1>3, <2>1 DEF Reporting
<1>4. CASE s = <<Get("sum"), Get("count")>>
  <2>1. Tail(s) = <<Get("count")>>
    BY <1>4
  <2> QED BY <1>4, <2>1 DEF Reporting
<1>5. CASE s = <<Get("count")>>
  BY <1>5
<1> QED BY <1>1, <1>2, <1>3, <1>4, <1>5 DEF Reporting

-----------------------------------------------------------------------------
(* Arithmetic.                                                             *)

LEMMA ProductGrows ==
  ASSUME NEW a \in Nat, NEW b \in Nat, NEW m \in Nat, a <= b
  PROVE  a * m <= b * m /\ m * a <= m * b /\ a * m \in Nat /\ m * a \in Nat
<1>1. PICK d \in Nat : b = a + d
  <2>1. b - a \in Nat /\ b = a + (b - a)
    OBVIOUS
  <2> QED BY <2>1
<1>2. b * m = a * m + d * m /\ m * b = m * a + m * d
  BY <1>1
<1>3. d * m \in Nat /\ m * d \in Nat /\ a * m \in Nat /\ m * a \in Nat
  OBVIOUS
<1> QED BY <1>2, <1>3

LEMMA ProductIsNat ==
  ASSUME NEW a \in Nat, NEW b \in Nat
  PROVE  a * b \in Nat
OBVIOUS

LEMMA ProductNext ==
  ASSUME NEW l \in Nat, NEW m \in Nat
  PROVE  l * (m + 1) = l * m + l /\ l * m \in Nat
OBVIOUS

-----------------------------------------------------------------------------
(* Lemmas about steps.                                                     *)

LEMMA ValueIsNat ==
  ASSUME EntryTypes, NEW c
  PROVE  Value(c) \in Nat
BY DEF EntryTypes, Value

LEMMA ClockOfSection ==
  ASSUME ThreadTypes, NEW t \in Thread, NEW dos, NEW now, Enters(t, dos, now)
  PROVE  /\ clock \in Nat /\ now \in Nat /\ now <= clock
         /\ todo[t] # <<>> /\ Head(todo[t]).do \in dos
<1>1. since[t] \in Nat /\ clock \in Nat
  BY StoreAssumption DEF ThreadTypes
<1> QED BY <1>1 DEF Enters

LEMMA LifetimeIsNat ==
  ASSUME NEW k \in Key
  PROVE  Lifetime(k) \in Nat \ {0}
BY StoreAssumption DEF Lifetime, Key

\* The balance survives a step that leaves the count and what is pending alone.
LEMMA BalanceKept ==
  ASSUME IInv, longest' \in Nat, longest <= longest', Pending' = Pending,
         ~lapsed' => /\ ~lapsed
                     /\ Value("count")' = Value("count")
                     /\ Value("sum")' <= Value("sum")
                     /\ Value("sum")' \in Nat
  PROVE  Balance'
<1> SUFFICES ASSUME ~lapsed'
             PROVE  \E m \in Nat : /\ Value("count")' = m + Cardinality(Pending)'
                                   /\ Value("sum")' <= longest' * m
  BY DEF Balance
<1>1. PICK m \in Nat : /\ Value("count") = m + Cardinality(Pending)
                       /\ Value("sum") <= longest * m
  BY DEF IInv, Balance
<1>0. longest \in Nat
  BY DEF IInv, TypeOK
<1>2. longest * m <= longest' * m /\ longest * m \in Nat /\ longest' * m \in Nat
  <2>1. longest * m <= longest' * m
    BY <1>0, ProductGrows
  <2>2. longest * m \in Nat /\ longest' * m \in Nat
    BY <1>0, ProductIsNat
  <2> QED BY <2>1, <2>2
<1>3. Value("sum") \in Nat
  BY ValueIsNat DEF IInv, TypeOK
<1>4. Value("sum")' <= longest' * m
  BY <1>1, <1>2, <1>3
<1>5. Value("count")' = m + Cardinality(Pending)'
  BY <1>1
<1> QED BY <1>4, <1>5

\* What has been read stays honest while the count does not shrink.
LEMMA ReadingsKept ==
  ASSUME IInv, longest' \in Nat, longest <= longest', NEW t \in Thread,
         ~lapsed' => /\ ~lapsed
                     /\ Value("count")' \in Nat
                     /\ Value("count") <= Value("count")',
         seen'[t] = seen[t] \/ seen'[t] = NothingSeen
  PROVE  ~lapsed' =>
           /\ seen'[t].sum <= longest' * Value("count")'
           /\ seen'[t].count > 0 => seen'[t].sum <= longest' * seen'[t].count
<1> SUFFICES ASSUME ~lapsed'
             PROVE  /\ seen'[t].sum <= longest' * Value("count")'
                    /\ seen'[t].count > 0 =>
                         seen'[t].sum <= longest' * seen'[t].count
  OBVIOUS
<1>0. /\ Value("count") \in Nat /\ longest \in Nat
      /\ seen[t].sum \in Nat /\ seen[t].count \in Nat
  BY ValueIsNat DEF IInv, TypeOK
<1>1. CASE seen'[t] = NothingSeen
  <2>1. 0 <= longest' * Value("count")'
    BY ProductGrows
  <2> QED BY <1>1, <2>1 DEF NothingSeen
<1>2. CASE seen'[t] = seen[t]
  <2>1. /\ seen[t].sum <= longest * Value("count")
        /\ seen[t].count > 0 => seen[t].sum <= longest * seen[t].count
    BY DEF IInv, Readings, AverageHonest
  <2>2. longest * Value("count") <= longest' * Value("count")
    BY <1>0, ProductGrows
  <2>3. longest' * Value("count") <= longest' * Value("count")'
    BY <1>0, ProductGrows
  <2>4. longest * seen[t].count <= longest' * seen[t].count
    BY <1>0, ProductGrows
  <2>5. /\ longest * Value("count") \in Nat /\ longest' * Value("count") \in Nat
        /\ longest' * Value("count")' \in Nat
        /\ longest * seen[t].count \in Nat /\ longest' * seen[t].count \in Nat
    BY <1>0, ProductGrows
  <2>6. seen[t].sum <= longest' * Value("count")'
    BY <1>0, <2>1, <2>2, <2>3, <2>5
  <2>7. seen[t].count > 0 => seen[t].sum <= longest' * seen[t].count
    BY <1>0, <2>1, <2>4, <2>5
  <2> QED BY <1>2, <2>6, <2>7
<1> QED BY <1>1, <1>2

\* A thread that does nothing keeps its place.
LEMMA ShapeKept ==
  ASSUME NEW t \in Thread, Shaped(t), longest \in Nat, longest' \in Nat,
         longest <= longest', todo'[t] = todo[t], seen'[t] = seen[t]
  PROVE  Shaped(t)'
BY DEF Shaped

-----------------------------------------------------------------------------
(* A call begins.                                                          *)

\* What can be put before a thread.
Beginning(t, sections) ==
  /\ Call(t, sections)
  /\ \/ sections \in Seq(Plain) /\ UNCHANGED <<seen, longest>>
     \/ /\ sections \in Reporting
        /\ seen' = [seen EXCEPT ![t] = NothingSeen]
        /\ UNCHANGED longest
     \/ \E d \in Duration :
          /\ sections = Both(d)
          /\ longest' = IF d > longest THEN d ELSE longest
          /\ UNCHANGED seen

LEMMA PlainSections ==
  /\ \A j \in Job : <<Add("requests", 1), Set(j)>> \in Seq(Plain)
  /\ \A j \in Job, count \in {<<>>, <<Add("requests", 1)>>} :
       <<Reads("update", j)>> \o count \in Seq(Plain)
  /\ \A k \in Item : /\ <<Get(k)>> \in Seq(Plain)
                     /\ <<Set(k)>> \in Seq(Plain)
                     /\ <<Reads("fill", k)>> \in Seq(Plain)
  /\ <<Add("requests", 1)>> \in Seq(Plain)
<1>1. /\ Add("requests", 1) \in Plain
      /\ \A k \in Item : /\ Set(k) \in Plain /\ Get(k) \in Plain
                         /\ Reads("fill", k) \in Plain
                         /\ Reads("update", k) \in Plain
  BY DEF Plain, Add, Set, Get, Reads, Read
<1>2. Job \subseteq Item
  BY DEF Item
<1> QED BY <1>1, <1>2

LEMMA BeginIsBeginning ==
  ASSUME NEW t \in Thread, Begin(t)
  PROVE  \E sections : Beginning(t, sections)
<1> USE DEF Beginning, Quietly
<1>0. Job \subseteq Item /\ Flag \subseteq Item /\ Aside \subseteq Item
  BY DEF Item
<1>1. CASE CreateJob(t)
  BY <1>1, PlainSections DEF CreateJob
<1>2. CASE UpdateJob(t)
  BY <1>2, PlainSections DEF UpdateJob
<1>3. CASE PollJob(t)
  BY <1>0, <1>3, PlainSections DEF PollJob
<1>4. CASE FlagEndpoint(t)
  BY <1>0, <1>4, PlainSections DEF FlagEndpoint, IsEnabled, SetFlag
<1>5. CASE GetStocks(t)
  BY <1>0, <1>5, PlainSections DEF GetStocks
<1>6. CASE CountRequest(t)
  BY <1>6, PlainSections DEF CountRequest
<1>7. CASE Report(t)
  BY <1>7 DEF Report, Reporting
<1>8. ASSUME NEW d \in Duration, RecordDuration(t, d)
      PROVE  \E sections : Beginning(t, sections)
  BY <1>8 DEF RecordDuration, Recording, Both
<1> QED BY <1>1, <1>2, <1>3, <1>4, <1>5, <1>6, <1>7, <1>8 DEF Begin

LEMMA BeginStep ==
  ASSUME IInv, NEW t \in Thread, Begin(t)
  PROVE  IInv'
<1>1. PICK sections : Beginning(t, sections)
  BY BeginIsBeginning
<1>2. /\ todo[t] = <<>> /\ todo' = [todo EXCEPT ![t] = sections]
      /\ UNCHANGED <<clock, mem, lapsed>>
      /\ since' = [since EXCEPT ![t] = clock]
      /\ calls' \in 0..MaxCalls
  BY <1>1, StoreAssumption DEF Beginning, Call, IInv, TypeOK
<1>3. longest' \in Nat /\ longest <= longest'
  BY <1>1, StoreAssumption DEF Beginning, IInv, TypeOK
<1>4. \A x \in Thread : \/ seen'[x] = seen[x]
                        \/ x = t /\ seen'[x] = NothingSeen
  BY <1>1 DEF Beginning, IInv, TypeOK
<1>5. sections \in Seq(Section)
  BY <1>1, PlainIsSection, ReportNext, RecordingNext, StoreAssumption
     DEF Beginning
<1>6. TypeOK'
  <2>1. EntryTypes'
    BY <1>2 DEF IInv, TypeOK, EntryTypes
  <2>2. ThreadTypes'
    BY <1>2, <1>5 DEF IInv, TypeOK, ThreadTypes
  <2>3. seen' \in [Thread -> [sum : Nat, count : Nat]]
    BY <1>1 DEF Beginning, IInv, TypeOK, NothingSeen
  <2> QED BY <1>2, <1>3, <2>1, <2>2, <2>3 DEF IInv, TypeOK
<1>7. ASSUME NEW x \in Thread PROVE Shaped(x)'
  <2>1. CASE x # t
    <3>1. todo'[x] = todo[x] /\ seen'[x] = seen[x]
      BY <1>2, <1>4, <2>1 DEF IInv, TypeOK, ThreadTypes
    <3>2. Shaped(x) /\ longest \in Nat
      BY DEF IInv, TypeOK
    <3> QED BY <1>3, <3>1, <3>2, ShapeKept
  <2>2. CASE x = t
    <3>1. todo'[t] = sections
      BY <1>2 DEF IInv, TypeOK, ThreadTypes
    <3>2. CASE sections \in Seq(Plain)
      BY <2>2, <3>1, <3>2 DEF Shaped
    <3>3. CASE sections \in Reporting /\ seen' = [seen EXCEPT ![t] = NothingSeen]
      <4>1. seen'[t].count = 0
        BY <3>3 DEF IInv, TypeOK, NothingSeen
      <4> QED BY <2>2, <3>1, <3>3, <4>1 DEF Shaped
    <3>4. ASSUME NEW d \in Duration, sections = Both(d),
                 longest' = IF d > longest THEN d ELSE longest
          PROVE  Shaped(t)'
      <4>1. d \in 1..longest'
        BY <3>4, StoreAssumption DEF IInv, TypeOK
      <4> QED BY <3>1, <3>4, <4>1 DEF Shaped
    <3> QED BY <1>1, <2>2, <3>2, <3>3, <3>4 DEF Beginning
  <2> QED BY <2>1, <2>2
<1>8. Pending' = Pending
  <2>1. \A x \in Thread : x # t => todo'[x] = todo[x]
    BY <1>2 DEF IInv, TypeOK, ThreadTypes
  <2>2. t \notin Pending
    BY <1>2 DEF Pending
  <2>3. sections # <<>> => ~(Head(sections).do = "add" /\ Head(sections).key = "sum")
    <3>1. CASE sections \in Seq(Plain)
      <4>1. sections # <<>> => Head(sections) \in Plain
        BY <3>1, PlainNext
      <4> QED BY <4>1, StoreAssumption DEF Plain, Read, Counter
    <3>2. CASE sections \in Reporting
      BY <3>2, ReportNext
    <3>3. ASSUME NEW d \in Duration, sections = Both(d)
          PROVE  Head(sections).key = "count"
      <4>1. d \in Nat
        BY StoreAssumption
      <4>2. Head(sections) = Add("count", 1)
        BY <3>3, <4>1, RecordingNext
      <4> QED BY <4>2 DEF Add
    <3> QED BY <1>1, <3>1, <3>2, <3>3 DEF Beginning
  <2>4. todo'[t] = sections
    BY <1>2 DEF IInv, TypeOK, ThreadTypes
  <2> QED BY <2>1, <2>2, <2>3, <2>4 DEF Pending
<1>9. /\ Value("count")' = Value("count") /\ Value("sum")' = Value("sum")
      /\ Value("count") \in Nat /\ Value("sum") \in Nat
  BY <1>2, ValueIsNat DEF Value, IInv, TypeOK
<1>10. Balance'
  BY <1>2, <1>3, <1>8, <1>9, BalanceKept
<1>11. Readings' /\ AverageHonest'
  BY <1>2, <1>3, <1>4, <1>9, ReadingsKept DEF Readings, AverageHonest
<1> QED BY <1>2, <1>6, <1>7, <1>8, <1>10, <1>11 DEF IInv

-----------------------------------------------------------------------------
(* A section that reads.                                                   *)

LEMMA LeavesTypes ==
  ASSUME ThreadTypes, NEW t \in Thread, NEW next \in Seq(Section), Leaves(t, next)
  PROVE  /\ ThreadTypes'
         /\ todo'[t] = next
         /\ \A x \in Thread \ {t} : todo'[x] = todo[x]
BY StoreAssumption DEF ThreadTypes, Leaves

\* Of whom a read is: a plain call or a report.
LEMMA Reader ==
  ASSUME NEW t \in Thread, Shaped(t), Head(todo[t]).do \in Read
  PROVE  \/ todo[t] \in Seq(Plain)
         \/ todo[t] \in Reporting /\ (todo[t] # <<Get("count")>> => seen[t].count = 0)
<1>1. ASSUME NEW d \in 1..longest, todo[t] = Both(d) \/ todo[t] = SumOnly(d)
      PROVE  FALSE
  <2>1. d \in Nat
    OBVIOUS
  <2>2. Head(Both(d)) = Add("count", 1) /\ Head(SumOnly(d)) = Add("sum", d)
    BY <2>1, RecordingNext
  <2>3. Head(todo[t]).do = "add"
    BY <1>1, <2>2 DEF Add
  <2> QED BY <2>3 DEF Read
<1> QED BY <1>1 DEF Shaped

LEMMA GetMem ==
  ASSUME IInv, NEW t \in Thread, NEW now, MemGet(t, now)
  PROVE  /\ EntryTypes'
         /\ IsFiniteSet(DOMAIN mem')
         /\ Value("sum")' \in Nat /\ Value("sum")' <= Value("sum")
         /\ lapsed' \in BOOLEAN
         /\ ~lapsed' => ~lapsed /\ Value("count")' = Value("count")
<1> DEFINE k == Head(todo[t]).key
<1>1. UNCHANGED clock /\ (mem' = mem \/ mem' = Without({k}))
  BY DEF MemGet, Leaves
<1>2. EntryTypes /\ IsFiniteSet(DOMAIN mem)
  BY DEF IInv, TypeOK
<1>3. EntryTypes'
  BY <1>1, <1>2 DEF EntryTypes, Without
<1>4. DOMAIN mem' \subseteq DOMAIN mem
  BY <1>1 DEF Without
<1>5. IsFiniteSet(DOMAIN mem')
  BY <1>2, <1>4, FS_Subset
<1>6. \A c \in DOMAIN mem' : mem'[c] = mem[c]
  BY <1>1 DEF Without
<1>7. /\ lapsed' \in BOOLEAN
      /\ ~lapsed' => ~lapsed /\ "count" \notin DOMAIN mem \ DOMAIN mem'
  BY DEF MemGet, Lapses, IInv, TypeOK
<1>8. ~lapsed' => Value("count")' = Value("count")
  BY <1>4, <1>6, <1>7 DEF Value
<1>9. Value("sum")' = Value("sum") \/ Value("sum")' = 0
  BY <1>4, <1>6 DEF Value
<1>10. Value("sum") \in Nat
  BY <1>2, ValueIsNat
<1> QED BY <1>3, <1>5, <1>7, <1>8, <1>9, <1>10

LEMMA GetStep ==
  ASSUME IInv, NEW t \in Thread, NEW now, MemGet(t, now)
  PROVE  IInv'
<1> DEFINE k    == Head(todo[t]).key
           do   == Head(todo[t]).do
           hit  == Live(k, now)
           next == Tracking(k, hit) \o Storing(do, k, hit) \o Tail(todo[t])
<1>1. /\ todo[t] # <<>> /\ do \in Read
      /\ Leaves(t, next)
      /\ seen' = IF k \in {"sum", "count"} /\ hit
                   THEN [seen EXCEPT ![t][k] = mem[k].n] ELSE seen
  BY DEF MemGet, Enters
<1>2. UNCHANGED <<clock, calls, longest>> /\ longest \in Nat
  BY <1>1 DEF Leaves, IInv, TypeOK
<1>3. TypeOK /\ Shaped(t)
  BY DEF IInv
<1>4. \/ todo[t] \in Seq(Plain)
      \/ todo[t] \in Reporting /\ (todo[t] # <<Get("count")>> => seen[t].count = 0)
  BY <1>1, <1>3, Reader
<1>5. todo[t] \in Seq(Plain) => k \in Item /\ k \notin Counter /\ next \in Seq(Plain)
  <2> SUFFICES ASSUME todo[t] \in Seq(Plain)
               PROVE  k \in Item /\ k \notin Counter /\ next \in Seq(Plain)
    OBVIOUS
  <2>1. Head(todo[t]) \in Plain /\ Tail(todo[t]) \in Seq(Plain)
    BY <1>1, PlainNext
  <2>2. k \in Item /\ k \notin Counter
    BY <1>1, <2>1, StoreAssumption DEF Plain, Read
  <2>3. Tracking(k, hit) \in Seq(Plain)
    BY <2>2 DEF Tracking, Plain, Add
  <2>4. Storing(do, k, hit) \in Seq(Plain)
    <3>1. Set(k) \in Plain
      BY <2>2 DEF Plain, Set
    <3>2. <<Set(k)>> \in Seq(Plain) /\ <<>> \in Seq(Plain)
      BY <3>1
    <3> QED BY <3>2 DEF Storing
  <2> QED BY <2>1, <2>2, <2>3, <2>4, PlainJoin
<1>6. todo[t] \in Reporting =>
        /\ k \in Counter
        /\ k = "count" => todo[t] = <<Get("count")>> /\ next = <<>>
        /\ k # "count" => todo[t] # <<Get("count")>> /\ next \in Reporting
  <2> SUFFICES ASSUME todo[t] \in Reporting
               PROVE  /\ k \in Counter
                      /\ k = "count" => todo[t] = <<Get("count")>> /\ next = <<>>
                      /\ k # "count" => todo[t] # <<Get("count")>> /\ next \in Reporting
    OBVIOUS
  <2>1. do = "get" /\ k \in Counter
    BY ReportNext
  <2>2. Tracking(k, hit) = <<>> /\ Storing(do, k, hit) = <<>>
    BY <2>1 DEF Tracking, Storing
  <2>3. next = Tail(todo[t])
    BY <2>2, ReportNext
  <2> QED BY <2>1, <2>3, ReportNext
<1>7. next \in Seq(Section)
  <2>1. <<>> \in Seq(Section)
    OBVIOUS
  <2> QED BY <1>4, <1>5, <1>6, <2>1, PlainIsSection, ReportNext
<1>8. /\ ThreadTypes'
      /\ todo'[t] = next
      /\ \A x \in Thread \ {t} : todo'[x] = todo[x]
  BY <1>1, <1>3, <1>7, LeavesTypes DEF TypeOK
<1>9. /\ seen' \in [Thread -> [sum : Nat, count : Nat]]
      /\ \A x \in Thread \ {t} : seen'[x] = seen[x]
      /\ ~(k \in {"sum", "count"} /\ hit) => seen' = seen
      /\ k = "sum" /\ hit => seen'[t].sum = Value("sum") /\ seen'[t].count = seen[t].count
      /\ k = "count" /\ hit => seen'[t].sum = seen[t].sum /\ seen'[t].count = Value("count")
  <2>1. hit => k \in DOMAIN mem /\ mem[k].n \in Nat /\ Value(k) = mem[k].n
    BY <1>3 DEF Live, Value, TypeOK, EntryTypes
  <2>2. CASE k = "sum" /\ hit
    <3>1. seen' = [seen EXCEPT ![t]["sum"] = mem["sum"].n]
      BY <1>1, <2>2
    <3> QED BY <1>3, <2>1, <2>2, <3>1 DEF TypeOK
  <2>3. CASE k = "count" /\ hit
    <3>1. seen' = [seen EXCEPT ![t]["count"] = mem["count"].n]
      BY <1>1, <2>3
    <3> QED BY <1>3, <2>1, <2>3, <3>1 DEF TypeOK
  <2>4. CASE ~(k \in {"sum", "count"} /\ hit)
    <3>1. seen' = seen
      BY <1>1, <2>4
    <3> QED BY <1>3, <2>4, <3>1 DEF TypeOK
  <2> QED BY <2>2, <2>3, <2>4
<1>10. TypeOK'
  BY <1>2, <1>3, <1>8, <1>9, GetMem DEF TypeOK
<1>11. ASSUME NEW x \in Thread PROVE Shaped(x)'
  <2>1. CASE x # t
    <3>1. Shaped(x) /\ todo'[x] = todo[x] /\ seen'[x] = seen[x]
      BY <1>8, <1>9, <2>1 DEF IInv
    <3> QED BY <1>2, <3>1, ShapeKept
  <2>2. CASE x = t /\ todo[t] \in Seq(Plain)
    BY <1>5, <1>8, <2>2 DEF Shaped
  <2>3. CASE x = t /\ todo[t] \in Reporting /\ k = "count"
    <3>1. todo'[t] = <<>> /\ <<>> \in Seq(Plain)
      BY <1>6, <1>8, <2>3
    <3> QED BY <2>3, <3>1 DEF Shaped
  <2>4. CASE x = t /\ todo[t] \in Reporting /\ k # "count" /\ seen[t].count = 0
    <3>1. seen'[t].count = 0
      BY <1>9, <2>4
    <3> QED BY <1>6, <1>8, <2>4, <3>1 DEF Shaped
  <2> QED BY <1>4, <1>5, <1>6, <2>1, <2>2, <2>3, <2>4 DEF Counter
<1>12. Pending' = Pending
  <2>1. t \notin Pending
    BY <1>1 DEF Pending, Read
  <2>2. next # <<>> => ~(Head(next).do = "add" /\ Head(next).key = "sum")
    <3>1. CASE next \in Seq(Plain)
      <4>1. next # <<>> => Head(next) \in Plain
        BY <3>1, PlainNext
      <4> QED BY <4>1, StoreAssumption DEF Plain, Read, Counter
    <3>2. CASE next \in Reporting
      BY <3>2, ReportNext
    <3> QED BY <1>4, <1>5, <1>6, <3>1, <3>2
  <2> QED BY <1>8, <2>1, <2>2 DEF Pending
<1>13. Balance'
  BY <1>2, <1>12, GetMem, BalanceKept
<1>14. Value("count") \in Nat /\ Value("sum") \in Nat
  BY <1>3, ValueIsNat DEF TypeOK
<1>15. ASSUME ~lapsed', NEW x \in Thread
       PROVE  /\ seen'[x].sum <= longest' * Value("count")'
              /\ seen'[x].count > 0 => seen'[x].sum <= longest' * seen'[x].count
  <2>0. ~lapsed /\ Value("count")' = Value("count") /\ longest' = longest
    BY <1>2, <1>15, GetMem
  <2>1. CASE seen'[x] = seen[x]
    BY <1>2, <1>14, <1>15, <2>0, <2>1, ReadingsKept
  <2>2. CASE x = t /\ k = "sum" /\ hit
    <3>1. seen[t].count = 0
      BY <1>4, <1>5, <1>6, <2>2 DEF Counter
    <3>2. PICK m \in Nat : /\ Value("count") = m + Cardinality(Pending)
                           /\ Value("sum") <= longest * m
      BY <2>0 DEF IInv, Balance
    <3>3. Cardinality(Pending) \in Nat
      BY FS_CardinalityType DEF IInv
    <3>4. m <= Value("count")
      BY <1>14, <3>2, <3>3
    <3>5. longest * m <= longest * Value("count")
      BY <1>2, <1>14, <3>4, ProductGrows
    <3>6. longest * m \in Nat /\ longest * Value("count") \in Nat
      BY <1>2, <1>14, ProductIsNat
    <3>7. Value("sum") <= longest * Value("count")
      BY <1>14, <3>2, <3>5, <3>6
    <3> QED BY <1>9, <2>0, <2>2, <3>1, <3>7
  <2>3. CASE x = t /\ k = "count" /\ hit
    <3>1. seen[t].sum <= longest * Value("count")
      BY <2>0 DEF IInv, Readings
    <3> QED BY <1>9, <2>0, <2>3, <3>1
  <2> QED BY <1>9, <2>1, <2>2, <2>3
<1>16. Readings' /\ AverageHonest'
  BY <1>15 DEF Readings, AverageHonest
<1>17. IsFiniteSet(Pending)'
  BY <1>12 DEF IInv
<1> QED BY <1>10, <1>11, <1>13, <1>16, <1>17, GetMem DEF IInv

-----------------------------------------------------------------------------
(* A section that stores an item.                                          *)

\* What a set keeps besides its own key.
LEMMA SetMem ==
  ASSUME IInv, NEW t \in Thread, NEW now, MemSet(t, now)
  PROVE  LET k == Head(todo[t]).key
         IN  \E kept \in SUBSET Kept(now) :
               /\ mem' = Stored(kept, k, now)
               /\ \/ kept = Kept(now)
                  \/ /\ Cardinality(Kept(now)) >= Cap
                     /\ \E victim \in Soonest(Kept(now)) :
                          kept = Kept(now) \ {victim}
BY DEF MemSet, SetEvicting

LEMMA Setter ==
  ASSUME NEW t \in Thread, Shaped(t), todo[t] # <<>>, Head(todo[t]).do = "set"
  PROVE  todo[t] \in Seq(Plain)
<1>1. ASSUME NEW d \in 1..longest, todo[t] = Both(d) \/ todo[t] = SumOnly(d)
      PROVE  FALSE
  <2>1. d \in Nat
    OBVIOUS
  <2>2. Head(Both(d)) = Add("count", 1) /\ Head(SumOnly(d)) = Add("sum", d)
    BY <2>1, RecordingNext
  <2>3. Head(todo[t]).do = "add"
    BY <1>1, <2>2 DEF Add
  <2> QED BY <2>3
<1>2. todo[t] \notin Reporting
  BY ReportNext
<1> QED BY <1>1, <1>2 DEF Shaped

LEMMA SetStep ==
  ASSUME IInv, NEW t \in Thread, NEW now, MemSet(t, now)
  PROVE  IInv'
<1> DEFINE k == Head(todo[t]).key
<1>1. /\ todo[t] # <<>> /\ Head(todo[t]).do = "set"
      /\ now \in Nat /\ clock \in Nat /\ now <= clock
      /\ Leaves(t, Tail(todo[t])) /\ UNCHANGED seen
      /\ lapsed' = (lapsed \/ "count" \in DOMAIN mem \ DOMAIN mem')
  BY ClockOfSection DEF MemSet, SetEvicting, Lapses, IInv, TypeOK
<1>2. UNCHANGED <<clock, calls, longest>> /\ longest \in Nat
  BY <1>1 DEF Leaves, IInv, TypeOK
<1>3. TypeOK /\ Shaped(t) /\ EntryTypes /\ IsFiniteSet(DOMAIN mem)
  BY DEF IInv, TypeOK
<1>4. Head(todo[t]) \in Plain /\ Tail(todo[t]) \in Seq(Plain)
  BY <1>1, <1>3, Setter, PlainNext
<1>5. k \in Item /\ k \notin Counter /\ k \in Key
  BY <1>1, <1>4, StoreAssumption DEF Plain, Key
<1>6. PICK kept \in SUBSET Kept(now) : mem' = Stored(kept, k, now)
  BY SetMem
<1>7. /\ DOMAIN mem' = kept \cup {k}
      /\ \A j \in kept : j # k => mem'[j] = mem[j]
      /\ mem'[k] = [until |-> now + Lifetime(k), n |-> 0]
      /\ kept \subseteq DOMAIN mem
  BY <1>6 DEF Stored, Kept
<1>8. EntryTypes'
  <2>1. DOMAIN mem' \subseteq Key
    BY <1>3, <1>5, <1>7 DEF EntryTypes
  <2>2. ASSUME NEW j \in kept, j # k
        PROVE  mem'[j] \in [until : Nat, n : Nat] /\ mem'[j].until <= clock + Lifetime(j)
    BY <1>3, <1>7, <2>2 DEF EntryTypes
  <2>3. mem'[k] \in [until : Nat, n : Nat] /\ mem'[k].until <= clock + Lifetime(k)
    <3>1. Lifetime(k) \in Nat
      BY <1>5, LifetimeIsNat
    <3> QED BY <1>1, <1>7, <3>1
  <2>4. clock' = clock
    BY <1>2
  <2>5. ASSUME NEW j \in DOMAIN mem'
        PROVE  mem'[j] \in [until : Nat, n : Nat] /\ mem'[j].until <= clock' + Lifetime(j)
    BY <1>7, <2>2, <2>3, <2>4
  <2> QED BY <2>1, <2>5 DEF EntryTypes, Lifetime
<1>9. IsFiniteSet(DOMAIN mem')
  <2>1. IsFiniteSet(kept)
    BY <1>3, <1>7, FS_Subset
  <2> QED BY <1>7, <2>1, FS_AddElement
<1>10. Tail(todo[t]) \in Seq(Section)
  BY <1>4, PlainIsSection
<1>11. /\ ThreadTypes'
       /\ todo'[t] = Tail(todo[t])
       /\ \A x \in Thread \ {t} : todo'[x] = todo[x]
  BY <1>1, <1>3, <1>10, LeavesTypes DEF TypeOK
<1>12. TypeOK'
  BY <1>1, <1>2, <1>3, <1>8, <1>11 DEF TypeOK
<1>13. ASSUME NEW x \in Thread PROVE Shaped(x)'
  <2>1. CASE x # t
    <3>1. Shaped(x) /\ todo'[x] = todo[x] /\ seen'[x] = seen[x]
      BY <1>1, <1>11, <2>1 DEF IInv
    <3> QED BY <1>2, <3>1, ShapeKept
  <2>2. CASE x = t
    BY <1>4, <1>11, <2>2 DEF Shaped
  <2> QED BY <2>1, <2>2
<1>14. Pending' = Pending
  <2>1. t \notin Pending
    BY <1>1 DEF Pending
  <2>2. Tail(todo[t]) # <<>> =>
          ~(Head(Tail(todo[t])).do = "add" /\ Head(Tail(todo[t])).key = "sum")
    <3>1. Tail(todo[t]) # <<>> => Head(Tail(todo[t])) \in Plain
      BY <1>4, PlainNext
    <3> QED BY <3>1, StoreAssumption DEF Plain, Read, Counter
  <2> QED BY <1>11, <2>1, <2>2 DEF Pending
<1>15. \A c \in {"sum", "count"} :
         IF c \in DOMAIN mem' THEN Value(c)' = Value(c)
                              ELSE Value(c)' = 0 /\ (c \notin DOMAIN mem => Value(c) = 0)
  BY <1>5, <1>7 DEF Value, Counter
<1>16. Value("count") \in Nat /\ Value("sum") \in Nat
  BY <1>3, ValueIsNat
<1>17. ~lapsed' => ~lapsed /\ Value("count")' = Value("count")
  BY <1>1, <1>15
<1>18. Value("sum")' <= Value("sum") /\ Value("sum")' \in Nat
  BY <1>15, <1>16
<1>19. Balance'
  BY <1>2, <1>14, <1>17, <1>18, BalanceKept
<1>20. Readings' /\ AverageHonest'
  BY <1>1, <1>2, <1>16, <1>17, ReadingsKept DEF Readings, AverageHonest
<1> QED BY <1>9, <1>12, <1>13, <1>14, <1>19, <1>20 DEF IInv

-----------------------------------------------------------------------------
(* A section that counts.                                                  *)

\* What an addition is: of a plain counter, of a count, or of its sum.
LEMMA Adder ==
  ASSUME NEW t \in Thread, Shaped(t), longest \in Nat, todo[t] # <<>>,
         Head(todo[t]).do = "add"
  PROVE  \/ /\ todo[t] \in Seq(Plain)
            /\ Head(todo[t]).key \in {"requests", "hits", "misses"}
            /\ Head(todo[t]).by \in Nat
         \/ \E d \in 1..longest :
              /\ todo[t] = Both(d)
              /\ Head(todo[t]) = Add("count", 1)
              /\ Tail(todo[t]) = SumOnly(d)
         \/ \E d \in 1..longest :
              /\ todo[t] = SumOnly(d)
              /\ Head(todo[t]) = Add("sum", d)
              /\ Tail(todo[t]) = <<>>
<1>1. CASE todo[t] \in Seq(Plain)
  <2>1. Head(todo[t]) \in Plain
    BY <1>1, PlainNext
  <2>2. Head(todo[t]).key \in {"requests", "hits", "misses"} /\ Head(todo[t]).by \in Nat
    BY <2>1 DEF Plain, Read
  <2> QED BY <1>1, <2>2
<1>2. ASSUME NEW d \in 1..longest, todo[t] = Both(d)
      PROVE  Head(todo[t]) = Add("count", 1) /\ Tail(todo[t]) = SumOnly(d)
  <2>1. d \in Nat
    OBVIOUS
  <2> QED BY <1>2, <2>1, RecordingNext
<1>3. ASSUME NEW d \in 1..longest, todo[t] = SumOnly(d)
      PROVE  Head(todo[t]) = Add("sum", d) /\ Tail(todo[t]) = <<>>
  <2>1. d \in Nat
    OBVIOUS
  <2> QED BY <1>3, <2>1, RecordingNext
<1>4. todo[t] \notin Reporting
  BY ReportNext
<1> QED BY <1>1, <1>2, <1>3, <1>4 DEF Shaped

\* An addition changes one counter, and loses none but the one that lapses.
LEMMA AddMem ==
  ASSUME IInv, NEW t \in Thread, NEW now, MemAdd(t, now),
         NEW c \in Counter, c = Head(todo[t]).key,
         NEW by \in Nat, by = Head(todo[t]).by
  PROVE  /\ EntryTypes'
         /\ IsFiniteSet(DOMAIN mem')
         /\ \A x \in Counter \ {c} : Value(x)' = Value(x)
         /\ Value(c)' <= Value(c) + by
         /\ lapsed' \in BOOLEAN
         /\ ~lapsed' => ~lapsed /\ (c = "count" => Value(c)' = Value(c) + by)
<1> DEFINE base == IF Live(c, now) THEN mem[c].n ELSE 0
<1>1. /\ now \in Nat /\ clock \in Nat /\ now <= clock /\ clock' = clock
      /\ mem' = [j \in DOMAIN mem \cup {c} |->
                   IF j = c THEN [until |-> now + CounterTtl, n |-> base + by]
                            ELSE mem[j]]
      /\ lapsed' = (lapsed \/ "count" \in IF Live(c, now) THEN {} ELSE {c} \cap DOMAIN mem)
  BY ClockOfSection DEF MemAdd, AddUntil, Leaves, Lapses, IInv, TypeOK
<1>2. EntryTypes /\ IsFiniteSet(DOMAIN mem) /\ lapsed \in BOOLEAN
  BY DEF IInv, TypeOK
<1>3. /\ base \in Nat /\ (base = 0 \/ base = Value(c))
      /\ Live(c, now) \/ c \notin DOMAIN mem => base = Value(c)
  BY <1>2 DEF EntryTypes, Live, Value
<1>4. Lifetime(c) = CounterTtl /\ CounterTtl \in Nat /\ c \in Key
  BY StoreAssumption DEF Lifetime, Key
<1>5. EntryTypes'
  <2>1. DOMAIN mem' \subseteq Key
    BY <1>1, <1>2, <1>4 DEF EntryTypes
  <2>2. ASSUME NEW j \in DOMAIN mem'
        PROVE  mem'[j] \in [until : Nat, n : Nat] /\ mem'[j].until <= clock' + Lifetime(j)
    <3>1. CASE j = c
      BY <1>1, <1>3, <1>4, <3>1
    <3>2. CASE j # c
      BY <1>1, <1>2, <3>2 DEF EntryTypes
    <3> QED BY <3>1, <3>2
  <2> QED BY <2>1, <2>2 DEF EntryTypes, Lifetime
<1>6. IsFiniteSet(DOMAIN mem')
  BY <1>1, <1>2, FS_AddElement
<1>7. \A x \in Counter \ {c} : Value(x)' = Value(x)
  BY <1>1 DEF Value
<1>8. Value(c)' = base + by
  BY <1>1 DEF Value
<1>9. Value(c) \in Nat
  BY <1>2, ValueIsNat
<1>10. Value(c)' <= Value(c) + by
  BY <1>3, <1>8, <1>9
<1>11. ~lapsed' => ~lapsed /\ (c = "count" => Value(c)' = Value(c) + by)
  BY <1>1, <1>3, <1>8
<1>12. lapsed' \in BOOLEAN
  BY <1>1, <1>2
<1> QED BY <1>5, <1>6, <1>7, <1>10, <1>11, <1>12

\* Who is pending after a section of t.
LEMMA PendingNext ==
  ASSUME NEW t \in Thread, \A x \in Thread \ {t} : todo'[x] = todo[x]
  PROVE  /\ (/\ todo'[t] # <<>>
             /\ Head(todo'[t]).do = "add"
             /\ Head(todo'[t]).key = "sum") => Pending' = Pending \cup {t}
         /\ ~(/\ todo'[t] # <<>>
              /\ Head(todo'[t]).do = "add"
              /\ Head(todo'[t]).key = "sum") => Pending' = Pending \ {t}
BY DEF Pending

LEMMA AddStep ==
  ASSUME IInv, NEW t \in Thread, NEW now, MemAdd(t, now)
  PROVE  IInv'
<1> DEFINE next == Tail(todo[t])
<1>1. /\ todo[t] # <<>> /\ Head(todo[t]).do = "add"
      /\ Leaves(t, next) /\ UNCHANGED seen
  BY DEF MemAdd, AddUntil, Enters
<1>2. UNCHANGED <<clock, calls, longest>> /\ longest \in Nat
  BY <1>1 DEF Leaves, IInv, TypeOK
<1>3. TypeOK /\ Shaped(t) /\ IsFiniteSet(Pending) /\ Cardinality(Pending) \in Nat
  BY FS_CardinalityType DEF IInv
<1>4. Value("count") \in Nat /\ Value("sum") \in Nat
  BY <1>3, ValueIsNat DEF TypeOK
\* What remains to be shown of each case, and why it is enough.
<1>5. ASSUME EntryTypes', IsFiniteSet(DOMAIN mem'), lapsed' \in BOOLEAN,
             next \in Seq(Section), Shaped(t)', IsFiniteSet(Pending)', Balance',
             ~lapsed' => /\ ~lapsed
                         /\ Value("count")' \in Nat
                         /\ Value("count") <= Value("count")'
      PROVE  IInv'
  <2>1. ThreadTypes' /\ \A x \in Thread \ {t} : todo'[x] = todo[x]
    BY <1>1, <1>3, <1>5, LeavesTypes DEF TypeOK
  <2>2. TypeOK'
    BY <1>1, <1>2, <1>3, <1>5, <2>1 DEF TypeOK
  <2>3. ASSUME NEW x \in Thread, x # t PROVE Shaped(x)'
    <3>1. Shaped(x) /\ todo'[x] = todo[x] /\ seen'[x] = seen[x]
      BY <1>1, <2>1, <2>3 DEF IInv
    <3> QED BY <1>2, <3>1, ShapeKept
  <2>4. Readings' /\ AverageHonest'
    BY <1>1, <1>2, <1>5, ReadingsKept DEF Readings, AverageHonest
  <2> QED BY <1>5, <2>2, <2>3, <2>4 DEF IInv
<1>6. CASE /\ todo[t] \in Seq(Plain)
           /\ Head(todo[t]).key \in {"requests", "hits", "misses"}
           /\ Head(todo[t]).by \in Nat
  <2>1. PICK c \in {"requests", "hits", "misses"}, by \in Nat :
          c = Head(todo[t]).key /\ by = Head(todo[t]).by
    BY <1>6
  <2>2. c \in Counter
    BY DEF Counter
  <2>3. /\ EntryTypes' /\ IsFiniteSet(DOMAIN mem')
        /\ \A x \in Counter \ {c} : Value(x)' = Value(x)
        /\ lapsed' \in BOOLEAN /\ (~lapsed' => ~lapsed)
    BY <2>1, <2>2, AddMem
  <2>4. Value("count")' = Value("count") /\ Value("sum")' = Value("sum")
    BY <2>3 DEF Counter
  <2>5. next \in Seq(Plain) /\ (next # <<>> => Head(next) \in Plain)
    BY <1>1, <1>6, PlainNext
  <2>6. todo'[t] = next /\ (\A x \in Thread \ {t} : todo'[x] = todo[x])
        /\ next \in Seq(Section)
    BY <1>1, <1>3, <2>5, PlainIsSection, LeavesTypes DEF TypeOK
  <2>7. Shaped(t)'
    BY <2>5, <2>6 DEF Shaped
  <2>8. Pending' = Pending
    <3>1. next # <<>> => ~(Head(next).do = "add" /\ Head(next).key = "sum")
      BY <2>5, StoreAssumption DEF Plain, Read, Counter
    <3>2. t \notin Pending
      BY <1>6 DEF Pending
    <3>3. ~(/\ todo'[t] # <<>>
            /\ Head(todo'[t]).do = "add"
            /\ Head(todo'[t]).key = "sum")
      BY <2>6, <3>1
    <3>4. Pending' = Pending \ {t}
      BY <2>6, <3>3, PendingNext
    <3> QED BY <3>2, <3>4
  <2>9. Balance'
    BY <1>2, <1>4, <2>3, <2>4, <2>8, BalanceKept
  <2> QED BY <1>3, <1>4, <1>5, <2>3, <2>4, <2>6, <2>7, <2>8, <2>9
<1>7. ASSUME NEW d \in 1..longest, todo[t] = Both(d),
             Head(todo[t]) = Add("count", 1), next = SumOnly(d)
      PROVE  IInv'
  <2>1. Head(todo[t]).key = "count" /\ Head(todo[t]).by = 1 /\ d \in Nat
    BY <1>7 DEF Add
  <2>2. /\ EntryTypes' /\ IsFiniteSet(DOMAIN mem')
        /\ \A x \in Counter \ {"count"} : Value(x)' = Value(x)
        /\ lapsed' \in BOOLEAN
        /\ ~lapsed' => ~lapsed /\ Value("count")' = Value("count") + 1
    BY <2>1, AddMem DEF Counter
  <2>3. Value("sum")' = Value("sum")
    BY <2>2 DEF Counter
  <2>4. next \in Seq(Section) /\ next # <<>> /\ Head(next) = Add("sum", d)
    BY <1>7, <2>1, RecordingNext
  <2>5. todo'[t] = next /\ \A x \in Thread \ {t} : todo'[x] = todo[x]
    BY <1>1, <1>3, <2>4, LeavesTypes DEF TypeOK
  <2>6. Shaped(t)'
    BY <1>2, <1>7, <2>5 DEF Shaped
  <2>7. Pending' = Pending \cup {t} /\ t \notin Pending
    <3>1. /\ todo'[t] # <<>>
          /\ Head(todo'[t]).do = "add"
          /\ Head(todo'[t]).key = "sum"
      BY <2>4, <2>5 DEF Add
    <3>2. t \notin Pending
      BY <2>1 DEF Pending
    <3> QED BY <2>5, <3>1, <3>2, PendingNext
  <2>8. IsFiniteSet(Pending)' /\ Cardinality(Pending)' = Cardinality(Pending) + 1
    BY <1>3, <2>7, FS_AddElement
  <2>9. Balance'
    <3> SUFFICES ASSUME ~lapsed'
                 PROVE  \E m \in Nat : /\ Value("count")' = m + Cardinality(Pending)'
                                       /\ Value("sum")' <= longest' * m
      BY DEF Balance
    <3>1. PICK m \in Nat : /\ Value("count") = m + Cardinality(Pending)
                           /\ Value("sum") <= longest * m
      BY <2>2 DEF IInv, Balance
    <3>2. Value("count")' = m + Cardinality(Pending)'
      BY <1>3, <2>2, <2>8, <3>1
    <3>3. Value("sum")' <= longest' * m
      BY <1>2, <2>3, <3>1
    <3> QED BY <3>2, <3>3
  <2> QED BY <1>4, <1>5, <2>2, <2>4, <2>6, <2>8, <2>9
<1>8. ASSUME NEW d \in 1..longest, todo[t] = SumOnly(d),
             Head(todo[t]) = Add("sum", d), next = <<>>
      PROVE  IInv'
  <2>1. Head(todo[t]).key = "sum" /\ Head(todo[t]).by = d /\ d \in Nat /\ d <= longest
    BY <1>2, <1>8 DEF Add
  <2>2. /\ EntryTypes' /\ IsFiniteSet(DOMAIN mem')
        /\ \A x \in Counter \ {"sum"} : Value(x)' = Value(x)
        /\ Value("sum")' <= Value("sum") + d
        /\ lapsed' \in BOOLEAN
        /\ ~lapsed' => ~lapsed
    BY <2>1, AddMem DEF Counter
  <2>3. Value("count")' = Value("count") /\ Value("sum")' \in Nat
    <3>1. Value("sum")' \in Nat
      BY <2>2, ValueIsNat DEF EntryTypes, Value
    <3> QED BY <2>2, <3>1 DEF Counter
  <2>4. next \in Seq(Section) /\ next \in Seq(Plain)
    <3>1. <<>> \in Seq(Section) /\ <<>> \in Seq(Plain)
      OBVIOUS
    <3> QED BY <1>8, <3>1
  <2>5. todo'[t] = next /\ \A x \in Thread \ {t} : todo'[x] = todo[x]
    BY <1>1, <1>3, <2>4, LeavesTypes DEF TypeOK
  <2>6. Shaped(t)'
    BY <2>4, <2>5 DEF Shaped
  <2>7. Pending' = Pending \ {t} /\ t \in Pending
    BY <1>1, <1>8, <2>1, <2>5, PendingNext DEF Pending
  <2>8. IsFiniteSet(Pending)' /\ Cardinality(Pending)' = Cardinality(Pending) - 1
    BY <1>3, <2>7, FS_RemoveElement
  <2>9. Balance'
    <3> SUFFICES ASSUME ~lapsed'
                 PROVE  \E m \in Nat : /\ Value("count")' = m + Cardinality(Pending)'
                                       /\ Value("sum")' <= longest' * m
      BY DEF Balance
    <3>1. PICK m \in Nat : /\ Value("count") = m + Cardinality(Pending)
                           /\ Value("sum") <= longest * m
      BY <2>2 DEF IInv, Balance
    <3>2. Value("count")' = (m + 1) + Cardinality(Pending)'
      BY <1>3, <2>3, <2>8, <3>1
    <3>3. longest * (m + 1) = longest * m + longest /\ longest * m \in Nat
      BY <1>2, ProductNext
    <3>4. Value("sum")' <= longest * m + longest
      BY <1>2, <1>4, <2>1, <2>2, <2>3, <3>1, <3>3
    <3>5. Value("sum")' <= longest' * (m + 1)
      BY <1>2, <3>3, <3>4
    <3>6. m + 1 \in Nat
      OBVIOUS
    <3> QED BY <3>2, <3>5, <3>6
  <2> QED BY <1>4, <1>5, <2>2, <2>3, <2>4, <2>6, <2>8, <2>9
<1> QED BY <1>1, <1>2, <1>3, <1>6, <1>7, <1>8, Adder

-----------------------------------------------------------------------------
(* The other steps, and the invariant.                                     *)

LEMMA DeleteStep ==
  ASSUME IInv, NEW k \in Item, Delete(k)
  PROVE  IInv'
<1>1. /\ mem' = Without({k}) /\ calls' \in 0..MaxCalls
      /\ UNCHANGED <<clock, todo, since, seen, longest, lapsed>>
  BY StoreAssumption DEF Delete, IInv, TypeOK
<1>2. TypeOK /\ EntryTypes /\ IsFiniteSet(DOMAIN mem) /\ longest \in Nat
  BY DEF IInv, TypeOK
<1>3. /\ DOMAIN mem' = DOMAIN mem \ {k}
      /\ \A j \in DOMAIN mem' : mem'[j] = mem[j]
  BY <1>1 DEF Without
<1>4. EntryTypes' /\ ThreadTypes'
  BY <1>1, <1>2, <1>3 DEF TypeOK, EntryTypes, ThreadTypes
<1>5. TypeOK'
  BY <1>1, <1>2, <1>4 DEF TypeOK
<1>6. IsFiniteSet(DOMAIN mem')
  BY <1>2, <1>3, FS_Subset
<1>7. \A t \in Thread : Shaped(t)'
  BY <1>1, <1>2, ShapeKept DEF IInv
<1>8. Pending' = Pending
  BY <1>1 DEF Pending
<1>9. Value("count")' = Value("count") /\ Value("sum")' = Value("sum")
  BY <1>3, StoreAssumption DEF Value, Counter
<1>10. Value("count") \in Nat /\ Value("sum") \in Nat
  BY <1>2, ValueIsNat
<1>11. Balance'
  BY <1>1, <1>2, <1>8, <1>9, <1>10, BalanceKept
<1>12. Readings' /\ AverageHonest'
  BY <1>1, <1>2, <1>9, <1>10, ReadingsKept DEF Readings, AverageHonest
<1> QED BY <1>5, <1>6, <1>7, <1>8, <1>11, <1>12 DEF IInv

LEMMA TickStep ==
  ASSUME IInv, Tick
  PROVE  IInv'
<1>1. /\ clock' \in 0..MaxTime /\ clock <= clock' /\ clock \in Nat
      /\ UNCHANGED <<mem, todo, since, seen, calls, longest, lapsed>>
  BY StoreAssumption DEF Tick, IInv, TypeOK, ThreadTypes
<1>2. TypeOK
  BY DEF IInv
<1>3. EntryTypes'
  <2>1. DOMAIN mem' \subseteq Key
    BY <1>1, <1>2 DEF TypeOK, EntryTypes
  <2>2. ASSUME NEW k \in DOMAIN mem'
        PROVE  mem'[k] \in [until : Nat, n : Nat] /\ mem'[k].until <= clock' + Lifetime(k)
    <3>1. k \in Key /\ mem'[k] = mem[k] /\ k \in DOMAIN mem
      BY <1>1, <2>1
    <3>2. mem[k] \in [until : Nat, n : Nat] /\ mem[k].until <= clock + Lifetime(k)
      BY <1>2, <3>1 DEF TypeOK, EntryTypes
    <3>3. Lifetime(k) \in Nat
      BY <3>1, LifetimeIsNat
    <3>4. clock' \in Nat /\ mem[k].until \in Nat
      BY <1>1, <3>2, StoreAssumption
    <3> QED BY <1>1, <3>1, <3>2, <3>3, <3>4
  <2> QED BY <2>1, <2>2 DEF EntryTypes, Lifetime
<1>4. ThreadTypes'
  BY <1>1, <1>2, StoreAssumption DEF TypeOK, ThreadTypes
<1>5. TypeOK'
  BY <1>1, <1>2, <1>3, <1>4 DEF TypeOK
<1> QED BY <1>1, <1>5 DEF IInv, Shaped, Pending, Balance, Readings, AverageHonest, Value

LEMMA RestartStep ==
  ASSUME IInv, Restart
  PROVE  IInv'
<1>1. /\ DOMAIN mem' = {} /\ longest' = 0 /\ lapsed' = FALSE
      /\ \A t \in Thread : todo'[t] = <<>> /\ seen'[t] = NothingSeen
      /\ UNCHANGED <<clock, calls>>
  BY DEF Restart, Without
<1>2. TypeOK'
  <2>1. EntryTypes'
    BY <1>1 DEF EntryTypes
  <2>2. todo' \in [Thread -> Seq(Section)]
    <3>1. <<>> \in Seq(Section)
      OBVIOUS
    <3> QED BY <3>1 DEF Restart
  <2>3. ThreadTypes'
    BY <1>1, <2>2, StoreAssumption DEF Restart, IInv, TypeOK, ThreadTypes
  <2>4. seen' \in [Thread -> [sum : Nat, count : Nat]]
    BY DEF Restart, NothingSeen
  <2> QED BY <1>1, <2>1, <2>3, <2>4 DEF IInv, TypeOK
<1>3. Pending' = {}
  BY <1>1 DEF Pending
<1>4. IsFiniteSet(DOMAIN mem') /\ IsFiniteSet(Pending)' /\ Cardinality(Pending)' = 0
  BY <1>1, <1>3, FS_EmptySet
<1>5. \A t \in Thread : Shaped(t)'
  <2>1. <<>> \in Seq(Plain)
    OBVIOUS
  <2> QED BY <1>1, <2>1 DEF Shaped
<1>6. Value("count")' = 0 /\ Value("sum")' = 0
  BY <1>1 DEF Value
<1>7. Balance'
  <2>1. Value("count")' = 0 + Cardinality(Pending)' /\ Value("sum")' <= longest' * 0
    BY <1>1, <1>4, <1>6
  <2> QED BY <2>1 DEF Balance
<1>8. Readings' /\ AverageHonest'
  BY <1>1, <1>6 DEF Readings, AverageHonest, NothingSeen
<1> QED BY <1>2, <1>4, <1>5, <1>7, <1>8 DEF IInv

LEMMA InitStep == Init => IInv
<1> SUFFICES ASSUME Init PROVE IInv
  OBVIOUS
<1>1. DOMAIN mem = {} /\ <<>> \in Seq(Section) /\ <<>> \in Seq(Plain)
  BY DEF Init
<1>2. TypeOK
  <2>1. EntryTypes
    BY <1>1 DEF EntryTypes
  <2>2. ThreadTypes
    BY <1>1, StoreAssumption DEF Init, ThreadTypes
  <2>3. seen \in [Thread -> [sum : Nat, count : Nat]]
    BY DEF Init, NothingSeen
  <2>4. longest \in Nat
    BY SMT DEF Init
  <2>5. lapsed \in BOOLEAN
    BY Zenon DEF Init
  <2>6. calls \in 0..MaxCalls
    <3>1. calls = 0 /\ MaxCalls \in Nat
      BY StoreAssumption DEF Init
    <3> QED BY <3>1, SMT
  <2> QED BY <2>1, <2>2, <2>3, <2>4, <2>5, <2>6 DEF TypeOK
<1>3. Pending = {}
  BY DEF Init, Pending
<1>4. IsFiniteSet(DOMAIN mem) /\ IsFiniteSet(Pending) /\ Cardinality(Pending) = 0
  BY <1>1, <1>3, FS_EmptySet
<1>5. \A t \in Thread : Shaped(t)
  BY <1>1 DEF Init, Shaped
<1>6. Value("count") = 0 /\ Value("sum") = 0 /\ longest = 0
  BY <1>1 DEF Init, Value
<1>7. Balance
  <2>1. Value("count") = 0 + Cardinality(Pending) /\ Value("sum") <= longest * 0
    BY <1>4, <1>6
  <2> QED BY <2>1 DEF Balance
<1>8. Readings /\ AverageHonest
  BY <1>6 DEF Init, Readings, AverageHonest, NothingSeen
<1> QED BY <1>2, <1>4, <1>5, <1>7, <1>8 DEF IInv

LEMMA NextStep == IInv /\ [Next]_vars => IInv'
<1> SUFFICES ASSUME IInv, [Next]_vars PROVE IInv'
  OBVIOUS
<1>1. ASSUME NEW t \in Thread, Begin(t) PROVE IInv'
  BY <1>1, BeginStep
<1>2. ASSUME NEW t \in Thread, Continue(t) PROVE IInv'
  BY <1>2, GetStep, SetStep, AddStep DEF Continue
<1>3. CASE ResetFlag \/ Invalidate
  BY <1>3, DeleteStep DEF ResetFlag, Invalidate, Item
<1>4. CASE Tick
  BY <1>4, TickStep
<1>5. CASE Restart
  BY <1>5, RestartStep
<1>6. CASE UNCHANGED vars
  BY <1>6 DEF vars, IInv, TypeOK, EntryTypes, ThreadTypes, Shaped, Pending, Balance,
              Readings, AverageHonest, Value
<1> QED BY <1>1, <1>2, <1>3, <1>4, <1>5, <1>6 DEF Next

THEOREM StoreInvariant == Spec => []IInv
BY InitStep, NextStep, PTL DEF Spec

\* Every variable keeps its type, and no entry outlives its time to live from
\* now, however long its writer waited for the lock.
THEOREM StoreTypes == Spec => []TypeOK
<1>1. IInv => TypeOK
  BY DEF IInv
<1> QED BY <1>1, StoreInvariant, PTL

\* The average that the report shows is never above the longest run, as long as
\* the count of durations was not lost.
THEOREM HonestAverage == Spec => []AverageHonest
<1>1. IInv => AverageHonest
  BY DEF IInv
<1> QED BY <1>1, StoreInvariant, PTL

-----------------------------------------------------------------------------
(* Eviction.                                                               *)

LEMMA SetEvicts ==
  ASSUME IInv, NEW t \in Thread, NEW now, MemSet(t, now),
         NEW k \in DOMAIN mem \ DOMAIN mem', mem[k].until > clock
  PROVE  /\ Cardinality(DOMAIN mem) >= Cap
         /\ \A j \in DOMAIN mem \cap DOMAIN mem' :
              mem[j].until > clock =>
                /\ mem[k].until <= mem[j].until
                /\ mem[k].until <= clock + Lifetime(j)
<1>0. EntryTypes /\ ThreadTypes /\ IsFiniteSet(DOMAIN mem)
  BY DEF IInv, TypeOK
<1>1. now \in Nat /\ clock \in Nat /\ now <= clock
  BY <1>0, ClockOfSection DEF MemSet, SetEvicting
<1>2. k \in Kept(now)
  BY <1>0, <1>1 DEF Kept, EntryTypes
<1>3. PICK kept \in SUBSET Kept(now) :
        /\ mem' = Stored(kept, Head(todo[t]).key, now)
        /\ \/ kept = Kept(now)
           \/ /\ Cardinality(Kept(now)) >= Cap
              /\ \E victim \in Soonest(Kept(now)) : kept = Kept(now) \ {victim}
  BY SetMem
<1>4. kept \subseteq DOMAIN mem'
  BY <1>3 DEF Stored
<1>5. Cardinality(Kept(now)) >= Cap /\ k \in Soonest(Kept(now))
  BY <1>2, <1>3, <1>4
<1>6. Cardinality(DOMAIN mem) >= Cap
  <2>1. Kept(now) \subseteq DOMAIN mem
    BY DEF Kept
  <2>2. /\ Cardinality(Kept(now)) <= Cardinality(DOMAIN mem)
        /\ Cardinality(Kept(now)) \in Nat /\ Cardinality(DOMAIN mem) \in Nat
    BY <1>0, <2>1, FS_Subset, FS_CardinalityType
  <2> QED BY <1>5, <2>2, StoreAssumption
<1>7. ASSUME NEW j \in DOMAIN mem, mem[j].until > clock
      PROVE  mem[k].until <= mem[j].until /\ mem[k].until <= clock + Lifetime(j)
  <2>1. j \in Kept(now) /\ j \in Key
    BY <1>0, <1>1, <1>7 DEF Kept, EntryTypes
  <2>2. mem[k].until <= mem[j].until
    BY <1>5, <2>1 DEF Soonest
  <2>3. /\ mem[j].until <= clock + Lifetime(j) /\ Lifetime(j) \in Nat
        /\ mem[j].until \in Nat /\ mem[k].until \in Nat
    BY <1>0, <2>1, LifetimeIsNat DEF EntryTypes
  <2>4. mem[k].until <= clock + Lifetime(j)
    BY <1>1, <2>2, <2>3
  <2> QED BY <2>2, <2>4
<1> QED BY <1>6, <1>7

\* An entry whose time has not come is lost to a delete, to a restart, or at
\* the cap, and then nothing that stays would have expired before it.
THEOREM SoonestGoesFirst == Spec => EvictsSoonest
<1> DEFINE Lost ==
      \A k \in DOMAIN mem \ DOMAIN mem' :
        mem[k].until > clock =>
          \/ Delete(k) \/ Restart
          \/ /\ Cardinality(DOMAIN mem) >= Cap
             /\ \A j \in DOMAIN mem \cap DOMAIN mem' :
                  mem[j].until > clock =>
                    /\ mem[k].until <= mem[j].until
                    /\ mem[k].until <= clock + Lifetime(j)
<1>1. IInv /\ [Next]_vars => [Lost]_vars
  <2> SUFFICES ASSUME IInv, Next,
                      NEW k \in DOMAIN mem \ DOMAIN mem', mem[k].until > clock
               PROVE  \/ Delete(k) \/ Restart
                      \/ /\ Cardinality(DOMAIN mem) >= Cap
                         /\ \A j \in DOMAIN mem \cap DOMAIN mem' :
                              mem[j].until > clock =>
                                /\ mem[k].until <= mem[j].until
                                /\ mem[k].until <= clock + Lifetime(j)
    BY DEF Lost
  <2>1. ASSUME NEW t \in Thread, Begin(t) PROVE FALSE
    <3>1. mem' = mem
      BY <2>1, BeginIsBeginning DEF Beginning, Call
    <3> QED BY <3>1
  <2>2. ASSUME NEW t \in Thread, NEW now, MemGet(t, now) PROVE FALSE
    <3>1. now \in Nat /\ clock \in Nat /\ now <= clock
      BY <2>2, ClockOfSection DEF MemGet, IInv, TypeOK
    <3>2. k = Head(todo[t]).key /\ ~Live(k, now)
      BY <2>2 DEF MemGet, Without
    <3>3. mem[k].until \in Nat
      BY DEF IInv, TypeOK, EntryTypes
    <3> QED BY <3>1, <3>2, <3>3 DEF Live
  <2>3. ASSUME NEW t \in Thread, NEW now, MemAdd(t, now) PROVE FALSE
    BY <2>3 DEF MemAdd, AddUntil
  <2>4. ASSUME NEW f \in Item, Delete(f) PROVE Delete(k)
    <3>1. k = f
      BY <2>4 DEF Delete, Without
    <3> QED BY <2>4, <3>1
  <2>5. Tick => FALSE
    BY DEF Tick
  <2> QED BY <2>1, <2>2, <2>3, <2>4, <2>5, SetEvicts
          DEF Next, Continue, ResetFlag, Invalidate, Item
<1> QED BY <1>1, StoreInvariant, PTL DEF Spec, EvictsSoonest
=============================================================================
