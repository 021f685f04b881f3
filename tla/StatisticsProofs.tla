-------------------------- MODULE StatisticsProofs --------------------------
(***************************************************************************)
(* Proofs about Statistics, for any servers and series, lengths of hour,   *)
(* windows, retention and grace time, and limit of errors: the type        *)
(* invariant; that the history of a server outlives it by the grace time;  *)
(* that what is left of a removed server is marked; that the sums and the  *)
(* errors the readers show are those of the results recorded.              *)
(***************************************************************************)
EXTENDS Statistics, FiniteSetTheorems, TLAPS

\* A cycle of the synchronization knows the inventory, before and after.
CycleKnowsInventory ==
    /\ sync.pc = "idle" => sync = Idle
    /\ sync # Idle => inventory \subseteq sync.present /\ sync.added \subseteq inventory

\* Where the last removal of a server is recorded, or is about to be, its
\* tombstone is no older, and what is left of the server has one.
RemovalsAreMarked ==
    \A s \in Servers \ inventory :
        \/ s \in missed \union sync.gone
        \/ /\ tomb[s] # Never => left[s] <= tomb[s]
           /\ s \in sync.present => tomb[s] = now
           /\ HasRows(s) => tomb[s] # Never

LeftInThePast == \A s \in Servers : left[s] <= now

\* The hours of the log count no result twice; those within the retention time
\* count all of theirs.
SuccessesIn(x, h) == {r \in log : r.series = x /\ HourOf(r.time) = h /\ r.ok}
FailuresIn(x, h) == {r \in log : r.series = x /\ HourOf(r.time) = h /\ ~r.ok}

CountFits(row, h, ok, bad) ==
    h * Hour >= now - Horizon =>
        /\ row.ok <= ok /\ row.bad <= bad
        /\ h * Hour >= now - Retention => row.ok = ok /\ row.bad = bad

HoursCount ==
    \A x \in Series, h \in Hours :
        CountFits(rows[x][h], h, Cardinality(SuccessesIn(x, h)), Cardinality(FailuresIn(x, h)))

\* The errors within the log are failures, with all the newer ones, and the
\* newest ones within the retention time are there.
FailuresOf(x) == {r.time : r \in {q \in log : q.series = x /\ ~q.ok}}

Keeps(table, failures) ==
    /\ \A u \in table : u >= now - Horizon => u \in failures
    /\ \A u \in table, v \in failures : v > u => v \in table
    /\ PrunedErrors(table) = PrunedErrors(NewestOf(failures))

ErrorsKept == \A x \in Series : Keeps(errors[x], FailuresOf(x))

-----------------------------------------------------------------------------
(* Times and hours. *)

LEMMA Constants ==
    /\ Hour \in Nat \ {0} /\ Retention \in Nat \ {0} /\ Grace \in Nat \ {0}
    /\ MaxErrors \in Nat \ {0} /\ MaxTime \in Nat
  BY TimeAssumption

LEMMA Lengths ==
    /\ Horizon \in Nat /\ Retention <= Horizon
    /\ \A w \in Windows \union {Retention} : w \in Nat /\ w <= Horizon
  BY TimeAssumption

LEMMA Numbers ==
    /\ Times \subseteq Nat /\ Hours \subseteq Nat /\ 0 \in Times
    /\ \A n \in Nat : n # Never
    /\ now \in Times => now \in Nat
  BY Constants DEF Times, Hours, Never

\* An hour of the results begins no later than they come.
LEMMA HourBegins ==
    ASSUME NEW t \in Times
    PROVE  HourOf(t) \in Hours /\ HourOf(t) * Hour \in Int /\ HourOf(t) * Hour <= t
<1> DEFINE n == Hour
<1>1. n \in Nat \ {0} /\ MaxTime \in Nat /\ t \in 0..MaxTime
  BY Constants DEF Times
<1> HIDE DEF n
<1>2. t \div n \in 0..(MaxTime \div n) /\ (t \div n) * n \in Int /\ (t \div n) * n <= t
  BY <1>1
<1> QED
  BY <1>2 DEF HourOf, Hours, n

LEMMA FiniteTimes ==
    ASSUME NEW T \in SUBSET Times
    PROVE  IsFiniteSet(T) /\ Cardinality(T) \in Nat
<1>1. IsFiniteSet(Times)
  BY Constants, FS_Interval DEF Times
<1> QED
  BY <1>1, FS_Subset, FS_CardinalityType

LEMMA LeastOf ==
    ASSUME NEW T \in SUBSET Nat, T # {}
    PROVE  \E m \in T : \A u \in T : m <= u
<1> DEFINE R == OpToRel(<, Nat)
<1>1. \E m \in T : \A u \in T : <<u, m>> \notin R
  BY NatLessThanWellFounded, WFMin
<1>2. \A u, m \in Nat : <<u, m>> \notin R => m <= u
  BY DEF OpToRel
<1> QED
  BY <1>1, <1>2

LEMMA GreatestOf ==
    ASSUME NEW T \in SUBSET Times, T # {}
    PROVE  \E m \in T : \A u \in T : u <= m
<1> DEFINE D == {MaxTime - u : u \in T}
<1>1. \A u \in Times : u \in Nat /\ MaxTime - u \in Nat
  BY Constants DEF Times
<1>2. D \in SUBSET Nat /\ D # {}
  BY <1>1
<1>3. PICK d \in D : \A e \in D : d <= e
  BY <1>2, LeastOf
<1>4. PICK m \in T : d = MaxTime - m
  BY <1>3
<1>5. \A u \in T : MaxTime - m <= MaxTime - u
  BY <1>3, <1>4
<1> QED
  BY <1>1, <1>4, <1>5, Constants

-----------------------------------------------------------------------------
(* The newest errors of a set of times. *)

NewerThan(T, t) == {u \in T : u > t}

LEMMA NewerCount ==
    ASSUME NEW T \in SUBSET Times, NEW t
    PROVE  /\ NewerThan(T, t) \in SUBSET Times
           /\ IsFiniteSet(NewerThan(T, t)) /\ Cardinality(NewerThan(T, t)) \in Nat
<1>1. NewerThan(T, t) \in SUBSET Times
  BY DEF NewerThan
<1> QED
  BY <1>1, FiniteTimes

LEMMA InNewest ==
    ASSUME NEW T \in SUBSET Times, NEW t
    PROVE  t \in NewestOf(T) <=> t \in T /\ Cardinality(NewerThan(T, t)) < MaxErrors
  BY DEF NewestOf, NewerThan

\* What is newer than one of the newest is one of them.
LEMMA NewestAreUpwardClosed ==
    ASSUME NEW T \in SUBSET Times, NEW t \in NewestOf(T), NEW u \in T, u > t
    PROVE  u \in NewestOf(T)
<1>1. t \in Times /\ u \in Times /\ t \in T
  BY InNewest
<1>2. NewerThan(T, u) \subseteq NewerThan(T, t)
  BY <1>1, Numbers DEF NewerThan
<1>3. Cardinality(NewerThan(T, u)) <= Cardinality(NewerThan(T, t))
  BY <1>2, NewerCount, FS_Subset
<1>4. Cardinality(NewerThan(T, t)) < MaxErrors
  BY InNewest
<1>5. Cardinality(NewerThan(T, u)) \in Nat /\ Cardinality(NewerThan(T, t)) \in Nat
  BY NewerCount
<1> QED
  BY <1>3, <1>4, <1>5, Constants, InNewest

\* Cutting off old times and taking the newest commute.
LEMMA NewestSince ==
    ASSUME NEW T \in SUBSET Times, NEW c \in Int
    PROVE  {t \in NewestOf(T) : t >= c} = NewestOf({t \in T : t >= c})
<1> DEFINE S == {t \in T : t >= c}
<1>1. S \in SUBSET Times
  OBVIOUS
<1>2. ASSUME NEW t \in S PROVE NewerThan(S, t) = NewerThan(T, t)
  <2>1. \A u \in T : u > t => u >= c
    BY Numbers
  <2> QED
    BY <2>1 DEF NewerThan
<1>3. \A t : t \in NewestOf(S) <=> t \in S /\ Cardinality(NewerThan(S, t)) < MaxErrors
  BY <1>1, InNewest
<1>4. \A t : t \in NewestOf(T) <=> t \in T /\ Cardinality(NewerThan(T, t)) < MaxErrors
  BY InNewest
<1> HIDE DEF S
<1>5. \A t : t \in S <=> t \in T /\ t >= c
  BY DEF S
<1>6. \A t : t \in NewestOf(S) <=> t \in NewestOf(T) /\ t >= c
  BY <1>2, <1>3, <1>4, <1>5
<1> QED
  BY <1>6 DEF S

\* A table that keeps only the newest forgets nothing that matters later.
LEMMA NewestAfterOneMore ==
    ASSUME NEW T \in SUBSET Times, NEW t \in Times
    PROVE  NewestOf(NewestOf(T) \union {t}) = NewestOf(T \union {t})
<1> DEFINE N == NewestOf(T)
           A == T \union {t}
           B == N \union {t}
<1>1. N \subseteq T /\ A \in SUBSET Times /\ B \in SUBSET Times /\ B \subseteq A
  BY InNewest
<1>2. \A u : u \in NewestOf(A) <=> u \in A /\ Cardinality(NewerThan(A, u)) < MaxErrors
  BY <1>1, InNewest
<1>3. \A u : u \in NewestOf(B) <=> u \in B /\ Cardinality(NewerThan(B, u)) < MaxErrors
  BY <1>1, InNewest
<1>4. ASSUME NEW u \in Times
      PROVE  /\ Cardinality(NewerThan(B, u)) \in Nat /\ Cardinality(NewerThan(A, u)) \in Nat
             /\ Cardinality(NewerThan(T, u)) \in Nat
             /\ Cardinality(NewerThan(B, u)) <= Cardinality(NewerThan(A, u))
             /\ Cardinality(NewerThan(T, u)) <= Cardinality(NewerThan(A, u))
  <2>1. NewerThan(B, u) \subseteq NewerThan(A, u) /\ NewerThan(T, u) \subseteq NewerThan(A, u)
    BY <1>1 DEF NewerThan
  <2> HIDE DEF A, B
  <2> QED
    BY <1>1, <2>1, NewerCount, FS_Subset
<1>5. ASSUME NEW u \in NewestOf(A) PROVE u \in NewestOf(B)
  <2>1. u \in A /\ u \in Times /\ Cardinality(NewerThan(A, u)) < MaxErrors
    BY <1>1, <1>2
  <2>2. u \in B
    <3>1. Cardinality(NewerThan(T, u)) < MaxErrors
      BY <1>4, <2>1, Constants
    <3> QED
      BY <2>1, <3>1, InNewest
  <2>3. Cardinality(NewerThan(B, u)) < MaxErrors
    BY <1>4, <2>1, Constants
  <2> QED
    BY <1>3, <2>2, <2>3
<1>6. ASSUME NEW u \in NewestOf(B) PROVE u \in NewestOf(A)
  <2>1. u \in B /\ u \in A /\ u \in Times /\ Cardinality(NewerThan(B, u)) < MaxErrors
    BY <1>1, <1>3
  <2>2. \A v \in T : v > u => v \in N
    <3> SUFFICES ASSUME NEW w \in T, w > u, w \notin N PROVE FALSE
      OBVIOUS
    <3> DEFINE Missing == {v \in T : v > u /\ v \notin N}
    <3>1. Missing \in SUBSET Times /\ Missing # {}
      OBVIOUS
    <3>2. PICK m \in Missing : \A v \in Missing : v <= m
      BY <3>1, GreatestOf
    <3>3. m \in T /\ m \in Times /\ m > u /\ m \notin N
      BY <3>2
    <3>4. NewerThan(T, m) \subseteq NewerThan(B, u)
      <4> SUFFICES ASSUME NEW v \in T, v > m PROVE v \in N /\ v > u
        BY DEF NewerThan
      <4>1. v > u
        BY <2>1, <3>3, Numbers
      <4>2. ~(v <= m)
        BY <3>3, Numbers
      <4> QED
        BY <3>2, <4>1, <4>2
    <3>5. Cardinality(NewerThan(T, m)) <= Cardinality(NewerThan(B, u))
      <4> HIDE DEF B
      <4> QED
        BY <1>1, <3>4, NewerCount, FS_Subset
    <3>6. Cardinality(NewerThan(T, m)) < MaxErrors
      BY <1>4, <2>1, <3>3, <3>5, Constants
    <3> QED
      BY <3>3, <3>6, InNewest
  <2>3. NewerThan(A, u) = NewerThan(B, u)
    BY <1>1, <2>2 DEF NewerThan
  <2> QED
    BY <1>2, <2>1, <2>3
<1> QED
  BY <1>5, <1>6

LEMMA NewestAreFew ==
    ASSUME NEW T \in SUBSET Times
    PROVE  NewestOf(T) \in SUBSET Times /\ Cardinality(NewestOf(T)) <= MaxErrors
<1> DEFINE N == NewestOf(T)
<1>1. N \subseteq T /\ N \in SUBSET Times
  BY InNewest
<1>2. CASE N = {}
  BY <1>1, <1>2, FS_EmptySet, Constants
<1>3. CASE N # {}
  <2>1. PICK m \in N : \A u \in N : m <= u
    BY <1>1, <1>3, Numbers, LeastOf
  <2>2. m \in Times /\ Cardinality(NewerThan(T, m)) < MaxErrors /\ Cardinality(NewerThan(T, m)) \in Nat
    BY <1>1, InNewest, NewerCount
  <2>3. N \ {m} \subseteq NewerThan(T, m)
    <3> SUFFICES ASSUME NEW u \in N, u # m PROVE u \in T /\ u > m
      BY DEF NewerThan
    <3> QED
      BY <1>1, <2>1, <2>2, Numbers
  <2>4. Cardinality(N \ {m}) <= Cardinality(NewerThan(T, m))
    BY <2>3, NewerCount, FS_Subset
  <2>5. Cardinality(N \ {m}) = Cardinality(N) - 1 /\ Cardinality(N) \in Nat
    BY <1>1, FiniteTimes, FS_RemoveElement
  <2> QED
    BY <1>1, <2>2, <2>4, <2>5, Constants
<1> QED
  BY <1>2, <1>3
-----------------------------------------------------------------------------
(* What one result does to the tables. *)

Row == [Hours -> [ok: Nat, bad: Nat]]

LEMMA ResultTypes ==
    ASSUME NEW r \in Results
    PROVE  /\ r.series \in Series /\ r.time \in Times /\ r.ok \in BOOLEAN
           /\ r.series[1] \in Servers /\ r.series[2] \in Kinds
  BY SeriesAssumption DEF Results

LEMMA EmptyRow == [h \in Hours |-> NoCount] \in Row /\ \A table \in Row : Pruned(table) \in Row
  BY DEF Row, NoCount, Pruned

LEMMA CountedOnce ==
    ASSUME NEW row \in Row, NEW r \in Results
    PROVE  /\ Counted(row, r) \in Row
           /\ \A h \in Hours :
                 /\ Counted(row, r)[h].ok =
                       row[h].ok + IF h = HourOf(r.time) /\ r.ok THEN 1 ELSE 0
                 /\ Counted(row, r)[h].bad =
                       row[h].bad + IF h = HourOf(r.time) /\ ~r.ok THEN 1 ELSE 0
<1> DEFINE h0 == HourOf(r.time)
<1>1. h0 \in Hours /\ r.ok \in BOOLEAN
  BY ResultTypes, HourBegins
<1>2. \A h \in Hours : row[h].ok \in Nat /\ row[h].bad \in Nat
  BY DEF Row
<1> HIDE DEF h0
<1>3. CASE r.ok
  <2>1. Counted(row, r) = [row EXCEPT ![h0].ok = row[h0].ok + 1]
    BY <1>3 DEF Counted, h0
  <2> QED
    BY <1>1, <1>2, <1>3, <2>1 DEF Row, h0
<1>4. CASE ~r.ok
  <2>1. Counted(row, r) = [row EXCEPT ![h0].bad = row[h0].bad + 1]
    BY <1>4 DEF Counted, h0
  <2> QED
    BY <1>1, <1>2, <1>4, <2>1 DEF Row, h0
<1> QED
  BY <1>3, <1>4

LEMMA NotedIsShort ==
    ASSUME NEW times \in SUBSET Times, Cardinality(times) <= MaxErrors, NEW r \in Results
    PROVE  Noted(times, r) \in SUBSET Times /\ Cardinality(Noted(times, r)) <= MaxErrors
<1>1. times \union {r.time} \in SUBSET Times
  BY ResultTypes
<1> QED
  BY <1>1, NewestAreFew DEF Noted

LEMMA PrunedIsShort ==
    ASSUME NEW times \in SUBSET Times, Cardinality(times) <= MaxErrors
    PROVE  PrunedErrors(times) \in SUBSET Times /\ Cardinality(PrunedErrors(times)) <= MaxErrors
<1>1. PrunedErrors(times) \subseteq times
  BY DEF PrunedErrors
<1>2. Cardinality(PrunedErrors(times)) <= Cardinality(times)
  BY <1>1, FiniteTimes, FS_Subset
<1>3. Cardinality(PrunedErrors(times)) \in Nat /\ Cardinality(times) \in Nat
  BY <1>1, FiniteTimes
<1> QED
  BY <1>1, <1>2, <1>3, Constants

\* The tables of a series after r: with r if they are its own, and pruned or not.
CountedIn(x, r) == IF x = r.series THEN Counted(rows[x], r) ELSE rows[x]
NotedIn(x, r) == IF x = r.series THEN Noted(errors[x], r) ELSE errors[x]

LEMMA WrittenTables ==
    ASSUME TypeOK, NEW r \in Results, Written(r)
    PROVE  /\ gate' \in [Kinds \union {"purge"} -> Times \union {Opened}]
           /\ DOMAIN rows' = Series /\ rows' = [x \in Series |-> rows'[x]]
           /\ DOMAIN errors' = Series /\ errors' = [x \in Series |-> errors'[x]]
           /\ \A x \in Series : rows'[x] \in {CountedIn(x, r), Pruned(CountedIn(x, r))}
           /\ \A x \in Series : errors'[x] \in {NotedIn(x, r), PrunedErrors(NotedIn(x, r))}
<1> DEFINE kind == r.series[2]
           counted == [rows EXCEPT ![r.series] = Counted(@, r)]
           noted == [errors EXCEPT ![r.series] = Noted(@, r)]
<1>1. r.series \in Series /\ kind \in Kinds /\ now \in Times
  BY ResultTypes DEF TypeOK
<1>2. /\ rows = [x \in Series |-> rows[x]] /\ DOMAIN rows = Series
      /\ errors = [x \in Series |-> errors[x]] /\ DOMAIN errors = Series
      /\ gate \in [Kinds \union {"purge"} -> Times \union {Opened}]
  BY DEF TypeOK
<1>3. /\ counted = [x \in Series |-> CountedIn(x, r)]
      /\ noted = [x \in Series |-> NotedIn(x, r)]
  BY <1>1, <1>2 DEF CountedIn, NotedIn
<1>4. CASE IsPruneDue(kind)
  <2>1. /\ rows' = [x \in Series |-> IF x[2] = kind THEN Pruned(counted[x]) ELSE counted[x]]
        /\ errors' = [x \in Series |-> IF x[2] = kind THEN PrunedErrors(noted[x]) ELSE noted[x]]
        /\ gate' = [gate EXCEPT ![kind] = now]
    BY <1>4 DEF Written
  <2>2. gate' \in [Kinds \union {"purge"} -> Times \union {Opened}]
    BY <1>1, <1>2, <2>1
  <2> HIDE DEF counted, noted, kind
  <2> QED
    BY <1>3, <2>1, <2>2
<1>5. CASE ~IsPruneDue(kind)
  <2>1. rows' = counted /\ errors' = noted /\ gate' = gate
    BY <1>5 DEF Written
  <2> HIDE DEF counted, noted
  <2> QED
    BY <1>2, <1>3, <2>1
<1> QED
  BY <1>4, <1>5

LEMMA WrittenTypes ==
    ASSUME TypeOK, NEW r \in Results, Written(r)
    PROVE  /\ rows' \in [Series -> Row]
           /\ errors' \in [Series -> SUBSET Times]
           /\ \A x \in Series : Cardinality(errors'[x]) <= MaxErrors
<1>1. ASSUME NEW x \in Series PROVE rows'[x] \in Row
  <2>1. rows[x] \in Row
    BY DEF TypeOK, Row
  <2>2. CountedIn(x, r) \in Row
    BY <2>1, CountedOnce DEF CountedIn
  <2> QED
    BY <2>2, EmptyRow, WrittenTables
<1>2. ASSUME NEW x \in Series
      PROVE  errors'[x] \in SUBSET Times /\ Cardinality(errors'[x]) <= MaxErrors
  <2>1. errors[x] \in SUBSET Times /\ Cardinality(errors[x]) <= MaxErrors
    BY DEF TypeOK
  <2>2. NotedIn(x, r) \in SUBSET Times /\ Cardinality(NotedIn(x, r)) <= MaxErrors
    BY <2>1, NotedIsShort DEF NotedIn
  <2> QED
    BY <2>2, PrunedIsShort, WrittenTables
<1> QED
  BY <1>1, <1>2, WrittenTables

-----------------------------------------------------------------------------
(* The types. *)

LEMMA EmptyTables ==
    /\ [x \in Series |-> [h \in Hours |-> NoCount]] \in [Series -> Row]
    /\ [x \in Series |-> {}] \in [Series -> SUBSET Times]
    /\ Cardinality({}) <= MaxErrors
    /\ [ping |-> Opened, check |-> Opened, purge |-> Opened] \in
           [Kinds \union {"purge"} -> Times \union {Opened}]
    /\ [s \in Servers |-> Never] \in [Servers -> Times \union {Never}]
    /\ Idle \in [pc: {"idle", "unmarking", "marking"}, added: SUBSET Servers,
                 gone: SUBSET Servers, present: SUBSET Servers]
<1>1. [ping |-> Opened, check |-> Opened, purge |-> Opened] \in
           [Kinds \union {"purge"} -> Times \union {Opened}]
  BY DEF Kinds
<1> QED
  BY <1>1, EmptyRow, FS_EmptySet, Constants DEF Idle

LEMMA TypeInductive == ASSUME TypeOK, [Next]_vars PROVE TypeOK'
<1> USE DEF TypeOK, Row
<1>1. CASE Tick
  BY <1>1, Constants DEF Tick, Times
<1>2. ASSUME NEW r \in Results, Record(r) PROVE TypeOK'
  <2>1. ssl' \in SUBSET Servers /\ log' \in SUBSET Results
    BY <1>2, ResultTypes DEF Record, WithCertificate
  <2> QED
    BY <1>2, <2>1, WrittenTables, WrittenTypes DEF Record
<1>3. ASSUME NEW kind \in Kinds, RecordFails(kind) PROVE TypeOK'
  BY <1>3 DEF RecordFails
<1>4. ASSUME NEW s \in Servers, DeleteCheckState(s) PROVE TypeOK'
  <2>1. rows' \in [Series -> Row]
    BY <1>4, EmptyRow DEF DeleteCheckState
  <2>2. errors' \in [Series -> SUBSET Times] /\ \A x \in Series : Cardinality(errors'[x]) <= MaxErrors
    BY <1>4, EmptyTables DEF DeleteCheckState
  <2> QED
    BY <1>4, <2>1, <2>2 DEF DeleteCheckState
<1>5. ASSUME NEW new \in SUBSET Servers, Save(new) PROVE TypeOK'
  BY <1>5 DEF Save
<1>6. ASSUME NEW found \in SUBSET Servers, Restart(found) PROVE TypeOK'
  BY <1>6, EmptyTables DEF Restart
<1>7. ASSUME NEW ok \in BOOLEAN, Unmark(ok) PROVE TypeOK'
  <2>1. tomb' \in [Servers -> Times \union {Never}]
    BY <1>7 DEF Unmark
  <2> QED
    BY <1>7, <2>1 DEF Unmark
<1>8. ASSUME NEW ok \in BOOLEAN, NEW s \in Servers, Mark(s, ok) PROVE TypeOK'
  <2>1. tomb' \in [Servers -> Times \union {Never}]
    BY <1>8 DEF Mark, Marked
  <2> QED
    BY <1>8, <2>1 DEF Mark
<1>9. CASE Purge
  <2>1. rows' \in [Series -> Row]
    BY <1>9, EmptyRow DEF Purge, DeleteServerRows
  <2>2. errors' \in [Series -> SUBSET Times] /\ \A x \in Series : Cardinality(errors'[x]) <= MaxErrors
    BY <1>9, EmptyTables DEF Purge, DeleteServerRows
  <2>3. tomb' \in [Servers -> Times \union {Never}] /\ sync' = Idle
    BY <1>9 DEF Purge
  <2>4. ssl' \in SUBSET Servers /\ log' \in SUBSET Results /\ gate' = [gate EXCEPT !.purge = now]
    BY <1>9 DEF Purge, DeleteServerRows
  <2> QED
    BY <1>9, <2>1, <2>2, <2>3, <2>4, EmptyTables DEF Purge
<1>10. CASE SkipPurge
  BY <1>10, EmptyTables DEF SkipPurge
<1>11. CASE Rebuild
  BY <1>11, EmptyTables DEF Rebuild
<1>12. CASE UNCHANGED vars
  BY <1>12 DEF vars
<1> QED
  BY <1>1, <1>2, <1>3, <1>4, <1>5, <1>6, <1>7, <1>8, <1>9, <1>10, <1>11, <1>12 DEF Next
-----------------------------------------------------------------------------
(* The removals. *)

\* A step adds rows only to the servers that may still be recorded.
LEMMA RowsOfKnownServers ==
    ASSUME TypeOK, [Next]_vars, NEW s \in Servers, s \notin inventory \union sync.gone, HasRows(s)'
    PROVE  HasRows(s)
<1> USE DEF HasRows
<1>1. ASSUME NEW r \in Results, Record(r) PROVE HasRows(s)
  <2>1. r.series[1] # s /\ Written(r) /\ ssl' = WithCertificate(r)
    BY <1>1 DEF Record
  <2>2. CASE s \in ssl'
    BY <2>1, <2>2 DEF WithCertificate
  <2>3. ASSUME NEW x \in Series, x[1] = s, errors'[x] # {} \/ \E h \in Hours : rows'[x][h] # NoCount
        PROVE  HasRows(s)
    <3>1. x # r.series
      BY <2>1, <2>3
    <3>2. /\ rows'[x] \in {rows[x], Pruned(rows[x])}
          /\ errors'[x] \in {errors[x], PrunedErrors(errors[x])}
      BY <2>1, <3>1, WrittenTables DEF CountedIn, NotedIn
    <3>3. errors'[x] # {} => errors[x] # {}
      BY <3>2 DEF PrunedErrors
    <3>4. \A h \in Hours : rows'[x][h] # NoCount => rows[x][h] # NoCount
      BY <3>2 DEF Pruned
    <3> QED
      BY <2>3, <3>3, <3>4
  <2> QED
    BY <2>2, <2>3
<1>2. ASSUME NEW t \in Servers, DeleteCheckState(t) PROVE HasRows(s)
  <2>1. ssl' \subseteq ssl
    BY <1>2 DEF DeleteCheckState
  <2>2. \A x \in Series : errors'[x] \in {errors[x], {}}
    BY <1>2 DEF DeleteCheckState, TypeOK
  <2>3. \A x \in Series, h \in Hours : rows'[x][h] \in {rows[x][h], NoCount}
    BY <1>2 DEF DeleteCheckState, TypeOK
  <2> QED
    BY <2>1, <2>2, <2>3
<1>3. CASE Purge
  <2>1. ssl' \subseteq ssl
    BY <1>3 DEF Purge, DeleteServerRows
  <2>2. \A x \in Series : errors'[x] \in {errors[x], {}}
    BY <1>3 DEF Purge, DeleteServerRows
  <2>3. \A x \in Series, h \in Hours : rows'[x][h] \in {rows[x][h], NoCount}
    BY <1>3 DEF Purge, DeleteServerRows
  <2> QED
    BY <2>1, <2>2, <2>3
<1>4. CASE Rebuild
  BY <1>4 DEF Rebuild
<1>5. ASSUME UNCHANGED <<rows, errors, ssl>> PROVE HasRows(s)
  BY <1>5
<1> QED
  BY <1>1, <1>2, <1>3, <1>4, <1>5
     DEF Next, Tick, RecordFails, Save, Restart, Unmark, Mark, SkipPurge, vars

RemovalInv == CycleKnowsInventory /\ RemovalsAreMarked /\ LeftInThePast

\* What RemovalsAreMarked says of a server.
IsMarked(s) ==
    \/ s \in missed \union sync.gone
    \/ /\ tomb[s] # Never => left[s] <= tomb[s]
       /\ s \in sync.present => tomb[s] = now
       /\ HasRows(s) => tomb[s] # Never

LEMMA RemovalsInductive == ASSUME TypeOK, RemovalInv, [Next]_vars PROVE RemovalInv'
<1>1. CycleKnowsInventory'
  <2> USE DEF RemovalInv, CycleKnowsInventory, Idle
  <2>1. ASSUME NEW new \in SUBSET Servers, Save(new) PROVE CycleKnowsInventory'
    BY <2>1 DEF Save
  <2>2. ASSUME NEW ok \in BOOLEAN, Unmark(ok) PROVE CycleKnowsInventory'
    BY <2>2 DEF Unmark, TypeOK
  <2>3. ASSUME NEW ok \in BOOLEAN, NEW s \in Servers, Mark(s, ok) PROVE CycleKnowsInventory'
    BY <2>3 DEF Mark, TypeOK
  <2>4. ASSUME NEW found \in SUBSET Servers, Restart(found) PROVE CycleKnowsInventory'
    BY <2>4 DEF Restart
  <2>5. CASE Purge \/ SkipPurge \/ Rebuild
    BY <2>5 DEF Purge, SkipPurge, Rebuild
  <2>6. ASSUME UNCHANGED <<sync, inventory>> PROVE CycleKnowsInventory'
    BY <2>6
  <2> QED
    BY <2>1, <2>2, <2>3, <2>4, <2>5, <2>6
       DEF Next, Tick, Record, RecordFails, DeleteCheckState, vars
<1>2. LeftInThePast'
  <2> USE DEF RemovalInv, LeftInThePast
  <2>0. now \in Nat /\ \A s \in Servers : left[s] \in Int
    <3>1. now \in Times /\ left \in [Servers -> Times \union {Never}]
      BY DEF TypeOK
    <3>2. Times \union {Never} \subseteq Int
      BY Numbers DEF Never
    <3> QED
      BY <3>1, <3>2, Numbers
  <2>1. CASE Tick
    BY <2>0, <2>1 DEF Tick
  <2>2. ASSUME NEW new \in SUBSET Servers, Save(new) PROVE LeftInThePast'
    BY <2>0, <2>2 DEF Save
  <2>3. ASSUME UNCHANGED <<now, left>> PROVE LeftInThePast'
    BY <2>3
  <2> QED
    BY <2>1, <2>2, <2>3
       DEF Next, Record, RecordFails, DeleteCheckState, Unmark, Mark, Purge, SkipPurge, Restart,
           Rebuild, vars
<1>3. RemovalsAreMarked'
  <2> SUFFICES ASSUME NEW s \in Servers, s \notin inventory' PROVE IsMarked(s)'
    BY DEF RemovalsAreMarked, IsMarked
  <2>0. /\ s \notin inventory => IsMarked(s)
        /\ s \notin inventory /\ s \notin sync.gone /\ HasRows(s)' => HasRows(s)
        /\ now \in Nat /\ now # Never /\ tomb[s] \in Times \union {Never} /\ left[s] <= now
        /\ sync.added \subseteq inventory
    BY RowsOfKnownServers, Numbers
       DEF RemovalInv, RemovalsAreMarked, IsMarked, LeftInThePast, CycleKnowsInventory, TypeOK, Idle
  <2> USE DEF IsMarked, Idle
  <2>1. CASE Tick
    BY <2>0, <2>1 DEF Tick
  <2>2. ASSUME NEW new \in SUBSET Servers, Save(new) PROVE IsMarked(s)'
    BY <2>0, <2>2 DEF Save
  <2>3. ASSUME NEW ok \in BOOLEAN, Unmark(ok) PROVE IsMarked(s)'
    <3>1. tomb'[s] = tomb[s] /\ sync'.gone = sync.gone /\ sync'.present = sync.present
      BY <2>0, <2>3 DEF Unmark, TypeOK
    <3> QED
      BY <2>0, <2>3, <3>1 DEF Unmark
  <2>4. ASSUME NEW ok \in BOOLEAN, NEW t \in Servers, Mark(t, ok) PROVE IsMarked(s)'
    <3>1. sync'.gone = sync.gone \ {t} /\ sync'.present = sync.present /\ inventory' = inventory
      BY <2>4 DEF Mark, TypeOK
    <3>2. CASE s # t
      <4>1. tomb'[s] = tomb[s] /\ missed \subseteq missed' /\ now' = now /\ left' = left
        BY <2>4, <3>2 DEF Mark, Marked, TypeOK
      <4> QED
        BY <2>0, <3>1, <3>2, <4>1
    <3>3. CASE s = t /\ ok
      <4>1. tomb'[s] = now /\ now' = now /\ left' = left
        BY <2>4, <3>3 DEF Mark, Marked, TypeOK
      <4> QED
        BY <2>0, <4>1
    <3>4. CASE s = t /\ ~ok
      BY <2>4, <3>4 DEF Mark
    <3> QED
      BY <3>2, <3>3, <3>4
  <2>5. CASE Purge
    <3>1. s \notin inventory /\ sync.gone = {} /\ UNCHANGED <<now, left, missed>> /\ sync' = Idle
      BY <2>5 DEF Purge
    <3>2. CASE s \in missed
      BY <3>1, <3>2
    <3>3. CASE s \notin missed
      <4>1. CASE s \in Expired
        <5>1. tomb[s] # Never /\ tomb[s] < now - Grace /\ tomb'[s] = Never
          BY <2>5, <4>1 DEF Purge, Expired
        <5>2. s \notin sync.present
          BY <2>0, <3>1, <3>3, <5>1, Constants
        <5>3. ~HasRows(s)'
          BY <2>5, <4>1, <5>2, SeriesAssumption DEF Purge, Purged, DeleteServerRows, HasRows
        <5> QED
          BY <3>1, <5>1, <5>3
      <4>2. CASE s \notin Expired
        <5>1. tomb'[s] = tomb[s]
          BY <2>5, <4>2 DEF Purge
        <5> QED
          BY <2>0, <3>1, <5>1
      <4> QED
        BY <4>1, <4>2
    <3> QED
      BY <3>2, <3>3
  <2>6. CASE SkipPurge
    BY <2>0, <2>6 DEF SkipPurge
  <2>7. ASSUME NEW found \in SUBSET Servers, Restart(found) PROVE IsMarked(s)'
    BY <2>0, <2>7 DEF Restart
  <2>8. CASE Rebuild
    <3>1. ~HasRows(s)' /\ tomb'[s] = Never /\ sync' = Idle
      BY <2>8 DEF Rebuild, HasRows
    <3> QED
      BY <3>1
  <2>9. ASSUME UNCHANGED <<now, tomb, inventory, sync, left, missed>> PROVE IsMarked(s)'
    BY <2>0, <2>9
  <2> QED
    BY <2>1, <2>2, <2>3, <2>4, <2>5, <2>6, <2>7, <2>8, <2>9
       DEF Next, Record, RecordFails, DeleteCheckState, vars
<1> QED
  BY <1>1, <1>2, <1>3 DEF RemovalInv

LEMMA RemovalsHold == Spec => [](TypeOK /\ RemovalInv)
<1>1. Init => TypeOK /\ RemovalInv
  <2> SUFFICES ASSUME Init PROVE TypeOK /\ RemovalInv
    OBVIOUS
  <2>1. TypeOK
    BY EmptyTables, FS_EmptySet, Numbers DEF Init, TypeOK, Row
  <2>2. RemovalInv
    BY Numbers DEF Init, RemovalInv, CycleKnowsInventory, RemovalsAreMarked, LeftInThePast, Never
  <2> QED
    BY <2>1, <2>2
<1>2. TypeOK /\ RemovalInv /\ [Next]_vars => (TypeOK /\ RemovalInv)'
  BY TypeInductive, RemovalsInductive
<1> QED
  BY <1>1, <1>2, PTL DEF Spec

\* The tables keep their types, and no series more errors than MaxErrors.
THEOREM StatisticsTypeCorrect == Spec => []TypeOK
  BY RemovalsHold, PTL

\* What is left of a removed server has a tombstone, for any servers and times.
THEOREM RemovedAreMarked == Spec => []GoneIsMarked
<1>1. TypeOK /\ RemovalInv => GoneIsMarked
  BY DEF RemovalInv, RemovalsAreMarked, GoneIsMarked, Idle
<1> QED
  BY <1>1, RemovalsHold, PTL

\* A purge takes only the history of servers that have been gone for Grace, or
\* whose removal could not be marked.
THEOREM HistoryIsKept == Spec => HistoryKept
<1>1. /\ TypeOK /\ RemovalInv /\ [Next]_vars
      => [Purge => \A r \in log \ log' :
              LET s == r.series[1]
              IN  s \notin inventory /\ (s \in missed \/ now - left[s] > Grace)]_vars
  <2> SUFFICES ASSUME TypeOK, RemovalInv, Purge, NEW r \in log, r \notin log'
               PROVE  /\ r.series[1] \notin inventory
                      /\ r.series[1] \in missed \/ now - left[r.series[1]] > Grace
    OBVIOUS
  <2> DEFINE s == r.series[1]
  <2>1. s \in Expired /\ s \notin sync.present /\ sync.gone = {} /\ sync # Idle
    BY DEF Purge, DeleteServerRows, Purged, Idle
  <2>2. s \in Servers /\ tomb[s] # Never /\ tomb[s] < now - Grace
    BY <2>1 DEF Expired
  <2>3. s \notin inventory
    BY <2>1 DEF RemovalInv, CycleKnowsInventory
  <2>4. s \in missed \/ left[s] <= tomb[s]
    BY <2>1, <2>2, <2>3 DEF RemovalInv, RemovalsAreMarked
  <2>5. now \in Int /\ left[s] \in Int /\ tomb[s] \in Int /\ Grace \in Int
    <3>1. now \in Times /\ left[s] \in Times \union {Never} /\ tomb[s] \in Times \union {Never}
      BY <2>2 DEF TypeOK
    <3>2. \A v \in Times \union {Never} : v \in Int
      BY Constants DEF Times, Never
    <3>3. now \in Int /\ Grace \in Int
      BY <3>1, <3>2, Constants
    <3> QED
      BY <3>1, <3>2, <3>3
  <2> QED
    BY <2>2, <2>3, <2>4, <2>5
<1> QED
  BY <1>1, RemovalsHold, PTL DEF Spec, HistoryKept
-----------------------------------------------------------------------------
(* The counts and the errors. *)

CountsInv == HoursCount /\ ErrorsKept

\* One result per tick and series: those of a series are finitely many.
LEMMA FiniteResults ==
    ASSUME NEW S \in SUBSET Results, NEW x,
           \/ \A r \in S : r.series = x /\ r.ok
           \/ \A r \in S : r.series = x /\ ~r.ok
    PROVE  IsFiniteSet(S) /\ Cardinality(S) \in Nat
<1> DEFINE f == [r \in S |-> r.time]
<1>1. \A q, r \in S : q.time = r.time => q = r
  <2> SUFFICES ASSUME NEW q \in S, NEW r \in S, q.time = r.time PROVE q = r
    OBVIOUS
  <2>1. q \in Results /\ r \in Results /\ q.series = r.series
    OBVIOUS
  <2>2. q.ok \in BOOLEAN /\ r.ok \in BOOLEAN /\ (q.ok <=> r.ok)
    BY ResultTypes
  <2>3. q.ok = r.ok
    BY <2>2
  <2> QED
    BY <2>1, <2>3 DEF Results
<1>2. f \in Injection(S, Times)
  BY <1>1, ResultTypes DEF Injection, IsInjective
<1>3. IsFiniteSet(Times)
  BY FiniteTimes
<1> QED
  BY <1>2, <1>3, FS_Injection, FS_CardinalityType

LEMMA HourSetsAreFinite ==
    ASSUME TypeOK, NEW x, NEW h
    PROVE  /\ IsFiniteSet(SuccessesIn(x, h)) /\ Cardinality(SuccessesIn(x, h)) \in Nat
           /\ IsFiniteSet(FailuresIn(x, h)) /\ Cardinality(FailuresIn(x, h)) \in Nat
<1>1. SuccessesIn(x, h) \in SUBSET Results /\ FailuresIn(x, h) \in SUBSET Results
  BY DEF TypeOK, SuccessesIn, FailuresIn
<1>2. \A r \in SuccessesIn(x, h) : r.series = x /\ r.ok
  BY DEF SuccessesIn
<1>3. \A r \in FailuresIn(x, h) : r.series = x /\ ~r.ok
  BY DEF FailuresIn
<1> QED
  BY <1>1, <1>2, <1>3, FiniteResults

LEMMA FailureTimes ==
    ASSUME TypeOK, NEW x
    PROVE  FailuresOf(x) \in SUBSET Times
  BY ResultTypes DEF TypeOK, FailuresOf

\* What a prune or a deletion takes from the rows and the errors is no harm.
LEMMA EmptyFits ==
    ASSUME NEW h, NEW ok \in Nat, NEW bad \in Nat,
           h * Hour >= now - Retention => ok = 0 /\ bad = 0
    PROVE  CountFits(NoCount, h, ok, bad)
  BY DEF CountFits, NoCount

LEMMA NothingKept == Keeps({}, {})
  BY DEF Keeps, PrunedErrors, NewestOf

LEMMA PrunedKeeps ==
    ASSUME now \in Int, NEW E \in SUBSET Times, NEW F \in SUBSET Times, Keeps(E, F)
    PROVE  Keeps(PrunedErrors(E), F)
<1> DEFINE c == now - Retention
           P == PrunedErrors(E)
<1>1. c \in Int /\ \A t \in Times : t \in Int
  BY Constants, Numbers
<1>2. \A u : u \in P <=> u \in E /\ u >= c
  BY DEF PrunedErrors
<1> HIDE DEF c, P
<1>3. \A u \in P, v \in F : v > u => v \in P
  <2> SUFFICES ASSUME NEW u \in P, NEW v \in F, v > u PROVE v \in P
    OBVIOUS
  <2>1. v \in E
    BY <1>2 DEF Keeps
  <2>2. v >= c
    <3>1. u \in Int /\ v \in Int /\ u >= c
      BY <1>1, <1>2
    <3> QED
      BY <1>1, <3>1
  <2> QED
    BY <1>2, <2>1, <2>2
<1>4. PrunedErrors(P) = PrunedErrors(E)
  BY <1>2 DEF PrunedErrors, c
<1>5. \A u \in P : u >= now - Horizon => u \in F
  BY <1>2 DEF Keeps
<1> QED
  BY <1>3, <1>4, <1>5 DEF Keeps, P

\* One more failure at t, no older than the retention time.
LEMMA OneMoreKept ==
    ASSUME now \in Int, NEW E \in SUBSET Times, NEW F \in SUBSET Times, Keeps(E, F),
           NEW t \in Times, t >= now - Retention
    PROVE  Keeps(NewestOf(E \union {t}), F \union {t})
<1> DEFINE c == now - Retention
           N == NewestOf(E \union {t})
           G == F \union {t}
           Since(T) == {u \in T : u >= c}
<1>1. /\ c \in Int /\ t >= c /\ E \union {t} \in SUBSET Times /\ G \in SUBSET Times
      /\ \A u \in Times : u \in Int
  BY Constants, Numbers
<1>2. \A T : PrunedErrors(T) = Since(T)
  BY DEF PrunedErrors
<1>3. N \subseteq E \union {t} /\ NewestOf(G) \subseteq G
  BY DEF NewestOf
<1>4. Since(N) = Since(NewestOf(G))
  <2>1. Since(E \union {t}) = Since(E) \union {t} /\ Since(G) = Since(F) \union {t}
    BY <1>1
  <2>2. \A T \in SUBSET Times : Since(NewestOf(T)) = NewestOf(Since(T))
    <3> SUFFICES ASSUME NEW T \in SUBSET Times PROVE Since(NewestOf(T)) = NewestOf(Since(T))
      OBVIOUS
    <3> HIDE DEF c, N, G
    <3> QED
      BY <1>1, NewestSince
  <2>3. Since(E) = NewestOf(Since(F)) /\ Since(F) \in SUBSET Times
    <3>1. Since(E) = Since(NewestOf(F))
      BY <1>2 DEF Keeps
    <3> HIDE DEF c, N, G
    <3> QED
      BY <2>2, <3>1
  <2>4. NewestOf(NewestOf(Since(F)) \union {t}) = NewestOf(Since(F) \union {t})
    <3> HIDE DEF Since
    <3> QED
      BY <2>3, NewestAfterOneMore
  <2>5. Since(N) = NewestOf(Since(E \union {t})) /\ Since(NewestOf(G)) = NewestOf(Since(G))
    <3> HIDE DEF Since, c
    <3> QED
      BY <1>1, <2>2
  <2> HIDE DEF Since, N, G
  <2> QED
    BY <2>1, <2>3, <2>4, <2>5
<1>5. ASSUME NEW u \in N, NEW v \in G, v > u PROVE v \in N
  <2>1. u \in Times /\ v \in Times /\ u \in Int /\ v \in Int
    BY <1>1, <1>3
  <2>2. CASE u >= c
    <3>1. u \in NewestOf(G)
      BY <1>4, <2>2
    <3>2. v \in NewestOf(G)
      BY <1>1, <1>5, <3>1, NewestAreUpwardClosed
    <3>3. v >= c
      <4> HIDE DEF c, N, G, Since
      <4> QED
        BY <1>1, <1>5, <2>1, <2>2
    <3> QED
      BY <1>4, <3>2, <3>3
  <2>3. CASE ~(u >= c)
    <3>1. u \in E
      BY <1>1, <1>3, <2>3
    <3>2. v \in E \union {t}
      BY <1>5, <3>1 DEF Keeps
    <3> QED
      BY <1>1, <1>5, <3>2, NewestAreUpwardClosed
  <2> QED
    BY <2>2, <2>3
<1>6. \A u \in N : u >= now - Horizon => u \in G
  BY <1>3 DEF Keeps
<1>7. PrunedErrors(N) = PrunedErrors(NewestOf(G))
  BY <1>2, <1>4
<1> HIDE DEF N, G
<1>8. Keeps(N, G)
  BY <1>5, <1>6, <1>7 DEF Keeps
<1> QED
  BY <1>8 DEF N, G

LEMMA RecordKeepsCounts ==
    ASSUME TypeOK, CountsInv, NEW r \in Results, Record(r)
    PROVE  CountsInv'
<1> DEFINE t == r.time
<1>1. /\ r.series \in Series /\ t \in Times /\ r.ok \in BOOLEAN
      /\ t \in Int /\ now \in Int /\ Retention \in Nat \ {0} /\ t >= now - Retention
  <2>1. t \in {now - 1, now} /\ now \in Times
    BY DEF Record, TypeOK
  <2> QED
    BY <2>1, ResultTypes, Numbers, Constants
<1>2. log' = log \union {r} /\ now' = now /\ Written(r) /\ r \notin log
  BY DEF Record
<1>3. ASSUME NEW x \in Series, NEW h \in Hours
      PROVE  CountFits(rows'[x][h], h, Cardinality(SuccessesIn(x, h)'), Cardinality(FailuresIn(x, h)'))
  <2> DEFINE ok == Cardinality(SuccessesIn(x, h))
             bad == Cardinality(FailuresIn(x, h))
             ok2 == Cardinality(SuccessesIn(x, h)')
             bad2 == Cardinality(FailuresIn(x, h)')
             mine == x = r.series /\ h = HourOf(t)
             row == rows[x][h]
             row2 == CountedIn(x, r)[h]
  <2>1. rows[x] \in Row /\ row.ok \in Nat /\ row.bad \in Nat
    BY DEF TypeOK, Row
  <2>2. /\ row2.ok = row.ok + IF mine /\ r.ok THEN 1 ELSE 0
        /\ row2.bad = row.bad + IF mine /\ ~r.ok THEN 1 ELSE 0
    BY <2>1, CountedOnce DEF CountedIn
  <2>3. ok \in Nat /\ bad \in Nat
    BY HourSetsAreFinite
  <2>4. /\ ok2 = ok + IF mine /\ r.ok THEN 1 ELSE 0
        /\ bad2 = bad + IF mine /\ ~r.ok THEN 1 ELSE 0
    <3>1. CASE ~mine
      <4>1. SuccessesIn(x, h)' = SuccessesIn(x, h) /\ FailuresIn(x, h)' = FailuresIn(x, h)
        BY <1>2, <3>1 DEF SuccessesIn, FailuresIn
      <4> QED
        BY <2>3, <3>1, <4>1
    <3>2. CASE mine /\ r.ok
      <4>1. /\ SuccessesIn(x, h)' = SuccessesIn(x, h) \union {r} /\ r \notin SuccessesIn(x, h)
            /\ FailuresIn(x, h)' = FailuresIn(x, h)
        BY <1>2, <3>2 DEF SuccessesIn, FailuresIn
      <4>2. ok2 = ok + 1
        BY <4>1, HourSetsAreFinite, FS_AddElement
      <4> QED
        BY <2>3, <3>2, <4>1, <4>2
    <3>3. CASE mine /\ ~r.ok
      <4>1. /\ FailuresIn(x, h)' = FailuresIn(x, h) \union {r} /\ r \notin FailuresIn(x, h)
            /\ SuccessesIn(x, h)' = SuccessesIn(x, h)
        BY <1>2, <3>3 DEF SuccessesIn, FailuresIn
      <4>2. bad2 = bad + 1
        BY <4>1, HourSetsAreFinite, FS_AddElement
      <4> QED
        BY <2>3, <3>3, <4>1, <4>2
    <3> QED
      BY <3>1, <3>2, <3>3
  <2>5. CountFits(row, h, ok, bad)
    BY DEF CountsInv, HoursCount
  <2>6. ok2 \in Nat /\ bad2 \in Nat
    BY <2>3, <2>4
  <2> HIDE DEF ok, bad, ok2, bad2, mine, row, row2
  <2>7. CountFits(row2, h, ok2, bad2)
    BY <2>1, <2>2, <2>3, <2>4, <2>5 DEF CountFits
  <2>8. CASE rows'[x] = CountedIn(x, r)
    BY <2>7, <2>8 DEF row2, ok2, bad2
  <2>9. CASE rows'[x] = Pruned(CountedIn(x, r))
    <3>1. CASE h * Hour < now - Retention
      <4>1. rows'[x][h] = NoCount
        BY <2>9, <3>1 DEF Pruned
      <4>2. ~(h * Hour >= now - Retention)
        BY <1>1, <3>1, Numbers, Constants
      <4>3. CountFits(NoCount, h, ok2, bad2)
        BY <2>6, <4>2, EmptyFits
      <4> QED
        BY <4>1, <4>3 DEF ok2, bad2
    <3>2. CASE ~(h * Hour < now - Retention)
      <4>1. rows'[x][h] = row2
        BY <2>9, <3>2 DEF Pruned, row2
      <4> QED
        BY <2>7, <4>1 DEF ok2, bad2
    <3> QED
      BY <3>1, <3>2
  <2> QED
    BY <1>2, <2>8, <2>9, WrittenTables
<1>4. HoursCount'
  BY <1>2, <1>3 DEF HoursCount, CountFits
<1>5. ASSUME NEW x \in Series PROVE Keeps(errors'[x], FailuresOf(x)')
  <2> DEFINE E == errors[x]
             F == FailuresOf(x)
             N == NotedIn(x, r)
             G == FailuresOf(x)'
  <2>1. E \in SUBSET Times /\ F \in SUBSET Times /\ Keeps(E, F)
    BY FailureTimes DEF TypeOK, CountsInv, ErrorsKept
  <2>2. Keeps(N, G) /\ N \in SUBSET Times /\ G \in SUBSET Times
    <3>1. CASE x = r.series /\ ~r.ok
      <4>1. N = NewestOf(E \union {t}) /\ G = F \union {t}
        BY <1>2, <3>1 DEF NotedIn, Noted, FailuresOf
      <4>2. NewestOf(E \union {t}) \subseteq E \union {t}
        BY DEF NewestOf
      <4> HIDE DEF E, F, N, G
      <4>3. Keeps(NewestOf(E \union {t}), F \union {t})
        BY <1>1, <2>1, OneMoreKept
      <4> QED
        BY <1>1, <2>1, <4>1, <4>2, <4>3
    <3>2. CASE ~(x = r.series /\ ~r.ok)
      <4>1. N = E /\ G = F
        BY <1>1, <1>2, <3>2 DEF NotedIn, Noted, FailuresOf
      <4> QED
        BY <2>1, <4>1
    <3> QED
      BY <3>1, <3>2
  <2>3. errors'[x] \in {N, PrunedErrors(N)}
    BY <1>2, WrittenTables
  <2> HIDE DEF N, G
  <2>4. Keeps(PrunedErrors(N), G)
    BY <1>1, <2>2, PrunedKeeps
  <2>5. Keeps(errors'[x], G)
    BY <2>2, <2>3, <2>4
  <2> QED
    BY <2>5 DEF G
<1>6. ErrorsKept'
  BY <1>2, <1>5 DEF ErrorsKept, Keeps, PrunedErrors, NewestOf
<1> QED
  BY <1>4, <1>6 DEF CountsInv

LEMMA TickKeepsCounts == ASSUME TypeOK, CountsInv, Tick PROVE CountsInv'
<1> DEFINE c == now' - Retention
           b == now' - Horizon
<1>1. /\ now \in Int /\ Retention \in Int /\ Horizon \in Int /\ b \in Int /\ c \in Int
      /\ now - Horizon \in Int /\ now - Retention \in Int
      /\ now - Horizon <= b /\ now - Retention <= c /\ b <= c
      /\ rows' = rows /\ errors' = errors /\ log' = {r \in log : r.time >= b}
  BY Numbers, Constants, Lengths DEF Tick, TypeOK
<1>2. \A r \in log : r.time \in Times /\ r.time \in Int /\ HourOf(r.time) * Hour \in Int
                     /\ HourOf(r.time) * Hour <= r.time
  <2> SUFFICES ASSUME NEW r \in log
               PROVE  r.time \in Times /\ r.time \in Int /\ HourOf(r.time) * Hour \in Int
                      /\ HourOf(r.time) * Hour <= r.time
    OBVIOUS
  <2>1. r.time \in Times
    BY ResultTypes DEF TypeOK
  <2>2. r.time \in Int
    BY <2>1, Constants DEF Times
  <2>3. HourOf(r.time) * Hour \in Int /\ HourOf(r.time) * Hour <= r.time
    BY <2>1, HourBegins, Zenon
  <2> QED
    BY <2>1, <2>2, <2>3
<1>3. ASSUME NEW x \in Series, NEW h \in Hours, h * Hour >= b
      PROVE  /\ rows'[x][h].ok <= Cardinality(SuccessesIn(x, h)')
             /\ rows'[x][h].bad <= Cardinality(FailuresIn(x, h)')
             /\ h * Hour >= c => /\ rows'[x][h].ok = Cardinality(SuccessesIn(x, h)')
                                 /\ rows'[x][h].bad = Cardinality(FailuresIn(x, h)')
  <2> DEFINE begin == h * Hour
  <2>1. begin \in Int
    BY Numbers, Constants
  <2>2. \A r \in log : HourOf(r.time) = h => r \in log'
    BY <1>1, <1>2, <1>3, <2>1
  <2>3. SuccessesIn(x, h)' = SuccessesIn(x, h) /\ FailuresIn(x, h)' = FailuresIn(x, h)
    BY <1>1, <2>2 DEF SuccessesIn, FailuresIn
  <2>4. CountFits(rows[x][h], h, Cardinality(SuccessesIn(x, h)), Cardinality(FailuresIn(x, h)))
    BY DEF CountsInv, HoursCount
  <2> HIDE DEF begin, b, c
  <2>5. begin >= now - Horizon /\ (begin >= c => begin >= now - Retention)
    BY <1>1, <1>3, <2>1 DEF begin
  <2> QED
    BY <1>1, <2>3, <2>4, <2>5 DEF CountFits, begin
<1>4. HoursCount'
  BY <1>3 DEF HoursCount, CountFits
<1>5. ASSUME NEW x \in Series PROVE Keeps(errors[x], FailuresOf(x))'
  <2> DEFINE E == errors[x]
             F == FailuresOf(x)
             G == {u \in F : u >= b}
  <2>1. E \in SUBSET Times /\ F \in SUBSET Times /\ Keeps(E, F) /\ \A u \in Times : u \in Int
    BY FailureTimes, Constants DEF TypeOK, CountsInv, ErrorsKept, Times
  <2>2. FailuresOf(x)' = G
    BY <1>1 DEF FailuresOf
  <2>3. NewestOf(G) = {u \in NewestOf(F) : u >= b} /\ NewestOf(F) \subseteq F
    BY <1>1, <2>1, NewestSince DEF NewestOf
  <2> HIDE DEF E, F, b, c
  <2>4. \A u \in E : u >= b => u \in G
    <3> SUFFICES ASSUME NEW u \in E, u >= b PROVE u \in G
      OBVIOUS
    <3>1. u \in Int /\ u >= now - Horizon
      BY <1>1, <2>1
    <3> QED
      BY <2>1, <3>1 DEF Keeps
  <2>5. \A u \in E, v \in G : v > u => v \in E
    BY <2>1 DEF Keeps
  <2>6. {u \in E : u >= c} = {u \in NewestOf(G) : u >= c}
    <3>1. \A u \in Int : u >= c => u >= now - Retention /\ u >= b
      BY <1>1
    <3>2. \A u : u \in E /\ u >= now - Retention <=> u \in NewestOf(F) /\ u >= now - Retention
      BY <2>1 DEF Keeps, PrunedErrors
    <3>3. \A u : u \in E => u \in Int
      BY <2>1
    <3>4. \A u : u \in NewestOf(F) => u \in Int
      BY <2>1, <2>3
    <3> QED
      BY <2>3, <3>1, <3>2, <3>3, <3>4
  <2> HIDE DEF G
  <2> QED
    BY <1>1, <2>2, <2>4, <2>5, <2>6 DEF Keeps, PrunedErrors, NewestOf, E, b, c
<1>6. ErrorsKept'
  BY <1>5 DEF ErrorsKept
<1> QED
  BY <1>4, <1>6 DEF CountsInv

\* Deletions take the rows of some series and all their results.
LEMMA DeletionKeepsCounts ==
    ASSUME TypeOK, CountsInv, NEW D, now' = now, log' = {r \in log : r.series \notin D},
           \A x \in Series : /\ rows'[x] = IF x \in D THEN [h \in Hours |-> NoCount] ELSE rows[x]
                             /\ errors'[x] = IF x \in D THEN {} ELSE errors[x]
    PROVE  CountsInv'
<1>1. ASSUME NEW x \in Series, NEW h \in Hours
      PROVE  CountFits(rows'[x][h], h, Cardinality(SuccessesIn(x, h)'), Cardinality(FailuresIn(x, h)'))
  <2>1. CASE x \in D
    <3>1. SuccessesIn(x, h)' = {} /\ FailuresIn(x, h)' = {} /\ rows'[x][h] = NoCount
      BY <2>1 DEF SuccessesIn, FailuresIn
    <3> QED
      BY <3>1, FS_EmptySet, EmptyFits
  <2>2. CASE x \notin D
    <3>1. SuccessesIn(x, h)' = SuccessesIn(x, h) /\ FailuresIn(x, h)' = FailuresIn(x, h)
      BY <2>2 DEF SuccessesIn, FailuresIn
    <3> QED
      BY <2>2, <3>1 DEF CountsInv, HoursCount
  <2> QED
    BY <2>1, <2>2
<1>2. HoursCount'
  BY <1>1 DEF HoursCount, CountFits
<1>3. ASSUME NEW x \in Series PROVE Keeps(errors'[x], FailuresOf(x)')
  <2>1. CASE x \in D
    <3>1. FailuresOf(x)' = {} /\ errors'[x] = {}
      BY <2>1 DEF FailuresOf
    <3> QED
      BY <3>1, NothingKept
  <2>2. CASE x \notin D
    <3>1. FailuresOf(x)' = FailuresOf(x) /\ errors'[x] = errors[x]
      BY <2>2 DEF FailuresOf
    <3> QED
      BY <3>1 DEF CountsInv, ErrorsKept
  <2> QED
    BY <2>1, <2>2
<1>4. ErrorsKept'
  BY <1>3 DEF ErrorsKept, Keeps, PrunedErrors, NewestOf
<1> QED
  BY <1>2, <1>4 DEF CountsInv

LEMMA CountsInductive == ASSUME TypeOK, CountsInv, [Next]_vars PROVE CountsInv'
<1>1. ASSUME NEW s \in Servers, DeleteCheckState(s) PROVE CountsInv'
  <2> DEFINE D == {<<s, "check">>}
  <2>1. /\ now' = now /\ log' = {r \in log : r.series \notin D}
        /\ \A x \in Series : /\ rows'[x] = IF x \in D THEN [h \in Hours |-> NoCount] ELSE rows[x]
                             /\ errors'[x] = IF x \in D THEN {} ELSE errors[x]
    BY <1>1 DEF DeleteCheckState, TypeOK
  <2> QED
    BY <2>1, DeletionKeepsCounts
<1>2. CASE Purge
  <2> DEFINE D == {x \in Series : x[1] \in Purged}
  <2>1. /\ now' = now /\ log' = {r \in log : r.series[1] \notin Purged}
        /\ \A x \in Series : /\ rows'[x] = IF x \in D THEN [h \in Hours |-> NoCount] ELSE rows[x]
                             /\ errors'[x] = IF x \in D THEN {} ELSE errors[x]
    BY <1>2 DEF Purge, DeleteServerRows
  <2>2. \A r \in log : r.series \in Series
    BY ResultTypes DEF TypeOK
  <2>3. log' = {r \in log : r.series \notin D}
    BY <2>1, <2>2
  <2> QED
    BY <2>1, <2>3, DeletionKeepsCounts
<1>3. CASE Rebuild
  <2>1. \A r \in log : r.series \in Series
    BY ResultTypes DEF TypeOK
  <2>2. /\ now' = now /\ log' = {r \in log : r.series \notin Series}
        /\ \A x \in Series : rows'[x] = [h \in Hours |-> NoCount] /\ errors'[x] = {}
    BY <1>3, <2>1 DEF Rebuild
  <2> QED
    BY <2>2, DeletionKeepsCounts
<1>4. ASSUME UNCHANGED <<now, rows, errors, log>> PROVE CountsInv'
  <2>1. HoursCount'
    BY <1>4 DEF CountsInv, HoursCount, CountFits, SuccessesIn, FailuresIn
  <2>2. ErrorsKept'
    BY <1>4 DEF CountsInv, ErrorsKept, Keeps, FailuresOf, PrunedErrors, NewestOf
  <2> QED
    BY <2>1, <2>2 DEF CountsInv
<1> QED
  BY <1>1, <1>2, <1>3, <1>4, TickKeepsCounts, RecordKeepsCounts
     DEF Next, RecordFails, Save, Restart, Unmark, Mark, SkipPurge, vars

LEMMA CountsHold == Spec => []CountsInv
<1>1. Init => CountsInv
  <2> SUFFICES ASSUME Init PROVE CountsInv
    OBVIOUS
  <2>1. HoursCount
    <3>1. \A x, h : SuccessesIn(x, h) = {} /\ FailuresIn(x, h) = {}
      BY DEF Init, SuccessesIn, FailuresIn
    <3>2. \A x \in Series, h \in Hours : rows[x][h] = NoCount
      BY DEF Init
    <3>3. \A h \in Hours : CountFits(NoCount, h, 0, 0)
      BY EmptyFits
    <3> QED
      BY <3>1, <3>2, <3>3, FS_EmptySet DEF HoursCount
  <2>2. ErrorsKept
    <3>1. \A x \in Series : errors[x] = {} /\ FailuresOf(x) = {}
      BY DEF Init, FailuresOf
    <3> QED
      BY <3>1, NothingKept DEF ErrorsKept
  <2> QED
    BY <2>1, <2>2 DEF CountsInv
<1>2. TypeOK /\ CountsInv /\ [Next]_vars => CountsInv'
  BY CountsInductive
<1> QED
  BY <1>1, <1>2, StatisticsTypeCorrect, PTL DEF Spec

\* The errors shown are among the newest failures of the window, and all of
\* those that are within the retention time, for any series and lengths.
THEOREM ErrorsShownAreNewest == Spec => []ErrorsAreNewest
<1>1. TypeOK /\ CountsInv => ErrorsAreNewest
  <2> SUFFICES ASSUME TypeOK, CountsInv, NEW x \in Series, NEW w \in Windows \union {Retention}
               PROVE  LET newest == NewestOf({r.time : r \in {r \in log : r.series = x /\ ~r.ok
                                                                     /\ r.time >= now - w}})
                      IN  /\ RecentErrors(x, w) \subseteq newest
                          /\ {t \in newest : t >= now - Retention} \subseteq RecentErrors(x, w)
    BY DEF ErrorsAreNewest
  <2> DEFINE E == errors[x]
             F == FailuresOf(x)
             c == now - w
             S == {t \in F : t >= c}
  <2>1. /\ E \in SUBSET Times /\ Cardinality(E) <= MaxErrors /\ F \in SUBSET Times
        /\ now \in Int /\ c \in Int /\ now - Horizon \in Int /\ now - Horizon <= c
        /\ \A t \in Times : t \in Int
    BY FailureTimes, Numbers, Lengths DEF TypeOK
  <2>2. Keeps(E, F)
    BY DEF CountsInv, ErrorsKept
  <2>3. S = {r.time : r \in {r \in log : r.series = x /\ ~r.ok /\ r.time >= c}}
    BY DEF FailuresOf
  <2>4. NewestOf(S) = {t \in NewestOf(F) : t >= c}
    BY <2>1, NewestSince
  <2> HIDE DEF E, F, c, S
  <2>5. ASSUME NEW t \in E, t >= c PROVE t \in NewestOf(F)
    <3>1. t \in Times /\ t \in Int /\ t >= now - Horizon
      BY <2>1, <2>5
    <3>2. t \in F
      BY <2>2, <3>1 DEF Keeps
    <3>3. NewerThan(F, t) \subseteq E \ {t}
      <4> SUFFICES ASSUME NEW v \in F, v > t PROVE v \in E /\ v # t
        BY DEF NewerThan
      <4>1. v \in Int /\ t \in Int
        BY <2>1, <3>1
      <4> QED
        BY <2>2, <4>1 DEF Keeps
    <3>4. IsFiniteSet(E) /\ Cardinality(E) \in Nat /\ Cardinality(E \ {t}) = Cardinality(E) - 1
      BY <2>1, <2>5, FiniteTimes, FS_RemoveElement
    <3>5. Cardinality(NewerThan(F, t)) <= Cardinality(E \ {t})
      <4>1. IsFiniteSet(E \ {t})
        BY <3>4, FS_Subset
      <4> QED
        BY <3>3, <4>1, FS_Subset
    <3>6. Cardinality(NewerThan(F, t)) \in Nat
      BY <2>1, NewerCount
    <3> QED
      BY <2>1, <3>2, <3>4, <3>5, <3>6, Constants, InNewest
  <2>6. RecentErrors(x, w) = {t \in E : t >= c}
    BY DEF RecentErrors, E, c
  <2>7. {t \in NewestOf(F) : t >= now - Retention} \subseteq E
    BY <2>2 DEF Keeps, PrunedErrors
  <2>8. /\ RecentErrors(x, w) \subseteq NewestOf(S)
        /\ {t \in NewestOf(S) : t >= now - Retention} \subseteq RecentErrors(x, w)
    BY <2>4, <2>5, <2>6, <2>7
  <2> QED
    BY <2>3, <2>8 DEF c
<1> QED
  BY <1>1, StatisticsTypeCorrect, CountsHold, PTL

-----------------------------------------------------------------------------
(* The sums of the readers. *)

FirstOf(s) == CHOOSE x \in s : TRUE

SumStep(f, g) ==
    [s \in SUBSET DOMAIN f |-> IF s = {} THEN 0 ELSE f[FirstOf(s)] + g[s \ {FirstOf(s)}]]

LEMMA SumUnfolds ==
    ASSUME NEW f
    PROVE  SumOf(f) = (CHOOSE g : g = SumStep(f, g))[DOMAIN f]
  BY DEF SumOf, FoldFunction, FoldFunctionOnSet, MapThenFoldSet, SumStep, FirstOf

\* A measure of the subsets that grows by f[h] with every h is the sum: the
\* order in which the rows are added up does not matter.
LEMMA SumIsMeasure ==
    ASSUME NEW S, IsFiniteSet(S), NEW f \in [S -> Nat], NEW G \in [SUBSET S -> Nat],
           G[{}] = 0,
           \A s \in SUBSET S : \A h \in s : G[s] = f[h] + G[s \ {h}]
    PROVE  SumOf(f) = G[S]
<1> DEFINE I == CHOOSE g : g = SumStep(f, g)
<1>1. \A s \in SUBSET S : s # {} => FirstOf(s) \in s
  BY DEF FirstOf
<1>2. G = SumStep(f, G)
  <2>1. \A s \in SUBSET S :
            G[s] = IF s = {} THEN 0 ELSE f[FirstOf(s)] + G[s \ {FirstOf(s)}]
    BY <1>1
  <2> QED
    BY <2>1 DEF SumStep
<1>3. I = SumStep(f, I)
  BY <1>2
<1> HIDE DEF I
<1>4. \A s \in SUBSET S :
          I[s] = IF s = {} THEN 0 ELSE f[FirstOf(s)] + I[s \ {FirstOf(s)}]
  <2> DEFINE R(g, s) == IF s = {} THEN 0 ELSE f[FirstOf(s)] + g[s \ {FirstOf(s)}]
  <2>1. I = [s \in SUBSET S |-> R(I, s)]
    BY <1>3 DEF SumStep
  <2> HIDE DEF R
  <2>2. \A s \in SUBSET S : I[s] = R(I, s)
    BY <2>1
  <2> QED
    BY <2>2 DEF R
<1> DEFINE Wrong == {s \in SUBSET S : I[s] # G[s]}
<1>5. Wrong = {}
  <2> SUFFICES ASSUME Wrong # {} PROVE FALSE
    OBVIOUS
  <2>1. Wrong \subseteq FiniteSubsetsOf(S)
    BY FS_Subset DEF FiniteSubsetsOf
  <2>2. PICK T \in Wrong : \A U \in Wrong : <<U, T>> \notin StrictSubsetOrdering(S)
    <3>1. IsWellFoundedOn(StrictSubsetOrdering(S), FiniteSubsetsOf(S))
      BY FS_StrictSubsetOrderingWellFounded
    <3> HIDE DEF Wrong
    <3> QED
      BY <2>1, <3>1, WFMin
  <2>3. T # {}
    BY <2>2, <1>4
  <2> DEFINE x == FirstOf(T)
  <2>4. x \in T /\ T \ {x} \in SUBSET S /\ T \ {x} # T /\ T \in SUBSET S
    BY <1>1, <2>2, <2>3
  <2>5. T \ {x} \notin Wrong
    BY <2>2, <2>4 DEF StrictSubsetOrdering
  <2>6. I[T \ {x}] = G[T \ {x}]
    BY <2>4, <2>5
  <2>7. I[T] = f[x] + I[T \ {x}] /\ G[T] = f[x] + G[T \ {x}]
    BY <1>4, <2>3, <2>4
  <2> QED
    BY <2>2, <2>6, <2>7
<1> QED
  BY <1>5, SumUnfolds DEF I

LEMMA FiniteHours == ASSUME NEW S \in SUBSET Hours PROVE IsFiniteSet(S)
<1> DEFINE n == MaxTime \div Hour
<1>1. n \in Int
  BY Constants
<1> HIDE DEF n
<1>2. IsFiniteSet(0..n)
  BY <1>1, FS_Interval
<1> QED
  BY <1>2, FS_Subset DEF Hours, n

\* Hours that count the results of one kind add up to the results within them.
LEMMA HoursAddUp ==
    ASSUME NEW L \in SUBSET Results, NEW x,
           \/ \A r \in L : r.series = x /\ r.ok
           \/ \A r \in L : r.series = x /\ ~r.ok,
           NEW S \in SUBSET Hours, NEW f \in [S -> Nat],
           \A h \in S : f[h] = Cardinality({r \in L : HourOf(r.time) = h})
    PROVE  SumOf(f) = Cardinality({r \in L : HourOf(r.time) \in S})
<1> DEFINE In(s) == {r \in L : HourOf(r.time) \in s}
           G == [s \in SUBSET S |-> Cardinality(In(s))]
<1>1. \A M \in SUBSET L : IsFiniteSet(M) /\ Cardinality(M) \in Nat
  BY FiniteResults
<1>2. \A s : IsFiniteSet(In(s)) /\ Cardinality(In(s)) \in Nat
  BY <1>1
<1>3. G \in [SUBSET S -> Nat]
  BY <1>2
<1>4. G[{}] = 0
  BY FS_EmptySet
<1>5. ASSUME NEW s \in SUBSET S, NEW h \in s
      PROVE  G[s] = f[h] + G[s \ {h}]
  <2> DEFINE A == {r \in L : HourOf(r.time) = h}
             B == In(s \ {h})
  <2>1. In(s) = A \union B /\ A \cap B = {}
    OBVIOUS
  <2>2. IsFiniteSet(A) /\ IsFiniteSet(B) /\ Cardinality(A) \in Nat /\ Cardinality(B) \in Nat
    BY <1>1
  <2>3. f[h] = Cardinality(A) /\ G[s] = Cardinality(In(s)) /\ G[s \ {h}] = Cardinality(B)
    OBVIOUS
  <2> HIDE DEF A, B, In, G
  <2>4. Cardinality(A \union B) = Cardinality(A) + Cardinality(B) - Cardinality(A \cap B)
    BY <2>2, FS_Union
  <2>5. Cardinality(A \cap B) = 0
    BY <2>1, FS_EmptySet
  <2>6. Cardinality(In(s)) = Cardinality(A) + Cardinality(B)
    BY <2>1, <2>2, <2>4, <2>5
  <2> QED
    BY <2>3, <2>6
<1>6. IsFiniteSet(S)
  BY FiniteHours
<1>7. G[S] = Cardinality(In(S))
  OBVIOUS
<1> HIDE DEF G
<1>8. SumOf(f) = G[S]
  BY <1>3, <1>4, <1>5, <1>6, SumIsMeasure
<1> QED
  BY <1>7, <1>8

LEMMA SubsetOfSize ==
    ASSUME NEW T, IsFiniteSet(T), NEW n \in Nat, n <= Cardinality(T)
    PROVE  \E K \in SUBSET T : Cardinality(K) = n
<1>1. PICK b : b \in Bijection(1..Cardinality(T), T)
  BY FS_CardinalityType DEF ExistsBijection
<1>2. Cardinality(T) \in Nat /\ 1..n \subseteq 1..Cardinality(T)
  BY FS_CardinalityType
<1> DEFINE K == {b[i] : i \in 1..n}
           c == [i \in 1..n |-> b[i]]
<1>3. K \in SUBSET T
  BY <1>1, <1>2 DEF Bijection, Injection, Surjection
<1>4. c \in Bijection(1..n, K)
  BY <1>1, <1>2 DEF Bijection, Injection, Surjection, IsInjective
<1>5. IsFiniteSet(1..n) /\ Cardinality(1..n) = n
  BY FS_Interval
<1>6. Cardinality(K) = n
  BY <1>4, <1>5, FS_Bijection DEF ExistsBijection
<1> QED
  BY <1>3, <1>6

AreOfOneKind(L, x) ==
    \/ \A r \in L : r.series = x /\ r.ok
    \/ \A r \in L : r.series = x /\ ~r.ok

\* Hours that count no result twice, and those in T all of theirs, add up to no
\* less than the results within T and to no more than those within all of them.
LEMMA HoursBetween ==
    ASSUME NEW L \in SUBSET Results, NEW x,
           AreOfOneKind(L, x),
           NEW S \in SUBSET Hours, NEW T \in SUBSET S, NEW f \in [S -> Nat],
           \A h \in S : f[h] <= Cardinality({r \in L : HourOf(r.time) = h}),
           \A h \in T : f[h] = Cardinality({r \in L : HourOf(r.time) = h})
    PROVE  SumOf(f) \in Cardinality({r \in L : HourOf(r.time) \in T})
                      ..Cardinality({r \in L : HourOf(r.time) \in S})
<1> DEFINE In(s) == {r \in L : HourOf(r.time) \in s}
           Of(h) == {r \in L : HourOf(r.time) = h}
           Some(h) == CHOOSE M \in SUBSET Of(h) : Cardinality(M) = f[h]
           K == {r \in In(S) : r \in Some(HourOf(r.time))}
<1>1. \A M \in SUBSET L : IsFiniteSet(M) /\ Cardinality(M) \in Nat
  BY FiniteResults DEF AreOfOneKind
<1>2. ASSUME NEW h \in S PROVE Some(h) \in SUBSET Of(h) /\ Cardinality(Some(h)) = f[h]
  <2>1. IsFiniteSet(Of(h)) /\ f[h] \in Nat /\ f[h] <= Cardinality(Of(h))
    BY <1>1
  <2> HIDE DEF Of
  <2>2. \E M \in SUBSET Of(h) : Cardinality(M) = f[h]
    BY <2>1, SubsetOfSize
  <2> QED
    BY <2>2
<1>3. ASSUME NEW h \in S PROVE f[h] = Cardinality({r \in K : HourOf(r.time) = h})
  <2>1. {r \in K : HourOf(r.time) = h} = Some(h)
    <3> HIDE DEF Some
    <3> QED
      BY <1>2
  <2> HIDE DEF Some, K
  <2> QED
    BY <1>2, <2>1
<1>4. ASSUME NEW h \in T PROVE Some(h) = Of(h)
  <2>1. IsFiniteSet(Of(h)) /\ Cardinality(Of(h)) = f[h]
    BY <1>1
  <2> HIDE DEF Of, Some
  <2>2. Some(h) \in SUBSET Of(h) /\ Cardinality(Some(h)) = Cardinality(Of(h))
    BY <1>2, <2>1
  <2> QED
    BY <2>1, <2>2, FS_Subset
<1>5. In(T) \subseteq K /\ K \subseteq In(S) /\ K \in SUBSET L
  <2> HIDE DEF Some
  <2> QED
    BY <1>4
<1>6. {r \in K : HourOf(r.time) \in S} = K
  BY <1>5
<1>7. K \in SUBSET Results /\ (\/ \A r \in K : r.series = x /\ r.ok
                             \/ \A r \in K : r.series = x /\ ~r.ok)
  BY <1>5 DEF AreOfOneKind
<1>8. SumOf(f) = Cardinality(K)
  <2> HIDE DEF K
  <2>1. SumOf(f) = Cardinality({r \in K : HourOf(r.time) \in S})
    BY <1>3, <1>7, HoursAddUp
  <2> QED
    BY <1>6, <2>1
<1> HIDE DEF K
<1>9. In(S) \in SUBSET L /\ In(T) \in SUBSET L
  OBVIOUS
<1> HIDE DEF In
<1>10. /\ Cardinality(In(T)) <= Cardinality(K) /\ Cardinality(K) <= Cardinality(In(S))
       /\ Cardinality(In(T)) \in Nat /\ Cardinality(K) \in Nat /\ Cardinality(In(S)) \in Nat
  BY <1>1, <1>5, <1>9, FS_Subset
<1>11. SumOf(f) \in Cardinality(In(T))..Cardinality(In(S))
  BY <1>8, <1>10
<1> QED
  BY <1>11 DEF In

\* The readers' sums count the results of the window's hours, those within the
\* retention time once and the others at most once, for any number of series
\* and any lengths of hour, windows and retention time.
THEOREM WindowIsCounted == Spec => []WindowCounts
<1>1. TypeOK /\ CountsInv => WindowCounts
  <2> SUFFICES ASSUME TypeOK, CountsInv, NEW x \in Series, NEW w \in Windows
               PROVE  LET Mine(hours) == {r \in log : r.series = x /\ HourOf(r.time) \in hours}
                          all == Mine(InWindow(w))
                          kept == Mine(InWindow(w) \intersect InWindow(Retention))
                          seen == RecentStatistics(x, w)
                      IN  /\ seen.ok \in Cardinality({r \in kept : r.ok})
                                         ..Cardinality({r \in all : r.ok})
                          /\ seen.bad \in Cardinality({r \in kept : ~r.ok})
                                          ..Cardinality({r \in all : ~r.ok})
    BY DEF WindowCounts
  <2> DEFINE W == InWindow(w)
             V == InWindow(w) \intersect InWindow(Retention)
             ok == [h \in W |-> rows[x][h].ok]
             bad == [h \in W |-> rows[x][h].bad]
             Ok == {r \in log : r.series = x /\ r.ok}
             Bad == {r \in log : r.series = x /\ ~r.ok}
  <2>1. /\ W \in SUBSET Hours /\ V \in SUBSET W
        /\ \A h \in W : h * Hour >= now - Horizon
        /\ \A h \in V : h * Hour >= now - Retention
    <3>1. ASSUME NEW h \in Hours, h * Hour >= now - w
          PROVE  h * Hour >= now - Horizon
      <4> DEFINE b == h * Hour
      <4>1. b \in Int /\ now \in Int /\ w \in Int /\ Horizon \in Int /\ w <= Horizon
        BY Constants, Lengths, Numbers DEF TypeOK
      <4> HIDE DEF b
      <4>2. b >= now - w => b >= now - Horizon
        BY <4>1
      <4> QED
        BY <3>1, <4>2 DEF b
    <3> QED
      BY <3>1 DEF InWindow
  <2>2. ok \in [W -> Nat] /\ bad \in [W -> Nat]
    BY <2>1 DEF TypeOK
  <2>3. ASSUME NEW h \in W
        PROVE  /\ ok[h] <= Cardinality({r \in Ok : HourOf(r.time) = h})
               /\ bad[h] <= Cardinality({r \in Bad : HourOf(r.time) = h})
               /\ h \in V => /\ ok[h] = Cardinality({r \in Ok : HourOf(r.time) = h})
                             /\ bad[h] = Cardinality({r \in Bad : HourOf(r.time) = h})
    <3>1. /\ {r \in Ok : HourOf(r.time) = h} = SuccessesIn(x, h)
          /\ {r \in Bad : HourOf(r.time) = h} = FailuresIn(x, h)
      BY DEF SuccessesIn, FailuresIn
    <3>2. CountFits(rows[x][h], h, Cardinality(SuccessesIn(x, h)), Cardinality(FailuresIn(x, h)))
      BY <2>1 DEF CountsInv, HoursCount
    <3>3. ok[h] = rows[x][h].ok /\ bad[h] = rows[x][h].bad
      OBVIOUS
    <3> HIDE DEF ok, bad, Ok, Bad, W, V
    <3> QED
      BY <2>1, <3>1, <3>2, <3>3 DEF CountFits
  <2>4. Ok \in SUBSET Results /\ Bad \in SUBSET Results
    BY DEF TypeOK
  <2>5. AreOfOneKind(Ok, x)
    BY DEF AreOfOneKind
  <2>6. AreOfOneKind(Bad, x)
    BY DEF AreOfOneKind
  <2> DEFINE Mine(hours) == {r \in log : r.series = x /\ HourOf(r.time) \in hours}
  <2>7. \A hours : /\ {r \in Mine(hours) : r.ok} = {r \in Ok : HourOf(r.time) \in hours}
                   /\ {r \in Mine(hours) : ~r.ok} = {r \in Bad : HourOf(r.time) \in hours}
    OBVIOUS
  <2>8. RecentStatistics(x, w) = [ok |-> SumOf(ok), bad |-> SumOf(bad)]
    BY DEF RecentStatistics
  <2> HIDE DEF ok, bad, Ok, Bad, W, V, Mine
  <2>9. SumOf(ok) \in Cardinality({r \in Ok : HourOf(r.time) \in V})
                     ..Cardinality({r \in Ok : HourOf(r.time) \in W})
    <3>1. /\ \A h \in W : ok[h] <= Cardinality({r \in Ok : HourOf(r.time) = h})
          /\ \A h \in V : ok[h] = Cardinality({r \in Ok : HourOf(r.time) = h})
      BY <2>1, <2>3
    <3>2. W \in SUBSET Hours /\ V \in SUBSET W
      BY <2>1
    <3> QED
      BY <2>2, <2>4, <2>5, <3>1, <3>2, HoursBetween
  <2>10. SumOf(bad) \in Cardinality({r \in Bad : HourOf(r.time) \in V})
                      ..Cardinality({r \in Bad : HourOf(r.time) \in W})
    <3>1. /\ \A h \in W : bad[h] <= Cardinality({r \in Bad : HourOf(r.time) = h})
          /\ \A h \in V : bad[h] = Cardinality({r \in Bad : HourOf(r.time) = h})
      BY <2>1, <2>3
    <3>2. W \in SUBSET Hours /\ V \in SUBSET W
      BY <2>1
    <3> QED
      BY <2>2, <2>4, <2>6, <3>1, <3>2, HoursBetween
  <2>11. /\ RecentStatistics(x, w).ok \in Cardinality({r \in Mine(V) : r.ok})
                                          ..Cardinality({r \in Mine(W) : r.ok})
         /\ RecentStatistics(x, w).bad \in Cardinality({r \in Mine(V) : ~r.ok})
                                           ..Cardinality({r \in Mine(W) : ~r.ok})
    <3>1. /\ {r \in Mine(V) : r.ok} = {r \in Ok : HourOf(r.time) \in V}
          /\ {r \in Mine(W) : r.ok} = {r \in Ok : HourOf(r.time) \in W}
          /\ {r \in Mine(V) : ~r.ok} = {r \in Bad : HourOf(r.time) \in V}
          /\ {r \in Mine(W) : ~r.ok} = {r \in Bad : HourOf(r.time) \in W}
      BY <2>7
    <3>2. RecentStatistics(x, w).ok = SumOf(ok) /\ RecentStatistics(x, w).bad = SumOf(bad)
      BY <2>8
    <3> QED
      BY <2>9, <2>10, <3>1, <3>2
  <2> QED
    BY <2>11 DEF W, V, Mine
<1> QED
  BY <1>1, StatisticsTypeCorrect, CountsHold, PTL
=============================================================================
