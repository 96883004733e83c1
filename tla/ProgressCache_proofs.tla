------------------------- MODULE ProgressCache_proofs -------------------------
(***************************************************************************)
(* Theorems about ProgressCache, for any plans, days, readers and writes:  *)
(* a stored series is stale only by a race, and the figures shown of one   *)
(* task agree.                                                             *)
(***************************************************************************)
EXTENDS ProgressCache, TLAPS, FiniteSetTheorems, WellFoundedInduction

-----------------------------------------------------------------------------
(* Naturals *)

LEMMA Least ==
    ASSUME NEW S \in SUBSET Nat, S # {}
    PROVE  \E m \in S : \A k \in S : m <= k
<1> DEFINE R == {ss \in Nat \X Nat : ss[1] < ss[2]}
<1>1. IsWellFoundedOn(R, Nat)
  BY NatLessThanWellFounded DEF OpToRel
<1>2. \A x, y \in Nat : y < x => <<y, x>> \in R
  OBVIOUS
<1> HIDE DEF R
<1>3. PICK x \in S : \A y \in S : ~ (<<y, x>> \in R)
  BY <1>1, WFMin
<1>4. ASSUME NEW k \in S PROVE x <= k
  <2>1. x \in Nat /\ k \in Nat /\ ~ (k < x)
    BY <1>2, <1>3
  <2> QED BY <2>1
<1> QED BY <1>4

\* Days that end somewhere have a latest one.
LEMMA LatestIsLast ==
    ASSUME NEW last \in Nat, NEW S \in SUBSET 0..last, S # {}
    PROVE  Latest(S) \in S /\ \A k \in S : k <= Latest(S)
<1> DEFINE back == {last - k : k \in S}
<1>1. back \in SUBSET Nat /\ back # {}
  <2>1. \A k \in S : k \in Nat /\ last - k \in Nat
    OBVIOUS
  <2> QED BY <2>1
<1>2. PICK m \in back : \A k \in back : m <= k
  BY <1>1, Least
<1>3. last - m \in S
  BY <1>2
<1>4. \A k \in S : k <= last - m
  <2> TAKE k \in S
  <2>1. last - k \in back
    OBVIOUS
  <2>2. m <= last - k /\ m \in Nat /\ k \in Nat
    BY <1>1, <1>2, <2>1
  <2> QED BY <2>2
<1> QED BY <1>3, <1>4 DEF Latest

-----------------------------------------------------------------------------
(* Working days *)

WorkedSince(closed, start, d) == {e \in (start + 1)..d : e \notin closed}

Count(closed, start, d) == Cardinality(WorkedSince(closed, start, d))

\* A working day counts one more, another day nothing.
LEMMA CountsOneByOne ==
    ASSUME NEW closed, NEW start \in Int
    PROVE  /\ Count(closed, start, start) = 0
           /\ \A d \in Int : Count(closed, start, d) \in Nat
           /\ \A d \in Int : d > start =>
                 Count(closed, start, d)
                   = Count(closed, start, d - 1) + (IF d \in closed THEN 0 ELSE 1)
           /\ \A c, d \in Int : c <= d => Count(closed, start, c) <= Count(closed, start, d)
<1> DEFINE W(d) == WorkedSince(closed, start, d)
<1>1. ASSUME NEW d \in Int
      PROVE  IsFiniteSet(W(d)) /\ Cardinality(W(d)) \in Nat
  <2>1. IsFiniteSet((start + 1)..d)
    BY FS_Interval
  <2>2. W(d) \subseteq (start + 1)..d
    BY DEF WorkedSince
  <2> QED BY <2>1, <2>2, FS_Subset, FS_CardinalityType
<1>2. Cardinality(W(start)) = 0
  <2>1. W(start) = {}
    BY DEF WorkedSince
  <2> QED BY <2>1, FS_EmptySet
<1>3. ASSUME NEW d \in Int, d > start
      PROVE  Cardinality(W(d)) = Cardinality(W(d - 1)) + (IF d \in closed THEN 0 ELSE 1)
  <2>1. d \notin W(d - 1)
    BY DEF WorkedSince
  <2>2. CASE d \notin closed
    <3>1. W(d) = W(d - 1) \cup {d}
      BY <1>3, <2>2 DEF WorkedSince
    <3>2. IsFiniteSet(W(d - 1)) /\ Cardinality(W(d - 1)) \in Nat
      BY <1>1
    <3> HIDE DEF W
    <3>3. Cardinality(W(d - 1) \cup {d}) = Cardinality(W(d - 1)) + 1
      BY <3>2, <2>1, FS_AddElement
    <3> QED BY <3>1, <3>3, <2>2
  <2>3. CASE d \in closed
    <3>1. W(d) = W(d - 1)
      BY <1>3, <2>3 DEF WorkedSince
    <3>2. Cardinality(W(d)) \in Nat
      BY <1>1
    <3> QED BY <3>1, <3>2, <2>3
  <2> QED BY <2>2, <2>3
<1>4. ASSUME NEW c \in Int, NEW d \in Int, c <= d
      PROVE  Cardinality(W(c)) <= Cardinality(W(d))
  <2>1. W(c) \subseteq W(d)
    BY <1>4 DEF WorkedSince
  <2>2. IsFiniteSet(W(d))
    BY <1>1
  <2> HIDE DEF W
  <2> QED BY <2>1, <2>2, FS_Subset
<1> QED BY <1>1, <1>2, <1>3, <1>4 DEF Count

\* due_date_for ends on the working day that makes the load.
LEMMA DueDateIsWorked ==
    ASSUME NEW closed \in SUBSET SeriesDays, NEW plan,
           plan.start \in Nat, plan.load \in Nat \ {0}
    PROVE  /\ DueDate(plan, closed) \in Nat
           /\ DueDate(plan, closed) >= plan.start
           /\ Count(closed, plan.start, DueDate(plan, closed)) = WholeDays(plan.load)
<1> DEFINE start == plan.start
           load == WholeDays(plan.load)
           end == start + load + LastDate
           C(d) == Count(closed, start, d)
           Reached(d) == d \notin closed /\ C(d) = load
           S == {d \in start..end : C(d) >= load}
<1>1. LastDate \in Nat \ {0}
  BY SeriesAssumption
<1>2. load \in Nat \ {0}
  BY DEF WholeDays, OneDay
<1>3. start \in Nat /\ end \in Nat /\ end >= start
  BY <1>1, <1>2
<1>4. /\ C(start) = 0
      /\ \A d \in Int : C(d) \in Nat
      /\ \A d \in Int : d > start => C(d) = C(d - 1) + (IF d \in closed THEN 0 ELSE 1)
  <2>1. start \in Int
    BY <1>3
  <2> HIDE DEF start
  <2> QED BY <2>1, CountsOneByOne
<1>5. C(end) >= load
  <2> DEFINE all == (start + 1)..end
             off == all \cap closed
  <2>1. IsFiniteSet(all) /\ Cardinality(all) = load + LastDate
    <3>1. start + 1 \in Int /\ end \in Int /\ end - (start + 1) + 1 = load + LastDate
          /\ ~ (start + 1 > end)
      BY <1>1, <1>2, <1>3
    <3> HIDE DEF start, load, end
    <3> QED BY <3>1, FS_Interval
  <2>2. IsFiniteSet(SeriesDays) /\ Cardinality(SeriesDays) = LastDate
    <3>1. LastDate - 1 + 1 = LastDate /\ ~ (1 > LastDate) /\ LastDate \in Int /\ 1 \in Int
      BY <1>1
    <3>2. IsFiniteSet(1..LastDate) /\ Cardinality(1..LastDate) = LastDate
      BY <3>1, FS_Interval
    <3> QED BY <3>2 DEF SeriesDays
  <2>3. IsFiniteSet(off) /\ Cardinality(off) <= LastDate
    BY <2>2, FS_Subset
  <2>4. WorkedSince(closed, start, end) = all \ off
    BY DEF WorkedSince
  <2>5. all \cap off = off
    OBVIOUS
  <2> HIDE DEF all, off
  <2>6. Cardinality(all \ off) = Cardinality(all) - Cardinality(off)
    <3>1. Cardinality(all \ off) = Cardinality(all) - Cardinality(all \cap off)
      BY <2>1, FS_Difference
    <3> QED BY <3>1, <2>5
  <2>7. Cardinality(off) \in Nat
    BY <2>3, FS_CardinalityType
  <2>8. C(end) = Cardinality(all \ off)
    BY <2>4 DEF Count
  <2> HIDE DEF C, load
  <2> QED BY <2>1, <2>3, <2>6, <2>7, <2>8, <1>1, <1>2
<1>6. DueDate(plan, closed) = CHOOSE d \in start..end : Reached(d)
  <2>1. ASSUME NEW T PROVE Worked(closed)!Cardinality(T) = Cardinality(T)
    BY Zenon DEF Worked!Cardinality, Cardinality
  <2>2. DueDate(plan, closed)
          = CHOOSE d \in start..end :
                d \notin closed
                /\ Worked(closed)!Cardinality({e \in (start + 1)..d : e \notin closed}) = load
    BY DEF DueDate, Worked!DueDateFor, Worked!IsWorkingDay, Worked!WorkingDaysAfter
  <2> QED BY <2>1, <2>2 DEF Count, WorkedSince
<1> HIDE DEF C, load, end
<1>7. PICK m \in S : \A k \in S : m <= k
  <2>1. S \in SUBSET Nat /\ end \in S
    BY <1>3, <1>5
  <2> QED BY <2>1, Least
<1>8. m \in (start + 1)..end /\ m - 1 \in start..end /\ m - 1 \notin S
  <2>1. m \in Nat /\ m >= start /\ m <= end /\ C(m) >= load
    BY <1>3, <1>7
  <2>2. m # start
    BY <1>2, <1>4, <2>1
  <2>3. m \in (start + 1)..end /\ m - 1 \in start..end /\ ~ (m <= m - 1)
    BY <1>3, <2>1, <2>2
  <2>4. m - 1 \notin S
    BY <1>7, <2>3
  <2> QED BY <2>3, <2>4
<1>9. C(m - 1) < load /\ C(m) >= load /\ C(m - 1) \in Nat
  BY <1>2, <1>3, <1>4, <1>7, <1>8
<1>10. Reached(m)
  BY <1>2, <1>4, <1>8, <1>9
<1>11. \E d \in start..end : Reached(d)
  BY <1>7, <1>10
<1>12. DueDate(plan, closed) \in start..end /\ Reached(DueDate(plan, closed))
  BY <1>6, <1>11
<1> QED BY <1>12, <1>3 DEF C, load

-----------------------------------------------------------------------------
(* The daily series *)

\* An assignment as the committed rows can be.
Assignments ==
    [start: SeriesDays, load: Nat \ {0}, due: Nat,
     completed: SeriesDays \cup {Absent}, closed: SUBSET SeriesDays,
     entries: [SeriesDays -> Reported \cup {Absent}]]

\* The row of a day, from the figures of the day before.
RowAfter(a, d, before) ==
    LET seen == d \in DOMAIN a.entries /\ a.entries[d] # Absent
        elapsed == before.elapsed +
                   (IF d > a.start /\ d \notin a.closed THEN 1 ELSE 0)
    IN [working |-> d \notin a.closed,
        observed |-> seen,
        percentage |-> IF seen THEN a.entries[d] ELSE before.percentage,
        due |-> a.due,
        planned |-> a.load,
        elapsed |-> elapsed,
        remaining |-> Larger(0, a.load - OneDay * elapsed),
        overdue |-> Larger(0, elapsed - WholeDays(a.load))]

Before(a, d, rows) ==
    IF d = a.start THEN [elapsed |-> 0, percentage |-> 0] ELSE rows[d - 1]

SeenSince(a, d) == {e \in a.start..d : e \in SeriesDays /\ a.entries[e] # Absent}

PercentageOn(a, d) ==
    IF SeenSince(a, d) = {} THEN 0 ELSE a.entries[Latest(SeenSince(a, d))]

LEMMA SeriesDaysAreNaturals ==
    /\ \A d \in SeriesDays : d \in Nat /\ d \in Int /\ d # 0 /\ d <= LastDate
    /\ \A d \in Int : 1 <= d /\ d <= LastDate => d \in SeriesDays
    /\ LastDate \in SeriesDays /\ LastDate \in Nat
BY SeriesAssumption DEF SeriesDays

LEMMA AssignmentsAre ==
    ASSUME NEW a \in Assignments
    PROVE  /\ a.start \in SeriesDays /\ a.start \in Nat /\ a.start # 0 /\ a.start \in Int
           /\ a.load \in Nat \ {0} /\ a.due \in Nat
           /\ a.completed = Absent \/ a.completed \in SeriesDays
           /\ a.closed \in SUBSET SeriesDays
           /\ a.entries \in [SeriesDays -> Reported \cup {Absent}]
           /\ DOMAIN a.entries = SeriesDays
<1>1. /\ a.start \in SeriesDays /\ a.load \in Nat \ {0} /\ a.due \in Nat
      /\ a.completed \in SeriesDays \cup {Absent}
      /\ a.closed \in SUBSET SeriesDays
      /\ a.entries \in [SeriesDays -> Reported \cup {Absent}]
  BY DEF Assignments
<1> QED BY <1>1, SeriesDaysAreNaturals

LEMMA EndIsADay ==
    ASSUME NEW a \in Assignments, NEW day \in SeriesDays
    PROVE  SeriesEnd(a, day) \in SeriesDays /\ SeriesEnd(a, day) >= a.start
<1>1. a.start \in SeriesDays /\ (a.completed = Absent \/ a.completed \in SeriesDays)
  BY AssignmentsAre
<1> DEFINE last == IF a.completed = Absent THEN day ELSE Smaller(day, a.completed)
<1>2. last \in SeriesDays
  BY <1>1 DEF Smaller
<1>3. SeriesEnd(a, day) = Larger(a.start, last)
  BY DEF SeriesEnd
<1> HIDE DEF last
<1>4. last \in Nat /\ a.start \in Nat
  BY <1>1, <1>2, SeriesDaysAreNaturals
<1>5. SeriesEnd(a, day) = (IF a.start > last THEN a.start ELSE last)
  BY <1>3 DEF Larger
<1> QED BY <1>1, <1>2, <1>4, <1>5

\* The last entry is that of the day, or the one the day before showed.
LEMMA PercentageIsCarried ==
    ASSUME NEW a \in Assignments, NEW d \in SeriesDays, d >= a.start
    PROVE  /\ d \in SeenSince(a, d) <=> a.entries[d] # Absent
           /\ a.entries[d] # Absent => PercentageOn(a, d) = a.entries[d]
           /\ a.entries[d] = Absent /\ d = a.start => PercentageOn(a, d) = 0
           /\ a.entries[d] = Absent /\ d > a.start => PercentageOn(a, d) = PercentageOn(a, d - 1)
           /\ PercentageOn(a, d) \in Reported \cup {0}
<1>1. a.start \in SeriesDays /\ a.entries \in [SeriesDays -> Reported \cup {Absent}]
  BY DEF Assignments
<1>2. a.start \in Nat /\ d \in Nat /\ d # 0
  BY <1>1, SeriesDaysAreNaturals
<1>3. d \in SeenSince(a, d) <=> a.entries[d] # Absent
  BY <1>2 DEF SeenSince
<1>4. SeenSince(a, d) \in SUBSET (0..d) /\ SeenSince(a, d) \subseteq SeriesDays
  BY <1>2 DEF SeenSince
<1>5. SeenSince(a, d) # {} =>
         /\ Latest(SeenSince(a, d)) \in SeenSince(a, d)
         /\ \A k \in SeenSince(a, d) : k <= Latest(SeenSince(a, d))
  <2> DEFINE S == SeenSince(a, d)
  <2>1. S \in SUBSET (0..d)
    BY <1>4
  <2> HIDE DEF S
  <2>2. S # {} => Latest(S) \in S /\ \A k \in S : k <= Latest(S)
    BY <2>1, <1>2, LatestIsLast
  <2> QED BY <2>2 DEF S
<1>6. ASSUME a.entries[d] # Absent PROVE PercentageOn(a, d) = a.entries[d]
  <2>1. SeenSince(a, d) # {} /\ d <= Latest(SeenSince(a, d))
        /\ Latest(SeenSince(a, d)) \in 0..d
    BY <1>3, <1>4, <1>5, <1>6
  <2>2. Latest(SeenSince(a, d)) = d
    BY <2>1, <1>2
  <2> QED BY <2>1, <2>2 DEF PercentageOn
<1>7. ASSUME a.entries[d] = Absent, d = a.start PROVE PercentageOn(a, d) = 0
  <2>1. SeenSince(a, d) = {}
    BY <1>2, <1>7 DEF SeenSince
  <2> QED BY <2>1 DEF PercentageOn
<1>8. ASSUME a.entries[d] = Absent, d > a.start
      PROVE  PercentageOn(a, d) = PercentageOn(a, d - 1)
  <2>1. SeenSince(a, d) = SeenSince(a, d - 1)
    BY <1>2, <1>8 DEF SeenSince
  <2> QED BY <2>1 DEF PercentageOn
<1>9. PercentageOn(a, d) \in Reported \cup {0}
  <2>1. CASE SeenSince(a, d) = {}
    BY <2>1 DEF PercentageOn
  <2>2. CASE SeenSince(a, d) # {}
    <3>1. Latest(SeenSince(a, d)) \in SeriesDays /\ a.entries[Latest(SeenSince(a, d))] # Absent
      BY <2>2, <1>5 DEF SeenSince
    <3>2. a.entries[Latest(SeenSince(a, d))] \in Reported
      BY <3>1, <1>1
    <3> QED BY <3>2, <2>2 DEF PercentageOn
  <2> QED BY <2>1, <2>2
<1> QED BY <1>3, <1>6, <1>7, <1>8, <1>9

\* The figures of a day that the true row is made of.
LEMMA TrueRowIs ==
    ASSUME NEW a \in Assignments, NEW d \in SeriesDays
    PROVE  TrueRow(a, d) =
              [percentage |-> PercentageOn(a, d),
               elapsed |-> Count(a.closed, a.start, d),
               working |-> d \notin a.closed,
               observed |-> d \in SeenSince(a, d),
               due |-> a.due,
               planned |-> a.load,
               remaining |-> Larger(0, a.load - OneDay * Count(a.closed, a.start, d)),
               overdue |-> Larger(0, Count(a.closed, a.start, d) - WholeDays(a.load))]
<1> DEFINE n == Count(a.closed, a.start, d)
<1>1. a.start \in Int /\ d \in Int /\ a.load \in Nat
  BY SeriesDaysAreNaturals, AssignmentsAre
<1>2. n \in Nat
  BY <1>1, CountsOneByOne
<1>3. WholeDays(a.load) \in Nat
  BY <1>1 DEF WholeDays, OneDay
<1>4. BusinessDaysBetween(a, a.start, d) = n
  BY DEF BusinessDaysBetween, Count, WorkedSince
<1>5. PercentageOn(a, d)
        = IF SeenSince(a, d) = {} THEN 0
          ELSE a.entries[CHOOSE e \in SeenSince(a, d) : \A f \in SeenSince(a, d) : f <= e]
  BY DEF PercentageOn, Latest
<1>6. TrueRow(a, d) =
              [percentage |-> PercentageOn(a, d),
               elapsed |-> n,
               working |-> d \notin a.closed,
               observed |-> d \in SeenSince(a, d),
               due |-> a.due,
               planned |-> a.load,
               remaining |-> IF OneDay * n > a.load THEN 0 ELSE a.load - OneDay * n,
               overdue |-> IF n > WholeDays(a.load) THEN n - WholeDays(a.load) ELSE 0]
  BY <1>4, <1>5 DEF TrueRow, SeenSince
<1> HIDE DEF n
<1>7. /\ (IF OneDay * n > a.load THEN 0 ELSE a.load - OneDay * n) = Larger(0, a.load - OneDay * n)
      /\ (IF n > WholeDays(a.load) THEN n - WholeDays(a.load) ELSE 0)
           = Larger(0, n - WholeDays(a.load))
  BY <1>1, <1>2, <1>3 DEF Larger, OneDay
<1>8. QED BY <1>6, <1>7 DEF n

\* The true row of a day follows from the true row of the day before.
LEMMA TrueRowsFollow ==
    ASSUME NEW a \in Assignments, NEW d \in SeriesDays, d >= a.start, NEW rows,
           d > a.start => rows[d - 1] = TrueRow(a, d - 1)
    PROVE  TrueRow(a, d) = RowAfter(a, d, Before(a, d, rows))
<1>1. /\ a.start \in SeriesDays /\ a.start \in Int /\ d \in Int
      /\ DOMAIN a.entries = SeriesDays
  BY SeriesDaysAreNaturals, AssignmentsAre
<1> DEFINE b == Before(a, d, rows)
           n == Count(a.closed, a.start, d)
<1>2. /\ b.elapsed = IF d = a.start THEN 0 ELSE Count(a.closed, a.start, d - 1)
      /\ b.percentage = IF d = a.start THEN 0 ELSE PercentageOn(a, d - 1)
  <2>1. CASE d = a.start
    BY <2>1 DEF Before
  <2>2. CASE d # a.start
    <3>1. d > a.start /\ d - 1 \in SeriesDays
      BY <2>2, <1>1, SeriesDaysAreNaturals DEF SeriesDays
    <3>2. b = TrueRow(a, d - 1)
      BY <3>1, <2>2 DEF Before
    <3> HIDE DEF b
    <3> DEFINE c == d - 1
    <3>3. c \in SeriesDays /\ b = TrueRow(a, c)
      BY <3>1, <3>2
    <3> HIDE DEF c
    <3>4. b.elapsed = Count(a.closed, a.start, c) /\ b.percentage = PercentageOn(a, c)
      BY <3>3, TrueRowIs
    <3> QED BY <3>4, <2>2 DEF c
  <2> QED BY <2>1, <2>2
<1>3. b.elapsed + (IF d > a.start /\ d \notin a.closed THEN 1 ELSE 0) = n
  <2>1. CASE d = a.start
    BY <2>1, <1>1, <1>2, CountsOneByOne
  <2>2. CASE d # a.start
    <3>1. d > a.start
      BY <2>2, <1>1
    <3>2. n = Count(a.closed, a.start, d - 1) + (IF d \in a.closed THEN 0 ELSE 1)
      <4> DEFINE s == a.start
                 k == a.closed
      <4>1. s \in Int
        BY <1>1
      <4> HIDE DEF s, k
      <4>2. \A c \in Int : c > s => Count(k, s, c)
                       = Count(k, s, c - 1) + (IF c \in k THEN 0 ELSE 1)
        BY <4>1, CountsOneByOne
      <4> QED BY <4>2, <3>1, <1>1 DEF s, k
    <3> HIDE DEF b, n
    <3> QED BY <3>1, <3>2, <1>2, <2>2
  <2> QED BY <2>1, <2>2
<1>4. (d \in DOMAIN a.entries /\ a.entries[d] # Absent) <=> d \in SeenSince(a, d)
  BY <1>1, PercentageIsCarried
<1>5. PercentageOn(a, d)
        = IF d \in DOMAIN a.entries /\ a.entries[d] # Absent THEN a.entries[d] ELSE b.percentage
  <2> HIDE DEF b
  <2> QED BY <1>1, <1>2, PercentageIsCarried
<1> HIDE DEF b, n
<1>6. RowAfter(a, d, b) =
              [percentage |-> PercentageOn(a, d),
               elapsed |-> n,
               working |-> d \notin a.closed,
               observed |-> d \in SeenSince(a, d),
               due |-> a.due,
               planned |-> a.load,
               remaining |-> Larger(0, a.load - OneDay * n),
               overdue |-> Larger(0, n - WholeDays(a.load))]
  BY <1>3, <1>4, <1>5 DEF RowAfter
<1> QED BY <1>6, TrueRowIs DEF b, n

\* Carrying the figures from one day to the next gives what the entries and
\* the calendar say of each.
THEOREM RowsAreTrue ==
    ASSUME NEW a \in Assignments, NEW day \in SeriesDays
    PROVE  DailyRows(a, day) = [d \in a.start..SeriesEnd(a, day) |-> TrueRow(a, d)]
<1> DEFINE S == a.start..SeriesEnd(a, day)
           R == DailyRows(a, day)
           G == [d \in S |-> TrueRow(a, d)]
<1>1. S \subseteq SeriesDays /\ S \subseteq Nat
  <2>1. SeriesEnd(a, day) \in SeriesDays /\ a.start \in SeriesDays
    BY EndIsADay, AssignmentsAre
  <2> DEFINE end == SeriesEnd(a, day)
             start == a.start
  <2>2. end \in SeriesDays /\ start \in SeriesDays
    BY <2>1
  <2> HIDE DEF end, start
  <2>3. end \in Int /\ end <= LastDate /\ start \in Int /\ 1 <= start /\ LastDate \in Int
    BY <2>2, SeriesDaysAreNaturals
  <2>4. ASSUME NEW d \in start..end PROVE d \in Nat /\ d \in Int /\ 1 <= d /\ d <= LastDate
    BY <2>3
  <2>5. \A d \in start..end : d \in SeriesDays /\ d \in Nat
    BY <2>4, SeriesDaysAreNaturals
  <2> QED BY <2>5 DEF start, end
<1> /\ a.start \in Nat
  BY AssignmentsAre
<1> SeriesEnd(a, day) \in Int
  BY EndIsADay, SeriesDaysAreNaturals
<1>2. R = CHOOSE f : f = [d \in S |-> RowAfter(a, d, Before(a, d, f))]
  BY DEF DailyRows, RowAfter, Before
<1>3. G = [d \in S |-> RowAfter(a, d, Before(a, d, G))]
  <2>1. ASSUME NEW d \in S PROVE G[d] = RowAfter(a, d, Before(a, d, G))
    <3>1. d \in SeriesDays /\ d >= a.start /\ a.start \in Nat /\ d \in Nat
      BY <1>1
    <3>2. d > a.start => G[d - 1] = TrueRow(a, d - 1)
      BY <3>1
    <3> HIDE DEF G
    <3>3. TrueRow(a, d) = RowAfter(a, d, Before(a, d, G))
      BY <3>1, <3>2, TrueRowsFollow
    <3> QED BY <3>3 DEF G
  <2> QED BY <2>1
<1> HIDE DEF R, G
<1>4. \E f : f = [d \in S |-> RowAfter(a, d, Before(a, d, f))]
  BY <1>3
<1>5. R = [d \in S |-> RowAfter(a, d, Before(a, d, R))]
  BY <1>2, <1>4
<1>6. \A d \in S : R[d] = G[d]
  <2> DEFINE Wrong == {d \in S : R[d] # G[d]}
  <2>1. SUFFICES ASSUME Wrong # {} PROVE FALSE
    OBVIOUS
  <2>2. PICK m \in Wrong : \A k \in Wrong : m <= k
    BY <2>1, <1>1, Least
  <2>3. m \in S /\ m \in Nat /\ a.start \in Nat /\ a.start <= m
    BY <1>1
  <2>4. Before(a, m, R) = Before(a, m, G)
    <3>1. CASE m = a.start
      BY <3>1 DEF Before
    <3>2. CASE m # a.start
      <4>1. m - 1 \in S /\ ~ (m <= m - 1)
        BY <2>3, <3>2
      <4>2. R[m - 1] = G[m - 1]
        BY <4>1, <2>2
      <4> QED BY <4>2, <3>2 DEF Before
    <3> QED BY <3>1, <3>2
  <2>5. R[m] = RowAfter(a, m, Before(a, m, R))
    BY <1>5, <2>3
  <2>6. G[m] = RowAfter(a, m, Before(a, m, G))
    BY <1>3, <2>3
  <2> QED BY <2>2, <2>4, <2>5, <2>6
<1>7. DOMAIN R = S /\ DOMAIN G = S /\ R = [d \in S |-> R[d]] /\ G = [d \in S |-> G[d]]
  <2>1. R = [d \in S |-> R[d]]
    BY <1>5
  <2>2. G = [d \in S |-> G[d]]
    BY <1>3
  <2> QED BY <2>1, <2>2, <1>3, <1>5
<1>8. [d \in S |-> R[d]] = [d \in S |-> G[d]]
  BY <1>6
<1>9. R = G
  BY <1>7, <1>8
<1> QED BY <1>9 DEF R, G

-----------------------------------------------------------------------------
(* The inductive invariant *)

CacheTyped ==
    /\ localdate \in SeriesDays
    /\ task \in Assignments
    /\ writing # Absent => writing \in [to: Assignments, erased: BOOLEAN]
    /\ DOMAIN reads = Readers
    /\ \A r \in Readers : reads[r] # Absent =>
          reads[r] \in [day: SeriesDays, of: Assignments, rows: {reads[r].rows}]
    /\ origin \in {"sound", "early", "stale"}

\* What no write has overtaken is read from the committed rows.
ReadersAreSound ==
    \A r \in Readers : reads[r] # Absent /\ r \notin overtaken =>
        /\ reads[r].of = task
        /\ reads[r].rows # Absent => reads[r].rows = DailyRows(task, reads[r].day)

\* A row that the transaction under way does not delete came after it began.
SoundRowsAreErased ==
    writing # Absent /\ seriesCache # Absent /\ origin = "sound" => writing.erased

\* What is stored and not stale is the series of the committed rows, computed
\* on some day.
StoredRowsAreSound ==
    seriesCache # Absent /\ origin # "stale" =>
        \E day \in SeriesDays :
            /\ seriesCache.through = SeriesEnd(task, day)
            /\ seriesCache.rows = DailyRows(task, day)

CacheInv == CacheTyped /\ ReadersAreSound /\ SoundRowsAreErased /\ StoredRowsAreSound

-----------------------------------------------------------------------------
(* Writes *)

LEMMA PlansAre ==
    ASSUME NEW plan \in Plans
    PROVE  plan.start \in SeriesDays /\ plan.load \in Nat \ {0}
           /\ \A closed \in SUBSET SeriesDays : DueDate(plan, closed) \in Nat
<1>1. plan.start \in SeriesDays /\ plan.load \in Nat \ {0}
  BY SeriesAssumption DEF SeriesDays
<1>2. ASSUME NEW closed \in SUBSET SeriesDays PROVE DueDate(plan, closed) \in Nat
  BY <1>1, DueDateIsWorked, SeriesDaysAreNaturals
<1> QED BY <1>1, <1>2

\* An assignment is again one after a change of some of its figures.
LEMMA ChangedAssignment ==
    ASSUME NEW a \in Assignments, NEW start \in SeriesDays, NEW load \in Nat \ {0},
           NEW due \in Nat, NEW completed \in SeriesDays \cup {Absent},
           NEW closed \in SUBSET SeriesDays,
           NEW entries \in [SeriesDays -> Reported \cup {Absent}]
    PROVE  /\ [a EXCEPT !.start = start, !.load = load, !.due = due] \in Assignments
           /\ [a EXCEPT !.completed = completed] \in Assignments
           /\ [a EXCEPT !.closed = closed] \in Assignments
           /\ [a EXCEPT !.entries = entries, !.completed = completed] \in Assignments
           /\ [a EXCEPT !.entries = entries, !.closed = closed] \in Assignments
BY DEF Assignments

LEMMA InitEstablishesCacheInv ==
    ASSUME CacheInit
    PROVE  CacheInv
<1>1. PICK plan \in Plans :
         task = [start |-> plan.start, load |-> plan.load, due |-> DueDate(plan, {}),
                 completed |-> Absent, closed |-> {},
                 entries |-> [d \in SeriesDays |-> Absent]]
  BY DEF CacheInit
<1>2. task \in Assignments
  <2>1. plan.start \in SeriesDays /\ plan.load \in Nat \ {0} /\ DueDate(plan, {}) \in Nat
    BY PlansAre
  <2>2. [d \in SeriesDays |-> Absent] \in [SeriesDays -> Reported \cup {Absent}]
    OBVIOUS
  <2> QED BY <1>1, <2>1, <2>2 DEF Assignments
<1>3. 1 \in SeriesDays
  BY SeriesAssumption DEF SeriesDays
<1>4. CacheTyped
  BY <1>2, <1>3 DEF CacheInit, CacheTyped
<1> QED BY <1>4 DEF CacheInit, CacheInv, ReadersAreSound, SoundRowsAreErased, StoredRowsAreSound

\* A transaction that begins changes nothing that is committed and deletes the
\* row if there is one.
LEMMA BeginKeepsCacheInv ==
    ASSUME CacheInv, NEW new \in Assignments, Begin(new)
    PROVE  CacheInv'
<1>1. /\ writing' = [to |-> new, erased |-> seriesCache # Absent]
      /\ UNCHANGED <<localdate, task, seriesCache, reads, overtaken, origin>>
  BY DEF Begin
<1>2. CacheTyped'
  <2>1. (seriesCache # Absent) \in BOOLEAN
    OBVIOUS
  <2>2. writing' \in [to: Assignments, erased: BOOLEAN]
    BY <1>1, <2>1
  <2> QED BY <1>1, <2>2 DEF CacheInv, CacheTyped
<1>3. SoundRowsAreErased'
  BY <1>1 DEF SoundRowsAreErased
<1> QED BY <1>1, <1>2, <1>3 DEF CacheInv, ReadersAreSound, StoredRowsAreSound

LEMMA WritesKeepCacheInv ==
    ASSUME CacheInv,
           \/ \E d \in SeriesDays, p \in Reported : Report(d, p)
           \/ Complete
           \/ \E plan \in Plans : Reschedule(plan)
           \/ \E d \in Holiday : EditCalendar(d)
    PROVE  CacheInv'
<1>1. /\ task \in Assignments /\ localdate \in SeriesDays
      /\ task.completed \in SeriesDays \cup {Absent}
      /\ task.closed \in SUBSET SeriesDays
      /\ task.entries \in [SeriesDays -> Reported \cup {Absent}]
      /\ task.start \in SeriesDays /\ task.load \in Nat \ {0} /\ task.due \in Nat
  <2>1. task \in Assignments /\ localdate \in SeriesDays
    BY DEF CacheInv, CacheTyped
  <2> QED BY <2>1, AssignmentsAre
<1>2. ASSUME NEW d \in SeriesDays, NEW p \in Reported, Report(d, p) PROVE CacheInv'
  <2> DEFINE entries == [task.entries EXCEPT ![d] = p]
             completed == IF p = 100 THEN task.completed ELSE Absent
             new == [task EXCEPT !.entries = entries, !.completed = completed]
  <2>1. entries \in [SeriesDays -> Reported \cup {Absent}]
        /\ completed \in SeriesDays \cup {Absent}
    BY <1>1
  <2>2. Begin(new)
    BY <1>2 DEF Report
  <2> HIDE DEF entries, completed
  <2>3. new \in Assignments
    BY <1>1, <2>1, ChangedAssignment
  <2> HIDE DEF new
  <2> QED BY <2>2, <2>3, BeginKeepsCacheInv
<1>3. ASSUME Complete PROVE CacheInv'
  <2> DEFINE new == [task EXCEPT !.completed = localdate]
  <2>1. new \in Assignments
    BY <1>1, ChangedAssignment
  <2>2. Begin(new)
    BY <1>3 DEF Complete
  <2> HIDE DEF new
  <2> QED BY <2>1, <2>2, BeginKeepsCacheInv
<1>4. ASSUME NEW plan \in Plans, Reschedule(plan) PROVE CacheInv'
  <2> DEFINE start == plan.start
             load == plan.load
             due == DueDate(plan, task.closed)
             new == [task EXCEPT !.start = start, !.load = load, !.due = due]
  <2>1. start \in SeriesDays /\ load \in Nat \ {0} /\ due \in Nat
    BY <1>1, PlansAre
  <2>2. Begin(new)
    BY <1>4 DEF Reschedule
  <2> HIDE DEF start, load, due
  <2>3. new \in Assignments
    BY <1>1, <2>1, ChangedAssignment
  <2> HIDE DEF new
  <2> QED BY <2>2, <2>3, BeginKeepsCacheInv
<1>5. ASSUME NEW d \in Holiday, EditCalendar(d) PROVE CacheInv'
  <2> DEFINE closed == IF d \in task.closed THEN task.closed \ {d} ELSE task.closed \cup {d}
             new == [task EXCEPT !.closed = closed]
  <2>1. d \in SeriesDays
    BY SeriesAssumption DEF SeriesDays
  <2>2. closed \in SUBSET SeriesDays
    BY <1>1, <2>1
  <2>3. Begin(new)
    BY <1>5 DEF EditCalendar
  <2> HIDE DEF closed
  <2>4. new \in Assignments
    BY <1>1, <2>2, ChangedAssignment
  <2> HIDE DEF new
  <2> QED BY <2>3, <2>4, BeginKeepsCacheInv
<1> QED BY <1>2, <1>3, <1>4, <1>5

\* A commit leaves no sound row: one that it does not delete came after it
\* began.  Every reader is overtaken.
LEMMA CommitKeepsCacheInv ==
    ASSUME CacheInv, Commit
    PROVE  CacheInv'
<1>1. /\ writing # Absent /\ task' = writing.to /\ writing' = Absent
      /\ seriesCache' = (IF writing.erased THEN Absent ELSE seriesCache)
      /\ origin' = (IF seriesCache' # Absent /\ origin # "sound" THEN "stale" ELSE "sound")
      /\ overtaken' = {r \in Readers : reads[r] # Absent}
      /\ UNCHANGED <<localdate, writes, reads>>
  BY DEF Commit
<1>2. CacheTyped'
  BY <1>1 DEF CacheInv, CacheTyped
<1>3. ReadersAreSound'
  BY <1>1 DEF ReadersAreSound
<1>4. StoredRowsAreSound'
  <2>1. seriesCache' # Absent => origin # "sound"
    BY <1>1 DEF CacheInv, SoundRowsAreErased
  <2> QED BY <1>1, <2>1 DEF StoredRowsAreSound
<1> QED BY <1>1, <1>2, <1>3, <1>4 DEF CacheInv, SoundRowsAreErased

-----------------------------------------------------------------------------
(* Readers *)

LEMMA OpenKeepsCacheInv ==
    ASSUME CacheInv, NEW r \in Readers, Open(r)
    PROVE  CacheInv'
<1> DEFINE opened == [day |-> localdate, of |-> task, rows |-> Absent]
<1>1. /\ reads' = [reads EXCEPT ![r] = opened]
      /\ overtaken' = overtaken \ {r}
      /\ UNCHANGED <<localdate, task, writing, writes, seriesCache, origin>>
  BY DEF Open
<1>2. CacheTyped /\ ReadersAreSound
  BY DEF CacheInv
<1>3. /\ DOMAIN reads' = Readers /\ reads'[r] = opened
      /\ \A q \in Readers : q # r => reads'[q] = reads[q]
  BY <1>1, <1>2 DEF CacheTyped
<1>4. opened \in [day: SeriesDays, of: Assignments, rows: {opened.rows}]
  BY <1>2 DEF CacheTyped
<1>5. opened.of = task /\ opened.rows = Absent
  OBVIOUS
<1> HIDE DEF opened
<1>6. CacheTyped'
  BY <1>1, <1>2, <1>3, <1>4 DEF CacheTyped
<1>7. ReadersAreSound'
  BY <1>1, <1>2, <1>3, <1>5 DEF ReadersAreSound
<1> QED BY <1>1, <1>6, <1>7 DEF CacheInv, SoundRowsAreErased, StoredRowsAreSound

LEMMA ComputeKeepsCacheInv ==
    ASSUME CacheInv, NEW r \in Readers, Compute(r)
    PROVE  CacheInv'
<1> DEFINE a == [reads[r].of EXCEPT !.entries = task.entries, !.closed = task.closed]
           rows == DailyRows(a, reads[r].day)
           read == [reads[r] EXCEPT !.rows = rows]
<1>1. /\ reads[r] # Absent
      /\ reads' = [reads EXCEPT ![r] = read]
      /\ UNCHANGED <<localdate, task, writing, writes, seriesCache, overtaken, origin>>
  BY DEF Compute
<1>2. CacheTyped /\ ReadersAreSound
  BY DEF CacheInv
<1>3. reads[r] \in [day: SeriesDays, of: Assignments, rows: {reads[r].rows}]
      /\ task \in Assignments
  BY <1>1, <1>2 DEF CacheTyped
<1>4. r \notin overtaken => a = task
  <2>1. r \notin overtaken => reads[r].of = task
    BY <1>1, <1>2 DEF ReadersAreSound
  <2>2. [task EXCEPT !.entries = task.entries, !.closed = task.closed] = task
    BY <1>3 DEF Assignments
  <2> QED BY <2>1, <2>2
<1>5. read \in [day: SeriesDays, of: Assignments, rows: {read.rows}]
      /\ read.of = reads[r].of /\ read.day = reads[r].day /\ read.rows = rows
  <2> HIDE DEF rows
  <2> QED BY <1>3
<1>6. /\ DOMAIN reads' = Readers /\ reads'[r] = read
      /\ \A q \in Readers : q # r => reads'[q] = reads[q]
  BY <1>1, <1>2 DEF CacheTyped
<1>7. r \notin overtaken => rows = DailyRows(task, read.day) /\ read.of = task
  <2> HIDE DEF a
  <2> QED BY <1>1, <1>2, <1>4, <1>5 DEF ReadersAreSound
<1> HIDE DEF a, rows, read
<1>8. CacheTyped'
  BY <1>1, <1>2, <1>5, <1>6 DEF CacheTyped
<1>9. ReadersAreSound'
  BY <1>1, <1>2, <1>5, <1>6, <1>7 DEF ReadersAreSound
<1> QED BY <1>1, <1>8, <1>9 DEF CacheInv, SoundRowsAreErased, StoredRowsAreSound

LEMMA StoreKeepsCacheInv ==
    ASSUME CacheInv, NEW r \in Readers, Store(r)
    PROVE  CacheInv'
<1>1. /\ reads[r] # Absent /\ reads[r].rows # Absent
      /\ writing # Absent => ~ writing.erased
      /\ seriesCache' = [through |-> SeriesEnd(reads[r].of, reads[r].day),
                         rows |-> reads[r].rows]
      /\ reads' = [reads EXCEPT ![r] = Absent]
      /\ overtaken' = overtaken \ {r}
      /\ UNCHANGED <<localdate, task, writing, writes>>
  BY DEF Store
<1>2. /\ r \in overtaken => origin' = "stale"
      /\ r \notin overtaken /\ writing # Absent => origin' = "early"
      /\ r \notin overtaken /\ writing = Absent => origin' = "sound"
  BY DEF Store
<1>3. CacheTyped /\ ReadersAreSound
  BY DEF CacheInv
<1>4. /\ DOMAIN reads' = Readers /\ reads'[r] = Absent
      /\ \A q \in Readers : q # r => reads'[q] = reads[q]
  BY <1>1, <1>3 DEF CacheTyped
<1>5. CacheTyped'
  BY <1>1, <1>2, <1>3, <1>4 DEF CacheTyped
<1>6. ReadersAreSound'
  BY <1>1, <1>3, <1>4 DEF ReadersAreSound
<1>7. SoundRowsAreErased'
  BY <1>1, <1>2 DEF SoundRowsAreErased
<1>8. StoredRowsAreSound'
  <2>1. SUFFICES ASSUME r \notin overtaken
                 PROVE  \E day \in SeriesDays :
                          /\ seriesCache'.through = SeriesEnd(task, day)
                          /\ seriesCache'.rows = DailyRows(task, day)
    BY <1>1, <1>2 DEF StoredRowsAreSound
  <2>2. reads[r].of = task /\ reads[r].rows = DailyRows(task, reads[r].day)
    BY <2>1, <1>1, <1>3 DEF ReadersAreSound
  <2>3. reads[r].day \in SeriesDays
    BY <1>1, <1>3 DEF CacheTyped
  <2>4. /\ seriesCache'.through = SeriesEnd(task, reads[r].day)
        /\ seriesCache'.rows = DailyRows(task, reads[r].day)
    BY <1>1, <2>2
  <2> QED BY <2>3, <2>4
<1> QED BY <1>5, <1>6, <1>7, <1>8 DEF CacheInv

-----------------------------------------------------------------------------
(* Theorems *)

LEMMA NextKeepsCacheInv ==
    ASSUME CacheInv, [CacheNext]_cacheVars
    PROVE  CacheInv'
<1>1. CASE UNCHANGED cacheVars
  BY <1>1 DEF cacheVars, CacheInv, CacheTyped, ReadersAreSound, SoundRowsAreErased, 
              StoredRowsAreSound
<1>2. CASE \/ \E d \in SeriesDays, p \in Reported : Report(d, p)
           \/ Complete
           \/ \E plan \in Plans : Reschedule(plan)
           \/ \E d \in Holiday : EditCalendar(d)
  BY <1>2, WritesKeepCacheInv
<1>3. CASE Commit
  BY <1>3, CommitKeepsCacheInv
<1>4. CASE \E r \in Readers : Miss(r) \/ Refresh(r)
  BY <1>4, OpenKeepsCacheInv DEF Miss, Refresh
<1>5. CASE \E r \in Readers : Compute(r)
  BY <1>5, ComputeKeepsCacheInv
<1>6. CASE \E r \in Readers : Store(r)
  BY <1>6, StoreKeepsCacheInv
<1>7. CASE ClearCaches
  BY <1>7 DEF ClearCaches, CacheInv, CacheTyped, ReadersAreSound, SoundRowsAreErased, 
              StoredRowsAreSound
<1>8. CASE NextDate
  BY <1>8 DEF NextDate, CacheInv, CacheTyped, ReadersAreSound, SoundRowsAreErased, 
              StoredRowsAreSound
<1> QED BY <1>1, <1>2, <1>3, <1>4, <1>5, <1>6, <1>7, <1>8 DEF CacheNext

LEMMA CacheInvariant == CacheSpec => []CacheInv
<1>1. CacheInit => CacheInv
  BY InitEstablishesCacheInv
<1>2. CacheInv /\ [CacheNext]_cacheVars => CacheInv'
  BY NextKeepsCacheInv
<1> QED BY <1>1, <1>2, PTL DEF CacheSpec

\* A stored series that is served says of every day what the committed rows
\* say, unless a write committed between what its reader read and what it
\* stored, or between the deletion of the row and the commit of the write.
THEOREM StoredSeriesAreTrue == CacheSpec => []StaleOnlyByRace
<1>1. CacheInv => StaleOnlyByRace
  <2> SUFFICES ASSUME CacheInv, Hit(task, localdate), origin # "stale"
               PROVE  seriesCache.rows
                        = [d \in task.start..SeriesEnd(task, localdate) |-> TrueRow(task, d)]
    BY DEF StaleOnlyByRace
  <2>1. task \in Assignments
    BY DEF CacheInv, CacheTyped
  <2>2. seriesCache # Absent /\ seriesCache.through = SeriesEnd(task, localdate)
    BY DEF Hit
  <2>3. PICK day \in SeriesDays : /\ seriesCache.through = SeriesEnd(task, day)
                                  /\ seriesCache.rows = DailyRows(task, day)
    BY <2>2 DEF CacheInv, StoredRowsAreSound
  <2>4. DailyRows(task, day) = [d \in task.start..SeriesEnd(task, day) |-> TrueRow(task, d)]
    BY <2>1, RowsAreTrue
  <2> QED BY <2>2, <2>3, <2>4
<1> QED BY <1>1, CacheInvariant, PTL

-----------------------------------------------------------------------------
(* The figures of one task *)

LEMMA PercentagesAreNumbers ==
    ASSUME NEW a \in Assignments
    PROVE  /\ \A d \in Int : ProgressUntil(a, d) \in 0..100
           /\ \A d \in SeriesDays : d >= a.start => PercentageOn(a, d) \in 0..100
<1>1. Reported \subseteq 0..100
  BY SeriesAssumption
<1>2. ASSUME NEW d \in Int PROVE ProgressUntil(a, d) \in 0..100
  <2> DEFINE S == RecordedUntil(a, d)
  <2>1. CASE S = {}
    BY <2>1 DEF ProgressUntil
  <2>2. CASE S # {}
    <3>1. S \in SUBSET (0..LastDate) /\ \A k \in S : k \in SeriesDays /\ a.entries[k] # Absent
      <4>1. \A k \in S : k \in SeriesDays /\ a.entries[k] # Absent
        BY AssignmentsAre DEF RecordedUntil
      <4> HIDE DEF S
      <4>2. \A k \in S : k \in 0..LastDate
        <5> TAKE k \in S
        <5>1. k \in Nat /\ k <= LastDate /\ LastDate \in Nat
          BY <4>1, SeriesDaysAreNaturals
        <5> QED BY <5>1
      <4> QED BY <4>1, <4>2
    <3>2. ProgressUntil(a, d) = a.entries[Latest(S)]
      BY <2>2 DEF ProgressUntil
    <3> HIDE DEF S
    <3>3. Latest(S) \in S
      BY <2>2, <3>1, LatestIsLast, SeriesDaysAreNaturals
    <3>4. a.entries[Latest(S)] \in Reported
      BY <3>1, <3>3, AssignmentsAre
    <3> QED BY <1>1, <3>2, <3>4
  <2> QED BY <2>1, <2>2
<1>3. ASSUME NEW d \in SeriesDays, d >= a.start PROVE PercentageOn(a, d) \in 0..100
  <2>1. PercentageOn(a, d) \in Reported \cup {0}
    BY <1>3, PercentageIsCarried
  <2> DEFINE p == PercentageOn(a, d)
  <2>2. p \in Reported \/ p = 0
    BY <2>1
  <2> HIDE DEF p
  <2>3. p \in 0..100
    <3>1. CASE p \in Reported
      BY <1>1, <3>1, Zenon
    <3>2. CASE p = 0
      BY <3>2
    <3> QED BY <2>2, <3>1, <3>2
  <2> QED BY <2>3 DEF p
<1> QED BY <1>2, <1>3

\* The last row of the series is what a chart shows of the task.
LEMMA ShownIsTheLastRow ==
    ASSUME NEW a \in Assignments, NEW day \in SeriesDays
    PROVE  LET end == SeriesEnd(a, day)
               shown == TaskProgressSeries(a, day)
           IN /\ shown.percentage = PercentageOn(a, end)
              /\ shown.overrun = Larger(0, Count(a.closed, a.start, end) - WholeDays(a.load))
              /\ shown.workload = WorkloadBreakdown(a.load, PercentageOn(a, end))
              /\ shown.level = DeadlineLevel(a, end, PercentageOn(a, end))
              /\ shown.late = Late(a, end, PercentageOn(a, end))
<1> DEFINE end == SeriesEnd(a, day)
           last == DailyRows(a, day)[end]
<1>1. end \in SeriesDays /\ end >= a.start /\ end \in Int /\ a.start \in Int
  BY EndIsADay, SeriesDaysAreNaturals, AssignmentsAre
<1>2. last = TrueRow(a, end)
  <2>1. DailyRows(a, day) = [d \in a.start..end |-> TrueRow(a, d)]
    BY RowsAreTrue
  <2> HIDE DEF end
  <2> QED BY <1>1, <2>1
<1>3. TaskProgressSeries(a, day).percentage = last.percentage
      /\ TaskProgressSeries(a, day).overrun = last.overdue
      /\ TaskProgressSeries(a, day).workload = WorkloadBreakdown(a.load, last.percentage)
      /\ TaskProgressSeries(a, day).level = DeadlineLevel(a, end, last.percentage)
      /\ TaskProgressSeries(a, day).late = Late(a, end, last.percentage)
  BY DEF TaskProgressSeries
<1> HIDE DEF end, last
<1>4. last.percentage = PercentageOn(a, end)
      /\ last.overdue = Larger(0, Count(a.closed, a.start, end) - WholeDays(a.load))
  BY <1>1, <1>2, TrueRowIs
<1> QED BY <1>3, <1>4 DEF end

LEMMA LevelsAre ==
    ASSUME NEW a \in Assignments, NEW day \in Int, NEW percentage \in 0..100
    PROVE  /\ Late(a, day, percentage) <=> DeadlineLevel(a, day, percentage) = "overdue"
           /\ DeadlineLevel(a, day, percentage) = "completed" => percentage = 100
<1> DEFINE total == Larger(1, BusinessDaysBetween(a, a.start, a.due))
           consumed == 100 * BusinessDaysBetween(a, a.start, day)
           rest == CASE consumed >= 90 * total -> "urgent"
                     [] consumed >= 75 * total /\ consumed < 90 * total -> "warning"
                     [] consumed >= 50 * total /\ consumed < 75 * total -> "attention"
                     [] OTHER -> "normal"
<1>1. a.due \in Int /\ a.start \in Int
  BY AssignmentsAre
<1>2. rest \in {"urgent", "warning", "attention", "normal"}
  <2>1. total \in Int /\ consumed \in Int
    <3>1. BusinessDaysBetween(a, a.start, a.due) = Count(a.closed, a.start, a.due)
          /\ BusinessDaysBetween(a, a.start, day) = Count(a.closed, a.start, day)
      BY DEF BusinessDaysBetween, Count, WorkedSince
    <3>2. Count(a.closed, a.start, a.due) \in Nat /\ Count(a.closed, a.start, day) \in Nat
      BY <1>1, CountsOneByOne
    <3> QED BY <3>1, <3>2 DEF Larger
  <2> HIDE DEF total, consumed
  <2> QED BY <2>1
<1>3. DeadlineLevel(a, day, percentage)
        = CASE percentage = 100 -> "completed"
            [] percentage # 100 /\ day > a.due -> "overdue"
            [] percentage # 100 /\ day <= a.due /\ day <= a.start -> "normal"
            [] OTHER -> rest
  BY DEF DeadlineLevel
<1> HIDE DEF rest
<1> QED BY <1>1, <1>2, <1>3 DEF Late

\* Rounding moves a load by half a tenth at most, and leaves nothing at nothing.
LEMMA RoundingIsClose ==
    /\ \A n \in Int, d \in Nat \ {0} : Rounded(n, d) \in Int
    /\ \A n \in Int : /\ 2 * (Rounded(n, 1) - n) <= Tenth
                     /\ 2 * (Rounded(n, 1) - n) >= - Tenth
    /\ Rounded(0, 100) = 0
<1>1. ASSUME NEW n \in Int, NEW d \in Nat \ {0} PROVE Rounded(n, d) \in Int
  <2>1. \A m \in Int : RoundedUp(m, d) \in Int
    <3> TAKE m \in Int
    <3> DEFINE a == 2 * m + Tenth * d
               b == 2 * Tenth * d
    <3>1. a \in Int /\ b \in Nat \ {0}
      BY DEF Tenth
    <3> HIDE DEF a, b
    <3>2. a \div b \in Int
      BY <3>1
    <3>3. RoundedUp(m, d) = Tenth * (a \div b)
      BY DEF RoundedUp, a, b
    <3> QED BY <3>2, <3>3 DEF Tenth
  <2>2. - n \in Int
    OBVIOUS
  <2> QED BY <2>1, <2>2 DEF Rounded
<1>2. ASSUME NEW n \in Int
      PROVE  2 * (RoundedUp(n, 1) - n) <= Tenth /\ 2 * (RoundedUp(n, 1) - n) >= - Tenth
  BY DEF RoundedUp, Tenth
<1>3. ASSUME NEW n \in Int
      PROVE  2 * (Rounded(n, 1) - n) <= Tenth /\ 2 * (Rounded(n, 1) - n) >= - Tenth
  <2>1. CASE n < 0
    <3> DEFINE m == - n
               r == RoundedUp(m, 1)
    <3>1. m \in Int /\ r \in Int
      <4>1. m \in Int
        OBVIOUS
      <4> QED BY <4>1 DEF RoundedUp, Tenth
    <3>2. 2 * (r - m) <= Tenth /\ 2 * (r - m) >= - Tenth
      BY <3>1, <1>2
    <3>3. Rounded(n, 1) = - r
      BY <2>1 DEF Rounded
    <3> HIDE DEF r
    <3> QED BY <3>1, <3>2, <3>3 DEF Tenth
  <2>2. CASE ~ (n < 0)
    BY <2>2, <1>2 DEF Rounded
  <2> QED BY <2>1, <2>2
<1>4. Rounded(0, 100) = 0
  BY DEF Rounded, RoundedUp, Tenth
<1> QED BY <1>1, <1>3, <1>4

\* What a finished load leaves once its done part is rounded.
LEMMA FinishedLeaves ==
    ASSUME NEW load \in Nat
    PROVE  WorkloadBreakdown(load, 100).remaining
             = IF 2 * (load % Tenth) = Tenth THEN - Tenth ELSE 0
<1> DEFINE q == load \div Tenth
           r == load % Tenth
           done == Rounded(load * 100, 100)
<1>1. q \in Nat /\ r \in 0..999 /\ load = 1000 * q + r
  BY DEF Tenth
<1>2. done = IF 2 * r >= Tenth THEN Tenth * (q + 1) ELSE Tenth * q
  <2>1. done = 1000 * ((2 * (load * 100) + 100000) \div 200000)
    BY DEF Rounded, RoundedUp, Tenth
  <2>2. (2 * (load * 100) + 100000) \div 200000 = IF 2 * r >= 1000 THEN q + 1 ELSE q
    <3> HIDE DEF q, r
    <3>1. CASE 2 * r >= 1000
      BY <3>1, <1>1
    <3>2. CASE ~ (2 * r >= 1000)
      BY <3>2, <1>1
    <3> QED BY <3>1, <3>2
  <2> HIDE DEF done, q, r
  <2> QED BY <2>1, <2>2 DEF Tenth
<1>3. WorkloadBreakdown(load, 100).remaining = Rounded(load - done, 1)
  BY DEF WorkloadBreakdown
<1> HIDE DEF q, r, done
<1>4. CASE 2 * r < 1000
  <2>1. load - done = r
    BY <1>1, <1>2, <1>4 DEF Tenth
  <2>2. Rounded(r, 1) = 0
    BY <1>1, <1>4 DEF Rounded, RoundedUp, Tenth
  <2> QED BY <1>1, <1>3, <1>4, <2>1, <2>2 DEF r, Tenth
<1>5. CASE 2 * r = 1000
  <2>1. load - done = - 500
    BY <1>1, <1>2, <1>5 DEF Tenth
  <2>2. Rounded(- 500, 1) = - 1000
    BY DEF Rounded, RoundedUp, Tenth
  <2> QED BY <1>3, <1>5, <2>1, <2>2 DEF r, Tenth
<1>6. CASE 2 * r > 1000
  <2> DEFINE n == load - done
  <2>1. n \in Int /\ n < 0 /\ n > - 500
    BY <1>1, <1>2, <1>6 DEF Tenth
  <2> HIDE DEF n
  <2>2. Rounded(n, 1) = 0
    BY <2>1 DEF Rounded, RoundedUp, Tenth
  <2> QED BY <1>3, <1>6, <2>2 DEF n, r, Tenth
<1> QED BY <1>1, <1>4, <1>5, <1>6

\* The figures shown of one task agree, on any day and for any plan, calendar
\* and entries.
THEOREM IndicatorsAlwaysAgree == CacheSpec => []IndicatorsAgree
<1>1. CacheInv => IndicatorsAgree
  <2> DEFINE shown == TaskProgressSeries(task, localdate)
             listed == AssignmentSnapshot(task, 1, LastDate, localdate)
             end == SeriesEnd(task, localdate)
             p == PercentageOn(task, end)
             worked == Count(task.closed, task.start, end)
  <2> SUFFICES ASSUME CacheInv PROVE IndicatorsAgree
    OBVIOUS
  <2>1. task \in Assignments /\ localdate \in SeriesDays
    BY DEF CacheInv, CacheTyped
  <2>2. /\ task.start \in SeriesDays /\ task.start \in Nat /\ task.load \in Nat \ {0}
        /\ task.due \in Nat /\ task.closed \in SUBSET SeriesDays
        /\ task.completed = Absent \/ task.completed \in SeriesDays
        /\ end \in SeriesDays /\ end \in Nat /\ end >= task.start /\ LastDate \in Nat
    BY <2>1, AssignmentsAre, EndIsADay, SeriesDaysAreNaturals
  <2>3. /\ shown.percentage = p
        /\ shown.overrun = Larger(0, worked - WholeDays(task.load))
        /\ shown.workload = WorkloadBreakdown(task.load, p)
        /\ shown.level = DeadlineLevel(task, end, p)
        /\ shown.late = Late(task, end, p)
    BY <2>1, ShownIsTheLastRow
  <2>4. p \in 0..100
    BY <2>1, <2>2, PercentagesAreNumbers
  <2>5. /\ listed.percentage = ProgressUntil(task, LastDate)
        /\ listed.delta = ProgressUntil(task, LastDate) - ProgressUntil(task, 0)
        /\ listed.projection.baseline
             = Rounded(task.load * (100 - ProgressUntil(task, LastDate)), 100)
        /\ listed.workload = WorkloadBreakdown(task.load, ProgressUntil(task, LastDate))
    BY DEF AssignmentSnapshot, RemainingProjection
  <2>6. shown.late <=> shown.level = "overdue"
    <3> HIDE DEF shown, end, p
    <3>1. Late(task, end, p) <=> DeadlineLevel(task, end, p) = "overdue"
      BY <2>1, <2>2, <2>4, LevelsAre
    <3> QED BY <2>3, <3>1
  <2>7. shown.level = "completed" =>
          shown.workload.remaining = IF 2 * (task.load % Tenth) = Tenth THEN - Tenth ELSE 0
    <3> HIDE DEF shown, end, p
    <3>1. DeadlineLevel(task, end, p) = "completed" => p = 100
      BY <2>1, <2>2, <2>4, LevelsAre
    <3> DEFINE load == task.load
    <3>2. load \in Nat
      BY <2>2
    <3> HIDE DEF load
    <3>3. WorkloadBreakdown(load, 100).remaining
            = IF 2 * (load % Tenth) = Tenth THEN - Tenth ELSE 0
      BY <3>2, FinishedLeaves
    <3> QED BY <2>3, <3>1, <3>3 DEF load
  <2>13. /\ 2 * (shown.workload.completed + shown.workload.remaining - task.load) >= - Tenth
         /\ 2 * (shown.workload.completed + shown.workload.remaining - task.load) <= Tenth
    <3> HIDE DEF shown, end, p
    <3> DEFINE load == task.load
               done == Rounded(load * p, 100)
               left == Rounded(load - done, 1)
    <3>1. shown.workload.completed = done /\ shown.workload.remaining = left
      BY <2>3 DEF WorkloadBreakdown
    <3>2. load \in Int /\ p \in Int
      BY <2>2, <2>4
    <3> HIDE DEF load
    <3>3. load * p \in Int
      BY <3>2
    <3>4. done \in Int
      <4> DEFINE n == load * p
      <4>1. n \in Int
        BY <3>3
      <4> HIDE DEF n
      <4>2. Rounded(n, 100) \in Int
        BY <4>1, RoundingIsClose
      <4> QED BY <4>2 DEF n
    <3> HIDE DEF done
    <3> DEFINE m == load - done
    <3>5. m \in Int
      BY <3>2, <3>4
    <3> HIDE DEF m
    <3>6. /\ Rounded(m, 1) \in Int
          /\ 2 * (Rounded(m, 1) - m) <= Tenth /\ 2 * (Rounded(m, 1) - m) >= - Tenth
      <4>1. /\ \A n \in Int : Rounded(n, 1) \in Int
            /\ \A n \in Int : 2 * (Rounded(n, 1) - n) <= Tenth
                             /\ 2 * (Rounded(n, 1) - n) >= - Tenth
        <5>1. 1 \in Nat \ {0}
          OBVIOUS
        <5> QED BY <5>1, RoundingIsClose, Zenon
      <4> QED BY <3>5, <4>1, Zenon
    <3>7. left \in Int /\ 2 * (left - m) <= Tenth /\ 2 * (left - m) >= - Tenth
      BY <3>6 DEF m
    <3> HIDE DEF left
    <3>8. done + left - load = left - m
      BY <3>2, <3>4, <3>7 DEF m
    <3> QED BY <3>1, <3>7, <3>8 DEF load
  <2>8. shown.overrun > 0 /\ task.due = DueDate(task, task.closed) => end > task.due
    <3> HIDE DEF shown, end
    <3>1. SUFFICES ASSUME shown.overrun > 0, task.due = DueDate(task, task.closed),
                          end <= task.due
                   PROVE  FALSE
      BY <2>2
    <3>2. Count(task.closed, task.start, task.due) = WholeDays(task.load)
      BY <2>1, <2>2, <3>1, DueDateIsWorked
    <3>3. worked <= Count(task.closed, task.start, task.due) /\ worked \in Nat
      <4> DEFINE s == task.start
                 k == task.closed
                 due == task.due
      <4>1. s \in Int /\ due \in Int /\ end \in Int /\ end <= due
        BY <2>2, <3>1
      <4> HIDE DEF s, k, due
      <4>2. \A c, d \in Int : c <= d => Count(k, s, c) <= Count(k, s, d)
        BY <4>1, CountsOneByOne
      <4>3. \A c \in Int : Count(k, s, c) \in Nat
        BY <4>1, CountsOneByOne
      <4> QED BY <4>1, <4>2, <4>3 DEF s, k, due
    <3>4. WholeDays(task.load) \in Int
      BY <2>2 DEF WholeDays, OneDay
    <3> HIDE DEF worked
    <3> QED BY <2>3, <3>1, <3>2, <3>3, <3>4 DEF Larger
  <2>9. ASSUME NEW d \in SeriesDays \ {LastDate}
        PROVE  AssignmentSnapshot(task, 1, d, localdate).delta
                 + AssignmentSnapshot(task, d + 1, LastDate, localdate).delta = listed.delta
    <3>1. d \in Int /\ (d + 1) - 1 = d
      BY SeriesDaysAreNaturals
    <3>2. AssignmentSnapshot(task, 1, d, localdate).delta
            = ProgressUntil(task, d) - ProgressUntil(task, 0)
      BY DEF AssignmentSnapshot
    <3>3. AssignmentSnapshot(task, d + 1, LastDate, localdate).delta
            = ProgressUntil(task, LastDate) - ProgressUntil(task, d)
      BY <3>1 DEF AssignmentSnapshot
    <3>4. /\ ProgressUntil(task, d) \in Int /\ ProgressUntil(task, 0) \in Int
          /\ ProgressUntil(task, LastDate) \in Int
      BY <2>1, <2>2, <3>1, PercentagesAreNumbers
    <3> HIDE DEF listed
    <3> QED BY <2>5, <3>2, <3>3, <3>4
  <2>10. ASSUME RecordedUntil(task, LastDate) \subseteq task.start..end
         PROVE  /\ shown.percentage = listed.percentage
                /\ shown.workload = listed.workload
                /\ listed.percentage = 100 => listed.projection.baseline = 0
    <3>1. SeenSince(task, end) = RecordedUntil(task, LastDate)
      <4>1. RecordedUntil(task, LastDate)
              = {e \in SeriesDays : e <= LastDate /\ task.entries[e] # Absent}
        BY <2>1, AssignmentsAre DEF RecordedUntil
      <4> HIDE DEF end
      <4> QED BY <2>10, <4>1, SeriesDaysAreNaturals DEF SeenSince
    <3>2. p = ProgressUntil(task, LastDate)
      BY <3>1 DEF PercentageOn, ProgressUntil
    <3> HIDE DEF shown, listed, p
    <3>3. Rounded(task.load * (100 - 100), 100) = 0
      <4>1. task.load * (100 - 100) = 0
        BY <2>2
      <4> QED BY <4>1, RoundingIsClose
    <3> QED BY <2>3, <2>5, <3>2, <3>3
  <2>11. ASSUME task.completed = Absent \/ task.completed >= task.start,
                NEW d \in task.start..end
         PROVE  InPeriod(task, d, d)
    <3>1. CASE task.completed = Absent
      BY <3>1, <2>2 DEF InPeriod
    <3>2. CASE task.completed # Absent
      <4>1. task.completed \in Nat /\ localdate \in Nat /\ task.completed >= task.start
        BY <3>2, <2>1, <2>2, <2>11, SeriesDaysAreNaturals
      <4>2. end = Larger(task.start, Smaller(localdate, task.completed))
        BY <3>2 DEF SeriesEnd
      <4>3. end <= task.completed
        <5> HIDE DEF end
        <5> QED BY <4>1, <4>2, <2>2 DEF Larger, Smaller
      <4> HIDE DEF end
      <4> QED BY <4>1, <4>3, <2>2, <2>11 DEF InPeriod
    <3> QED BY <3>1, <3>2
  <2> HIDE DEF shown, listed, end
  <2>12. QED
    BY <2>6, <2>7, <2>8, <2>9, <2>10, <2>11, <2>13 DEF IndicatorsAgree, shown, listed, end
<1> QED BY <1>1, CacheInvariant, PTL
===============================================================================
