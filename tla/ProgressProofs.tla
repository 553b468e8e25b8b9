--------------------------- MODULE ProgressProofs ---------------------------
(***************************************************************************)
(* Proofs about Progress: the loop of CalculateLevel for any number of     *)
(* levels, and the streak for any order of dates.  The levels take an      *)
(* induction over the turns of the loop (Counting); the streak takes       *)
(* counting of days.                                                       *)
(***************************************************************************)
EXTENDS Progress, RewardsProofs

-----------------------------------------------------------------------------
(* The level. *)

\* Induction on the natural numbers, by way of the least exception.
LEMMA Counting ==
    ASSUME NEW S, 0 \in S, \A n \in Nat : n \in S => n + 1 \in S
    PROVE  Nat \subseteq S
<1> DEFINE T == Nat \ S
<1>1. SUFFICES ASSUME T # {} PROVE FALSE OBVIOUS
<1>2. PICK x \in T : \A y \in T : ~ (<<y, x>> \in OpToRel(<, Nat))
  <2> HIDE DEF T
  <2>1. T \subseteq Nat BY DEF T
  <2> QED BY <1>1, <2>1, NatLessThanWellFounded, WFMin
<1>3. x # 0 /\ x \in Nat /\ x - 1 \in Nat /\ x - 1 < x OBVIOUS
<1>4. x - 1 \in S BY <1>2, <1>3 DEF OpToRel
<1>5. (x - 1) + 1 \in S BY <1>3, <1>4
<1> QED BY <1>3, <1>5

LEMMA NeedIs ==
    ASSUME NEW l \in Nat \ {0}
    PROVE  /\ Need(l) \in Int
           /\ TwiceTotal(1) = 0
           /\ TwiceTotal(l) \in Int
           /\ TwiceTotal(l + 1) = TwiceTotal(l) + 2 * Need(l)
BY ProgressAssumption, Z3 DEF ProgressAssumption, Need, TwiceTotal

\* Half of a product of neighbours, one step further.
LEMMA Halves == ASSUME NEW a \in Int, NEW k \in Int
                PROVE  (a + 2 * k) \div 2 = (a \div 2) + k /\ a \div 2 \in Int
BY Z3

\* The recursion of Remaining has a solution, so that Remaining is one.
LEMMA RemainingUnfold ==
    ASSUME NEW points \in Nat
    PROVE  \A l \in 1..MaxLevel :
             Remaining(points)[l] = IF l = 1 THEN points
                                    ELSE Remaining(points)[l - 1] - Need(l - 1)
<1> DEFINE half(l) == ((l - 1) * (l - 2)) \div 2
           h == [l \in 1..MaxLevel |-> points - ((l - 1) * FirstNeed + half(l) * NeedStep)]
           Solves(g) == g = [l \in 1..MaxLevel |-> IF l = 1 THEN points ELSE g[l - 1] - Need(l - 1)]
<1>1. ASSUME NEW l \in 1..MaxLevel, l # 1 PROVE h[l] = h[l - 1] - Need(l - 1)
  <2>1. l \in Nat /\ l - 1 \in 1..MaxLevel /\ l - 2 \in Int
    BY <1>1, ProgressAssumption DEF ProgressAssumption
  <2>2. half(l) = half(l - 1) + (l - 2)
    <3>1. (l - 1) * (l - 2) = ((l - 1) - 1) * ((l - 1) - 2) + 2 * (l - 2) BY <2>1, Z3
    <3>2. ((l - 1) - 1) * ((l - 1) - 2) \in Int BY <2>1, Z3
    <3> QED BY <3>1, <3>2, <2>1, Halves
  <2>3. half(l - 1) \in Int
    <3>1. ((l - 1) - 1) * ((l - 1) - 2) \in Int BY <2>1, Z3
    <3> QED BY <3>1, Halves
  <2>4. h[l] = points - ((l - 1) * FirstNeed + half(l) * NeedStep)
        /\ h[l - 1] = points - (((l - 1) - 1) * FirstNeed + half(l - 1) * NeedStep)
    BY <2>1
  <2> HIDE DEF half, h
  <2> QED BY <2>1, <2>2, <2>3, <2>4, ProgressAssumption, Z3 DEF ProgressAssumption, Need
<1>2. h[1] = points
  <2>1. half(1) = 0 /\ 1 \in 1..MaxLevel BY ProgressAssumption DEF ProgressAssumption
  <2> QED BY <2>1, ProgressAssumption DEF ProgressAssumption
<1>3. Solves(h)
  <2> DEFINE g == [l \in 1..MaxLevel |-> IF l = 1 THEN points ELSE h[l - 1] - Need(l - 1)]
  <2>1. \A l \in 1..MaxLevel : h[l] = g[l] BY <1>1, <1>2
  <2> QED BY <2>1
<1> HIDE DEF h
<1>4. Remaining(points) = CHOOSE g : Solves(g) BY DEF Remaining
<1>5. Solves(Remaining(points)) 
  <2> HIDE DEF Solves
  <2> QED BY <1>3, <1>4
<1> QED BY <1>5

\* What is left at level l is what the levels before it have not used up.
LEMMA RemainingIs ==
    ASSUME NEW points \in Nat, NEW l \in 1..MaxLevel
    PROVE  /\ Remaining(points)[l] \in Int
           /\ 2 * Remaining(points)[l] = 2 * points - TwiceTotal(l)
<1> DEFINE left == Remaining(points)
           Right == {n \in Nat : n + 1 <= MaxLevel =>
                        /\ left[n + 1] \in Int
                        /\ 2 * left[n + 1] = 2 * points - TwiceTotal(n + 1)}
<1>1. 0 \in Right
  <2>1. left[1] = points BY RemainingUnfold, ProgressAssumption DEF ProgressAssumption
  <2>2. TwiceTotal(1) = 0 BY NeedIs
  <2> QED BY <2>1, <2>2
<1>2. ASSUME NEW n \in Nat, n \in Right PROVE n + 1 \in Right
  <2>1. SUFFICES ASSUME (n + 1) + 1 <= MaxLevel
                 PROVE  /\ left[(n + 1) + 1] \in Int
                        /\ 2 * left[(n + 1) + 1] = 2 * points - TwiceTotal((n + 1) + 1)
    OBVIOUS
  <2>2. left[n + 1] \in Int /\ 2 * left[n + 1] = 2 * points - TwiceTotal(n + 1)
    BY <1>2, <2>1, ProgressAssumption DEF ProgressAssumption
  <2>3. left[(n + 1) + 1] = left[n + 1] - Need(n + 1)
    <3>1. (n + 1) + 1 \in 1..MaxLevel /\ (n + 1) + 1 # 1 /\ ((n + 1) + 1) - 1 = n + 1
      BY <2>1, ProgressAssumption DEF ProgressAssumption
    <3> HIDE DEF left
    <3> QED BY <3>1, RemainingUnfold DEF left
  <2>4. /\ Need(n + 1) \in Int /\ TwiceTotal(n + 1) \in Int
        /\ TwiceTotal((n + 1) + 1) = TwiceTotal(n + 1) + 2 * Need(n + 1)
    BY NeedIs
  <2> HIDE DEF left
  <2> QED BY <2>2, <2>3, <2>4
<1>3. Nat \subseteq Right
  <2> HIDE DEF Right
  <2> QED BY <1>1, <1>2, Counting
<1>4. l - 1 \in Right /\ (l - 1) + 1 = l /\ l <= MaxLevel
  <2> HIDE DEF Right
  <2> QED BY <1>3, ProgressAssumption DEF ProgressAssumption
<1> QED BY <1>4

\* CalculateLevel gives the level whose XP has been reached.
LEMMA LevelReached ==
    ASSUME NEW points \in Nat
    PROVE  LET l == CalculateLevel(points)
           IN  /\ l \in 1..MaxLevel
               /\ TwiceTotal(l) <= 2 * points
               /\ l < MaxLevel => 2 * points < TwiceTotal(l + 1)
<1> DEFINE left == Remaining(points)
           Ends(l) == l = MaxLevel \/ left[l] < Need(l)
           First(l) == Ends(l) /\ \A k \in 1..l - 1 : left[k] >= Need(k)
           l == CalculateLevel(points)
<1>1. MaxLevel \in Nat /\ MaxLevel > 1 BY ProgressAssumption DEF ProgressAssumption
<1>2. \A k \in 1..MaxLevel : /\ left[k] \in Int /\ Need(k) \in Int
                             /\ 2 * left[k] = 2 * points - TwiceTotal(k)
                             /\ TwiceTotal(k) \in Int
                             /\ TwiceTotal(k + 1) = TwiceTotal(k) + 2 * Need(k)
  <2> TAKE k \in 1..MaxLevel
  <2>1. k \in Nat \ {0} BY <1>1
  <2> QED BY <2>1, NeedIs, RemainingIs
<1> HIDE DEF left
<1>3. \E k \in 1..MaxLevel : First(k)
  <2> DEFINE T == {k \in 1..MaxLevel : Ends(k)}
  <2>1. PICK k \in T : \A j \in T : ~ (<<j, k>> \in OpToRel(<, Nat))
    <3>1. T \subseteq Nat /\ T # {} BY <1>1
    <3> HIDE DEF T
    <3> QED BY <3>1, NatLessThanWellFounded, WFMin
  <2>2. \A j \in 1..k - 1 : j \in 1..MaxLevel /\ <<j, k>> \in OpToRel(<, Nat)
    BY <1>1 DEF OpToRel
  <2>3. ASSUME NEW j \in 1..k - 1 PROVE left[j] >= Need(j)
    <3>1. j \in 1..MaxLevel /\ ~ Ends(j) BY <2>1, <2>2
    <3>2. left[j] \in Int /\ Need(j) \in Int BY <3>1, <1>2
    <3> QED BY <3>1, <3>2
  <2> QED BY <2>3
<1>4. l \in 1..MaxLevel /\ First(l)
  <2>1. l = CHOOSE k \in 1..MaxLevel : First(k) BY DEF CalculateLevel, left
  <2> HIDE DEF First, l
  <2> QED BY <2>1, <1>3
<1> HIDE DEF l
<1>5. TwiceTotal(l) <= 2 * points
  <2>1. CASE l = 1 
    <3>1. TwiceTotal(1) = 0 BY NeedIs
    <3> QED BY <2>1, <3>1
  <2>2. CASE l # 1
    <3>1. l - 1 \in 1..l - 1 /\ l - 1 \in 1..MaxLevel /\ (l - 1) + 1 = l BY <1>1, <1>4, <2>2
    <3>2. left[l - 1] >= Need(l - 1) BY <1>4, <3>1
    <3> QED BY <1>2, <3>1, <3>2
  <2> QED BY <2>1, <2>2
<1>6. ASSUME l < MaxLevel PROVE 2 * points < TwiceTotal(l + 1)
  BY <1>1, <1>2, <1>4, <1>6
<1> QED BY <1>4, <1>5, <1>6 DEF l

-----------------------------------------------------------------------------
(* Types. *)

ProgressTyped ==
    /\ now \in Nat /\ zone \in Int
    /\ days \subseteq Int /\ IsFiniteSet(days) /\ setback \in Nat
    /\ streak \in [current : Nat, best : Nat, last : Int \cup {None}]
    /\ days = {} => streak = [current |-> 0, best |-> 0, last |-> None]
    /\ days # {} => streak.last \in days

LEMMA DateIs ==
    ASSUME ProgressTyped, NEW instant \in Nat
    PROVE  Date(instant) \in Int
BY ProgressAssumption, Z3 DEF ProgressAssumption, ProgressTyped, Date

\* What the statistics are after a reward that counts for `date`.
LEMMA CountTyped ==
    ASSUME ProgressTyped, NEW date \in Int, CountDay(date)
    PROVE  /\ NewStreak(date) \in Nat
           /\ streak'.current = NewStreak(date) /\ streak'.last = date
           /\ streak'.best \in {NewStreak(date), streak.best}
           /\ streak'.best >= NewStreak(date) /\ streak'.best >= streak.best
           /\ streak' \in [current : Nat, best : Nat, last : Int \cup {None}]
           /\ days' = days \cup {date} /\ IsFiniteSet(days') /\ date \in days'
           /\ setback' \in Nat /\ setback' >= setback
           /\ setback' = IF streak.last # None /\ date < streak.last
                         THEN setback + (streak.last - date) ELSE setback
<1>1. NewStreak(date) \in Nat BY DEF ProgressTyped, NewStreak
<1>2. /\ streak' = [current |-> NewStreak(date),
                    best |-> IF NewStreak(date) > streak.best THEN NewStreak(date)
                             ELSE streak.best,
                    last |-> date]
      /\ streak.best \in Nat
  BY DEF CountDay, ProgressTyped
<1>3. days' = days \cup {date} /\ IsFiniteSet(days')
  BY FS_AddElement DEF CountDay, ProgressTyped
<1>4. setback' \in Nat /\ setback' >= setback
  BY DEF CountDay, ProgressTyped
<1> QED BY <1>1, <1>2, <1>3, <1>4 DEF CountDay

-----------------------------------------------------------------------------
(* How much a streak may exceed the days. *)

\* The days up to the one counted last.
Past == {d \in days : d <= streak.last}

WithinDays ==
    /\ days # {} => streak.current <= Cardinality(Past) + setback
    /\ SetbackBoundsStreak

LEMMA CountBounded ==
    ASSUME ProgressTyped, WithinDays, NEW date \in Int, CountDay(date)
    PROVE  WithinDays'
<1> DEFINE new == NewStreak(date)
           past == {d \in days \cup {date} : d <= date}
<1>1. /\ new \in Nat
      /\ streak'.current = new /\ streak'.last = date
      /\ streak'.best \in {new, streak.best} /\ streak'.best >= new
      /\ days' = days \cup {date} /\ IsFiniteSet(days')
      /\ setback' \in Nat /\ setback' >= setback
      /\ setback' = IF streak.last # None /\ date < streak.last
                    THEN setback + (streak.last - date) ELSE setback
      /\ setback \in Nat
  BY CountTyped DEF ProgressTyped
<1>2. /\ IsFiniteSet(past) /\ Cardinality(past) \in Nat
      /\ Cardinality(past) <= Cardinality(days')
      /\ Cardinality(days') \in Nat
  <2>1. past \in SUBSET days' BY <1>1
  <2> QED BY <2>1, <1>1, FS_Subset, FS_CardinalityType
<1>3. Cardinality(past) >= 1
  <2>1. date \in past OBVIOUS
  <2>2. Cardinality(past) # 0 BY <2>1, <1>2, FS_EmptySet
  <2> QED BY <2>2, <1>2
<1>4. new <= Cardinality(past) + setback'
  <2> HIDE DEF past
  <2>1. CASE days = {} \/ streak.last < date - 1
    <3>1. new = 1 BY <2>1 DEF NewStreak, ProgressTyped
    <3> QED BY <3>1, <1>1, <1>2, <1>3
  <2>2. ASSUME days # {}, streak.last >= date - 1 PROVE new <= Cardinality(past) + setback'
    <3>1. /\ streak.last \in Int /\ streak.last # None /\ streak.current \in Nat
          /\ Past \in SUBSET days
          /\ streak.current <= Cardinality(Past) + setback
      BY <2>2, ProgressAssumption DEF ProgressTyped, WithinDays, Past, ProgressAssumption
    <3>2. IsFiniteSet(Past) /\ Cardinality(Past) \in Nat
      BY <3>1, FS_Subset, FS_CardinalityType DEF ProgressTyped
    <3>3. CASE streak.last = date - 1
      <4>1. new = streak.current + 1 /\ setback' = setback
        BY <3>1, <3>3, <1>1 DEF NewStreak
      <4>2. past = Past \cup {date} /\ date \notin Past
        <5>1. \A d \in days : d \in Int /\ (d <= date <=> d <= date - 1 \/ d = date)
          BY DEF ProgressTyped
        <5>2. date \notin Past BY <3>3 DEF Past
        <5> QED BY <5>1, <5>2, <3>3 DEF Past, past
      <4>3. Cardinality(past) = Cardinality(Past) + 1
        BY <4>2, <3>2, FS_AddElement
      <4> QED BY <4>1, <4>3, <3>1, <3>2, <1>1
    <3>4. CASE streak.last >= date
      <4>1. new = streak.current /\ setback' = setback + (streak.last - date)
        BY <3>1, <3>4, <1>1 DEF NewStreak
      <4> DEFINE between == (date + 1)..streak.last
      <4>2. IsFiniteSet(between) /\ Cardinality(between) = streak.last - date
        <5>1. /\ date + 1 \in Int /\ streak.last \in Int
              /\ IF date + 1 > streak.last THEN streak.last - date = 0
                 ELSE streak.last - (date + 1) + 1 = streak.last - date
          BY <3>1, <3>4
        <5> QED BY <5>1, FS_Interval
      <4>3. Past \in SUBSET (past \cup between)
        <5>1. \A d \in days : d \in Int /\ (d <= date \/ d \in between \/ d > streak.last)
          BY <3>1 DEF ProgressTyped
        <5>2. \A d \in days : d <= streak.last => ~ (d > streak.last)
          BY <3>1 DEF ProgressTyped
        <5> QED BY <5>1, <5>2 DEF Past, past
      <4>4. past \cap between = {}
        <5>1. \A d \in between : d \in Int /\ ~ (d <= date) BY <3>1
        <5> QED BY <5>1 DEF past
      <4>5. /\ IsFiniteSet(past \cup between)
            /\ Cardinality(past \cup between) = Cardinality(past) + (streak.last - date)
        <5> HIDE DEF between
        <5>1. Cardinality(past \cap between) = 0 BY <4>4, FS_EmptySet
        <5>2. /\ IsFiniteSet(past \cup between)
              /\ Cardinality(past \cup between) =
                   Cardinality(past) + Cardinality(between) - Cardinality(past \cap between)
          BY <4>2, <1>2, FS_Union
        <5> QED BY <5>1, <5>2, <4>2, <1>2, <3>1
      <4>6. Cardinality(Past) <= Cardinality(past) + (streak.last - date)
        BY <4>2, <4>3, <4>5, FS_Subset
      <4> QED BY <4>1, <4>6, <3>1, <3>2, <1>1, <1>2
    <3> QED BY <2>2, <3>1, <3>3, <3>4
  <2>3. days = {} \/ streak.last < date - 1 \/ (days # {} /\ streak.last >= date - 1)
    <3>1. days # {} => streak.last \in Int BY DEF ProgressTyped
    <3> QED BY <3>1
  <2> QED BY <2>1, <2>2, <2>3
<1>5. streak.best <= Cardinality(days') + setback'
  <2>1. days \in SUBSET days' /\ IsFiniteSet(days) BY <1>1 DEF ProgressTyped
  <2>2. Cardinality(days) <= Cardinality(days') /\ Cardinality(days) \in Nat
    BY <2>1, <1>1, FS_Subset, FS_CardinalityType
  <2>3. streak.best <= Cardinality(days) + setback /\ streak.best \in Nat
    BY DEF WithinDays, SetbackBoundsStreak, ProgressTyped
  <2> QED BY <2>2, <2>3, <1>1, <1>2
<1>6. Past' = past BY <1>1 DEF Past
<1> QED BY <1>1, <1>2, <1>4, <1>5, <1>6 DEF WithinDays, SetbackBoundsStreak

-----------------------------------------------------------------------------
(* Streaks are runs of days. *)

Run(D, d) == {e \in D : e <= d /\ e..d \subseteq D}

RunsAgree ==
    setback = 0 /\ days # {} =>
        /\ \A d \in days : d <= streak.last
        /\ streak.current = Cardinality(Run(days, streak.last))
        /\ \A d \in days : Cardinality(Run(days, d)) <= streak.best
        /\ \E d \in days : Cardinality(Run(days, d)) = streak.best

\* A day after all others leaves their runs alone and goes on with the run of
\* the day before.
LEMMA RunsGrow ==
    ASSUME NEW D, D \subseteq Int, NEW date \in Int, \A d \in D : d < date
    PROVE  /\ \A d \in D : Run(D \cup {date}, d) = Run(D, d)
           /\ date - 1 \in D => Run(D \cup {date}, date) = Run(D, date - 1) \cup {date}
           /\ date - 1 \notin D => Run(D \cup {date}, date) = {date}
<1> DEFINE E == D \cup {date}
<1>1. ASSUME NEW d \in D PROVE Run(E, d) = Run(D, d)
  <2>1. d < date /\ d \in Int OBVIOUS
  <2>2. ASSUME NEW e \in Int PROVE e..d \subseteq E <=> e..d \subseteq D
    BY <2>1
  <2> QED BY <2>1, <2>2 DEF Run
<1>2. ASSUME date - 1 \in D PROVE Run(E, date) = Run(D, date - 1) \cup {date}
  <2>1. ASSUME NEW e \in D PROVE e..date \subseteq E <=> e..(date - 1) \subseteq D
    <3>1. e \in Int /\ e <= date - 1 OBVIOUS
    <3>2. e..date = e..(date - 1) \cup {date} BY <3>1
    <3>3. date \notin e..(date - 1) BY <3>1
    <3> QED BY <3>2, <3>3
  <2>2. \A e \in D : e <= date /\ e <= date - 1 OBVIOUS
  <2>3. date..date \subseteq E /\ date <= date OBVIOUS
  <2> QED BY <2>1, <2>2, <2>3 DEF Run
<1>3. ASSUME date - 1 \notin D PROVE Run(E, date) = {date}
  <2>1. ASSUME NEW e \in D PROVE ~ (e..date \subseteq E)
    <3>1. date - 1 \in e..date OBVIOUS
    <3> QED BY <3>1, <1>3
  <2>2. date..date \subseteq E /\ date <= date OBVIOUS
  <2> QED BY <2>1, <2>2 DEF Run
<1> QED BY <1>1, <1>2, <1>3

LEMMA CountRuns ==
    ASSUME ProgressTyped, RunsAgree, NEW date \in Int, CountDay(date)
    PROVE  RunsAgree'
<1> DEFINE new == NewStreak(date)
           E == days \cup {date}
<1>1. /\ new \in Nat
      /\ streak'.current = new /\ streak'.last = date
      /\ streak'.best \in {new, streak.best}
      /\ streak'.best >= new /\ streak'.best >= streak.best
      /\ days' = E
      /\ setback' >= setback
      /\ setback' = IF streak.last # None /\ date < streak.last
                    THEN setback + (streak.last - date) ELSE setback
      /\ setback \in Nat
  BY CountTyped DEF ProgressTyped
<1>2. SUFFICES ASSUME setback' = 0
               PROVE  /\ \A d \in E : d <= date
                      /\ new = Cardinality(Run(E, date))
                      /\ \A d \in E : Cardinality(Run(E, d)) <= streak'.best
                      /\ \E d \in E : Cardinality(Run(E, d)) = streak'.best
  BY <1>1 DEF RunsAgree
<1>3. setback = 0 /\ (days # {} => streak.last \in Int /\ streak.last <= date)
  <2>1. setback = 0 BY <1>1, <1>2
  <2>2. days # {} => streak.last \in Int /\ streak.last # None
    BY ProgressAssumption DEF ProgressTyped, ProgressAssumption
  <2>3. days # {} /\ date < streak.last => setback' # 0 BY <1>1, <2>1, <2>2
  <2> QED BY <1>2, <2>1, <2>2, <2>3
<1>4. /\ \A d \in days : d <= date
      /\ days # {} => /\ \A d \in days : d <= streak.last
                      /\ streak.last \in days
                      /\ streak.current = Cardinality(Run(days, streak.last))
                      /\ \A d \in days : Cardinality(Run(days, d)) <= streak.best
                      /\ \E d \in days : Cardinality(Run(days, d)) = streak.best
  BY <1>3 DEF RunsAgree, ProgressTyped
<1>5. CASE date \in days
  <2>1. E = days /\ streak.last = date BY <1>3, <1>4, <1>5 DEF ProgressTyped
  <2>2. new = streak.current
    BY <2>1, <1>5, ProgressAssumption DEF NewStreak, ProgressTyped, ProgressAssumption
  <2>3. new <= streak.best BY <2>1, <2>2, <1>4, <1>5
  <2>4. streak'.best = streak.best BY <2>3, <1>1 DEF ProgressTyped
  <2> QED BY <2>1, <2>2, <2>4, <1>4, <1>5
<1>6. CASE date \notin days
  <2>1. days \subseteq Int /\ \A d \in days : d < date BY <1>4, <1>6 DEF ProgressTyped
  <2>2. \A d \in days : Run(E, d) = Run(days, d) BY <2>1, RunsGrow
  <2>3. new = Cardinality(Run(E, date))
    <3>1. CASE days # {} /\ streak.last = date - 1
      <4>1. new = streak.current + 1
        BY <3>1, ProgressAssumption DEF NewStreak, ProgressAssumption
      <4>2. Run(E, date) = Run(days, date - 1) \cup {date} BY <3>1, <1>4, <2>1, RunsGrow
      <4>3. Run(days, date - 1) \in SUBSET days /\ date \notin Run(days, date - 1)
        BY <1>6 DEF Run
      <4>4. IsFiniteSet(Run(days, date - 1)) BY <4>3, FS_Subset DEF ProgressTyped
      <4>5. Cardinality(Run(E, date)) = Cardinality(Run(days, date - 1)) + 1
        BY <4>2, <4>3, <4>4, FS_AddElement
      <4> QED BY <4>1, <4>5, <3>1, <1>4
    <3>2. CASE days = {} \/ streak.last # date - 1
      <4>1. date - 1 \notin days
        <5>1. ASSUME date - 1 \in days PROVE FALSE
          <6>1. date - 1 <= streak.last /\ streak.last < date /\ streak.last \in Int
            BY <5>1, <1>4, <2>1
          <6> QED BY <6>1, <5>1, <3>2
        <5> QED BY <5>1
      <4>2. new = 1
        <5>1. days # {} => streak.last < date - 1
          BY <1>3, <1>4, <2>1, <3>2
        <5> QED BY <5>1 DEF NewStreak, ProgressTyped
      <4>3. Run(E, date) = {date} BY <4>1, <2>1, RunsGrow
      <4>4. Cardinality({date}) = 1 BY FS_Singleton
      <4> QED BY <4>2, <4>3, <4>4
    <3> QED BY <3>1, <3>2
  <2>4. \A d \in E : Cardinality(Run(E, d)) <= streak'.best
    <3>1. \A d \in days : Cardinality(Run(E, d)) <= streak.best BY <2>2, <1>4
    <3>2. \A d \in days : Cardinality(Run(E, d)) \in Nat
      <4>1. \A d \in days : Run(days, d) \in SUBSET days BY DEF Run
      <4> QED BY <4>1, <2>2, FS_Subset, FS_CardinalityType DEF ProgressTyped
    <3>3. streak.best \in Nat /\ streak'.best \in Nat BY <1>1 DEF ProgressTyped
    <3>4. ASSUME NEW d \in days PROVE Cardinality(Run(E, d)) <= streak'.best
      <4> HIDE DEF E
      <4> QED BY <3>1, <3>2, <3>3, <1>1
    <3> QED BY <3>4, <2>3, <1>1
  <2>5. \E d \in E : Cardinality(Run(E, d)) = streak'.best
    <3>1. CASE streak'.best = new BY <3>1, <2>3
    <3>2. CASE streak'.best # new
      <4>1. streak'.best = streak.best BY <3>2, <1>1
      <4>2. days # {}
        <5>1. days = {} => streak.best = 0 /\ new = 1 BY DEF ProgressTyped, NewStreak
        <5> QED BY <5>1, <4>1, <1>1
      <4> QED BY <4>1, <4>2, <1>4, <2>2
    <3> QED BY <3>1, <3>2
  <2> QED BY <2>3, <2>4, <2>5, <1>4
<1> QED BY <1>5, <1>6

-----------------------------------------------------------------------------
(* The invariant. *)

ProgressInv ==
    /\ TypeOK
    /\ ProgressTyped
    /\ WithinDays
    /\ RunsAgree
    /\ LevelFollowsPoints

LEMMA ProgressStart == ASSUME ProgressInit PROVE ProgressInv
<1>1. TypeOK BY TypeInit DEF ProgressInit
<1>2. /\ days = {} /\ setback = 0 /\ now = 0 /\ zone \in Int
      /\ streak = [current |-> 0, best |-> 0, last |-> None]
      /\ level = 1 /\ stats.points = 0
  BY ProgressAssumption DEF ProgressInit, Init, ProgressAssumption
<1>3. IsFiniteSet({}) /\ Cardinality({}) = 0 BY FS_EmptySet
<1>4. ProgressTyped BY <1>2, <1>3 DEF ProgressTyped
<1>5. WithinDays /\ RunsAgree
  BY <1>2, <1>3 DEF WithinDays, SetbackBoundsStreak, RunsAgree
<1>6. LevelFollowsPoints
  <2>1. /\ Need(1) \in Int /\ TwiceTotal(1) = 0
        /\ TwiceTotal(1 + 1) = TwiceTotal(1) + 2 * Need(1)
    BY NeedIs
  <2>2. Need(1) > 0 BY ProgressAssumption DEF ProgressAssumption, Need
  <2> QED BY <1>2, <2>1, <2>2, ProgressAssumption DEF LevelFollowsPoints, ProgressAssumption
<1> QED BY <1>1, <1>4, <1>5, <1>6 DEF ProgressInv

LEMMA ProgressStep == ASSUME ProgressInv, [ProgressNext]_progressVars PROVE ProgressInv'
<1> USE DEF ProgressInv
<1>1. [Next]_vars BY DEF ProgressNext, Serve, SetTimezone, Tick, progressVars
<1>2. TypeOK' BY <1>1, TypeStep
<1>3. ASSUME Serve, stats'.points # stats.points,
             NEW began \in 0..now, CountDay(Date(began))
      PROVE  ProgressInv'
  <2>1. now' = now /\ zone' = zone BY <1>3 DEF Serve
  <2>2. Date(began) \in Int
    <3>1. began \in Nat BY DEF ProgressTyped
    <3> QED BY <3>1, DateIs
  <2>3. ProgressTyped'
    <3>1. streak'.last = Date(began) /\ Date(began) \in days' /\ days' \subseteq Int
      BY <1>3, <2>2, CountTyped DEF ProgressTyped
    <3> QED BY <3>1, <2>1, <2>2, <1>3, CountTyped DEF ProgressTyped
  <2>4. WithinDays' BY <1>3, <2>2, CountBounded
  <2>5. RunsAgree' BY <1>3, <2>2, CountRuns
  <2>6. LevelFollowsPoints'
    <3>1. stats'.points \in Nat BY <1>2 DEF TypeOK
    <3>2. level' = CalculateLevel(stats'.points) BY <1>3 DEF CountDay
    <3> QED BY <3>1, <3>2, LevelReached DEF LevelFollowsPoints, TwiceTotal
  <2> QED BY <1>2, <2>3, <2>4, <2>5, <2>6
<1>4. ASSUME stats'.points = stats.points, now' \in Nat, zone' \in Int,
             UNCHANGED <<streak, level, days, setback>>
      PROVE  ProgressInv'
  <2>1. ProgressTyped' BY <1>4 DEF ProgressTyped
  <2>2. WithinDays' /\ RunsAgree' /\ LevelFollowsPoints'
    BY <1>4 DEF WithinDays, SetbackBoundsStreak, Past, RunsAgree, LevelFollowsPoints, TwiceTotal
  <2> QED BY <1>2, <2>1, <2>2
<1>5. CASE Serve
  BY <1>3, <1>4, <1>5 DEF Serve, ProgressTyped
<1>6. CASE SetTimezone
  <2>1. zone' \in Int /\ stats' = stats /\ now' = now
    BY <1>6, ProgressAssumption DEF SetTimezone, vars, ProgressAssumption
  <2> QED BY <1>4, <1>6, <2>1 DEF SetTimezone, ProgressTyped
<1>7. CASE Tick
  BY <1>4, <1>7 DEF Tick, vars, ProgressTyped
<1>8. CASE UNCHANGED progressVars
  BY <1>4, <1>8 DEF progressVars, vars, ProgressTyped
<1> QED BY <1>5, <1>6, <1>7, <1>8 DEF ProgressNext

\* Each step of Progress is written as a step of Rewards or leaves its variables
\* alone, so that what is proved of Rewards holds here.
LEMMA StreakDisturbsNothing == ProgressSpec => Spec
<1>1. ProgressInit => Init BY DEF ProgressInit
<1>2. [ProgressNext]_progressVars => [Next]_vars
  BY DEF ProgressNext, Serve, SetTimezone, Tick, progressVars
<1> QED BY <1>1, <1>2, PTL DEF ProgressSpec, Spec

THEOREM ProgressHolds == ProgressSpec => []ProgressInv
BY ProgressStart, ProgressStep, PTL DEF ProgressSpec

\* Unless last_activity_date went back, the current and the best streak are
\* runs of days that were really counted, and the profile shows the current
\* one exactly as long as it can go on (StreaksAreRuns).
THEOREM TrueStreaks == ProgressSpec => []StreaksAreRuns
<1>1. ProgressInv => StreaksAreRuns
  <2> SUFFICES ASSUME ProgressInv, setback = 0 PROVE StreaksAreRuns
    BY DEF StreaksAreRuns
  <2>1. \A d : RunTo(d) = Run(days, d) BY DEF RunTo, Run
  <2>2. ProgressTyped /\ RunsAgree BY DEF ProgressInv
  <2>3. Date(now) \in Int BY <2>2, DateIs DEF ProgressTyped
  <2>4. CASE days = {}
    <3>1. streak.last = None /\ streak = [current |-> 0, best |-> 0, last |-> None]
      BY <2>2, <2>4 DEF ProgressTyped
    <3>2. Shown = 0 BY <3>1 DEF Shown
    <3> QED BY <2>4, <3>1, <3>2 DEF StreaksAreRuns
  <2>5. CASE days # {}
    <3>1. /\ streak.last \in days /\ days \subseteq Int
          /\ \A d \in days : d <= streak.last
          /\ streak.current = Cardinality(RunTo(streak.last))
          /\ \A d \in days : Cardinality(RunTo(d)) <= streak.best
          /\ \E d \in days : Cardinality(RunTo(d)) = streak.best
      BY <2>1, <2>2, <2>5 DEF ProgressTyped, RunsAgree
    <3>2. streak.last # None /\ streak.last \in Int
      BY <3>1, ProgressAssumption DEF ProgressAssumption
    <3>3. streak.last >= Date(now) - 1 <=> \E d \in days : d >= Date(now) - 1
      <4> DEFINE today == Date(now)
      <4>1. today \in Int BY <2>3
      <4> HIDE DEF today
      <4>2. ASSUME NEW d \in days, d >= today - 1 PROVE streak.last >= today - 1
        <5>1. d \in Int /\ d <= streak.last BY <3>1
        <5> QED BY <4>1, <4>2, <5>1, <3>2
      <4>3. streak.last >= today - 1 <=> \E d \in days : d >= today - 1
        BY <3>1, <4>2
      <4> QED BY <4>3 DEF today
    <3>4. Shown = IF \E d \in days : d >= Date(now) - 1
                  THEN Cardinality(RunTo(streak.last)) ELSE 0
      BY <3>1, <3>2, <3>3 DEF Shown
    <3> QED BY <2>5, <3>1, <3>4 DEF StreaksAreRuns
  <2> QED BY <2>4, <2>5
<1> QED BY <1>1, ProgressHolds, PTL

\* In every order of commits and time zones a streak exceeds the days that
\* were counted by no more than the date was put back (SetbackBoundsStreak).
THEOREM StreaksBounded == ProgressSpec => []SetbackBoundsStreak
<1>1. ProgressInv => SetbackBoundsStreak BY DEF ProgressInv, WithinDays
<1> QED BY <1>1, ProgressHolds, PTL

\* The stored level is the one whose XP has been reached, for any number of
\* levels and any sums of rewards (LevelFollowsPoints).
THEOREM LevelsFollow == ProgressSpec => []LevelFollowsPoints
<1>1. ProgressInv => LevelFollowsPoints BY DEF ProgressInv
<1> QED BY <1>1, ProgressHolds, PTL

=============================================================================
