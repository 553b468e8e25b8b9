------------------------------ MODULE Progress ------------------------------
(***************************************************************************)
(* The daily streak and the level, which applyStatsDeltaTx writes together *)
(* with every reward of Rewards.                                           *)
(*                                                                         *)
(* A reward counts for the date of CURRENT_TIMESTAMP in the user's time    *)
(* zone.  That time stands still from BEGIN on, while the transaction may  *)
(* wait for the users row: rewards are then committed in another order     *)
(* than that of their dates.  RewardTx shows that a committed transaction  *)
(* is a step of Rewards; here such a step has begun at any earlier time.   *)
(* A change of the time zone moves the dates as well.                      *)
(***************************************************************************)
EXTENDS Rewards, Integers

CONSTANTS
    DayLen,         \* length of a day, in the unit of the clock
    Zones,          \* offsets of the time zones from UTC, in the same unit
    FirstNeed,      \* XP for the first level (100)
    NeedStep,       \* what each further level needs more (50)
    MaxLevel,       \* the last level (100)
    MaxNow          \* bound: the clock ends here

ASSUME ProgressAssumption ==
    /\ DayLen \in Nat \ {0} /\ Zones \subseteq Int
    /\ FirstNeed \in Nat \ {0} /\ NeedStep \in Nat /\ MaxLevel \in Nat \ {0, 1}
    /\ {TaskXP, FocusXP} \subseteq Nat \ {0} /\ MaxNow \in Nat
    /\ None \notin Int

VARIABLES
    now,            \* the clock of the database
    zone,           \* users.timezone
    streak,         \* current_streak, best_streak and last_activity_date
    level,          \* user_stats.level
    days,           \* history: the dates that rewards were counted for
    setback         \* history: by how many days last_activity_date went back

progressVars == <<vars, now, zone, streak, level, days, setback>>

Date(instant) == (instant + zone) \div DayLen

-----------------------------------------------------------------------------
(* applyStatsDeltaTx. *)

\* Mutant: any other day continues the streak.
StreakOnAnyDay(date) ==
    IF streak.last = None THEN 1
    ELSE IF streak.last # date THEN streak.current + 1
    ELSE streak.current

\* Mutant: every reward adds to the streak.
StreakOfRewards(date) ==
    IF streak.last = None \/ streak.last < date - 1 THEN 1
    ELSE streak.current + 1

\* The CASE of the UPDATE: a streak starts, goes on from yesterday, or stays.
NewStreak(date) ==
    IF streak.last = None \/ streak.last < date - 1 THEN 1
    ELSE IF streak.last = date - 1 THEN streak.current + 1
    ELSE streak.current

Need(l) == FirstNeed + (l - 1) * NeedStep

\* The XP left when the loop has reached level l.
Remaining(points) ==
    LET left[l \in 1..MaxLevel] == IF l = 1 THEN points ELSE left[l - 1] - Need(l - 1)
    IN  left

\* Mutant: a level takes one more XP than it needs.
LevelBeyond(points) ==
    CHOOSE l \in 1..MaxLevel :
        /\ l = MaxLevel \/ Remaining(points)[l] <= Need(l)
        /\ \A k \in 1..l - 1 : Remaining(points)[k] > Need(k)

\* The loop of CalculateLevel ends at the first level that the XP left does not
\* complete, and at the last one.
CalculateLevel(points) ==
    CHOOSE l \in 1..MaxLevel :
        /\ l = MaxLevel \/ Remaining(points)[l] < Need(l)
        /\ \A k \in 1..l - 1 : Remaining(points)[k] >= Need(k)

\* The statistics after a reward that counts for this date.
CountDay(date) ==
    LET current == NewStreak(date)
    IN  /\ streak' = [current |-> current,
                      best |-> IF current > streak.best THEN current ELSE streak.best,
                      last |-> date]
        /\ level' = CalculateLevel(stats'.points)
        /\ days' = days \cup {date}
        /\ setback' = IF streak.last # None /\ date < streak.last
                      THEN setback + (streak.last - date) ELSE setback

-----------------------------------------------------------------------------
\* A transaction of Rewards.  XP, streak and level move together
\* (IncrementStreak is set wherever points are added).
Serve ==
    /\ Next
    /\ UNCHANGED <<now, zone>>
    /\ \/ /\ stats'.points # stats.points
          /\ \E began \in 0..now : CountDay(Date(began))
       \/ /\ stats'.points = stats.points
          /\ UNCHANGED <<streak, level, days, setback>>

\* SetTimezone and the profile's form.
SetTimezone ==
    /\ zone' \in Zones
    /\ UNCHANGED <<vars, now, streak, level, days, setback>>

Tick ==
    /\ now < MaxNow
    /\ now' = now + 1
    /\ UNCHANGED <<vars, zone, streak, level, days, setback>>

ProgressInit ==
    /\ Init
    /\ now = 0 /\ zone \in Zones
    /\ streak = [current |-> 0, best |-> 0, last |-> None]
    /\ level = 1
    /\ days = {} /\ setback = 0

ProgressNext == Serve \/ SetTimezone \/ Tick

ProgressSpec == ProgressInit /\ [][ProgressNext]_progressVars

\* GetUserStats: a streak that has ended before yesterday is not shown.
Shown ==
    IF streak.last # None /\ streak.last >= Date(now) - 1 THEN streak.current ELSE 0

-----------------------------------------------------------------------------
(* Properties. *)

\* The counted days that end with d and follow each other without a gap.
RunTo(d) == {e \in days : e <= d /\ e..d \subseteq days}

\* As long as last_activity_date never went back, the streak is what its name
\* says: the length of the run of days that ends with the latest one, and the
\* best one the longest run there was.  The profile shows the run while it can
\* still go on, and nothing once a day was missed.
StreaksAreRuns ==
    setback = 0 =>
        /\ days = {} => streak = [current |-> 0, best |-> 0, last |-> None]
        /\ days # {} =>
             /\ streak.last \in days /\ \A d \in days : d <= streak.last
             /\ streak.current = Cardinality(RunTo(streak.last))
             /\ \A d \in days : Cardinality(RunTo(d)) <= streak.best
             /\ \E d \in days : Cardinality(RunTo(d)) = streak.best
        /\ Shown = IF \E d \in days : d >= Date(now) - 1
                   THEN Cardinality(RunTo(streak.last)) ELSE 0

\* In whatever order rewards are committed and however the time zone moves, a
\* streak exceeds the days that have really been counted by no more than the
\* days by which last_activity_date was put back.
SetbackBoundsStreak ==
    /\ streak.current <= streak.best
    /\ streak.best <= Cardinality(days) + setback

\* Twice the XP that level l takes: the first one FirstNeed, each further one
\* NeedStep more (docs/BUSINESS-LOGIC.md:26).
TwiceTotal(l) == (l - 1) * (2 * FirstNeed + (l - 2) * NeedStep)

\* The stored level is the one whose XP has been reached, never below 1 nor
\* above the last, and it is brought up to date by every reward.
LevelFollowsPoints ==
    /\ level \in 1..MaxLevel
    /\ TwiceTotal(level) <= 2 * stats.points
    /\ level < MaxLevel => 2 * stats.points < TwiceTotal(level + 1)

=============================================================================
