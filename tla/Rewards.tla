------------------------------ MODULE Rewards ------------------------------
(***************************************************************************)
(* Tasks, Pomodoro sessions, focus state, statistics, achievements and     *)
(* coins of one user.  The backend serialises the user's business actions  *)
(* with SELECT ... FOR UPDATE on the users row and commits each one as a   *)
(* single transaction, so an action of this module is one such transaction *)
(* with everything it writes, triggers and foreign-key actions included.   *)
(* Task deletion does not take that lock; module RewardTx splits the       *)
(* transactions at their row locks and checks that they implement this     *)
(* module.  A request that the code refuses (404, 409) leaves no trace     *)
(* and is a step that is not taken.                                        *)
(***************************************************************************)
EXTENDS Wallet

CONSTANTS
    TaskXP,         \* domain.TaskCompleteReward
    FocusXP,        \* domain.PomodoroRewardPoints
    CycleLen,       \* counted sessions per cycle; the last one earns the long rest
    TaskGoals,      \* targets of the task achievements
    FocusGoals,     \* targets of the Pomodoro achievements
    None            \* no task

ASSUME RewardsAssumption ==
    /\ {TaskXP, FocusXP} \subseteq Nat
    /\ CycleLen \in Nat \ {0, 1}
    /\ TaskGoals \subseteq Nat \ {0} /\ FocusGoals \subseteq Nat \ {0}
    /\ None \notin Tasks

VARIABLES
    task,           \* tasks rows
    session,        \* pomodoro_sessions rows
    focus,          \* the user's focus_states row
    stats,          \* the user's user_stats row: points and total_pomodoros
    completed,      \* tasks with a 'completed' row in daily_task_activity
    achievements    \* achievements rows

vars == <<walletVars, task, session, focus, stats, completed, achievements>>

TaskStatuses == {"pending", "done", "burnt"}
Ages == 0..2
Fresh == 0          \* the session started less than 30 seconds ago
Eligible == 2       \* the session started at least 24 minutes ago

NewTask == [status |-> "pending", claimed |-> FALSE, taken |-> 0]
NoTask == [status |-> "unborn", claimed |-> FALSE, taken |-> 0]
DeletedTask == [NoTask EXCEPT !.status = "deleted"]
NewSession(tk) ==
    [status |-> "active", task |-> tk, age |-> Fresh,
     breakUsed |-> FALSE, onBreak |-> FALSE]
NoSession == [NewSession(None) EXCEPT !.status = "unborn"]
NoRest == "none"

TaskType ==
    [status : TaskStatuses \cup {"unborn", "deleted"}, claimed : BOOLEAN, taken : Nat]
SessionType ==
    [status : {"unborn", "active", "completed", "abandoned", "cancelled"},
     task : Tasks \cup {None}, age : Ages, breakUsed : BOOLEAN, onBreak : BOOLEAN]
FocusType ==
    [cycle : 0..(CycleLen - 1), rest : {NoRest, "short", "long"},
     task : Tasks \cup {None}]

Live == {t \in Tasks : task[t].status \in TaskStatuses}
Active == {s \in Sessions : session[s].status = "active"}

Init ==
    /\ WalletInit
    /\ task = [t \in Tasks |-> NoTask]
    /\ session = [s \in Sessions |-> NoSession]
    /\ focus = [cycle |-> 0, rest |-> NoRest, task |-> None]
    /\ stats = [points |-> 0, pomodoros |-> 0]
    /\ completed = {}
    /\ achievements = {}

-----------------------------------------------------------------------------
(* What the transactions share. *)

\* Achievements whose target is reached by the tasks in done and n sessions.
Earned(done, n) ==
    {<<"tasks", g>> : g \in {h \in TaskGoals : h <= Cardinality(done)}} \cup
    {<<"focus", g>> : g \in {h \in FocusGoals : h <= n}}

\* Mutant: the check runs before the transaction's own changes.
CheckAchievementsFirst ==
    achievements' = achievements \cup Earned(completed, stats.pomodoros)

\* checkAndUnlockAchievementsTx, run at the end of a transaction.
CheckAchievements ==
    achievements' = achievements \cup Earned(completed', stats'.pomodoros)

\* applyStatsDeltaTx for T first task completions and F counted sessions.
ApplyStats(T, F) ==
    stats' = [points |-> stats.points + TaskXP * Cardinality(T)
                                      + FocusXP * Cardinality(F),
              pomodoros |-> stats.pomodoros + Cardinality(F)]

\* Mutant: the status alone decides, as it did before reward_claimed.
RewardableAgain(T) == {t \in T : task[t].status # "done"}

\* The tasks of T whose completion is rewarded.
Rewardable(T) == {t \in T : task[t].status # "done" /\ ~task[t].claimed}

\* Mutant: the rest itself goes on.
ClearRestTask == focus' = [focus EXCEPT !.task = None]

ClearRest == focus' = [focus EXCEPT !.rest = NoRest, !.task = None]

-----------------------------------------------------------------------------
(* Tasks. *)

SaveTask(t) ==
    /\ task[t].status = "unborn"
    /\ task' = [task EXCEPT ![t] = NewTask]
    /\ UNCHANGED <<walletVars, session, focus, stats, completed, achievements>>

\* What updateTaskWithRewards writes once it knows which tasks it rewards.
WriteUpdate(t, status, rewarded) ==
    /\ task' = [task EXCEPT ![t].status = status,
                            ![t].claimed = @ \/ rewarded # {}]
    /\ completed' = IF status = "done" THEN completed \cup {t} ELSE completed
    /\ Credit(rewarded, {})
    /\ ApplyStats(rewarded, {})
    /\ CheckAchievements
    /\ UNCHANGED <<session, focus>>

\* Mutant: the status is written past the rewards.
UpdateUnrewarded(t, status) ==
    /\ t \in Live
    /\ WriteUpdate(t, status, {})

\* PATCH /tasks/{id} with a status: reopening keeps the claim, so that a task
\* is rewarded on its first completion only.
UpdateTask(t, status) ==
    /\ t \in Live
    /\ WriteUpdate(t, status, IF status = "done" THEN Rewardable({t}) ELSE {})

WriteComplete(changed, rewarded) ==
    /\ task' = [t \in Tasks |->
                  IF t \in changed
                  THEN [task[t] EXCEPT !.status = "done", !.claimed = TRUE]
                  ELSE task[t]]
    /\ completed' = completed \cup changed
    /\ Credit(rewarded, {})
    /\ ApplyStats(rewarded, {})
    /\ CheckAchievements
    /\ UNCHANGED <<session, focus>>

\* The ids of T that are missing, foreign or done already are skipped.
BulkComplete(T) ==
    LET changed == {t \in T \cap Live : task[t].status # "done"}
    IN  WriteComplete(changed, Rewardable(changed))

\* The trigger abandons the sessions of `abandoned`; the foreign keys then
\* detach every session and the rest from the tasks.  The journal survives.
WriteDelete(gone, abandoned) ==
    /\ task' = [t \in Tasks |-> IF t \in gone THEN DeletedTask ELSE task[t]]
    /\ session' = [s \in Sessions |->
                     [session[s] EXCEPT
                        !.task = IF @ \in gone THEN None ELSE @,
                        !.status = IF s \in abandoned THEN "abandoned" ELSE @]]
    /\ focus' = [focus EXCEPT !.task = IF @ \in gone THEN None ELSE @]
    /\ UNCHANGED <<walletVars, stats, completed, achievements>>

\* DELETE /tasks/{id} and bulk-delete.
DeleteTasks(T) ==
    /\ T \cap Live # {}
    /\ WriteDelete(T \cap Live, {s \in Active : session[s].task \in T \cap Live})

-----------------------------------------------------------------------------
(* Focus. *)

\* A new session starts, which ends the recovery rest.
WriteStart(s, tk) ==
    /\ session[s].status = "unborn"
    /\ session' = [session EXCEPT ![s] = NewSession(tk)]
    /\ ClearRest
    /\ UNCHANGED <<walletVars, task, stats, completed, achievements>>

\* StartPomodoroSession: one active session per user.
StartFocus(s, tk) ==
    /\ tk \in Live \cup {None}
    /\ Active = {}
    /\ WriteStart(s, tk)

\* AddPomodoroBreak: one extra break of at most five minutes per session.
TakeBreak(s) ==
    /\ s \in Active
    /\ ~session[s].breakUsed
    /\ session' = [session EXCEPT ![s].breakUsed = TRUE, ![s].onBreak = TRUE]
    /\ UNCHANGED <<walletVars, task, focus, stats, completed, achievements>>

\* ResumeFocus in the extra break: the same session goes on.
EndBreak(s) ==
    /\ s \in Active
    /\ session[s].onBreak
    /\ session' = [session EXCEPT ![s].onBreak = FALSE]
    /\ UNCHANGED <<walletVars, task, focus, stats, completed, achievements>>

\* ResumeFocus in the recovery rest: the next session, with the same task when
\* it is still pending.
ResumeRest(s) ==
    /\ Active = {}
    /\ focus.rest # NoRest
    /\ StartFocus(s, IF focus.task # None /\ task[focus.task].status = "pending"
                     THEN focus.task ELSE None)

FinishRest ==
    /\ ClearRest
    /\ UNCHANGED <<walletVars, task, session, stats, completed, achievements>>

\* updateFocusAfterFinish
FocusAfterFinish(counted, tk) ==
    IF counted
    THEN focus' = [cycle |-> (focus.cycle + 1) % CycleLen,
                   rest |-> IF focus.cycle = CycleLen - 1 THEN "long" ELSE "short",
                   task |-> tk]
    ELSE ClearRest

\* Mutant: any completed session counts.
CountsAtOnce(action, age) == action = "completed"

\* A session counts when it is completed 24 minutes or more after its start.
Counts(action, age) == action = "completed" /\ age = Eligible

\* What FinishPomodoroSession writes about session s of task tk.  The time of
\* the transaction, CURRENT_TIMESTAMP, stands still from its BEGIN on: it is the
\* session's completed_at, and `age` is the age the session has reached then.
WriteFinish(s, tk, action, finishTask, age, rewardable) ==
    LET counted == Counts(action, age)
        finished == IF finishTask /\ action = "completed" THEN {tk} \ {None} ELSE {}
        rewarded == finished \cap rewardable
        sessions == IF counted THEN {s} ELSE {}
    IN
    /\ session' = [session EXCEPT ![s].status = action, ![s].age = age]
    /\ task' = [t \in Tasks |->
                  [task[t] EXCEPT
                     !.status = IF t \in finished THEN "done" ELSE @,
                     !.claimed = @ \/ t \in rewarded,
                     !.taken = IF t = tk /\ counted THEN @ + 1 ELSE @]]
    /\ completed' = completed \cup finished
    /\ Credit(rewarded, sessions)
    /\ ApplyStats(rewarded, sessions)
    /\ FocusAfterFinish(counted, tk)
    /\ CheckAchievements

\* FinishPomodoroSession: finishTask also completes the session's task.
FinishFocus(s, action, finishTask, age) ==
    /\ s \in Active
    /\ age <= session[s].age
    /\ WriteFinish(s, session[s].task, action, finishTask, age, Rewardable(Tasks))

\* CancelPomodoroSession: a mistaken start, undone within 30 seconds.
CancelFocus(s) ==
    /\ s \in Active
    /\ session[s].age = Fresh
    /\ session' = [session EXCEPT ![s].status = "cancelled"]
    /\ UNCHANGED <<walletVars, task, focus, stats, completed, achievements>>

\* Database time passes for the active session; an extra break may run out.
Elapse(s) ==
    /\ s \in Active
    /\ \E older \in Ages, still \in BOOLEAN :
         /\ older \in {session[s].age, session[s].age + 1}
         /\ still => session[s].onBreak
         /\ session' = [session EXCEPT ![s].age = older, ![s].onBreak = still]
    /\ UNCHANGED <<walletVars, task, focus, stats, completed, achievements>>

-----------------------------------------------------------------------------
FocusAction ==
    \/ \E s \in Sessions, tk \in Tasks \cup {None} : StartFocus(s, tk)
    \/ \E s \in Sessions : \/ TakeBreak(s)
                           \/ EndBreak(s)
                           \/ ResumeRest(s)
                           \/ CancelFocus(s)
                           \/ Elapse(s)
    \/ \E s \in Sessions, action \in {"completed", "abandoned"},
          finishTask \in BOOLEAN, age \in Ages : FinishFocus(s, action, finishTask, age)
    \/ FinishRest

TaskAction ==
    \/ \E t \in Tasks : SaveTask(t)
    \/ \E t \in Tasks, status \in TaskStatuses : UpdateTask(t, status)
    \/ \E T \in SUBSET Tasks : BulkComplete(T) \/ DeleteTasks(T)

\* Reading the achievements unlocks those that are due.
GetAchievements ==
    /\ achievements' = achievements \cup Earned(completed, stats.pomodoros)
    /\ UNCHANGED <<walletVars, task, session, focus, stats, completed>>

Shop ==
    /\ ShopAction
    /\ UNCHANGED <<task, session, focus, stats, completed, achievements>>

Next == TaskAction \/ FocusAction \/ GetAchievements \/ Shop

Spec == Init /\ [][Next]_vars

-----------------------------------------------------------------------------
(* Properties. *)

\* The rows have the shape of their tables (column types, CHECK constraints
\* and enumerated statuses).
TypeOK ==
    /\ wallet \in WalletType
    /\ ledger \in LedgerType
    /\ task \in [Tasks -> TaskType]
    /\ session \in [Sessions -> SessionType]
    /\ focus \in FocusType
    /\ stats \in [points : Nat, pomodoros : Nat]
    /\ completed \subseteq Tasks
    /\ achievements \subseteq ({"tasks"} \X TaskGoals) \cup ({"focus"} \X FocusGoals)

\* The balance is what the ledger says: the starting coins, plus each rewarded
\* event once, minus every purchase (readWallet / writeWallet / awardCoinsTx).
WalletBalances ==
    wallet.coins + ledger.spent = StartCoins + TaskCoins * Cardinality(ledger.tasks)
                                             + FocusCoins * Cardinality(ledger.focus)

\* XP and the Pomodoro counter, which are guarded by the task's reward_claimed
\* and the session's status, agree with the coins, which are guarded by the
\* ledger's unique key: no event gives one reward without the other.
StatsMatchLedger ==
    /\ stats.points = TaskXP * Cardinality(ledger.tasks)
                      + FocusXP * Cardinality(ledger.focus)
    /\ stats.pomodoros = Cardinality(ledger.focus)

\* A task that is done has had its reward; a task has had it exactly when its
\* reward_claimed says so, however often it was reopened; and the completion
\* journal, which outlives the task, holds exactly the rewarded tasks.
ClaimedIffPaid ==
    /\ \A t \in Live : /\ task[t].claimed <=> t \in ledger.tasks
                       /\ task[t].status = "done" => task[t].claimed
    /\ completed = ledger.tasks

\* At most one session of the user is active, though no unique index says so.
OneActiveSession == Cardinality(Active) <= 1

\* A session is paid exactly when it is completed and was eligible.
PaidIffCounted == \A s \in Sessions :
    s \in ledger.focus <=> /\ session[s].status = "completed"
                           /\ session[s].age = Eligible

\* A session is paid exactly when its completed_at is 24 minutes or more after
\* its start: never when it was cut short, cancelled, or abandoned by the
\* deletion of its task.  The cycle follows the sessions that counted, and the
\* long rest comes after every CycleLen-th of them.
SessionsCounted ==
    /\ PaidIffCounted
    /\ focus.cycle = stats.pomodoros % CycleLen
    /\ focus.rest # NoRest => (focus.rest = "long" <=> focus.cycle = 0)

\* No session and no rest refers to a task that no longer exists, and a
\* running session leaves no recovery rest behind it.
FocusRefers ==
    /\ \A s \in Sessions : session[s].task \in Live \cup {None}
    /\ focus.task \in Live \cup {None}
    /\ Active # {} => focus.rest = NoRest

\* The user's focus is one thing at a time, a session or a rest, and its tasks
\* exist: through starts, resumed rests and deletions that lock no user.
FocusConsistent == OneActiveSession /\ FocusRefers

\* Every achievement whose target is reached is unlocked by the transaction
\* that reached it, and none is unlocked early.
AchievementsCurrent == achievements = Earned(completed, stats.pomodoros)

\* The wallet holds what it may: an active theme or sound is owned; the limit
\* of personal rewards holds whether they were created or imported; and a
\* catalogue item comes in only with a charge of its price in the same
\* transaction, or with the one import an account may ever make.  That one is not
\* used up by a device that has nothing: it leaves more rewards than before, or
\* a theme or sound of the catalogue in use.
WalletHoldsOwned ==
    /\ []({wallet.theme, wallet.sound} \subseteq wallet.owned \cup {Default})
    /\ [](Cardinality(Saved) <= MaxRewards)
    /\ [][\A i \in wallet'.owned \ wallet.owned :
             \/ ledger'.spent = ledger.spent + Price[i]
             \/ wallet'.imported /\ ~wallet.imported]_vars
    /\ [][wallet'.imported /\ ~wallet.imported =>
             \/ Cardinality(Saved') > Cardinality(Saved)
             \/ {wallet'.theme, wallet'.sound} # {Default}]_vars

\* What docs/BUSINESS-LOGIC.md says of every personal reward: its price is at
\* least 10 coins.  ImportLegacy accepts cheaper ones.
PersonalPriceInRange == \A r \in Saved : wallet.personal[r] >= MinPrice

\* No action of the user takes back what was earned or bought: XP, counted
\* sessions, the journal, every part of the ledger, the achievements, the owned
\* items and the use of the import only grow, and coins leave the wallet only
\* through a purchase of that amount.
NothingTakenBack ==
    [][/\ stats'.points >= stats.points
       /\ stats'.pomodoros >= stats.pomodoros
       /\ completed \subseteq completed'
       /\ achievements \subseteq achievements'
       /\ ledger.tasks \subseteq ledger'.tasks
       /\ ledger.focus \subseteq ledger'.focus
       /\ ledger'.spent >= ledger.spent
       /\ wallet.owned \subseteq wallet'.owned
       /\ wallet.imported => wallet'.imported
       /\ wallet'.coins + ledger'.spent >= wallet.coins + ledger.spent]_vars

=============================================================================
