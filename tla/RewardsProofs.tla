--------------------------- MODULE RewardsProofs ---------------------------
(***************************************************************************)
(* Proofs about Rewards for every set of tasks and sessions, every reward, *)
(* every catalogue and every cycle length: types, balance, accounts, what  *)
(* is never taken back, achievements, cycle and wallet, in this order.     *)
(***************************************************************************)
EXTENDS Rewards, FiniteSetTheorems, TLAPS

(* Counting the events of the ledger. *)

LEMMA TaskCount ==
    ASSUME NEW T \in SUBSET Tasks
    PROVE  IsFiniteSet(T) /\ Cardinality(T) \in Nat
  BY WalletAssumption, FS_Subset, FS_CardinalityType DEF WalletAssumption

LEMMA SessionCount ==
    ASSUME NEW S \in SUBSET Sessions
    PROVE  IsFiniteSet(S) /\ Cardinality(S) \in Nat
  BY WalletAssumption, FS_Subset, FS_CardinalityType DEF WalletAssumption

\* Multiplying out a reward that is a constant.
LEMMA Product ==
    ASSUME NEW a \in Nat, NEW m \in Nat, NEW n \in Nat
    PROVE  /\ a * m \in Nat
           /\ a * (m + n) = a * m + a * n
  BY SMT

\* A set of events and the new ones credited on top of it.
LEMMA NewEvents ==
    ASSUME NEW S, NEW T, IsFiniteSet(S), IsFiniteSet(T)
    PROVE  /\ Cardinality(S) \in Nat /\ Cardinality(T \ S) \in Nat
           /\ Cardinality(S \cup T) = Cardinality(S) + Cardinality(T \ S)
  <1>1. IsFiniteSet(T \ S)
    BY FS_Difference
  <1>2. /\ Cardinality(S) \in Nat /\ Cardinality(T \ S) \in Nat
        /\ Cardinality({}) = 0
    BY <1>1, FS_CardinalityType, FS_EmptySet
  <1>3. Cardinality(S \cup (T \ S))
          = Cardinality(S) + Cardinality(T \ S) - Cardinality(S \cap (T \ S))
    BY <1>1, FS_Union
  <1>4. S \cup (T \ S) = S \cup T /\ S \cap (T \ S) = {}
    OBVIOUS
  <1>5. Cardinality(S \cup T) = Cardinality(S) + Cardinality(T \ S) - 0
    BY <1>2, <1>3, <1>4
  <1>6. QED
    BY <1>2, <1>5

-----------------------------------------------------------------------------
(* Types. *)

LEMMA CreditType ==
    ASSUME NEW T \in SUBSET Tasks, NEW F \in SUBSET Sessions,
           wallet \in WalletType, ledger \in LedgerType, Credit(T, F)
    PROVE  wallet' \in WalletType /\ ledger' \in LedgerType
  <1>1. /\ Cardinality(T \ ledger.tasks) \in Nat
        /\ Cardinality(F \ ledger.focus) \in Nat
    <2>1. T \ ledger.tasks \in SUBSET Tasks /\ F \ ledger.focus \in SUBSET Sessions
      OBVIOUS
    <2>2. QED
      BY <2>1, TaskCount, SessionCount
  <1>2. /\ TaskCoins * Cardinality(T \ ledger.tasks) \in Nat
        /\ FocusCoins * Cardinality(F \ ledger.focus) \in Nat
    BY <1>1, WalletAssumption, Product DEF WalletAssumption
  <1> DEFINE tc == TaskCoins * Cardinality(T \ ledger.tasks)
             fc == FocusCoins * Cardinality(F \ ledger.focus)
  <1>3. wallet' = [wallet EXCEPT !.coins = @ + tc + fc]
    BY DEF Credit
  <1>4. tc \in Nat /\ fc \in Nat
    BY <1>2
  <1> HIDE DEF tc, fc
  <1>5. wallet' \in WalletType
    BY <1>3, <1>4 DEF WalletType
  <1>6. ledger' \in LedgerType
    BY DEF Credit, LedgerType
  <1>7. QED
    BY <1>5, <1>6

LEMMA PricesAreNat ==
    ASSUME NEW f \in [RewardIds -> RewardPrices \cup {NoReward}], NEW r \in RewardIds
    PROVE  f[r] \in Nat
  <1>1. RewardPrices \cup {NoReward} \subseteq Nat
    BY WalletAssumption DEF WalletAssumption, NoReward
  <1>2. QED
    BY <1>1

LEMMA ShopType ==
    ASSUME wallet \in WalletType, ledger \in LedgerType, ShopAction
    PROVE  wallet' \in WalletType /\ ledger' \in LedgerType
  <1> USE WalletAssumption DEF WalletAssumption, WalletType, LedgerType
  <1>1. ASSUME NEW i \in Items, Buy(i)
        PROVE  wallet' \in WalletType /\ ledger' \in LedgerType
    <2>1. Price[i] \in Nat
      OBVIOUS
    <2>2. wallet.coins - Price[i] \in Nat
      BY <1>1, <2>1 DEF Buy, Charge
    <2>3. wallet' \in WalletType
      BY <1>1, <2>2 DEF Buy
    <2>4. QED
      BY <1>1, <2>1, <2>3 DEF Buy, Charge
  <1>2. ASSUME NEW i \in Themes \cup {Default}, EquipTheme(i)
        PROVE  wallet' \in WalletType /\ ledger' \in LedgerType
    BY <1>2 DEF EquipTheme
  <1>3. ASSUME NEW i \in Sounds \cup {Default}, EquipSound(i)
        PROVE  wallet' \in WalletType /\ ledger' \in LedgerType
    BY <1>3 DEF EquipSound
  <1>4. ASSUME NEW r \in RewardIds, NEW p \in RewardPrices, CreatePersonal(r, p)
        PROVE  wallet' \in WalletType /\ ledger' \in LedgerType
    BY <1>4 DEF CreatePersonal
  <1>5. ASSUME NEW r \in RewardIds, DeletePersonal(r)
        PROVE  wallet' \in WalletType /\ ledger' \in LedgerType
    BY <1>5 DEF DeletePersonal
  <1>6. ASSUME NEW r \in RewardIds, RedeemPersonal(r)
        PROVE  wallet' \in WalletType /\ ledger' \in LedgerType
    <2>1. wallet.personal \in [RewardIds -> RewardPrices \cup {NoReward}]
      OBVIOUS
    <2>2. wallet.personal[r] \in Nat
      BY <2>1, PricesAreNat
    <2>3. wallet.coins - wallet.personal[r] \in Nat
      BY <1>6, <2>2 DEF RedeemPersonal, Charge
    <2>4. wallet' \in WalletType
      BY <1>6, <2>3 DEF RedeemPersonal
    <2>5. QED
      BY <1>6, <2>2, <2>4 DEF RedeemPersonal, Charge
  <1>7. ASSUME NEW R \in SUBSET RewardIds, NEW p \in RewardPrices,
               NEW th \in Themes \cup {Default}, NEW so \in Sounds \cup {Default},
               ImportLegacy(R, p, th, so)
        PROVE  wallet' \in WalletType /\ ledger' \in LedgerType
    BY <1>7 DEF ImportLegacy, Imported, Items
  <1>8. QED
    BY <1>1, <1>2, <1>3, <1>4, <1>5, <1>6, <1>7 DEF ShopAction

LEMMA StatsType ==
    ASSUME NEW T \in SUBSET Tasks, NEW F \in SUBSET Sessions,
           stats \in [points : Nat, pomodoros : Nat], ApplyStats(T, F)
    PROVE  stats' \in [points : Nat, pomodoros : Nat]
  <1>1. /\ Cardinality(F) \in Nat
        /\ TaskXP * Cardinality(T) \in Nat
        /\ FocusXP * Cardinality(F) \in Nat
    BY TaskCount, SessionCount, Product, RewardsAssumption DEF RewardsAssumption
  <1>2. QED
    BY <1>1 DEF ApplyStats

LEMMA EarnedType ==
    ASSUME NEW D, NEW n
    PROVE  Earned(D, n) \subseteq ({"tasks"} \X TaskGoals) \cup ({"focus"} \X FocusGoals)
  BY DEF Earned

LEMMA RewardableType ==
    ASSUME NEW T
    PROVE  Rewardable(T) \subseteq T
  BY DEF Rewardable

LEMMA TypeInit == Init => TypeOK
  <1>1. CycleLen \in Nat \ {0, 1} /\ StartCoins \in Nat
    BY RewardsAssumption, WalletAssumption DEF RewardsAssumption, WalletAssumption
  <1> SUFFICES ASSUME Init PROVE TypeOK
    OBVIOUS
  <1>2. wallet \in WalletType /\ ledger \in LedgerType
    BY <1>1 DEF Init, WalletInit, NewWallet, WalletType, LedgerType
  <1>3. task \in [Tasks -> TaskType]
    BY DEF Init, TaskType, NoTask
  <1>4. session \in [Sessions -> SessionType]
    <2>1. NewSession(None) \in SessionType
      BY DEF NewSession, SessionType, Fresh, Ages
    <2>2. NoSession \in SessionType
      BY <2>1 DEF NoSession, SessionType
    <2>3. QED
      BY <2>2 DEF Init
  <1>5. focus \in FocusType
    BY <1>1 DEF Init, FocusType
  <1>6. QED
    BY <1>2, <1>3, <1>4, <1>5 DEF Init, TypeOK

LEMMA TypeStep ==
    ASSUME TypeOK, [Next]_vars
    PROVE  TypeOK'
  <1> USE DEF TypeOK
  <1>1. ASSUME NEW t \in Tasks, SaveTask(t)
        PROVE  TypeOK'
    BY <1>1 DEF SaveTask, walletVars, TaskType, NewTask, TaskStatuses
  <1>2. ASSUME NEW t \in Tasks, NEW status \in TaskStatuses, UpdateTask(t, status)
        PROVE  TypeOK'
    <2> DEFINE R == IF status = "done" THEN Rewardable({t}) ELSE {}
    <2>1. R \in SUBSET Tasks /\ {} \in SUBSET Sessions
      BY RewardableType
    <2>2. Credit(R, {}) /\ ApplyStats(R, {})
      BY <1>2 DEF UpdateTask, WriteUpdate
    <2> HIDE DEF R
    <2>3. wallet' \in WalletType /\ ledger' \in LedgerType
      BY <2>1, <2>2, CreditType
    <2>4. stats' \in [points : Nat, pomodoros : Nat]
      BY <2>1, <2>2, StatsType
    <2>5. task' \in [Tasks -> TaskType] /\ completed' \subseteq Tasks
      BY <1>2 DEF UpdateTask, WriteUpdate, TaskType
    <2>6. achievements' \subseteq ({"tasks"} \X TaskGoals) \cup ({"focus"} \X FocusGoals)
      BY <1>2, EarnedType DEF UpdateTask, WriteUpdate, CheckAchievements
    <2>7. QED
      BY <1>2, <2>3, <2>4, <2>5, <2>6 DEF UpdateTask, WriteUpdate
  <1>3. ASSUME NEW T \in SUBSET Tasks, BulkComplete(T)
        PROVE  TypeOK'
    <2> DEFINE C == {t \in T \cap Live : task[t].status # "done"}
               R == Rewardable(C)
    <2>1. C \in SUBSET Tasks /\ R \in SUBSET Tasks /\ {} \in SUBSET Sessions
      BY RewardableType
    <2>2. /\ Credit(R, {}) /\ ApplyStats(R, {})
          /\ completed' = completed \cup C
          /\ task' = [t \in Tasks |->
                        IF t \in C
                        THEN [task[t] EXCEPT !.status = "done", !.claimed = TRUE]
                        ELSE task[t]]
      BY <1>3 DEF BulkComplete, WriteComplete
    <2> HIDE DEF C, R
    <2>3. wallet' \in WalletType /\ ledger' \in LedgerType
      BY <2>1, <2>2, CreditType
    <2>4. stats' \in [points : Nat, pomodoros : Nat]
      BY <2>1, <2>2, StatsType
    <2>5. task' \in [Tasks -> TaskType] /\ completed' \subseteq Tasks
      BY <2>1, <2>2 DEF TaskType, TaskStatuses
    <2>6. achievements' \subseteq ({"tasks"} \X TaskGoals) \cup ({"focus"} \X FocusGoals)
      BY <1>3, EarnedType DEF BulkComplete, WriteComplete, CheckAchievements
    <2>7. QED
      BY <1>3, <2>3, <2>4, <2>5, <2>6 DEF BulkComplete, WriteComplete
  <1>4. ASSUME NEW T \in SUBSET Tasks, DeleteTasks(T)
        PROVE  TypeOK'
    <2>1. task' \in [Tasks -> TaskType]
      BY <1>4 DEF DeleteTasks, WriteDelete, TaskType, DeletedTask, NoTask
    <2>2. session' \in [Sessions -> SessionType]
      <3> DEFINE gone == T \cap Live
                 abandoned == {s \in Active : session[s].task \in T \cap Live}
                 row(s) == [session[s] EXCEPT
                              !.task = IF @ \in gone THEN None ELSE @,
                              !.status = IF s \in abandoned THEN "abandoned" ELSE @]
      <3>1. session' = [s \in Sessions |-> row(s)]
        BY <1>4 DEF DeleteTasks, WriteDelete
      <3> HIDE DEF gone, abandoned
      <3>2. ASSUME NEW s \in Sessions
            PROVE  row(s) \in SessionType
        <4>1. session[s] \in SessionType
          OBVIOUS
        <4>2. (IF session[s].task \in gone THEN None ELSE session[s].task)
                \in Tasks \cup {None}
          BY <4>1 DEF SessionType
        <4>3. (IF s \in abandoned THEN "abandoned" ELSE session[s].status)
                \in {"unborn", "active", "completed", "abandoned", "cancelled"}
          BY <4>1 DEF SessionType
        <4>4. QED
          BY <4>1, <4>2, <4>3 DEF SessionType
      <3> HIDE DEF row
      <3>3. QED
        BY <3>1, <3>2
    <2>3. focus' \in FocusType
      BY <1>4 DEF DeleteTasks, WriteDelete, FocusType
    <2>4. QED
      BY <1>4, <2>1, <2>2, <2>3 DEF DeleteTasks, WriteDelete, walletVars
  <1>5. ASSUME NEW s \in Sessions, NEW tk \in Tasks \cup {None}, StartFocus(s, tk)
        PROVE  TypeOK'
    <2>1. NewSession(tk) \in SessionType
      BY DEF NewSession, SessionType, Fresh, Ages
    <2>2. session' \in [Sessions -> SessionType]
      BY <1>5, <2>1 DEF StartFocus, WriteStart
    <2>3. focus' \in FocusType
      BY <1>5 DEF StartFocus, WriteStart, ClearRest, FocusType
    <2>4. QED
      BY <1>5, <2>2, <2>3 DEF StartFocus, WriteStart, walletVars
  <1>6. ASSUME NEW s \in Sessions, TakeBreak(s)
        PROVE  TypeOK'
    <2>1. session' \in [Sessions -> SessionType]
      <3>1. session[s] \in SessionType
        OBVIOUS
      <3>2. [session[s] EXCEPT !.breakUsed = TRUE, !.onBreak = TRUE] \in SessionType
        BY <3>1 DEF SessionType
      <3>3. session' = [session EXCEPT ![s] =
                          [session[s] EXCEPT !.breakUsed = TRUE, !.onBreak = TRUE]]
        BY <1>6 DEF TakeBreak
      <3>4. QED
        BY <3>2, <3>3
    <2>2. QED
      BY <1>6, <2>1 DEF TakeBreak, walletVars
  <1>7. ASSUME NEW s \in Sessions, EndBreak(s)
        PROVE  TypeOK'
    BY <1>7 DEF EndBreak, walletVars, SessionType
  <1>8. ASSUME NEW s \in Sessions, ResumeRest(s)
        PROVE  TypeOK'
    <2>1. focus.task \in Tasks \cup {None}
      BY DEF FocusType
    <2>2. \E tk \in Tasks \cup {None} : StartFocus(s, tk)
      BY <1>8, <2>1 DEF ResumeRest
    <2>3. QED
      BY <2>2, <1>5
  <1>9. ASSUME FinishRest
        PROVE  TypeOK'
    BY <1>9 DEF FinishRest, ClearRest, walletVars, FocusType
  <1>10. ASSUME NEW s \in Sessions, NEW action \in {"completed", "abandoned"},
                NEW finishTask \in BOOLEAN, NEW age \in Ages,
                FinishFocus(s, action, finishTask, age)
         PROVE  TypeOK'
    <2> DEFINE tk == session[s].task
               counted == Counts(action, age)
               finished == IF finishTask /\ action = "completed"
                           THEN {tk} \ {None} ELSE {}
               R == finished \cap Rewardable(Tasks)
               F == IF counted THEN {s} ELSE {}
    <2>1. tk \in Tasks \cup {None} /\ counted \in BOOLEAN
      BY DEF Counts, SessionType
    <2>2. finished \in SUBSET Tasks /\ R \in SUBSET Tasks /\ F \in SUBSET Sessions
      BY <2>1
    <2>3. /\ Credit(R, F) /\ ApplyStats(R, F)
          /\ completed' = completed \cup finished
          /\ FocusAfterFinish(counted, tk)
          /\ session' = [session EXCEPT ![s].status = action, ![s].age = age]
          /\ task' = [t \in Tasks |->
                  [task[t] EXCEPT
                     !.status = IF t \in finished THEN "done" ELSE @,
                     !.claimed = @ \/ t \in R,
                     !.taken = IF t = tk /\ counted THEN @ + 1 ELSE @]]
      BY <1>10 DEF FinishFocus, WriteFinish
    <2> HIDE DEF tk, counted, finished, R, F
    <2>4. wallet' \in WalletType /\ ledger' \in LedgerType
      BY <2>2, <2>3, CreditType
    <2>5. stats' \in [points : Nat, pomodoros : Nat]
      BY <2>2, <2>3, StatsType
    <2>6. ASSUME NEW t \in Tasks
          PROVE  [task[t] EXCEPT
                     !.status = IF t \in finished THEN "done" ELSE @,
                     !.claimed = @ \/ t \in R,
                     !.taken = IF t = tk /\ counted THEN @ + 1 ELSE @] \in TaskType
      <3>1. task[t] \in TaskType
        OBVIOUS
      <3>2. /\ (IF t \in finished THEN "done" ELSE task[t].status)
                 \in TaskStatuses \cup {"unborn", "deleted"}
            /\ (task[t].claimed \/ t \in R) \in BOOLEAN
            /\ (IF t = tk /\ counted THEN task[t].taken + 1 ELSE task[t].taken) \in Nat
        BY <3>1 DEF TaskType, TaskStatuses
      <3>3. QED
        BY <3>1, <3>2 DEF TaskType
    <2>7. task' \in [Tasks -> TaskType]
      BY <2>3, <2>6
    <2>8. completed' \subseteq Tasks
      BY <2>2, <2>3
    <2>9. session' \in [Sessions -> SessionType]
      <3>1. [session[s] EXCEPT !.status = action, !.age = age] \in SessionType
        BY DEF SessionType
      <3>2. session' = [session EXCEPT ![s] =
                          [session[s] EXCEPT !.status = action, !.age = age]]
        BY <2>3
      <3>3. QED
        BY <3>1, <3>2
    <2>10. focus' \in FocusType
      <3>1. (focus.cycle + 1) % CycleLen \in 0..(CycleLen - 1)
        BY RewardsAssumption DEF RewardsAssumption, FocusType
      <3>2. QED
        <4>1. CASE counted
          <5>1. focus' = [cycle |-> (focus.cycle + 1) % CycleLen,
                          rest |-> IF focus.cycle = CycleLen - 1
                                   THEN "long" ELSE "short",
                          task |-> tk]
            BY <4>1, <2>3 DEF FocusAfterFinish
          <5>2. QED
            BY <5>1, <2>1, <3>1 DEF FocusType
        <4>2. CASE ~counted
          BY <4>2, <2>3 DEF FocusAfterFinish, ClearRest, FocusType
        <4>3. QED
          BY <4>1, <4>2
    <2>11. achievements' \subseteq ({"tasks"} \X TaskGoals) \cup ({"focus"} \X FocusGoals)
      BY <1>10, EarnedType DEF FinishFocus, WriteFinish, CheckAchievements
    <2>12. QED
      BY <2>4, <2>5, <2>7, <2>8, <2>9, <2>10, <2>11
  <1>11. ASSUME NEW s \in Sessions, CancelFocus(s)
         PROVE  TypeOK'
    BY <1>11 DEF CancelFocus, walletVars, SessionType
  <1>12. ASSUME NEW s \in Sessions, Elapse(s)
         PROVE  TypeOK'
    <2>1. PICK older \in Ages, still \in BOOLEAN :
            session' = [session EXCEPT ![s].age = older, ![s].onBreak = still]
      BY <1>12 DEF Elapse
    <2>2. [session[s] EXCEPT !.age = older, !.onBreak = still] \in SessionType
      BY DEF SessionType
    <2>3. session' = [session EXCEPT ![s] =
                        [session[s] EXCEPT !.age = older, !.onBreak = still]]
      BY <2>1
    <2>4. QED
      BY <1>12, <2>2, <2>3 DEF Elapse, walletVars
  <1>13. CASE Shop
    BY <1>13, ShopType DEF Shop
  <1>14. CASE GetAchievements
    BY <1>14, EarnedType DEF GetAchievements, walletVars
  <1>15. CASE UNCHANGED vars
    BY <1>15 DEF vars, walletVars
  <1>16. QED
    BY <1>1, <1>2, <1>3, <1>4, <1>5, <1>6, <1>7, <1>8, <1>9, <1>10, <1>11, <1>12,
       <1>13, <1>14, <1>15 DEF Next, TaskAction, FocusAction

\* Every reachable state of the user's rows has the shape of its tables.
THEOREM TypeCorrect == Spec => []TypeOK
  BY TypeInit, TypeStep, PTL DEF Spec

-----------------------------------------------------------------------------
(***************************************************************************)
(* The safety invariants.  The balance is inductive on its own.  The       *)
(* others hold each other up: that an event is paid once in XP and once in *)
(* coins needs the claim of a task and the status of a session to agree    *)
(* with the ledger, and that needs every session to refer to a living task *)
(* and no two sessions to be active.  Accounts is their conjunction with   *)
(* the types and with the two strengthenings that come first.              *)
(***************************************************************************)

\* A task that was never created has not been paid.
UnbornUnpaid == \A t \in Tasks : task[t].status = "unborn" => t \notin ledger.tasks

\* OneActiveSession without counting.
SingleActive == \A r, s \in Active : r = s

Accounts ==
    /\ TypeOK
    /\ StatsMatchLedger
    /\ ClaimedIffPaid
    /\ UnbornUnpaid
    /\ PaidIffCounted
    /\ FocusRefers
    /\ SingleActive

-----------------------------------------------------------------------------
(* The balance. *)

LEMMA CreditBalances ==
    ASSUME NEW T \in SUBSET Tasks, NEW F \in SUBSET Sessions, TypeOK,
           WalletBalances, Credit(T, F)
    PROVE  WalletBalances'
  <1> DEFINE n == Cardinality(ledger.tasks)   dn == Cardinality(T \ ledger.tasks)
             m == Cardinality(ledger.focus)   dm == Cardinality(F \ ledger.focus)
  <1>1. ledger.tasks \in SUBSET Tasks /\ ledger.focus \in SUBSET Sessions
    BY DEF TypeOK, LedgerType
  <1>2. /\ n \in Nat /\ dn \in Nat /\ m \in Nat /\ dm \in Nat
        /\ Cardinality(ledger.tasks \cup T) = n + dn
        /\ Cardinality(ledger.focus \cup F) = m + dm
    BY <1>1, TaskCount, SessionCount, NewEvents
  <1>3. /\ wallet'.coins = wallet.coins + TaskCoins * dn + FocusCoins * dm
        /\ ledger'.spent = ledger.spent
        /\ ledger'.tasks = ledger.tasks \cup T
        /\ ledger'.focus = ledger.focus \cup F
    BY DEF Credit, TypeOK, WalletType, LedgerType
  <1>4. /\ wallet.coins \in Nat /\ ledger.spent \in Nat
        /\ TaskCoins \in Nat /\ FocusCoins \in Nat /\ StartCoins \in Nat
    BY WalletAssumption DEF TypeOK, WalletType, LedgerType, WalletAssumption
  <1>5. /\ Cardinality(ledger'.tasks) = n + dn
        /\ Cardinality(ledger'.focus) = m + dm
    BY <1>2, <1>3
  <1>6. wallet.coins + ledger.spent = StartCoins + TaskCoins * n + FocusCoins * m
    BY DEF WalletBalances
  <1> DEFINE x == TaskCoins * n   dx == TaskCoins * dn
             y == FocusCoins * m  dy == FocusCoins * dm
  <1>7. /\ TaskCoins * (n + dn) = x + dx /\ FocusCoins * (m + dm) = y + dy
        /\ x \in Nat /\ dx \in Nat /\ y \in Nat /\ dy \in Nat
    BY <1>2, <1>4, Product
  <1>8. wallet'.coins + ledger'.spent = StartCoins + (x + dx) + (y + dy)
    <2>1. wallet.coins + ledger.spent = StartCoins + x + y
      BY <1>6
    <2>2. wallet'.coins = wallet.coins + dx + dy
      BY <1>3
    <2> HIDE DEF x, dx, y, dy
    <2>3. QED
      BY <1>3, <1>4, <1>7, <2>1, <2>2
  <1>9. wallet'.coins + ledger'.spent
          = StartCoins + TaskCoins * (n + dn) + FocusCoins * (m + dm)
    BY <1>7, <1>8
  <1>10. QED
    BY <1>5, <1>9 DEF WalletBalances

LEMMA ChargeBalances ==
    ASSUME NEW spend \in Nat, TypeOK, WalletBalances, Charge(spend),
           wallet'.coins = wallet.coins - spend
    PROVE  WalletBalances'
  <1>1. /\ ledger'.spent = ledger.spent + spend
        /\ ledger'.tasks = ledger.tasks /\ ledger'.focus = ledger.focus
    BY DEF Charge, TypeOK, LedgerType
  <1>2. wallet.coins \in Nat /\ ledger.spent \in Nat
    BY DEF TypeOK, WalletType, LedgerType
  <1>3. wallet'.coins + ledger'.spent = wallet.coins + ledger.spent
    BY <1>1, <1>2
  <1>4. QED
    BY <1>1, <1>3 DEF WalletBalances

LEMMA BalanceKept ==
    ASSUME WalletBalances, wallet'.coins = wallet.coins, UNCHANGED ledger
    PROVE  WalletBalances'
  BY DEF WalletBalances

LEMMA ShopBalances ==
    ASSUME TypeOK, WalletBalances, ShopAction
    PROVE  WalletBalances'
  <1>1. ASSUME NEW i \in Items, Buy(i)
        PROVE  WalletBalances'
    <2>1. Price[i] \in Nat
      BY WalletAssumption DEF WalletAssumption
    <2>2. wallet'.coins = wallet.coins - Price[i]
      BY <1>1 DEF Buy, TypeOK, WalletType
    <2>3. QED
      BY <1>1, <2>1, <2>2, ChargeBalances DEF Buy
  <1>2. ASSUME NEW r \in RewardIds, RedeemPersonal(r)
        PROVE  WalletBalances'
    <2>1. wallet.personal[r] \in Nat
      BY PricesAreNat DEF TypeOK, WalletType
    <2>2. wallet'.coins = wallet.coins - wallet.personal[r]
      BY <1>2 DEF RedeemPersonal, TypeOK, WalletType
    <2>3. QED
      BY <1>2, <2>1, <2>2, ChargeBalances DEF RedeemPersonal
  <1>3. ASSUME NEW i, EquipTheme(i) \/ EquipSound(i)
        PROVE  WalletBalances'
    BY <1>3, BalanceKept DEF EquipTheme, EquipSound, TypeOK, WalletType
  <1>4. ASSUME NEW r, NEW p, CreatePersonal(r, p) \/ DeletePersonal(r)
        PROVE  WalletBalances'
    BY <1>4, BalanceKept DEF CreatePersonal, DeletePersonal, TypeOK, WalletType
  <1>5. ASSUME NEW R, NEW p, NEW th, NEW so, ImportLegacy(R, p, th, so)
        PROVE  WalletBalances'
    BY <1>5, BalanceKept DEF ImportLegacy, Imported, TypeOK, WalletType
  <1>6. QED
    BY <1>1, <1>2, <1>3, <1>4, <1>5 DEF ShopAction

\* The completion of the tasks D and the counting of the sessions F, with the
\* reward of the tasks T.
Awards(T, F, D) ==
    /\ Credit(T, F)
    /\ ApplyStats(T, F)
    /\ completed' = completed \cup D
    /\ CheckAchievements

\* Coins, statistics, the journal and the achievements change together, in the
\* shop, when the achievements are read, or not at all.
LEMMA StepShape ==
    ASSUME TypeOK, [Next]_vars
    PROVE  \/ Shop
           \/ \E T, D \in SUBSET Tasks, F \in SUBSET Sessions : Awards(T, F, D)
           \/ GetAchievements
           \/ UNCHANGED <<walletVars, stats, completed, achievements>>
  <1>1. ASSUME NEW t \in Tasks, NEW status, UpdateTask(t, status)
        PROVE  \E T, D \in SUBSET Tasks, F \in SUBSET Sessions : Awards(T, F, D)
    <2> DEFINE R == IF status = "done" THEN Rewardable({t}) ELSE {}
               D == IF status = "done" THEN {t} ELSE {}
    <2>1. Awards(R, {}, D)
      BY <1>1 DEF UpdateTask, WriteUpdate, Awards
    <2>2. R \in SUBSET Tasks /\ D \in SUBSET Tasks /\ {} \in SUBSET Sessions
      BY RewardableType
    <2> HIDE DEF R, D
    <2>3. QED
      BY <2>1, <2>2
  <1>2. ASSUME NEW T \in SUBSET Tasks, BulkComplete(T)
        PROVE  \E U, D \in SUBSET Tasks, F \in SUBSET Sessions : Awards(U, F, D)
    <2> DEFINE D == {t \in T \cap Live : task[t].status # "done"}
               R == Rewardable(D)
    <2>1. Awards(R, {}, D)
      BY <1>2 DEF BulkComplete, WriteComplete, Awards
    <2>2. R \in SUBSET Tasks /\ D \in SUBSET Tasks /\ {} \in SUBSET Sessions
      BY RewardableType
    <2> HIDE DEF R, D
    <2>3. QED
      BY <2>1, <2>2
  <1>3. ASSUME NEW s \in Sessions, NEW action, NEW finishTask, NEW age,
               FinishFocus(s, action, finishTask, age)
        PROVE  \E T, D \in SUBSET Tasks, F \in SUBSET Sessions : Awards(T, F, D)
    <2> DEFINE D == IF finishTask /\ action = "completed"
                    THEN {session[s].task} \ {None} ELSE {}
               R == D \cap Rewardable(Tasks)
               F == IF Counts(action, age) THEN {s} ELSE {}
    <2>1. Awards(R, F, D)
      BY <1>3 DEF FinishFocus, WriteFinish, Awards
    <2>2. R \in SUBSET Tasks /\ D \in SUBSET Tasks /\ F \in SUBSET Sessions
      BY RewardableType DEF TypeOK, SessionType
    <2> HIDE DEF R, F, D
    <2>3. QED
      BY <2>1, <2>2
  <1>4. ASSUME NEW t, SaveTask(t)
        PROVE  UNCHANGED <<walletVars, stats, completed, achievements>>
    BY <1>4 DEF SaveTask
  <1>5. ASSUME NEW T, DeleteTasks(T)
        PROVE  UNCHANGED <<walletVars, stats, completed, achievements>>
    BY <1>5 DEF DeleteTasks, WriteDelete
  <1>6. ASSUME NEW s, NEW tk, StartFocus(s, tk)
        PROVE  UNCHANGED <<walletVars, stats, completed, achievements>>
    BY <1>6 DEF StartFocus, WriteStart
  <1>7. ASSUME NEW s, TakeBreak(s) \/ EndBreak(s) \/ ResumeRest(s)
                      \/ CancelFocus(s) \/ Elapse(s)
        PROVE  UNCHANGED <<walletVars, stats, completed, achievements>>
    BY <1>7, <1>6 DEF TakeBreak, EndBreak, ResumeRest, CancelFocus, Elapse
  <1>8. CASE FinishRest
    BY <1>8 DEF FinishRest
  <1>9. CASE UNCHANGED vars
    BY <1>9 DEF vars
  <1>10. QED
    BY <1>1, <1>2, <1>3, <1>4, <1>5, <1>6, <1>7, <1>8, <1>9 DEF Next, TaskAction, FocusAction

\* The coins of the wallet are always what the ledger accounts for.
THEOREM Balanced == Spec => []WalletBalances
  <1>1. Init => WalletBalances
    <2>1. Cardinality({}) = 0 /\ StartCoins \in Nat /\ TaskCoins \in Nat /\ FocusCoins \in Nat
      BY FS_EmptySet, WalletAssumption DEF WalletAssumption
    <2>2. QED
      BY <2>1 DEF Init, WalletInit, NewWallet, WalletBalances
  <1>2. TypeOK /\ WalletBalances /\ [Next]_vars => WalletBalances'
    <2> SUFFICES ASSUME TypeOK, WalletBalances, [Next]_vars
                 PROVE  WalletBalances'
      OBVIOUS
    <2>1. CASE Shop
      BY <2>1, ShopBalances DEF Shop
    <2>2. CASE \E T, D \in SUBSET Tasks, F \in SUBSET Sessions : Awards(T, F, D)
      BY <2>2, CreditBalances DEF Awards
    <2>3. CASE GetAchievements \/ UNCHANGED <<walletVars, stats, completed, achievements>>
      BY <2>3 DEF GetAchievements, walletVars, WalletBalances
    <2>4. QED
      BY <2>1, <2>2, <2>3, StepShape
  <1>3. QED
    BY <1>1, <1>2, TypeCorrect, PTL DEF Spec

-----------------------------------------------------------------------------
(* The accounts: what a reward needs to be given once. *)

\* New events: coins and statistics grow by the same ones.
LEMMA RewardMatches ==
    ASSUME NEW T \in SUBSET Tasks, NEW F \in SUBSET Sessions, TypeOK,
           StatsMatchLedger, T \cap ledger.tasks = {}, F \cap ledger.focus = {},
           Credit(T, F), ApplyStats(T, F)
    PROVE  StatsMatchLedger'
  <1> DEFINE n == Cardinality(ledger.tasks)   dn == Cardinality(T)
             m == Cardinality(ledger.focus)   dm == Cardinality(F)
  <1>1. /\ ledger.tasks \in SUBSET Tasks /\ ledger.focus \in SUBSET Sessions
        /\ T \ ledger.tasks = T /\ F \ ledger.focus = F
    BY DEF TypeOK, LedgerType
  <1>2. /\ n \in Nat /\ dn \in Nat /\ m \in Nat /\ dm \in Nat
        /\ Cardinality(ledger.tasks \cup T) = n + dn
        /\ Cardinality(ledger.focus \cup F) = m + dm
    BY <1>1, TaskCount, SessionCount, NewEvents
  <1>3. /\ ledger'.tasks = ledger.tasks \cup T
        /\ ledger'.focus = ledger.focus \cup F
    BY DEF Credit, TypeOK, LedgerType
  <1>4. /\ stats.points = TaskXP * n + FocusXP * m /\ stats.pomodoros = m
        /\ stats'.points = stats.points + TaskXP * dn + FocusXP * dm
        /\ stats'.pomodoros = stats.pomodoros + dm
    BY DEF StatsMatchLedger, ApplyStats
  <1>5. /\ Cardinality(ledger'.tasks) = n + dn
        /\ Cardinality(ledger'.focus) = m + dm
    BY <1>2, <1>3
  <1> HIDE DEF n, dn, m, dm
  <1>6. TaskXP \in Nat /\ FocusXP \in Nat
    BY RewardsAssumption DEF RewardsAssumption
  <1> DEFINE x == TaskXP * n   dx == TaskXP * dn
             y == FocusXP * m  dy == FocusXP * dm
  <1>7. /\ TaskXP * (n + dn) = x + dx /\ FocusXP * (m + dm) = y + dy
        /\ x \in Nat /\ dx \in Nat /\ y \in Nat /\ dy \in Nat
    BY <1>2, <1>6, Product
  <1>8. stats'.points = (x + dx) + (y + dy)
    <2>1. stats'.points = x + y + dx + dy
      BY <1>4
    <2> HIDE DEF x, dx, y, dy
    <2>2. QED
      BY <1>7, <2>1
  <1>9. stats'.pomodoros = m + dm
    BY <1>4
  <1>10. QED
    BY <1>5, <1>7, <1>8, <1>9 DEF StatsMatchLedger

\* The tasks whose completion is rewarded have not been paid.
LEMMA RewardableUnpaid ==
    ASSUME ClaimedIffPaid, NEW T \in SUBSET Live
    PROVE  Rewardable(T) \cap ledger.tasks = {}
  BY DEF ClaimedIffPaid, Rewardable

\* A step that leaves the tasks, the ledger's events and the statistics alone,
\* and of one session only the break, or the age of an active one.
LEMMA SessionTouched ==
    ASSUME Accounts, TypeOK', NEW s \in Sessions,
           session'[s].status = session[s].status,
           session'[s].task = session[s].task,
           session'[s].age = session[s].age \/ session[s].status = "active",
           \A r \in Sessions \ {s} : session'[r] = session[r],
           UNCHANGED <<walletVars, task, focus, stats, completed>>
    PROVE  Accounts'
  <1> USE DEF Accounts
  <1>1. Live' = Live /\ Active' = Active
    BY DEF Live, Active, TypeOK
  <1>2. StatsMatchLedger' /\ ClaimedIffPaid' /\ UnbornUnpaid'
    BY <1>1 DEF StatsMatchLedger, ClaimedIffPaid, UnbornUnpaid, walletVars
  <1>3. PaidIffCounted'
    BY DEF PaidIffCounted, walletVars
  <1>4. FocusRefers' /\ SingleActive'
    BY <1>1 DEF FocusRefers, SingleActive
  <1>5. QED
    BY <1>2, <1>3, <1>4

LEMMA AccountsInit == Init => Accounts
  <1> SUFFICES ASSUME Init PROVE Accounts
    OBVIOUS
  <1>1. TypeOK
    BY TypeInit
  <1>2. /\ Live = {} /\ Active = {}
        /\ \A t \in Tasks : task[t].status = "unborn"
        /\ \A s \in Sessions : session[s].status = "unborn" /\ session[s].task = None
        /\ ledger = [tasks |-> {}, focus |-> {}, spent |-> 0]
    BY DEF Init, Live, Active, NoTask, NoSession, NewSession, WalletInit, TaskStatuses
  <1>3. StatsMatchLedger
    <2>1. Cardinality({}) = 0 /\ TaskXP \in Nat /\ FocusXP \in Nat
      BY FS_EmptySet, RewardsAssumption DEF RewardsAssumption
    <2>2. QED
      BY <1>2, <2>1 DEF Init, StatsMatchLedger
  <1>4. ClaimedIffPaid /\ UnbornUnpaid /\ PaidIffCounted
    BY <1>2 DEF Init, ClaimedIffPaid, UnbornUnpaid, PaidIffCounted
  <1>5. FocusRefers /\ SingleActive
    BY <1>2 DEF Init, FocusRefers, SingleActive
  <1>6. QED
    BY <1>1, <1>3, <1>4, <1>5 DEF Accounts

\* The tasks of D are completed: those not paid before are paid now.
LEMMA TasksPaid ==
    ASSUME TypeOK, ClaimedIffPaid, UnbornUnpaid, NEW D \in SUBSET Live,
           ledger'.tasks = ledger.tasks \cup Rewardable(D),
           completed' = completed \cup D,
           Live' = Live,
           \A u \in Live :
              /\ task'[u].claimed <=> (task[u].claimed \/ u \in Rewardable(D))
              /\ task'[u].status = "done" => (u \in D \/ task[u].status = "done"),
           \A u \in Tasks \ Live : task'[u].status = task[u].status
    PROVE  ClaimedIffPaid' /\ UnbornUnpaid'
  <1>1. \A u \in D : u \in Rewardable(D) \/ u \in ledger.tasks
    BY DEF Rewardable, ClaimedIffPaid
  <1>2. Rewardable(D) \subseteq D
    BY DEF Rewardable
  <1>3. completed' = ledger'.tasks
    BY <1>1, <1>2 DEF ClaimedIffPaid
  <1>4. \A u \in Live : /\ task'[u].claimed <=> u \in ledger'.tasks
                        /\ task'[u].status = "done" => task'[u].claimed
    BY <1>1, <1>2 DEF ClaimedIffPaid
  <1>5. ClaimedIffPaid'
    BY <1>3, <1>4 DEF ClaimedIffPaid
  <1>6. \A u \in Live : task'[u].status # "unborn"
    BY DEF Live, TaskStatuses
  <1>7. UnbornUnpaid'
    <2> SUFFICES ASSUME NEW u \in Tasks, task'[u].status = "unborn"
                 PROVE  u \notin ledger'.tasks
      BY DEF UnbornUnpaid
    <2>1. u \notin Live /\ task[u].status = "unborn"
      BY <1>6
    <2>2. QED
      BY <1>2, <2>1 DEF UnbornUnpaid
  <1>8. QED
    BY <1>5, <1>7

\* What the coins and the statistics say of D and F once both are awarded.
LEMMA EventsAwarded ==
    ASSUME Accounts, NEW D \in SUBSET Live, NEW F \in SUBSET Sessions,
           F \cap ledger.focus = {},
           Credit(Rewardable(D), F), ApplyStats(Rewardable(D), F)
    PROVE  /\ StatsMatchLedger'
           /\ ledger'.tasks = ledger.tasks \cup Rewardable(D)
           /\ ledger'.focus = ledger.focus \cup F
  <1>1. Rewardable(D) \in SUBSET Tasks /\ Rewardable(D) \cap ledger.tasks = {}
    BY RewardableUnpaid DEF Accounts, Rewardable, Live
  <1>2. StatsMatchLedger'
    BY <1>1, RewardMatches DEF Accounts
  <1>3. QED
    BY <1>2 DEF Credit, Accounts, TypeOK, LedgerType

\* The sessions and the rest are left alone, and no task comes or goes.
LEMMA FocusUntouched ==
    ASSUME Accounts, Live' = Live, UNCHANGED <<session, focus>>,
           ledger'.focus = ledger.focus
    PROVE  PaidIffCounted' /\ FocusRefers' /\ SingleActive'
  <1>1. Active' = Active
    BY DEF Active
  <1>2. QED
    BY <1>1 DEF Accounts, PaidIffCounted, FocusRefers, SingleActive

LEMMA SaveTaskAccounts ==
    ASSUME Accounts, TypeOK', NEW t \in Tasks, SaveTask(t)
    PROVE  Accounts'
  <1>1. /\ task[t].status = "unborn" /\ t \notin ledger.tasks
        /\ task'[t] = NewTask /\ \A u \in Tasks \ {t} : task'[u] = task[u]
        /\ UNCHANGED <<walletVars, session, focus, stats, completed>>
    BY DEF SaveTask, Accounts, TypeOK, UnbornUnpaid
  <1>2. /\ Live' = Live \cup {t} /\ Active' = Active
        /\ Live \subseteq Tasks \ {t}
    BY <1>1 DEF Live, Active, NewTask, TaskStatuses
  <1>3. StatsMatchLedger' /\ PaidIffCounted' /\ SingleActive'
    BY <1>1, <1>2 DEF Accounts, StatsMatchLedger, PaidIffCounted, SingleActive, walletVars
  <1>4. ClaimedIffPaid' /\ UnbornUnpaid'
    BY <1>1, <1>2 DEF Accounts, ClaimedIffPaid, UnbornUnpaid, NewTask, walletVars
  <1>5. FocusRefers'
    BY <1>1, <1>2 DEF Accounts, FocusRefers
  <1>6. QED
    BY <1>3, <1>4, <1>5 DEF Accounts

LEMMA UpdateTaskAccounts ==
    ASSUME Accounts, TypeOK', NEW t \in Tasks, NEW status \in TaskStatuses,
           UpdateTask(t, status)
    PROVE  Accounts'
  <1> DEFINE D == IF status = "done" THEN {t} ELSE {}
  <1>1. /\ t \in Live /\ D \in SUBSET Live /\ {} \in SUBSET Sessions
        /\ Rewardable({}) = {} /\ Rewardable({t}) \subseteq {t}
    BY DEF UpdateTask, Rewardable
  <1>2. (IF status = "done" THEN Rewardable({t}) ELSE {}) = Rewardable(D)
    BY <1>1
  <1>3. WriteUpdate(t, status, Rewardable(D))
    BY <1>2 DEF UpdateTask
  <1>4. /\ task'[t].status = status
        /\ task'[t].claimed = (task[t].claimed \/ Rewardable(D) # {})
        /\ \A u \in Tasks \ {t} : task'[u] = task[u]
    BY <1>3 DEF WriteUpdate, Accounts, TypeOK, TaskType
  <1>5. Credit(Rewardable(D), {}) /\ ApplyStats(Rewardable(D), {})
    BY <1>3 DEF WriteUpdate
  <1>6. completed' = completed \cup D /\ UNCHANGED <<session, focus>>
    BY <1>3 DEF WriteUpdate
  <1>7. Live' = Live
    BY <1>1, <1>4 DEF Live
  <1>8. /\ StatsMatchLedger'
        /\ ledger'.tasks = ledger.tasks \cup Rewardable(D)
        /\ ledger'.focus = ledger.focus
    <2> HIDE DEF D
    <2>1. {} \cap ledger.focus = {}
      OBVIOUS
    <2>2. QED
      BY <1>1, <1>5, <2>1, EventsAwarded
  <1>9. \A u \in Live :
           /\ task'[u].claimed <=> (task[u].claimed \/ u \in Rewardable(D))
           /\ task'[u].status = "done" => (u \in D \/ task[u].status = "done")
    BY <1>1, <1>4 DEF Live
  <1>10. \A u \in Tasks \ Live : task'[u] = task[u]
    BY <1>1, <1>4
  <1> HIDE DEF D
  <1>11. ClaimedIffPaid' /\ UnbornUnpaid'
    BY <1>1, <1>6, <1>7, <1>8, <1>9, <1>10, TasksPaid DEF Accounts
  <1>12. QED
    BY <1>6, <1>7, <1>8, <1>11, FocusUntouched DEF Accounts

LEMMA BulkCompleteAccounts ==
    ASSUME Accounts, TypeOK', NEW T \in SUBSET Tasks, BulkComplete(T)
    PROVE  Accounts'
  <1> DEFINE D == {t \in T \cap Live : task[t].status # "done"}
  <1>1. D \in SUBSET Live /\ {} \in SUBSET Sessions /\ D \subseteq Tasks
    BY DEF Live
  <1>2. WriteComplete(D, Rewardable(D))
    BY DEF BulkComplete
  <1>3. /\ \A u \in D : task'[u].status = "done" /\ task'[u].claimed
        /\ \A u \in Tasks \ D : task'[u] = task[u]
    <2> HIDE DEF D
    <2>1. task' = [u \in Tasks |->
                     IF u \in D THEN [task[u] EXCEPT !.status = "done", !.claimed = TRUE]
                     ELSE task[u]]
      BY <1>2 DEF WriteComplete
    <2>2. \A u \in Tasks : task[u] \in TaskType
      BY DEF Accounts, TypeOK
    <2>3. QED
      BY <1>1, <2>1, <2>2 DEF TaskType
  <1>4. \A u \in D : task[u].claimed \/ u \in Rewardable(D)
    BY DEF Rewardable
  <1>5. Rewardable(D) \subseteq D
    BY DEF Rewardable
  <1> HIDE DEF D
  <1>6. Credit(Rewardable(D), {}) /\ ApplyStats(Rewardable(D), {})
    BY <1>2 DEF WriteComplete
  <1>7. completed' = completed \cup D /\ UNCHANGED <<session, focus>>
    BY <1>2 DEF WriteComplete
  <1>8. Live' = Live
    BY <1>1, <1>3 DEF Live, TaskStatuses
  <1>9. /\ StatsMatchLedger'
        /\ ledger'.tasks = ledger.tasks \cup Rewardable(D)
        /\ ledger'.focus = ledger.focus
    <2>1. {} \cap ledger.focus = {}
      OBVIOUS
    <2>2. QED
      BY <1>1, <1>6, <2>1, EventsAwarded
  <1>10. \A u \in Live :
           /\ task'[u].claimed <=> (task[u].claimed \/ u \in Rewardable(D))
           /\ task'[u].status = "done" => (u \in D \/ task[u].status = "done")
    BY <1>3, <1>4, <1>5 DEF Live
  <1>11. \A u \in Tasks \ Live : task'[u] = task[u]
    BY <1>1, <1>3
  <1>12. ClaimedIffPaid' /\ UnbornUnpaid'
    BY <1>1, <1>7, <1>8, <1>9, <1>10, <1>11, TasksPaid DEF Accounts
  <1>13. QED
    BY <1>7, <1>8, <1>9, <1>12, FocusUntouched DEF Accounts

LEMMA DeleteTasksAccounts ==
    ASSUME Accounts, TypeOK', NEW T \in SUBSET Tasks, DeleteTasks(T)
    PROVE  Accounts'
  <1> DEFINE gone == T \cap Live
             abandoned == {s \in Active : session[s].task \in gone}
  <1>1. /\ WriteDelete(gone, abandoned) /\ gone \subseteq Live /\ Live \subseteq Tasks
        /\ abandoned \subseteq Active
    BY DEF DeleteTasks, Live
  <1> HIDE DEF gone, abandoned
  <1>2. UNCHANGED <<walletVars, stats, completed>>
    BY <1>1 DEF WriteDelete
  <1>3. /\ \A u \in gone : task'[u] = DeletedTask
        /\ \A u \in Tasks \ gone : task'[u] = task[u]
    BY <1>1 DEF WriteDelete
  <1>4. Live' = Live \ gone
    BY <1>1, <1>3 DEF Live, DeletedTask, NoTask, TaskStatuses
  <1>5. \A s \in Sessions :
           /\ session'[s].status = IF s \in abandoned THEN "abandoned" ELSE session[s].status
           /\ session'[s].task = IF session[s].task \in gone THEN None ELSE session[s].task
           /\ session'[s].age = session[s].age
    <2>1. session' = [s \in Sessions |->
                        [session[s] EXCEPT
                           !.task = IF @ \in gone THEN None ELSE @,
                           !.status = IF s \in abandoned THEN "abandoned" ELSE @]]
      BY <1>1 DEF WriteDelete
    <2>2. \A s \in Sessions : session[s] \in SessionType
      BY DEF Accounts, TypeOK
    <2> SUFFICES ASSUME NEW s \in Sessions
                 PROVE  /\ session'[s].status =
                             IF s \in abandoned THEN "abandoned" ELSE session[s].status
                        /\ session'[s].task =
                             IF session[s].task \in gone THEN None ELSE session[s].task
                        /\ session'[s].age = session[s].age
      OBVIOUS
    <2> DEFINE tk == IF session[s].task \in gone THEN None ELSE session[s].task
               st == IF s \in abandoned THEN "abandoned" ELSE session[s].status
    <2>3. session'[s] = [session[s] EXCEPT !.task = tk, !.status = st]
      BY <2>1
    <2> HIDE DEF tk, st
    <2>4. session'[s].task = tk /\ session'[s].status = st /\ session'[s].age = session[s].age
      BY <2>2, <2>3 DEF SessionType
    <2>5. QED
      BY <2>4 DEF tk, st
  <1>6. focus'.task = (IF focus.task \in gone THEN None ELSE focus.task)
        /\ focus'.rest = focus.rest
    BY <1>1 DEF WriteDelete, Accounts, TypeOK, FocusType
  <1>7. Active' \subseteq Active
    BY <1>5 DEF Active
  <1>8. StatsMatchLedger'
    BY <1>2 DEF Accounts, StatsMatchLedger, walletVars
  <1>9. ClaimedIffPaid' /\ UnbornUnpaid'
    BY <1>1, <1>2, <1>3, <1>4
       DEF Accounts, ClaimedIffPaid, UnbornUnpaid, walletVars, DeletedTask, NoTask
  <1>10. PaidIffCounted'
    <2>1. \A s \in abandoned : session[s].status = "active"
      BY <1>1 DEF Active
    <2>2. QED
      BY <1>2, <1>5, <2>1 DEF Accounts, PaidIffCounted, walletVars
  <1>11. FocusRefers' /\ SingleActive'
    BY <1>4, <1>5, <1>6, <1>7 DEF Accounts, FocusRefers, SingleActive
  <1>12. QED
    BY <1>8, <1>9, <1>10, <1>11 DEF Accounts

LEMMA StartFocusAccounts ==
    ASSUME Accounts, TypeOK', NEW s \in Sessions, NEW tk \in Tasks \cup {None},
           StartFocus(s, tk)
    PROVE  Accounts'
  <1>1. /\ Active = {} /\ tk \in Live \cup {None} /\ session[s].status = "unborn"
        /\ session'[s] = NewSession(tk)
        /\ \A r \in Sessions \ {s} : session'[r] = session[r]
        /\ focus'.rest = NoRest /\ focus'.task = None
        /\ UNCHANGED <<walletVars, task, stats, completed>>
    BY DEF StartFocus, WriteStart, ClearRest, Accounts, TypeOK, FocusType
  <1>2. Live' = Live /\ Active' = {s}
    BY <1>1 DEF Live, Active, NewSession
  <1>3. StatsMatchLedger' /\ ClaimedIffPaid' /\ UnbornUnpaid'
    BY <1>1, <1>2 DEF Accounts, StatsMatchLedger, ClaimedIffPaid, UnbornUnpaid, walletVars
  <1>4. PaidIffCounted'
    BY <1>1 DEF Accounts, PaidIffCounted, walletVars, NewSession
  <1>5. FocusRefers' /\ SingleActive'
    BY <1>1, <1>2 DEF Accounts, FocusRefers, SingleActive, NewSession
  <1>6. QED
    BY <1>3, <1>4, <1>5 DEF Accounts

LEMMA CancelFocusAccounts ==
    ASSUME Accounts, TypeOK', NEW s \in Sessions, CancelFocus(s)
    PROVE  Accounts'
  <1>1. /\ session[s].status = "active"
        /\ session'[s].status = "cancelled" /\ session'[s].task = session[s].task
        /\ \A r \in Sessions \ {s} : session'[r] = session[r]
        /\ UNCHANGED <<walletVars, task, focus, stats, completed>>
    BY DEF CancelFocus, Active, Accounts, TypeOK, SessionType
  <1>2. Live' = Live /\ Active' \subseteq Active
    BY <1>1 DEF Live, Active
  <1>3. StatsMatchLedger' /\ ClaimedIffPaid' /\ UnbornUnpaid'
    BY <1>1, <1>2 DEF Accounts, StatsMatchLedger, ClaimedIffPaid, UnbornUnpaid, walletVars
  <1>4. PaidIffCounted'
    BY <1>1 DEF Accounts, PaidIffCounted, walletVars
  <1>5. FocusRefers' /\ SingleActive'
    BY <1>1, <1>2 DEF Accounts, FocusRefers, SingleActive
  <1>6. QED
    BY <1>3, <1>4, <1>5 DEF Accounts

\* The break and the clock touch one active session only.
LEMMA BreakAccounts ==
    ASSUME Accounts, TypeOK', NEW s \in Sessions, TakeBreak(s) \/ EndBreak(s) \/ Elapse(s)
    PROVE  Accounts'
  <1>1. /\ session[s].status = "active"
        /\ session'[s].status = session[s].status /\ session'[s].task = session[s].task
        /\ \A r \in Sessions \ {s} : session'[r] = session[r]
        /\ UNCHANGED <<walletVars, task, focus, stats, completed>>
    <2>1. session \in [Sessions -> SessionType]
      BY DEF Accounts, TypeOK
    <2>2. CASE TakeBreak(s)
      BY <2>1, <2>2 DEF TakeBreak, Active, SessionType
    <2>3. CASE EndBreak(s)
      BY <2>1, <2>3 DEF EndBreak, Active, SessionType
    <2>4. CASE Elapse(s)
      BY <2>1, <2>4 DEF Elapse, Active, SessionType
    <2>5. QED
      BY <2>2, <2>3, <2>4
  <1>2. QED
    BY <1>1, SessionTouched

LEMMA FinishRestAccounts ==
    ASSUME Accounts, TypeOK', FinishRest
    PROVE  Accounts'
  <1>1. /\ focus'.rest = NoRest /\ focus'.task = None
        /\ UNCHANGED <<walletVars, task, session, stats, completed>>
    BY DEF FinishRest, ClearRest, Accounts, TypeOK, FocusType
  <1>2. Live' = Live /\ Active' = Active
    BY <1>1 DEF Live, Active
  <1>3. QED
    BY <1>1, <1>2 DEF Accounts, StatsMatchLedger, ClaimedIffPaid, UnbornUnpaid,
                      PaidIffCounted, FocusRefers, SingleActive, walletVars

\* A purchase, an equipment or an import rewards nothing.
LEMMA ShopAccounts ==
    ASSUME Accounts, TypeOK', Shop
    PROVE  Accounts'
  <1>1. ledger'.tasks = ledger.tasks /\ ledger'.focus = ledger.focus
    BY DEF Shop, ShopAction, Buy, RedeemPersonal, Charge, EquipTheme, EquipSound,
           CreatePersonal, DeletePersonal, ImportLegacy, Imported, Accounts, TypeOK, LedgerType
  <1>2. UNCHANGED <<task, session, focus, stats, completed>>
    BY DEF Shop
  <1>3. Live' = Live /\ Active' = Active
    BY <1>2 DEF Live, Active
  <1>4. StatsMatchLedger'
    BY <1>1, <1>2 DEF Accounts, StatsMatchLedger
  <1>5. ClaimedIffPaid' /\ UnbornUnpaid' /\ PaidIffCounted'
    BY <1>1, <1>2, <1>3 DEF Accounts, ClaimedIffPaid, UnbornUnpaid, PaidIffCounted
  <1>6. FocusRefers' /\ SingleActive'
    BY <1>2, <1>3 DEF Accounts, FocusRefers, SingleActive
  <1>7. QED
    BY <1>4, <1>5, <1>6 DEF Accounts

\* The one action that pays for a task and for a session at once.
LEMMA FinishFocusAccounts ==
    ASSUME Accounts, TypeOK', NEW s \in Sessions, NEW action \in {"completed", "abandoned"},
           NEW finishTask \in BOOLEAN, NEW age \in Ages,
           FinishFocus(s, action, finishTask, age)
    PROVE  Accounts'
  <1> DEFINE tk == session[s].task
             counted == Counts(action, age)
             D == IF finishTask /\ action = "completed" THEN {tk} \ {None} ELSE {}
             F == IF counted THEN {s} ELSE {}
  <1>1. session[s].status = "active" /\ tk \in Live \cup {None}
    BY DEF FinishFocus, Active, Accounts, FocusRefers
  <1>2. D \in SUBSET Live /\ Live \subseteq Tasks /\ F \in SUBSET Sessions
    BY <1>1 DEF Live
  <1>3. s \notin ledger.focus /\ F \cap ledger.focus = {}
    BY <1>1 DEF Accounts, PaidIffCounted
  <1>4. D \cap Rewardable(Tasks) = Rewardable(D)
    BY <1>2 DEF Rewardable
  <1>5. WriteFinish(s, tk, action, finishTask, age, Rewardable(Tasks))
    BY DEF FinishFocus
  <1>6. /\ Credit(Rewardable(D), F) /\ ApplyStats(Rewardable(D), F)
        /\ completed' = completed \cup D
    BY <1>4, <1>5 DEF WriteFinish
  <1>7. /\ session'[s].status = action /\ session'[s].age = age
        /\ session'[s].task = tk
        /\ \A r \in Sessions \ {s} : session'[r] = session[r]
    BY <1>5 DEF WriteFinish, Accounts, TypeOK, SessionType
  <1>8. \A u \in Tasks :
           /\ task'[u].status = IF u \in D THEN "done" ELSE task[u].status
           /\ task'[u].claimed = (task[u].claimed \/ u \in Rewardable(D))
    <2>1. task' = [u \in Tasks |->
                     [task[u] EXCEPT
                        !.status = IF u \in D THEN "done" ELSE @,
                        !.claimed = @ \/ u \in Rewardable(D),
                        !.taken = IF u = tk /\ counted THEN @ + 1 ELSE @]]
      BY <1>4, <1>5 DEF WriteFinish
    <2>2. \A u \in Tasks : task[u] \in TaskType
      BY DEF Accounts, TypeOK
    <2> SUFFICES ASSUME NEW u \in Tasks
                 PROVE  /\ task'[u].status = IF u \in D THEN "done" ELSE task[u].status
                        /\ task'[u].claimed = (task[u].claimed \/ u \in Rewardable(D))
      OBVIOUS
    <2> DEFINE st == IF u \in D THEN "done" ELSE task[u].status
               cl == task[u].claimed \/ u \in Rewardable(D)
               n == IF u = tk /\ counted THEN task[u].taken + 1 ELSE task[u].taken
    <2>3. task'[u] = [task[u] EXCEPT !.status = st, !.claimed = cl, !.taken = n]
      BY <2>1
    <2> HIDE DEF st, cl, n
    <2>4. task'[u].status = st /\ task'[u].claimed = cl
      BY <2>2, <2>3 DEF TaskType
    <2>5. QED
      BY <2>4 DEF st, cl
  <1>9. focus'.task \in {tk, None}
    <2>1. FocusAfterFinish(counted, tk)
      BY <1>5 DEF WriteFinish
    <2>2. CASE counted
      <3> DEFINE c == (focus.cycle + 1) % CycleLen
                 r == IF focus.cycle = CycleLen - 1 THEN "long" ELSE "short"
      <3>1. focus' = [cycle |-> c, rest |-> r, task |-> tk]
        BY <2>1, <2>2 DEF FocusAfterFinish
      <3> HIDE DEF c, r
      <3>2. QED
        BY <3>1
    <2>3. CASE ~counted
      BY <2>1, <2>3 DEF FocusAfterFinish, ClearRest, Accounts, TypeOK, FocusType
    <2>4. QED
      BY <2>2, <2>3
  <1>10. s \in F <=> action = "completed" /\ age = Eligible
    BY DEF Counts
  <1>11. F \subseteq {s}
    OBVIOUS
  <1> HIDE DEF tk, counted, D, F
  <1>12. Live' = Live
    BY <1>2, <1>8 DEF Live, TaskStatuses
  <1>13. /\ StatsMatchLedger'
         /\ ledger'.tasks = ledger.tasks \cup Rewardable(D)
         /\ ledger'.focus = ledger.focus \cup F
    BY <1>2, <1>3, <1>6, EventsAwarded
  <1>14. ClaimedIffPaid' /\ UnbornUnpaid'
    <2>1. \A u \in Live :
             /\ task'[u].claimed <=> (task[u].claimed \/ u \in Rewardable(D))
             /\ task'[u].status = "done" => (u \in D \/ task[u].status = "done")
      BY <1>2, <1>8
    <2>2. \A u \in Tasks \ Live : task'[u].status = task[u].status
      BY <1>2, <1>8
    <2>3. QED
      BY <1>2, <1>6, <1>12, <1>13, <2>1, <2>2, TasksPaid DEF Accounts
  <1>15. PaidIffCounted'
    BY <1>3, <1>7, <1>10, <1>11, <1>13 DEF Accounts, PaidIffCounted
  <1>16. Active = {s} /\ Active' = {}
    <2>1. Active = {s}
      BY <1>1 DEF Active, Accounts, SingleActive
    <2>2. \A r \in Sessions : session'[r].status # "active"
      BY <1>7, <2>1 DEF Active
    <2>3. QED
      BY <2>1, <2>2 DEF Active
  <1>17. FocusRefers' /\ SingleActive'
    BY <1>1, <1>7, <1>9, <1>12, <1>16 DEF Accounts, FocusRefers, SingleActive
  <1>18. QED
    BY <1>13, <1>14, <1>15, <1>17 DEF Accounts

LEMMA AccountsStep ==
    ASSUME Accounts, TypeOK', [Next]_vars
    PROVE  Accounts'
  <1>1. CASE TaskAction
    BY <1>1, SaveTaskAccounts, UpdateTaskAccounts, BulkCompleteAccounts, DeleteTasksAccounts
       DEF TaskAction
  <1>2. CASE FocusAction
    <2>1. ASSUME NEW s \in Sessions, ResumeRest(s)
          PROVE  Accounts'
      <3> DEFINE tk == IF focus.task # None /\ task[focus.task].status = "pending"
                       THEN focus.task ELSE None
      <3>1. tk \in Tasks \cup {None} /\ StartFocus(s, tk)
        BY <2>1 DEF ResumeRest, Accounts, TypeOK, FocusType
      <3> HIDE DEF tk
      <3>2. QED
        BY <3>1, StartFocusAccounts
    <2>2. QED
      BY <1>2, <2>1, StartFocusAccounts, BreakAccounts, CancelFocusAccounts,
         FinishFocusAccounts, FinishRestAccounts
         DEF FocusAction
  <1>3. CASE GetAchievements
    BY <1>3 DEF GetAchievements, Accounts, StatsMatchLedger, ClaimedIffPaid, UnbornUnpaid,
                PaidIffCounted, FocusRefers, SingleActive, Live, Active, walletVars
  <1>4. CASE Shop
    BY <1>4, ShopAccounts
  <1>5. CASE UNCHANGED vars
    BY <1>5 DEF vars, walletVars, Accounts, StatsMatchLedger, ClaimedIffPaid, UnbornUnpaid,
                PaidIffCounted, FocusRefers, SingleActive, Live, Active
  <1>6. QED
    BY <1>1, <1>2, <1>3, <1>4, <1>5 DEF Next

\* The inductive invariant: every reward is given once in each of its currencies.
THEOREM AccountsHold == Spec => []Accounts
  <1>1. Accounts /\ TypeOK' /\ [Next]_vars => Accounts'
    BY AccountsStep
  <1>2. QED
    BY AccountsInit, <1>1, TypeCorrect, PTL DEF Spec

\* XP and the Pomodoro counter agree with the coins.
THEOREM StatsAgree == Spec => []StatsMatchLedger
  <1>1. Accounts => StatsMatchLedger
    BY DEF Accounts
  <1>2. QED
    BY <1>1, AccountsHold, PTL

\* A task is rewarded once however often it is reopened, a deleted one stays in
\* the journal, and a session is paid exactly when it counts.
THEOREM PaidOnce == Spec => [](ClaimedIffPaid /\ PaidIffCounted)
  <1>1. Accounts => ClaimedIffPaid /\ PaidIffCounted
    BY DEF Accounts
  <1>2. QED
    BY <1>1, AccountsHold, PTL

\* At most one session is active.
THEOREM OneActive == Spec => []OneActiveSession
  <1>1. Accounts => OneActiveSession
    <2> SUFFICES ASSUME SingleActive PROVE OneActiveSession
      BY DEF Accounts
    <2>1. CASE Active = {}
      BY <2>1, FS_EmptySet DEF OneActiveSession
    <2>2. CASE Active # {}
      <3>1. PICK s \in Active : Active = {s}
        BY <2>2 DEF SingleActive
      <3>2. QED
        BY <3>1, FS_Singleton DEF OneActiveSession
    <2>3. QED
      BY <2>1, <2>2
  <1>2. QED
    BY <1>1, AccountsHold, PTL

\* A user focuses on one thing at a time; sessions and the rest refer to living
\* tasks only.
THEOREM FocusCoherent == Spec => []FocusConsistent
  <1>1. Accounts => FocusRefers
    BY DEF Accounts
  <1>2. OneActiveSession /\ FocusRefers => FocusConsistent
    BY DEF FocusConsistent
  <1>3. QED
    BY <1>1, <1>2, OneActive, AccountsHold, PTL

-----------------------------------------------------------------------------
(* Nothing is taken back, and the achievements are current. *)

\* Goals once reached stay reached.
LEMMA EarnedGrows ==
    ASSUME NEW D \in SUBSET Tasks, NEW C \in SUBSET D, NEW n \in Nat, NEW m \in Nat, m <= n
    PROVE  Earned(C, m) \subseteq Earned(D, n)
  <1>1. /\ Cardinality(C) \in Nat /\ Cardinality(D) \in Nat
        /\ Cardinality(C) <= Cardinality(D)
    BY TaskCount, FS_Subset
  <1>2. TaskGoals \subseteq Nat /\ FocusGoals \subseteq Nat
    BY RewardsAssumption DEF RewardsAssumption
  <1>3. \A h \in TaskGoals : h <= Cardinality(C) => h <= Cardinality(D)
    BY <1>1, <1>2
  <1>4. \A h \in FocusGoals : h <= m => h <= n
    BY <1>2
  <1>5. QED
    BY <1>3, <1>4 DEF Earned

\* The statistics and the coins grow by what is rewarded.
LEMMA AwardsGrow ==
    ASSUME TypeOK, NEW T \in SUBSET Tasks, NEW D \in SUBSET Tasks,
           NEW F \in SUBSET Sessions, Awards(T, F, D)
    PROVE  /\ stats'.points >= stats.points
           /\ stats'.pomodoros = stats.pomodoros + Cardinality(F)
           /\ stats'.pomodoros >= stats.pomodoros
           /\ wallet'.coins + ledger'.spent >= wallet.coins + ledger.spent
           /\ ledger.tasks \subseteq ledger'.tasks /\ ledger.focus \subseteq ledger'.focus
           /\ ledger'.spent = ledger.spent
           /\ wallet'.owned = wallet.owned /\ wallet'.imported = wallet.imported
  <1> DEFINE x == TaskXP * Cardinality(T)
             y == FocusXP * Cardinality(F)
             a == TaskCoins * Cardinality(T \ ledger.tasks)
             b == FocusCoins * Cardinality(F \ ledger.focus)
  <1>1. T \ ledger.tasks \in SUBSET Tasks /\ F \ ledger.focus \in SUBSET Sessions
    OBVIOUS
  <1>2. /\ x \in Nat /\ y \in Nat /\ a \in Nat /\ b \in Nat
        /\ Cardinality(F) \in Nat
    <2>1. TaskXP \in Nat /\ FocusXP \in Nat /\ TaskCoins \in Nat /\ FocusCoins \in Nat
      BY RewardsAssumption, WalletAssumption DEF RewardsAssumption, WalletAssumption
    <2>2. QED
      BY <1>1, <2>1, TaskCount, SessionCount, Product
  <1>3. /\ stats' = [points |-> stats.points + x + y,
                     pomodoros |-> stats.pomodoros + Cardinality(F)]
        /\ wallet' = [wallet EXCEPT !.coins = @ + a + b]
        /\ ledger' = [ledger EXCEPT !.tasks = @ \cup T, !.focus = @ \cup F]
    BY DEF Awards, Credit, ApplyStats
  <1> HIDE DEF x, y, a, b
  <1>4. /\ stats.points \in Nat /\ stats.pomodoros \in Nat
        /\ wallet.coins \in Nat /\ ledger.spent \in Nat
    BY DEF TypeOK, WalletType, LedgerType
  <1>5. /\ stats'.points = stats.points + x + y
        /\ stats'.pomodoros = stats.pomodoros + Cardinality(F)
    BY <1>3
  <1>6. /\ wallet'.coins = wallet.coins + a + b /\ ledger'.spent = ledger.spent
        /\ ledger.tasks \subseteq ledger'.tasks /\ ledger.focus \subseteq ledger'.focus
        /\ wallet'.owned = wallet.owned /\ wallet'.imported = wallet.imported
    BY <1>3 DEF TypeOK, WalletType, LedgerType
  <1>7. QED
    BY <1>2, <1>4, <1>5, <1>6

LEMMA ShopTakesNothing ==
    ASSUME TypeOK, TypeOK', ShopAction
    PROVE  /\ wallet'.coins + ledger'.spent = wallet.coins + ledger.spent
           /\ ledger'.tasks = ledger.tasks /\ ledger'.focus = ledger.focus
           /\ ledger'.spent >= ledger.spent
           /\ wallet.owned \subseteq wallet'.owned
           /\ wallet.imported => wallet'.imported
  <1> USE DEF TypeOK, WalletType, LedgerType
  <1> DEFINE Kept == /\ wallet'.coins + ledger'.spent = wallet.coins + ledger.spent
                     /\ ledger'.tasks = ledger.tasks /\ ledger'.focus = ledger.focus
                     /\ ledger'.spent >= ledger.spent
             Owned == /\ wallet.owned \subseteq wallet'.owned
                      /\ wallet.imported => wallet'.imported
  <1>1. ASSUME NEW spend \in Nat, Charge(spend), wallet'.coins = wallet.coins - spend
        PROVE  Kept
    BY <1>1 DEF Charge
  <1>2. ASSUME NEW i \in Items, Buy(i)
        PROVE  Kept /\ Owned
    <2>1. Price[i] \in Nat /\ wallet'.coins = wallet.coins - Price[i]
      BY <1>2, WalletAssumption DEF Buy, WalletAssumption
    <2>2. Owned
      BY <1>2 DEF Buy
    <2>3. QED
      BY <1>1, <1>2, <2>1, <2>2 DEF Buy
  <1>3. ASSUME NEW r \in RewardIds, RedeemPersonal(r)
        PROVE  Kept /\ Owned
    <2>1. wallet.personal[r] \in Nat
      BY PricesAreNat
    <2>2. wallet'.coins = wallet.coins - wallet.personal[r]
      BY <1>3 DEF RedeemPersonal
    <2>3. Owned
      BY <1>3 DEF RedeemPersonal
    <2>4. QED
      BY <1>1, <1>3, <2>1, <2>2, <2>3 DEF RedeemPersonal
  <1>4. ASSUME UNCHANGED ledger, wallet'.coins = wallet.coins
        PROVE  Kept
    BY <1>4
  <1>5. ASSUME NEW i, EquipTheme(i) \/ EquipSound(i)
        PROVE  Kept /\ Owned
    BY <1>4, <1>5 DEF EquipTheme, EquipSound
  <1>6. ASSUME NEW r, NEW p, CreatePersonal(r, p) \/ DeletePersonal(r)
        PROVE  Kept /\ Owned
    BY <1>4, <1>6 DEF CreatePersonal, DeletePersonal
  <1>7. ASSUME NEW R, NEW p, NEW th, NEW so, ImportLegacy(R, p, th, so)
        PROVE  Kept /\ Owned
    BY <1>4, <1>7 DEF ImportLegacy, Imported
  <1>8. QED
    BY <1>2, <1>3, <1>5, <1>6, <1>7 DEF ShopAction

\* No step takes XP, counted sessions, journal entries, achievements, owned items
\* or any part of the ledger away again, what was spent included, nor coins but
\* for a purchase; and the import is not given back.  Reopening and deletion are
\* steps like any other.
THEOREM RewardsStay == Spec => NothingTakenBack
  <1> DEFINE Kept == /\ stats'.points >= stats.points
                     /\ stats'.pomodoros >= stats.pomodoros
                     /\ completed \subseteq completed'
                     /\ achievements \subseteq achievements'
                     /\ ledger.tasks \subseteq ledger'.tasks
                     /\ ledger.focus \subseteq ledger'.focus
                     /\ ledger'.spent >= ledger.spent
                     /\ wallet.owned \subseteq wallet'.owned
                     /\ wallet.imported => wallet'.imported
                     /\ wallet'.coins + ledger'.spent >= wallet.coins + ledger.spent
  <1>1. TypeOK /\ TypeOK' /\ [Next]_vars => [Kept]_vars
    <2> SUFFICES ASSUME TypeOK, TypeOK', [Next]_vars
                 PROVE  Kept
      OBVIOUS
    <2>1. /\ stats.points \in Nat /\ stats.pomodoros \in Nat
          /\ wallet.coins + ledger.spent \in Nat /\ ledger.spent \in Nat
      BY DEF TypeOK, WalletType, LedgerType
    <2>2. CASE Shop
      BY <2>1, <2>2, ShopTakesNothing DEF Shop
    <2>3. CASE \E T, D \in SUBSET Tasks, F \in SUBSET Sessions : Awards(T, F, D)
      <3>1. PICK T \in SUBSET Tasks, D \in SUBSET Tasks, F \in SUBSET Sessions : Awards(T, F, D)
        BY <2>3
      <3>2. completed \subseteq completed' /\ achievements \subseteq achievements'
        BY <3>1 DEF Awards, CheckAchievements
      <3>3. /\ ledger'.spent = ledger.spent
            /\ wallet'.owned = wallet.owned /\ wallet'.imported = wallet.imported
        BY <3>1, AwardsGrow
      <3>4. ledger'.spent >= ledger.spent
        BY <2>1, <3>3
      <3>5. wallet.owned \subseteq wallet'.owned /\ (wallet.imported => wallet'.imported)
        BY <3>3
      <3>6. /\ stats'.points >= stats.points /\ stats'.pomodoros >= stats.pomodoros
            /\ ledger.tasks \subseteq ledger'.tasks /\ ledger.focus \subseteq ledger'.focus
            /\ wallet'.coins + ledger'.spent >= wallet.coins + ledger.spent
        BY <3>1, AwardsGrow
      <3>7. QED
        BY <3>2, <3>4, <3>5, <3>6
    <2>4. CASE GetAchievements
      BY <2>1, <2>4 DEF GetAchievements, walletVars
    <2>5. CASE UNCHANGED <<walletVars, stats, completed, achievements>>
      BY <2>1, <2>5 DEF walletVars
    <2>6. QED
      BY <2>2, <2>3, <2>4, <2>5, StepShape
  <1>2. QED
    BY <1>1, TypeCorrect, PTL DEF Spec, NothingTakenBack

\* An achievement is unlocked by the very transaction that reaches its target,
\* and by nothing else.
THEOREM AchievementsHold == Spec => []AchievementsCurrent
  <1>1. Init => AchievementsCurrent
    <2> SUFFICES ASSUME Init PROVE Earned({}, 0) = {}
      BY DEF Init, AchievementsCurrent
    <2>1. Cardinality({}) = 0
      BY FS_EmptySet
    <2>2. \A h \in TaskGoals \cup FocusGoals : ~(h <= 0)
      BY RewardsAssumption DEF RewardsAssumption
    <2>3. QED
      BY <2>1, <2>2 DEF Earned
  <1>2. TypeOK /\ TypeOK' /\ AchievementsCurrent /\ [Next]_vars => AchievementsCurrent'
    <2> SUFFICES ASSUME TypeOK, TypeOK', AchievementsCurrent, [Next]_vars
                 PROVE  AchievementsCurrent'
      OBVIOUS
    <2>1. CASE \E T, D \in SUBSET Tasks, F \in SUBSET Sessions : Awards(T, F, D)
      <3>1. PICK T \in SUBSET Tasks, D \in SUBSET Tasks, F \in SUBSET Sessions : Awards(T, F, D)
        BY <2>1
      <3>2. /\ stats.pomodoros \in Nat /\ stats'.pomodoros \in Nat
            /\ stats'.pomodoros >= stats.pomodoros
            /\ completed' \in SUBSET Tasks /\ completed \in SUBSET completed'
        BY <3>1, AwardsGrow DEF TypeOK, Awards
      <3>3. Earned(completed, stats.pomodoros) \subseteq Earned(completed', stats'.pomodoros)
        BY <3>2, EarnedGrows
      <3>4. QED
        BY <3>1, <3>3 DEF Awards, CheckAchievements, AchievementsCurrent
    <2>2. CASE Shop \/ GetAchievements \/ UNCHANGED <<walletVars, stats, completed, achievements>>
      BY <2>2 DEF Shop, GetAchievements, AchievementsCurrent
    <2>3. QED
      BY <2>1, <2>2, StepShape
  <1>3. QED
    BY <1>1, <1>2, TypeCorrect, PTL DEF Spec

-----------------------------------------------------------------------------
(* The cycle of the sessions. *)

\* Division with remainder: a quotient that is too small is too small.
LEMMA QuotientsOrdered ==
    ASSUME NEW L \in Nat \ {0}, NEW p \in Nat, NEW q \in Nat, p < q,
           NEW r \in 0..(L - 1), NEW s \in Nat, L * p + r = L * q + s
    PROVE  FALSE
  <1>1. PICK k \in Nat : q = p + 1 + k
    <2>1. q - p - 1 \in Nat /\ q = p + 1 + (q - p - 1)
      OBVIOUS
    <2>2. QED
      BY <2>1
  <1> DEFINE x == L * p   y == L * k
  <1>2. L * q = x + L + y
    BY <1>1
  <1>3. x \in Nat /\ y \in Nat
    OBVIOUS
  <1> HIDE DEF x, y
  <1>4. x + r = x + L + y + s
    BY <1>2 DEF x
  <1>5. QED
    BY <1>3, <1>4

\* A number has one remainder.
LEMMA RemainderUnique ==
    ASSUME NEW L \in Nat \ {0}, NEW p \in Nat, NEW q \in Nat,
           NEW r \in 0..(L - 1), NEW s \in 0..(L - 1), L * p + r = L * q + s
    PROVE  r = s
  <1>1. ~(p < q) /\ ~(q < p)
    BY QuotientsOrdered
  <1>2. p = q
    BY <1>1
  <1>3. L * p \in Nat /\ L * p = L * q
    BY <1>2
  <1> DEFINE x == L * p
  <1>4. x \in Nat /\ x + r = x + s
    BY <1>3
  <1> HIDE DEF x
  <1>5. QED
    BY <1>4

LEMMA Remainder ==
    ASSUME NEW n \in Nat, NEW L \in Nat \ {0}
    PROVE  /\ n % L \in 0..(L - 1) /\ n \div L \in Nat
           /\ n = L * (n \div L) + (n % L)
  BY SMT

\* The remainder counts round.
LEMMA NextRemainder ==
    ASSUME NEW n \in Nat, NEW L \in Nat \ {0, 1}
    PROVE  (n + 1) % L = IF n % L = L - 1 THEN 0 ELSE (n % L) + 1
  <1> DEFINE q == n \div L   r == n % L
             p == (n + 1) \div L   s == (n + 1) % L
  <1>1. /\ r \in 0..(L - 1) /\ q \in Nat /\ n = L * q + r
        /\ s \in 0..(L - 1) /\ p \in Nat /\ n + 1 = L * p + s
    <2>1. r \in 0..(L - 1) /\ q \in Nat /\ n = L * q + r
      BY Remainder
    <2>2. n + 1 \in Nat
      OBVIOUS
    <2>3. s \in 0..(L - 1) /\ p \in Nat /\ n + 1 = L * p + s
      BY <2>2, Remainder
    <2>4. QED
      BY <2>1, <2>3
  <1> HIDE DEF q, r, p, s
  <1>2. CASE r = L - 1
    <2>1. L * (q + 1) = L * q + L
      BY <1>1
    <2>2. L * p + s = L * (q + 1) + 0
      BY <1>1, <1>2, <2>1
    <2>3. s = 0
      <3>1. q + 1 \in Nat /\ 0 \in 0..(L - 1)
        BY <1>1
      <3>2. QED
        BY <1>1, <2>2, <3>1, RemainderUnique
    <2>4. QED
      BY <1>2, <2>3 DEF r, s
  <1>3. CASE r # L - 1
    <2>1. r + 1 \in 0..(L - 1)
      BY <1>1, <1>3
    <2>2. L * p + s = L * q + (r + 1)
      BY <1>1
    <2>3. s = r + 1
      BY <1>1, <2>1, <2>2, RemainderUnique
    <2>4. QED
      BY <1>3, <2>3 DEF r, s
  <1>4. QED
    BY <1>2, <1>3

\* The part of SessionsCounted that is about the cycle.
CycleFollows ==
    /\ focus.cycle = stats.pomodoros % CycleLen
    /\ focus.rest # NoRest => (focus.rest = "long" <=> focus.cycle = 0)

\* The counter and the cycle are left alone, the rest may end.
LEMMA CycleKept ==
    ASSUME CycleFollows, stats'.pomodoros = stats.pomodoros,
           focus'.cycle = focus.cycle, focus'.rest \in {focus.rest, NoRest}
    PROVE  CycleFollows'
  BY DEF CycleFollows

\* Rewards for tasks only, which do not move the counter.
LEMMA TaskRewardsCycle ==
    ASSUME TypeOK, CycleFollows, NEW T, ApplyStats(T, {}), UNCHANGED focus
    PROVE  CycleFollows'
  <1>1. Cardinality({}) = 0 /\ stats.pomodoros \in Nat
    BY FS_EmptySet DEF TypeOK
  <1>2. stats'.pomodoros = stats.pomodoros
    BY <1>1 DEF ApplyStats
  <1>3. QED
    BY <1>2, CycleKept

LEMMA FinishFocusCycle ==
    ASSUME TypeOK, CycleFollows, NEW s \in Sessions, NEW action, NEW finishTask, NEW age,
           FinishFocus(s, action, finishTask, age)
    PROVE  CycleFollows'
  <1> DEFINE counted == Counts(action, age)
             tk == session[s].task
             R == (IF finishTask /\ action = "completed" THEN {tk} \ {None} ELSE {})
                    \cap Rewardable(Tasks)
             F == IF counted THEN {s} ELSE {}
  <1>1. ApplyStats(R, F) /\ FocusAfterFinish(counted, tk)
    BY DEF FinishFocus, WriteFinish
  <1>2. stats'.pomodoros = stats.pomodoros + Cardinality(F)
    BY <1>1 DEF ApplyStats
  <1>3. /\ stats.pomodoros \in Nat /\ CycleLen \in Nat \ {0, 1}
        /\ focus.cycle \in 0..(CycleLen - 1)
    BY RewardsAssumption DEF TypeOK, FocusType, RewardsAssumption
  <1>4. counted \in BOOLEAN
    BY DEF Counts
  <1> HIDE DEF counted, tk, R
  <1>5. CASE counted
    <2>1. Cardinality(F) = 1
      BY <1>5, FS_Singleton
    <2> HIDE DEF F
    <2> DEFINE n == stats.pomodoros   c == focus.cycle
               rest == IF c = CycleLen - 1 THEN "long" ELSE "short"
               next == (c + 1) % CycleLen
    <2>2. /\ focus' = [cycle |-> next, rest |-> rest, task |-> tk]
          /\ stats'.pomodoros = n + 1
          /\ c = n % CycleLen
      BY <1>1, <1>2, <1>5, <2>1 DEF FocusAfterFinish, CycleFollows
    <2>3. (n + 1) % CycleLen = IF c = CycleLen - 1 THEN 0 ELSE c + 1
      BY <1>3, <2>2, NextRemainder
    <2>4. next = IF c = CycleLen - 1 THEN 0 ELSE c + 1
      <3>1. c \in Nat /\ c % CycleLen = c
        BY <1>3
      <3>2. QED
        BY <1>3, <3>1, NextRemainder
    <2>5. c \in Nat
      BY <1>3
    <2> HIDE DEF n, c, next
    <2>6. focus'.cycle = (n + 1) % CycleLen /\ focus'.rest = rest
      BY <2>2, <2>3, <2>4
    <2>7. rest = "long" <=> focus'.cycle = 0
      <3>1. c + 1 # 0
        BY <2>5
      <3>2. QED
        BY <2>3, <2>6, <3>1
    <2>8. focus'.cycle = stats'.pomodoros % CycleLen
      BY <2>2, <2>6
    <2>9. QED
      BY <2>6, <2>7, <2>8 DEF CycleFollows
  <1>6. CASE ~counted
    <2>1. F = {} /\ Cardinality({}) = 0
      BY <1>6, FS_EmptySet
    <2>2. stats'.pomodoros = stats.pomodoros
      BY <1>2, <1>3, <2>1
    <2>3. focus'.cycle = focus.cycle /\ focus'.rest = NoRest
      BY <1>1, <1>6 DEF FocusAfterFinish, ClearRest, TypeOK, FocusType
    <2>4. QED
      BY <2>2, <2>3, CycleKept
  <1>7. QED
    BY <1>4, <1>5, <1>6

LEMMA CycleStep ==
    ASSUME TypeOK, CycleFollows, [Next]_vars
    PROVE  CycleFollows'
  <1>1. ASSUME NEW t, NEW status, UpdateTask(t, status)
        PROVE  CycleFollows'
    BY <1>1, TaskRewardsCycle DEF UpdateTask, WriteUpdate
  <1>2. ASSUME NEW T, BulkComplete(T)
        PROVE  CycleFollows'
    BY <1>2, TaskRewardsCycle DEF BulkComplete, WriteComplete
  <1>3. ASSUME NEW T, DeleteTasks(T)
        PROVE  CycleFollows'
    <2>1. focus'.cycle = focus.cycle /\ focus'.rest = focus.rest
      BY <1>3 DEF DeleteTasks, WriteDelete, TypeOK, FocusType
    <2>2. QED
      BY <1>3, <2>1, CycleKept DEF DeleteTasks, WriteDelete
  <1>4. ASSUME NEW s, NEW tk, StartFocus(s, tk)
        PROVE  CycleFollows'
    BY <1>4, CycleKept DEF StartFocus, WriteStart, ClearRest, TypeOK, FocusType
  <1>5. ASSUME NEW s, ResumeRest(s)
        PROVE  CycleFollows'
    BY <1>4, <1>5 DEF ResumeRest
  <1>6. ASSUME NEW x, \/ SaveTask(x) \/ TakeBreak(x) \/ EndBreak(x)
                      \/ CancelFocus(x) \/ Elapse(x)
        PROVE  CycleFollows'
    BY <1>6, CycleKept DEF SaveTask, TakeBreak, EndBreak, CancelFocus, Elapse
  <1>7. CASE FinishRest
    BY <1>7, CycleKept DEF FinishRest, ClearRest, TypeOK, FocusType
  <1>8. CASE GetAchievements \/ Shop \/ UNCHANGED vars
    BY <1>8, CycleKept DEF GetAchievements, Shop, vars
  <1>9. QED
    BY <1>1, <1>2, <1>3, <1>4, <1>5, <1>6, <1>7, <1>8, FinishFocusCycle
       DEF Next, TaskAction, FocusAction

\* A session is paid exactly when it counts, the cycle follows the counted
\* sessions, and every CycleLen-th of them earns the long rest.
THEOREM CycleCounts == Spec => []SessionsCounted
  <1>1. Init => CycleFollows
    <2>1. 0 % CycleLen = 0
      BY RewardsAssumption DEF RewardsAssumption
    <2>2. QED
      BY <2>1 DEF Init, CycleFollows
  <1>2. Accounts /\ CycleFollows => SessionsCounted
    BY DEF Accounts, CycleFollows, SessionsCounted
  <1>3. QED
    BY <1>1, <1>2, CycleStep, TypeCorrect, AccountsHold, PTL DEF Spec

-----------------------------------------------------------------------------
(* The wallet holds what it may. *)

\* The state part of WalletHoldsOwned.
Holds ==
    /\ {wallet.theme, wallet.sound} \subseteq wallet.owned \cup {Default}
    /\ Cardinality(Saved) <= MaxRewards

LEMMA SavedCount ==
    /\ IsFiniteSet(Saved) /\ Cardinality(Saved) \in Nat /\ MaxRewards \in Nat
  <1>1. Saved \in SUBSET RewardIds /\ IsFiniteSet(RewardIds) /\ MaxRewards \in Nat
    BY WalletAssumption DEF Saved, WalletAssumption
  <1>2. QED
    BY <1>1, FS_Subset, FS_CardinalityType

\* Whatever an action of the shop does, it keeps the limit, equips what is
\* owned, takes in what is paid for or imported once, and does not use the import
\* up for nothing.
LEMMA ShopHolds ==
    ASSUME TypeOK, TypeOK', Holds, ShopAction
    PROVE  /\ Holds'
           /\ \A i \in wallet'.owned \ wallet.owned :
                 \/ ledger'.spent = ledger.spent + Price[i]
                 \/ wallet'.imported /\ ~wallet.imported
           /\ wallet'.imported /\ ~wallet.imported =>
                 \/ Cardinality(Saved') > Cardinality(Saved)
                 \/ {wallet'.theme, wallet'.sound} # {Default}
  <1> USE DEF TypeOK, WalletType, LedgerType
  <1> DEFINE Taken == \A i \in wallet'.owned \ wallet.owned :
                         \/ ledger'.spent = ledger.spent + Price[i]
                         \/ wallet'.imported /\ ~wallet.imported
             Useful == wallet'.imported /\ ~wallet.imported =>
                         \/ Cardinality(Saved') > Cardinality(Saved)
                         \/ {wallet'.theme, wallet'.sound} # {Default}
             Equipped == {wallet.theme, wallet.sound} \subseteq wallet.owned \cup {Default}
             Limited == Cardinality(Saved) <= MaxRewards
  <1>0. Equipped /\ Limited /\ (Holds' <=> Equipped' /\ Limited')
    BY DEF Holds
  <1>1. ASSUME wallet'.personal = wallet.personal
        PROVE  Limited'
    <2>1. Saved' = Saved
      BY <1>1 DEF Saved
    <2>2. QED
      BY <1>0, <2>1
  <1>2. ASSUME NEW i \in Items, Buy(i)
        PROVE  Holds' /\ Taken /\ Useful
    <2>1. /\ wallet'.owned = wallet.owned \cup {i}
          /\ wallet'.theme = wallet.theme /\ wallet'.sound = wallet.sound
          /\ wallet'.personal = wallet.personal
          /\ ledger'.spent = ledger.spent + Price[i]
          /\ wallet'.imported = wallet.imported
      BY <1>2 DEF Buy, Charge
    <2>2. QED
      BY <1>0, <1>1, <2>1
  <1>3. ASSUME NEW i, EquipTheme(i) \/ EquipSound(i)
        PROVE  Holds' /\ Taken /\ Useful
    <2>1. /\ wallet'.owned = wallet.owned /\ wallet'.personal = wallet.personal
          /\ i \in wallet.owned \cup {Default}
          /\ \/ wallet'.theme = i /\ wallet'.sound = wallet.sound
             \/ wallet'.theme = wallet.theme /\ wallet'.sound = i
          /\ wallet'.imported = wallet.imported
      BY <1>3 DEF EquipTheme, EquipSound
    <2>2. QED
      BY <1>0, <1>1, <2>1
  <1>4. ASSUME NEW r \in RewardIds, NEW p \in RewardPrices, CreatePersonal(r, p)
        PROVE  Holds' /\ Taken /\ Useful
    <2>1. /\ wallet'.personal = [wallet.personal EXCEPT ![r] = p] /\ p # NoReward
          /\ wallet'.owned = wallet.owned
          /\ wallet'.theme = wallet.theme /\ wallet'.sound = wallet.sound
          /\ Cardinality(Saved) < MaxRewards /\ r \notin Saved
          /\ wallet'.imported = wallet.imported
      BY <1>4, WalletAssumption DEF CreatePersonal, WalletAssumption, NoReward
    <2>2. Saved' = Saved \cup {r}
      BY <2>1 DEF Saved
    <2>3. Cardinality(Saved') = Cardinality(Saved) + 1
      BY <2>1, <2>2, SavedCount, FS_AddElement
    <2>4. Limited'
      BY <2>1, <2>3, SavedCount
    <2>5. QED
      BY <1>0, <2>1, <2>4
  <1>5. ASSUME NEW r \in RewardIds, DeletePersonal(r)
        PROVE  Holds' /\ Taken /\ Useful
    <2>1. /\ wallet'.personal = [wallet.personal EXCEPT ![r] = NoReward]
          /\ wallet'.owned = wallet.owned
          /\ wallet'.theme = wallet.theme /\ wallet'.sound = wallet.sound
          /\ wallet'.imported = wallet.imported
      BY <1>5 DEF DeletePersonal
    <2>2. Saved' \in SUBSET Saved
      BY <2>1 DEF Saved
    <2>3. Cardinality(Saved') <= Cardinality(Saved) /\ Cardinality(Saved') \in Nat
      BY <2>2, SavedCount, FS_Subset, FS_CardinalityType
    <2>4. Limited'
      BY <1>0, <2>3, SavedCount
    <2>5. QED
      BY <1>0, <2>1, <2>4
  <1>6. ASSUME NEW r \in RewardIds, RedeemPersonal(r)
        PROVE  Holds' /\ Taken /\ Useful
    <2>1. /\ wallet'.personal = wallet.personal /\ wallet'.owned = wallet.owned
          /\ wallet'.theme = wallet.theme /\ wallet'.sound = wallet.sound
          /\ wallet'.imported = wallet.imported
      BY <1>6 DEF RedeemPersonal
    <2>2. QED
      BY <1>0, <1>1, <2>1
  <1>7. ASSUME NEW R \in SUBSET RewardIds, NEW p \in RewardPrices,
               NEW th \in Themes \cup {Default}, NEW so \in Sounds \cup {Default},
               ImportLegacy(R, p, th, so)
        PROVE  Holds' /\ Taken /\ Useful
    <2> DEFINE price == [r \in RewardIds |-> IF r \in R THEN p ELSE wallet.personal[r]]
    <2>1. /\ wallet'.personal = price /\ p # NoReward
          /\ wallet'.owned = wallet.owned \cup ({th, so} \ {Default})
          /\ wallet'.theme = (IF th = Default THEN wallet.theme ELSE th)
          /\ wallet'.sound = (IF so = Default THEN wallet.sound ELSE so)
          /\ wallet'.imported /\ ~wallet.imported
          /\ Cardinality(Saved \cup R) <= MaxRewards
          /\ R \cap Saved = {} /\ (R # {} \/ {th, so} # {Default})
      BY <1>7, WalletAssumption DEF ImportLegacy, Imported, WalletAssumption, NoReward
    <2>2. Saved' = Saved \cup R
      BY <2>1 DEF Saved
    <2>3. Limited'
      BY <2>1, <2>2
    <2>4. Equipped' /\ Taken
      BY <1>0, <2>1
    <2>5. CASE R = {}
      <3>1. th # Default \/ so # Default
        BY <2>1, <2>5
      <3>2. wallet'.theme # Default \/ wallet'.sound # Default
        BY <2>1, <3>1
      <3>3. Useful
        BY <3>2
      <3>4. QED
        BY <1>0, <2>3, <2>4, <3>3
    <2>6. CASE R # {}
      <3>1. Saved \subseteq Saved' /\ Saved # Saved'
        BY <2>1, <2>2, <2>6
      <3>2. Saved' \in SUBSET RewardIds /\ IsFiniteSet(RewardIds)
        BY WalletAssumption DEF Saved, WalletAssumption
      <3>3. IsFiniteSet(Saved') /\ Cardinality(Saved') \in Nat
        BY <3>2, FS_Subset, FS_CardinalityType
      <3>4. Cardinality(Saved) < Cardinality(Saved')
        BY <3>1, <3>3, SavedCount, FS_Subset
      <3>5. Useful
        BY <3>3, <3>4, SavedCount
      <3>6. QED
        BY <1>0, <2>3, <2>4, <3>5
    <2>7. QED
      BY <2>5, <2>6
  <1>8. QED
    BY <1>2, <1>3, <1>4, <1>5, <1>6, <1>7 DEF ShopAction

\* What is equipped is owned, the limit of personal rewards holds on both ways
\* in, a catalogue item is paid for or part of the only import, and an empty
\* import does not use that up.
THEOREM WalletHolds == Spec => WalletHoldsOwned
  <1> DEFINE Taken == \A i \in wallet'.owned \ wallet.owned :
                         \/ ledger'.spent = ledger.spent + Price[i]
                         \/ wallet'.imported /\ ~wallet.imported
             Useful == wallet'.imported /\ ~wallet.imported =>
                         \/ Cardinality(Saved') > Cardinality(Saved)
                         \/ {wallet'.theme, wallet'.sound} # {Default}
  <1>1. Init => Holds
    <2> SUFFICES ASSUME Init PROVE Holds
      OBVIOUS
    <2>1. Saved = {} /\ Cardinality({}) = 0 /\ MaxRewards \in Nat
      BY FS_EmptySet, WalletAssumption DEF Init, WalletInit, NewWallet, Saved, WalletAssumption
    <2>2. QED
      BY <2>1 DEF Init, WalletInit, NewWallet, Holds
  <1>2. TypeOK /\ TypeOK' /\ Holds /\ [Next]_vars => Holds' /\ [Taken]_vars /\ [Useful]_vars
    <2> SUFFICES ASSUME TypeOK, TypeOK', Holds, [Next]_vars
                 PROVE  Holds' /\ Taken /\ Useful
      OBVIOUS
    <2>1. ASSUME NEW n, wallet' = [wallet EXCEPT !.coins = n]
          PROVE  Holds' /\ Taken /\ Useful
      <3>1. /\ wallet'.personal = wallet.personal /\ wallet'.owned = wallet.owned
            /\ wallet'.theme = wallet.theme /\ wallet'.sound = wallet.sound
            /\ wallet'.imported = wallet.imported
        BY <2>1 DEF TypeOK, WalletType
      <3>2. Saved' = Saved
        BY <3>1 DEF Saved
      <3>3. QED
        BY <3>1, <3>2 DEF Holds
    <2>2. CASE UNCHANGED walletVars
      BY <2>2 DEF walletVars, Holds, Saved
    <2>3. CASE \E T, D \in SUBSET Tasks, F \in SUBSET Sessions : Awards(T, F, D)
      BY <2>1, <2>3 DEF Awards, Credit
    <2>4. CASE Shop
      BY <2>4, ShopHolds DEF Shop
    <2>5. QED
      BY <2>2, <2>3, <2>4, StepShape DEF GetAchievements, walletVars
  <1>3. Holds => /\ {wallet.theme, wallet.sound} \subseteq wallet.owned \cup {Default}
                 /\ Cardinality(Saved) <= MaxRewards
    BY DEF Holds
  <1>4. QED
    BY <1>1, <1>2, <1>3, TypeCorrect, PTL DEF Spec, WalletHoldsOwned

=============================================================================
