--------------------------- MODULE RewardTxProofs ---------------------------
(***************************************************************************)
(* Proofs about RewardTx for any number of requests, tasks and sessions.   *)
(*                                                                         *)
(* The invariant says for every open transaction which locks it holds and  *)
(* what of its reads they protect.  With it every commit is a step of      *)
(* Rewards, whose own invariants therefore hold of the split transactions; *)
(* and these in turn are needed to show that the locks protect enough,     *)
(* which is why TxInv is one invariant of both.                            *)
(***************************************************************************)
EXTENDS RewardTx, RewardsProofs

Kinds == {"none", "update", "complete", "delete", "start", "finish"}
Stages == {"end", "user", "task", "session", "commit"}
Args == TaskStatuses \cup FinishArgs \cup {"none"}

\* The rows that a transaction may have read.
RowMaps == UNION {[T -> TaskType] : T \in SUBSET Tasks}

TxType ==
    [kind : Kinds, at : Stages, todo : Seq(Tasks), rows : RowMaps, held : SUBSET Sessions,
     s : Sessions \cup {None}, tk : Tasks \cup {None}, arg : Args, age : Ages]

TxTyped ==
    /\ tx \in [Requests -> TxType]
    /\ userLock \in Requests \cup {NoOne}
    /\ taskLock \in [Tasks -> Requests \cup {NoOne}]
    /\ sessionLock \in [Sessions -> Requests \cup {NoOne}]

\* A business action has the user's lock from its first step on, and the
\* deletion of tasks never has it.
UserOK(r) ==
    userLock = r <=> /\ tx[r].kind \in {"update", "complete", "start", "finish"}
                     /\ tx[r].at # "user"

\* The rows r has read are those of the tasks it has locked, as they are; only
\* a start locks its task without reading the row.
RowsOK(r) ==
    /\ \A t \in DOMAIN tx[r].rows : taskLock[t] = r /\ tx[r].rows[t] = task[t]
    /\ \A t \in Tasks : taskLock[t] = r =>
        /\ t \in Live
        /\ \/ t \in DOMAIN tx[r].rows
           \/ tx[r].kind = "start" /\ tx[r].at = "commit" /\ tx[r].tk = t

\* A locked session is active: a finish is about to write it, or a deletion
\* has abandoned it.
SessionsOK(r) ==
    \A s \in Sessions : sessionLock[s] = r =>
        /\ s \in Active
        /\ \/ tx[r].kind = "finish" /\ tx[r].at = "commit" /\ tx[r].s = s
           \/ tx[r].kind = "delete" /\ s \in tx[r].held

UpdateOK(r) == tx[r].kind = "update" =>
    /\ tx[r].at \in {"user", "task", "commit"}
    /\ tx[r].tk \in Tasks /\ tx[r].arg \in TaskStatuses
    /\ DOMAIN tx[r].rows = IF tx[r].at = "commit" THEN {tx[r].tk} ELSE {}

CompleteOK(r) == tx[r].kind = "complete" =>
    /\ tx[r].at \in {"user", "task"}
    /\ tx[r].at = "user" => DOMAIN tx[r].rows = {}
    /\ \A t \in DOMAIN tx[r].rows : tx[r].rows[t].status # "done"

\* The active sessions of the rows a deletion has locked are those it has
\* abandoned, while it is not in the middle of a row's trigger.
DeleteOK(r) == tx[r].kind = "delete" =>
    /\ tx[r].at \in {"task", "session"}
    /\ tx[r].at = "session" => tx[r].tk \in DOMAIN tx[r].rows
    /\ \A s \in tx[r].held : /\ s \in Active /\ sessionLock[s] = r
                             /\ session[s].task \in DOMAIN tx[r].rows
    /\ \A s \in Active : session[s].task \in DOMAIN tx[r].rows =>
         s \in tx[r].held \/ (tx[r].at = "session" /\ session[s].task = tx[r].tk)

StartOK(r) == tx[r].kind = "start" =>
    /\ tx[r].at \in {"user", "task", "commit"}
    /\ DOMAIN tx[r].rows = {}
    /\ tx[r].at = "task" => tx[r].tk \in Tasks
    /\ tx[r].at = "commit" /\ tx[r].tk # None => taskLock[tx[r].tk] = r

\* A session keeps its task until the task is deleted, and does not grow
\* younger while it is active.
FinishOK(r) == tx[r].kind = "finish" =>
    /\ tx[r].at \in {"user", "task", "session", "commit"}
    /\ tx[r].s \in Sessions /\ tx[r].arg \in FinishArgs
    /\ session[tx[r].s].status # "unborn"
    /\ tx[r].s \in Active => tx[r].age <= session[tx[r].s].age
    /\ tx[r].at \in {"user", "task"} => DOMAIN tx[r].rows = {}
    /\ tx[r].at = "task" => tx[r].tk \in Tasks /\ session[tx[r].s].task \in {tx[r].tk, None}
    /\ tx[r].at = "session" => session[tx[r].s].task \in DOMAIN tx[r].rows \cup {None}
    /\ tx[r].at = "commit" => /\ sessionLock[tx[r].s] = r
                              /\ session[tx[r].s].task = tx[r].tk
                              /\ tx[r].tk \in DOMAIN tx[r].rows \cup {None}

NoneOK(r) == tx[r].kind = "none" => tx[r].at = "end" /\ DOMAIN tx[r].rows = {}

TxOK(r) ==
    /\ UserOK(r) /\ RowsOK(r) /\ SessionsOK(r)
    /\ NoneOK(r) /\ UpdateOK(r) /\ CompleteOK(r) /\ DeleteOK(r) /\ StartOK(r) /\ FinishOK(r)

TxInv ==
    /\ Accounts
    /\ TxTyped
    /\ \A r \in Requests : TxOK(r)

-----------------------------------------------------------------------------
(* What a step may do to the transactions of others. *)

SameLocks(r) ==
    /\ userLock' = r <=> userLock = r
    /\ \A t \in Tasks : taskLock'[t] = r <=> taskLock[t] = r
    /\ \A s \in Sessions : sessionLock'[s] = r <=> sessionLock[s] = r

\* The rows r has locked are left alone, a new session is not of a task that r
\* has locked, and no session gets another task or another life.
Spared(r) ==
    /\ \A t \in Tasks : taskLock[t] = r => task'[t] = task[t]
    /\ \A s \in Sessions :
        /\ sessionLock[s] = r => session'[s].status = session[s].status
                                 /\ session'[s].task = session[s].task
        /\ session[s].status # "unborn" => /\ session'[s].status # "unborn"
                                           /\ session'[s].task \in {session[s].task, None}
        /\ s \in Active' => \/ /\ s \in Active /\ session'[s].age >= session[s].age
                            \/ /\ session[s].status = "unborn"
                               /\ \A t \in Tasks : taskLock[t] = r => session'[s].task # t

LEMMA TxFields ==
    ASSUME TxTyped, NEW r \in Requests
    PROVE  /\ tx[r] \in TxType
           /\ DOMAIN tx[r].rows \subseteq Tasks
           /\ tx[r].held \subseteq Sessions /\ tx[r].age \in Ages
           /\ r # NoOne
  <1>1. tx[r] \in TxType /\ r # NoOne
    BY RewardTxAssumption DEF TxTyped, RewardTxAssumption
  <1>2. /\ tx[r].rows \in RowMaps /\ tx[r].held \subseteq Sessions /\ tx[r].age \in Ages
    BY <1>1 DEF TxType
  <1>3. \A f \in RowMaps : DOMAIN f \subseteq Tasks
    BY DEF RowMaps
  <1>4. QED
    BY <1>1, <1>2, <1>3

LEMMA OthersKept ==
    ASSUME TxInv, TypeOK', NEW r \in Requests, tx'[r] = tx[r], SameLocks(r), Spared(r)
    PROVE  TxOK(r)'
  <1> USE DEF TxInv
  <1>0. TxOK(r) /\ DOMAIN tx[r].rows \subseteq Tasks /\ tx[r].held \subseteq Sessions
    BY TxFields
  <1>1. UserOK(r)'
    BY <1>0 DEF TxOK, UserOK, SameLocks
  <1>2. RowsOK(r)'
    <2>1. \A t \in Tasks : taskLock[t] = r => (t \in Live' <=> t \in Live)
      BY DEF Live, Spared
    <2>2. QED
      BY <1>0, <2>1 DEF TxOK, RowsOK, SameLocks, Spared
  <1>3. SessionsOK(r)'
    BY <1>0 DEF TxOK, SessionsOK, SameLocks, Spared, Active
  <1>4. NoneOK(r)' /\ UpdateOK(r)' /\ CompleteOK(r)' /\ StartOK(r)'
    <2>1. NoneOK(r)' /\ UpdateOK(r)' /\ CompleteOK(r)'
      BY <1>0 DEF TxOK, NoneOK, UpdateOK, CompleteOK
    <2>2. tx[r].tk \in Tasks \cup {None}
      BY TxFields DEF TxType
    <2>3. StartOK(r)'
      BY <1>0, <2>2 DEF TxOK, StartOK, SameLocks
    <2>4. QED
      BY <2>1, <2>3
  <1>5. DeleteOK(r)'
    <2> SUFFICES ASSUME tx[r].kind = "delete"
                 PROVE  DeleteOK(r)'
      BY DEF DeleteOK
    <2>1. /\ tx[r].at \in {"task", "session"}
          /\ tx[r].at = "session" => tx[r].tk \in DOMAIN tx[r].rows
          /\ \A s \in tx[r].held : /\ s \in Active /\ sessionLock[s] = r
                                   /\ session[s].task \in DOMAIN tx[r].rows
          /\ \A s \in Active : session[s].task \in DOMAIN tx[r].rows =>
               s \in tx[r].held \/ (tx[r].at = "session" /\ session[s].task = tx[r].tk)
          /\ \A t \in DOMAIN tx[r].rows : taskLock[t] = r
      BY <1>0 DEF TxOK, DeleteOK, RowsOK
    <2>2. \A s \in tx[r].held : /\ s \in Active' /\ sessionLock'[s] = r
                                /\ session'[s].task \in DOMAIN tx[r].rows
      BY <1>0, <2>1 DEF Spared, SameLocks, Active
    <2>3. \A s \in Active' : session'[s].task \in DOMAIN tx[r].rows =>
               s \in tx[r].held \/ (tx[r].at = "session" /\ session'[s].task = tx[r].tk)
      <3> SUFFICES ASSUME NEW s \in Active', session'[s].task \in DOMAIN tx[r].rows
                   PROVE  s \in tx[r].held \/ (tx[r].at = "session" /\ session'[s].task = tx[r].tk)
        OBVIOUS
      <3>1. s \in Sessions /\ session'[s].task \in Tasks /\ taskLock[session'[s].task] = r
        BY <1>0, <2>1 DEF Active
      <3>2. s \in Active
        BY <3>1 DEF Spared
      <3>3. session'[s].task = session[s].task
        BY <3>1, <3>2, RewardsAssumption DEF Spared, Active, RewardsAssumption
      <3>4. QED
        BY <2>1, <3>2, <3>3
    <2>4. QED
      BY <2>1, <2>2, <2>3 DEF DeleteOK
  <1>6. FinishOK(r)'
    <2> SUFFICES ASSUME tx[r].kind = "finish"
                 PROVE  FinishOK(r)'
      BY DEF FinishOK
    <2> DEFINE s == tx[r].s
    <2>1. FinishOK(r) /\ s \in Sessions
      BY <1>0 DEF TxOK, FinishOK
    <2>2. /\ session[s].status # "unborn" /\ session'[s].status # "unborn"
          /\ session'[s].task \in {session[s].task, None}
      BY <2>1 DEF FinishOK, Spared
    <2>3. s \in Active' => s \in Active /\ session'[s].age >= session[s].age
      BY <2>1, <2>2 DEF Spared
    <2>4. s \in Active' => tx[r].age <= session'[s].age
      <3>1. /\ tx[r].age \in Nat /\ session[s].age \in Nat /\ session'[s].age \in Nat
        BY <2>1, TxFields DEF Accounts, TypeOK, SessionType, Ages
      <3>2. s \in Active => tx[r].age <= session[s].age
        BY <2>1 DEF FinishOK
      <3>3. QED
        BY <2>3, <3>1, <3>2
    <2>5. tx[r].at = "commit" => /\ sessionLock'[s] = r
                                 /\ session'[s].task = tx[r].tk
      BY <2>1 DEF FinishOK, SameLocks, Spared
    <2> HIDE DEF s
    <2>6. QED
      BY <2>1, <2>2, <2>4, <2>5 DEF FinishOK, s
  <1>7. QED
    BY <1>1, <1>2, <1>3, <1>4, <1>5, <1>6 DEF TxOK

-----------------------------------------------------------------------------
(* Steps that only take locks and read, and steps that commit. *)

LEMMA EmptyRows == <<>> \in RowMaps /\ DOMAIN <<>> = {} /\ <<>> \in Seq(Tasks)
  <1>1. DOMAIN <<>> = {} /\ <<>> \in Seq(Tasks)
    OBVIOUS
  <1>2. <<>> \in Seq({})
    OBVIOUS
  <1>3. PICK n \in Nat : <<>> \in [1..n -> {}]
    BY <1>2
  <1>4. <<>> \in [{} -> TaskType]
    BY <1>1, <1>3
  <1>5. QED
    BY <1>1, <1>4 DEF RowMaps

LEMMA NoTxIs ==
    /\ NoTx \in TxType /\ NoTx.kind = "none" /\ NoTx.at = "end"
    /\ DOMAIN NoTx.rows = {} /\ NoTx.held = {}
  BY EmptyRows DEF NoTx, TxType, Kinds, Stages, Args, Ages, Fresh

\* The transaction of q is now e.
Becomes(q, e) == tx' = [tx EXCEPT ![q] = e]

LEMMA TxWritten ==
    ASSUME TxTyped, NEW q \in Requests, NEW e \in TxType, Becomes(q, e)
    PROVE  /\ tx' \in [Requests -> TxType] /\ tx'[q] = e
           /\ \A r \in Requests \ {q} : tx'[r] = tx[r]
  BY DEF TxTyped, Becomes

LEMMA LockKeeps ==
    ASSUME TxInv, NEW q \in Requests, UNCHANGED vars, TxTyped', TxOK(q)',
           \A r \in Requests \ {q} : tx'[r] = tx[r] /\ SameLocks(r)
    PROVE  TxInv'
  <1>1. Accounts' /\ TypeOK'
    <2>1. TypeOK'
      BY TypeStep DEF TxInv, Accounts
    <2>2. QED
      BY <2>1, AccountsStep DEF TxInv
  <1>2. ASSUME NEW r \in Requests \ {q}
        PROVE  TxOK(r)'
    <2>1. \A s \in Sessions : session[s].age \in Nat
      BY DEF TxInv, Accounts, TypeOK, SessionType, Ages
    <2>2. \A s \in Sessions : session[s].age >= session[s].age
      BY <2>1
    <2>3. Spared(r)
      BY <2>2 DEF Spared, vars, Active
    <2>4. QED
      BY <1>1, <2>3, OthersKept
  <1>3. QED
    BY <1>1, <1>2 DEF TxInv

LEMMA EndKeeps ==
    ASSUME TxInv, NEW q \in Requests, End(q)
    PROVE  /\ TxTyped' /\ TxOK(q)'
           /\ \A r \in Requests \ {q} : tx'[r] = tx[r] /\ SameLocks(r)
  <1> USE DEF TxInv
  <1>1. /\ tx' \in [Requests -> TxType] /\ tx'[q] = NoTx
        /\ \A r \in Requests \ {q} : tx'[r] = tx[r]
    BY NoTxIs, TxWritten DEF End, Becomes
  <1>2. \A r \in Requests : r # NoOne
    BY TxFields
  <1>3. TxTyped'
    BY <1>1 DEF TxTyped, End
  <1>4. \A r \in Requests \ {q} : SameLocks(r)
    BY <1>2 DEF SameLocks, End
  <1>5. /\ userLock' # q /\ \A t \in Tasks : taskLock'[t] # q
        /\ \A s \in Sessions : sessionLock'[s] # q
    BY <1>2 DEF End
  <1>6. TxOK(q)'
    BY <1>1, <1>5, NoTxIs DEF TxOK, UserOK, RowsOK, SessionsOK, NoneOK, UpdateOK, CompleteOK,
       DeleteOK, StartOK, FinishOK
  <1>7. QED
    BY <1>1, <1>3, <1>4, <1>6

LEMMA CommitKeeps ==
    ASSUME TxInv, NEW q \in Requests, End(q), Next,
           \A r \in Requests \ {q} : Spared(r)
    PROVE  TxInv' /\ [Next]_vars
  <1>1. TypeOK' /\ Accounts'
    <2>1. TypeOK'
      BY TypeStep DEF TxInv, Accounts
    <2>2. QED
      BY <2>1, AccountsStep DEF TxInv
  <1>2. \A r \in Requests \ {q} : TxOK(r)'
    BY <1>1, EndKeeps, OthersKept
  <1>3. QED
    BY <1>1, <1>2, EndKeeps DEF TxInv

LEMMA RollbackKeeps ==
    ASSUME TxInv, NEW q \in Requests, Rollback(q)
    PROVE  TxInv' /\ [Next]_vars
  BY EndKeeps, LockKeeps DEF Rollback

-----------------------------------------------------------------------------
(* BEGIN. *)

\* A request without a transaction holds no lock.
LEMMA NoTxHoldsNothing ==
    ASSUME TxInv, NEW q \in Requests, tx[q].kind = "none"
    PROVE  /\ userLock # q /\ DOMAIN tx[q].rows = {}
           /\ \A t \in Tasks : taskLock[t] # q
           /\ \A s \in Sessions : sessionLock[s] # q
  BY DEF TxInv, TxOK, UserOK, RowsOK, SessionsOK, NoneOK

LEMMA BeginKeeps ==
    ASSUME TxInv, NEW q \in Requests, NEW kind, NEW at, NEW todo \in Seq(Tasks),
           NEW s \in Sessions \cup {None}, NEW tk \in Tasks \cup {None}, NEW arg,
           Begin(q, kind, at, todo, s, tk, arg),
           \/ kind = "update" /\ at = "user" /\ tk \in Tasks /\ arg \in TaskStatuses
           \/ kind = "complete" /\ at = "user" /\ arg = "done"
           \/ kind = "delete" /\ at = "task" /\ arg = "none"
           \/ kind = "start" /\ at = "user" /\ arg = "none"
           \/ /\ kind = "finish" /\ at = "user" /\ s \in Sessions /\ arg \in FinishArgs
              /\ session[s].status # "unborn"
    PROVE  TxInv' /\ [Next]_vars
  <1> USE DEF TxInv
  <1> DEFINE age == IF s = None THEN Fresh ELSE session[s].age
             e == [NoTx EXCEPT !.kind = kind, !.at = at, !.todo = todo, !.s = s, !.tk = tk,
                               !.arg = arg, !.age = age]
  <1>1. age \in Ages /\ s \in Sessions => age \in Nat /\ age <= session[s].age
    BY DEF Accounts, TypeOK, SessionType, Ages, Fresh
  <1>2. age \in Ages
    BY DEF Accounts, TypeOK, SessionType, Ages, Fresh
  <1>3. /\ tx[q] = NoTx /\ Becomes(q, e) /\ UNCHANGED <<vars, locks>>
    BY DEF Begin, Becomes
  <1>4. kind \in Kinds /\ at \in Stages /\ arg \in Args
    BY DEF Kinds, Stages, Args, TaskStatuses
  <1>5. UNCHANGED <<userLock, taskLock, sessionLock>>
    BY <1>3 DEF locks
  <1> HIDE DEF age
  <1>6. /\ e \in TxType /\ e.kind = kind /\ e.at = at /\ e.s = s /\ e.tk = tk /\ e.arg = arg
        /\ e.age = age /\ e.rows = NoTx.rows /\ e.held = NoTx.held
    BY <1>2, <1>4, NoTxIs DEF TxType
  <1> HIDE DEF e
  <1>7. /\ tx' \in [Requests -> TxType] /\ tx'[q] = e
        /\ \A r \in Requests \ {q} : tx'[r] = tx[r]
    BY <1>3, <1>6, TxWritten
  <1>8. /\ userLock # q /\ \A t \in Tasks : taskLock[t] # q
        /\ \A x \in Sessions : sessionLock[x] # q
    BY <1>3, NoTxIs, NoTxHoldsNothing
  <1>9. TxTyped'
    BY <1>5, <1>7 DEF TxTyped
  <1>10. \A r \in Requests \ {q} : SameLocks(r)
    BY <1>5 DEF SameLocks
  <1>11. UNCHANGED session
    BY <1>3 DEF vars
  <1>12. TxOK(q)'
    <2>1. UserOK(q)' /\ RowsOK(q)' /\ SessionsOK(q)'
      BY <1>5, <1>6, <1>7, <1>8, NoTxIs DEF UserOK, RowsOK, SessionsOK
    <2>2. NoneOK(q)' /\ UpdateOK(q)' /\ CompleteOK(q)' /\ StartOK(q)'
      BY <1>6, <1>7, NoTxIs DEF NoneOK, UpdateOK, CompleteOK, StartOK
    <2>3. DeleteOK(q)'
      BY <1>6, <1>7, NoTxIs DEF DeleteOK
    <2>4. FinishOK(q)'
      BY <1>1, <1>2, <1>6, <1>7, <1>11, NoTxIs DEF FinishOK
    <2>5. QED
      BY <2>1, <2>2, <2>3, <2>4 DEF TxOK
  <1>13. QED
    BY <1>3, <1>7, <1>9, <1>10, <1>12, LockKeeps

LEMMA OrdersAreSequences ==
    ASSUME NEW T \in SUBSET Tasks, NEW order \in SetToSeqs(T)
    PROVE  order \in Seq(Tasks)
  <1>1. Cardinality(T) \in Nat
    BY TaskCount
  <1>2. order \in [1..Cardinality(T) -> T]
    BY DEF SetToSeqs
  <1>3. QED
    BY <1>1, <1>2

LEMMA BeginAnyKeeps ==
    ASSUME TxInv, NEW q \in Requests, BeginAny(q)
    PROVE  TxInv' /\ [Next]_vars
  <1>1. ASSUME NEW t \in Live, NEW status \in TaskStatuses, BeginUpdate(q, t, status)
        PROVE  TxInv' /\ [Next]_vars
    <2>1. t \in Tasks /\ <<t>> \in Seq(Tasks)
      BY DEF Live
    <2>2. QED
      BY <1>1, <2>1, BeginKeeps DEF BeginUpdate
  <1>2. ASSUME NEW T \in SUBSET Live, NEW order \in SetToSeqs(T),
               BeginComplete(q, order) \/ BeginDelete(q, order)
        PROVE  TxInv' /\ [Next]_vars
    <2>1. order \in Seq(Tasks)
      BY OrdersAreSequences DEF Live
    <2>2. CASE BeginComplete(q, order)
      BY <2>1, <2>2, BeginKeeps DEF BeginComplete
    <2>3. CASE BeginDelete(q, order)
      BY <2>1, <2>3, BeginKeeps DEF BeginDelete
    <2>4. QED
      BY <1>2, <2>2, <2>3
  <1>3. ASSUME NEW tk \in Live \cup {None}, BeginStart(q, tk)
        PROVE  TxInv' /\ [Next]_vars
    <2> DEFINE todo == IF tk = None THEN <<>> ELSE <<tk>>
    <2>1. tk \in Tasks \cup {None} /\ todo \in Seq(Tasks)
      BY DEF Live
    <2>2. Begin(q, "start", "user", todo, None, tk, "none")
      BY <1>3 DEF BeginStart
    <2> HIDE DEF todo
    <2>3. QED
      BY <2>1, <2>2, BeginKeeps
  <1>4. ASSUME NEW s \in Sessions, NEW arg \in FinishArgs,
               session[s].status # "unborn", BeginFinish(q, s, arg)
        PROVE  TxInv' /\ [Next]_vars
    <2>1. <<>> \in Seq(Tasks)
      BY EmptyRows
    <2>2. QED
      BY <1>4, <2>1, BeginKeeps DEF BeginFinish
  <1>5. QED
    BY <1>1, <1>2, <1>3, <1>4 DEF BeginAny

-----------------------------------------------------------------------------
(* Locks. *)

LEMMA ReadRowIs ==
    ASSUME TypeOK, NEW rows \in RowMaps, NEW t \in Tasks
    PROVE  /\ ReadRow(rows, t) \in RowMaps
           /\ DOMAIN ReadRow(rows, t) = DOMAIN rows \cup {t}
           /\ ReadRow(rows, t)[t] = task[t]
           /\ \A u \in DOMAIN rows \ {t} : ReadRow(rows, t)[u] = rows[u]
  <1>1. PICK T \in SUBSET Tasks : rows \in [T -> TaskType]
    BY DEF RowMaps
  <1>2. task[t] \in TaskType
    BY DEF TypeOK
  <1>3. ReadRow(rows, t) \in [T \cup {t} -> TaskType]
    BY <1>1, <1>2 DEF ReadRow
  <1>4. T \cup {t} \in SUBSET Tasks
    OBVIOUS
  <1>5. ReadRow(rows, t) \in RowMaps
    BY <1>3, <1>4 DEF RowMaps
  <1>6. QED
    BY <1>1, <1>5 DEF ReadRow

\* A business action whose first step is ahead holds no lock.
LEMMA UserFirst ==
    ASSUME TxInv, NEW q \in Requests, tx[q].at = "user"
    PROVE  /\ userLock # q /\ DOMAIN tx[q].rows = {}
           /\ \A t \in Tasks : taskLock[t] # q
           /\ \A s \in Sessions : sessionLock[s] # q
           /\ tx[q].kind \in {"update", "complete", "start", "finish"}
  <1>1. TxOK(q) /\ tx[q].kind \in Kinds
    BY TxFields DEF TxInv, TxType
  <1>3. CASE tx[q].kind = "none"
    BY <1>1, <1>3 DEF TxOK, NoneOK
  <1>4. CASE tx[q].kind \in {"update", "complete", "start", "finish"}
    BY <1>1, <1>4 DEF TxOK, UserOK, RowsOK, SessionsOK, UpdateOK, CompleteOK, StartOK, FinishOK
  <1>5. CASE tx[q].kind = "delete"
    BY <1>1, <1>5 DEF TxOK, DeleteOK
  <1>6. QED
    BY <1>1, <1>3, <1>4, <1>5 DEF Kinds

\* The step that takes the user's lock.
LEMMA UserTaken ==
    ASSUME TxInv, NEW q \in Requests, LockUser(q), NEW e \in TxType,
           Becomes(q, e),
           e.kind = tx[q].kind, e.at # "user", e.rows = tx[q].rows
    PROVE  /\ UNCHANGED vars /\ TxTyped'
           /\ UserOK(q)' /\ RowsOK(q)' /\ SessionsOK(q)'
           /\ tx'[q] = e /\ DOMAIN tx[q].rows = {}
           /\ \A r \in Requests \ {q} : tx'[r] = tx[r] /\ SameLocks(r)
  <1> USE DEF TxInv
  <1>1. /\ tx' \in [Requests -> TxType] /\ tx'[q] = e
        /\ \A r \in Requests \ {q} : tx'[r] = tx[r]
    BY TxWritten
  <1>2. /\ UNCHANGED <<vars, taskLock, sessionLock>> /\ userLock' = q
        /\ userLock \in {NoOne, q} /\ tx[q].at = "user"
    BY DEF LockUser, Free
  <1>3. TxTyped'
    BY <1>1, <1>2 DEF TxTyped
  <1>4. \A r \in Requests \ {q} : SameLocks(r)
    BY <1>2, TxFields DEF SameLocks
  <1>5. UserOK(q)' /\ RowsOK(q)' /\ SessionsOK(q)'
    BY <1>1, <1>2, UserFirst DEF UserOK, RowsOK, SessionsOK
  <1>6. QED
    BY <1>1, <1>2, <1>3, <1>4, <1>5, UserFirst

\* The step that takes the lock of a task and reads its row, or starts on it.
LEMMA TaskTaken ==
    ASSUME TxInv, NEW q \in Requests, NEW t \in Live, TakeTask(q, t), NEW e \in TxType,
           Becomes(q, e),
           tx[q].at = "task", e.kind = tx[q].kind, e.held = tx[q].held, e.at # "user",
           \/ e.rows = ReadRow(tx[q].rows, t) /\ e.kind # "start"
           \/ e.rows = tx[q].rows /\ e.kind = "start" /\ e.at = "commit" /\ e.tk = t
    PROVE  /\ UNCHANGED <<vars, sessionLock>> /\ TxTyped'
           /\ UserOK(q)' /\ RowsOK(q)' /\ SessionsOK(q)'
           /\ tx'[q] = e /\ taskLock'[t] = q
           /\ \A r \in Requests \ {q} : tx'[r] = tx[r] /\ SameLocks(r)
  <1> USE DEF TxInv
  <1>1. /\ tx' \in [Requests -> TxType] /\ tx'[q] = e
        /\ \A r \in Requests \ {q} : tx'[r] = tx[r]
    BY TxWritten
  <1>2. /\ UNCHANGED <<vars, userLock, sessionLock>>
        /\ taskLock' = [taskLock EXCEPT ![t] = q] /\ taskLock[t] \in {NoOne, q} /\ t \in Tasks
    BY DEF TakeTask, Free, Live
  <1>3. TxTyped'
    BY <1>1, <1>2 DEF TxTyped
  <1>4. \A r \in Requests \ {q} : SameLocks(r)
    BY <1>2, TxFields DEF SameLocks, TxTyped
  <1>5. UserOK(q)' /\ SessionsOK(q)'
    <2>1. UserOK(q)'
      BY <1>1, <1>2 DEF TxOK, UserOK
    <2>2. Active' = Active
      BY <1>2 DEF vars, Active
    <2>3. SessionsOK(q)'
      BY <1>1, <1>2, <2>2 DEF TxOK, SessionsOK
    <2>4. QED
      BY <2>1, <2>3
  <1>6. RowsOK(q)'
    <2>1. Live' = Live /\ task' = task
      BY <1>2 DEF vars, Live
    <2>2. /\ taskLock'[t] = q
          /\ \A u \in Tasks \ {t} : taskLock'[u] = taskLock[u]
      BY <1>2 DEF TxTyped
    <2>3. tx[q].rows \in RowMaps /\ TypeOK /\ DOMAIN tx[q].rows \subseteq Tasks
      BY TxFields DEF TxType, Accounts
    <2>4. RowsOK(q)
      BY DEF TxOK
    <2>5. CASE e.rows = ReadRow(tx[q].rows, t) /\ e.kind # "start"
      <3> DEFINE old == tx[q].rows
                 new == ReadRow(old, t)
      <3>0. old \in RowMaps /\ TypeOK
        BY <2>3
      <3> HIDE DEF old
      <3>01. /\ DOMAIN new = DOMAIN old \cup {t} /\ new[t] = task[t]
             /\ \A u \in DOMAIN old \ {t} : new[u] = old[u]
        BY <1>2, <3>0, ReadRowIs
      <3>02. e.rows = new
        BY <2>5 DEF old
      <3> HIDE DEF new
      <3>1. /\ DOMAIN e.rows = DOMAIN tx[q].rows \cup {t} /\ e.rows[t] = task[t]
            /\ \A u \in DOMAIN tx[q].rows \ {t} : e.rows[u] = tx[q].rows[u]
        BY <3>01, <3>02 DEF old
      <3>2. \A u \in DOMAIN e.rows : taskLock'[u] = q /\ e.rows[u] = task[u]
        BY <2>2, <2>3, <2>4, <3>1 DEF RowsOK
      <3>3. \A u \in Tasks : taskLock'[u] = q => u \in Live /\ u \in DOMAIN e.rows
        BY <2>2, <2>4, <2>5, <3>1 DEF RowsOK
      <3>4. QED
        BY <1>1, <2>1, <3>2, <3>3 DEF RowsOK
    <2>6. CASE e.rows = tx[q].rows /\ e.kind = "start" /\ e.at = "commit" /\ e.tk = t
      BY <1>1, <2>1, <2>2, <2>3, <2>4, <2>6 DEF RowsOK
    <2>7. QED
      BY <2>5, <2>6
  <1>7. QED
    BY <1>1, <1>2, <1>3, <1>4, <1>5, <1>6 DEF TxTyped

\* A step that takes no lock and changes no row a transaction has read.
LEMMA NothingTaken ==
    ASSUME TxInv, NEW q \in Requests, UNCHANGED <<vars, userLock, taskLock, sessionLock>>,
           NEW e \in TxType, Becomes(q, e),
           e.kind = tx[q].kind, e.rows = tx[q].rows, e.held = tx[q].held,
           e.kind \in {"complete", "delete"} \/ (e.kind = "finish" /\ tx[q].at = "task"),
           tx[q].at # "user", e.at # "user"
    PROVE  /\ TxTyped'
           /\ UserOK(q)' /\ RowsOK(q)' /\ SessionsOK(q)'
           /\ tx'[q] = e
           /\ \A r \in Requests \ {q} : tx'[r] = tx[r] /\ SameLocks(r)
  <1> USE DEF TxInv
  <1>1. /\ tx' \in [Requests -> TxType] /\ tx'[q] = e
        /\ \A r \in Requests \ {q} : tx'[r] = tx[r]
    BY TxWritten
  <1>2. TxTyped'
    BY <1>1 DEF TxTyped
  <1>3. \A r \in Requests \ {q} : SameLocks(r)
    BY DEF SameLocks
  <1>4. Live' = Live /\ Active' = Active /\ task' = task
    BY DEF vars, Live, Active
  <1>5. TxOK(q)
    OBVIOUS
  <1>6. UserOK(q)'
    BY <1>1, <1>5 DEF TxOK, UserOK
  <1>7. RowsOK(q)'
    BY <1>1, <1>4, <1>5 DEF TxOK, RowsOK
  <1>8. SessionsOK(q)'
    BY <1>1, <1>4, <1>5 DEF TxOK, SessionsOK
  <1>9. QED
    BY <1>1, <1>2, <1>3, <1>6, <1>7, <1>8

\* Only the facts of a transaction's own kind say anything of it.
LEMMA ByKind ==
    ASSUME NEW q \in Requests,
           \/ tx'[q].kind = "update" /\ UpdateOK(q)'
           \/ tx'[q].kind = "complete" /\ CompleteOK(q)'
           \/ tx'[q].kind = "delete" /\ DeleteOK(q)'
           \/ tx'[q].kind = "start" /\ StartOK(q)'
           \/ tx'[q].kind = "finish" /\ FinishOK(q)',
           UserOK(q)', RowsOK(q)', SessionsOK(q)'
    PROVE  TxOK(q)'
  BY DEF TxOK, NoneOK, UpdateOK, CompleteOK, DeleteOK, StartOK, FinishOK

-----------------------------------------------------------------------------
(* The first step of each business action: the user's lock. *)

LEMMA UpdateUserKeeps ==
    ASSUME TxInv, NEW q \in Requests, UpdateUser(q)
    PROVE  TxInv' /\ [Next]_vars
  <1> USE DEF TxInv
  <1> DEFINE x == tx[q]
             e == [x EXCEPT !.at = "task"]
  <1>1. x \in TxType /\ x.kind = "update" /\ UpdateOK(q) /\ x.at = "user"
    BY TxFields DEF UpdateUser, LockUser, TxOK
  <1>2. Becomes(q, e)
    BY DEF UpdateUser, TxTyped, Becomes
  <1>3. "task" \in Stages
    BY DEF Stages
  <1> HIDE DEF x
  <1>4. /\ e \in TxType /\ e.kind = x.kind /\ e.at = "task" /\ e.tk = x.tk /\ e.rows = x.rows
        /\ e.arg = x.arg
    BY <1>1, <1>3 DEF TxType
  <1> HIDE DEF e
  <1>5. /\ UNCHANGED vars /\ TxTyped'
        /\ UserOK(q)' /\ RowsOK(q)' /\ SessionsOK(q)'
        /\ tx'[q] = e /\ DOMAIN tx[q].rows = {}
        /\ \A r \in Requests \ {q} : tx'[r] = tx[r] /\ SameLocks(r)
    BY <1>2, <1>4, UserTaken DEF UpdateUser, x
  <1>6. UpdateOK(q)'
    BY <1>1, <1>4, <1>5 DEF UpdateOK, x
  <1>7. TxOK(q)'
    BY <1>1, <1>4, <1>5, <1>6, ByKind
  <1>8. QED
    BY <1>5, <1>7, LockKeeps

LEMMA CompleteUserKeeps ==
    ASSUME TxInv, NEW q \in Requests, CompleteUser(q)
    PROVE  TxInv' /\ [Next]_vars
  <1> USE DEF TxInv
  <1> DEFINE x == tx[q]
             e == [x EXCEPT !.at = "task"]
  <1>1. x \in TxType /\ x.kind = "complete" /\ CompleteOK(q)
    BY TxFields DEF CompleteUser, LockUser, TxOK
  <1>2. Becomes(q, e)
    BY DEF CompleteUser, TxTyped, Becomes
  <1>3. "task" \in Stages
    BY DEF Stages
  <1> HIDE DEF x
  <1>4. /\ e \in TxType /\ e.kind = x.kind /\ e.at = "task" /\ e.rows = x.rows
    BY <1>1, <1>3 DEF TxType
  <1> HIDE DEF e
  <1>5. /\ UNCHANGED vars /\ TxTyped'
        /\ UserOK(q)' /\ RowsOK(q)' /\ SessionsOK(q)'
        /\ tx'[q] = e /\ DOMAIN tx[q].rows = {}
        /\ \A r \in Requests \ {q} : tx'[r] = tx[r] /\ SameLocks(r)
    BY <1>2, <1>4, UserTaken DEF CompleteUser, x
  <1>6. CompleteOK(q)'
    BY <1>1, <1>4, <1>5 DEF CompleteOK, x
  <1>7. TxOK(q)'
    BY <1>1, <1>4, <1>5, <1>6, ByKind
  <1>8. QED
    BY <1>5, <1>7, LockKeeps

LEMMA StartUserKeeps ==
    ASSUME TxInv, NEW q \in Requests, StartUser(q)
    PROVE  TxInv' /\ [Next]_vars
  <1> USE DEF TxInv
  <1> DEFINE x == tx[q]
             at == IF x.tk = None THEN "commit" ELSE "task"
             e == [x EXCEPT !.at = at]
  <1>1. x \in TxType /\ x.kind = "start" /\ StartOK(q)
    BY TxFields DEF StartUser, LockUser, TxOK
  <1>2. Becomes(q, e)
    BY DEF StartUser, TxTyped, Becomes
  <1>3. at \in Stages /\ at # "user" /\ (at = "task" => x.tk # None)
        /\ (at = "commit" => x.tk = None) /\ at \in {"task", "commit"}
    BY DEF Stages
  <1> HIDE DEF x, at
  <1>4. /\ e \in TxType /\ e.kind = x.kind /\ e.at = at /\ e.rows = x.rows /\ e.tk = x.tk
    BY <1>1, <1>3 DEF TxType
  <1> HIDE DEF e
  <1>5. /\ UNCHANGED vars /\ TxTyped'
        /\ UserOK(q)' /\ RowsOK(q)' /\ SessionsOK(q)'
        /\ tx'[q] = e /\ DOMAIN tx[q].rows = {}
        /\ \A r \in Requests \ {q} : tx'[r] = tx[r] /\ SameLocks(r)
    BY <1>2, <1>3, <1>4, UserTaken DEF StartUser, x
  <1>51. x.tk \in Tasks \cup {None}
    BY <1>1 DEF TxType
  <1>6. StartOK(q)'
    BY <1>1, <1>3, <1>4, <1>5, <1>51 DEF StartOK, x
  <1>7. TxOK(q)'
    BY <1>1, <1>4, <1>5, <1>6, ByKind
  <1>8. QED
    BY <1>5, <1>7, LockKeeps

LEMMA FinishUserKeeps ==
    ASSUME TxInv, NEW q \in Requests, FinishUser(q)
    PROVE  TxInv' /\ [Next]_vars
  <1> USE DEF TxInv
  <1> DEFINE x == tx[q]
             tk == session[x.s].task
             at == IF tk = None THEN "session" ELSE "task"
             e == [x EXCEPT !.at = at, !.tk = tk]
  <1>1. x \in TxType /\ x.kind = "finish" /\ FinishOK(q) /\ x.at = "user"
    BY TxFields DEF FinishUser, LockUser, TxOK
  <1>2. Becomes(q, e)
    BY DEF FinishUser, TxTyped, Becomes
  <1>21. x.s \in Sessions
    BY <1>1 DEF FinishOK
  <1>22. tk \in Tasks \cup {None}
    BY <1>21 DEF Accounts, TypeOK, SessionType
  <1>3. at \in Stages /\ at # "user" /\ (at = "task" => tk # None)
        /\ (at = "session" => tk = None) /\ at \in {"task", "session"}
    BY DEF Stages
  <1>31. tk = session[x.s].task
    OBVIOUS
  <1> HIDE DEF x, at, tk
  <1>4. /\ e \in TxType /\ e.kind = x.kind /\ e.at = at /\ e.rows = x.rows /\ e.tk = tk
        /\ e.s = x.s /\ e.arg = x.arg /\ e.age = x.age
    BY <1>1, <1>22, <1>3 DEF TxType
  <1> HIDE DEF e
  <1>5. /\ UNCHANGED vars /\ TxTyped'
        /\ UserOK(q)' /\ RowsOK(q)' /\ SessionsOK(q)'
        /\ tx'[q] = e /\ DOMAIN tx[q].rows = {}
        /\ \A r \in Requests \ {q} : tx'[r] = tx[r] /\ SameLocks(r)
    BY <1>2, <1>3, <1>4, UserTaken DEF FinishUser, x
  <1>6. FinishOK(q)'
    <2>1. session' = session /\ Active' = Active
      BY <1>5 DEF vars, Active
    <2>2. /\ x.s \in Sessions /\ x.arg \in FinishArgs /\ session[x.s].status # "unborn"
          /\ x.s \in Active => x.age <= session[x.s].age
      BY <1>1 DEF FinishOK, x
    <2>3. QED
      BY <1>22, <1>3, <1>31, <1>4, <1>5, <2>1, <2>2 DEF FinishOK, x
  <1>7. TxOK(q)'
    BY <1>1, <1>4, <1>5, <1>6, ByKind
  <1>8. QED
    BY <1>5, <1>7, LockKeeps

-----------------------------------------------------------------------------
(* The locks of tasks. *)

LEMMA UpdateLockKeeps ==
    ASSUME TxInv, NEW q \in Requests, UpdateLock(q)
    PROVE  TxInv' /\ [Next]_vars
  <1> USE DEF TxInv
  <1> DEFINE x == tx[q]
             t == x.tk
             rows == ReadRow(x.rows, t)
             e == [x EXCEPT !.at = "commit", !.rows = rows]
  <1>1. x \in TxType /\ x.kind = "update" /\ UpdateOK(q) /\ x.at = "task" /\ TypeOK
    BY TxFields DEF UpdateLock, TxOK, Accounts
  <1>2. Becomes(q, e) /\ t \in Live /\ t \in Tasks /\ TakeTask(q, t)
    BY DEF UpdateLock, TxTyped, Live, Becomes
  <1>3. "commit" \in Stages
    BY DEF Stages
  <1>31. x.rows \in RowMaps /\ DOMAIN x.rows = {}
    BY <1>1 DEF TxType, UpdateOK
  <1>32. rows \in RowMaps /\ DOMAIN rows = {t}
    BY <1>1, <1>2, <1>31, ReadRowIs
  <1>33. t = x.tk /\ rows = ReadRow(x.rows, t)
    OBVIOUS
  <1> HIDE DEF x, rows
  <1>4. /\ e \in TxType /\ e.kind = x.kind /\ e.at = "commit" /\ e.tk = x.tk /\ e.rows = rows
        /\ e.arg = x.arg /\ e.held = x.held
    BY <1>1, <1>3, <1>32 DEF TxType
  <1> HIDE DEF e, t
  <1>5. /\ UNCHANGED <<vars, sessionLock>> /\ TxTyped'
        /\ UserOK(q)' /\ RowsOK(q)' /\ SessionsOK(q)'
        /\ tx'[q] = e /\ taskLock'[t] = q
        /\ \A r \in Requests \ {q} : tx'[r] = tx[r] /\ SameLocks(r)
    BY <1>1, <1>2, <1>33, <1>4, TaskTaken DEF x
  <1>6. UpdateOK(q)'
    BY <1>1, <1>2, <1>32, <1>33, <1>4, <1>5 DEF UpdateOK, x
  <1>7. TxOK(q)'
    BY <1>1, <1>4, <1>5, <1>6, ByKind
  <1>8. QED
    BY <1>5, <1>7, LockKeeps

LEMMA CompleteLockKeeps ==
    ASSUME TxInv, NEW q \in Requests, CompleteLock(q)
    PROVE  TxInv' /\ [Next]_vars
  <1> USE DEF TxInv
  <1> DEFINE x == tx[q]
             t == Head(x.todo)
             rest == Tail(x.todo)
             rows == ReadRow(x.rows, t)
  <1>1. x \in TxType /\ x.kind = "complete" /\ CompleteOK(q) /\ x.at = "task" /\ TypeOK
    BY TxFields DEF CompleteLock, TxOK, Accounts
  <1>2. x.todo \in Seq(Tasks) /\ x.todo # <<>> /\ x.rows \in RowMaps
    BY <1>1 DEF CompleteLock, TxType
  <1>3. t \in Tasks /\ rest \in Seq(Tasks)
    BY <1>2
  <1>4. CASE Matching(t) /\ TakeTask(q, t)
             /\ tx' = [tx EXCEPT ![q].todo = Tail(@), ![q].rows = ReadRow(@, t)]
    <2> DEFINE e == [x EXCEPT !.todo = rest, !.rows = rows]
    <2>1. Becomes(q, e) /\ t \in Live /\ task[t].status # "done"
          /\ TakeTask(q, t)
      BY <1>4 DEF TxTyped, Matching, Becomes
    <2>2. /\ rows \in RowMaps /\ DOMAIN rows = DOMAIN x.rows \cup {t} /\ rows[t] = task[t]
          /\ \A u \in DOMAIN x.rows \ {t} : rows[u] = x.rows[u]
      BY <1>1, <1>2, <1>3, ReadRowIs
    <2>3. rows = ReadRow(x.rows, t)
      OBVIOUS
    <2> HIDE DEF x, rows, rest
    <2>4. /\ e \in TxType /\ e.kind = x.kind /\ e.at = x.at /\ e.rows = rows
          /\ e.held = x.held
      BY <1>1, <1>3, <2>2 DEF TxType
    <2> HIDE DEF e, t
    <2>5. /\ UNCHANGED <<vars, sessionLock>> /\ TxTyped'
          /\ UserOK(q)' /\ RowsOK(q)' /\ SessionsOK(q)'
          /\ tx'[q] = e
          /\ \A r \in Requests \ {q} : tx'[r] = tx[r] /\ SameLocks(r)
      <3>1. /\ tx[q].at = "task" /\ e.kind = tx[q].kind /\ e.held = tx[q].held /\ e.at # "user"
            /\ e.rows = ReadRow(tx[q].rows, t) /\ e.kind # "start"
        BY <1>1, <2>3, <2>4 DEF x
      <3>2. QED
        BY <2>1, <2>4, <3>1, TaskTaken
    <2>6. \A u \in DOMAIN rows : rows[u].status # "done"
      BY <1>1, <2>1, <2>2 DEF CompleteOK, x
    <2>7. CompleteOK(q)'
      BY <1>1, <2>4, <2>5, <2>6 DEF CompleteOK
    <2>8. TxOK(q)'
      BY <1>1, <2>4, <2>5, <2>7, ByKind
    <2>9. QED
      BY <2>5, <2>8, LockKeeps
  <1>5. CASE tx' = [tx EXCEPT ![q].todo = Tail(@)] /\ UNCHANGED <<vars, locks, begun>>
    <2> DEFINE e == [x EXCEPT !.todo = rest]
    <2>1. Becomes(q, e) /\ UNCHANGED <<vars, userLock, taskLock, sessionLock>>
      BY <1>5 DEF TxTyped, locks, Becomes
    <2> HIDE DEF x, rest
    <2>4. /\ e \in TxType /\ e.kind = x.kind /\ e.at = x.at /\ e.rows = x.rows
          /\ e.held = x.held
      BY <1>1, <1>3 DEF TxType
    <2> HIDE DEF e
    <2>5. /\ UNCHANGED vars /\ TxTyped'
          /\ UserOK(q)' /\ RowsOK(q)' /\ SessionsOK(q)'
          /\ tx'[q] = e
          /\ \A r \in Requests \ {q} : tx'[r] = tx[r] /\ SameLocks(r)
      BY <1>1, <2>1, <2>4, NothingTaken DEF x
    <2>7. CompleteOK(q)'
      BY <1>1, <2>4, <2>5 DEF CompleteOK, x
    <2>8. TxOK(q)'
      BY <1>1, <2>4, <2>5, <2>7, ByKind
    <2>9. QED
      BY <2>5, <2>8, LockKeeps
  <1>6. QED
    BY <1>4, <1>5 DEF CompleteLock

LEMMA StartLockKeeps ==
    ASSUME TxInv, NEW q \in Requests, StartLock(q)
    PROVE  TxInv' /\ [Next]_vars
  <1> USE DEF TxInv
  <1> DEFINE x == tx[q]
             t == x.tk
             e == [x EXCEPT !.at = "commit"]
  <1>1. x \in TxType /\ x.kind = "start" /\ StartOK(q) /\ x.at = "task" /\ TypeOK
    BY TxFields DEF StartLock, TxOK, Accounts
  <1>2. Becomes(q, e) /\ t \in Live /\ TakeTask(q, t)
    BY DEF StartLock, TxTyped, Becomes
  <1>3. "commit" \in Stages /\ t = x.tk
    BY DEF Stages
  <1> HIDE DEF x
  <1>4. /\ e \in TxType /\ e.kind = x.kind /\ e.at = "commit" /\ e.tk = x.tk /\ e.rows = x.rows
        /\ e.held = x.held
    BY <1>1, <1>3 DEF TxType
  <1> HIDE DEF e, t
  <1>5. /\ UNCHANGED <<vars, sessionLock>> /\ TxTyped'
        /\ UserOK(q)' /\ RowsOK(q)' /\ SessionsOK(q)'
        /\ tx'[q] = e /\ taskLock'[t] = q
        /\ \A r \in Requests \ {q} : tx'[r] = tx[r] /\ SameLocks(r)
    <2>1. /\ tx[q].at = "task" /\ e.kind = tx[q].kind /\ e.held = tx[q].held /\ e.at # "user"
          /\ e.rows = tx[q].rows /\ e.kind = "start" /\ e.at = "commit" /\ e.tk = t
      BY <1>1, <1>3, <1>4 DEF x
    <2>2. QED
      BY <1>2, <1>4, <2>1, TaskTaken
  <1>6. StartOK(q)'
    BY <1>1, <1>3, <1>4, <1>5 DEF StartOK, x
  <1>7. TxOK(q)'
    BY <1>1, <1>4, <1>5, <1>6, ByKind
  <1>8. QED
    BY <1>5, <1>7, LockKeeps

LEMMA FinishLockKeeps ==
    ASSUME TxInv, NEW q \in Requests, FinishLock(q)
    PROVE  TxInv' /\ [Next]_vars
  <1> USE DEF TxInv
  <1> DEFINE x == tx[q]
             t == x.tk
             rows == IF t \in Live THEN ReadRow(x.rows, t) ELSE x.rows
             e == [x EXCEPT !.at = "session", !.rows = rows]
  <1>1. x \in TxType /\ x.kind = "finish" /\ FinishOK(q) /\ x.at = "task" /\ TypeOK
    BY TxFields DEF FinishLock, TxOK, Accounts
  <1>2. Becomes(q, e) /\ TakeTask(q, t)
    BY DEF FinishLock, TxTyped, Becomes
  <1>3. "session" \in Stages /\ t = x.tk /\ t \in Tasks
        /\ (t \in Live => rows = ReadRow(x.rows, t)) /\ (t \notin Live => rows = x.rows)
    BY <1>1 DEF Stages, FinishOK
  <1>31. x.rows \in RowMaps /\ DOMAIN x.rows = {}
    BY <1>1 DEF TxType, FinishOK
  <1>32. rows \in RowMaps /\ DOMAIN rows = IF t \in Live THEN {t} ELSE {}
    <2>1. CASE t \in Live
      <3>1. rows = ReadRow(x.rows, t)
        BY <2>1
      <3> HIDE DEF rows, x, t
      <3>2. x.rows \in RowMaps /\ t \in Tasks /\ TypeOK
        BY <1>1, <1>3, <1>31
      <3>3. rows \in RowMaps /\ DOMAIN rows = DOMAIN x.rows \cup {t}
        BY <3>1, <3>2, ReadRowIs
      <3>4. QED
        BY <1>31, <2>1, <3>3
    <2>2. CASE t \notin Live
      BY <1>31, <2>2
    <2>3. QED
      BY <2>1, <2>2
  <1> HIDE DEF x, rows
  <1>4. /\ e \in TxType /\ e.kind = x.kind /\ e.at = "session" /\ e.rows = rows
        /\ e.s = x.s /\ e.arg = x.arg /\ e.age = x.age /\ e.held = x.held
    BY <1>1, <1>3, <1>32 DEF TxType
  <1> HIDE DEF e, t
  <1>5. /\ UNCHANGED vars /\ TxTyped'
        /\ UserOK(q)' /\ RowsOK(q)' /\ SessionsOK(q)'
        /\ tx'[q] = e
        /\ \A r \in Requests \ {q} : tx'[r] = tx[r] /\ SameLocks(r)
    <2>1. CASE t \in Live
      BY <1>1, <1>2, <1>3, <1>4, <2>1, TaskTaken DEF x
    <2>2. CASE t \notin Live
      <3>1. UNCHANGED <<vars, userLock, taskLock, sessionLock>>
        BY <1>2, <2>2 DEF TakeTask
      <3>2. QED
        BY <1>1, <1>2, <1>3, <1>4, <2>2, <3>1, NothingTaken DEF x
    <2>3. QED
      BY <2>1, <2>2
  <1>6. FinishOK(q)'
    <2>1. session' = session /\ Active' = Active
      BY <1>5 DEF vars, Active
    <2>2. /\ x.s \in Sessions /\ x.arg \in FinishArgs /\ session[x.s].status # "unborn"
          /\ x.s \in Active => x.age <= session[x.s].age
          /\ session[x.s].task \in {t, None}
      BY <1>1, <1>3 DEF FinishOK, x
    <2>3. session[x.s].task \in Live \cup {None}
      BY <2>2 DEF Accounts, FocusRefers
    <2>4. session[x.s].task \in DOMAIN rows \cup {None}
      BY <1>32, <2>2, <2>3
    <2>5. QED
      BY <1>4, <1>5, <2>1, <2>2, <2>4 DEF FinishOK, x
  <1>7. TxOK(q)'
    BY <1>1, <1>4, <1>5, <1>6, ByKind
  <1>8. QED
    BY <1>5, <1>7, LockKeeps

LEMMA DeleteLockKeeps ==
    ASSUME TxInv, NEW q \in Requests, DeleteLock(q)
    PROVE  TxInv' /\ [Next]_vars
  <1> USE DEF TxInv
  <1> DEFINE x == tx[q]
             t == Head(x.todo)
             rest == Tail(x.todo)
             rows == IF t \in Live THEN ReadRow(x.rows, t) ELSE x.rows
             at == IF t \in Live THEN "session" ELSE x.at
             e == [x EXCEPT !.todo = rest, !.at = at, !.tk = t, !.rows = rows]
  <1>1. x \in TxType /\ x.kind = "delete" /\ DeleteOK(q) /\ x.at = "task" /\ TypeOK
    BY TxFields DEF DeleteLock, TxOK, Accounts
  <1>2. x.todo \in Seq(Tasks) /\ x.todo # <<>> /\ x.rows \in RowMaps
    BY <1>1 DEF DeleteLock, TxType
  <1>3. t \in Tasks /\ rest \in Seq(Tasks)
    BY <1>2
  <1>4. Becomes(q, e) /\ TakeTask(q, t)
    BY DEF DeleteLock, TxTyped, Becomes
  <1>5. (t \in Live => rows = ReadRow(x.rows, t)) /\ (t \notin Live => rows = x.rows)
    OBVIOUS
  <1>51. at \in {"task", "session"} /\ at \in Stages /\ (t \in Live => at = "session")
         /\ (t \notin Live => at = "task")
    BY <1>1 DEF Stages
  <1>6. rows \in RowMaps /\ DOMAIN rows = IF t \in Live THEN DOMAIN x.rows \cup {t} ELSE DOMAIN x.rows
    BY <1>1, <1>2, <1>3, <1>5, ReadRowIs
  <1> HIDE DEF x, rows, rest, at
  <1>7. /\ e \in TxType /\ e.kind = x.kind /\ e.at = at /\ e.tk = t /\ e.rows = rows
        /\ e.held = x.held
    BY <1>1, <1>3, <1>51, <1>6 DEF TxType
  <1> HIDE DEF e, t
  <1>8. /\ UNCHANGED <<vars, sessionLock>> /\ TxTyped'
        /\ UserOK(q)' /\ RowsOK(q)' /\ SessionsOK(q)'
        /\ tx'[q] = e
        /\ \A r \in Requests \ {q} : tx'[r] = tx[r] /\ SameLocks(r)
    <2>1. CASE t \in Live
      BY <1>1, <1>4, <1>5, <1>51, <1>7, <2>1, TaskTaken DEF x
    <2>2. CASE t \notin Live
      <3>1. UNCHANGED <<vars, userLock, taskLock, sessionLock>>
        BY <1>4, <2>2 DEF TakeTask
      <3>2. QED
        BY <1>1, <1>4, <1>5, <1>51, <1>7, <2>2, <3>1, NothingTaken DEF x
    <2>3. QED
      BY <2>1, <2>2
  <1>9. DeleteOK(q)'
    <2>1. session' = session /\ Active' = Active /\ sessionLock' = sessionLock
      BY <1>8 DEF vars, Active
    <2>2. /\ \A s \in x.held : /\ s \in Active /\ sessionLock[s] = q
                               /\ session[s].task \in DOMAIN x.rows
          /\ \A s \in Active : session[s].task \in DOMAIN x.rows => s \in x.held
      BY <1>1 DEF DeleteOK, x
    <2>3. DOMAIN x.rows \subseteq DOMAIN rows /\ DOMAIN rows \subseteq DOMAIN x.rows \cup {t}
      BY <1>6
    <2>4. t \in Live => t \in DOMAIN rows
      BY <1>6
    <2>41. t \notin Live => DOMAIN rows = DOMAIN x.rows
      BY <1>6
    <2>5. \A s \in Active : session[s].task \in DOMAIN rows =>
            s \in x.held \/ (at = "session" /\ session[s].task = t)
      BY <1>51, <2>2, <2>3, <2>41
    <2>6. at = "session" => t \in DOMAIN rows
      BY <1>51, <2>4
    <2>7. QED
      BY <1>51, <1>7, <1>8, <2>1, <2>2, <2>3, <2>5, <2>6 DEF DeleteOK
  <1>10. TxOK(q)'
    BY <1>1, <1>7, <1>8, <1>9, ByKind
  <1>11. QED
    BY <1>8, <1>10, LockKeeps

-----------------------------------------------------------------------------
(* The locks of sessions. *)

LEMMA SessionTaken ==
    ASSUME TxInv, NEW q \in Requests, NEW s \in Active, TakeSession(q, s), NEW e \in TxType,
           Becomes(q, e), tx[q].at = "session",
           e.kind = tx[q].kind, e.rows = tx[q].rows, e.at # "user",
           \/ e.kind = "finish" /\ e.at = "commit" /\ e.s = s
           \/ e.kind = "delete" /\ e.held = tx[q].held \cup {s}
    PROVE  /\ UNCHANGED <<vars, taskLock>> /\ TxTyped'
           /\ UserOK(q)' /\ RowsOK(q)' /\ SessionsOK(q)'
           /\ tx'[q] = e /\ sessionLock'[s] = q
           /\ \A x \in Sessions \ {s} : sessionLock'[x] = sessionLock[x]
           /\ \A r \in Requests \ {q} : tx'[r] = tx[r] /\ SameLocks(r)
  <1> USE DEF TxInv
  <1>1. /\ tx' \in [Requests -> TxType] /\ tx'[q] = e
        /\ \A r \in Requests \ {q} : tx'[r] = tx[r]
    BY TxWritten
  <1>2. /\ UNCHANGED <<vars, userLock, taskLock>>
        /\ sessionLock' = [sessionLock EXCEPT ![s] = q] /\ sessionLock[s] \in {NoOne, q}
        /\ s \in Sessions
    BY DEF TakeSession, Free, Active
  <1>3. TxTyped'
    BY <1>1, <1>2 DEF TxTyped
  <1>4. \A r \in Requests \ {q} : SameLocks(r)
    BY <1>2, TxFields DEF SameLocks, TxTyped
  <1>5. Live' = Live /\ Active' = Active /\ task' = task
    BY <1>2 DEF vars, Live, Active
  <1>6. /\ sessionLock'[s] = q
        /\ \A x \in Sessions \ {s} : sessionLock'[x] = sessionLock[x]
    BY <1>2 DEF TxTyped
  <1>7. UserOK(q)'
    BY <1>1, <1>2 DEF TxOK, UserOK
  <1>8. RowsOK(q)'
    BY <1>1, <1>2, <1>5 DEF TxOK, RowsOK
  <1>9. SessionsOK(q)'
    <2>1. SessionsOK(q)
      BY DEF TxOK
    <2>2. CASE e.kind = "finish" /\ e.at = "commit" /\ e.s = s
      <3>1. \A x \in Sessions : sessionLock[x] # q
        BY <2>1, <2>2 DEF SessionsOK
      <3>2. QED
        BY <1>1, <1>5, <1>6, <2>2, <3>1 DEF SessionsOK
    <2>3. CASE e.kind = "delete" /\ e.held = tx[q].held \cup {s}
      BY <1>1, <1>5, <1>6, <2>1, <2>3 DEF SessionsOK
    <2>4. QED
      BY <2>2, <2>3
  <1>10. QED
    BY <1>1, <1>2, <1>3, <1>4, <1>6, <1>7, <1>8, <1>9

LEMMA DeleteAbandonKeeps ==
    ASSUME TxInv, NEW q \in Requests, DeleteAbandon(q)
    PROVE  TxInv' /\ [Next]_vars
  <1> USE DEF TxInv
  <1> DEFINE x == tx[q]
             attached == {s \in Active \ x.held : session[s].task = x.tk}
  <1>1. x \in TxType /\ x.kind = "delete" /\ DeleteOK(q) /\ x.at = "session"
    BY TxFields DEF DeleteAbandon, TxOK
  <1>2. /\ x.tk \in DOMAIN x.rows
        /\ \A s \in x.held : /\ s \in Active /\ sessionLock[s] = q
                             /\ session[s].task \in DOMAIN x.rows
        /\ \A s \in Active : session[s].task \in DOMAIN x.rows =>
              s \in x.held \/ session[s].task = x.tk
    BY <1>1 DEF DeleteOK, x
  <1>3. CASE attached = {} /\ tx' = [tx EXCEPT ![q].at = "task"]
             /\ UNCHANGED <<vars, locks, begun>>
    <2> DEFINE e == [x EXCEPT !.at = "task"]
    <2>1. Becomes(q, e) /\ UNCHANGED <<vars, userLock, taskLock, sessionLock>>
      BY <1>3 DEF TxTyped, Becomes, locks
    <2>2. \A s \in Active : session[s].task \in DOMAIN x.rows => s \in x.held
      BY <1>2, <1>3
    <2>3. "task" \in Stages
      BY DEF Stages
    <2> HIDE DEF x, attached
    <2>4. /\ e \in TxType /\ e.kind = x.kind /\ e.at = "task" /\ e.rows = x.rows
          /\ e.held = x.held
      BY <1>1, <2>3 DEF TxType
    <2> HIDE DEF e
    <2>5. /\ UNCHANGED vars /\ TxTyped'
          /\ UserOK(q)' /\ RowsOK(q)' /\ SessionsOK(q)'
          /\ tx'[q] = e
          /\ \A r \in Requests \ {q} : tx'[r] = tx[r] /\ SameLocks(r)
      BY <1>1, <2>1, <2>4, NothingTaken DEF x
    <2>6. session' = session /\ Active' = Active /\ sessionLock' = sessionLock
      BY <2>1 DEF vars, Active
    <2>7. DeleteOK(q)'
      BY <1>2, <2>2, <2>4, <2>5, <2>6 DEF DeleteOK
    <2>8. TxOK(q)'
      BY <1>1, <2>4, <2>5, <2>7, ByKind
    <2>9. QED
      BY <2>5, <2>8, LockKeeps
  <1>4. ASSUME NEW s \in attached, TakeSession(q, s),
               tx' = [tx EXCEPT ![q].held = @ \cup {s}]
        PROVE  TxInv' /\ [Next]_vars
    <2> DEFINE held == x.held \cup {s}
               e == [x EXCEPT !.held = held]
    <2>1. Becomes(q, e) /\ s \in Active /\ session[s].task = x.tk
      BY <1>4 DEF TxTyped, Becomes
    <2>2. x.held \subseteq Sessions /\ s \in Sessions
      BY <1>1, <2>1 DEF TxType, Active
    <2>21. held = x.held \cup {s} /\ held \subseteq Sessions
      BY <2>2
    <2> HIDE DEF x, attached, held
    <2>4. /\ e \in TxType /\ e.kind = x.kind /\ e.at = x.at /\ e.rows = x.rows
          /\ e.held = held /\ e.tk = x.tk
      BY <1>1, <2>21 DEF TxType
    <2> HIDE DEF e
    <2>5. /\ UNCHANGED <<vars, taskLock>> /\ TxTyped'
          /\ UserOK(q)' /\ RowsOK(q)' /\ SessionsOK(q)'
          /\ tx'[q] = e /\ sessionLock'[s] = q
          /\ \A y \in Sessions \ {s} : sessionLock'[y] = sessionLock[y]
          /\ \A r \in Requests \ {q} : tx'[r] = tx[r] /\ SameLocks(r)
      <3>1. /\ tx[q].at = "session" /\ e.kind = tx[q].kind /\ e.rows = tx[q].rows
            /\ e.at # "user" /\ e.kind = "delete" /\ e.held = tx[q].held \cup {s}
        BY <1>1, <2>21, <2>4 DEF x
      <3>2. QED
        BY <1>4, <2>1, <2>4, <3>1, SessionTaken
    <2>6. session' = session /\ Active' = Active
      BY <2>5 DEF vars, Active
    <2>7. \A y \in held : y \in Active /\ sessionLock'[y] = q /\ session[y].task \in DOMAIN x.rows
      BY <1>2, <2>1, <2>2, <2>21, <2>5
    <2>8. \A y \in Active : session[y].task \in DOMAIN x.rows =>
             y \in held \/ session[y].task = x.tk
      BY <1>2, <2>21
    <2>9. DeleteOK(q)'
      BY <1>1, <1>2, <2>4, <2>5, <2>6, <2>7, <2>8 DEF DeleteOK
    <2>10. TxOK(q)'
      BY <1>1, <2>4, <2>5, <2>9, ByKind
    <2>11. QED
      BY <2>5, <2>10, LockKeeps
  <1>5. QED
    BY <1>3, <1>4 DEF DeleteAbandon

LEMMA FinishSessionKeeps ==
    ASSUME TxInv, NEW q \in Requests, FinishSession(q)
    PROVE  TxInv' /\ [Next]_vars
  <1> USE DEF TxInv
  <1> DEFINE x == tx[q]
             s == x.s
             tk == session[s].task
             e == [x EXCEPT !.at = "commit", !.tk = tk]
  <1>1. x \in TxType /\ x.kind = "finish" /\ FinishOK(q) /\ x.at = "session"
    BY TxFields DEF FinishSession, TxOK
  <1>2. /\ Becomes(q, e) /\ TakeSession(q, s) /\ s \in Active
        /\ tk \in DOMAIN x.rows \cup {None}
    BY DEF FinishSession, TxTyped, Becomes
  <1>3. tk \in Tasks \cup {None} /\ s \in Sessions
    BY <1>2 DEF Accounts, TypeOK, SessionType, Active
  <1>4. "commit" \in Stages /\ s = x.s /\ tk = session[s].task
    BY DEF Stages
  <1> HIDE DEF x, tk
  <1>5. /\ e \in TxType /\ e.kind = x.kind /\ e.at = "commit" /\ e.rows = x.rows /\ e.tk = tk
        /\ e.s = x.s /\ e.arg = x.arg /\ e.age = x.age
    BY <1>1, <1>3, <1>4 DEF TxType
  <1> HIDE DEF e, s
  <1>6. /\ UNCHANGED <<vars, taskLock>> /\ TxTyped'
        /\ UserOK(q)' /\ RowsOK(q)' /\ SessionsOK(q)'
        /\ tx'[q] = e /\ sessionLock'[s] = q
        /\ \A r \in Requests \ {q} : tx'[r] = tx[r] /\ SameLocks(r)
    <2>1. /\ tx[q].at = "session" /\ e.kind = tx[q].kind /\ e.rows = tx[q].rows
          /\ e.at # "user" /\ e.kind = "finish" /\ e.at = "commit" /\ e.s = s
      BY <1>1, <1>4, <1>5 DEF x
    <2>2. QED
      BY <1>2, <1>5, <2>1, SessionTaken
  <1>7. FinishOK(q)'
    <2>1. session' = session /\ Active' = Active
      BY <1>6 DEF vars, Active
    <2>2. /\ s \in Sessions /\ x.arg \in FinishArgs /\ session[s].status # "unborn"
          /\ s \in Active => x.age <= session[s].age
      BY <1>1, <1>4 DEF FinishOK, x
    <2>3. QED
      BY <1>1, <1>2, <1>4, <1>5, <1>6, <2>1, <2>2 DEF FinishOK
  <1>8. TxOK(q)'
    BY <1>1, <1>5, <1>6, <1>7, ByKind
  <1>9. QED
    BY <1>6, <1>8, LockKeeps

-----------------------------------------------------------------------------
(* The commits are steps of Rewards. *)

LEMMA SparedTasks ==
    ASSUME TypeOK, NEW r, session' = session,
           \A t \in Tasks : taskLock[t] = r => task'[t] = task[t]
    PROVE  Spared(r)
  <1>1. \A s \in Sessions : session[s].age \in Nat
    BY DEF TypeOK, SessionType, Ages
  <1>2. \A s \in Sessions : session[s].age >= session[s].age
    BY <1>1
  <1>3. QED
    BY <1>2 DEF Spared, Active

\* What a transaction has read of its tasks decides its rewards rightly.
LEMMA ReadsDecide ==
    ASSUME TxInv, NEW q \in Requests
    PROVE  /\ RowsRewardable(q) = Rewardable(DOMAIN tx[q].rows)
           /\ DOMAIN tx[q].rows \subseteq Live
           /\ \A t \in DOMAIN tx[q].rows : taskLock[t] = q /\ tx[q].rows[t] = task[t]
  <1>1. RowsOK(q) /\ DOMAIN tx[q].rows \subseteq Tasks
    BY TxFields DEF TxInv, TxOK
  <1>2. QED
    BY <1>1 DEF RowsOK, RowsRewardable, Rewardable

LEMMA UpdateCommitKeeps ==
    ASSUME TxInv, NEW q \in Requests, UpdateCommit(q)
    PROVE  TxInv' /\ [Next]_vars
  <1> DEFINE t == tx[q].tk
             status == tx[q].arg
             R == IF status = "done" THEN Rewardable({t}) ELSE {}
  <1>1. /\ DOMAIN tx[q].rows = {t} /\ t \in Tasks /\ status \in TaskStatuses
        /\ TypeOK
    BY DEF UpdateCommit, TxInv, TxOK, UpdateOK, Accounts
  <1>2. /\ t \in Live /\ taskLock[t] = q /\ WriteUpdate(t, status, R) /\ End(q)
    BY <1>1, ReadsDecide DEF UpdateCommit
  <1>3. UpdateTask(t, status)
    BY <1>2 DEF UpdateTask
  <1>4. session' = session /\ \A u \in Tasks \ {t} : task'[u] = task[u]
    BY <1>1, <1>2 DEF WriteUpdate, TypeOK
  <1> HIDE DEF t, status, R
  <1>5. Next
    BY <1>1, <1>3 DEF Next, TaskAction
  <1>6. \A r \in Requests \ {q} : Spared(r)
    BY <1>1, <1>2, <1>4, SparedTasks
  <1>7. QED
    BY <1>2, <1>5, <1>6, CommitKeeps

LEMMA CompleteCommitKeeps ==
    ASSUME TxInv, NEW q \in Requests, CompleteCommit(q)
    PROVE  TxInv' /\ [Next]_vars
  <1> DEFINE D == DOMAIN tx[q].rows
  <1>1. /\ D \subseteq Live /\ RowsRewardable(q) = Rewardable(D) /\ D \subseteq Tasks
        /\ \A t \in D : taskLock[t] = q /\ tx[q].rows[t] = task[t]
    BY ReadsDecide, TxFields DEF TxInv
  <1>2. /\ \A t \in D : task[t].status # "done"
        /\ WriteComplete(D, Rewardable(D)) /\ End(q) /\ TypeOK
    BY <1>1 DEF CompleteCommit, TxInv, TxOK, CompleteOK, Accounts
  <1> HIDE DEF D
  <1>3. {t \in D \cap Live : task[t].status # "done"} = D
    BY <1>1, <1>2
  <1>4. BulkComplete(D)
    BY <1>2, <1>3 DEF BulkComplete
  <1>5. Next
    BY <1>1, <1>4 DEF Next, TaskAction
  <1>6. session' = session /\ \A u \in Tasks \ D : task'[u] = task[u]
    BY <1>2 DEF WriteComplete
  <1>7. \A r \in Requests \ {q} : Spared(r)
    BY <1>1, <1>2, <1>6, SparedTasks
  <1>8. QED
    BY <1>2, <1>5, <1>7, CommitKeeps

LEMMA DeleteCommitKeeps ==
    ASSUME TxInv, NEW q \in Requests, DeleteCommit(q)
    PROVE  TxInv' /\ [Next]_vars
  <1> DEFINE gone == DOMAIN tx[q].rows
             held == tx[q].held
  <1>1. /\ gone \subseteq Live /\ gone \subseteq Tasks /\ held \subseteq Sessions
        /\ \A t \in gone : taskLock[t] = q
    BY ReadsDecide, TxFields DEF TxInv
  <1>2. DeleteOK(q) /\ tx[q].kind = "delete" /\ tx[q].at = "task" /\ TypeOK
    BY DEF DeleteCommit, TxInv, TxOK, Accounts
  <1>3. /\ \A s \in held : s \in Active /\ sessionLock[s] = q /\ session[s].task \in gone
        /\ \A s \in Active : session[s].task \in gone => s \in held
    BY <1>2 DEF DeleteOK
  <1>4. /\ gone # {} /\ WriteDelete(gone, held) /\ End(q)
        /\ \A s \in Sessions : session[s].task \in gone => sessionLock[s] \in {NoOne, q}
    BY DEF DeleteCommit, Free
  <1> HIDE DEF gone, held
  <1>5. gone \cap Live = gone /\ {s \in Active : session[s].task \in gone} = held
    BY <1>1, <1>3
  <1>6. DeleteTasks(gone)
    BY <1>4, <1>5 DEF DeleteTasks
  <1>7. Next
    BY <1>1, <1>6 DEF Next, TaskAction
  <1>8. /\ \A t \in Tasks \ gone : task'[t] = task[t]
        /\ \A s \in Sessions :
             session'[s] = [session[s] EXCEPT
                              !.task = IF @ \in gone THEN None ELSE @,
                              !.status = IF s \in held THEN "abandoned" ELSE @]
    BY <1>4 DEF WriteDelete
  <1>9. \A s \in Sessions :
          /\ session[s] \in SessionType /\ session[s].age \in Nat
          /\ session[s].age >= session[s].age
    BY <1>2 DEF TypeOK, SessionType, Ages
  <1>10. \A s \in Sessions :
          /\ session'[s].status = IF s \in held THEN "abandoned" ELSE session[s].status
          /\ session'[s].task = IF session[s].task \in gone THEN None ELSE session[s].task
          /\ session'[s].age = session[s].age
    BY <1>8, <1>9 DEF SessionType
  <1>11. ASSUME NEW r \in Requests \ {q}
         PROVE  Spared(r)
    <2>1. \A t \in Tasks : taskLock[t] = r => task'[t] = task[t]
      BY <1>1, <1>8
    <2>2. r # NoOne
      BY TxFields DEF TxInv
    <2>3. \A s \in Sessions : sessionLock[s] = r => s \notin held /\ session[s].task \notin gone
      BY <1>3, <1>4, <2>2
    <2>4. \A s \in Sessions : s \in Active' => s \in Active
      BY <1>10 DEF Active
    <2>5. QED
      BY <1>9, <1>10, <2>1, <2>3, <2>4 DEF Spared
  <1>12. QED
    BY <1>4, <1>7, <1>11, CommitKeeps

LEMMA SparedStart ==
    ASSUME TxInv, NEW r \in Requests, NEW s \in Sessions, NEW tk \in Tasks \cup {None},
           StartFocus(s, tk), tk # None => taskLock[tk] # r
    PROVE  Spared(r)
  <1>1. /\ task' = task /\ session[s].status = "unborn" /\ Active = {}
        /\ session'[s] = NewSession(tk)
        /\ \A x \in Sessions \ {s} : session'[x] = session[x]
    BY DEF StartFocus, WriteStart, TxInv, Accounts, TypeOK
  <1>2. session'[s].task = tk /\ session'[s].status = "active"
    BY <1>1 DEF NewSession
  <1>3. \A x \in Sessions : sessionLock[x] # r
    BY <1>1 DEF TxInv, TxOK, SessionsOK
  <1>4. \A x \in Sessions : x \in Active' => x = s
    BY <1>1 DEF Active
  <1>5. \A t \in Tasks : taskLock[t] = r => tk # t
    BY RewardsAssumption DEF RewardsAssumption
  <1>6. QED
    BY <1>1, <1>2, <1>3, <1>4, <1>5 DEF Spared

LEMMA StartCommitKeeps ==
    ASSUME TxInv, NEW q \in Requests, StartCommit(q)
    PROVE  TxInv' /\ [Next]_vars
  <1> DEFINE tk == tx[q].tk
  <1>1. TxOK(q) /\ TypeOK /\ tk \in Tasks \cup {None}
    BY TxFields DEF TxInv, Accounts, TxType
  <1>2. PICK s \in Sessions : WriteStart(s, tk)
    BY DEF StartCommit
  <1>3. tx[q].kind = "start" /\ tx[q].at = "commit" /\ Active = {} /\ End(q)
    BY DEF StartCommit
  <1>4. tk # None => taskLock[tk] = q /\ tk \in Live
    BY <1>1, <1>3 DEF TxOK, StartOK, RowsOK
  <1> HIDE DEF tk
  <1>5. StartFocus(s, tk)
    BY <1>1, <1>2, <1>3, <1>4 DEF StartFocus
  <1>6. Next
    BY <1>1, <1>5 DEF Next, FocusAction
  <1>7. \A r \in Requests \ {q} : Spared(r)
    BY <1>1, <1>4, <1>5, SparedStart
  <1>8. QED
    BY <1>3, <1>6, <1>7, CommitKeeps

\* Of the rewardable tasks a finish asks for its session's only.
LEMMA OneTaskAsked ==
    ASSUME NEW s, NEW tk, NEW action, NEW finishTask, NEW age, NEW R, NEW Q,
           tk = None \/ (tk \in R <=> tk \in Q),
           WriteFinish(s, tk, action, finishTask, age, R)
    PROVE  WriteFinish(s, tk, action, finishTask, age, Q)
  <1> DEFINE finished == IF finishTask /\ action = "completed" THEN {tk} \ {None} ELSE {}
  <1>1. finished \cap R = finished \cap Q
    OBVIOUS
  <1>2. QED
    BY <1>1 DEF WriteFinish

LEMMA FinishCommitKeeps ==
    ASSUME TxInv, NEW q \in Requests, FinishCommit(q)
    PROVE  TxInv' /\ [Next]_vars
  <1> DEFINE x == tx[q]
             s == x.s
             tk == x.tk
             age == x.age
             withTask == x.arg = "completed with task"
             action == IF withTask THEN "completed" ELSE x.arg
  <1>1. /\ FinishOK(q) /\ SessionsOK(q) /\ TypeOK /\ x.kind = "finish" /\ x.at = "commit"
        /\ age \in Ages /\ tk \in Tasks \cup {None} /\ End(q)
    BY TxFields DEF TxInv, TxOK, Accounts, TxType, FinishCommit
  <1>2. /\ s \in Sessions /\ x.arg \in FinishArgs /\ sessionLock[s] = q
        /\ session[s].task = tk /\ tk \in DOMAIN x.rows \cup {None}
        /\ s \in Active => age <= session[s].age
    BY <1>1 DEF FinishOK
  <1>3. s \in Active
    BY <1>1, <1>2 DEF SessionsOK
  <1>4. action \in {"completed", "abandoned"} /\ withTask \in BOOLEAN
    BY <1>2 DEF FinishArgs
  <1>5. WriteFinish(s, tk, action, withTask, age, RowsRewardable(q))
    BY DEF FinishCommit
  <1>6. tk = None \/ (tk \in RowsRewardable(q) <=> tk \in Rewardable(Tasks))
    BY <1>1, <1>2, ReadsDecide DEF Rewardable
  <1>61. tk # None => taskLock[tk] = q
    BY <1>1, <1>2, ReadsDecide
  <1> HIDE DEF x, s, tk, age, withTask, action
  <1>7. WriteFinish(s, tk, action, withTask, age, Rewardable(Tasks))
    BY <1>5, <1>6, OneTaskAsked
  <1>8. FinishFocus(s, action, withTask, age)
    BY <1>2, <1>3, <1>7 DEF FinishFocus
  <1>9. Next
    BY <1>1, <1>2, <1>4, <1>8 DEF Next, FocusAction
  <1>10. session' = [session EXCEPT ![s].status = action, ![s].age = age]
    BY <1>7 DEF WriteFinish
  <1>11. /\ session'[s].status = action /\ session'[s].task = session[s].task
         /\ \A y \in Sessions \ {s} : session'[y] = session[y]
    <2>1. session[s] \in SessionType
      BY <1>1, <1>2 DEF TypeOK
    <2>2. session'[s] = [session[s] EXCEPT !.status = action, !.age = age]
      BY <1>1, <1>2, <1>10 DEF TypeOK
    <2>3. session'[s].status = action /\ session'[s].task = session[s].task
      BY <2>1, <2>2 DEF SessionType
    <2>4. QED
      BY <1>1, <1>2, <1>10, <2>3 DEF TypeOK
  <1>12. \A t \in Tasks \ {tk} : task'[t] = task[t]
    <2> SUFFICES ASSUME NEW t \in Tasks \ {tk}
                 PROVE  task'[t] = task[t]
      OBVIOUS
    <2> DEFINE finished == IF withTask /\ action = "completed" THEN {tk} \ {None} ELSE {}
               rewarded == finished \cap Rewardable(Tasks)
    <2>1. t \notin finished /\ t \notin rewarded
      OBVIOUS
    <2>2. task'[t] = [task[t] EXCEPT
                     !.status = IF t \in finished THEN "done" ELSE @,
                     !.claimed = @ \/ t \in rewarded,
                     !.taken = IF t = tk /\ Counts(action, age) THEN @ + 1 ELSE @]
      BY <1>7 DEF WriteFinish
    <2>3. task[t] \in TaskType
      BY <1>1 DEF TypeOK
    <2> HIDE DEF finished, rewarded
    <2>4. task'[t] = [task[t] EXCEPT !.status = @, !.claimed = @, !.taken = @]
      BY <2>1, <2>2, <2>3 DEF TaskType
    <2>5. QED
      BY <2>3, <2>4 DEF TaskType
  <1>13. ASSUME NEW r \in Requests \ {q}
         PROVE  Spared(r)
    <2>1. \A t \in Tasks : taskLock[t] = r => task'[t] = task[t]
      BY <1>61, <1>12, RewardsAssumption DEF RewardsAssumption
    <2>2. \A y \in Sessions : sessionLock[y] = r => y # s
      BY <1>2
    <2>3. \A y \in Sessions : y \in Active' => y \in Active /\ y # s
      BY <1>4, <1>11 DEF Active
    <2>4. \A y \in Sessions : session[y].age \in Nat /\ session[y].age >= session[y].age
      BY <1>1 DEF TypeOK, SessionType, Ages
    <2>5. QED
      BY <1>4, <1>11, <2>1, <2>2, <2>3, <2>4 DEF Spared
  <1>14. QED
    BY <1>1, <1>9, <1>13, CommitKeeps

-----------------------------------------------------------------------------
(* The transactions of one step, which find every row they write free. *)

LEMMA FreeStepKeeps ==
    ASSUME TxInv, Next, UNCHANGED <<tx, locks>>, \A r \in Requests : Spared(r)
    PROVE  TxInv' /\ [Next]_vars
  <1>1. TypeOK' /\ Accounts'
    <2>1. TypeOK'
      BY TypeStep DEF TxInv, Accounts
    <2>2. QED
      BY <2>1, AccountsStep DEF TxInv
  <1>2. UNCHANGED <<userLock, taskLock, sessionLock>>
    BY DEF locks
  <1>3. TxTyped' /\ \A r \in Requests : SameLocks(r)
    BY <1>2 DEF TxInv, TxTyped, SameLocks
  <1>4. \A r \in Requests : TxOK(r)'
    BY <1>1, <1>3, OthersKept
  <1>5. QED
    BY <1>1, <1>3, <1>4 DEF TxInv

LEMMA SaveSpares ==
    ASSUME TxInv, NEW r \in Requests, NEW t \in Tasks, SaveTask(t)
    PROVE  Spared(r)
  <1>1. TypeOK /\ RowsOK(r)
    BY DEF TxInv, TxOK, Accounts
  <1>2. /\ session' = session /\ task[t].status = "unborn"
        /\ \A u \in Tasks \ {t} : task'[u] = task[u]
    BY <1>1 DEF SaveTask, TypeOK
  <1>3. t \notin Live
    BY <1>2 DEF Live, TaskStatuses
  <1>4. taskLock[t] # r
    BY <1>1, <1>3 DEF RowsOK
  <1>5. QED
    BY <1>1, <1>2, <1>4, SparedTasks

\* A session that is not locked goes on, is cancelled, or grows older.
LEMMA SessionSpares ==
    ASSUME TxInv, NEW r \in Requests, NEW s \in Active, task' = task,
           \A x \in Sessions \ {s} : session'[x] = session[x],
           session'[s].task = session[s].task, session'[s].age >= session[s].age,
           \/ session'[s].status = session[s].status
           \/ session'[s].status = "cancelled" /\ sessionLock[s] # r
    PROVE  Spared(r)
  <1>1. TypeOK /\ s \in Sessions /\ session[s].status = "active"
    BY DEF TxInv, Accounts, Active
  <1>2. \A x \in Sessions : session[x].age \in Nat
    BY <1>1 DEF TypeOK, SessionType, Ages
  <1>3. \A x \in Sessions : session'[x].age >= session[x].age
    BY <1>2
  <1>4. QED
    BY <1>1, <1>3 DEF Spared, Active

LEMMA ShortKeeps ==
    ASSUME TxInv, Short
    PROVE  TxInv' /\ [Next]_vars
  <1>1. TypeOK /\ UNCHANGED <<tx, locks>> /\ \A r \in Requests : r # NoOne
    BY TxFields DEF TxInv, Accounts, Short
  <1>2. \A s \in Sessions : session[s] \in SessionType /\ session[s].age \in Nat
                            /\ session[s].age >= session[s].age
    BY <1>1 DEF TypeOK, SessionType, Ages
  <1>3. ASSUME NEW t \in Tasks, SaveTask(t)
        PROVE  TxInv' /\ [Next]_vars
    BY <1>1, <1>3, SaveSpares, FreeStepKeeps DEF Next, TaskAction
  <1>4. ASSUME NEW s \in Sessions, sessionLock[s] = NoOne,
               TakeBreak(s) \/ EndBreak(s) \/ CancelFocus(s)
        PROVE  TxInv' /\ [Next]_vars
    <2>1. s \in Active /\ task' = task
          /\ \A x \in Sessions \ {s} : session'[x] = session[x]
      BY <1>1, <1>4 DEF TakeBreak, EndBreak, CancelFocus, TypeOK
    <2>2. /\ session'[s].task = session[s].task /\ session'[s].age = session[s].age
          /\ session'[s].status \in {session[s].status, "cancelled"}
      <3>1. CASE TakeBreak(s)
        BY <1>1, <1>2, <3>1 DEF TakeBreak, TypeOK, SessionType
      <3>2. CASE EndBreak(s)
        BY <1>1, <1>2, <3>2 DEF EndBreak, TypeOK, SessionType
      <3>3. CASE CancelFocus(s)
        BY <1>1, <1>2, <3>3 DEF CancelFocus, TypeOK, SessionType
      <3>4. QED
        BY <1>4, <3>1, <3>2, <3>3
    <2>3. \A r \in Requests : Spared(r)
      BY <1>1, <1>2, <1>4, <2>1, <2>2, SessionSpares
    <2>4. Next
      BY <1>4 DEF Next, FocusAction
    <2>5. QED
      BY <1>1, <2>3, <2>4, FreeStepKeeps
  <1>5. ASSUME NEW s \in Sessions, focus.task # None => taskLock[focus.task] = NoOne,
               ResumeRest(s)
        PROVE  TxInv' /\ [Next]_vars
    <2> DEFINE tk == IF focus.task # None /\ task[focus.task].status = "pending"
                     THEN focus.task ELSE None
    <2>1. focus.task \in Tasks \cup {None}
      BY <1>1 DEF TypeOK, FocusType
    <2>2. tk \in Tasks \cup {None} /\ StartFocus(s, tk) /\ (tk # None => taskLock[tk] = NoOne)
      BY <1>5, <2>1 DEF ResumeRest
    <2> HIDE DEF tk
    <2>3. \A r \in Requests : Spared(r)
      BY <1>1, <2>2, SparedStart
    <2>4. Next
      BY <1>5 DEF Next, FocusAction
    <2>5. QED
      BY <1>1, <2>3, <2>4, FreeStepKeeps
  <1>6. CASE FinishRest \/ GetAchievements \/ Shop
    <2>1. task' = task /\ session' = session
      BY <1>6 DEF FinishRest, GetAchievements, Shop
    <2>2. \A r \in Requests : Spared(r)
      BY <1>1, <2>1, SparedTasks
    <2>3. Next
      BY <1>6 DEF Next, FocusAction
    <2>4. QED
      BY <1>1, <2>2, <2>3, FreeStepKeeps
  <1>7. QED
    BY <1>3, <1>4, <1>5, <1>6 DEF Short

LEMMA TimeKeeps ==
    ASSUME TxInv, Time
    PROVE  TxInv' /\ [Next]_vars
  <1>1. TypeOK /\ UNCHANGED <<tx, locks>>
    BY DEF TxInv, Accounts, Time
  <1>2. PICK s \in Sessions : Elapse(s)
    BY DEF Time
  <1>3. PICK older \in Ages, still \in BOOLEAN :
          /\ older \in {session[s].age, session[s].age + 1}
          /\ session' = [session EXCEPT ![s].age = older, ![s].onBreak = still]
          /\ s \in Active /\ task' = task
    BY <1>2 DEF Elapse
  <1>4. session[s] \in SessionType /\ session[s].age \in Nat /\ older \in Nat
    BY <1>1 DEF TypeOK, SessionType, Ages
  <1>5. older >= session[s].age
    BY <1>3, <1>4
  <1>6. /\ session'[s].task = session[s].task /\ session'[s].age = older
        /\ session'[s].status = session[s].status
        /\ \A x \in Sessions \ {s} : session'[x] = session[x]
    BY <1>1, <1>3, <1>4 DEF TypeOK, SessionType
  <1>7. \A r \in Requests : Spared(r)
    BY <1>3, <1>5, <1>6, SessionSpares
  <1>8. Next
    BY <1>2 DEF Next, FocusAction
  <1>9. QED
    BY <1>1, <1>7, <1>8, FreeStepKeeps

-----------------------------------------------------------------------------
(* The invariant, the refinement, and what the reads are worth. *)

LEMMA TxStep ==
    ASSUME TxInv, [TxNext]_txVars
    PROVE  TxInv' /\ [Next]_vars
  <1>1. CASE UNCHANGED txVars
    <2>1. UNCHANGED <<vars, tx, userLock, taskLock, sessionLock>>
      BY <1>1 DEF txVars, locks
    <2>2. TypeOK' /\ Accounts'
      <3>1. TypeOK'
        BY <2>1, TypeStep DEF TxInv, Accounts
      <3>2. QED
        BY <2>1, <3>1, AccountsStep DEF TxInv
    <2>3. \A r \in Requests : Spared(r)
      BY <2>1, SparedTasks DEF vars, TxInv, Accounts
    <2>4. TxTyped' /\ \A r \in Requests : SameLocks(r)
      BY <2>1 DEF TxInv, TxTyped, SameLocks
    <2>5. \A r \in Requests : TxOK(r)'
      BY <2>1, <2>2, <2>3, <2>4, OthersKept
    <2>6. QED
      BY <2>1, <2>2, <2>4, <2>5 DEF TxInv
  <1>2. ASSUME NEW q \in Requests, BeginAny(q) \/ Rollback(q)
        PROVE  TxInv' /\ [Next]_vars
    BY <1>2, BeginAnyKeeps, RollbackKeeps
  <1>3. ASSUME NEW q \in Requests, Step(q)
        PROVE  TxInv' /\ [Next]_vars
    <2>1. CASE UpdateUser(q) \/ UpdateLock(q) \/ UpdateCommit(q)
      BY <2>1, UpdateUserKeeps, UpdateLockKeeps, UpdateCommitKeeps
    <2>2. CASE CompleteUser(q) \/ CompleteLock(q) \/ CompleteCommit(q)
      BY <2>2, CompleteUserKeeps, CompleteLockKeeps, CompleteCommitKeeps
    <2>3. CASE DeleteLock(q) \/ DeleteAbandon(q) \/ DeleteCommit(q)
      BY <2>3, DeleteLockKeeps, DeleteAbandonKeeps, DeleteCommitKeeps
    <2>4. CASE StartUser(q) \/ StartLock(q) \/ StartCommit(q)
      BY <2>4, StartUserKeeps, StartLockKeeps, StartCommitKeeps
    <2>5. CASE FinishUser(q) \/ FinishLock(q) \/ FinishSession(q) \/ FinishCommit(q)
      BY <2>5, FinishUserKeeps, FinishLockKeeps, FinishSessionKeeps, FinishCommitKeeps
    <2>6. QED
      BY <1>3, <2>1, <2>2, <2>3, <2>4, <2>5 DEF Step
  <1>4. QED
    BY <1>1, <1>2, <1>3, ShortKeeps, TimeKeeps DEF TxNext

LEMMA TxInitHolds == TxInit => TxInv
  <1> SUFFICES ASSUME TxInit PROVE TxInv
    OBVIOUS
  <1>1. Accounts
    BY AccountsInit DEF TxInit
  <1>2. /\ tx = [r \in Requests |-> NoTx] /\ userLock = NoOne
        /\ taskLock = [t \in Tasks |-> NoOne] /\ sessionLock = [s \in Sessions |-> NoOne]
    BY DEF TxInit
  <1>3. TxTyped
    BY <1>2, NoTxIs DEF TxTyped
  <1>4. ASSUME NEW r \in Requests
        PROVE  TxOK(r)
    <2>1. r # NoOne /\ tx[r].kind = "none" /\ tx[r].at = "end" /\ DOMAIN tx[r].rows = {}
      BY <1>2, <1>3, NoTxIs, TxFields
    <2>2. QED
      BY <1>2, <2>1 DEF TxOK, UserOK, RowsOK, SessionsOK, NoneOK, UpdateOK, CompleteOK,
         DeleteOK, StartOK, FinishOK
  <1>5. QED
    BY <1>1, <1>3, <1>4 DEF TxInv

\* What every open transaction holds and has read, whatever runs beside it.
THEOREM LocksHold == TxSpec => []TxInv
  <1>1. TxInv /\ [TxNext]_txVars => TxInv'
    BY TxStep
  <1>2. QED
    BY TxInitHolds, <1>1, PTL DEF TxSpec

\* The transactions split at their row locks implement the atomic ones: every
\* commit is one step of Rewards from the state it finds, and every other step
\* a stutter (withUserTx, lockTask, the trigger before the deletion of a task).
THEOREM Implements == TxSpec => Serialisable
  <1>1. TxInit => Init
    BY DEF TxInit
  <1>2. TxInv /\ [TxNext]_txVars => [Next]_vars
    BY TxStep
  <1>3. QED
    BY <1>1, <1>2, LocksHold, PTL DEF TxSpec, Spec, Serialisable

\* What a transaction has read under its locks is what it will overwrite, and a
\* deletion has abandoned every active session of the tasks it deletes.
THEOREM ReadsFresh == TxSpec => []ReadsStayFresh
  <1>1. TxInv => ReadsStayFresh
    <2> SUFFICES ASSUME TxInv, NEW r \in Requests
                 PROVE  /\ \A t \in DOMAIN tx[r].rows : tx[r].rows[t] = task[t]
                        /\ tx[r].kind = "delete" /\ tx[r].at = "task" =>
                             {s \in Active : session[s].task \in DOMAIN tx[r].rows} = tx[r].held
      BY DEF ReadsStayFresh
    <2>1. TxOK(r)
      BY DEF TxInv
    <2>2. QED
      BY <2>1, ReadsDecide DEF TxOK, DeleteOK
  <1>2. QED
    BY <1>1, LocksHold, PTL

-----------------------------------------------------------------------------
(* Waiting in a circle. *)

LEMMA SessionsWaitedFor ==
    ASSUME NEW r, NEW b \in Holders(r),
           \/ tx[r].at = "session"
           \/ tx[r].at = "task" /\ tx[r].kind = "delete" /\ tx[r].todo = <<>>,
           tx[r].at = "session" /\ tx[r].kind = "delete" => tx[r].tk \in DOMAIN tx[r].rows,
           tx[r].at = "session" /\ tx[r].kind # "delete" =>
              tx[r].s \in Sessions /\ session[tx[r].s].task \in DOMAIN tx[r].rows \cup {None}
    PROVE  \E s \in Sessions : b = sessionLock[s]
                               /\ session[s].task \in DOMAIN tx[r].rows \cup {None}
  <1>1. CASE tx[r].at = "session" /\ tx[r].kind = "delete"
    <2>1. Holders(r) = {sessionLock[s] : s \in {s \in Active : session[s].task = tx[r].tk}}
      BY <1>1 DEF Holders
    <2>2. PICK s \in {s \in Active : session[s].task = tx[r].tk} : b = sessionLock[s]
      BY <2>1
    <2>3. QED
      BY <1>1, <2>2 DEF Active
  <1>2. CASE tx[r].at = "session" /\ tx[r].kind # "delete"
    BY <1>2 DEF Holders
  <1>3. CASE tx[r].at = "task" /\ tx[r].kind = "delete" /\ tx[r].todo = <<>>
    <2>1. Holders(r) =
            {sessionLock[s] : s \in {s \in Sessions : session[s].task \in DOMAIN tx[r].rows}}
      BY <1>3 DEF Holders
    <2>2. QED
      BY <2>1
  <1>4. QED
    BY <1>1, <1>2, <1>3

LEMMA TaskWaitedFor ==
    ASSUME NEW r, NEW b \in Holders(r), tx[r].at = "task", None \notin Tasks,
           tx[r].kind \in {"complete", "delete"} => tx[r].todo \in Seq(Tasks),
           tx[r].kind \notin {"complete", "delete"} => tx[r].tk \in Tasks,
           ~(tx[r].kind = "delete" /\ tx[r].todo = <<>>)
    PROVE  /\ \E t \in Tasks : b = taskLock[t]
           /\ tx[r].kind \in {"complete", "delete"} => tx[r].todo # <<>>
  <1>1. CASE tx[r].kind \in {"complete", "delete"}
    <2>1. CASE tx[r].todo = <<>>
      BY <1>1, <2>1 DEF Holders
    <2>2. CASE tx[r].todo # <<>>
      <3> DEFINE t == Head(tx[r].todo)
      <3>1. t \in Tasks
        BY <1>1, <2>2
      <3>2. Holders(r) \subseteq {taskLock[t]}
        BY <1>1, <2>2, <3>1 DEF Holders
      <3>3. QED
        BY <2>2, <3>1, <3>2
    <2>3. QED
      BY <2>1, <2>2
  <1>2. CASE tx[r].kind \notin {"complete", "delete"}
    <2>1. tx[r].tk # None
      BY <1>2
    <2>2. Holders(r) = {taskLock[tx[r].tk]}
      BY <1>2, <2>1 DEF Holders
    <2>3. QED
      BY <1>2, <2>2
  <1>3. QED
    BY <1>1, <1>2

\* The holder of a session that someone waits for is about to commit: a
\* deletion that holds it also holds its task, which the other one would need
\* to have locked before.
LEMMA SessionHolderGoesOn ==
    ASSUME TxInv, NEW r \in Requests, NEW b \in Requests, b # r,
           NEW s \in Sessions, sessionLock[s] = b,
           session[s].task \in DOMAIN tx[r].rows \cup {None}
    PROVE  Blockers(b) = {}
  <1>1. SessionsOK(b) /\ DeleteOK(b)
    BY DEF TxInv, TxOK
  <1>2. CASE tx[b].kind = "delete" /\ s \in tx[b].held
    <2>1. session[s].task \in DOMAIN tx[b].rows
      BY <1>1, <1>2 DEF DeleteOK
    <2>2. session[s].task \in Tasks /\ taskLock[session[s].task] = b
      BY <2>1, ReadsDecide, TxFields DEF TxInv
    <2>3. session[s].task \in DOMAIN tx[r].rows
      BY <2>2, RewardsAssumption DEF RewardsAssumption
    <2>4. QED
      BY <2>2, <2>3, ReadsDecide
  <1>3. CASE tx[b].kind = "finish" /\ tx[b].at = "commit"
    BY <1>3 DEF Blockers, Holders
  <1>4. QED
    BY <1>1, <1>2, <1>3 DEF SessionsOK

\* Whoever waits in a circle, past the user's lock, waits for a task.
LEMMA WaitsForTask ==
    ASSUME TxInv, NEW D \in SUBSET Requests, \A x \in D : Blockers(x) \cap D # {},
           NEW r \in D, tx[r].at # "user"
    PROVE  /\ tx[r].at = "task"
           /\ \E t \in Tasks : taskLock[t] \in D /\ taskLock[t] \in Blockers(r)
           /\ tx[r].kind \in {"complete", "delete"} =>
                tx[r].todo # <<>> /\ tx[r].todo \in Seq(Tasks)
  <1>1. PICK b \in D : b \in Holders(r) /\ b # r
    BY DEF Blockers
  <1>2. /\ TxOK(r) /\ r \in Requests /\ b \in Requests
        /\ tx[r].kind \in Kinds /\ tx[r].at \in Stages /\ tx[r].todo \in Seq(Tasks)
    BY TxFields DEF TxInv, TxType
  <1>3. Blockers(b) # {}
    OBVIOUS
  <1>4. tx[r].at \in {"task", "session"} /\ tx[r].kind # "none"
    <2>1. tx[r].at \notin {"commit", "end"}
      BY <1>1 DEF Holders
    <2>2. QED
      BY <1>2, <2>1 DEF Stages, TxOK, NoneOK
  <1>5. /\ tx[r].at = "session" /\ tx[r].kind = "delete" => tx[r].tk \in DOMAIN tx[r].rows
        /\ tx[r].at = "session" /\ tx[r].kind # "delete" =>
              tx[r].s \in Sessions /\ session[tx[r].s].task \in DOMAIN tx[r].rows \cup {None}
        /\ tx[r].at = "task" /\ tx[r].kind \notin {"complete", "delete"} => tx[r].tk \in Tasks
    <2>1. tx[r].at = "session" => tx[r].kind \in {"delete", "finish"}
      BY <1>2, <1>4 DEF TxOK, Kinds, UpdateOK, CompleteOK, StartOK
    <2>2. tx[r].at = "session" /\ tx[r].kind = "delete" => tx[r].tk \in DOMAIN tx[r].rows
      BY <1>2 DEF TxOK, DeleteOK
    <2>3. tx[r].at = "session" /\ tx[r].kind = "finish" =>
              tx[r].s \in Sessions /\ session[tx[r].s].task \in DOMAIN tx[r].rows \cup {None}
      BY <1>2 DEF TxOK, FinishOK
    <2>4. tx[r].at = "task" /\ tx[r].kind \notin {"complete", "delete"} => tx[r].tk \in Tasks
      BY <1>2, <1>4 DEF TxOK, Kinds, UpdateOK, StartOK, FinishOK
    <2>5. QED
      BY <2>1, <2>2, <2>3, <2>4
  <1>6. ~(tx[r].at = "session" \/ (tx[r].at = "task" /\ tx[r].kind = "delete" /\ tx[r].todo = <<>>))
    BY <1>1, <1>2, <1>3, <1>5, SessionsWaitedFor, SessionHolderGoesOn
  <1>7. None \notin Tasks
    BY RewardsAssumption DEF RewardsAssumption
  <1>8. /\ \E t \in Tasks : b = taskLock[t]
        /\ tx[r].kind \in {"complete", "delete"} => tx[r].todo # <<>>
    BY <1>1, <1>2, <1>4, <1>5, <1>6, <1>7, TaskWaitedFor
  <1>9. b \in Blockers(r)
    BY <1>1, <1>2, TxFields DEF Blockers, TxInv
  <1>10. QED
    BY <1>2, <1>4, <1>6, <1>8, <1>9

\* Every circle of requests that wait for each other has one of requests that
\* lock several tasks each in it: who holds a task and still waits is locking
\* more of them, and waits for one that another such request holds.  Finishing,
\* starting and updating never close a circle (tasks before sessions).
THEOREM NoOtherDeadlock == TxSpec => []OnlyBulkDeadlocks
  <1>1. ASSUME TxInv, NEW D \in SUBSET Requests, Knot(D)
        PROVE  \E E \in SUBSET (D \cap Bulk) : Knot(E)
    <2> DEFINE E == {r \in D : \E t \in Tasks : taskLock[t] = r}
    <2>1. D # {} /\ \A x \in D : Blockers(x) \cap D # {}
      BY <1>1 DEF Knot
    <2>2. ASSUME NEW r \in D, tx[r].at # "user"
          PROVE  Blockers(r) \cap E # {}
      <3>1. PICK t \in Tasks : taskLock[t] \in D /\ taskLock[t] \in Blockers(r)
        BY <1>1, <2>1, <2>2, WaitsForTask
      <3>2. QED
        BY <3>1
    <2>3. E # {}
      <3>1. PICK r \in D : TRUE
        BY <2>1
      <3>2. CASE tx[r].at # "user"
        BY <2>2, <3>2
      <3>3. CASE tx[r].at = "user"
        <4>1. userLock \in D
          BY <2>1, <3>3 DEF Blockers, Holders
        <4>2. tx[userLock].at # "user"
          BY <1>1, <4>1 DEF TxInv, TxOK, UserOK
        <4>3. QED
          BY <2>2, <4>1, <4>2
      <3>4. QED
        BY <3>2, <3>3
    <2>4. ASSUME NEW r \in E
          PROVE  r \in Bulk /\ tx[r].at # "user"
      <3>1. PICK t \in Tasks : taskLock[t] = r
        OBVIOUS
      <3>2. TxOK(r) /\ r \in Requests /\ tx[r].kind \in Kinds /\ DOMAIN tx[r].rows \subseteq Tasks
        BY <1>1, TxFields DEF TxInv, TxType
      <3>3. tx[r].at # "user"
        BY <1>1, <3>1, <3>2, UserFirst
      <3>4. tx[r].at = "task" /\ (tx[r].kind \in {"complete", "delete"} =>
                                    tx[r].todo # <<>> /\ tx[r].todo \in Seq(Tasks))
        BY <1>1, <2>1, <3>3, WaitsForTask
      <3>5. t \in DOMAIN tx[r].rows
        BY <3>1, <3>2, <3>4 DEF TxOK, RowsOK
      <3>6. tx[r].kind \in {"complete", "delete"}
        BY <3>2, <3>4, <3>5 DEF TxOK, Kinds, NoneOK, UpdateOK, StartOK, FinishOK
      <3>7. Len(tx[r].todo) \in Nat /\ Len(tx[r].todo) >= 1
        BY <3>4, <3>6
      <3>8. Cardinality(DOMAIN tx[r].rows) \in Nat /\ Cardinality(DOMAIN tx[r].rows) >= 1
        <4>1. IsFiniteSet(DOMAIN tx[r].rows)
          BY <3>2, FS_Subset, WalletAssumption DEF WalletAssumption
        <4>2. Cardinality(DOMAIN tx[r].rows) \in Nat /\ Cardinality(DOMAIN tx[r].rows) # 0
          BY <3>5, <4>1, FS_CardinalityType, FS_EmptySet
        <4>3. QED
          BY <4>2
      <3>9. Cardinality(DOMAIN tx[r].rows) + Len(tx[r].todo) > 1
        BY <3>7, <3>8
      <3>10. QED
        BY <3>2, <3>3, <3>6, <3>9 DEF Bulk
    <2> HIDE DEF E
    <2>5. E \in SUBSET (D \cap Bulk)
      BY <2>4 DEF E
    <2>6. Knot(E)
      BY <2>2, <2>3, <2>4, <2>5 DEF Knot
    <2>7. QED
      BY <2>5, <2>6
  <1>2. TxInv => OnlyBulkDeadlocks
    BY <1>1 DEF OnlyBulkDeadlocks
  <1>3. QED
    BY <1>2, LocksHold, PTL

=============================================================================
