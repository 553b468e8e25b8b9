-------------------------- MODULE OperationsProofs --------------------------
(***************************************************************************)
(* The idempotent operations (Operations), the log client behind their     *)
(* callbacks (ActivityLog) and the browser in front of them (Commands),    *)
(* proved for any number of requests, keys, commands, workers and places   *)
(* in the queue.                                                           *)
(***************************************************************************)
EXTENDS ActivityLog, Commands, FiniteSetTheorems, TLAPS

-----------------------------------------------------------------------------
(***************************************************************************)
(* Operations.                                                             *)
(*                                                                         *)
(* OneEffectPerKey and AnswersAreTrue are about what has committed; that a *)
(* second request does not commit under the same key is decided earlier,   *)
(* when it looks the key up.  The strengthening therefore says of the      *)
(* request that holds the lock that its key has no row, and ties where a   *)
(* request is to whether it has committed and run its callbacks.           *)
(***************************************************************************)

Stages == {"unsent", "sent", "invoked", "committed", "answered", "lost"}

Answers == {Unanswered, Conflict, Rejected, Failed} \cup {Operation(r) : r \in Requests}

OpTypeOK ==
    /\ req \in [Requests -> [at : Stages, cmd : Commands \cup {None}, key : Keys \cup {None},
                             answer : Answers]]
    /\ stored \in [Keys -> {NoRow} \cup [cmd : Commands \cup {None}, op : Requests]]
    /\ userLock \in Requests \cup {None}
    /\ committed \subseteq Requests
    /\ notified \subseteq committed

\* The users row is held by the request whose handler runs, and the key of that
\* request has no row: nobody else can give it one.
LockHolder ==
    \A r \in Requests :
        /\ req[r].at = "invoked" <=> userLock = r
        /\ req[r].at = "invoked" => Row(r) = NoRow

\* Where a request is tells whether it has committed and run its callbacks.
StagesTrue ==
    \A r \in Requests :
        /\ r \in committed => req[r].at \in {"committed", "answered", "lost"}
        /\ req[r].at = "committed" => r \in committed \ notified
        /\ req[r].at # "answered" => req[r].answer = Unanswered

OpInv ==
    /\ OpTypeOK
    /\ LockHolder
    /\ StagesTrue
    /\ AnswersAreTrue
    /\ NotifiedAfterCommit

\* The kinds of answers differ, and so do the operations they name.
LEMMA AnswersDiffer ==
    /\ \A r, q : Operation(r) = Operation(q) => r = q
    /\ \A r : /\ Operation(r).kind = "success" /\ Operation(r).op = r
              /\ Operation(r) \notin {Unanswered, Conflict, Rejected, Failed}
    /\ \A a \in {Unanswered, Conflict, Rejected, Failed} : a.kind # "success"
  <1>1. \A r : Operation(r).kind = "success" /\ Operation(r).op = r
    BY DEF Operation
  <1>2. \A a \in {Unanswered, Conflict, Rejected, Failed} : a.kind # "success"
    BY DEF Unanswered, Conflict, Rejected, Failed
  <1> QED BY <1>1, <1>2

\* A row that names a request is not the missing one.
LEMMA RowsDiffer ==
    \A c : \A r \in Requests : [cmd |-> c, op |-> r] # NoRow
  BY NoneIsNothing DEF NoRow

LEMMA InitHolds == OpInit => OpInv
  <1> SUFFICES ASSUME OpInit PROVE OpInv
    OBVIOUS
  <1> USE NoneIsNothing DEF OpInit
  <1>1. \A r \in Requests :
            /\ req[r] \in [at : Stages, cmd : Commands \cup {None}, key : Keys \cup {None},
                           answer : Answers]
            /\ req[r].at \in {"unsent", "sent"} /\ req[r].answer = Unanswered
    <2>1. /\ Unsent \in [at : Stages, cmd : Commands \cup {None}, key : Keys \cup {None},
                           answer : Answers]
          /\ Unsent.at = "unsent" /\ Unsent.answer = Unanswered
      BY DEF Unsent, Stages, Answers
    <2>2. \A c \in Commands, k \in Keys \cup {None} :
            /\ Sent(c, k) \in [at : Stages, cmd : Commands \cup {None}, key : Keys \cup {None},
                               answer : Answers]
            /\ Sent(c, k).at = "sent" /\ Sent(c, k).answer = Unanswered
      BY DEF Sent, Unsent, Stages, Answers
    <2> QED BY <2>1, <2>2
  <1>2. OpTypeOK
    BY <1>1 DEF OpTypeOK
  <1>3. LockHolder /\ StagesTrue
    BY <1>1 DEF LockHolder, StagesTrue
  <1>4. AnswersAreTrue /\ NotifiedAfterCommit
    BY <1>1, AnswersDiffer DEF AnswersAreTrue, NotifiedAfterCommit
  <1> QED BY <1>2, <1>3, <1>4 DEF OpInv

-----------------------------------------------------------------------------
(* One lemma per action. *)

LEMMA SendStep ==
    ASSUME OpInv, NEW r \in Requests, NEW c \in Commands, NEW k \in Keys \cup {None},
           Send(r, c, k)
    PROVE  OpInv'
  <1>1. /\ req' = [req EXCEPT ![r] = Sent(c, k)]
        /\ UNCHANGED <<stored, userLock, committed, notified>>
        /\ req[r].at = "unsent"
    BY DEF Send
  <1>2. Sent(c, k) \in [at : Stages, cmd : Commands \cup {None}, key : Keys \cup {None},
                        answer : Answers]
    BY DEF Sent, Unsent, Stages, Answers
  <1>3. Sent(c, k).at = "sent" /\ Sent(c, k).answer = Unanswered
    BY DEF Sent, Unsent
  <1>4. req'[r] = Sent(c, k) /\ \A q \in Requests : q # r => req'[q] = req[q]
    BY <1>1 DEF OpInv, OpTypeOK
  <1>5. OpTypeOK'
    BY <1>1, <1>2 DEF OpInv, OpTypeOK
  <1>6. r \notin committed
    BY <1>1 DEF OpInv, StagesTrue
  <1>7. LockHolder'
    BY <1>1, <1>3, <1>4 DEF OpInv, LockHolder, Row
  <1>8. StagesTrue'
    BY <1>1, <1>3, <1>4, <1>6 DEF OpInv, StagesTrue
  <1>9. AnswersAreTrue'
    BY <1>1, <1>3, <1>4, <1>6, AnswersDiffer DEF OpInv, AnswersAreTrue
  <1>10. NotifiedAfterCommit'
    BY <1>1, <1>3, <1>4 DEF OpInv, NotifiedAfterCommit
  <1> QED BY <1>5, <1>7, <1>8, <1>9, <1>10 DEF OpInv


\* What an answer does to the record of its request.
LEMMA AnswerChanges ==
    ASSUME OpTypeOK, NEW r \in Requests, NEW a \in Answers, Answer(r, a)
    PROVE  /\ req' \in [Requests -> [at : Stages, cmd : Commands \cup {None},
                                     key : Keys \cup {None}, answer : Answers]]
           /\ req'[r].at = "answered" /\ req'[r].answer = a
           /\ \A q \in Requests : /\ req'[q].cmd = req[q].cmd /\ req'[q].key = req[q].key
                                  /\ q # r => req'[q] = req[q]
  <1> DEFINE Rec == [at : Stages, cmd : Commands \cup {None}, key : Keys \cup {None},
                     answer : Answers]
             new == [req[r] EXCEPT !.at = "answered", !.answer = a]
  <1>1. req \in [Requests -> Rec]
    BY DEF OpTypeOK
  <1>2. req' = [req EXCEPT ![r] = new]
    BY <1>1 DEF Answer
  <1>3. /\ new \in Rec /\ new.at = "answered" /\ new.answer = a
        /\ new.cmd = req[r].cmd /\ new.key = req[r].key
    BY <1>1 DEF Stages
  <1> HIDE DEF Rec, new
  <1>4. /\ req' \in [Requests -> Rec]
        /\ req'[r] = new /\ \A q \in Requests : q # r => req'[q] = req[q]
    BY <1>1, <1>2, <1>3
  <1> QED BY <1>3, <1>4 DEF Rec

LEMMA ReplayStep ==
    ASSUME OpInv, NEW r \in Requests, Replay(r)
    PROVE  OpInv'
  <1> DEFINE a == IF Row(r).cmd = req[r].cmd THEN Operation(Row(r).op) ELSE Conflict
  <1>1. /\ Answer(r, a)
        /\ UNCHANGED <<stored, userLock, committed, notified>>
        /\ req[r].at = "sent" /\ Row(r) # NoRow
    BY DEF Replay
  <1>2. /\ req[r].key \in Keys /\ Row(r) = stored[req[r].key]
        /\ stored[req[r].key] # NoRow
    BY <1>1 DEF Row, OpInv, OpTypeOK
  <1>3. /\ Row(r).op \in committed /\ req[Row(r).op].key = req[r].key
        /\ Row(r).cmd = req[Row(r).op].cmd
    <2>1. Row(r).op \in committed /\ req[Row(r).op].key = req[r].key
      BY <1>2 DEF OpInv, AnswersAreTrue
    <2>2. stored[req[r].key] = [cmd |-> req[Row(r).op].cmd, op |-> Row(r).op]
      BY <2>1, <1>2, NoneIsNothing DEF OpInv, AnswersAreTrue
    <2> QED BY <2>1, <2>2, <1>2
  <1>4. r \notin committed /\ r \notin notified
    BY <1>1 DEF OpInv, StagesTrue, OpTypeOK
  <1>5. a \in Answers
    BY <1>3 DEF Answers, OpInv, OpTypeOK
  <1>6. a # Operation(r)
    BY <1>3, <1>4, AnswersDiffer
  <1> HIDE DEF a
  <1>7. /\ req' \in [Requests -> [at : Stages, cmd : Commands \cup {None},
                                  key : Keys \cup {None}, answer : Answers]]
        /\ req'[r].at = "answered" /\ req'[r].answer = a
        /\ \A q \in Requests : /\ req'[q].cmd = req[q].cmd /\ req'[q].key = req[q].key
                               /\ q # r => req'[q] = req[q]
    BY <1>1, <1>5, AnswerChanges DEF OpInv
  <1>8. OpTypeOK'
    BY <1>1, <1>7 DEF OpInv, OpTypeOK
  <1>9. LockHolder'
    BY <1>1, <1>7 DEF OpInv, LockHolder, Row
  <1>10. StagesTrue'
    BY <1>1, <1>7, <1>4 DEF OpInv, StagesTrue
  <1>11. AnswersAreTrue'
    <2>1. a.kind = "success" => /\ a.op \in committed
                                /\ req[a.op].key = req[r].key
                                /\ req[a.op].cmd = req[r].cmd
      BY <1>3, AnswersDiffer DEF a
    <2>2. committed \subseteq Requests
      BY DEF OpInv, OpTypeOK
    <2>3. \A q \in Requests : req'[q].answer.kind = "success" =>
            /\ req'[q].answer.op \in committed
            /\ req'[req'[q].answer.op].key = req'[q].key
            /\ req'[req'[q].answer.op].cmd = req'[q].cmd
      <3> TAKE q \in Requests
      <3> HAVE req'[q].answer.kind = "success"
      <3>1. CASE q = r
        BY <3>1, <1>7, <2>1, <2>2
      <3>2. CASE q # r
        BY <3>2, <1>7, <2>2 DEF OpInv, AnswersAreTrue
      <3> QED BY <3>1, <3>2
    <2>4. \A q \in committed : req'[q].key # None =>
            stored[req'[q].key] = [cmd |-> req'[q].cmd, op |-> q]
      BY <1>7, <2>2 DEF OpInv, AnswersAreTrue
    <2>5. \A k \in Keys : stored[k] # NoRow => /\ stored[k].op \in committed
                                               /\ req'[stored[k].op].key = k
      BY <1>7, <2>2 DEF OpInv, AnswersAreTrue
    <2> QED BY <1>1, <2>3, <2>4, <2>5 DEF AnswersAreTrue
  <1>12. NotifiedAfterCommit'
    BY <1>1, <1>7, <1>4, <1>6 DEF OpInv, NotifiedAfterCommit
  <1> QED BY <1>8, <1>9, <1>10, <1>11, <1>12 DEF OpInv

LEMMA InvokeStep ==
    ASSUME OpInv, NEW r \in Requests, Invoke(r)
    PROVE  OpInv'
  <1>1. /\ req' = [req EXCEPT ![r].at = "invoked"]
        /\ userLock' = r /\ userLock = None
        /\ UNCHANGED <<stored, committed, notified>>
        /\ req[r].at = "sent" /\ Row(r) = NoRow
    BY DEF Invoke
  <1>2. /\ req' \in [Requests -> [at : Stages, cmd : Commands \cup {None},
                                  key : Keys \cup {None}, answer : Answers]]
        /\ req'[r].at = "invoked"
        /\ \A q \in Requests : /\ req'[q].cmd = req[q].cmd /\ req'[q].key = req[q].key
                               /\ req'[q].answer = req[q].answer
                               /\ q # r => req'[q] = req[q]
    BY <1>1 DEF OpInv, OpTypeOK, Stages
  <1>3. r \notin committed
    BY <1>1 DEF OpInv, StagesTrue
  <1>4. OpTypeOK'
    BY <1>1, <1>2 DEF OpInv, OpTypeOK
  <1>5. LockHolder'
    BY <1>1, <1>2, NoneIsNothing DEF OpInv, LockHolder, Row
  <1>6. StagesTrue'
    BY <1>1, <1>2, <1>3 DEF OpInv, StagesTrue
  <1>7. AnswersAreTrue'
    BY <1>1, <1>2 DEF OpInv, AnswersAreTrue, OpTypeOK
  <1>8. NotifiedAfterCommit'
    BY <1>1, <1>2 DEF OpInv, NotifiedAfterCommit
  <1> QED BY <1>4, <1>5, <1>6, <1>7, <1>8 DEF OpInv

LEMMA AbortStep ==
    ASSUME OpInv, NEW r \in Requests, NEW a \in {Rejected, Failed}, Abort(r, a)
    PROVE  OpInv'
  <1>1. /\ Answer(r, a) /\ a \in Answers /\ a.kind # "success" /\ a # Operation(r)
        /\ userLock' = None
        /\ UNCHANGED <<stored, committed, notified>>
        /\ req[r].at = "invoked"
    BY AnswersDiffer DEF Abort, Answers
  <1>2. /\ req' \in [Requests -> [at : Stages, cmd : Commands \cup {None},
                                  key : Keys \cup {None}, answer : Answers]]
        /\ req'[r].at = "answered" /\ req'[r].answer = a
        /\ \A q \in Requests : /\ req'[q].cmd = req[q].cmd /\ req'[q].key = req[q].key
                               /\ q # r => req'[q] = req[q]
    BY <1>1, AnswerChanges DEF OpInv
  <1>3. r \notin committed /\ r \notin notified
    BY <1>1 DEF OpInv, StagesTrue, OpTypeOK
  <1>4. OpTypeOK'
    BY <1>1, <1>2 DEF OpInv, OpTypeOK
  <1>5. LockHolder'
    BY <1>1, <1>2, NoneIsNothing DEF OpInv, LockHolder, Row
  <1>6. StagesTrue'
    BY <1>1, <1>2, <1>3 DEF OpInv, StagesTrue
  <1>7. AnswersAreTrue'
    BY <1>1, <1>2 DEF OpInv, AnswersAreTrue, OpTypeOK
  <1>8. NotifiedAfterCommit'
    BY <1>1, <1>2, <1>3 DEF OpInv, NotifiedAfterCommit
  <1> QED BY <1>4, <1>5, <1>6, <1>7, <1>8 DEF OpInv

LEMMA CommitStep ==
    ASSUME OpInv, NEW r \in Requests, Commit(r)
    PROVE  OpInv'
  <1>1. /\ Store(r) /\ committed' = committed \cup {r}
        /\ userLock' = None /\ UNCHANGED notified
        /\ req[r].at = "invoked"
        /\ req' = [req EXCEPT ![r].at = "committed"] \/ Answer(r, Failed)
    BY DEF Commit
  <1>2. /\ req' \in [Requests -> [at : Stages, cmd : Commands \cup {None},
                                  key : Keys \cup {None}, answer : Answers]]
        /\ \/ req'[r].at = "committed" /\ req'[r].answer = Unanswered
           \/ req'[r].at = "answered" /\ req'[r].answer = Failed
        /\ \A q \in Requests : /\ req'[q].cmd = req[q].cmd /\ req'[q].key = req[q].key
                               /\ q # r => req'[q] = req[q]
    <2>1. CASE req' = [req EXCEPT ![r].at = "committed"]
      BY <2>1, <1>1 DEF OpInv, OpTypeOK, StagesTrue, Stages
    <2>2. CASE Answer(r, Failed)
      <3>1. Failed \in Answers
        BY DEF Answers
      <3> QED BY <2>2, <3>1, AnswerChanges DEF OpInv
    <2> QED BY <1>1, <2>1, <2>2
  <1>3. r \notin committed /\ r \notin notified /\ Row(r) = NoRow /\ userLock = r
    BY <1>1 DEF OpInv, StagesTrue, OpTypeOK, LockHolder
  <1>4. req'[r].answer.kind # "success" /\ req'[r].answer # Operation(r)
    BY <1>2, AnswersDiffer
  <1>5. \A k \in Keys : stored'[k] = IF k = req[r].key THEN [cmd |-> req[r].cmd, op |-> r]
                                     ELSE stored[k]
    BY <1>1 DEF Store
  <1>6. OpTypeOK'
    BY <1>1, <1>2 DEF OpInv, OpTypeOK, Store
  <1>7. LockHolder'
    BY <1>1, <1>2, <1>3, NoneIsNothing DEF OpInv, LockHolder, Row
  <1>8. StagesTrue'
    BY <1>1, <1>2, <1>3 DEF OpInv, StagesTrue
  <1>9. AnswersAreTrue'
    <2>1. committed \subseteq Requests
      BY DEF OpInv, OpTypeOK
    <2>2. \A q \in Requests : req'[q].answer.kind = "success" =>
            /\ req'[q].answer.op \in committed'
            /\ req'[req'[q].answer.op].key = req'[q].key
            /\ req'[req'[q].answer.op].cmd = req'[q].cmd
      BY <1>1, <1>2, <1>4, <2>1 DEF OpInv, AnswersAreTrue
    <2>3. \A q \in committed' : req'[q].key # None =>
            stored'[req'[q].key] = [cmd |-> req'[q].cmd, op |-> q]
      <3> TAKE q \in committed'
      <3> HAVE req'[q].key # None
      <3>1. req'[q].key \in Keys /\ req'[q].key = req[q].key /\ req'[q].cmd = req[q].cmd
        BY <1>1, <1>2, <2>1 DEF OpInv, OpTypeOK
      <3>2. CASE q = r
        BY <3>1, <3>2, <1>5
      <3>3. CASE q # r
        <4>1. stored[req[q].key] = [cmd |-> req[q].cmd, op |-> q]
          BY <3>1, <3>3, <1>1 DEF OpInv, AnswersAreTrue
        <4>2. req[q].key # req[r].key
          BY <4>1, <3>1, <3>3, <1>1, <1>3, <2>1, RowsDiffer, NoneIsNothing DEF Row
        <4> QED BY <4>1, <4>2, <3>1, <1>5
      <3> QED BY <3>2, <3>3
    <2>4. \A k \in Keys : stored'[k] # NoRow => /\ stored'[k].op \in committed'
                                                /\ req'[stored'[k].op].key = k
      <3> TAKE k \in Keys
      <3> HAVE stored'[k] # NoRow
      <3>1. CASE k = req[r].key
        BY <3>1, <1>5, <1>1, <1>2
      <3>2. CASE k # req[r].key
        BY <3>2, <1>5, <1>1, <1>2, <2>1 DEF OpInv, AnswersAreTrue
      <3> QED BY <3>1, <3>2
    <2> QED BY <2>2, <2>3, <2>4 DEF AnswersAreTrue
  <1>10. NotifiedAfterCommit'
    BY <1>1, <1>2, <1>3, <1>4 DEF OpInv, NotifiedAfterCommit
  <1> QED BY <1>6, <1>7, <1>8, <1>9, <1>10 DEF OpInv

LEMMA NotifyStep ==
    ASSUME OpInv, NEW r \in Requests, Notify(r)
    PROVE  OpInv'
  <1>1. /\ Answer(r, Operation(r)) /\ Operation(r) \in Answers
        /\ notified' = notified \cup {r}
        /\ UNCHANGED <<stored, userLock, committed>>
        /\ req[r].at = "committed"
    BY DEF Notify, Answers
  <1>2. /\ req' \in [Requests -> [at : Stages, cmd : Commands \cup {None},
                                  key : Keys \cup {None}, answer : Answers]]
        /\ req'[r].at = "answered" /\ req'[r].answer = Operation(r)
        /\ \A q \in Requests : /\ req'[q].cmd = req[q].cmd /\ req'[q].key = req[q].key
                               /\ q # r => req'[q] = req[q]
    BY <1>1, AnswerChanges DEF OpInv
  <1>3. r \in committed
    BY <1>1 DEF OpInv, StagesTrue
  <1>4. OpTypeOK'
    BY <1>1, <1>2, <1>3 DEF OpInv, OpTypeOK
  <1>5. LockHolder'
    BY <1>1, <1>2 DEF OpInv, LockHolder, Row
  <1>6. StagesTrue'
    BY <1>1, <1>2, <1>3 DEF OpInv, StagesTrue
  <1>7. AnswersAreTrue'
    BY <1>1, <1>2, <1>3, AnswersDiffer DEF OpInv, AnswersAreTrue, OpTypeOK
  <1>8. NotifiedAfterCommit'
    BY <1>1, <1>2, <1>3 DEF OpInv, NotifiedAfterCommit
  <1> QED BY <1>4, <1>5, <1>6, <1>7, <1>8 DEF OpInv

LEMMA CrashStep ==
    ASSUME OpInv, Crash
    PROVE  OpInv'
  <1>1. /\ req' = [r \in Requests |->
                     IF req[r].at \in {"sent", "invoked", "committed"}
                     THEN [req[r] EXCEPT !.at = "lost"] ELSE req[r]]
        /\ userLock' = None
        /\ UNCHANGED <<stored, committed, notified>>
    BY DEF Crash
  <1>2. /\ req' \in [Requests -> [at : Stages, cmd : Commands \cup {None},
                                  key : Keys \cup {None}, answer : Answers]]
        /\ \A q \in Requests : /\ req'[q].cmd = req[q].cmd /\ req'[q].key = req[q].key
                               /\ req'[q].answer = req[q].answer
                               /\ req'[q].at \in {req[q].at, "lost"}
                               /\ req'[q].at \notin {"sent", "invoked", "committed"}
                               /\ req[q].at = "answered" => req'[q].at = "answered"
    BY <1>1 DEF OpInv, OpTypeOK, Stages
  <1>3. OpTypeOK'
    BY <1>1, <1>2 DEF OpInv, OpTypeOK
  <1>4. LockHolder'
    BY <1>1, <1>2, NoneIsNothing DEF LockHolder
  <1>5. StagesTrue'
    BY <1>1, <1>2 DEF OpInv, StagesTrue
  <1>6. AnswersAreTrue'
    BY <1>1, <1>2 DEF OpInv, AnswersAreTrue, OpTypeOK
  <1>7. NotifiedAfterCommit'
    BY <1>1, <1>2 DEF OpInv, NotifiedAfterCommit
  <1> QED BY <1>3, <1>4, <1>5, <1>6, <1>7 DEF OpInv

LEMMA StutterStep == OpInv /\ UNCHANGED opVars => OpInv'
  BY DEF opVars, OpInv, OpTypeOK, LockHolder, Row, StagesTrue, AnswersAreTrue, NotifiedAfterCommit

LEMMA OpStep == OpInv /\ [OpNext]_opVars => OpInv'
  <1> SUFFICES ASSUME OpInv, [OpNext]_opVars PROVE OpInv'
    OBVIOUS
  <1>1. ASSUME NEW r \in Requests, NEW c \in Commands, NEW k \in Keys \cup {None}, Send(r, c, k)
        PROVE  OpInv'
    BY <1>1, SendStep
  <1>2. ASSUME NEW r \in Requests, Serve(r)
        PROVE  OpInv'
    BY <1>2, ReplayStep, InvokeStep, AbortStep, CommitStep, NotifyStep DEF Serve, Process
  <1>3. CASE Crash
    BY <1>3, CrashStep
  <1>4. CASE UNCHANGED opVars
    BY <1>4, StutterStep
  <1> QED BY <1>1, <1>2, <1>3, <1>4 DEF OpNext

-----------------------------------------------------------------------------

\* The inductive invariant, in every reachable state of every instance.
THEOREM OperationsHold == OpSpec => []OpInv
  BY InitHolds, OpStep, PTL DEF OpSpec

\* A key has one effect, whatever repeats, reused keys, failures, lost
\* acknowledgements and crashes come together (ExecuteOperation).
THEOREM OneEffect == OpSpec => []OneEffectPerKey
  <1>1. OpInv => OneEffectPerKey
    <2> SUFFICES ASSUME OpInv, NEW q \in committed, NEW r \in committed,
                        req[q].key = req[r].key, req[r].key # None
                 PROVE  q = r
      BY DEF OneEffectPerKey
    <2>1. /\ stored[req[r].key] = [cmd |-> req[r].cmd, op |-> r]
          /\ stored[req[r].key] = [cmd |-> req[q].cmd, op |-> q]
      BY DEF OpInv, AnswersAreTrue
    <2> QED BY <2>1
  <1> QED BY <1>1, OperationsHold, PTL

\* A success names an operation that was committed for this key and command,
\* and a row is stored with its effect or not at all.
THEOREM TrueAnswers == OpSpec => []AnswersAreTrue
  <1>1. OpInv => AnswersAreTrue
    BY DEF OpInv
  <1> QED BY <1>1, OperationsHold, PTL

\* Callbacks run after COMMIT, in the request that performed the operation.
THEOREM CallbacksAfterCommit == OpSpec => []NotifiedAfterCommit
  <1>1. OpInv => NotifiedAfterCommit
    BY DEF OpInv
  <1> QED BY <1>1, OperationsHold, PTL

-----------------------------------------------------------------------------
(***************************************************************************)
(* The activity log client, proved for any number of workers, requests and *)
(* places in the queue: it does not disturb the operations it logs, and    *)
(* accounts for every event.                                               *)
(*                                                                         *)
(* That an event has one fate only is not inductive alone.  An event is    *)
(* new when its callback runs, because only callbacks that ran have fates; *)
(* and a worker gives up or finishes one that no other worker has, because *)
(* the queue holds no event twice and no two workers have the same.        *)
(***************************************************************************)

LogTypeOK ==
    /\ client \in {"nil", "open", "closing", "done"}
    /\ logging \subseteq Requests
    /\ pending \in Seq(Requests)
    /\ sender \in [Senders -> Requests \cup {None, Exited}]

\* A callback that logs has not returned.
LoggingUnderWay == \A r \in logging : req[r].at = "committed"

\* Each event is at one place of the queue and with one worker.
OneOfEach ==
    /\ \A i, j \in DOMAIN pending : pending[i] = pending[j] => i = j
    /\ \A v, w \in Senders : sender[v] = sender[w] /\ sender[v] \in Requests => v = w

\* Only callbacks that ran have events.
FatesOfNotified ==
    /\ Queued \subseteq notified /\ Sending \subseteq notified
    /\ dropped \subseteq notified /\ confirmed \subseteq notified
    /\ vanished \subseteq notified

Apart ==
    /\ Queued \cap Sending = {} /\ Queued \cap dropped = {} /\ Queued \cap confirmed = {}
    /\ Queued \cap vanished = {} /\ Sending \cap dropped = {} /\ Sending \cap confirmed = {}
    /\ Sending \cap vanished = {} /\ dropped \cap confirmed = {} /\ dropped \cap vanished = {}
    /\ confirmed \cap vanished = {}

\* No event gets lost.
AllHaveFates ==
    client # "nil" => notified \subseteq Queued \cup Sending \cup dropped \cup confirmed \cup vanished

LogInv ==
    /\ OpInv
    /\ LogTypeOK
    /\ LoggingUnderWay
    /\ OneOfEach
    /\ FatesOfNotified
    /\ Apart
    /\ AllHaveFates
    /\ client = "done" => pending = <<>>
    /\ confirmed \subseteq recorded /\ recorded \subseteq notified

-----------------------------------------------------------------------------
(* Sequences and workers as the sets of their events. *)

LEMMA AppendQueued ==
    ASSUME pending \in Seq(Requests), NEW r \in Requests, pending' = Append(pending, r)
    PROVE  Queued' = Queued \cup {r}
  <1>1. /\ DOMAIN pending = 1 .. Len(pending) /\ Len(pending) \in Nat
        /\ DOMAIN pending' = 1 .. (Len(pending) + 1)
        /\ \A i \in 1 .. Len(pending) : pending'[i] = pending[i]
        /\ pending'[Len(pending) + 1] = r
    OBVIOUS
  <1>2. Queued' \subseteq Queued \cup {r}
    BY <1>1 DEF Queued
  <1>3. Queued \subseteq Queued'
    BY <1>1 DEF Queued
  <1>4. r \in Queued'
    BY <1>1 DEF Queued
  <1> QED BY <1>2, <1>3, <1>4

LEMMA TakeQueued ==
    ASSUME pending \in Seq(Requests), pending # <<>>, pending' = Tail(pending),
           \A i, j \in DOMAIN pending : pending[i] = pending[j] => i = j
    PROVE  /\ Head(pending) \in Queued
           /\ Queued' = Queued \ {Head(pending)}
           /\ \A i, j \in DOMAIN pending' : pending'[i] = pending'[j] => i = j
           /\ pending' \in Seq(Requests)
  <1>1. /\ DOMAIN pending = 1 .. Len(pending) /\ Len(pending) \in Nat \ {0}
        /\ DOMAIN pending' = 1 .. (Len(pending) - 1)
        /\ \A i \in 1 .. (Len(pending) - 1) : pending'[i] = pending[i + 1]
        /\ Head(pending) = pending[1]
        /\ pending' \in Seq(Requests)
    OBVIOUS
  <1>2. Head(pending) \in Queued
    BY <1>1 DEF Queued
  <1>3. Queued' \subseteq Queued \ {Head(pending)}
    <2> SUFFICES ASSUME NEW e \in Queued' PROVE e \in Queued /\ e # Head(pending)
      OBVIOUS
    <2>1. PICK i \in DOMAIN pending' : e = pending'[i]
      BY DEF Queued
    <2>2. i + 1 \in DOMAIN pending /\ e = pending[i + 1] /\ i + 1 # 1 /\ 1 \in DOMAIN pending
      BY <1>1, <2>1
    <2> QED BY <1>1, <2>2 DEF Queued
  <1>4. Queued \ {Head(pending)} \subseteq Queued'
    <2> SUFFICES ASSUME NEW e \in Queued, e # Head(pending) PROVE e \in Queued'
      OBVIOUS
    <2>1. PICK i \in DOMAIN pending : e = pending[i] /\ i # 1
      BY <1>1 DEF Queued
    <2>2. i - 1 \in DOMAIN pending' /\ pending'[i - 1] = pending[(i - 1) + 1] /\ (i - 1) + 1 = i
      BY <1>1, <2>1
    <2> QED BY <2>1, <2>2 DEF Queued
  <1>5. \A i, j \in DOMAIN pending' : pending'[i] = pending'[j] => i = j
    <2> TAKE i, j \in DOMAIN pending'
    <2> HAVE pending'[i] = pending'[j]
    <2>1. i + 1 \in DOMAIN pending /\ j + 1 \in DOMAIN pending /\ pending[i + 1] = pending[j + 1]
      BY <1>1
    <2> QED BY <1>1, <2>1
  <1> QED BY <1>1, <1>2, <1>3, <1>4, <1>5

\* A queue without repetitions has as many events as places.
LEMMA QueuedSize ==
    ASSUME pending \in Seq(Requests),
           \A i, j \in DOMAIN pending : pending[i] = pending[j] => i = j
    PROVE  Cardinality(Queued) = Len(pending)
  <1>1. Len(pending) \in Nat /\ DOMAIN pending = 1 .. Len(pending)
    OBVIOUS
  <1>2. pending \in Bijection(1 .. Len(pending), Queued)
    BY <1>1 DEF Queued, Bijection, Injection, Surjection, IsInjective
  <1> QED BY <1>1, <1>2, FS_CountingElements DEF ExistsBijection

\* The set of events with workers after worker w got x instead of what it had.
LEMMA SenderChanges ==
    ASSUME LogInv, NEW w \in Senders, NEW x \in Requests \cup {None, Exited},
           x \in Requests => x \notin Sending,
           sender' = [sender EXCEPT ![w] = x]
    PROVE  /\ Sending' = (Sending \ {sender[w]}) \cup ({x} \ {None, Exited})
           /\ sender' \in [Senders -> Requests \cup {None, Exited}]
           /\ \A u, v \in Senders : sender'[u] = sender'[v] /\ sender'[u] \in Requests => u = v
  <1>1. /\ sender \in [Senders -> Requests \cup {None, Exited}]
        /\ \A u, v \in Senders : sender[u] = sender[v] /\ sender[u] \in Requests => u = v
        /\ None \notin Requests /\ Exited \notin Requests
    BY NoneIsNothing, ExitedIsNoRequest DEF LogInv, LogTypeOK, OneOfEach
  <1>2. /\ sender' \in [Senders -> Requests \cup {None, Exited}]
        /\ sender'[w] = x
        /\ \A v \in Senders : v # w => sender'[v] = sender[v]
    BY <1>1
  <1>3. \A u \in Senders : sender[u] \in Requests => sender[u] \in Sending
    BY <1>1 DEF Sending
  <1>4. \A u, v \in Senders : sender'[u] = sender'[v] /\ sender'[u] \in Requests => u = v
    BY <1>1, <1>2, <1>3
  <1>5. \A e : e \in Sending <=> e \in Requests /\ \E u \in Senders : sender[u] = e
    BY <1>1 DEF Sending
  <1>6. \A e : e \in Sending' <=> e \in Requests /\ \E u \in Senders : sender'[u] = e
    BY <1>1, <1>2 DEF Sending
  <1>7. \A e : e \in Sending' <=> e \in (Sending \ {sender[w]}) \cup ({x} \ {None, Exited})
    BY <1>1, <1>2, <1>5, <1>6
  <1> QED BY <1>2, <1>4, <1>7

-----------------------------------------------------------------------------
(* The log client takes the steps of Operations, and its own are none. *)

LEMMA LogStepIsOpStep == [LogNext]_activityVars => [OpNext]_opVars
  <1> SUFFICES ASSUME [LogNext]_activityVars PROVE [OpNext]_opVars
    OBVIOUS
  <1>1. ASSUME NEW r \in Requests, NEW c \in Commands, NEW k \in Keys \cup {None}, Send(r, c, k)
        PROVE  OpNext
    BY <1>1 DEF OpNext
  <1>2. ASSUME NEW r \in Requests, ServeAndLog(r)
        PROVE  [OpNext]_opVars
    <2>1. CASE Process(r)
      BY <2>1 DEF OpNext, Serve
    <2>2. CASE Notify(r)
      BY <2>2 DEF OpNext, Serve
    <2>3. CASE UNCHANGED opVars
      BY <2>3
    <2> QED BY <1>2, <2>1, <2>2, <2>3 DEF ServeAndLog, LogNothing, BuildEvent, Admit
  <1>3. ASSUME NEW w \in Senders, Work(w) \/ Record(w)
        PROVE  UNCHANGED opVars
    BY <1>3 DEF Work, Record, Take, Exit, Confirm, SendFails
  <1>4. CASE Close \/ Drain
    BY <1>4 DEF Close, Drain
  <1>5. CASE Restart
    BY <1>5 DEF Restart, OpNext
  <1>6. CASE UNCHANGED activityVars
    BY <1>6 DEF activityVars
  <1> QED BY <1>1, <1>2, <1>3, <1>4, <1>5, <1>6 DEF LogNext

-----------------------------------------------------------------------------
(* One lemma per action. *)

LEMMA LogInitHolds == LogInit => LogInv
  <1> SUFFICES ASSUME LogInit PROVE LogInv
    OBVIOUS
  <1>1. OpInv
    BY InitHolds DEF LogInit
  <1>2. Queued = {} /\ Sending = {}
    BY DEF LogInit, Queued, Sending
  <1>3. notified = {}
    BY DEF LogInit, OpInit
  <1>4. LogTypeOK /\ LoggingUnderWay
    BY DEF LogInit, LogTypeOK, LoggingUnderWay
  <1>5. OneOfEach
    BY NoneIsNothing DEF LogInit, OneOfEach
  <1> QED BY <1>1, <1>2, <1>3, <1>4, <1>5 DEF LogInit, LogInv, FatesOfNotified, Apart, AllHaveFates

\* A step of Operations other than a callback.
LEMMA ProcessStep ==
    ASSUME LogInv, OpInv', UNCHANGED logVars, notified' = notified,
           \A r \in logging : req'[r].at = "committed"
    PROVE  LogInv'
  <1>1. /\ UNCHANGED <<client, logging, pending, sender, dropped, confirmed, recorded, vanished>>
        /\ Queued' = Queued /\ Sending' = Sending
    BY DEF logVars, queueVars, fateVars, Queued, Sending
  <1> QED BY <1>1 DEF LogInv, LogTypeOK, LoggingUnderWay, OneOfEach, FatesOfNotified, Apart, AllHaveFates

\* The callback of request r runs, and its event gets a fate: it is queued or
\* dropped, or there is nobody to log to.
LEMMA CallbackStep ==
    ASSUME LogInv, OpInv', NEW r \in Requests, Notify(r),
           logging' = logging \ {r}, UNCHANGED <<client, sender>>, Keeps,
           \/ client = "nil" /\ UNCHANGED <<pending, dropped>>
           \/ Drops({r}) /\ UNCHANGED pending
           \/ client = "open" /\ pending' = Append(pending, r) /\ UNCHANGED dropped
    PROVE  LogInv'
  <1>1. /\ notified' = notified \cup {r} /\ r \notin notified
        /\ \A q \in Requests \ {r} : req'[q] = req[q]
    BY DEF Notify, Answer, LogInv, OpInv, OpTypeOK, StagesTrue
  <1>2. UNCHANGED <<confirmed, recorded, vanished>>
    BY DEF Keeps
  <1>3. LogTypeOK' /\ LoggingUnderWay'
    BY <1>1 DEF LogInv, LogTypeOK, LoggingUnderWay
  <1>4. Sending' = Sending
    BY DEF Sending
  <1>5. CASE UNCHANGED pending
    <2>1. Queued' = Queued
      BY <1>5 DEF Queued
    <2>2. dropped' = dropped \/ dropped' = dropped \cup {r}
      BY <1>5 DEF Drops
    <2>3. client # "nil" => dropped' = dropped \cup {r} \/ r \in Queued'
      <3>1. CASE pending' = Append(pending, r)
        BY <3>1, AppendQueued DEF LogInv, LogTypeOK
      <3> QED BY <3>1 DEF Drops
    <2> QED BY <2>1, <2>2, <2>3, <1>1, <1>2, <1>3, <1>4, <1>5
            DEF LogInv, OneOfEach, FatesOfNotified, Apart, AllHaveFates
  <1>6. CASE client = "open" /\ pending' = Append(pending, r) /\ UNCHANGED dropped
    <2>1. Queued' = Queued \cup {r} /\ r \notin Queued
      BY <1>6, <1>1, AppendQueued DEF LogInv, LogTypeOK, FatesOfNotified
    <2>2. \A i, j \in DOMAIN pending' : pending'[i] = pending'[j] => i = j
      <3>1. /\ DOMAIN pending = 1 .. Len(pending) /\ Len(pending) \in Nat
            /\ DOMAIN pending' = 1 .. (Len(pending) + 1)
            /\ \A i \in 1 .. Len(pending) : pending'[i] = pending[i]
            /\ pending'[Len(pending) + 1] = r
        BY <1>6 DEF LogInv, LogTypeOK
      <3>2. \A i \in 1 .. Len(pending) : pending[i] # r
        BY <2>1, <3>1 DEF Queued
      <3>3. \A i, j \in 1 .. Len(pending) : pending[i] = pending[j] => i = j
        BY <3>1 DEF LogInv, OneOfEach
      <3> QED BY <3>1, <3>2, <3>3
    <2> QED BY <2>1, <2>2, <1>1, <1>2, <1>3, <1>4, <1>6
            DEF LogInv, OneOfEach, FatesOfNotified, Apart, AllHaveFates
  <1> QED BY <1>5, <1>6

LEMMA TakeStep ==
    ASSUME LogInv, NEW w \in Senders, Take(w)
    PROVE  LogInv'
  <1> DEFINE e == Head(pending)
  <1>1. /\ sender[w] = None /\ pending # <<>> /\ pending' = Tail(pending)
        /\ UNCHANGED <<opVars, client, logging, confirmed, recorded, vanished>>
    BY DEF Take, Keeps
  <1>2. /\ e \in Queued /\ Queued' = Queued \ {e}
        /\ \A i, j \in DOMAIN pending' : pending'[i] = pending'[j] => i = j
        /\ pending' \in Seq(Requests)
    BY <1>1, TakeQueued DEF LogInv, LogTypeOK, OneOfEach
  <1>3. e \in Requests /\ e \notin Sending /\ None \notin Requests /\ Exited \notin Requests
    BY <1>1, <1>2, NoneIsNothing, ExitedIsNoRequest DEF LogInv, Apart, LogTypeOK
  <1>4. UNCHANGED <<req, notified>> /\ OpInv'
    BY <1>1, StutterStep DEF opVars, LogInv
  <1>5. sender[w] \notin Sending
    BY <1>1 DEF Sending
  <1> HIDE DEF e
  <1>6. CASE client = "open" /\ sender' = [sender EXCEPT ![w] = e] /\ UNCHANGED dropped
    <2>1. /\ Sending' = (Sending \ {sender[w]}) \cup ({e} \ {None, Exited})
          /\ sender' \in [Senders -> Requests \cup {None, Exited}]
          /\ \A u, v \in Senders : sender'[u] = sender'[v] /\ sender'[u] \in Requests => u = v
      BY <1>3, <1>6, SenderChanges
    <2>2. Sending' = Sending \cup {e}
      BY <2>1, <1>3, <1>5
    <2> QED BY <2>1, <2>2, <1>1, <1>2, <1>3, <1>4, <1>6
            DEF LogInv, LogTypeOK, LoggingUnderWay, OneOfEach, FatesOfNotified, Apart, AllHaveFates
  <1>7. CASE client # "open" /\ sender' = [sender EXCEPT ![w] = Exited] /\ Drops({e})
    <2>1. /\ Sending' = (Sending \ {sender[w]}) \cup ({Exited} \ {None, Exited})
          /\ sender' \in [Senders -> Requests \cup {None, Exited}]
          /\ \A u, v \in Senders : sender'[u] = sender'[v] /\ sender'[u] \in Requests => u = v
      BY <1>3, <1>7, SenderChanges
    <2>2. Sending' = Sending /\ dropped' = dropped \cup {e}
      BY <2>1, <1>5, <1>7 DEF Drops
    <2>3. client = "done" => pending' = <<>>
      BY <1>1 DEF LogInv
    <2> QED BY <2>1, <2>2, <2>3, <1>1, <1>2, <1>3, <1>4, <1>7
            DEF LogInv, LogTypeOK, LoggingUnderWay, OneOfEach, FatesOfNotified, Apart, AllHaveFates
  <1> QED BY <1>6, <1>7 DEF Take, e

\* A worker lets go of what it has: it exits, or the event is confirmed or
\* dropped.
LEMMA LetGoStep ==
    ASSUME LogInv, NEW w \in Senders, NEW x \in {None, Exited},
           sender' = [sender EXCEPT ![w] = x],
           UNCHANGED <<opVars, client, logging, pending, recorded, vanished>>,
           \/ sender[w] = None /\ UNCHANGED <<dropped, confirmed>>
           \/ sender[w] \in Requests /\ Drops({sender[w]}) /\ UNCHANGED confirmed
           \/ /\ sender[w] \in recorded /\ confirmed' = confirmed \cup {sender[w]}
              /\ UNCHANGED dropped
    PROVE  LogInv'
  <1>1. /\ Sending' = (Sending \ {sender[w]}) \cup ({x} \ {None, Exited})
        /\ sender' \in [Senders -> Requests \cup {None, Exited}]
        /\ \A u, v \in Senders : sender'[u] = sender'[v] /\ sender'[u] \in Requests => u = v
    BY NoneIsNothing, ExitedIsNoRequest, SenderChanges
  <1>2. Sending' = Sending \ {sender[w]}
    BY <1>1
  <1>3. UNCHANGED <<req, notified>> /\ OpInv' /\ Queued' = Queued
    BY StutterStep DEF opVars, LogInv, Queued
  <1>4. recorded \subseteq Requests
    BY DEF LogInv, OpInv, OpTypeOK
  <1>5. sender[w] \in Requests => sender[w] \in Sending
    BY NoneIsNothing, ExitedIsNoRequest DEF Sending
  <1>6. /\ \/ dropped' = dropped
           \/ dropped' = dropped \cup {sender[w]} /\ sender[w] \in Requests
        /\ \/ confirmed' = confirmed
           \/ confirmed' = confirmed \cup {sender[w]} /\ sender[w] \in recorded
        /\ sender[w] \in Sending => sender[w] \in dropped' \cup confirmed'
        /\ sender[w] \in Sending => dropped' = dropped \/ confirmed' = confirmed
    BY <1>4 DEF Drops, Sending
  <1>7. FatesOfNotified' /\ AllHaveFates'
    BY <1>2, <1>3, <1>4, <1>5, <1>6 DEF LogInv, FatesOfNotified, AllHaveFates
  <1>8. Apart'
    BY <1>2, <1>3, <1>4, <1>5, <1>6 DEF LogInv, Apart
  <1>9. LogTypeOK' /\ LoggingUnderWay' /\ OneOfEach'
    BY <1>1, <1>3 DEF LogInv, LogTypeOK, LoggingUnderWay, OneOfEach
  <1>10. confirmed' \subseteq recorded' /\ recorded' \subseteq notified'
    BY <1>3, <1>6 DEF LogInv
  <1> QED BY <1>3, <1>7, <1>8, <1>9, <1>10 DEF LogInv

LEMMA RecordStep ==
    ASSUME LogInv, NEW w \in Senders, Record(w)
    PROVE  LogInv'
  <1>1. /\ sender[w] \in Requests /\ recorded' = recorded \cup {sender[w]}
        /\ UNCHANGED <<opVars, queueVars, dropped, confirmed, vanished>>
    BY DEF Record
  <1>2. sender[w] \in notified
    BY <1>1, NoneIsNothing, ExitedIsNoRequest DEF LogInv, FatesOfNotified, Sending
  <1>3. OpInv' /\ UNCHANGED <<req, notified>>
    BY <1>1, StutterStep DEF LogInv, opVars
  <1>4. /\ UNCHANGED <<client, logging, pending, sender>>
        /\ Queued' = Queued /\ Sending' = Sending
    BY <1>1 DEF queueVars, Queued, Sending
  <1> QED BY <1>1, <1>2, <1>3, <1>4
          DEF LogInv, LogTypeOK, LoggingUnderWay, OneOfEach, FatesOfNotified, Apart, AllHaveFates

LEMMA CloseStep ==
    ASSUME LogInv, Close
    PROVE  LogInv'
  <1>1. /\ client = "open" /\ client' = "closing"
        /\ UNCHANGED <<opVars, logging, pending, sender, dropped, confirmed, recorded, vanished>>
    BY DEF Close, fateVars
  <1>2. OpInv' /\ UNCHANGED <<req, notified>> /\ Queued' = Queued /\ Sending' = Sending
    BY <1>1, StutterStep DEF LogInv, opVars, Queued, Sending
  <1> QED BY <1>1, <1>2
          DEF LogInv, LogTypeOK, LoggingUnderWay, OneOfEach, FatesOfNotified, Apart, AllHaveFates

LEMMA DrainStep ==
    ASSUME LogInv, Drain
    PROVE  LogInv'
  <1>1. /\ client = "closing" /\ client' = "done" /\ pending' = <<>>
        /\ dropped' = dropped \cup Queued
        /\ UNCHANGED <<opVars, logging, sender, confirmed, recorded, vanished>>
    BY DEF Drain, Drops, Keeps
  <1>2. OpInv' /\ UNCHANGED <<req, notified>> /\ Queued' = {} /\ Sending' = Sending
    BY <1>1, StutterStep DEF LogInv, opVars, Queued, Sending
  <1>3. LogTypeOK' /\ OneOfEach' /\ LoggingUnderWay'
    BY <1>1, <1>2 DEF LogInv, LogTypeOK, OneOfEach, LoggingUnderWay
  <1> QED BY <1>1, <1>2, <1>3 DEF LogInv, FatesOfNotified, Apart, AllHaveFates

LEMMA RestartStep ==
    ASSUME LogInv, Restart
    PROVE  LogInv'
  <1>1. /\ client' = IF client = "nil" THEN "nil" ELSE "open"
        /\ vanished' = vanished \cup Queued \cup Sending
        /\ logging' = {} /\ pending' = <<>>
        /\ sender' = [w \in Senders |-> None]
        /\ UNCHANGED <<dropped, confirmed, recorded>>
        /\ Crash
    BY DEF Restart
  <1>2. OpInv' /\ notified' = notified
    BY <1>1, CrashStep DEF LogInv, Crash
  <1>3. Queued' = {} /\ Sending' = {}
    BY <1>1 DEF Queued, Sending
  <1>4. LogTypeOK' /\ LoggingUnderWay'
    BY <1>1 DEF LogInv, LogTypeOK, LoggingUnderWay
  <1>5. OneOfEach'
    BY <1>1, NoneIsNothing DEF OneOfEach
  <1>6. client' # "done" /\ (client' # "nil" => client # "nil")
    BY <1>1
  <1> QED BY <1>1, <1>2, <1>3, <1>4, <1>5, <1>6 DEF LogInv, FatesOfNotified, Apart, AllHaveFates

LEMMA LogStep == LogInv /\ [LogNext]_activityVars => LogInv'
  <1> SUFFICES ASSUME LogInv, [LogNext]_activityVars PROVE LogInv'
    OBVIOUS
  <1>1. OpInv'
    BY LogStepIsOpStep, OpStep DEF LogInv
  <1>2. ASSUME NEW r \in Requests, NEW c \in Commands, NEW k \in Keys \cup {None},
               Send(r, c, k), UNCHANGED logVars
        PROVE  LogInv'
    <2>1. notified' = notified /\ \A q \in logging : req'[q].at = "committed"
      BY <1>2 DEF Send, LogInv, LoggingUnderWay, LogTypeOK, OpInv, OpTypeOK
    <2> QED BY <1>1, <1>2, <2>1, ProcessStep
  <1>3. ASSUME NEW r \in Requests, Process(r), UNCHANGED logVars
        PROVE  LogInv'
    <2>1. req[r].at # "committed" /\ notified' = notified
      BY <1>3 DEF Process, Replay, Invoke, Abort, Commit
    <2>2. \A q \in Requests \ {r} : req'[q] = req[q]
      BY <1>3 DEF Process, Replay, Invoke, Abort, Commit, Answer, LogInv, OpInv, OpTypeOK
    <2>3. \A q \in logging : req'[q].at = "committed"
      BY <2>1, <2>2 DEF LogInv, LoggingUnderWay, LogTypeOK
    <2> QED BY <1>1, <1>3, <2>1, <2>3, ProcessStep
  <1>4. ASSUME NEW r \in Requests, LogNothing(r)
        PROVE  LogInv'
    <2>1. logging' = logging \ {r} /\ UNCHANGED <<client, sender, pending>>
      BY <1>4 DEF LogNothing, queueVars
    <2> QED BY <1>1, <1>4, <2>1, CallbackStep DEF LogNothing
  <1>5. ASSUME NEW r \in Requests, BuildEvent(r)
        PROVE  LogInv'
    <2>1. /\ UNCHANGED <<req, notified, client, pending, sender, dropped, confirmed, recorded, vanished>>
          /\ logging' = logging \cup {r} /\ req[r].at = "committed"
          /\ Queued' = Queued /\ Sending' = Sending
      BY <1>5 DEF BuildEvent, opVars, fateVars, Queued, Sending
    <2> QED BY <1>1, <2>1
            DEF LogInv, LogTypeOK, LoggingUnderWay, OneOfEach, FatesOfNotified, Apart, AllHaveFates
  <1>6. ASSUME NEW r \in Requests, Admit(r)
        PROVE  LogInv'
    BY <1>1, <1>6, CallbackStep DEF Admit
  <1>7. ASSUME NEW w \in Senders, Work(w)
        PROVE  LogInv'
    <2>1. CASE Take(w)
      BY <2>1, TakeStep
    <2>2. CASE Exit(w)
      BY <2>2, LetGoStep DEF Exit, fateVars
    <2>3. CASE Confirm(w)
      BY <2>3, LetGoStep DEF Confirm
    <2>4. CASE SendFails(w)
      BY <2>4, LetGoStep DEF SendFails, Keeps
    <2> QED BY <1>7, <2>1, <2>2, <2>3, <2>4 DEF Work
  <1>8. ASSUME NEW w \in Senders, Record(w)
        PROVE  LogInv'
    BY <1>8, RecordStep
  <1>9. CASE Close \/ Drain \/ Restart
    BY <1>9, CloseStep, DrainStep, RestartStep
  <1>10. CASE UNCHANGED activityVars
    <2>1. UNCHANGED logVars /\ UNCHANGED <<req, notified>>
      BY <1>10 DEF activityVars, opVars
    <2> QED BY <1>1, <2>1, ProcessStep DEF LogInv, LoggingUnderWay
  <1> QED BY <1>2, <1>3, <1>4, <1>5, <1>6, <1>7, <1>8, <1>9, <1>10 DEF LogNext, ServeAndLog

-----------------------------------------------------------------------------

\* The composition is written as steps of Operations and steps beside them, so
\* that what is proved of Operations holds with the log client running.
LEMMA LoggingDisturbsNothing == LogSpec => OpSpec
  <1>1. LogInit => OpInit
    BY DEF LogInit
  <1> QED BY <1>1, LogStepIsOpStep, PTL DEF LogSpec, OpSpec

\* Every event of a callback that ran is queued, being sent, acknowledged,
\* counted as dropped or gone with its process, and only one of these.
THEOREM EventsHaveFates == LogSpec => []EventsAccounted
  <1>1. LogInv => EventsAccounted
    <2> SUFFICES ASSUME LogInv PROVE EventsAccounted
      OBVIOUS
    <2>1. Cardinality(Queued) = Len(pending)
      BY QueuedSize DEF LogInv, LogTypeOK, OneOfEach
    <2>2. \A i, j \in DOMAIN Fates : i # j => Fates[i] \cap Fates[j] = {}
      BY DEF LogInv, Apart, Fates
    <2> QED BY <2>1, <2>2 DEF LogInv, AllHaveFates, EventsAccounted
  <1>2. LogSpec => LogInit /\ [][LogNext]_activityVars
    BY PTL DEF LogSpec
  <1> QED BY <1>1, <1>2, LogInitHolds, LogStep, PTL

-----------------------------------------------------------------------------
(***************************************************************************)
(* Proofs about Commands for any number of requests, commands and keys.    *)
(*                                                                         *)
(* The server performs a key's command once (Operations); what remains is  *)
(* that the browser takes a new key exactly when the user means a new      *)
(* command.  The invariant therefore counts keys: the user meant a command *)
(* as often as it has had keys, as long as no lost session has made the    *)
(* browser give one up, and every success he was shown belongs to a key    *)
(* that is not kept any more.                                              *)
(***************************************************************************)

Pressed == {r \in Requests : req[r].at # "unsent"}

\* The keys the requests of command c were sent with.
KeysOf(c) == {req[r].key : r \in {q \in Pressed : req[q].cmd = c}}

\* The effects of command c whose key the browser does not keep.
Past(c) == {r \in committed : req[r].cmd = c /\ req[r].key # storageKey[c]}

CmdTyped ==
    /\ storageKey \in [Commands -> Keys \cup {None}]
    /\ waiting \subseteq Pressed
    /\ meant \in [Commands -> Nat]
    /\ announced \in [Commands -> Nat]
    /\ IsFiniteSet(committed)
    /\ \A c \in Commands : IsFiniteSet(KeysOf(c))
    /\ \A r \in Pressed : req[r].cmd \in Commands /\ req[r].key \in Keys

\* The browser waits for one response of a command at a time, that of the key
\* it keeps, and has sent each key that it keeps.
KeysKept ==
    /\ \A q, r \in waiting : req[q].cmd = req[r].cmd => q = r
    /\ \A r \in waiting : storageKey[req[r].cmd] = req[r].key
    /\ \A c \in Commands : storageKey[c] # None => storageKey[c] \in KeysOf(c)

KeysCounted ==
    \A c \in Commands \ keyLost :
        /\ c \in open <=> storageKey[c] # None
        /\ meant[c] = Cardinality(KeysOf(c))

ConfirmedPast == \A c \in Commands : announced[c] <= Cardinality(Past(c))

CmdInv == OpInv /\ CmdTyped /\ KeysKept /\ KeysCounted /\ ConfirmedPast

-----------------------------------------------------------------------------
(* What a step changes of the requests. *)

\* No request is sent, none gets another command or key, no effect is undone.
SameRequests ==
    /\ \A r \in Requests : /\ req'[r].cmd = req[r].cmd /\ req'[r].key = req[r].key
                           /\ req'[r].at = "unsent" <=> req[r].at = "unsent"
    /\ committed \subseteq committed'
    /\ IsFiniteSet(committed')

LEMMA SameKeys ==
    ASSUME SameRequests, NEW c
    PROVE  Pressed' = Pressed /\ KeysOf(c)' = KeysOf(c)
  <1>1. Pressed' = Pressed
    BY DEF SameRequests, Pressed
  <1>2. QED
    BY <1>1 DEF SameRequests, KeysOf, Pressed

\* More effects, or a key given up: no effect the user was told of gets lost.
LEMMA PastGrows ==
    ASSUME CmdInv, OpInv', SameRequests, NEW c \in Commands,
           storageKey'[c] \in {storageKey[c], None}
    PROVE  /\ Past(c) \subseteq Past(c)'
           /\ Cardinality(Past(c)) \in Nat /\ Cardinality(Past(c)') \in Nat
           /\ Cardinality(Past(c)) <= Cardinality(Past(c)')
  <1>1. /\ committed \subseteq Requests /\ committed' \subseteq Requests
        /\ \A r \in committed : r \in Pressed
    BY DEF CmdInv, OpInv, OpTypeOK, StagesTrue, Pressed
  <1>2. \A r \in committed : req[r].key # None
    BY <1>1, NoneIsNothing DEF CmdInv, CmdTyped
  <1>3. Past(c) \subseteq Past(c)'
    BY <1>1, <1>2 DEF Past, SameRequests
  <1>4. IsFiniteSet(committed')
    BY DEF SameRequests
  <1>5. Past(c)' \in SUBSET committed'
    BY DEF Past
  <1>6. IsFiniteSet(Past(c)')
    BY <1>4, <1>5, FS_Subset
  <1>7. Past(c) \in SUBSET (Past(c)')
    BY <1>3
  <1>8. IsFiniteSet(Past(c)) /\ Cardinality(Past(c)) <= Cardinality(Past(c)')
    BY <1>6, <1>7, FS_Subset
  <1>9. Cardinality(Past(c)) \in Nat /\ Cardinality(Past(c)') \in Nat
    BY <1>6, <1>8, FS_CardinalityType
  <1>10. QED
    BY <1>3, <1>8, <1>9

LEMMA QuietStep ==
    ASSUME CmdInv, OpInv', SameRequests, waiting' \subseteq waiting,
           UNCHANGED <<storageKey, userVars>>
    PROVE  CmdInv'
  <1> USE DEF CmdInv
  <1>1. UNCHANGED <<storageKey, meant, announced, open, keyLost>>
    BY DEF userVars
  <1>2. Pressed' = Pressed /\ \A c \in Commands : KeysOf(c)' = KeysOf(c)
    BY SameKeys
  <1>3. CmdTyped'
    BY <1>1, <1>2 DEF CmdTyped, SameRequests, Pressed
  <1>4. KeysKept'
    BY <1>1, <1>2 DEF KeysKept, CmdTyped, SameRequests, Pressed
  <1>5. KeysCounted'
    BY <1>1, <1>2 DEF KeysCounted
  <1>6. ConfirmedPast'
    <2> SUFFICES ASSUME NEW c \in Commands
                 PROVE  announced'[c] <= Cardinality(Past(c)')
      BY DEF ConfirmedPast
    <2>1. /\ Cardinality(Past(c)) \in Nat /\ Cardinality(Past(c)') \in Nat
          /\ Cardinality(Past(c)) <= Cardinality(Past(c)')
      BY <1>1, PastGrows
    <2>2. announced[c] \in Nat /\ announced[c] <= Cardinality(Past(c)) /\ announced'[c] = announced[c]
      BY <1>1 DEF ConfirmedPast, CmdTyped
    <2>3. QED
      BY <2>1, <2>2
  <1>7. QED
    BY <1>3, <1>4, <1>5, <1>6

LEMMA ServeSame ==
    ASSUME CmdInv, NEW r \in Requests, Serve(r)
    PROVE  SameRequests
  <1>0. OpTypeOK /\ IsFiniteSet(committed)
    BY DEF CmdInv, OpInv, CmdTyped
  <1> DEFINE Same == \A q \in Requests :
                       /\ req'[q].cmd = req[q].cmd /\ req'[q].key = req[q].key
                       /\ req'[q].at = "unsent" <=> req[q].at = "unsent"
  <1>1. ASSUME NEW a \in Answers, Answer(r, a), req[r].at # "unsent"
        PROVE  Same
    BY <1>0, <1>1, AnswerChanges
  <1>2. ASSUME NEW at \in {"invoked", "committed"}, req' = [req EXCEPT ![r].at = at],
               req[r].at # "unsent"
        PROVE  Same
    <2>1. req[r] \in [at : Stages, cmd : Commands \cup {None}, key : Keys \cup {None},
                      answer : Answers]
      BY <1>0 DEF OpTypeOK
    <2>2. req' = [req EXCEPT ![r] = [req[r] EXCEPT !.at = at]]
      BY <1>2, <1>0 DEF OpTypeOK
    <2> DEFINE e == [req[r] EXCEPT !.at = at]
    <2>3. e.at = at /\ e.cmd = req[r].cmd /\ e.key = req[r].key
      BY <2>1
    <2> HIDE DEF e
    <2>4. req'[r] = e /\ \A q \in Requests \ {r} : req'[q] = req[q]
      BY <1>0, <2>2 DEF OpTypeOK, e
    <2>5. QED
      BY <1>2, <2>3, <2>4
  <1>3. {Failed, Rejected, Conflict, Operation(r)} \subseteq Answers
    BY DEF Answers
  <1>4. CASE Replay(r)
    <2>1. Row(r).op \in Requests \/ Row(r).cmd # req[r].cmd
      BY <1>0, <1>4 DEF Replay, Row, OpTypeOK
    <2> DEFINE a == IF Row(r).cmd = req[r].cmd THEN Operation(Row(r).op) ELSE Conflict
    <2>2. a \in Answers
      BY <2>1 DEF Answers
    <2>3. Answer(r, a) /\ committed' = committed /\ req[r].at # "unsent"
      BY <1>4 DEF Replay
    <2> HIDE DEF a
    <2>4. QED
      BY <1>0, <1>1, <2>2, <2>3 DEF SameRequests
  <1>5. CASE Invoke(r)
    <2>1. Same
      BY <1>2, <1>5 DEF Invoke
    <2>2. QED
      BY <1>0, <1>5, <2>1 DEF Invoke, SameRequests
  <1>6. CASE Abort(r, Rejected) \/ Abort(r, Failed)
    <2>1. Same
      BY <1>1, <1>3, <1>6 DEF Abort
    <2>2. QED
      BY <1>0, <1>6, <2>1 DEF Abort, SameRequests
  <1>7. CASE Commit(r)
    <2>1. Same
      BY <1>1, <1>2, <1>3, <1>7 DEF Commit
    <2>2. committed' = committed \cup {r}
      BY <1>7 DEF Commit
    <2>3. QED
      BY <1>0, <2>1, <2>2, FS_AddElement DEF SameRequests
  <1>8. CASE Notify(r)
    <2>1. Same
      BY <1>1, <1>3, <1>8 DEF Notify
    <2>2. QED
      BY <1>0, <1>8, <2>1 DEF Notify, SameRequests
  <1>9. QED
    BY <1>4, <1>5, <1>6, <1>7, <1>8 DEF Serve, Process

LEMMA CrashSame ==
    ASSUME CmdInv, Crash
    PROVE  SameRequests
  <1>1. req \in [Requests -> [at : Stages, cmd : Commands \cup {None}, key : Keys \cup {None},
                              answer : Answers]]
    BY DEF CmdInv, OpInv, OpTypeOK
  <1>2. \A q \in Requests :
          /\ req'[q].cmd = req[q].cmd /\ req'[q].key = req[q].key
          /\ req'[q].at = "unsent" <=> req[q].at = "unsent"
    BY <1>1 DEF Crash, Stages
  <1>3. QED
    BY <1>2 DEF SameRequests, Crash, CmdInv, CmdTyped

LEMMA ServerStep ==
    ASSUME CmdInv, Server
    PROVE  CmdInv'
  <1>1. OpInv'
    BY OpStep DEF Server, OpNext, CmdInv
  <1>2. SameRequests
    BY ServeSame, CrashSame DEF Server
  <1>3. QED
    BY <1>1, <1>2, QuietStep DEF Server

-----------------------------------------------------------------------------
(* The browser's steps. *)

\* The server's state stays: only the browser has done something.
LEMMA BrowserSame ==
    ASSUME CmdInv, UNCHANGED opVars
    PROVE  OpInv' /\ SameRequests
  <1>1. OpInv'
    BY StutterStep DEF CmdInv
  <1>2. QED
    BY <1>1 DEF opVars, SameRequests, CmdInv, CmdTyped

LEMMA NetworkErrorStep ==
    ASSUME CmdInv, NEW r \in Requests, NetworkError(r)
    PROVE  CmdInv'
  BY BrowserSame, QuietStep DEF NetworkError

LEMMA EndSessionStep ==
    ASSUME CmdInv, EndSession
    PROVE  CmdInv'
  BY BrowserSame, QuietStep DEF EndSession

\* The browser forgets the key of command c.
GivesUp(c) == storageKey' = [storageKey EXCEPT ![c] = None]

\* The user is told nothing of another command.
OthersWait(c) ==
    /\ announced' \in [Commands -> Nat]
    /\ \A d \in Commands \ {c} : announced'[d] = announced[d]

\* Unless its outcome is given up, command c's is known now.
OutcomeKnown(c) ==
    \A d \in Commands \ keyLost' : /\ d \notin keyLost
                                   /\ d = c => d \notin open'
                                   /\ d # c => (d \in open' <=> d \in open)

\* The response the browser waits for has come, and says c's key is done with.
LEMMA KeyGiven ==
    ASSUME CmdInv, OpInv', SameRequests, NEW r \in waiting, NEW c, c = req[r].cmd,
           waiting' = waiting \ {r}, GivesUp(c),
           UNCHANGED meant, OthersWait(c), OutcomeKnown(c),
           announced'[c] <= Cardinality(Past(c)')
    PROVE  CmdInv'
  <1> USE DEF CmdInv
  <1>1. Pressed' = Pressed /\ \A d \in Commands : KeysOf(d)' = KeysOf(d)
    BY SameKeys
  <1>2. c \in Commands /\ r \in Requests
    BY DEF CmdTyped, Pressed
  <1>3. storageKey'[c] = None /\ \A d \in Commands \ {c} : storageKey'[d] = storageKey[d]
    BY <1>2 DEF CmdTyped, GivesUp
  <1>4. CmdTyped'
    <2>1. storageKey' \in [Commands -> Keys \cup {None}]
      BY DEF CmdTyped, GivesUp
    <2>2. QED
      BY <1>1, <2>1 DEF CmdTyped, SameRequests, Pressed, OthersWait
  <1>5. KeysKept'
    <2>1. \A q \in waiting' : q \in waiting /\ req[q].cmd # c /\ q \in Requests
                              /\ req[q].cmd \in Commands
      BY DEF KeysKept, CmdTyped, Pressed
    <2>2. \A q \in waiting' : storageKey'[req[q].cmd] = req[q].key
      BY <1>3, <2>1 DEF KeysKept
    <2>3. QED
      BY <1>1, <1>3, <2>1, <2>2 DEF KeysKept, SameRequests
  <1>6. KeysCounted'
    BY <1>1, <1>3 DEF KeysCounted, OutcomeKnown
  <1>7. ConfirmedPast'
    <2> SUFFICES ASSUME NEW d \in Commands
                 PROVE  announced'[d] <= Cardinality(Past(d)')
      BY DEF ConfirmedPast
    <2>1. CASE d = c
      BY <2>1
    <2>2. CASE d # c
      <3>1. /\ Cardinality(Past(d)) \in Nat /\ Cardinality(Past(d)') \in Nat
            /\ Cardinality(Past(d)) <= Cardinality(Past(d)')
        BY <1>3, <2>2, PastGrows
      <3>2. announced[d] \in Nat /\ announced[d] <= Cardinality(Past(d))
            /\ announced'[d] = announced[d]
        BY <2>2 DEF ConfirmedPast, CmdTyped, OthersWait
      <3>3. QED
        BY <3>1, <3>2
    <2>3. QED
      BY <2>1, <2>2
  <1>8. QED
    BY <1>4, <1>5, <1>6, <1>7

LEMMA UnauthorizedStep ==
    ASSUME CmdInv, NEW r \in Requests, Unauthorized(r)
    PROVE  CmdInv'
  <1> USE DEF CmdInv
  <1>1. /\ req' = [req EXCEPT ![r].at = IF @ = "sent" THEN "lost" ELSE @]
        /\ UNCHANGED <<stored, userLock, committed, notified>>
    BY DEF Unauthorized
  <1>2. /\ req' \in [Requests -> [at : Stages, cmd : Commands \cup {None},
                                  key : Keys \cup {None}, answer : Answers]]
        /\ \A q \in Requests : /\ req'[q].cmd = req[q].cmd /\ req'[q].key = req[q].key
                               /\ req'[q].answer = req[q].answer
                               /\ \/ req'[q].at = req[q].at
                                  \/ req[q].at = "sent" /\ req'[q].at = "lost"
    BY <1>1 DEF OpInv, OpTypeOK, Stages
  <1>3. OpInv'
    <2>1. OpTypeOK'
      BY <1>1, <1>2 DEF OpInv, OpTypeOK
    <2>2. LockHolder'
      BY <1>1, <1>2 DEF OpInv, LockHolder, Row
    <2>3. StagesTrue'
      BY <1>1, <1>2 DEF OpInv, StagesTrue
    <2>4. AnswersAreTrue'
      BY <1>1, <1>2 DEF OpInv, AnswersAreTrue, OpTypeOK
    <2>5. NotifiedAfterCommit'
      BY <1>1, <1>2 DEF OpInv, NotifiedAfterCommit
    <2>6. QED
      BY <2>1, <2>2, <2>3, <2>4, <2>5 DEF OpInv
  <1>4. SameRequests
    BY <1>1, <1>2 DEF SameRequests, CmdTyped
  <1>41. req[r].cmd \in Commands /\ r \in waiting
    BY DEF CmdTyped, Unauthorized
  <1>42. PICK c \in Commands : c = req[r].cmd
    BY <1>41
  <1>5. /\ r \in waiting /\ waiting' = waiting \ {r}
        /\ storageKey' = [storageKey EXCEPT ![c] = None] /\ keyLost' = keyLost \cup {c}
        /\ UNCHANGED <<meant, announced, open>>
    BY <1>42 DEF Unauthorized
  <1>6. c \in Commands
    OBVIOUS
  <1>7. announced'[c] <= Cardinality(Past(c)')
    <2>1. storageKey'[c] = None
      BY <1>5, <1>6 DEF CmdTyped
    <2>2. /\ Cardinality(Past(c)) \in Nat /\ Cardinality(Past(c)') \in Nat
          /\ Cardinality(Past(c)) <= Cardinality(Past(c)')
      BY <1>3, <1>4, <1>6, <2>1, PastGrows
    <2>3. announced[c] \in Nat /\ announced[c] <= Cardinality(Past(c))
          /\ announced'[c] = announced[c]
      BY <1>5, <1>6 DEF ConfirmedPast, CmdTyped
    <2>4. QED
      BY <2>2, <2>3
  <1>8. c = req[r].cmd /\ OthersWait(c) /\ OutcomeKnown(c) /\ GivesUp(c)
    BY <1>42, <1>5 DEF CmdTyped, OthersWait, OutcomeKnown, GivesUp, KeysCounted, KeysKept
  <1>9. QED
    BY <1>3, <1>4, <1>5, <1>7, <1>8, KeyGiven

LEMMA ReceiveStep ==
    ASSUME CmdInv, NEW r \in Requests, Receive(r)
    PROVE  CmdInv'
  <1> USE DEF CmdInv
  <1> DEFINE kind == req[r].answer.kind
  <1>01. req[r].cmd \in Commands /\ r \in waiting
    BY DEF CmdTyped, Receive
  <1>31. PICK c \in Commands : c = req[r].cmd
    BY <1>01
  <1>1. OpInv' /\ SameRequests /\ UNCHANGED <<req, committed>>
    BY BrowserSame DEF Receive, opVars
  <1>2. /\ r \in waiting /\ waiting' = waiting \ {r}
        /\ storageKey' = [storageKey EXCEPT ![c] = IF kind \in Settled THEN None ELSE @]
        /\ open' = IF kind \in Settled THEN open \ {c} ELSE open
        /\ announced' = [announced EXCEPT ![c] = IF kind = "success" THEN @ + 1 ELSE @]
        /\ UNCHANGED <<meant, keyLost>>
    BY <1>31 DEF Receive
  <1>3. /\ c \in Commands /\ storageKey[c] = req[r].key
        /\ announced \in [Commands -> Nat] /\ storageKey \in [Commands -> Keys \cup {None}]
    BY <1>2, <1>31 DEF CmdTyped, KeysKept
  <1>4. CASE kind \notin Settled
    <2>1. kind # "success"
      BY <1>4 DEF Settled
    <2> HIDE DEF kind
    <2>2. storageKey' = storageKey /\ announced' = announced
      BY <1>2, <1>3, <1>4, <2>1
    <2>3. UNCHANGED <<storageKey, userVars>>
      BY <1>2, <1>4, <2>2 DEF userVars
    <2>4. QED
      BY <1>1, <1>2, <2>3, QuietStep
  <1>5. CASE kind \in Settled
    <2>1. storageKey' = [storageKey EXCEPT ![c] = None]
      BY <1>2, <1>5
    <2>2. /\ storageKey'[c] = None
          /\ announced' \in [Commands -> Nat]
          /\ \A d \in Commands \ {c} : announced'[d] = announced[d]
          /\ announced'[c] = IF kind = "success" THEN announced[c] + 1 ELSE announced[c]
      BY <1>2, <1>3, <2>1
    <2>3. /\ Past(c) \subseteq Past(c)'
          /\ Cardinality(Past(c)) \in Nat /\ Cardinality(Past(c)') \in Nat
          /\ Cardinality(Past(c)) <= Cardinality(Past(c)')
      BY <1>1, <1>3, <2>2, PastGrows
    <2>4. announced[c] \in Nat /\ announced[c] <= Cardinality(Past(c))
      BY <1>3 DEF ConfirmedPast
    <2>5. announced'[c] <= Cardinality(Past(c)')
      <3>1. CASE kind # "success"
        BY <2>2, <2>3, <2>4, <3>1
      <3>2. CASE kind = "success"
        <4> DEFINE op == req[r].answer.op
        <4>1. op \in committed /\ req[op].key = req[r].key /\ req[op].cmd = c
          BY <1>31, <3>2 DEF OpInv, AnswersAreTrue
        <4>2. op \notin Past(c)
          BY <1>3, <4>1 DEF Past
        <4>3. req[op].key # None
          <5>1. op \in Pressed
            BY <4>1 DEF OpInv, OpTypeOK, StagesTrue, Pressed
          <5>2. QED
            BY <5>1, NoneIsNothing DEF CmdTyped
        <4>4. op \in Past(c)'
          BY <1>1, <2>2, <4>1, <4>3 DEF Past
        <4> HIDE DEF op
        <4>5. IsFiniteSet(Past(c)') /\ IsFiniteSet(Past(c))
          <5>1. IsFiniteSet(committed') /\ Past(c)' \in SUBSET committed'
                /\ IsFiniteSet(committed) /\ Past(c) \in SUBSET committed
            BY <1>1 DEF Past, CmdTyped
          <5>2. QED
            BY <5>1, FS_Subset
        <4>6. Cardinality(Past(c) \cup {op}) = Cardinality(Past(c)) + 1
          BY <4>2, <4>5, FS_AddElement
        <4>7. Past(c) \cup {op} \in SUBSET (Past(c)')
          BY <2>3, <4>4
        <4>8. Cardinality(Past(c) \cup {op}) <= Cardinality(Past(c)')
          BY <4>5, <4>7, FS_Subset
        <4>9. QED
          BY <2>2, <2>3, <2>4, <3>2, <4>6, <4>8
      <3>3. QED
        BY <3>1, <3>2
    <2>6. OutcomeKnown(c) /\ OthersWait(c)
      BY <1>2, <1>5, <2>2 DEF OutcomeKnown, OthersWait
    <2>7. r \in waiting /\ waiting' = waiting \ {r} /\ UNCHANGED meant /\ GivesUp(c)
      BY <1>2, <2>1 DEF GivesUp
    <2>8. QED
      BY <1>1, <1>31, <2>5, <2>6, <2>7, KeyGiven
  <1>6. QED
    BY <1>4, <1>5

LEMMA PressStep ==
    ASSUME CmdInv, NEW r \in Requests, NEW c \in Commands, NEW k \in Keys, Press(r, c, k)
    PROVE  CmdInv'
  <1> USE DEF CmdInv
  <1>1. /\ req[r].at = "unsent" /\ KeyFor(c, k)
        /\ req' = [req EXCEPT ![r] = Sent(c, k)]
        /\ UNCHANGED <<stored, userLock, committed, notified>>
        /\ \A q \in waiting : req[q].cmd # c
        /\ storageKey' = [storageKey EXCEPT ![c] = k]
        /\ waiting' = waiting \cup {r}
        /\ meant' = IF c \in open THEN meant ELSE [meant EXCEPT ![c] = @ + 1]
        /\ open' = open \cup {c}
        /\ UNCHANGED <<announced, keyLost>>
    BY DEF Press, Send
  <1>2. OpInv'
    BY SendStep DEF Press
  <1>3. Sent(c, k).at = "sent" /\ Sent(c, k).cmd = c /\ Sent(c, k).key = k
    BY DEF Sent, Unsent
  <1>4. req'[r] = Sent(c, k) /\ \A q \in Requests \ {r} : req'[q] = req[q]
    BY <1>1 DEF OpInv, OpTypeOK
  <1>5. /\ Pressed' = Pressed \cup {r} /\ r \notin Pressed
        /\ \A q \in Pressed : q \in Requests /\ req'[q] = req[q]
    BY <1>1, <1>3, <1>4 DEF Pressed
  <1>6. /\ KeysOf(c)' = KeysOf(c) \cup {k}
        /\ \A d \in Commands \ {c} : KeysOf(d)' = KeysOf(d)
    <2>1. KeysOf(c)' = KeysOf(c) \cup {k}
      BY <1>3, <1>4, <1>5 DEF KeysOf
    <2>2. \A d \in Commands \ {c} : KeysOf(d)' = KeysOf(d)
      BY <1>3, <1>4, <1>5 DEF KeysOf
    <2>3. QED
      BY <2>1, <2>2
  <1>7. /\ IsFiniteSet(KeysOf(c)) /\ IsFiniteSet(KeysOf(c)') /\ Cardinality(KeysOf(c)) \in Nat
        /\ Cardinality(KeysOf(c)') = IF k \in KeysOf(c) THEN Cardinality(KeysOf(c))
                                     ELSE Cardinality(KeysOf(c)) + 1
    BY <1>6, FS_AddElement, FS_CardinalityType DEF CmdTyped
  <1>8. storageKey'[c] = k /\ \A d \in Commands \ {c} : storageKey'[d] = storageKey[d]
    BY <1>1 DEF CmdTyped
  <1>9. CmdTyped'
    <2>1. storageKey' \in [Commands -> Keys \cup {None}] /\ meant' \in [Commands -> Nat]
      BY <1>1 DEF CmdTyped
    <2>2. \A q \in Pressed' : req'[q].cmd \in Commands /\ req'[q].key \in Keys
      BY <1>3, <1>4, <1>5 DEF CmdTyped
    <2>3. \A d \in Commands : IsFiniteSet(KeysOf(d)')
      BY <1>6, <1>7 DEF CmdTyped
    <2>4. QED
      BY <1>1, <1>5, <2>1, <2>2, <2>3 DEF CmdTyped
  <1>10. KeysKept'
    <2>1. \A q \in waiting' : \/ q = r /\ req'[q].cmd = c /\ req'[q].key = k
                              \/ /\ q \in waiting /\ req'[q] = req[q] /\ req[q].cmd # c
                                 /\ req[q].cmd \in Commands
      BY <1>1, <1>3, <1>4, <1>5 DEF CmdTyped
    <2>2. \A q, p \in waiting' : req'[q].cmd = req'[p].cmd => q = p
      BY <2>1 DEF KeysKept
    <2>3. \A q \in waiting' : storageKey'[req'[q].cmd] = req'[q].key
      BY <1>8, <2>1 DEF KeysKept
    <2>4. \A d \in Commands : storageKey'[d] # None => storageKey'[d] \in KeysOf(d)'
      BY <1>6, <1>8 DEF KeysKept
    <2>5. QED
      BY <2>2, <2>3, <2>4 DEF KeysKept
  <1>11. storageKey[c] = None => k \notin KeysOf(c) /\ \A q \in Requests : req[q].key # k
    BY <1>1 DEF KeyFor, KeysOf, Pressed
  <1>12. storageKey[c] # None => k = storageKey[c] /\ k \in KeysOf(c)
    BY <1>1 DEF KeyFor, KeysKept
  <1>13. KeysCounted'
    <2> SUFFICES ASSUME NEW d \in Commands \ keyLost
                 PROVE  /\ d \in open' <=> storageKey'[d] # None
                        /\ meant'[d] = Cardinality(KeysOf(d)')
      BY <1>1 DEF KeysCounted
    <2>1. CASE d # c
      BY <1>1, <1>6, <1>8, <2>1 DEF KeysCounted, CmdTyped
    <2>2. CASE d = c
      <3>1. (c \in open <=> storageKey[c] # None) /\ meant[c] = Cardinality(KeysOf(c))
        BY <2>2 DEF KeysCounted
      <3>2. meant'[c] = IF c \in open THEN meant[c] ELSE meant[c] + 1
        BY <1>1 DEF CmdTyped
      <3>3. storageKey'[c] # None /\ c \in open'
        BY <1>1, <1>8, NoneIsNothing
      <3>4. meant'[c] = Cardinality(KeysOf(c)')
        BY <1>7, <1>11, <1>12, <3>1, <3>2
      <3>5. QED
        BY <2>2, <3>3, <3>4
    <2>3. QED
      BY <2>1, <2>2
  <1>14. ConfirmedPast'
    <2>1. committed \subseteq Requests /\ r \notin committed
      BY <1>1 DEF OpInv, OpTypeOK, StagesTrue
    <2>2. \A q \in committed : req'[q] = req[q] /\ q \in Pressed
      BY <1>4, <2>1 DEF OpInv, StagesTrue, Pressed
    <2>3. \A q \in committed : req[q].key # None
      BY <2>2, NoneIsNothing DEF CmdTyped
    <2>4. \A d \in Commands \ {c} : Past(d)' = Past(d)
      BY <1>1, <1>8, <2>2 DEF Past
    <2>5. Past(c)' = Past(c)
      <3>1. CASE storageKey[c] = None
        BY <1>1, <1>8, <1>11, <2>1, <2>2, <2>3, <3>1 DEF Past
      <3>2. CASE storageKey[c] # None
        BY <1>1, <1>8, <1>12, <2>2, <3>2 DEF Past
      <3>3. QED
        BY <3>1, <3>2
    <2>6. QED
      BY <1>1, <2>4, <2>5 DEF ConfirmedPast
  <1>15. QED
    BY <1>2, <1>9, <1>10, <1>13, <1>14

LEMMA CmdStep == CmdInv /\ [CmdNext]_cmdVars => CmdInv'
  <1> SUFFICES ASSUME CmdInv, [CmdNext]_cmdVars PROVE CmdInv'
    OBVIOUS
  <1>1. CASE UNCHANGED cmdVars
    <2>1. UNCHANGED opVars /\ UNCHANGED <<storageKey, userVars>> /\ waiting' = waiting
      BY <1>1 DEF cmdVars
    <2>2. QED
      BY <2>1, BrowserSame, QuietStep
  <1>2. QED
    BY <1>1, PressStep, ReceiveStep, NetworkErrorStep, UnauthorizedStep, EndSessionStep,
       ServerStep DEF CmdNext

LEMMA CmdInitHolds == CmdInit => CmdInv
  <1> SUFFICES ASSUME CmdInit PROVE CmdInv
    OBVIOUS
  <1>1. OpInv
    BY InitHolds DEF CmdInit
  <1>2. Pressed = {} /\ committed = {}
    BY DEF CmdInit, OpInit, Unsent, Pressed
  <1>3. \A c : KeysOf(c) = {} /\ Past(c) = {}
    BY <1>2 DEF KeysOf, Past
  <1>4. IsFiniteSet({}) /\ Cardinality({}) = 0
    BY FS_EmptySet
  <1>5. CmdTyped
    BY <1>2, <1>3, <1>4 DEF CmdInit, CmdTyped
  <1>6. KeysKept /\ KeysCounted /\ ConfirmedPast
    <2>1. KeysKept
      BY DEF CmdInit, KeysKept
    <2>2. \A c \in Commands : /\ Cardinality(KeysOf(c)) = 0 /\ Cardinality(Past(c)) = 0
                              /\ meant[c] = 0 /\ announced[c] = 0 /\ storageKey[c] = None
                              /\ c \notin open
      BY <1>3, <1>4 DEF CmdInit
    <2>3. KeysCounted
      BY <2>2 DEF KeysCounted
    <2>4. ConfirmedPast
      BY <2>2 DEF ConfirmedPast
    <2>5. QED
      BY <2>1, <2>3, <2>4
  <1>7. QED
    BY <1>1, <1>5, <1>6 DEF CmdInv

\* The keys count the user's intentions, in every reachable state.
THEOREM CommandsHold == CmdSpec => []CmdInv
  BY CmdInitHolds, CmdStep, PTL DEF CmdSpec

\* However often responses get lost, requests fail or are repeated and the
\* server crashes, a command that never met the 401 of a lost session takes
\* effect at most as often as the user meant it to (command, api).
THEOREM MeantEffects == CmdSpec => []EffectsAsMeantWhileSignedIn
  <1>1. ASSUME CmdInv, NEW c \in Commands \ keyLost
        PROVE  Effects(c) <= meant[c]
    <2> DEFINE S == {r \in committed : req[r].cmd = c}
               f == [r \in S |-> req[r].key]
    <2>1. \A r \in S : r \in Pressed /\ r \in Requests
      BY <1>1 DEF CmdInv, OpInv, OpTypeOK, StagesTrue, Pressed
    <2>2. \A r \in S : req[r].key \in KeysOf(c) /\ req[r].key # None /\ req[r].key \in Keys
      BY <1>1, <2>1, NoneIsNothing DEF CmdInv, CmdTyped, KeysOf
    <2>3. \A q, r \in S : req[q].key = req[r].key => q = r
      <3> SUFFICES ASSUME NEW q \in S, NEW r \in S, req[q].key = req[r].key
                   PROVE  q = r
        OBVIOUS
      <3>1. /\ stored[req[r].key] = [cmd |-> req[r].cmd, op |-> r]
            /\ stored[req[r].key] = [cmd |-> req[q].cmd, op |-> q]
        BY <1>1, <2>2 DEF CmdInv, OpInv, AnswersAreTrue
      <3>2. QED
        BY <3>1
    <2>4. f \in Injection(S, KeysOf(c))
      BY <2>2, <2>3 DEF Injection, IsInjective
    <2>5. IsFiniteSet(KeysOf(c)) /\ meant[c] = Cardinality(KeysOf(c))
      BY <1>1 DEF CmdInv, CmdTyped, KeysCounted
    <2> HIDE DEF f, S
    <2>6. Cardinality(S) <= Cardinality(KeysOf(c))
      BY <2>4, <2>5, FS_Injection
    <2>7. QED
      BY <2>5, <2>6 DEF Effects, S
  <1>2. CmdInv => EffectsAsMeantWhileSignedIn
    BY <1>1 DEF EffectsAsMeantWhileSignedIn
  <1>3. QED
    BY <1>2, CommandsHold, PTL

\* Every success that the user is shown is another effect of the command.
THEOREM NewConfirmations == CmdSpec => []ConfirmedIsNew
  <1>1. ASSUME CmdInv, NEW c \in Commands
        PROVE  announced[c] <= Effects(c)
    <2> DEFINE S == {r \in committed : req[r].cmd = c}
    <2>1. IsFiniteSet(committed) /\ S \in SUBSET committed
      BY <1>1 DEF CmdInv, CmdTyped
    <2>2. IsFiniteSet(S) /\ Past(c) \in SUBSET S
      BY <2>1, FS_Subset DEF Past
    <2> HIDE DEF S
    <2>3. IsFiniteSet(Past(c)) /\ Cardinality(Past(c)) <= Cardinality(S)
      BY <2>2, FS_Subset
    <2>4. Cardinality(Past(c)) \in Nat /\ Cardinality(S) \in Nat
      BY <2>2, <2>3, FS_CardinalityType
    <2>5. announced[c] \in Nat /\ announced[c] <= Cardinality(Past(c))
      BY <1>1 DEF CmdInv, CmdTyped, ConfirmedPast
    <2>6. announced[c] <= Cardinality(S)
      BY <2>3, <2>4, <2>5
    <2>7. QED
      BY <2>6 DEF Effects, S
  <1>2. CmdInv => ConfirmedIsNew
    BY <1>1 DEF ConfirmedIsNew
  <1>3. QED
    BY <1>2, CommandsHold, PTL

=============================================================================
