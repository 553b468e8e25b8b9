------------------------ MODULE ReminderRulesProofs ------------------------
(***************************************************************************)
(* Proofs about ReminderRules for requests of any length and any sequence  *)
(* of edits, deliveries and changes of tariff: what one turn of the loop   *)
(* of PlanReminders adds, what the whole loop makes of a request, by an    *)
(* induction over its turns, and what an edit leaves in the table.         *)
(***************************************************************************)
EXTENDS ReminderRules, FiniteSetTheorems, TLAPS

\* Induction on the natural numbers, by way of the least exception.
LEMMA SetInduction ==
    ASSUME NEW S, 0 \in S, \A n \in Nat : n \in S => n + 1 \in S
    PROVE  Nat \subseteq S
<1> DEFINE T == Nat \ S
           R == OpToRel(<, Nat)
<1>1. SUFFICES ASSUME T # {} PROVE FALSE OBVIOUS
<1>2. IsWellFoundedOn(R, Nat) BY NatLessThanWellFounded
<1>3. \E x \in T : \A y \in T : ~ (<<y, x>> \in R)
  <2> HIDE DEF R, T
  <2>1. T \subseteq Nat BY DEF T
  <2> QED BY <1>1, <1>2, <2>1, WFMin
<1>4. PICK x \in T : \A y \in T : ~ (<<y, x>> \in R) BY <1>3
<1>5. \A y \in Nat : y < x => y \in S
  BY <1>4 DEF OpToRel
<1>6. x # 0 /\ x \in Nat /\ x - 1 \in Nat /\ x - 1 < x OBVIOUS
<1>7. x - 1 \in S BY <1>5, <1>6
<1>8. (x - 1) + 1 \in S BY <1>7, <1>6
<1> QED BY <1>8, <1>6

\* The recursion of Plans has a solution, so that Plans is one.
LEMMA PlansUnfold ==
    ASSUME NEW inputs, Len(inputs) \in Nat, NEW due
    PROVE  LET plan == Plans(inputs, due)
           IN  /\ plan[0] = NoPlan
               /\ \A k \in 1..Len(inputs) : plan[k] = PlanRow(plan[k - 1], inputs[k], due)
<1> DEFINE n == Len(inputs)
           Turn(g, k) == IF k = 0 THEN NoPlan ELSE PlanRow(g[k - 1], inputs[k], due)
           Upto == {m \in Nat : m <= n => \E h : \A k \in 0..m : h[k] = Turn(h, k)}
<1> HIDE DEF n
<1>1. n \in Nat BY DEF n
<1>2. 0 \in Upto
  <2>1. \A k \in 0..0 : [j \in 0..0 |-> NoPlan][k] = Turn([j \in 0..0 |-> NoPlan], k)
    OBVIOUS
  <2> QED BY <2>1
<1>3. ASSUME NEW m \in Nat, m \in Upto PROVE m + 1 \in Upto
  <2>1. SUFFICES ASSUME m + 1 <= n
                 PROVE  \E h : \A k \in 0..m + 1 : h[k] = Turn(h, k)
    OBVIOUS
  <2>2. PICK h : \A k \in 0..m : h[k] = Turn(h, k)
    BY <1>1, <1>3, <2>1
  <2> DEFINE g == [k \in 0..m + 1 |-> IF k <= m THEN h[k] ELSE PlanRow(h[m], inputs[m + 1], due)]
  <2>3. ASSUME NEW k \in 0..m + 1 PROVE g[k] = Turn(g, k)
    <3>1. CASE k = m + 1
      <4>1. g[k] = PlanRow(h[m], inputs[k], due) BY <3>1
      <4>2. g[k - 1] = h[m] /\ k # 0 BY <3>1
      <4> QED BY <4>1, <4>2
    <3>2. CASE k \in 1..m
      <4>1. g[k] = h[k] /\ g[k - 1] = h[k - 1] BY <3>2
      <4> QED BY <4>1, <3>2, <2>2
    <3>3. CASE k = 0
      BY <3>3, <2>2
    <3> QED BY <3>1, <3>2, <3>3
  <2> QED BY <2>3
<1>4. n \in Upto
  <2> HIDE DEF Upto
  <2> QED BY <1>1, <1>2, <1>3, SetInduction
<1>5. PICK h : \A k \in 0..n : h[k] = Turn(h, k)
  <2>1. n <= n => \E h : \A k \in 0..n : h[k] = Turn(h, k)
    <3> HIDE DEF Turn
    <3> QED BY <1>4
  <2> HIDE DEF Turn
  <2> QED BY <2>1, <1>1
<1> DEFINE f == [k \in 0..n |-> h[k]]
           Solves(g) == g = [k \in 0..n |-> Turn(g, k)]
<1>6. Solves(f)
  <2>1. ASSUME NEW k \in 0..n PROVE f[k] = Turn(f, k)
    <3>1. CASE k = 0 BY <3>1, <1>5
    <3>2. CASE k # 0
      <4>1. k - 1 \in 0..n BY <3>2, <1>1
      <4> QED BY <4>1, <3>2, <1>5
    <3> QED BY <3>1, <3>2
  <2> QED BY <2>1
<1>7. Plans(inputs, due) = CHOOSE g : Solves(g)
  BY DEF Plans, n
<1>8. Solves(Plans(inputs, due))
  <2> HIDE DEF Solves
  <2> QED BY <1>6, <1>7
<1> DEFINE plan == Plans(inputs, due)
<1>9. ASSUME NEW k \in 0..n PROVE plan[k] = Turn(plan, k)
  <2> HIDE DEF plan
  <2>1. plan = [i \in 0..n |-> Turn(plan, i)] BY <1>8 DEF plan
  <2> HIDE DEF Turn
  <2> QED BY <2>1
<1> QED BY <1>9, <1>1 DEF n

-----------------------------------------------------------------------------
(* One turn of the loop. *)

Statuses == {"scheduled", "sent", "failed"}
Instants == Int \cup {None}

RowType == [id : Nat, off : Instants, at : Int, status : Statuses]
InputType == [id : Nat, off : Instants]
PlanType == [error : BOOLEAN, ids : SUBSET Nat, rows : SUBSET RowType, changed : BOOLEAN]

RowsTyped ==
    /\ used \in Nat /\ now \in Nat /\ premium \in BOOLEAN
    /\ deadline \in Instants
    /\ rows \subseteq [id : 1..used, off : 0..MaxOffset \cup {None}, at : Int, status : Statuses]
    /\ \A r, q \in rows : r.id = q.id => r = q

\* The rules about one input (Allowed without its pairs and its limit).
Fits(i, due) ==
    /\ i.id = 0 \/ Known(i.id)
    /\ KeepsInstant(i) \/ (i.off \in 0..MaxOffset /\ due # None)
    /\ Known(i.id) /\ Row(i.id).status = "sent" => i.off = Row(i.id).off
    /\ Asked(i, due) \notin rows => Asked(i, due).at > now

LEMMA RowKnown ==
    ASSUME RowsTyped, NEW id, Known(id)
    PROVE  Row(id) \in rows /\ Row(id).id = id /\ id # 0
BY DEF RowsTyped, Known, Row

LEMMA RefusedIs ==
    ASSUME NEW plan \in PlanType
    PROVE  Refused(plan) \in PlanType /\ Refused(plan).error
BY DEF Refused, PlanType

\* What a turn makes of a plan that r joins.
Joined(plan, next, r, changed) ==
    /\ next \in PlanType
    /\ next.error <=> \E q \in plan.rows : q.at = r.at
    /\ ~next.error =>
        /\ next.rows = plan.rows \cup {r}
        /\ next.ids = plan.ids \cup ({r.id} \ {0})
        /\ next.changed <=> plan.changed \/ changed

LEMMA JoinIs ==
    ASSUME NEW plan \in PlanType, ~plan.error, NEW r \in RowType, NEW changed \in BOOLEAN
    PROVE  Joined(plan, Join(plan, r, changed), r, changed)
<1>1. CASE \E q \in plan.rows : q.at = r.at
  BY <1>1, RefusedIs DEF Joined, Join, Refused, PlanType
<1>2. CASE ~ \E q \in plan.rows : q.at = r.at
  <2> DEFINE next == Join(plan, r, changed)
  <2>1. next = [plan EXCEPT !.ids = IF r.id = 0 THEN @ ELSE @ \cup {r.id},
                            !.rows = @ \cup {r}, !.changed = @ \/ changed]
    BY <1>2 DEF Join
  <2>2. r.id \in Nat BY DEF RowType
  <2>3. next.error = plan.error /\ next.rows = plan.rows \cup {r}
    BY <2>1 DEF PlanType
  <2>4. next.ids = plan.ids \cup ({r.id} \ {0})
    BY <2>1 DEF PlanType
  <2>5. next.changed = (plan.changed \/ changed)
    BY <2>1 DEF PlanType
  <2>6. next \in PlanType
    <3>1. DOMAIN next = {"error", "ids", "rows", "changed"} /\ next = [x \in DOMAIN next |-> next[x]]
      BY <2>1 DEF PlanType
    <3>2. next = [error |-> next.error, ids |-> next.ids, rows |-> next.rows, changed |-> next.changed]
      BY <3>1
    <3>3. next.error \in BOOLEAN /\ next.changed \in BOOLEAN
      BY <2>3, <2>5 DEF PlanType
    <3>4. next.ids \in SUBSET Nat /\ next.rows \in SUBSET RowType
      BY <2>2, <2>3, <2>4 DEF PlanType
    <3> HIDE DEF next
    <3> QED BY <3>2, <3>3, <3>4 DEF PlanType
  <2> HIDE DEF next
  <2>7. next.error <=> \E q \in plan.rows : q.at = r.at
    BY <1>2, <2>3
  <2> QED BY <2>3, <2>4, <2>5, <2>6, <2>7 DEF Joined, next
<1> QED BY <1>1, <1>2

\* One turn refuses exactly what the rules refuse of its input next to those
\* before, and adds the row that was asked for.
Turned(plan, next, i, r, due) ==
    /\ next \in PlanType
    /\ next.error <=> \/ ~Fits(i, due)
                      \/ i.id # 0 /\ i.id \in plan.ids
                      \/ \E q \in plan.rows : q.at = r.at
    /\ ~next.error =>
        /\ next.rows = plan.rows \cup {r}
        /\ next.ids = plan.ids \cup ({i.id} \ {0})
        /\ next.changed <=> plan.changed \/ r \notin rows

LEMMA TurnFollows ==
    ASSUME RowsTyped, NEW plan \in PlanType, ~plan.error,
           NEW i \in InputType, NEW due \in Instants
    PROVE  Turned(plan, PlanRow(plan, i, due), i, Asked(i, due), due)
<1> DEFINE r == Asked(i, due)
           next == PlanRow(plan, i, due)
           Repeated == i.id # 0 /\ i.id \in plan.ids
           old == Row(i.id)
<1>1. CASE i.id # 0 /\ ~Known(i.id)
  <2>1. next = Refused(plan) /\ ~Fits(i, due) BY <1>1 DEF PlanRow, Fits
  <2> QED BY <2>1, RefusedIs DEF Turned
<1>2. CASE Repeated
  <2>1. next = Refused(plan) BY <1>2 DEF PlanRow
  <2> QED BY <2>1, <1>2, RefusedIs DEF Turned
<1>3. ASSUME ~Repeated, NEW q \in RowType, NEW c \in BOOLEAN, next = Join(plan, q, c),
             q = r, Fits(i, due), q.id = i.id, c <=> r \notin rows
      PROVE  Turned(plan, next, i, r, due)
  <2>1. Joined(plan, next, r, c) BY <1>3, JoinIs
  <2> HIDE DEF next, r
  <2> QED BY <2>1, <1>3 DEF Turned, Joined
<1>4. ASSUME next = Refused(plan), ~Fits(i, due)
      PROVE  Turned(plan, next, i, r, due)
  BY <1>4, RefusedIs DEF Turned
<1>5. CASE ~Repeated /\ KeepsInstant(i)
  <2>1. Known(i.id) /\ old \in rows /\ old.id = i.id /\ old.off = None /\ i.off = None /\ i.id # 0
    BY <1>5, RowKnown DEF KeepsInstant
  <2>2. next = Join(plan, old, FALSE) BY <1>5, <2>1 DEF PlanRow
  <2>3. r = old BY <1>5 DEF Asked
  <2>4. Fits(i, due) BY <1>5, <2>1, <2>3 DEF Fits
  <2>5. old \in RowType BY <2>1, ReminderRulesAssumption DEF RowsTyped, RowType, Instants
  <2> QED BY <1>3, <1>5, <2>1, <2>2, <2>3, <2>4, <2>5
<1>6. CASE ~Repeated /\ ~KeepsInstant(i) /\ (i.id = 0 \/ Known(i.id))
  <2>1. CASE i.off = None \/ i.off \notin 0..MaxOffset \/ due = None
    <3>1. next = Refused(plan) BY <1>6, <2>1 DEF PlanRow
    <3>2. ~Fits(i, due) BY <1>6, <2>1, ReminderRulesAssumption DEF Fits
    <3> QED BY <1>4, <3>1, <3>2
  <2>2. CASE ~(i.off = None \/ i.off \notin 0..MaxOffset \/ due = None)
    <3>1. next = Replan(plan, i, due) BY <1>6, <2>2 DEF PlanRow
    <3> DEFINE at == due - i.off
               fresh == [id |-> i.id, off |-> i.off, at |-> at, status |-> "scheduled"]
    <3>2. i.off \in 0..MaxOffset /\ i.off \in Int /\ due \in Int /\ at \in Int /\ i.id \in Nat
      BY <2>2, ReminderRulesAssumption DEF InputType, Instants
    <3>3. fresh \in RowType BY <3>2 DEF RowType, Instants, Statuses
    <3>4. ASSUME r = fresh, fresh \notin rows, ~(Known(i.id) /\ old.status = "sent"),
                 next = IF at <= now THEN Refused(plan) ELSE Join(plan, fresh, TRUE)
          PROVE  Turned(plan, next, i, r, due)
      <4>1. Fits(i, due) <=> at > now
        BY <1>6, <2>2, <3>2, <3>4 DEF Fits
      <4>2. CASE at <= now
        <5>1. ~Fits(i, due) BY <4>1, <4>2, <3>2 DEF RowsTyped
        <5> QED BY <5>1, <4>2, <3>4, <1>4
      <4>3. CASE ~(at <= now)
        <5>1. Fits(i, due) BY <4>1, <4>3, <3>2 DEF RowsTyped
        <5>2. next = Join(plan, fresh, TRUE) /\ fresh.id = i.id BY <4>3, <3>4
        <5> HIDE DEF next, r, fresh
        <5> QED BY <5>1, <5>2, <3>3, <3>4, <1>6, <1>3
      <4> QED BY <4>2, <4>3
    <3>5. CASE i.id = 0
      <4>1. ~Known(i.id) BY <3>5, RowKnown
      <4>2. next = IF at <= now THEN Refused(plan) ELSE Join(plan, fresh, TRUE)
        BY <4>1, <3>1 DEF Replan
      <4>3. r = fresh BY <4>1, <1>6 DEF Asked
      <4>4. fresh \notin rows
        <5>1. fresh.id = 0 BY <3>5
        <5> HIDE DEF fresh
        <5> QED BY <5>1 DEF RowsTyped
      <4> QED BY <3>4, <4>1, <4>2, <4>3, <4>4
    <3>6. CASE Known(i.id) /\ old.status = "sent"
      <4>1. old \in rows /\ old.id = i.id BY <3>6, RowKnown
      <4>2. r = old BY <3>6 DEF Asked
      <4>3. old \in RowType BY <4>1, ReminderRulesAssumption DEF RowsTyped, RowType, Instants
      <4>4. CASE old.off = i.off
        <5>1. next = Join(plan, old, FALSE) BY <4>4, <3>6, <3>1 DEF Replan
        <5>2. Fits(i, due) BY <4>4, <4>1, <4>2, <3>6, <2>2 DEF Fits
        <5> QED BY <5>1, <5>2, <4>1, <4>2, <4>3, <1>3, <1>6
      <4>5. CASE old.off # i.off
        <5>1. next = Refused(plan) BY <4>5, <3>6, <3>1 DEF Replan
        <5>2. ~Fits(i, due) BY <4>5, <3>6 DEF Fits
        <5> QED BY <5>1, <5>2, <1>4
      <4> QED BY <4>4, <4>5
    <3>7. CASE Known(i.id) /\ old.status # "sent"
      <4>1. old \in rows /\ old.id = i.id BY <3>7, RowKnown
      <4>2. old \in RowType BY <4>1, ReminderRulesAssumption DEF RowsTyped, RowType, Instants
      <4>3. old = [id |-> old.id, off |-> old.off, at |-> old.at, status |-> old.status]
        BY <4>2 DEF RowType
      <4>4. CASE old.off = i.off /\ old.at = at
        <5>1. next = Join(plan, old, FALSE) BY <4>4, <3>7, <3>1 DEF Replan
        <5>2. r = [id |-> i.id, off |-> i.off, at |-> at, status |-> old.status]
          BY <4>4, <3>7, <1>6 DEF Asked
        <5>3. r = old BY <5>2, <4>1, <4>3, <4>4
        <5>4. Fits(i, due) BY <5>3, <4>1, <3>7, <2>2 DEF Fits
        <5> QED BY <5>1, <5>3, <5>4, <4>1, <4>2, <1>3, <1>6
      <4>5. CASE ~(old.off = i.off /\ old.at = at)
        <5>1. next = IF at <= now THEN Refused(plan) ELSE Join(plan, fresh, TRUE)
          BY <4>5, <3>7, <3>1 DEF Replan
        <5>2. r = fresh
          BY <4>5, <3>7, <1>6 DEF Asked
        <5>3. fresh # old BY <4>5
        <5>4. fresh \notin rows
          <6>1. fresh.id = old.id BY <4>1
          <6> HIDE DEF fresh
          <6> QED BY <6>1, <5>3, <4>1 DEF RowsTyped
        <5> QED BY <5>1, <5>2, <5>4, <3>4, <3>7
      <4> QED BY <4>4, <4>5
    <3> QED BY <3>5, <3>6, <3>7, <1>6
  <2> QED BY <2>1, <2>2
<1> QED BY <1>1, <1>2, <1>5, <1>6

-----------------------------------------------------------------------------
(* The loop. *)

\* The rules about two inputs.
Differ(inputs, due, k, l) ==
    /\ inputs[k].id = 0 \/ inputs[k].id # inputs[l].id
    /\ Asked(inputs[k], due).at # Asked(inputs[l], due).at

\* The first n inputs are allowed, the limit set aside.
AllowedUpTo(inputs, due, n) ==
    /\ \A k \in 1..n : Fits(inputs[k], due)
    /\ \A k, l \in 1..n : k # l => Differ(inputs, due, k, l)

Follows(plan, inputs, due, n) ==
    /\ plan \in PlanType
    /\ plan.error <=> ~AllowedUpTo(inputs, due, n)
    /\ ~plan.error =>
        /\ plan.rows = {Asked(inputs[k], due) : k \in 1..n}
        /\ plan.ids = {inputs[k].id : k \in 1..n} \ {0}
        /\ plan.changed <=> \E k \in 1..n : Asked(inputs[k], due) \notin rows

LEMMA LoopFollows ==
    ASSUME RowsTyped, NEW inputs \in Seq(InputType), NEW due \in Instants
    PROVE  Follows(Plans(inputs, due)[Len(inputs)], inputs, due, Len(inputs))
<1> DEFINE plan == Plans(inputs, due)
           n == Len(inputs)
           Right == {k \in Nat : k <= n => Follows(plan[k], inputs, due, k)}
<1>1. n \in Nat /\ \A k \in 1..n : inputs[k] \in InputType
  OBVIOUS
<1>2. plan[0] = NoPlan /\ \A k \in 1..n : plan[k] = PlanRow(plan[k - 1], inputs[k], due)
  BY <1>1, PlansUnfold
<1> HIDE DEF plan, n
<1>3. 0 \in Right
  <2>1. NoPlan \in PlanType /\ ~NoPlan.error /\ ~NoPlan.changed
    BY DEF NoPlan, PlanType
  <2>2. NoPlan.rows = {} /\ NoPlan.ids = {} /\ \A k \in 1..0 : FALSE
    BY DEF NoPlan
  <2>3. AllowedUpTo(inputs, due, 0) BY <2>2 DEF AllowedUpTo
  <2>4. Follows(NoPlan, inputs, due, 0)
    BY <2>1, <2>2, <2>3 DEF Follows
  <2> QED BY <1>2, <2>4
<1>4. ASSUME NEW k \in Nat, k \in Right PROVE k + 1 \in Right
  <2> DEFINE before == plan[k]
             after == plan[k + 1]
             i == inputs[k + 1]
             r == Asked(i, due)
  <2>1. SUFFICES ASSUME k + 1 <= n PROVE Follows(after, inputs, due, k + 1)
    OBVIOUS
  <2>2. after = PlanRow(before, i, due) /\ i \in InputType
    BY <1>1, <1>2, <2>1
  <2>3. Follows(before, inputs, due, k) BY <1>1, <1>4, <2>1
  <2>4. 1..k + 1 = 1..k \cup {k + 1} /\ k + 1 \notin 1..k OBVIOUS
  <2>5. CASE before.error
    <3>1. after = Refused(before) BY <2>2, <2>5 DEF PlanRow
    <3>2. ~AllowedUpTo(inputs, due, k + 1) BY <2>3, <2>4, <2>5 DEF Follows, AllowedUpTo
    <3> QED BY <2>3, <3>1, <3>2, RefusedIs DEF Follows
  <2>6. CASE ~before.error
    <3>1. Turned(before, after, i, r, due) BY <2>2, <2>3, <2>6, TurnFollows DEF Follows
    <3>2. AllowedUpTo(inputs, due, k) BY <2>3, <2>6 DEF Follows
    <3>3. AllowedUpTo(inputs, due, k + 1)
            <=> Fits(i, due) /\ \A l \in 1..k : Differ(inputs, due, k + 1, l)
      <4>1. \A l \in 1..k : Differ(inputs, due, k + 1, l) <=> Differ(inputs, due, l, k + 1)
        BY DEF Differ
      <4> QED BY <3>2, <4>1, <2>4 DEF AllowedUpTo
    <3>4. (i.id # 0 /\ i.id \in before.ids) <=> \E l \in 1..k : ~(i.id = 0 \/ i.id # inputs[l].id)
      BY <2>3, <2>6 DEF Follows
    <3>5. (\E q \in before.rows : q.at = r.at)
            <=> \E l \in 1..k : ~(r.at # Asked(inputs[l], due).at)
      <4>1. before.rows = {Asked(inputs[l], due) : l \in 1..k} BY <2>3, <2>6 DEF Follows
      <4> QED BY <4>1
    <3>6. after.error <=> ~AllowedUpTo(inputs, due, k + 1)
      BY <3>1, <3>3, <3>4, <3>5 DEF Turned, Differ
    <3>7. ASSUME ~after.error
          PROVE  /\ after.rows = {Asked(inputs[l], due) : l \in 1..k + 1}
                 /\ after.ids = {inputs[l].id : l \in 1..k + 1} \ {0}
                 /\ after.changed <=> \E l \in 1..k + 1 : Asked(inputs[l], due) \notin rows
      <4>1. before.rows = {Asked(inputs[l], due) : l \in 1..k} BY <2>3, <2>6 DEF Follows
      <4>2. before.ids = {inputs[l].id : l \in 1..k} \ {0} BY <2>3, <2>6 DEF Follows
      <4>3. before.changed <=> \E l \in 1..k : Asked(inputs[l], due) \notin rows
        BY <2>3, <2>6 DEF Follows
      <4>4. after.rows = before.rows \cup {r} BY <3>1, <3>7 DEF Turned
      <4>5. after.ids = before.ids \cup ({i.id} \ {0}) BY <3>1, <3>7 DEF Turned
      <4>6. after.changed <=> before.changed \/ r \notin rows BY <3>1, <3>7 DEF Turned
      <4>7. after.rows = {Asked(inputs[l], due) : l \in 1..k + 1}
        <5> HIDE DEF before, after
        <5> QED BY <4>1, <4>4, <2>4
      <4>8. after.ids = {inputs[l].id : l \in 1..k + 1} \ {0}
        <5> HIDE DEF before, after
        <5> QED BY <4>2, <4>5, <2>4
      <4>9. after.changed <=> \E l \in 1..k + 1 : Asked(inputs[l], due) \notin rows
        BY <4>3, <4>6, <2>4
      <4> QED BY <4>7, <4>8, <4>9
    <3> QED BY <3>1, <3>6, <3>7 DEF Turned, Follows
  <2> QED BY <2>5, <2>6
<1>5. n \in Right
  <2> HIDE DEF Right
  <2> QED BY <1>1, <1>3, <1>4, SetInduction
<1> QED BY <1>1, <1>5 DEF n, plan

\* Ids make a task's reminders finite, so that they can be listed.
LEMMA RowsFinite == ASSUME RowsTyped PROVE IsFiniteSet(rows)
<1> DEFINE f == [r \in rows |-> r.id]
<1>1. f \in Injection(rows, 1..used)
  BY DEF RowsTyped, Injection, IsInjective
<1>2. IsFiniteSet(1..used)
  BY FS_Interval DEF RowsTyped
<1> QED BY <1>1, <1>2, FS_Injection

LEMMA DesiredTyped ==
    ASSUME RowsTyped, NEW request \in Requests
    PROVE  Desired(request) \in Seq(InputType)
<1>1. Inputs \subseteq InputType
  BY ReminderRulesAssumption DEF Inputs, InputType, Instants, Offsets, Ids
<1>2. CASE request # None
  <2>1. PICK n \in 0..MaxRows : request \in [1..n -> Inputs]
    BY <1>2 DEF Requests
  <2>2. n \in Nat BY ReminderRulesAssumption
  <2> QED BY <1>1, <1>2, <2>1, <2>2 DEF Desired
<1>3. CASE request = None
  <2> DEFINE S == {[id |-> r.id, off |-> r.off] : r \in rows}
             f == [r \in rows |-> [id |-> r.id, off |-> r.off]]
  <2>1. S \subseteq InputType
    BY ReminderRulesAssumption DEF RowsTyped, InputType, Instants
  <2>2. IsFiniteSet(S)
    <3>1. f \in Surjection(rows, S) BY DEF Surjection
    <3> QED BY <3>1, RowsFinite, FS_Surjection
  <2> HIDE DEF S, f
  <2>3. Cardinality(S) \in Nat /\ ExistsBijection(1..Cardinality(S), S)
    BY <2>2, FS_CardinalityType
  <2>4. \E g \in [1..Cardinality(S) -> S] : IsInjective(g)
    BY <2>3 DEF ExistsBijection, Bijection, Injection
  <2>5. SetToSeq(S) \in [1..Cardinality(S) -> S]
    BY <2>4 DEF SetToSeq
  <2>6. SetToSeq(S) \in Seq(InputType)
    BY <2>1, <2>3, <2>5
  <2> QED BY <1>3, <2>6 DEF Desired, S
<1> QED BY <1>2, <1>3

\* PlanReminders accepts what the rules allow, and plans what was asked for.
LEMMA PlanFollows ==
    ASSUME RowsTyped, NEW request \in Requests, NEW due \in Instants
    PROVE  LET plan == PlanReminders(request, due)
               inputs == Desired(request)
           IN  /\ plan \in PlanType
               /\ inputs \in Seq(InputType)
               /\ ~plan.error <=> Allowed(inputs, due)
               /\ ~plan.error => plan.rows = {Asked(inputs[k], due) : k \in DOMAIN inputs}
<1> DEFINE inputs == Desired(request)
           plan == Planned(request, due)
           n == Len(inputs)
           Over == ~premium /\ n > FreeLimit /\ plan.changed
<1>1. inputs \in Seq(InputType) BY DesiredTyped
<1>2. Follows(plan, inputs, due, n) BY <1>1, LoopFollows DEF Planned
<1>3. DOMAIN inputs = 1..n /\ n \in Nat BY <1>1
<1> HIDE DEF inputs, plan
<1>4. PlanReminders(request, due) = IF Over THEN Refused(plan) ELSE plan
  BY DEF PlanReminders, inputs, plan
<1>5. Allowed(inputs, due) <=>
        /\ AllowedUpTo(inputs, due, n)
        /\ premium \/ n <= FreeLimit \/ \A k \in 1..n : Asked(inputs[k], due) \in rows
  BY <1>3 DEF Allowed, AllowedUpTo, Fits, Differ
<1>6. CASE Over
  <2>1. ~Allowed(inputs, due)
    BY <1>2, <1>3, <1>5, <1>6, ReminderRulesAssumption DEF Follows
  <2> QED BY <1>1, <1>2, <1>4, <1>6, <2>1, RefusedIs DEF Follows, inputs
<1>7. CASE ~Over
  <2>1. ~plan.error <=> Allowed(inputs, due)
    BY <1>2, <1>3, <1>5, <1>7, ReminderRulesAssumption DEF Follows
  <2> QED BY <1>1, <1>2, <1>3, <1>4, <1>7, <2>1 DEF Follows, inputs
<1> QED BY <1>6, <1>7

-----------------------------------------------------------------------------
(* The life of a task. *)

RulesInv == RowsTyped /\ InstantsAgree

LEMMA InitRules == ASSUME Init PROVE RulesInv
<1>1. CASE rows = {} /\ used = 0
  BY <1>1, ReminderRulesAssumption DEF Init, RulesInv, RowsTyped, InstantsAgree, Times, Instants
<1>2. ASSUME used = 1, NEW at \in Times, NEW status \in {"scheduled", "sent"},
             rows = {Migrated(at, deadline, status)}
      PROVE  RulesInv
  <2> DEFINE r == Migrated(at, deadline, status)
  <2>1. at \in Int /\ deadline \in Instants
    BY ReminderRulesAssumption DEF Init, Times, Instants
  <2>2. r.off \in 0..MaxOffset \cup {None} /\ (r.off # None => deadline # None /\ at = deadline - r.off)
    BY <2>1, ReminderRulesAssumption DEF Migrated, Instants
  <2>3. r.id = 1 /\ r.at = at /\ r.status = status
    BY DEF Migrated
  <2>4. r \in [id : 1..used, off : 0..MaxOffset \cup {None}, at : Int, status : Statuses]
    BY <1>2, <2>1, <2>2 DEF Migrated, Statuses
  <2>5. rows = {r} BY <1>2
  <2> HIDE DEF r
  <2>6. RowsTyped BY <1>2, <2>1, <2>4, <2>5 DEF RowsTyped, Init, Times
  <2> QED BY <2>2, <2>3, <2>5, <2>6 DEF RulesInv, InstantsAgree
<1> QED BY <1>1, <1>2 DEF Init

\* The row that was asked for is in order with the deadline of the request.
LEMMA AskedAgrees ==
    ASSUME RulesInv, NEW i \in InputType, NEW due \in Instants, Fits(i, due)
    PROVE  LET r == Asked(i, due)
           IN  /\ r \in RowType /\ r.id = i.id
               /\ r.off \in 0..MaxOffset \cup {None}
               /\ r.status # "sent" /\ r.off # None => due # None /\ r.at = due - r.off
               /\ r.id # 0 => r.id \in 1..used
<1>1. ASSUME Known(i.id)
      PROVE  Row(i.id) \in rows /\ Row(i.id).id = i.id
  BY <1>1, RowKnown DEF RulesInv
<1>2. rows \subseteq RowType
  BY ReminderRulesAssumption DEF RulesInv, RowsTyped, RowType, Instants
<1>3. CASE KeepsInstant(i)
  BY <1>1, <1>2, <1>3 DEF Asked, KeepsInstant, RulesInv, RowsTyped
<1>4. CASE ~KeepsInstant(i) /\ Known(i.id) /\ Row(i.id).status = "sent"
  BY <1>1, <1>2, <1>4 DEF Asked, RulesInv, RowsTyped
<1>5. CASE ~KeepsInstant(i) /\ ~(Known(i.id) /\ Row(i.id).status = "sent")
  <2> DEFINE status == IF /\ Known(i.id) /\ Row(i.id).off = i.off
                          /\ Row(i.id).at = due - i.off
                       THEN Row(i.id).status ELSE "scheduled"
  <2>1. Asked(i, due) = [id |-> i.id, off |-> i.off, at |-> due - i.off, status |-> status]
    BY <1>5 DEF Asked
  <2>2. i.off \in 0..MaxOffset /\ due # None /\ due \in Int /\ i.off \in Int
    BY <1>5, ReminderRulesAssumption DEF Fits, Instants
  <2>3. status \in Statuses BY <1>1, <1>2 DEF RowType, Statuses
  <2>4. i.id \in Nat /\ (i.id # 0 => i.id \in 1..used)
    BY <1>1 DEF InputType, Fits, RulesInv, RowsTyped
  <2> HIDE DEF status
  <2> QED BY <2>1, <2>2, <2>3, <2>4 DEF RowType, Instants
<1> QED BY <1>3, <1>4, <1>5

\* New reminders get new ids, one each.
LEMMA Numbers ==
    ASSUME NEW n \in Nat, NEW R, IsFiniteSet(R), R \subseteq RowType,
           \A r, q \in R : r.at = q.at => r = q
    PROVE  LET new == {r \in R : r.id = 0}
               upto(r) == {q \in R : q.id = 0 /\ q.at <= r.at}
           IN  /\ Cardinality(new) \in Nat
               /\ \A r \in new : n + Cardinality(upto(r)) \in n + 1..n + Cardinality(new)
               /\ \A r, q \in new : n + Cardinality(upto(r)) = n + Cardinality(upto(q)) => r = q
<1> DEFINE new == {r \in R : r.id = 0}
           upto(r) == {q \in R : q.id = 0 /\ q.at <= r.at}
<1>1. IsFiniteSet(new) /\ Cardinality(new) \in Nat BY FS_Subset, FS_CardinalityType
<1>2. ASSUME NEW r \in new
      PROVE  /\ upto(r) \subseteq new /\ r \in upto(r) /\ IsFiniteSet(upto(r))
             /\ Cardinality(upto(r)) \in Nat /\ Cardinality(upto(r)) <= Cardinality(new)
             /\ Cardinality(upto(r)) # 0
  <2>1. upto(r) \subseteq new /\ r \in upto(r)
    BY DEF RowType
  <2>2. IsFiniteSet(upto(r)) /\ Cardinality(upto(r)) <= Cardinality(new)
    BY <1>1, <2>1, FS_Subset
  <2>3. Cardinality(upto(r)) \in Nat BY <2>2, FS_CardinalityType
  <2>4. Cardinality(upto(r)) # 0 BY <2>1, <2>2, FS_EmptySet
  <2> QED BY <2>1, <2>2, <2>3, <2>4
<1>3. ASSUME NEW r \in new, NEW q \in new, r.at <= q.at, Cardinality(upto(r)) = Cardinality(upto(q))
      PROVE  r = q
  <2>1. upto(r) \subseteq upto(q) BY <1>3 DEF RowType
  <2>2. upto(r) = upto(q) BY <1>2, <1>3, <2>1, FS_Subset
  <2>3. q \in upto(r) BY <1>2, <2>2
  <2>4. q.at <= r.at /\ r.at \in Int /\ q.at \in Int BY <2>3 DEF RowType
  <2> QED BY <1>3, <2>4
<1>4. ASSUME NEW r \in new, NEW q \in new, Cardinality(upto(r)) = Cardinality(upto(q))
      PROVE  r = q
  <2>1. r.at \in Int /\ q.at \in Int BY DEF RowType
  <2>2. r.at <= q.at \/ q.at <= r.at BY <2>1
  <2> QED BY <1>3, <1>4, <2>2
<1>5. ASSUME NEW r \in new PROVE n + Cardinality(upto(r)) \in n + 1..n + Cardinality(new)
  <2>1. /\ Cardinality(upto(r)) \in Nat /\ Cardinality(upto(r)) # 0
        /\ Cardinality(upto(r)) <= Cardinality(new)
    BY <1>2
  <2> HIDE DEF upto, new
  <2> QED BY <1>1, <2>1
<1>6. ASSUME NEW r \in new, NEW q \in new,
             n + Cardinality(upto(r)) = n + Cardinality(upto(q))
      PROVE  r = q
  <2>1. Cardinality(upto(r)) \in Nat /\ Cardinality(upto(q)) \in Nat BY <1>2
  <2> HIDE DEF upto, new
  <2>2. Cardinality(upto(r)) = Cardinality(upto(q)) BY <1>6, <2>1
  <2> QED BY <1>4, <2>2
<1> QED BY <1>1, <1>5, <1>6

LEMMA EditRules ==
    ASSUME RulesInv, NEW request \in Requests, NEW due \in Times \cup {None}, Edit(request, due)
    PROVE  RulesInv'
<1> DEFINE plan == PlanReminders(request, due)
           inputs == Desired(request)
           R == plan.rows
           new == {r \in R : r.id = 0}
           upto(r) == {q \in R : q.id = 0 /\ q.at <= r.at}
           numbered(r) == IF r.id # 0 THEN r ELSE [r EXCEPT !.id = used + Cardinality(upto(r))]
<1>1. due \in Instants BY ReminderRulesAssumption DEF Times, Instants
<1>2. /\ plan \in PlanType /\ ~plan.error
      /\ inputs \in Seq(InputType) /\ Allowed(inputs, due)
      /\ R = {Asked(inputs[k], due) : k \in DOMAIN inputs}
  BY <1>1, PlanFollows DEF RulesInv, Edit
<1>3. /\ rows' = {numbered(r) : r \in R}
      /\ used' = used + Cardinality(new)
      /\ deadline' = due /\ premium' = premium /\ now' = now
  BY DEF Edit, Numbered
<1> HIDE DEF plan, inputs
<1>4. ASSUME NEW k \in DOMAIN inputs PROVE Fits(inputs[k], due) /\ inputs[k] \in InputType
  BY <1>2 DEF Allowed, Fits
<1>5. ASSUME NEW r \in R
      PROVE  /\ r \in RowType
             /\ r.off \in 0..MaxOffset \cup {None}
             /\ r.status # "sent" /\ r.off # None => due # None /\ r.at = due - r.off
             /\ r.id # 0 => r.id \in 1..used
  <2>1. PICK k \in DOMAIN inputs : r = Asked(inputs[k], due) BY <1>2
  <2> QED BY <1>1, <1>4, <2>1, AskedAgrees
<1>6. ASSUME NEW r \in R, NEW q \in R, r.at = q.at \/ (r.id = q.id /\ r.id # 0)
      PROVE  r = q
  <2>1. PICK k \in DOMAIN inputs : r = Asked(inputs[k], due) BY <1>2
  <2>2. PICK l \in DOMAIN inputs : q = Asked(inputs[l], due) BY <1>2
  <2>3. r.id = inputs[k].id /\ q.id = inputs[l].id
    BY <1>1, <1>4, <2>1, <2>2, AskedAgrees
  <2>4. CASE k = l BY <2>1, <2>2, <2>4
  <2>5. CASE k # l
    BY <1>2, <1>6, <2>1, <2>2, <2>3, <2>5 DEF Allowed
  <2> QED BY <2>4, <2>5
<1>7. IsFiniteSet(R)
  <2> DEFINE f == [k \in DOMAIN inputs |-> Asked(inputs[k], due)]
  <2>1. DOMAIN inputs = 1..Len(inputs) /\ Len(inputs) \in Nat BY <1>2
  <2>2. IsFiniteSet(DOMAIN inputs) BY <2>1, FS_Interval
  <2>3. f \in Surjection(DOMAIN inputs, R) BY <1>2 DEF Surjection
  <2> QED BY <2>2, <2>3, FS_Surjection
<1>8. used \in Nat BY DEF RulesInv, RowsTyped
<1>9. /\ Cardinality(new) \in Nat
      /\ \A r \in new : used + Cardinality(upto(r)) \in used + 1..used + Cardinality(new)
      /\ \A r, q \in new : used + Cardinality(upto(r)) = used + Cardinality(upto(q)) => r = q
  BY <1>5, <1>6, <1>7, <1>8, Numbers
<1> HIDE DEF R
<1>10. ASSUME NEW r \in R
       PROVE  /\ numbered(r) \in [id : 1..used', off : 0..MaxOffset \cup {None}, at : Int,
                                  status : Statuses]
              /\ numbered(r).at = r.at /\ numbered(r).off = r.off /\ numbered(r).status = r.status
              /\ r.id = 0 => numbered(r).id = used + Cardinality(upto(r)) /\ r \in new
              /\ r.id # 0 => numbered(r) = r
  <2>1. used' = used + Cardinality(new) /\ used' \in Nat BY <1>3, <1>8, <1>9
  <2>2. CASE r.id = 0
    <3> DEFINE m == used + Cardinality(upto(r))
    <3>1. m \in 1..used'
      <4>1. r \in new BY <2>2
      <4>2. m \in used + 1..used + Cardinality(new) BY <1>9, <4>1
      <4> HIDE DEF m, new
      <4> QED BY <1>8, <1>9, <2>1, <4>2
    <3>2. numbered(r) = [r EXCEPT !.id = m] BY <2>2
    <3> HIDE DEF m
    <3> QED BY <1>5, <2>2, <3>1, <3>2 DEF RowType, m
  <2>3. CASE r.id # 0
    <3>1. r.id \in 1..used' BY <1>5, <1>8, <1>9, <2>1, <2>3
    <3> QED BY <1>5, <2>3, <3>1 DEF RowType
  <2> QED BY <2>2, <2>3
<1>11. ASSUME NEW r \in R, NEW q \in R, numbered(r).id = numbered(q).id PROVE r = q
  <2>1. CASE r.id = 0 /\ q.id = 0
    <3> HIDE DEF numbered, upto, new
    <3> QED BY <1>9, <1>10, <1>11, <2>1
  <2>2. CASE r.id # 0 /\ q.id # 0 BY <1>6, <1>11, <2>2
  <2>3. ASSUME NEW a \in R, NEW b \in R, a.id = 0, b.id # 0, numbered(a).id = numbered(b).id
        PROVE  FALSE
    <3>1. numbered(a).id \in used + 1..used + Cardinality(new)
      <4> HIDE DEF numbered, upto, new
      <4> QED BY <1>9, <1>10, <2>3
    <3>2. numbered(b).id \in 1..used BY <1>5, <2>3
    <3> QED BY <1>8, <1>9, <2>3, <3>1, <3>2
  <2> QED BY <1>11, <2>1, <2>2, <2>3
<1> HIDE DEF numbered, new, upto
<1>12. RowsTyped'
  <2>1. rows' \subseteq [id : 1..used', off : 0..MaxOffset \cup {None}, at : Int, status : Statuses]
    BY <1>3, <1>10
  <2>2. \A r, q \in rows' : r.id = q.id => r = q
    BY <1>3, <1>11
  <2> QED BY <1>1, <1>3, <1>8, <1>9, <2>1, <2>2 DEF RulesInv, RowsTyped
<1>13. InstantsAgree'
  <2>1. \A r \in rows' : r.status # "sent" /\ r.off # None
                           => deadline' # None /\ r.at = deadline' - r.off
    BY <1>3, <1>5, <1>10
  <2>2. \A r, q \in rows' : r.at = q.at => r = q
    BY <1>3, <1>6, <1>10
  <2> QED BY <2>1, <2>2 DEF InstantsAgree
<1> QED BY <1>12, <1>13 DEF RulesInv

LEMMA DeliverRules ==
    ASSUME RulesInv, NEW r \in rows, NEW status \in {"sent", "failed"}, Deliver(r, status)
    PROVE  RulesInv'
<1> DEFINE d == [r EXCEPT !.status = status]
<1>1. /\ rows' = (rows \ {r}) \cup {d}
      /\ deadline' = deadline /\ premium' = premium /\ now' = now /\ used' = used
      /\ r.status = "scheduled"
  BY DEF Deliver
<1>2. /\ d \in [id : 1..used, off : 0..MaxOffset \cup {None}, at : Int, status : Statuses]
      /\ d.id = r.id /\ d.at = r.at /\ d.off = r.off
  BY DEF RulesInv, RowsTyped, Statuses
<1> HIDE DEF d
<1>3. RowsTyped' BY <1>1, <1>2 DEF RulesInv, RowsTyped
<1>4. InstantsAgree' BY <1>1, <1>2 DEF RulesInv, InstantsAgree
<1> QED BY <1>3, <1>4 DEF RulesInv

LEMMA RulesStep == RulesInv /\ [Next]_vars => RulesInv'
<1> SUFFICES ASSUME RulesInv, [Next]_vars PROVE RulesInv'
  OBVIOUS
<1>1. CASE \E request \in Requests, due \in Times \cup {None} : Edit(request, due)
  BY <1>1, EditRules
<1>2. CASE \E r \in rows, status \in {"sent", "failed"} : Deliver(r, status)
  BY <1>2, DeliverRules
<1>3. CASE Tick
  BY <1>3 DEF Tick, RulesInv, RowsTyped, InstantsAgree
<1>4. CASE ChangeTariff
  BY <1>4 DEF ChangeTariff, RulesInv, RowsTyped, InstantsAgree
<1>5. CASE UNCHANGED vars
  BY <1>5 DEF vars, RulesInv, RowsTyped, InstantsAgree
<1> QED BY <1>1, <1>2, <1>3, <1>4, <1>5 DEF Next

\* In every state of a task and for every request of any length, PlanReminders
\* accepts what the documented rules allow and plans what was asked for; and
\* reminders keep agreeing with the deadline (RemindersAgree).
THEOREM RulesAgree == Spec => []RemindersAgree
<1>1. RulesInv => RemindersAgree
  <2> SUFFICES ASSUME RulesInv PROVE PlanFollowsRules
    BY DEF RulesInv, RemindersAgree
  <2>1. RowsTyped BY DEF RulesInv
  <2>2. Times \cup {None} \subseteq Instants BY ReminderRulesAssumption DEF Times, Instants
  <2> QED BY <2>1, <2>2, PlanFollows DEF PlanFollowsRules
<1> QED BY <1>1, InitRules, RulesStep, PTL DEF Spec

=============================================================================
