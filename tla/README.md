# TLA+ models of todo-notificator

A specification of the business core of todo-notificator, kept beside the code:
what a user's actions may do to tasks, focus sessions, points and coins; how the
transactions that carry them out interleave; how a browser that retries keeps
each command from happening twice and keeps its session; what sessions, links and
mails are worth after a change of credentials; how reminders are planned and
delivered; how a payment becomes premium. TLC checks the models on small
instances; TLAPS proves the central invariants for every instance.

`PROJECT.json` maps each definition to the lines of source it stands for and
lists the runs, the properties, the mutants that show each property can fail,
the hazards and the theorems. Paths below are relative to `src/`.

## 1. The system and its parts

| part | state | operations | where |
|---|---|---|---|
| coin wallet, shop | `reward_wallets` (JSON row), `reward_ledger` (unique `event_key`) | buy, equip, create/delete/redeem personal reward, import, award | `backend/internal/storage/postgres/shop.go` |
| tasks | `tasks` rows, `daily_task_activity` journal | create, PATCH, bulk-complete, delete, bulk-delete | `postgres/actions.go`, `postgres.go`, migrations 00018, 00020 |
| focus | `pomodoro_sessions`, `focus_states` | start, extra break, resume, finish, cancel, finish rest | `postgres/pomodoro.go`, `focus.go`, `actions.go` |
| statistics | `user_stats`, `achievements` | applied inside the actions above; change of the time zone | `postgres/stats_transactions.go`, `domain/stats.go`, `daily_rewards.go` |
| idempotent operations | `api_operations` | wraps every command except deletion | `postgres/operations.go`, middleware `contracts.go` |
| activity log | bounded queue of the backend; a gRPC service over MongoDB | log, send, drain, close | `backend/clients/activitylogger`, `activity-logger` |
| browser commands | `sessionStorage` | `command()` | `frontend/src/lib/commands.ts` |
| browser session | tokens in `localStorage`, shared by the tabs; `navigator.locks` | `api()`, `refreshAccess()`, `endSession()` | `frontend/src/lib/api.ts` |
| accounts | users with `auth_version`, hashed refresh tokens, tokens of links | register, log in, rotate, log out, change address or password, reset, confirm, resend, clean up | `postgres/account.go`, `postgres.go`, `handlers/auth`, `handlers/account`, middleware `auth` |
| mail outboxes | verification and reset deliveries | queue with the link; retire, claim, check, send, finish | `postgres/account.go`, `notifiers/shared/storage`, `notifiers/email` |
| reminders | `task_reminders`, attempts | plan with the task; claim, send, finish by notifiers | `domain/reminder_rules.go`, `postgres/reminders.go`, `notifiers/shared` |
| payments | `payments`, `is_premium` | create, webhook, sync | `postgres/payment.go`, `handlers/payments` |
| categories | `categories` | create under the tariff's limit, rename, delete | `postgres/postgres.go`, `handlers/categories` |
| the rest | | reads, rate limits, deployment, user interface | |

How they interact. Every business action of a user runs in one PostgreSQL
transaction (READ COMMITTED) that first takes `SELECT ... FOR UPDATE` on the
user's row (`withUserTx`), then the rows of the tasks it touches (`lockTask`),
then the session. Awards, points, achievements and the stored response are part
of that transaction. Deleting tasks is the exception: one autocommitted DELETE
without the user's lock, whose trigger abandons the active session and whose
foreign keys detach sessions and the recovery rest. `ExecuteOperation` wraps a
handler in such a transaction and stores its response under the
Idempotency-Key; callbacks (activity log, webhook to the notifier) are queued
and run after COMMIT, and the one of the log puts its event into the client's
bounded queue. The browser keeps the key until an answer settles the command.

Changes of credentials lock the same users row; they advance `auth_version` and
delete refresh tokens, and an access token counts while its version is the
account's. A link and its row in an outbox are written in one transaction;
another process mails it under a lease. The tabs of a browser share both tokens
and take turns at exchanging them. A settled payment writes `is_premium` of the
users row, which the creation of a category reads under its lock.

What is hard here: reads made before a lock is got, deletion that bypasses the
user's lock, the order of row locks, four code paths that pay the same reward,
limits enforced in two places, repeats that race their original, a lost COMMIT
acknowledgement, a process that stops between COMMIT and the callbacks, a
session that ends while an outcome is unknown, answers that reach a tab after
another tab has changed the session, leases that run out while a notifier still
sends, a webhook that comes before the row it is about. The `hazards` of
`PROJECT.json` name each with its line.

What makes each part correct:

- wallet: the balance equals the ledger; nothing unpaid is owned; limits hold;
- tasks: one reward per task for ever, on every path; points and coins agree;
- focus: one active session; a session is paid exactly when it ran 24 minutes;
  the cycle follows the counted sessions; nothing refers to a deleted task;
- statistics: points follow the ledger, the level the points; a streak counts
  days in a row, and the profile shows it as long as it can go on;
- transactions: the split ones do what the atomic ones do; no lock order of
  ours deadlocks; every request ends;
- operations: one effect, one response, one set of callbacks per key;
- activity log: it disturbs no operation, loses no event without counting it
  (but with its process), and closes;
- browser commands: a command takes effect at most as often as it was meant;
- browser session: what one tab learns late never replaces, mixes up or ends
  the session another tab has made; one rotation per token;
- accounts: no session survives the credentials it was made with; a link takes
  effect once, and confirms only the address it went to;
- outboxes: a mail is scheduled for current links only, every usable link has
  its mail, every mail is settled in the end;
- reminders: mails are bounded by the attempts counted, a stale lease records
  nothing, a planned reminder is settled in the end, a closed task has none left;
  a plan is what the documented rules allow;
- payments: premium if and only if a payment succeeded, in the end and for
  good; the table never says more than the provider;
- categories: a free account never has a fourth.

## 2. The modules

| module | what it is |
|---|---|
| `Wallet` | the wallet and its ledger: awards (`Credit`), charges, the shop's actions |
| `Rewards` | extends `Wallet` with tasks, sessions, focus, statistics and achievements; one action is one committed transaction. The abstract specification of the core |
| `RewardTx` | the same operations split at their row locks, two or more requests at a time, with deletion outside the user's lock, rollbacks, deadlock victims; implements `Rewards` |
| `Progress` | the streak and the level on top of `Rewards`: the dates of BEGIN, the time zone, the loop of `CalculateLevel` |
| `Operations` | `ExecuteOperation` and its middleware: keys, replay, conflict, COMMIT, callbacks, crash |
| `ActivityLog` | the log client behind the callbacks of `Operations`: admission, queue, workers, `Close` and its drain; implements `Operations` |
| `Commands` | the browser in front of `Operations`: kept keys, lost responses, retries, lost sessions |
| `Accounts` | credentials, refresh tokens and links on the server, split where a handler reads before it has the lock |
| `Mails` | the workers that mail the links of `Accounts` |
| `Session` | the tabs of one browser on top of `Mails`: requests, refreshes under the lock of the tabs, and the store they share |
| `ReminderRules` | `PlanReminders` as the fold it is, beside the documented rules; the reminders of one task under edits, deliveries and changes of tariff |
| `Reminders` | delivery: schedulers that claim, check, mail and acknowledge under leases, against requests that edit, close and delete the task |
| `PremiumLedger` | what payments promise: the abstract specification of `Payments` |
| `Payments` | create, webhook and sync against the provider, split at every call and transaction; implements `PremiumLedger` |
| `Categories` | the categories of an account next to `Payments`, which write the users row they lock; implements `Payments` |
| `RewardsProofs`, `RewardTxProofs`, `ProgressProofs`, `OperationsProofs`, `ReminderRulesProofs`, `RemindersProofs`, `PremiumProofs`, `SessionProofs` | the theorems, for the modules they extend (`OperationsProofs` for `ActivityLog` and `Commands`, `SessionProofs` for `Accounts` and `Mails` too) |
| `MC*` | the instances for TLC: symmetry sets, prices, and the scenarios a run begins from |

Composition is by extension: `Progress` extends `Rewards`, `ActivityLog` and `Commands` extend `Operations`,
`Session` extends `Mails`, which extends `Accounts`, and `Categories` extends
`Payments`. The action of a composed module conjoins the action of the one below
with what the component adds to it (`ServeAndLog`, `ApplyHook`, `SettleSync`).

Definitions named as mutants in their comment are wrong on purpose: each is a
plausible bug, and the run named in `PROJECT.json` finds the property it breaks.

### State and code

- `wallet` is the JSON of `reward_wallets`; `personal` gives each personal
  reward its price and 0 when it does not exist. Titles are left out.
- `ledger` keeps `reward_ledger` by its unique keys: the tasks and sessions with
  an event row, and the sum of the purchase rows.
- `task[t]` has the row's `status`, `reward_claimed` and `pomodoro_taken`; ids are
  never used twice (BIGSERIAL), so a deleted task stays deleted.
- `session[s].age` is the time since its start in three classes: within the 30
  seconds of `CancelPomodoroSession`, in between, and 24 minutes or more. After a
  finish it is the age at `completed_at`. `Elapse` is the database's clock.
- `completed` is the set of tasks the journal holds as completed
  (`daily_task_activity`, `COUNT(DISTINCT task_id)`).
- A request the code refuses leaves no trace and is no step of `Rewards`; in
  `RewardTx` it is `Refuse`, because it holds locks until it rolls back.
- In `RewardTx`, `tx[r]` is the Go code between two statements: which operation,
  which lock next, the rows it has read. Writes are made at COMMIT from those
  rows. `CURRENT_TIMESTAMP` stands still from BEGIN, so the session's age is
  taken there. The lock of `focus_states` comes last in every transaction and is
  not kept apart; `stats`, `wallet`, `ledger` and `achievements` are written under
  the user's lock only. Operations that lock nothing but the user and one row
  are one step (`Short`).
- `Progress` lets a transaction of `Rewards` have begun at any earlier time, because
  `CURRENT_TIMESTAMP` is that of BEGIN and the users row may be waited for. `streak`
  has three columns of `user_stats`; `days`, the dates that were counted, and
  `setback`, the days by which `last_activity_date` was put back, are history. A time
  zone is its offset from UTC; daylight saving is a change of it.
- `Operations` names an operation by the request that performed it (the
  `operation_id` in the response). `stored[k]` is the `api_operations` row. A
  fingerprint is the command it was computed from.
- In `Commands` a command is what one tab stores under one storage key. `meant`,
  `announced`, `open` and `keyLost` are history variables that record what the
  user wanted and saw; the code has no such state.
- In `ReminderRules` a reminder is its row without the columns of delivery;
  `legacy_absolute` is an offset of `None`, as the table's CHECK has it. An edit
  gives the request and the deadline that results from it.
- In `Reminders`, `due` and `lease` are `next_attempt_at` and `lease_until` compared
  with the clock; `lease_token` is the worker's name. `work[w]` is the scheduler's Go
  code between two statements. An edit is any subset of the reminders removed,
  moved and added that `ReminderRules` may yield for some request, so the two
  modules meet in `UpdateTask` and `Edit`. `ORDER BY` in the claims is left open: any
  claimable task and row may be next. `history` counts mails, losses and
  acknowledgements since the last plan; of these the code keeps only
  `succeeded` in `reminder_delivery_attempts`.
- In `ActivityLog` an event is the request whose callback makes it. `logging` are
  the callbacks that have not yet got the queue's mutex; `client` is `nil` when none
  is configured. `dropped` is the counter of the metric, `confirmed` and `vanished`
  are history; `recorded` is what the service has, which may be more than the
  client knows of. The size limit of an event is left out.
- In `Accounts`, `token` and `link` keep a row's number for good: `live` and
  `current` rows exist, `dead`, `gone` and `spent` ones do not any more. A password is
  the version it was set under. `call[c]` is a handler between what it read and
  the lock: the version a login compared against, the owner of a token or a link
  that was looked up, and whether the link had expired at BEGIN (`late`), which is
  the time `CURRENT_TIMESTAMP` stands for under the lock. `used` counts effects and is history. Everything a
  transaction does under the users row is one step.
- In `Mails` a worker is the loop of either outbox. The verification worker looks
  at `is_verified` in its claim; the reset worker looks again before it sends
  (`Check`), and `worker[w]` is the Go code in between.
- In `Session` a pair of tokens is named by its refresh token, `expired` are those
  whose access token has run out, `seen` is `observedIdentity`, and `stale` an epoch
  that has moved on since the request began. `lost` are exchanges whose tab has
  given up: the server may still carry them out (`RefreshLate`). `uses` and
  `elsewhere` are chosen in the initial state and bound who does what.
- In `Payments` the id of a payment is the key the provider was given, the hash
  of user and client key. The provider is external: one payment per key, settled
  once, and the truth about a settled one; it may answer late, fail, or repeat
  an event. `saved` is the order of the rows, which `GetPendingPayments` uses.
- In `Categories` a category is its name. `userLock` is the users row, as far as
  payments and categories contend for it.

## 3. The runs

| run | bounds | what it shows |
|---|---|---|
| `rewards_core` | 2 tasks, 2 sessions, cycle of 2, goals 1 and 2, empty shop | the rules of tasks, focus and rewards in every order |
| `rewards_shop` | 1 task, 1 session, 3 catalogue items, 2 personal rewards with a limit of 1, 10 starting coins | balance, ownership and limits; nothing earned or bought is taken back |
| `rewards_import_price` | as `rewards_shop` | finding 1 |
| `reward_tx` | 2 tasks, 1 session, 2 requests, 3 transactions | the split transactions implement `Rewards`; which deadlocks exist; every request ends |
| `progress` | 4 tasks, 5 instants at two a day, 2 time zones a day apart, 3 levels | streaks are runs of days unless the date went back, and then exceed them by as much at most; the level follows the points |
| `operations` | 3 requests, 2 keys, 2 commands, with and without a key; 2 senders, a queue of 1 | one effect, one answer, one notification per key; every request is answered; every event has one fate; the log client closes |
| `commands` | 4 requests, 2 commands, 3 keys | retries never add effects while the user stays signed in |
| `commands_session` | as `commands` | finding 2 |
| `reminder_rules` | clock and deadlines 0 to 3, offsets 0 to 2 and one beyond on either side, free limit 1, 2 rows in a request, 2 ids | the fold follows the rules for every request in every reachable state; instants keep agreeing with the deadline |
| `reminders` | 1 reminder, 2 schedulers, 3 attempts, 2 requests that lock the task or change the address | bounded and true records of delivery; when a mail can be doubled; every reminder is settled |
| `premium` | 2 users, 2 keys, 2 create requests, one sync per user; 2 requests for categories, 4 names | rows follow the provider and stay settled; whoever pays becomes premium (`KeepsLedger`); a free account has three categories at most |
| `accounts` | 2 users, 2 addresses, up to 2 new tokens or links in a scenario; 2 calls, 2 workers with 2 attempts, 2 tabs | sessions of current credentials; links used once; outboxes that agree; every mail settled; tabs that keep their session |

Why the bounds suffice. Rewards are paid per task and per session, so two of
each show every interaction of one with itself and with another (finish one,
delete the other, two in a bulk, the second session after the first); a cycle
of two reaches the long rest and its wrap-around; targets of one and two are
reached one by one and together. Prices and starting coins are scaled so that a
balance too low, exactly enough and more than enough all occur. A limit of one
personal reward with two ids reaches and exceeds it by creation and by import.
A deadlock of row locks needs two transactions; a third (`MaxBegun = 3`) starts
from what they left. One session is what they contend for; that more of them
change nothing is proved (`Implements`, `NoOtherDeadlock`), and the atomic model has
two. Three requests are the original, its repeat and a request
that reuses the key for something else; four in the browser's model are two
commands with a retry each.

Four rewards are what it takes to see a streak that is too long: a day, the
next, the first again (committed late, or after the time zone moved west) and
the next once more. The two time zones and five instants make four dates: a run,
a gap and a new start. Four tasks done one by one or in bulk pass each level
exactly, by more than its XP, and the last one; sessions reach `CountDay` in the
same way and are left to `rewards_core` and to the proof.

With a queue of one and two senders, an event is refused, waits, is taken while
another is sent, and is drained. A request of two rows exceeds the scaled free
limit of one and can name the same id or instant twice. Three attempts are a
first, a middle and a last one; two schedulers are a stale worker and its
successor; two requests let an edit or a closing meet a delivery twice, or an
edit wait while the address changes. One reminder suffices since a worker has
one delivery and the row is what workers contend for; a task's lock is then
held by the requests.

Two create requests are a repeat of one key, two payments of one user, or two
users who chose the same key; a webhook and a sync of each meet them. Four names
are one more than the limit, and two requests are the race for the last place.
Two calls on the server are whatever was read and whatever makes it old: a login
or a rotation against a change, two uses of a link, a use and a replacement. Two
new tokens or links let something be rotated or replaced twice. Two attempts
are a first and a last one.

`premium`, `accounts` and `operations` begin from scenarios that their MC module
spells out (`MCInit` conjoins a choice to the module's own initial states). The
scenarios choose who is there: which requests are made, which workers or tabs
exist, how many rows are left to use. The states of the scenarios then add up
where those of all actors at once would multiply. Rows that a scenario must not
use are `spent` in the initial state (`SpentToken`, `SpentLink`): rows of the past
that no action looks at.

`MaxBegun` in `RewardTx`, `MaxEdits` in `Reminders`, `MaxTokens` and `MaxLinks` in `Accounts`,
`MaxTime`, `MaxRows` and `MaxId` in `ReminderRules` and `MaxNow` in `Progress` bound behaviours artificially; the
sets of tasks, sessions, requests, keys and tabs bound everything else.
Deadlock is checked in `reminder_rules` and `reminders`, where schedulers and owners
always have a step; the other models really stop when their sets are used up.

`MCRewardTx` leaves out orders that differ in names only or in what no transaction
reads (`Ready`): tasks are created before the first transaction, the second
request begins beside the first, and the extra break is taken at a session's last
age; breaks in every order are in `rewards_core`. Its fairness has the clauses
of `FairTxSpec`.

Symmetry is used for tasks and sessions, requests, keys and commands in the
runs that check safety; runs with liveness use none. The modules' type
invariants are parts of the inductive invariants of section 4 and are left to
the proofs, with `ReadsStayFresh`, on which `Serialisable` rests.

Fairness. `FairTxSpec` asks for strong fairness of each transaction's next step:
PostgreSQL serves a row's lock queue in order, so a lock that is released again
and again is obtained. Refusals and the choice of a deadlock's victim are weakly
fair: the code returns an error without waiting, and the database looks for
deadlocks periodically. `LogFairness` asks for strong fairness of each request's
goroutine for the same reason, for weak fairness of the senders (a call of the
service ends with its timeout) and of the drain. `FairSpec` of `Reminders` asks for
weak fairness of each scheduler (its timer fires within 30 seconds, wake-ups or
not), of the end of each request's transaction and of time: a reminder becomes
due and a lease ends. `MailsFairness` asks the same of the mail workers and of
time. Losing a delivery is not limited: the attempts bound it. `CatFairness` asks
that an event of the provider is delivered until it is answered with 200, and that its
update, which waits for the users row, is strongly fair; and that transactions
on categories end. That the provider repeats an event until then is an assumption
about it: a real one gives up some day, and the row then waits for `sync`. Nobody has to pay or to ask. Nothing is assumed of clients,
of tabs or of crashes. Runs that check safety alone use no fairness.

Refinement. `Serialisable` maps the split transactions to `Rewards` by the
identity on the tables. `KeepsLedger` instantiates `PremiumLedger` with the
provider's settled payments as what was paid and `is_premium` as it is, and its
liveness says that a payer whose client never comes back becomes premium.
A payment whose row was never written does not contradict that: a client can
pay only with the link, which it is given after the row was written.

### Findings

1. *An imported personal reward may cost less than the documented minimum.*
   `docs/BUSINESS-LOGIC.md:128` gives every personal reward a price of 10 to
   1 000 000; `shop.go:95` imports any price above 0.
2. *A lost session turns a retry into a second command.* The comment on
   `command()` promises that a retry after an uncertain response reuses the
   operation. A 401 removes the key, also the one `api()` makes up when the
   session ended while the response was on its way. `commands` shows the promise
   kept for every command that never met such a 401.

### Observations

Not contradictions of anything the repository promises, but worth knowing:

- A streak may be one day too long. A request whose BEGIN is before midnight and
  whose lock is granted after that of a later one puts `last_activity_date` back
  by a day, and the next reward counts the same day again (`stats_transactions.go:30`,
  `:37`); moving the time zone west does the same. `SetbackBoundsStreak` says by how
  much at most.
- A link may take effect after it has expired: a reset or a confirmation that waits
  for the users row compares `expires_at` with the time of its BEGIN (`account.go:219`,
  `:256`). It still takes effect once.
- A change of the password in one tab while another tab exchanges the token ends
  the browser's session: the exchange is answered 401, since the change has
  deleted its token, and if that answer is handled first, the tokens the change
  was answered with are given up by their own tab. The account then has a session
  nobody holds until it expires.
- A logout carries the token its tab has sent. If another tab's exchange of that
  token comes first on the server, the logout finds nothing to delete, and the new
  token stays alive until it expires.
- `create` may store `succeeded` at once when a repeated key finds a settled
  payment; premium then follows with the webhook only, since `sync` looks at
  pending rows. `README.md:291` says that premium and status are stored together,
  which is true of webhook and sync.
- The backend's `main` leaves with `os.Exit(1)` when requests have not ended after
  the shutdown's five seconds; events of the queue then vanish without being
  counted. The model has this as a restart.

## 4. What is proved

Everything here holds for all constants that satisfy the assumptions of the
modules and for any number of steps.

*`Rewards`* (`WalletAssumption`, `RewardsAssumption`: finite sets of tasks,
sessions and reward ids, natural numbers for amounts, positive prices, a cycle of at least two):

- `TypeCorrect`: `Spec => []TypeOK`. `TypeOK` is inductive by itself; the lemma
  `TypeStep` has one step per action. The point that is not obvious is that
  coins stay natural: every charge is preceded by its comparison.
- `Balanced`: `Spec => []WalletBalances`, inductive together with `TypeOK`. `Credit`
  adds coins for exactly the events that are new to the ledger (`NewEvents` on
  cardinalities), `Charge` moves coins to `spent`.
- `AccountsHold`: `Spec => []Accounts`, the inductive strengthening behind the
  rest. Neither "claimed iff paid" nor "points agree with coins" is inductive
  alone: an action adds points for the events *it* believes new (task not
  claimed, session active), the ledger for those with no row. Only because
  claims and rows agree before the step, and an active session has no row, are
  these the same events. `Accounts` therefore joins the typing, both agreements,
  the session statuses and the references that deletion clears. One lemma per
  action proves that it is preserved; `RewardMatches` is the arithmetic they
  share.
- `StatsAgree`, `PaidOnce` (with the part of `SessionsCounted` about pay,
  `PaidIffCounted`), `FocusCoherent`, `OneActive` follow from it.
- `CycleCounts`: `Spec => []SessionsCounted`, with the rest of it about the cycle:
  the counter and the counted sessions move together, and a rest that waits
  was chosen by the counter it still stands beside.
- `AchievementsHold`, `RewardsStay` and `WalletHolds` are `AchievementsCurrent`,
  `NothingTakenBack` and `WalletHoldsOwned`. The first is inductive because every
  action that moves the journal or the counters checks last; the second has one
  step per way in which an action may award, charge or take in an item; the limit
  of personal rewards is a fact about cardinalities, once for each way in, and so
  is that an import without a theme or a sound leaves more rewards behind.

*`Progress`* (in addition `ProgressAssumption`: a day has a length, time zones are
integers, the first level needs something, there are at least two levels, and
both rewards are positive):

- The lemma `StreakDisturbsNothing`, `ProgressSpec => Spec`, carries the theorems about
  `Rewards` over. It follows from how `Serve` is written and says nothing about the
  streak; so do `LoggingDisturbsNothing` and `CategoriesKeepPayments` below, for the
  other two compositions.
- `LevelsFollow`: `ProgressSpec => []LevelFollowsPoints`. The loop of `CalculateLevel`
  is a recursive function on levels; `RemainingIs` gives its value in closed form
  by induction (`Counting`), and `LevelReached` that the first level whose need is not met is
  the one whose sum has been reached. The requirements grow by any step, to any
  last level, and one reward may pass several.
- `TrueStreaks`: `ProgressSpec => []StreaksAreRuns`. `RunsAgree` keeps the length of the run
  that ends with the last day; `RunsGrow` says that a day after all others
  continues the run of the day before, or starts one, and leaves all earlier
  runs as they are.
- `StreaksBounded`: `ProgressSpec => []SetbackBoundsStreak`. That the best streak exceeds
  the days by no more than the setback is not inductive: after a setback the same
  days are counted again. `WithinDays` compares the current streak with the days
  up to the one counted last; a step forward adds one to both, and a step back
  loses no more of them than it adds to `setback`.

*`RewardTx`* (in addition, `RewardTxAssumption`: ids are numbers, and `NoOne` is not
a request):

- `LocksHold`: `TxSpec => []TxInv`. `TxInv` joins `Accounts`, of the tables, with
  what each transaction holds and has read, stage by stage: the user's lock from
  its first step on, the rows it has read as they still are because it has
  locked them, a session only to finish it or because it abandoned it. Neither
  half is inductive alone: that a finish may pay a session needs the lock of
  that session, and that its lock is worth something needs the tables in order.
  A step of one transaction disturbs no other because it leaves alone what the
  other has locked (`Spared`).
- `Implements`: `TxSpec => Serialisable`: a commit is one action of `Rewards` from the
  state it finds, every other step a stutter. `ReadsFresh` is the invariant's part
  about rows.
- `NoOtherDeadlock`: `TxSpec => []OnlyBulkDeadlocks`. Whoever waits in a circle and
  holds a task is about to lock another one, which only bulk requests do; and
  the holder of a session that somebody waits for never waits. Those in the
  circle that hold a task are therefore a circle of their own, of bulk requests.

*`Operations` and `ActivityLog`* (`NoneIsNothing`, `CapacityPositive`,
`ExitedIsNoRequest`):

- `OperationsHold`: `OpSpec => []OpInv`. A key's single effect is not inductive: that a
  second commit cannot happen rests on who holds the users row and on the
  handler having seen no stored row under that same lock. `OpInv` says both of
  every request in its stage, and that stored rows, committed operations and
  callbacks belong together. `OneEffect`, `TrueAnswers` and `CallbacksAfterCommit`
  follow.
- The lemma `LoggingDisturbsNothing`, `LogSpec => OpSpec`, carries these theorems over
  to the composition that is run.
- `EventsHaveFates`: `LogSpec => []EventsAccounted`, with `LogInv`: an event is in one
  place of the client at most, and has got there through a callback that ran.

*`Commands`* (the assumption of `Operations`):

- `CommandsHold`: `CmdSpec => []CmdInv`. That a command has no more effects than it
  was meant to have is not inductive; `CmdInv` counts keys. While no lost session
  made the browser drop one, a command was meant exactly as often as its
  requests had different keys, and `OpInv` gives each key one effect at most. What
  was confirmed are effects whose key is no longer kept, and one request at a
  time waits for the key that is. `MeantEffects` and `NewConfirmations` follow.

*`ReminderRules`* (`ReminderRulesAssumption`: natural numbers for the bounds, and
`None` is no number):

- `RulesAgree`: `Spec => []RemindersAgree`, for requests and tasks with any number of
  rows. What the loop of `PlanReminders` computes is an induction over its turns:
  `PlansUnfold` shows that the recursive function `Plans` has a solution,
  `TurnFollows` what one turn adds to the plan, and `LoopFollows` that the set of
  turns after which the plan is the right one has all of them (`SetInduction`, from
  the well-foundedness of the natural numbers, since an induction theorem with
  an operator parameter cannot be used here). Errors stay: no later turn takes
  a refusal back. `PlanFollows` adds the tariff's limit.
- `RulesInv` joins the typing of the rows, whose ids are different and drawn
  already, with `InstantsAgree`. An edit keeps it since the plan it accepts is what
  was asked for, in different instants; `Numbers` shows that the rows it adds get
  new ids, one each, by counting the rows before them.

*`Reminders`* (`RemindersAssumption`: natural numbers for the limits, and names that
differ):

- `RemindersHold`: `Spec => []ReminderInv`, for any number of schedulers. A lease can
  outlive its row's plan, and a scheduler its lease. The invariant tells plans
  and attempts apart: the deliveries of one plan have different attempts, the
  latest is the row's, and the token of a row is that of its latest delivery.
  `Paid` then counts the mails sent together with those that may still be: they
  are no more than the attempts, and than the losses and one; if they are as
  many, a row that still waits is under a lease that lasts, so that nobody else
  claims it.
- `MailsBounded`, `TrueRecords`, `Served` and `DuplicatesNeedLosses` follow.

*`Payments` and `Categories`* (`OwnersAreUsers`, `NoneIsNoRequest` and, since nothing
else is needed of them, any sets of users, keys and requests):

- `PaymentsHold`: `PaySpec => []PayInv`. What a handler read of the provider is old
  when it is used; `PayInv` says what of it lasts: a settled payment stays
  settled, a reply that says "succeeded" or "canceled" is still right, a linked
  request has its row, and a sync only holds payments of its user.
- `ImplementsLedger`: `PaySpec => Ledger!SafeSpec`, the safety part of `KeepsLedger`:
  initial states map to initial states and each step to paying, to entitling or
  to a stutter. `RowsFollow` and `SettledStay` come from the same invariant.
- `LimitHolds`: the limit of categories, from `CatInv`: a request past its count
  holds the users row, and the row is what a grant and another count wait for.
  The lemma `CategoriesKeepPayments`, `CatSpec => PaySpec`, carries the theorems about
  payments over.

*`Accounts`, `Mails` and `Session`* (`AddressesDiffer`, `NoneIsNobody`,
`BoundsAreNumbers`, `AttemptsPositive`):

- `SessionHolds`: `SessionSpec => []SessionInv`. The server's half is `ServerInv`: live
  sessions are of the current version, an issued token was never made under a
  version to come, links and confirmations agree, and what a call remembers of a
  token, link or version is at most out of date, never wrong. Steps are
  described by what they leave alone (`CredsGrow`, `LinksGrow`): tokens and links
  keep their owner, nothing dead comes back, versions only grow. The browser's
  half is `Whose` and `AnswersLast`: a request that is not stale is of the user its
  tab sees, and what a tab was answered is still so when it gets to act on it,
  because a refusal is for good.
- `CurrentCredentials`, `LinksTakeEffectOnce`, `AccountKept` and `EndsRefused` follow;
  the last two are action properties and use that only `Receive` and `Adopt` touch
  the store.
- `MailsMatch`: `SessionSpec => []MailMatchesLink`. The outboxes need `MailInv`, which adds
  that a current link goes to the present address of its account: otherwise a
  worker would cancel the mail of a link that still looks usable to the server.
- `RotatesOnce`: `SessionSpec /\ []Private => []OneRotation`. `Private` says that no call
  of `Accounts` presents a token this browser holds; such a call, by somebody
  who has the token as well, exchanges it behind the tabs' backs, and the
  property is not meant to hold then. In the run it holds since the scenarios
  have either calls or tabs. The invariant is `TurnInv`: a token a tab was given
  is known to nobody else until it is stored, the stored token is exchanged only
  while the tab that did so holds the lock, and whoever waits for a refusal asked
  with a token nobody had exchanged, or whose exchange was given up. That the
  answer is stored before the lock is released needs that a tab with the stored
  token is never stale.

Only model-checked: liveness under fairness, which the prover does not handle:
`EveryRequestEnds`, `EveryRequestAnswered`, `ClientCloses`, `EventuallySettled`,
`EveryMailSettles`, `RowsCatchUp` and the fair part of `KeepsLedger`. Every other
property of a passing run is a theorem or a conjunct of one.

## 5. What is not modelled, and the plan

Left out on purpose:

- titles, descriptions, amounts, colours and other payload; the outcome fields
  of a response (they repeat what the transaction did); the profile of an
  account but its time zone; rank titles;
- rate limits (a library), read-only pages, the activity-log service (plain
  I/O), the user interface and the deployment;
- of payments: the provider's signature, the state `waiting_for_capture` (every
  payment is captured at once), a server without provider, and the premium
  switch of development builds;
- of the browser's session: two requests of one tab that share one exchange, a
  browser without `navigator.locks`, an exchange that starts without a 401
  (`refreshAccess` of a page), and the end of a session after a password reset;
- of the notifiers: the order in which a process starts and stops (a stop at
  any point is a step), the wake-up channel (the timer is what fairness rests
  on) and the lengths of delays;
- the retired mechanics, which only refuse, and storage functions without a
  caller (`StopPomodoroSession`, `DeletePomodoroSession`, `UpdateUserStats`).

Data migrated from older versions is an initial state of `ReminderRules` only;
the other models start from accounts made by the present version.

Next, in this order:

1. Requests of one tab that share an exchange.
2. The view of a task in `Commands`, to tell a retry from a second wish.
3. The order of the claims in `Reminders`, and with it which reminder waits longest.
