# A verification project for FinancialEdApp

FinancialEdApp is a personal-finance service: a FastAPI backend
(`src/backend/app`) over two PostgreSQL databases (accounts in `auth_db`,
finances in `data_db`), Redis for short-lived state, a cron worker, and a web
client (`src/frontend/src`). Handlers are coroutines: every `await` of a query
or of a Redis command lets other requests run, on the same process or on
another replica. Sessions are READ COMMITTED and almost nothing is locked, so
the questions worth asking are about what happens *between* two awaits and
*between* two commits.

This directory holds TLA+ models of the parts where that matters, TLC
configurations that check them on small instances, and proofs that hold for
every instance.

Paths below are relative to `src/backend/app` unless they say otherwise.

## Inventory

| Component | State | Operations | What is hard | What makes it correct |
|---|---|---|---|---|
| **Refresh-token sessions** `services/auth_service.py`, `repositories/refresh_token_repository.py`, `api/v1/auth.py`, `api/v1/admin.py`, `core/worker.py` | `refresh_tokens` (hash, revoked, replaced_by, expires), `users` (active, hash) | log in, refresh (validate, load user, rotate), log out, change/reset password, suspend, erase, purge | validation and rotation are separate transactions; the same second signs the same token; the purge forgets rows | a spent token never works again; deactivation is final for the sessions there are |
| **Expenses, budgets, alerts** `services/expense_service.py`, `repositories/{expense,budget}_repository.py`, `services/budget_service.py` | `expenses`, `budgets` with the cached `spent_amount`, `budget_alerts` | add, edit, delete an expense; set, edit, delete a budget; read an alert | the expense is committed before the cached sum is recomputed; look-up-then-insert without a constraint | the cache is a sum that was true; it is repaired when nobody interferes; duplicates are bounded |
| **Access gate** `dependencies.py`, `core/cache_service.py` | a 30-minute cache of user flags, a session blacklist | admit a request, fill the cache, blacklist at logout | no invalidation; a fill races with a suspension; the blacklist has no reader | whoever is let in had an active account while the request, or the cache's, was served |
| **Log-in lockout** `services/auth_service.py`, `core/provider_implementations.py` | a counter per address in Redis, with a TTL | check, count a failure, clear, expire | `GET`, `INCR`, `EXPIRE` and `DEL` are separate commands, errors are swallowed, a failed read lets the log-in pass | the threshold is passed by no more than what overlaps; a lock ends |
| **One-time tokens** `services/verification_token_service.py`, `api/v1/auth.py` | hashes and counters in Redis, with a TTL | mail a link, redeem it | `GET` then `DEL`, `GET` then `INCR`, errors swallowed | a link works once (it does not: see the findings); the limit of mails is passed by no more than what overlaps |
| **Loans** `services/loan_service.py`, `loan_domain.py`, `loan_calculators.py`, `repositories/financial_profile_repository.py` | `loans` (balance, status), `loan_payments`, the financial profile (`total_emi`, disposable income) | create, edit, pay, delete, refresh and edit the profile; schedules and what-if questions | read-modify-write of the balance; three steps to refresh the profile; rounding; due dates at month ends | nothing is repaid twice; a payment closes only a loan that was repaid; a refresh nobody disturbs is exact; what a client is told of changes matches the schedule |
| **Notification hub** `core/websocket_manager.py`, `api/v1/websocket.py` | sockets per user, Pub/Sub subscriptions | connect, disconnect, publish, listen, reconnect | unreachable as wired: `websocket.py:61` calls `decode_token` with three arguments instead of one, so every connection is refused, and nothing publishes | — until it is connected |
| **Goals** `services/goal_service.py`, `goal_notification_service.py` | `goals` (amount, target, status), milestones announced | create, edit, add progress, delete, announce, look for goals that lag | status, target and amount are edited by requests that overlap | a goal completed by itself had reached a target; what is announced was reached |
| **Two-factor** `services/two_factor_service.py`, `api/v1/two_factor.py` | secret, list of backup codes | enable, verify, consume a backup code | row loaded and written back around other requests; a key that a restart replaces | the factor is on only with codes to fall back on |
| **OAuth accounts** `services/oauth_service.py` and its repositories | state keys, linked accounts, users | begin, call back, link, unlink, list | state read then deleted; link, e-mail and insert are separate queries; the provider may report another address | an identity signs in as the user it was linked to |
| **Registration, erasure, retention** `services/gdpr_service.py`, `api/v1/auth.py` | both databases | register, erase, export, sweep | two databases, two commits | what is erased stays so; half a registration lets nobody in who isn't there |
| **Rate limiting** `core/rate_limiting.py`, `core/middleware.py`, `main.py` | a sorted set per user or address and rule | admit, refuse, ask, reset | atomic in Redis, but scores are the clocks of processes and members may coincide; fails open | no more than the limit in any window, up to the lag of the clocks |
| **Worker** `core/worker.py` | none of its own | cron jobs | crash and retry of a job | the purge agrees with the token rules |
| **Currency** `services/currency_service.py` | a two-level cache | look up, refresh | staleness | a rate is never older than both TTLs |
| **Notifications** `services/notification_service.py`, `loan_reminder_service.py`, `budget_alert_service.py` | `notifications`, `budget_alerts` | create, page, read, delete, remind, alert | pages cut by offset from a list that moves; an alert in two commits | a client that pages misses only what the list moved past it |
| **Web client sessions** `src/frontend/src/services/api.js`, `store/authStore.js`, `utils/tokenManager.js` | the token pair in a browser's local storage | refresh on 401, on load and by timer, log in, log out | every 401 in every page refreshes by itself with what is stored | the token left in storage isn't one that was used up |
| **Assistant** `services/chat/*`, `api/v1/chat.py` | histories in Redis or in a worker's memory | send, list, read, delete; tools that read the other services' tables | a whole history is loaded and saved around a slow call | a conversation keeps the order of its turns |
| **Copies of answers** `core/etag_middleware.py`, `core/cache_service.py` | a browser's cache; keys in Redis | serve, revalidate, fill, invalidate | what is renewed by its tag may be old | a copy is never shown longer than its lifetime after it was true |
| **Reports** `services/expense_analytics_service.py`, `api/v1/{expenses,budgets}.py` | none of its own | summaries, trends, monthly pie, alerts | several queries with writes in between | the parts shown add up to the total shown |
| **Exports, e-mail; start-up, metrics, logging, schemas, deployment; UI** | none shared | files, calls to services | — | not modelled: no steps of several actors share state |

How they interact. `get_current_user` (access gate) runs before every other
handler. The session handlers, suspension, erasure and the purge share
`refresh_tokens` and `users`. The expense service calls the expense
repository, which commits, and then recomputes a row of the budget
repository's table and adds an alert. Loans and budgets meet in the financial
profile (`total_emi`). The client's refresh on 401 exercises token rotation
concurrently, in ordinary use. The lockout counter is read and written by the
log-in only. The worker is fed by the services and feeds nothing back.

The assistant's tools and the reports read what the other services write. The
rate limiter stands before, and the ETag middleware behind, every handler.

`PROJECT.json` lists every hazard at its line, with the properties that cover
it or the reason why none does.

## What is modelled

### `SessionStore` — what the token store promises

Three sets: `live` tokens, `retired` tokens, and `granted` pairs of a request
and the token it found live. A token is issued fresh, an exchange uses up a
grant and retires the token it presents as it issues the successor, and
nothing leaves `retired`. Two grants of one token may both be exchanged: this
is what the code does (the rotation's `UPDATE` does not ask whether the old row
is live), and the specification says so rather than hiding it.

### `AuthSessions` — how the code keeps it

| Model | Code |
|---|---|
| `row`, `revokedAt`, `replacedBy` | the `refresh_tokens` table, keyed by token hash |
| `active`, `pwSetAt` | `users.is_active`, and when `password_hash` changed |
| `erased`, `cutOffAt`, `ended` | an anonymised account; history: the latest deactivation, and the tokens handed out before one |
| `issued` | the tokens clients hold; a client may present any of them at any time |
| `pc`, `usr`, `tok`, `signed`, `resp` | requests in flight: how far, about whom, with which token, what they have signed and not committed, answered how |
| `LoginAuthenticate`, `LoginSign`, `LoginIssue` | `authenticate_user`; `create_user_token`, and the commit of the row |
| `RefreshExpired`, `RefreshValidate`, `RefreshReuse`, `RefreshLoadUser`, `RefreshSign`, `RefreshRotate` | `refresh_user_token` and `rotate`, split at their queries |
| `Logout`, `SetPassword`, `RevokeAfterPassword` | `logout_user`; `change_password` and `reset_password`, split at the first commit |
| `Suspend`, `Unsuspend`, `EraseAccount`, `Purge` | `suspend_user`, `unsuspend_user`, the first commit of `delete_user_account`, `purge_expired_refresh_tokens_task` |

A token *is* a user and an expiry second, because that is all the JWT payload
holds: two tokens of one user signed in the same second are the same string
and the same hash. The clock counts seconds. The JWT check compares whole
seconds and the row's `expires_at` has microseconds, so in its last second a
token may or may not be accepted by the database: `MayBeExpired` leaves both
open. `revoke_all_for_user` does not exist in `RefreshTokenRepository`;
`RefreshReuse` and `RevokeAfterPassword` do what the `AttributeError` leads to.

A token is signed before its row is inserted (`auth_service.py:171` and `:253`,
`refresh_token_repository.py:149-163`), and a suspension can commit in between:
it then finds no row to revoke, and the session it misses is live. `StoreDelay`
bounds the seconds between the two. The code sets no such bound; the model
needs it to be less than `Lifetime`, which is seven days, and no request stays
between its signing and its commit for that long. It is at least 1, so that the
clock moves in between.

`SessionStore` is instantiated with `live <- Live`, `retired <- issued \ Live`
and `granted <- Granted`, the requests between validation and rotation.

### `ExpenseBudget` — a cached sum and its alerts

| Model | Code |
|---|---|
| `expense`, `budget`, `limit`, `spent`, `unread` | the `expenses`, `budgets` and `budget_alerts` tables of one user; an alert is counted, its text is left out |
| a *cell* | a category in a month, the key the budget is looked up by |
| `req` | the requests in flight and what each loaded before its latest await |
| `held` | history: each cell's totals so far, and the amounts typed in for it |
| `CreateExpense`, `RefreshExpense`; `DeleteLookup`, `DeleteExpense` | `ExpenseRepository.create`, which commits and then reads the row again, and fails if it is gone by then; `delete_expense` and `ExpenseRepository.delete`, each with its own commit |
| `FindBudget`, `SumExpenses`, `CheckAlert`, `Commit` | `_update_budget_spent_amount`, `_check_budget_alert` and the second commit, query by query |
| `UpdateExpense` | `update_expense`, which never recomputes a budget: the row before and the row after are one object of the session |
| `SetBudgetLookup`, `SetBudget`, `EditLimit`, `EditSpent`, `DeleteBudget`, `ReadAlert` | `BudgetRepository` |
| `Interrupt` | a statement fails or the process dies between two awaits |

The session's habits are part of the model: a flush writes a column only if
its value differs from the one loaded (`seen`), an `UPDATE` of a row that is
gone fails the transaction, `scalar_one_or_none` raises when two rows match,
and `utilization_at_alert` is `NUMERIC(5,2)`, so from 1000 % on the commit
that holds the alert fails and takes the recomputed sum with it.

`Typed` amounts are what a client may write into `spent_amount` by hand.

### `LoginLockout` — a counter in Redis

| Model | Code |
|---|---|
| `counter`, `ttl` | the key `lockout:{email}` and what is left of its life; 0 is no key, no expiry |
| `pc` | log-ins past the check, or between `INCR` and `EXPIRE` |
| `orphaned`, `opened`, `recent` | history: an `EXPIRE` was lost; reads that failed; recorded failures by age |
| `Check`, `CheckFailsOpen` | `_is_locked_out`, and `RedisCache.get` when Redis doesn't answer |
| `RecordFailure`, `SetExpiry` | `_record_failed_login`, the two commands of `RedisCache.increment` |
| `RecordFailureUnanswered`, `Abandon` | `INCR` ran and its answer was lost; a command never reached Redis or the process died |
| `ClearFailures`, `Tick` | `_clear_failed_logins`; time passes, and Redis removes the key |

Addresses have keys of their own, so one address is modelled. An attempt on a
locked account changes nothing (it isn't counted), and is no action. A key that
was deleted and created again while a request was on its way to `EXPIRE` gets
its window from that late `EXPIRE`: the model keeps this.

### `WebSession` — the token a browser keeps

| Model | Code |
|---|---|
| `live`, `retired`, `granted` | the server, as `SessionStore` promises it |
| `kept` | the refresh token in local storage, which all pages share |
| `calls` | calls of the refresh route: from which page, sent by whom, with which token, how far |
| `excused` | history: tokens the server ended by itself, and those presented by a page that was closed since |
| `Unauthorized`, `InitAuth`, `RefreshSession` | the 401 interceptor of `api.js`, `initAuth` and `refreshSession` of `authStore.js` |
| `Validate`, `Rotate`, `Fail` | the refresh route, which goes on whether or not anyone waits |
| `Hear`, `FetchUser`, `Again`, `GiveUp`, `Lost` | what the client does with the answer, the error or the silence |
| `SignIn`, `LogOut`, `Unload`, `ServerEnds` | log-in, log-out and the expiry timer, a page that goes away, a session ended elsewhere |

`refreshSession` posts through the same interceptor that handles 401s. If the
refresh itself is answered 401, the interceptor presents the token that is
stored *by then*, stores the answer, and repeats the original call with the
token in its old body. The module has all three calls (`renew`, `again`,
`replay`).

### `OneTimeTokens` — mailed links

`stored` and `count` are the Redis keys, `mailed` the links in the mailbox,
`user` what the links are about. `CheckLimit`, `Count`, `SetExpiry`, `Issue`,
`GetHash`, `DeleteHash`, `LoadUser` and the two commits are the commands and
commits of the four routes, one step each; any command may fail where `Works`
allows it, which `RedisCache` swallows. `stores` and `wins` count, per link and
second, how often it was stored and how often it was redeemed: a link signed
twice in one second is the same string. `GetHash` and `DeleteHash` are the two
commands of what the service calls an atomic check-and-delete.

### `SocialLogin`, `TwoFactor`, `AccountLifecycle` — the rest of an account

`SocialLogin` has the users, the links, the state keys and the requests of
both providers, query by query; rows flushed and not yet committed block others
with the same key, as `UNIQUE` does. `TwoFactor` has the user's columns as the
requests loaded and wrote them, the authenticator's secret, and the key, which
a restart replaces unless it is configured. `AccountLifecycle` follows one
account through both databases, with the token-user cache before the gate.

### `LoanMath`, `LoanCalculator`, `LoanLedger` — loans

`LoanMath` is the arithmetic: instalments, interest, prepayment, schedules and
due dates, in whole cents and fine units of a cent, so that interest is exact.
`LoanCalculator` asks the questions of the routes that change nothing.
Schedules, summaries, payment splits, due dates and averages are compared with
reference definitions (`CalculationsSound`), by TLC on every input in bounds and
by `MoneyProofs` for all inputs; what a client is told of a changed instalment
or a prepayment is compared with the exact recurrence (`ImpactsSound`), by TLC
only. `LoanLedger` is the tables: creating, editing, paying and deleting a loan
and refreshing or editing the profile, query by query and commit by commit, with
the SQLAlchemy session's habit of writing the columns that differ from what it
loaded (`Written`). An edit names any columns at once (`Edits`), principal, rate
and term with the instalment they bring, and all four statuses. It looks for
payments (`LookForPayments`); without any, and with the balance at the
principal, the schedule looks for them again (`ReadSchedule`) and the balance is
set to what the instalments of the past leave (`Rebased`). A payment compares
the balance it computed, with its fractions of a cent, and writes the rounded
one (`AfterPayment`). The profile is read (`LoadToEdit`) and written
(`EditProfile`) in two steps.

### `GoalTracker`, `Inbox` — goals and notifications

A goal's row is loaded and committed in two steps; `past` remembers which
targets and amounts it ever had. The notifier's milestones and off-track alerts
are steps of their own, allowed at any time, since nothing calls them yet.
`Inbox` is the notifications by id (a higher id is newer) and everything that
creates them, and a client that walks the pages. A request counts all
notifications (`CountRows`) and then reads its page (`ReadPage`), in two
queries; a page is the notifications that pass the filter and have at least
`skip` and fewer than `skip + Limit` newer ones before them, which is what
`ORDER BY`, `OFFSET` and `LIMIT` select. The client stops when the total it was
told is reached, so a notification created between the last two queries may push
an older one off the last page: `late` counts those.  The sweep of old
notifications selects (`LoadOld`) and deletes (`CommitOld`) in two steps. An edit
of a goal names any columns at once.

### `RequestLimiter`, `ServedCopies`, `Assistant`, `Reports` — around the services

`RequestLimiter` is the Lua script over sorted sets, whose scores are read from
a process's clock up to `Lag` before the script runs. A tick of its clock is a
tenth of a millisecond, the precision with which a score goes into its member:
requests closer than that are one member. Asking for what remains trims
(`GetRemaining`) and then counts (`CountRemaining`). `ServedCopies` has a browser
behind the ETag middleware, and the cache-aside helpers; a copy renewed by a 304
loses its `must-revalidate`, so a browser that is `Disconnect`ed may show it
when stale. `Assistant` has histories in Redis and in each worker's memory, and
messages between loading and saving them; a `SET` whose answer is lost leaves the
history in both. `Reports` has the routes' reports and the assistant's tools
over expenses and budgets; a report of two queries is two steps, anomalies and
insights among them, and the analytics route always gives its empty answer, as
a `date` makes its condition no SQL. The tools over loans and goals are
operators of `LoanLedger` and `GoalTracker`.

### What the models show besides

Reading the code for these modules turned up behaviour that the models contain
and no property states:

* unlinking a social account answers 200 and is never committed;
* nothing reads the blacklist that log-out writes, and the web client doesn't
  call log-out: its refresh token stays valid for its seven days;
* a log-out in one page is undone by the answer another page is waiting for;
* a client whose refresh meets a 401 refreshes successfully with the newer
  token, repeats the call with the older one, and then logs itself out;
* the token-user cache never produces a hit, since the user is rebuilt by
  `__new__`; the sweep of inactive accounts and the erasure route fail before
  they do anything;
* turning the second factor off, and verifying a right code, always fail;
* a death between two commits leaves half an erasure, half a registration, or a
  notification without its budget alert;
* two budgets of one category and month each get the whole category in the
  monthly pie;
* the assistant calls all loans active, leaves instalments out of the
  disposable income, and draws other lines for budgets (80 and 100 %) than the
  dashboard (90 and 100 %).


## The runs

| Run | Shows | Bounds |
|---|---|---|
| `auth_sessions` | the type invariant, five safety properties and the refinement of `SessionStore` | one user, two overlapping requests, a clock of 0..3, `Lifetime` = `Retention` = 2, `StoreDelay` = 1; 733,509 states |
| `reuse_revokes_all` | **violated**: a replayed token is refused, and the user's other sessions stay live | the same |
| `password_change_ends_sessions` | **violated**: a changed password leaves the older sessions live | the same |
| `expense_budget` | the type invariant and five properties of the cached sums, the alerts and the duplicates | two requests, two cells of which one has budgets, two expenses of 9, two budgets of 1 or 20; 1,517,770 states |
| `create_is_all_or_nothing` | **violated**: an expense whose creation is answered with an error is in the table | one request, one cell, two expenses, one budget |
| `login_lockout` | the type invariant, three safety properties and the end of a lock | three requests, a threshold of 2, a window of 3 steps, one failing read; 10,622 states |
| `lock_is_temporary` | **violated**: after a failure between `INCR` and `EXPIRE` a lock never ends | one request, no failing read |
| `link_is_redeemed_once` | **violated**, without any fault: two requests that overlap redeem one mailed link | two requests, one mail, one second |
| `accounts` | mailed links, social log-in, the second factor, the life of an account, and the browser's token | two requests; see below; 4,172,983 states |
| `savings` | goals, notifications and paging | two requests; see below; 2,391,646 states |
| `money` | the ledger of loans, the profile, and the calculators | two requests; see below; 1,988,920 states |
| `platform` | the rate limit, copies of answers, conversations, reports | see below; 607,259 states |

**Several services in one run.** The last four runs hold several modules. The
variable `service` is chosen at the start and a behaviour exercises that
service alone: the services of a run share no row and no key, so composing
their steps would only multiply the states. What they do share is modelled
where it is shared (payments and the profile in `LoanLedger`, budgets and
their alerts in `ExpenseBudget`). Their modules take every constant from the
configuration, and so what is proved of the composed specification holds for
any values, those of the run among them.

**Why these bounds are enough.** *Sessions:* the properties relate tokens of
one user, and no operation relates two users, so one user suffices. Two
requests give every pair of overlapping handlers; logout, suspension, erasure
and purge are single commits and come in between without taking a slot. With a
lifetime of 2 and a clock of 0..3 there are tokens that are expired, expiring
and fresh at one time, and a row's whole life (signed, stored a second later,
revoked, purged, and a token of a later second inserted) fits into the run.
`Retention` = `Lifetime` is the ratio of the code (seven days each) and the
tightest that is allowed; `StoreDelay` = 1 is the most that is less than
`Lifetime`, so that a suspension falls between signing and commit in a second of
its own.
*Budgets:* two requests overlap in every way the two-commit structure allows;
an amount of 9 against limits of 1 and 20 puts a single expense below the
threshold, two of them exactly at 90 %, and either beyond 1000 %. The second
cell receives the expenses that are moved away, and has no budget. Two budget
keys are enough for a duplicate, and two unread alerts are what makes
`scalar_one_or_none` raise. These runs use symmetry of requests and primary
keys; they check no liveness property that symmetry could disturb. *Lockout:*
three requests are one more than the threshold, so the counter can pass it, one
request can sit before its `EXPIRE` while a second deletes the key and a third
creates it again, and two lives of the key fit into what three steps of the
clock remember. One failing read lets a locked account be tried again. There is
no symmetry, because of the liveness property.

*Accounts:* one mail per window, so that two requests exceed the limit; two
seconds, so that a link is made anew, or twice in one; two mails, or one where
commands fail. Two addresses and an identity at each of two providers, so that a
provider can report another address, or one that belongs to somebody else. Two
secrets and two keys of the second factor. Two suspensions, so that an account
is suspended, restored and suspended again during one request. Two pages, two
calls and three refresh tokens: a token, its successor and the successor's can
all be on their way. *Savings:* targets of 2.00 and 0.50 and amounts of 0.50 and
1.49, of which one is half a percent short of a milestone of the first target
and beyond the second; three days, of which the last is the due date. Pages of
one notification, two notifications while nobody pages and three while a client
does, so that the list grows and shrinks ahead of and behind the client, and
between the two queries of its last request; a budget that may be spent ten
times over, which is where the alert's column overflows. *Money:* one loan of 7
cents over two months at a twelfth a month, with instalments and payments of 4:
the first payment leaves a fraction of a cent, the second nothing that a column
can hold without closing the loan, the third closes it. The loan starts this
month or a month ago, so an edit finds an instalment of the past or none; edits
of principal, rate and term calculate the one instalment of this run, so what
edits change here is the status, the start and the balance (the proofs hold for
any). An income of 9 and outgoings of 1, which overlapping requests write and
refresh. Calculators of 1, 3, 13 and 30 cents, up to 5 months, with and without
interest, instalments that cover the interest and some that don't, prepayments
up to and beyond the debt; due dates that start around month ends, in a leap
year and before it. *Platform:* a limit of 2 in a window of 3 with clocks 1
behind, over 7 ticks, more than two windows; a lifetime of two ticks, long
enough to be renewed and outlived; a history of one turn, so that it is trimmed,
three questions, two messages at once, two workers; two expenses, two budgets
and two months, so that a category is budgeted twice, or in another month only.

Deadlock is checked in the session and budget runs. In the lockout runs it is
not: that system may really stop, when a counter without an expiry has locked
the account, nobody can log in, and no time is being counted down. In the last
four runs it isn't either, since their bounds (mails, seconds, days, payments,
rows, tokens, questions) end a behaviour that the code would continue.

**Fairness.** Only `LoginLockout` assumes any. The other models' properties are
safety properties, and a request may stop for ever at any await. `LoginLockout`
assumes that time passes (`WF(Tick)`: Redis counts a key's life down by itself)
and that a log-in which has begun comes to an end (`WF(Finish(r))`: a command is
answered, or its connection fails, which `main.py:135-136` detects by a connect
timeout and TCP keep-alive, and an error or a crash, `Abandon`, is an end too).
It doesn't assume that anybody logs in, that a request ends well, or that any
particular one of the ends is ever taken.

**Properties.**

* `NoResurrection`: a token that was handed out and is not accepted is never
  accepted again. Three things could break it: a rotation that was overtaken by
  a revocation, a log-in in the same second, and a log-in after a purge.
* `ReplayableRowsKept`: the purge keeps every row that a client could still
  present, so a replay is recognised.
* `ChainMovesForward`: `replaced_by` leads to later tokens of the same user.
* `PresentedTokenSpent`: whoever received a successor can't use the token it
  traded in.
* `DeactivationEndsOldSessions`: no token that was handed out before a
  deactivation is live afterwards, also after the suspension is lifted, and
  nothing is live that was signed more than `StoreDelay` before it. A token
  signed before a suspension and committed after it is live: the code doesn't
  keep what its cut-off seems to promise, and the property says how far.
* `ImplementsStore`: the tables implement `SessionStore`.
* `StoredIsLive`: however pages and calls overlap and whatever is lost, a
  browser is left with a used-up token only while the answer that replaces it
  is on its way, or after the page that waited for it was closed.
* `SendsBounded`: while Redis works, a window lets through the limit of mails
  and one more for each further request that overlaps.
* `SignedInAsLinked`: an identity never signs in as another user than the one
  it is linked to, whatever address the provider reports.
* `AdmittedWasActive`: a request is let in only if the account was active at
  some time since it began, whatever the token-user key still says. (The
  docstring at `dependencies.py:104-106` speaks of a cache; the cache never
  hits.)
* `ShownWasTrue`: whatever races, a budget shows a sum that was true at some
  time, or a typed amount: lost updates make it stale, never a mixture.
* `RepairAlone`: an add or a delete that nobody disturbs leaves the exact sum,
  however wrong the amount was before.
* `AlertsBounded`, `DuplicatesBounded`: unread alerts of a budget, and budgets
  of a cell, never outnumber the requests that overlap: the look-up fails only
  for requests that were there together.
* `AlertsHaveBudget`: no alert outlives its budget.
* `NothingRepaidTwice`: overlapping payments and edits may lose a payment from
  the balance; none is counted twice: balance and payments add up to at least
  the least amount the loan was ever set to. An edit sets a loan too: when no
  instalment lies in the past, it sets the balance to the end of the schedule,
  which is modelled and not rejected here. What the same fall-through makes a
  summary show is pinned down by `SummariesFollow`.
* `ClosedWhenRepaid`, `PaymentReopensNothing`: a loan that a payment closes was
  repaid (not the other way: a repaid loan may stay active, when its balance is
  a fraction of a cent), and no payment opens a loan again that another request
  closed or set aside meanwhile.
* `RefreshAlone`: a refresh of the profile that nobody disturbs leaves the
  total of the active instalments and the income less that total, whatever was
  there before. A refresh that another commit overtakes may leave an old total.
* `CalculationsSound`, of five parts: a schedule of calculated
  instalments ends within its term, or leaves less than what half a cent in
  every instalment, all that rounding can take, grows to until then; the
  balances shown are those of the schedule, in both services, and before any
  instalment is due one shows the end of the schedule and the other the loan;
  the two services that record payments leave the same balance; due dates fall
  in consecutive months, on the start's day or the last of the shortest month in
  between; an average rate lies between the rates.
* `ImpactsSound`, of three parts. The months that an instalment is said to need
  are never more than it needs, by the exact recurrence. They may be fewer,
  since the code takes `log(1 + P*r/EMI)` for `-log(1 - P*r/EMI)`
  (`loan_calculators.py:56`; `test_loan_calculators.py:135` calls its expected
  value approximate), and are 0 for an instalment that doesn't exceed the
  interest. While it does, prepaying more never saves less, in months or in
  interest; while it doesn't, the interest said to be saved is all there was. The
  remaining interest is the schedule's, to half a cent a month.
* `CompletionEarned`, `AnnouncedWasReached`, `BehindStaysBehind`: a goal that
  completes by itself had reached a target it had; a milestone announced had
  been reached; and waiting alone never puts a goal back on track.
* `WalkMissesOnlyLate`: a client that pages while notifications arrive misses,
  of those that were there when it began, no more than were created between the
  count and the page of its last request, unless one is read or deleted
  meanwhile. It does miss some: the count says 1, a notification is committed,
  and the page of one holds the new one.
* `WindowRespected`: no key lets more scores through than the limit in any time
  shorter by the lag than the window.
* `StaleAtMostTtl`: what a browser that is connected shows out of its own copy was
  the server's answer less than a lifetime ago, however the copy was renewed.
* `TurnsInOrder`: whatever is lost to overlapping messages and failing workers,
  a history has its questions in the order they were asked, each with an answer
  that isn't one to a later question.
* `PieAddsUp`: the slices of a monthly report add up to its total, whatever is
  written between its queries, unless a category had two budgets.
* `CounterBounded`: overlapping log-ins pass the lockout threshold together, but
  only by one for each that overlaps, and one for each read that failed.
* `ExpiryScheduled`: a counter without an expiry is about to get one, or its
  `EXPIRE` was lost; no interleaving of deletions, expiries and late `EXPIRE`s
  forgets it.
* `FailuresBounded`: the window doesn't slide, but no window sees more failures
  than two lives of the key allow.
* `LockoutEnds`: a lock ends, unless the `EXPIRE` was lost.

Next to the definitions they change stand variants marked `Mutant`: a
plausible bug each (a forgotten `WHERE`, an increment instead of a sum, an
upsert, a missing foreign key, the old token stored for the new), with which
TLC finds the property violated. Nothing uses them otherwise.

## Findings

1. *Reuse of a refresh token revokes nothing.* `auth_service.py:233` calls
   `revoke_all_for_user`, which the repository does not define; the
   `AttributeError` is swallowed. The module's own docstring (line 15) and
   `api/v1/auth.py:683` promise that all sessions are revoked.
2. *A password change or reset revokes nothing*, for the same reason, and
   answers 500 with the new password in force (`auth_service.py:304`, promised
   at line 363 and in `api/v1/auth.py:905`).
3. *A failed creation is not rolled back.* `expense_repository.py:74` commits
   the expense before the budget is recomputed; `expense_service.py:62` says
   that a failure at any step rolls everything back.
4. *A lockout can last for ever.* `provider_implementations.py:240-243` sends
   `INCR` and then `EXPIRE`, and only the increment that answers 1 sends it. If
   the process dies or the connection fails in between, the counter has no
   expiry, later increments don't set one, and from the threshold on the
   account is locked until the key is deleted by hand; `auth_service.py:120`
   says "temporarily".
5. *A mailed link can be redeemed twice.*
   `verification_token_service.py:157` reads the hash and line 161 deletes it, in
   two Redis commands: of requests that overlap, each finds it and each verifies
   the address or sets a password. Lines 134-135 promise to "atomically delete
   the hash from Redis (single-use guarantee)", and line 156 says "Atomic
   check-and-delete (single-use)". How often it can happen is bounded by the
   requests that overlap (`RedemptionsAreBounded`).

## What is proved

Every invariant and action property that a passing run checks, and both
refinements, for all values of the constants, with two exceptions that are left
to TLC: the liveness property `LockoutEnds`, and `ImpactsSound`. The proofs are
in `AuthSessionsProofs`, `ExpenseBudgetProofs`, `LoginLockoutProofs`,
`AccountsProofs`, `SavingsProofs`, `MoneyProofs` and `PlatformProofs`, and what
they need of sums and recursions in `FiniteSums`. tlapm checks them with Z3,
Zenon and LS4; a leaf that needs more than the usual time says so.

**Assumptions.** Nothing is assumed but what these say of the constants:

* `BoundsAssumption` (sessions): `MaxTime`, `Lifetime`, `Retention` and
  `StoreDelay` are natural, `Lifetime` is positive and at most `Retention`, which
  the configuration of the code satisfies (seven days and seven days) and
  `ReplayableRowsKept` needs: a shorter retention would let the purge forget
  tokens that can still be presented. `StoreDelay` is less than `Lifetime`: a
  token that expired before its row is committed could be purged and inserted
  again.
* `AmountsAssumption`, `CellsAssumption`, `RequestsAssumption` (budgets):
  amounts are positive, limits natural; budgets are set for existing cells;
  finitely many requests overlap.
* `LimitsAssumption`, `RequestsAssumption` (lockout): threshold and window are
  positive, as they are in the code (5 and 900 seconds); finitely many requests.
* `OneTimeAssumption` (mailed links): the limit of mails is positive, the
  purposes are the code's, finitely many requests.
* `AccountsAssumption`: the assumptions of `SocialLogin` (the providers are the
  code's two), `TwoFactor`, `AccountLifecycle` and `WebSession`, which say only
  that bounds are natural and switches Boolean.
* `GoalAssumption`, `InboxAssumption`: finitely many goals; amounts, targets,
  dates and bounds are natural, the page size is positive.
* `AmountsAssumption` (loans), `UnitAssumption`, `CalculatorAssumption`:
  finitely many loans; principals, payments, terms and the unit of calculation
  are positive, instalments and rates natural, first dates have a month.
* `LimiterAssumption`: limit and window are positive, the lag is no longer than
  the window, and no user has the name of an address.
* `PlatformAssumption`: the assumptions of `ServedCopies`, `Assistant` and
  `Reports`: a lifetime, a history and a month are not empty, amounts are
  positive, the other bounds natural.
* `NoneAssumption` (sessions, budgets): the null value is no row and no key.

**Sums and recursions** (`FiniteSums`). The provers have no induction over
data: the library's induction theorems take a predicate as a parameter. They do
reason about a set of sets. So induction over finite sets is stated as: a
collection that has the empty set, and with a set every set of one element
more, has every finite subset (`ElementInduction`), proved from the least
cardinality of a subset that were missing; likewise for numbers
(`UpToInduction`). The fold behind `SumFunctionOnSet` is a `CHOOSE` of a
function that satisfies a recursion; that one exists, and that it does not
matter in which order the elements are taken, is proved from the same
induction (`SolutionExists`, `SumByPick`, `SumRemove`). What sums of one
element more, of disjoint parts, of renamed, changed, bounded or grouped
elements are follows, and for functions defined by recursion over `0 .. n` that
they exist (`RecursionExists`).

**One service at a time.** `EachServiceAlone`, `SavingsAlone`, `MoneyAlone` and
`PlatformAlone`: with a service chosen, a behaviour of a composed specification
is one of that service's own specification, so what is proved of the service
holds of the composition. The type invariants of the four compositions
(`AccountsTypeCorrect`, `SavingsTypeCorrect`, `MoneyTypeCorrect`,
`PlatformTypeCorrect`) rest on them.

**Sessions.** `Inductive` proves `Spec => []IInv`. The properties are not
inductive alone: `NoResurrection` needs to know that an insert accepted by the
`UNIQUE` constraint is never of a token issued before. A token without a row is
either new or purged; a purged row was expired, or was revoked no earlier than
its token was signed and kept for `Retention >= Lifetime` seconds (`RowsInv`),
so its token's expiry second is past or present. A token about to be stored was
signed at most `StoreDelay < Lifetime` seconds ago, so its expiry is still to
come, and it can't be equal to one that was purged. `RequestsInv` says what a
request remembers and has signed. From `IInv` follow `TypeCorrect`,
`ReplaysAreFound`, `ChainIsAcyclic`, `TradedTokenIsSpent`,
`DeactivationIsFinal`, `RevocationIsFinal` (the action property) and
`Refinement` (`Spec => Store!Spec`, step by step).

**Budgets.** `Inductive` proves `Spec => []IInv` of four parts: `ShapeInv` (the
fields of the tables and requests that the other parts rely on), `RequestInv`
(what each request carries at each stage agrees with `held` and, as long as it
is `alone`, with the tables), `RowsInv` (every shown amount was held; no alerts
without a budget) and `CountInv` (requests about to insert are counted with
the rows). What one request's step does to the others is stated once
(`Frame`, `Follows`) and used for every action. From it follow
`ShownWasTrueAlways`, `AlertsAreBounded`, `DuplicatesAreBounded`,
`AlertsAreOwned` and `RepairIsExact`. These treat a total as a value;
`TypeCorrect` adds that it is a number: the rows are finitely many, so a sum
over them is natural, and so is what is held, shown or carried (`NumbersInv`).

**Lockout.** `Inductive` proves `Spec => []IInv`. `CounterBounded` counts the
requests past the check together with the counter: a failure only moves one of
them over, and `Check` adds one only below the threshold. `ExpiryScheduled`
needs `KeyInv` next to it (no key has no expiry, an expiry ends being orphaned).
From it follow `OvershootIsBounded` and `ExpiryIsNeverForgotten`.
`FailuresAreBounded` needs to know how the failures of a window lie in it: there
is an age (`TwoLives`) on whose either side lie the failures of one life of the
key, each no more than the threshold allows. A failure is recorded in the
present life; a success ends both; as time passes the boundary ages with the
failures, and when the key expires the present life becomes the former, since
the one before it has left the window by then.

**Mailed links.** `LinkTypeCorrect`, `SendsAreBounded` and
`RedemptionsAreBounded`. Neither bound is inductive: between the `GET` and the
`INCR` of one request another may do both. The strengthening counts the
requests between the two commands together with those that are through
(`SendsCounted`, `RedemptionsCounted`), so that a step moves a request from one
count to the other.

**Social log-in.** `SocialLoginCorrect`, `IdentityKeepsItsUser`. A request that
signs in has found its identity's link and knows the user from it, or has
flushed a new link, and then is the only one with that identity, as `UNIQUE`
makes the others wait (`LinkInv`). Links are never changed once committed, so a
sign-in and all that follow it agree.

**Life of an account, and the gate.** `LifecycleCorrect`,
`SuspensionShutsOut`. While there is a request that began after its account was
suspended, erased or gone, the account is not active, and none of these
requests has got past the query that asks (`GateInv`); a reactivation begins
anew.

**Second factor.** `SecondFactorCorrect`: the columns a request loaded, and
those it writes, have codes if the factor is on.

**Web client.** `WebClientCorrect`, `StoredTokenIsLive`. The property speaks of
the token in storage; the invariant adds the one on its way. The token of an
answer nobody has heard is known to nobody else and is live, unless the server
ended it; a call that nobody waits for does not present the stored token,
unless its page was closed. `ClientImplementsStore` is the refinement that
joins the two ends: whatever the pages and the routes they call do is a step of
`SessionStore`, the specification that `AuthSessions` implements.

**Loans.** `LedgerInductive`, then `RepaymentsAreNotDoubled`,
`PaymentsCloseWhatIsRepaid` and `PaymentsReopenNothing`. `NothingRepaidTwice` is
about the loan; a payment is computed on a copy, so the invariant says the same
of every copy between its query and its commit: with what was repaid, also
since it was read, its balance makes up for the least amount the loan was set
to. A copy of a deleted loan is exempt, and its loan stays deleted. That the two
parts of a payment, each rounded to a cent, never lose a cent of the balance is
the lemma `RoundedParts`. `UndisturbedRefreshIsExact` adds what a refresh
carries (`MemoInv`): as long as nobody has committed since, its total is the sum
of the active instalments, and the row it has loaded is the row that is there.
`LedgerTypeCorrect` adds that the totals of routes and tools fit (`TotalsFit`).
An edit rebases a balance on a schedule, whose balances are natural.

**Calculators.** `CalculationsAreSound`, for any loans, rates, terms and dates.
The schedule and the reference recurrence are the same recursion until a debt
ends (`ScheduleIsOwed`). That the calculated instalment leaves so little is the
one hard part: by induction over the instalments, the debt left after `k` of
them, brought to the common denominator `r * Unit^k`, is at most what the
annuity formula leaves, although every month's interest is cut to a fine unit
(`DebtBound`); in that bound the exact annuity would leave nothing, and the
rounded one is less than half a cent below it (`RoundedAtLeast`,
`InterestLeavesLittle`). A due date keeps the least of the start's day and the
lengths of the months so far (`NextIsDue`). An average lies between its rates
because the weighted sum lies between the least and the greatest rate times the
sum of the weights (`SumBetween`).

**Goals.** `GoalInductive`, then `CompletionIsEarned`, `AnnouncementsAreTrue` and
`WaitingIsNoProgress`. Rows, copies and milestones on their way to a notice lie
between the least target and the highest amount that their goal ever had, two
numbers that only move apart. `GoalTypeCorrect` adds that routes, assistant and
notifier show figures that fit the same rows (`GoalTypes`).

**Notifications.** `InboxTypeCorrect`, `PagesMissOnlyLate`. A notification that
was there when the walk began and has not been seen lies at or behind the next
offset (`WalkInv`): what is created in between has a higher id and only moves it
further back, and a page takes exactly the places from one offset to the next.
Of the rows there are when the last page is read, those beyond it are at most as
many as the total that ended the walk fell short of.

**Rate limit.** `LimiterTypeCorrect`, `WindowIsRespected` and
`PlatformKeepsWindow`. The sorted set forgets, and the property is about all
that was ever let through, so the invariant says that whatever was let through
in the last `Window - Lag` is still a member: a script removes only scores a
whole window behind its own, which itself is at most `Lag` behind.

**Copies of answers.** `CopiesAreFresh`, `PlatformCopiesFresh`. A copy was true
when its present lifetime began (`CopyInv`), and an answer on its way was true at
some time since its request was sent, whether it brings a body or renews the
copy by its tag (`GetInv`).

**Conversations.** `ChatKeepsOrder`, `PlatformTalksInOrder`. A history in Redis
or in a worker's memory is in order and ends with an answer (`Settled`); the one
a request works on ends with its own question and knows no newer (`Pending`).
Cutting either from the front keeps it so.

**Reports.** `SlicesMakeTheTotal`, `PlatformPiesAddUp`. The slices of a pie,
grouped by budget and category, are a grouping of the expenses of the month
(`SumGrouped`, `SumRenamed`); what a report holds after its first query
(`MonthRead`) is a set of budgets of which no two share an id.

**Only model-checked.** `LockoutEnds`: liveness under fairness is beyond these
provers. `ImpactsSound`: the months are the least number with a property, and
what is said of them needs exponentials compared across two instalments or
balances, an induction for each of them that has not been carried out. The five
violated properties are counterexamples and have nothing to
prove.


## What is not modelled

Within the modelled components: `last_login` of the log-in, a service without
Redis (no lockout at all), a counter that somebody deletes by hand, the
Redis client's own second try of a command (`retry_on_timeout`; no read timeout
is configured, so it takes a connection that dies after `INCR` was sent), the
device string of a token, a Redis whose memory is full (`allkeys-lru` evicts
counters, which then start over), budget allocation percentages, budgets whose `month`
isn't the first of the month (the client sends the first; others never match),
texts, and the dates of a loan other than those of its schedule. In the client
the access token is abstracted: it may be found expired at any time.

Not modelled at all, each with its reason in `PROJECT.json`:

* the WebSocket hub, because it can't be reached (`websocket.py:61`) and nothing
  publishes;
* the worker's other jobs: they send an e-mail once, or are stubs;
* currency rates: a cache of values that nothing else uses;
* exports and e-mail: files and calls to a server;
* start-up, metrics, logging, schemas, deployment and the user interface;
* code without a caller: `core/rate_limiting_decorators.py`,
  `core/error_handling_decorators.py`, `core/auth_lock.py`, the client's
  offline queue, `LoanCrudService`, `LoanRepository`.

## Plan

1. Refinements that would say more than the invariants: the ledger of loans as
   an implementation of a specification in which a payment is one step and some
   payments are lost; the cached sums of budgets likewise.
2. `NotificationHub`, once the hub can be reached: the connection limit across
   an `await`, delivery once or twice, reconnects.
3. Liveness: an erasure that stopped between its databases is completed, once
   the sweep can run.
