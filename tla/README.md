# A TLA+ model of the Nadbooks backend

Nadbooks is a marketplace: authors upload books, users buy them with a wallet
funded through Paystack or on the Monad chain. The backend is one NestJS process
over MySQL (Prisma) and Redis. It is event-driven: every `await` is a point where
other requests, timers and queue passes run, and very little of it is inside a
database transaction. That is where the difficult behaviour of this program is, and
what the modules here are about: money that is credited, debited and paid out over
several statements, a webhook queue that must survive crashes, tokens that are
revoked while they are being exchanged, orders that are written by pieces, books that
are cached, banned and edited at once, uploads that replace each other, codes that
prove addresses, roles that change under the requests they admitted.

Paths below are relative to the repository's root, the directory that has
`prisma/` and `src/`.

## 1. Inventory

| Component | Source | State | Operations | Modelled in |
|---|---|---|---|---|
| Webhook endpoints and delayed queue | `src/webhook/` | `ProviderResponse` rows (unique per provider and reference); Redis sorted set `webhook:queue`; in-memory `isProcessing` | receive, record, queue; interval timer, fetch of due jobs, processing, removal | `WebhookQueue`, `Inbox` |
| Fiat deposits | `src/payments/deposit/` | `Transaction` row, wallet balance | initiate, `charge.success`, `charge.failed`, public verification | `FiatDeposit` |
| Crypto deposits | `src/payments/deposit/`, `src/webhook/` | `Transaction` row, wallet balance, the chain | initiate, `verifyDeposit` from the endpoint and from a queued Alchemy event | `CryptoDeposit` |
| Withdrawals | `src/payments/withdrawal/` | `Transaction` row, balance, the payout | initiate (balance check, row, payout, debit, status), transfer events | `Withdrawal`, `Decimals` |
| Wallet | `src/wallet/` | balance | credit, debit, as their callers use them | with the four above |
| Refresh tokens | `src/auth/auth.service.ts` | `refresh:<token>`, and two epochs under keys of the same prefix | mint, refresh (rotation), logout, expiry, revocation of one user or of all | `RefreshSessions` |
| Orders and checkout | `src/orders/`, `src/payments/order-payment/`, `src/payments/shared/` | `Order`, `OrderItem`, `Transaction` rows; the charge at Paystack | `POST /orders`, checkout by wallet, Paystack or crypto, failed-charge event | `Checkout` |
| Credentials and Google accounts | `src/auth/` | `User.passwordHash`, `googleId`, `isVerified` | register, login by Google, set a password, link and unlink Google | `Accounts` |
| Transaction PIN | `src/payments/withdrawal/`, `src/auth/auth.service.ts` | `User.pinHash`; in Redis the counter of wrong PINs and the reset code, both with a time to live | verify, set, change, send and resend a reset code, confirm it | `TransactionPin` |
| Verification codes, change of address | `src/auth/auth.service.ts` | in Redis `verify:<email>` and `email-change:<id>`, both with a time to live; `User.email` | send (at login or on demand), verify, request a change, confirm it | `Accounts` |
| Book catalogue, cache and moderation | `src/books/`, `src/admin/` | `Book` rows; in Redis `books:id:<id>` and `books:list:<filters>` | delete, update, restore by the author; ban, review, edit, restore by an admin; cached reads | `Catalogue`; prices in `Checkout` |
| Storage and uploaded files | `src/storage/`, `src/books/`, `src/users/` | objects in buckets; the book's file and cover, the user's avatar | new book, new file or cover, new avatar; roll-back, deletion of what is replaced | `Files` |
| Price feed | `src/price-feed/` | two rates in Redis, two timers | warm-up, polls, conversions, live calls on a miss | `Prices` |
| Roles and activation | `src/users/`, `src/auth/guards/` | `User.role`, `User.isActive`, `RoleChange` rows; the role in each access token | change a role, activate and deactivate, sign in, expiry of a token | `Roles` |
| Profiles, genres, email, Redis/Prisma wrappers, statistics, guards and filters | `src/users/`, `src/genre/` … | see `PROJECT.json` | | not modelled; the reasons are in section 8 |

### How the components interact

- A provider's webhook is an HTTP request to `src/webhook`. It records the event,
  then adds a job to Redis that is due some seconds later. An interval timer runs
  passes over the due jobs; a pass calls the handlers of deposits, withdrawals and
  orders, and removes each job whether or not the handler threw.
- Deposits, withdrawals and checkouts write the same two tables, `Transaction` and
  `Wallet`. They share no lock. Each uses *read the status, act, write the status*.
- Public endpoints (`GET /payments/verify/...`) run the same verification as the
  queue, at the same time.
- A checkout calls `createOrder` with a database transaction; `POST /orders` calls
  it without one. Authors and admins change prices at any time.
- Refresh requests and an admin's revocation meet in Redis only.
- Every withdrawal first verifies the transaction PIN. Verifications, changes and
  resets of one PIN meet in the user's row and in two keys of Redis.
- Reads of a book go to Redis first and fill it; updates, reviews and restorations
  write the row, then delete the key of the book. Lists only expire.
- A login, a registration and a request for a code share the key of an address; a
  change of address has a key of its own. Google's login finds an account by its
  address, never by the identity.
- An administrator's request is admitted by the role in his access token, signed some
  time ago; what it does next depends on the row of the user it is about.
- Deposits, withdrawals and charges convert with the two rates that the polls store.

### Hard behaviours, and what makes each component correct

| Component | Hard because | Correct when |
|---|---|---|
| Webhook queue | concurrent deliveries of one event, overlapping timer callbacks, crash between handler and removal, redelivery | a job is never ahead of its record; one pass at a time; first attempts in order of due time; nothing accepted is forgotten before it was attempted |
| Fiat deposits | two writers (handler, endpoint) and events that come late, twice, or both for one reference | a deposit is failed only if it was; a failed one does not stay pending unless its handler threw; a paid one is credited (it is not, section 4) |
| Crypto deposits | check, credit and status are three statements run by several callers; crash between credit and status | credits are bounded and belong to a confirmed transaction that agrees with what was declared; a settled deposit stays so |
| Withdrawals | the payout comes before the debit; every call can fail after its effect; balance checked and decremented apart | no debit without a payout, none twice; only debits take; a decided withdrawal stays decided, but for a write of `SUCCESS` that reports an error |
| Refresh tokens | get, compare, delete and save are separate Redis calls; epochs are read twice | revocation ends every session that was not being refreshed; refreshing loses no session; a deleted token stays dead; what an epoch means when its key is deleted is section 4 |
| Checkout | orders written by pieces, outside or inside a transaction; prices change; a call to Paystack after the commit | all or nothing; what is charged is what was read; `FAILED` has a reason |
| Transaction PIN | the limit is read before a slow comparison and counted after it; counter and time to live are two calls; codes are read, used and resent in several | the wrong PINs of withdrawals are bounded per window; a lock-out ends; a used code stays used; nothing is replaced unknowingly |
| Catalogue | the row, and copies of it under keys that reads fill and writes delete, in two steps each; authors and admins decide about one book at once | what the public is served is the book as it is, but for known gaps; the cache settles on it; an author does not undo a ban |
| Files | two stores that share no transaction: upload, write, delete, each can fail | a row never refers to an object that a request deleted; an object nobody refers to has a known cause |
| Accounts | codes, addresses and identities meet in one row by several requests, each reading first and writing later | a verified address was proven by its owner; everybody has a way in; a code in a mail stays the valid one |
| Roles | the role that admits is in a token, the row is read before the write and may change in between | nobody becomes super administrator but by one; administrators are out of reach of their equals; the history has no gap but for overtaken requests |
| Price feed | polls, expiry and conversions run on their own clocks | the rates stay in the cache while the sources answer; one conversion uses one rate |

The complete list of hazards, each at its line with the properties about it, is
`hazards` in `PROJECT.json`.

## 2. Modules

```
Inbox            what the queue promises (abstract)
WebhookQueue     endpoints, Redis queue, timer passes, crashes
FiatDeposit      EXTENDS WebhookQueue: the queue composed with a Paystack deposit;
                 INSTANCE Inbox with a refinement mapping
CryptoDeposit    on-chain deposits
Decimals         JavaScript's < on two Decimal objects
Withdrawal       EXTENDS Decimals: one wallet, its withdrawals and its deposits
RefreshSessions  refresh tokens and epochs
Checkout         orders and their payment
TransactionPin   the PIN of a withdrawal, its counter and its reset code
Catalogue        a book, its cached copies and its moderation
Files            uploaded objects and the rows that refer to them
Actors           the users and the requests that Accounts and Roles share
Accounts         registration, codes, change of address, password, Google
Roles            roles, activation and the tokens that carry a role
Prices           the rates in the cache, their polls, and conversions
MC_*             what TLC needs beside a module: payloads, symmetry;
                 MC_Payments runs FiatDeposit and Withdrawal
*Proofs          theorems about the modules they extend
```

A module of theorems covers one component or two that belong together:
`PaymentsProofs` the queue, fiat deposits and withdrawals, `CryptoDepositProofs` the
deposits on chain and the price feed, `AccountsProofs` accounts and roles; the other
five the component of their name. Two components under one roof have no name in
common: that is why `Withdrawal`, `Roles` and `Prices` say `WithdrawalNext`,
`RolesNext` and `PricesNext` where the others say `Next`, and have names of their own
for the death of a process and the count of faults.

One rule decides the grain of every module: **an action is the code between two
awaits** whose result another actor could notice. Where several database calls are
in one interactive transaction, their effect is one action at the commit, and
what happens in the transaction is kept in the request's local state. An exception
is an action too, `...Fails` or `...Throw`, at every point where a call can fail; a
write that may have had its effect before it failed is modelled with both outcomes. `Crash` (in
`Withdrawal` `ProcessDies`, in `Prices` `Restart`) forgets all local state and keeps
MySQL, Redis and the outside world.

### WebhookQueue, and its promise Inbox

`recorded` is the set of references with a `ProviderResponse`; `queue` the sorted
set, a job being an id, a due time (`score`) and a payload; `rpc`/`rload` the
control point and the payload of each HTTP request; `ppc`, `batch`, `current` those
of each timer callback; `isProcessing` the in-memory flag. `Receive`,
`FindResponse`, `CreateResponse`, `AddToQueue` are `webhook.controller.ts`,
`webhook.service.ts:81-109` and `webhook-queue.service.ts:26-44`; `Tick`, `Fetch`,
`Process`, `Throw`, `Remove`, `PassFails` are `webhook-queue.service.ts:46-90`: a
handler returns or throws, and the job is removed in both cases. The members
of the sorted set begin with a random id, so two jobs with one score come in any
order: `First` gives all of them. `attempted` and `thrown` are history.

`Inbox` is what a user of a queue wants to be told: an accepted event is attempted
at least once and forgotten only after an attempt. It promises nothing about how the
attempt ends, for the code drops a job whose handler threw. `KeepsPromise` in
`FiatDeposit` is the refinement: `accepted` is every job id given out, `settled`
those no longer in Redis.

### FiatDeposit

Adds `status` (the row), `credits` (how often its amount reached the wallet) and
`emitted` (what Paystack has reported). `ProcessAndHandle` conjoins a pass's step
with the handler (`deposit.service.ts:185-232`), `HandlerThrows` a handler that throws:
its write was not made, or was made and reported an error. The queue then drops the job,
and a failed deposit may be left `PENDING`; `PendingOnlyIfThrown` says that an event is
spent for nothing in no other way. `Verify` is the public endpoint: it tests a
field `success` that the provider's answer does not have, and searches the row by an
absent hash, a filter that Prisma ignores; both are in the model as they are in the
code.

### CryptoDeposit

`chain`, `row`, `status`,
`credits`, and for each verification a control point and a hash. `Lookup`,
`AskProvider`, `Reread`, `Credit`, `Settle` are the awaits of `verifyDeposit`
(`deposit.service.ts:102-183`). A row may declare the address a deposit comes from and
its amount; each agrees with the log, differs from it or is absent (an amount of 0 is
absent), and `Verified` compares only what is there, as
`crypto-deposit.provider.ts:88-102` does. A verification is run by a caller of the endpoint or
by the queue's processor; there is one processor, which is what `OnePassAtATime`
shows of the queue.

### Withdrawal and Decimals

One wallet. `initiateWithdrawal` (`withdrawal.service.ts:119-196`) begins after the
PIN was verified: balance check (`Submit`), row (`Record`), payout (`Send`, `Wait`),
debit in two statements (`CheckBalance`, `Decrement`), status (`Settle`, `Remark`,
`Fail`). `Refused` is the refusal of `wallet.service.ts:73-82`, of amounts that are not
above zero and for want of balance. `CallFails` is a call that reports an error, with or
without what it was to do (`HadEffect`): the catch block follows, and turns `SUCCESS` into
`FAILED` when it was the write of `SUCCESS` that took effect; `unsure` is the history of
that. `HandleTransfer` is the pair of handlers of Paystack's transfer events; it
looks a row up by `TransferReference`, which is never the row's own, because our
reference is not among the fields sent to Paystack. `Decimals!Less` is what the `<`
of `wallet.service.ts:80` computes: both operands are objects, so their decimal
strings are compared. Integers stand for the decimals; the comparison by leading
digits is the string order on them.

### RefreshSessions

`store` maps a token to the epochs it was minted under and to its session;
`userEpoch` and `globalEpoch` are the two counters. `CheckUser`/`CheckGlobal`,
`Rotate`, `MintUser`/`MintGlobal`, `Save` are the Redis calls of `refresh` and
`generateRefreshToken`, each an await. A *session* is history: what a login begins
and refreshes carry on. The keys of the epochs begin with `refresh:` too, and `logout`
deletes `refresh:` with whatever it is given, so `Delete` has two companions,
`DeleteUserEpoch` and `DeleteGlobalEpoch`: a key that is gone counts as epoch 0. `revoked`
are the sessions that a revocation found with no request past a read of an epoch, `reset`
those an epoch of which was deleted, `closed` those ended by anything legal, by the
deletion of an epoch or by a fault.

### Checkout

`orders` and `rows` are what is committed; a request has a `draft` of what it wrote
in its transaction. `Create`, `Quote`, `Items`, `Total` are the statements of
`createOrder`, run by `POST /orders` on the database itself and by a checkout in its
transaction: `Write` is `getClient`. `Record`, `Debit`, `Commit`, `Initiate`, `Fail`
are `createOrderCheckout`. `Debit` always throws, since the wallet is looked up with
the id of a user; so the credit of the authors after it is never reached and is not
in the model. Prices are read at one moment, the `Quote` step. (Under MySQL's
repeatable reads the moment in a checkout may be that of the transaction's first
read, a little earlier; the properties say only that it is *one* moment.)

### TransactionPin

One user's PIN. `pin` is the row's hash, by the PIN it is of; `fails` and `timed` the
counter and whether it has a time to live; `code` and `recent` the reset code and
whether it was sent in the last five minutes. `Check`, `Read`, `Compare`, `Count`,
`Expire` are the awaits of `verifyUserPin` (`withdrawal.service.ts:80-117`); `Read`,
`Compare`, `Write` those of `setPin` and `changePin`; `Generate`, `Store` and `Lookup`,
`Delete`, `Write` those of a reset (`auth.service.ts:873-994`). Hashing is a wait of its
own, in which other requests run. `CounterExpires`, `CodeAges` and `CodeExpires` are
the passing of time, at any moment: a
key may expire in the middle of a request. `attempts` is history: the
wrong PINs that withdrawals compared since the counter last expired. `changePin` compares
a PIN as well (`auth.service.ts:859-862`), and no counter knows of it: nothing is said
about how often. A `Withdrawal` begins where a
verification ends well.

### Catalogue

`row` is one book: a version that stands for all an edit may change, the user who
deleted it, its status. `cache` has a copy, or none, under the key of the book and
under the key of a list. A read (`Get`, `Load`, `Fill`) asks Redis, then the
database, then stores what it read; an author's or an admin's change (`FindAuthorBook`
or `FindDeleted`, `Write`, `Invalidate`) checks the row, writes it by id, and deletes
the key of the book. `Review` and `AdminUpdateBook` need no reading first; `BanBook`
writes and deletes no key, as `books.service.ts:447-453` does. `late` and `byAdmin`
are history of the copy under the key of the book, and what `PublicServed` excuses.

### Files

`object` is each object of the buckets, `refers` what the fields of the rows point
to. A request stores its objects one at a time (`StoreFile`), reads the row before
(`UpdateBook`) or after (`ReadAvatar`), writes it (`Write`) and deletes what it had
read (`DeleteFile`); `UploadFails` and `WriteFails` are the roll-backs. `WriteFails`
has both outcomes of a write that is reported as failed. The history says why an
object may be nobody's: `overtaken` by a request that had read the row earlier, or
`lost` to a fault; `doubted` are the files of a new book whose creation was reported
as failed.

### Accounts

`row` has a user's address, whether it is verified, whether there is a password, and
the Google identity; `code` and `pending` the keys of Redis. A request carries in
`task` what it has read. `Login`, `FindCode` and `StoreCode` issue
and mail a code, `Register` and `StoreCode` issue one and mail none, `VerifyEmail`, `CompareCode`, `DeleteCode`, `MarkVerified` use it
(`auth.service.ts:73-163`, `568-700`); `RequestEmailChange` to `DeletePending` are the
change of address (`702-812`); `HandleOauthLogin`, `SetPassword`, `LinkGoogleAccount`,
`UnlinkGoogleAccount` end in `Write`, which creates a row (`Created`) or changes one as
it is by then (`Updated`), and which the unique indexes of the database may refuse
(`Taken`). Codes age from fresh to old to gone: in the first five minutes a request
mails the same code again, later it keeps the code, restarts its life and mails it; a
change of address is refused in the first five and gets another code later. `Login` also stands for the public request of another code. The password
itself is an input: nothing depends on which it is. Who reads a mailbox is the
environment, and `proven` the history of it.

### Roles

`role` and `active` are the rows, `token` the administrators' roles that live access
tokens of a user carry: `AuthGuard` verifies a token and takes the role from it, without
a look at the row (`AdmittedAs`). `SignIn` and `TokenExpires` are a login or a refresh and
the end of the token's quarter of an hour. `UpdateUserRole` and `UpdateUserActiveState`
read the row and decide (`MayAssign`, `MayActivate`), `WriteRole` and `WriteActive`
write it in the transaction that, for a role, adds the `RoleChange` (`Entry`), whose
`from` is what was read and not what is replaced. `been` is history: everybody who was
ever super administrator, for a token outlives a demotion. `stale` are the requests
whose reading another change has overtaken.

### Prices

Time is discrete here, the only module where it matters. `cached` and `left` are the
two keys and their times to live, `polls` the questions under way (they do not wait for
each other), `timer` the intervals. `ComeUp` ends `onModuleInit`: the interval of NGN is
registered, and MON's begins, when both warm-ups have settled. A conversion
reads the rates one by one and asks the source itself on a miss, without storing
the answer. `Latency` bounds how long a source may take. A poll of either feed may fail:
NGN's by its source or by Redis, MON's by Redis alone, because its provider answers errors
with a mock price.

## 3. What is checked

All runs use the modules as they are. "Faults" counts crashes and failed calls.

| Run | Bounds | Distinct states | Checks |
|---|---|---|---|
| `payments`, the queue and the deposit | 1 reference, 2 requests, 2 timer callbacks, 2 jobs, delay 2, 1 fault (a crash, a Redis error or a handler that throws) | 103 k | `OnePassAtATime`, `AttemptedInOrder`, `PendingOnlyIfThrown`, `FailedOnlyIfReported`, `FailedChargeSettles`, `KeepsPromise` |
| `payments`, the withdrawals | 2 withdrawals of 0, 3 or 10, deposits of 9 or 12 up to 21, 2 faults | 125 k | `DebitFollowsPayout`, `PaystackNeverDebited`, `OverdraftTakesTwo`, `DecidedForGood`, `ConfirmedIsDecided` |
| `crypto_deposit` | 2 deposits with any declaration, 1 caller and the processor, 1 fault | 411 k | `CreditsBounded`, `SettledIsCredited`, `CreditedIsConfirmed`, `SettledForGood`, `SettledOnceFaultsStop` |
| `refresh_sessions` | 2 users, 1 session, 3 tokens, 2 requests, epochs up to 1, 1 fault | 290 k | `OnlyRacedSurvive`, `SessionKept` |
| `checkout` | 1 book and an id of none, 2 prices, 2 orders, 1 row, 2 requests, 1 fault | 420 k | `CheckoutIsWhole`, `ChargedInFull`, `FailedWithReason` |
| `transaction_pin` | 2 PINs, 2 codes, 2 requests, a limit of 3, 1 fault | 1.2 M | `AttemptsBounded`, `ClockRuns`, `SpentForGood`, `ReplacedKnowingly` |
| `catalogue` | 1 book, 1 admin, the public list, 2 requests, 3 changes, 1 fault | 765 k | `PublicServed`, `BanHolds`, `CacheSettles` |
| `files` | 1 book, 1 user, 5 objects, 3 requests, 1 fault | 59 k | `NoDangling`, `OrphansExplained` |
| `accounts` | 2 users, 3 addresses, 1 Google identity, 2 requests, 2 codes | 1.0 M | `AddressProven`, `WayIn`, `CodeKept`, `PendingKept` |
| `roles` | 2 users, 2 requests | 761 k | `SuperFromSuper`, `AdminsAboveReach`, `HistoryTells` |
| `prices` | intervals of 2 and 6 ticks, times to live of 4 and 12, latencies of 3 and 1, 1 conversion, 3 faults | 305 k | `ColdOnlyWhile`, `RatesAgree`, `StaysWarm` |

The run `payments` has two parts, which share no variable: each moves while the other is
as it was at the start, so that TLC sees every behaviour of each and the sum of their
states (227 k), not the product. The two runs that expect a violation are in section 4. Every
module has a type invariant; a theorem states it (section 5), and the runs leave it
out.

Every one of these properties has a mutant in `PROJECT.json`: a small change of the
code's definition (a dropped guard, a swapped order, a forgotten reset) under which
TLC finds the property violated. The operators marked *Variant* in the modules are
these changes.

### Why the bounds are enough

- Two requests or two callbacks are the least that race, and every property here is
  violated, when it is, by two actors or by one and a fault; the theorems of section 5
  remove the bounds for every property that is not about liveness.
- One fault covers a crash or a failed call at every point; for `CreditsBounded` the
  bound itself depends on the number of faults.
- `payments`, deposits: two jobs are a success and a failure of one reference, twice the
  same, or one of them and an unrecorded crypto payload; a delay of two ticks lets a
  job become due while a pass is between its fetch and its end.
- `payments`, withdrawals: 3, 9, 10 and 12 are chosen so that the string order and the numeric
  order disagree both ways (9 is not below 10 as a string, 12 is below 3), 0 so that the debit's
  refusal of it happens; an amount below zero takes the same way, or is refused by the
  chain's call, and a configuration cannot hold one. A write of `SUCCESS` that reports an
  error needs one fault, and a fault of the catch block after it a second.
- `refresh_sessions`: one session with three tokens, of which one is exchanged by two
  requests at once or twice in a row; sessions share nothing but the epochs, and the second
  user is there to be revoked in the place of the first. An epoch that is incremented,
  deleted and incremented again is within the bound.
- `checkout`: one row suffices for two checkouts, one after another or with one rolled
  back; nothing relates two rows. `ChargedInFull` needs two prices, so that an edit
  between two steps shows.
- `transaction_pin`: the limit is the code's own; two PINs are a right and a wrong one;
  two codes are one that was used and the next.
- `catalogue`: a change, the change that overtakes it and one after the invalidation;
  a ban, an author and an admin need two requests, for a ban is one step. One list
  is enough: lists do not depend on each other.
- `files`: a book takes two objects, and two updates or avatars that race one each;
  the third request is the one that comes between them.
- `accounts`: one address is Google's, one a user's, one free to change to; two codes
  are one in a mail and the one that replaces it. Expiry is free to come at any moment.
- `roles`: each of two users can be the one who asks and the one who is asked about. A
  stale token needs a demotion, an overtaken request two requests about one user.
- `prices`: half a minute is a tick and the hour of NGN is shortened to six, which keeps
  what the code relies on: a time to live of two intervals. A poll of MON may be slower
  than the next one. Three faults make two failed polls in a row after a restart.

Deadlock is checked where the system cannot stop. Elsewhere the models end, and the
configurations say `CHECK_DEADLOCK FALSE`: a withdrawal's requests are handled once;
tokens, reset codes, objects and a book's changes are a finite supply; and in `Roles`
the last administrators may have demoted each other, after which nobody is admitted.

### Fairness

- `FiatDeposit!Fairness`: weak fairness of a pass's steps together, and of time. The
  interval timer fires every second whatever happens, and a pass that has begun is
  resumed by the event loop. Nothing is assumed of requests, customers or Paystack.
- `CryptoDeposit!Fairness`: weak fairness of the processor's steps; strong fairness
  of its taking up a queued job, because jobs are taken by due time and one cannot be
  overtaken for ever. Callers need not finish.
- `MC_Payments!PaymentsFairness` is the fairness of `FiatDeposit` and of `Withdrawal`.
- `Withdrawal!WithdrawalSpec`, `Checkout!Spec`: a request that was taken up goes on. The
  chain, Paystack and the buyer owe us nothing.
- `Catalogue!Fairness`: a read or a change that is under way goes on, and Redis expires
  every key that has a time to live. New requests are owed to nobody.
- `Prices!PricesFairness`: time passes, timers fire, and a poll is answered or fails within
  its latency. Faults are bounded, so that "once failures are over" comes.
- `RefreshSessions`, `TransactionPin`, `Files`, `Accounts` and `Roles` have no liveness property
  and no fairness.

## 4. Where the code disagrees with its own words

Two disagreements are `violation` runs, with no fault allowed, and findings in
`PROJECT.json`:

| Run | Property | What TLC shows |
|---|---|---|
| `fiat_funding` | `FundedByPaystack` | `README.md:3`: a wallet is "funded by fiat (Paystack)". The event of a paid charge is handled without an error and the wallet is not credited: the endpoint saves the `ProviderResponse` before it queues the event, and the handler (`deposit.service.ts:188-195`) takes that row to mean the event was handled. `FiatNeverCredited` proves that this is so for every deposit. |
| `checkout_wallet_pays` | `WalletPays` | `README.md:3`: "users buy them with a wallet". A checkout from a sufficient wallet is always rolled back. |

The others are stated by properties that hold and say what *is* true instead:

| What is said | What is true |
|---|---|
| `webhook.service.ts:284`: "already processed, skipping"; a deposit is credited once | `CreditsBounded`, proved: once per verifier that is past the check together with others, and again after each fault. |
| `wallet.service.ts:77-82`: no debit beyond the balance | `OverdraftTakesTwo`, proved: two withdrawals that are each covered can overdraw the wallet together, one alone cannot. |
| `auth.service.ts:254-256`: after a revocation "all users are fully locked out" | `OnlyRacedSurvive`, proved: but for the sessions that were being refreshed or minted at that moment, and until the key of an epoch is deleted (`logout` deletes any key under `refresh:`, `auth.service.ts:241-244`), after which it counts from 0 and a token from before the revocation agrees with it again; `auth.service.ts:200` has it rejected. |
| `price-cache.service.ts:16-18`: the value "never expires between refreshes — even if one hourly poll fails" | `ColdOnlyWhile`, proved: after one failed poll the key expires just before the next poll, which comes two intervals and the rest of the warm-up after the last answer, and is missing until that one is answered. |
| `users.service.ts:70`: the old avatar is removed "so it doesn't orphan" | `OrphansExplained`, proved: unless two requests both read the row before either wrote it, or a fault came between. |
| `books.service.ts:478-482`: an author cannot restore what "may have been deleted by an administrator" | `BanHolds`, proved: unless the author's request had read the book before the ban. |

Facts of the code that the models contain, and that a reader would not expect: the
debit compares the amount and the balance as strings, so that a withdrawal of 3 from
12 is paid and then not debited, for "Insufficient balance" ("12" < "3", `Decimals`); a
withdrawal that is `FAILED` may have been paid and debited, when its write of `SUCCESS`
reported an error (`DecidedForGood`); a deposit on chain whose row declares neither an
address nor an amount is bound to nothing but its hash (`CreditedIsConfirmed`); an event
whose handler threw is dropped (`PendingOnlyIfThrown`); a book's cache key is shared
by admins and the public, so what an admin looks at is served to all (`PublicServed`);
a ban deletes no key; `register` mails no code, for `if (!isDev)`
(`auth.service.ts:109`) tests a function and not its result; a user with no password
who changes address is not found by Google's login any more (`WayIn`).

`TransactionPin` has one too: "Try again in 15 minutes"
(`withdrawal.service.ts:86`) is not kept when the process stops between `incr` and
`expire` at the limit. `ClockRuns` says that this is the only way.

## 5. What is proved

The theorems hold for every value of the constants that satisfies the named
assumptions of the modules: any number of requests, callbacks, deposits, orders,
tokens, revocations and faults. `tlapm` checks them to the last leaf.

| Component | Theorems | Inductive invariant | Module |
|---|---|---|---|
| Queue | `QueueTyped`, `QueueRecorded`, `QueueExclusive`, `QueueOrdered`, `QueueImplementsInbox` | `QueueInv`, `NumbersInv` | `PaymentsProofs` |
| Fiat deposits | `FiatTyped`, `FiatNeverCredited`, `FiatFailedReported`, `FiatPendingOnlyIfThrown` | `LedgerInv` | `PaymentsProofs` |
| Withdrawals | `WithdrawalTyped`, `WithdrawalOnlyDebitsTake` and one for every safety property about them | `WithdrawalInv` | `PaymentsProofs` |
| Crypto deposits | `CryptoTyped`, `CryptoCreditsBounded`, `CryptoSettledCredited`, `CryptoCreditedConfirmed`, `CryptoSettledForGood` | `Inv` | `CryptoDepositProofs` |
| Price feed | `PricesTyped`, `PricesRatesAgree`, `PricesColdOnlyWhile` | `PricesInv` | `CryptoDepositProofs` |
| Refresh tokens | `RefreshTyped`, `RefreshOnlyRacedSurvive`, `RefreshSessionKept`, `RefreshDeletedForGood` | `Inv`; `Kept` | `RefreshSessionsProofs` |
| Checkout | `CheckoutTyped`, `CheckoutWhole`, `CheckoutChargedInFull`, `CheckoutFailedWithReason`, `CheckoutCompleteForGood` | `Inv` | `CheckoutProofs` |
| Transaction PIN | `PinTyped` and one for every property of the run | `Inv` | `TransactionPinProofs` |
| Catalogue | `CatalogueTyped`, `CataloguePublicServed`, `CatalogueBanHolds` | `Inv` | `CatalogueProofs` |
| Files | `FilesTyped`, `FilesNoDangling`, `FilesOrphansExplained` | `FilesInv` | `FilesProofs` |
| Accounts | `AccountsTyped` and one for every property of the run | `AccountsInv` | `AccountsProofs` |
| Roles | `RolesTyped` and one for every property of the run | `RolesInv` | `AccountsProofs` |

No property is inductive by itself; what each invariant adds is the argument:

- **Queue.** A request at `enqueue` has its reference recorded already
  (`RequestsRecorded`): that is why no job is ahead of its record. A pass under way
  holds the flag, alone, and its batch is still in the queue (`PassesSound`); all of
  its batch is due, and due no later than anything it left behind (`BatchesDue`),
  and everything attempted is due by now (`AttemptedDue`). A new job is due no
  earlier than now, hence never before something that was attempted: the order
  survives crashes because it is a fact about scores, not about the pass.
- **Fiat deposits.** The queue's invariant holds in the composition, because every
  step of `FiatDeposit` is a step of the queue or leaves its variables. With
  `RecordedBeforeQueued` the guard of `HandleSuccess` is never true. Every event in
  flight was emitted (`TravelsEmitted`), which gives `FailedOnlyIfReported`. That an event
  is spent for nothing only by a handler that threw is inductive together with these.
- **Inbox.** `Promise!Safety` follows step by step; `NumbersInv` says that ids are
  below `nextId`, so that a new job is a new id.
- **Crypto deposits.** `Accounted` counts: while a deposit is pending each credit
  belongs to a verification that is about to settle it or to one that a fault stopped
  there, at most all verifiers per fault; once it is settled only the verifications
  already past the check can add. It needs the cardinality of a filtered set of
  verifiers when one of them moves, the lemmas at the start of the module.
- **Withdrawals.** `Stage` says what each control point implies and `Trace` what is
  left when the request is gone; `Covered` says that a withdrawal that passed the
  first check is covered as long as no other one is debited, whence `OverdraftTakesTwo`.
  How the debit compares numbers plays no part. A request that has decided its row is gone,
  or is in the catch block after a write that reported an error (`unsure`): that is the
  exception in `DecidedForGood`, and the proof leaves no other.
- **Refresh tokens.** `NoFuture`: nobody holds an epoch that has not come, except for a
  session an epoch of which was deleted, of which nothing more is claimed. So a
  token that is valid after an increment was minted after it, by a request that
  had passed the comparison before or had a read of it behind it; `RequestSound`
  keeps that apart at each control point. That refreshing loses no session is another
  argument (`Kept`): while a session is open, nothing of it is out of date: each of its
  tokens and each request that refreshes it has the epochs of now. So such a request
  never reaches `drop`, and a token of an open session is deleted only by a request that
  has itself begun to mint; whoever saves, saves what works. Which of several
  refreshes is the last plays no part. A revocation, and the deletion of an epoch, close
  exactly the sessions whose epochs they change, which is what keeps `Kept` true across
  them.
- **Checkout.** `Backed(o, n)` is the heart: an order can be charged *n* when it is
  complete and *n* is its total, or when `POST /orders` is still at it and *n* is 0.
  Nobody unbacks an order (`KeptStep`), a maker has its order to itself and a charge
  that is not open has not been refused. Nothing depends on how a cost is computed.
- **Transaction PIN.** `Accounted` counts twice: a wrong PIN is counted, about to be
  counted, or lost to a fault that stopped at most all requests; and comparisons made
  together with comparisons allowed never exceed what the limit and the number of requests
  admit, because a request passes the check only while fewer than the limit are
  counted. `Known` says what a request with an unreplaced hash knows, `SpentGone` that a
  used code is neither in Redis nor with a resend that could put it back.
- **Catalogue.** `Writers`, `Readers` and `Stored` say what a request's reading is worth:
  a copy that is older than the row is either marked late or has the request under
  way whose invalidation will delete it. `CatalogueBanHolds` follows from the guards of
  the readings, which the invariant carries to the write.
- **Files.** That a deletion spares what a row refers to rests on whom each object
  belongs to. What a request has stored and not written yet is in its hand alone
  (`Stock`); no two fields refer to one object, and none refers to what another has given
  up (`Apart`); so what a request goes on to delete is referred to by no row
  (`Removed`), but for a new book whose creation was reported as failed. An
  object nobody refers to is then in a hand, was overtaken or was lost, in every
  step.
- **Accounts.** A request writes from what it read some steps before. `Known` says what
  it still knows at its point, whatever the others have done: that the code it
  compares was mailed to an address proven by whoever read it, that the address it is
  about to verify is proven, that the password it relies on is there (nothing
  removes one). `CodesApart` says that no code is of two addresses, across keys, mails
  and what requests are about to store: without it a code mailed to one address would
  verify another. `Abreast` says that what a request read of a key is what the key
  has, unless it was overtaken, which is what the two action properties need.
- **Roles.** `Titles`: whoever is super administrator, or has a token that says so,
  has been one. `Decided` carries the decision to the write: who may act on an
  administrator has been super administrator, as long as the reading stands.
- **Price feed.** `RatesAgree` needs that a conversion between its readings has read
  what is in the cache unless it was moved (`Reading`). `ColdOnlyWhile` is arithmetic
  over time: `Stored` bounds from below what is left of a key's time to live by the time
  the next poll is due, by how many polls failed since, and by how long the warm-up
  of the *other* feed may have held up the first timer. Two questions of one feed never
  have one age (`Questions`), so that "none has waited yet" means there is at most one.
  Nothing is assumed of how fast the sources answer; that a warm-up which waits for an
  interval leaves a key to expire, with no poll failed, is a case of the property that
  the proof brought out.

### Only model-checked

- Liveness: `FailedChargeSettles`, `SettledOnceFaultsStop`, `ConfirmedIsDecided`,
  `CacheSettles`, `StaysWarm`, and the fairness half of `KeepsPromise` (its safety half
  is `QueueImplementsInbox`): `ENABLED` is out of the prover's reach.
- The digits of `Decimals`: `Digits` is defined by recursion over its argument, and what
  a recursive function computes for every input needs an induction that is not
  available. The proofs about `Withdrawal` use nothing of it.

Every other property of a passing run is a theorem.

### Assumptions

`DeliveriesAssumption` (payloads have the three fields that are looked at),
`RefsAssumption`, `NamesAssumption`, `NoneAssumption`, `NoRateAssumption` (the value
that stands for nothing is none of the others), `CartsAssumption` (a request asks for
some books), `FinitenessAssumption` (finitely many concurrent callers or requests),
`SeedAssumption` (the seeded administrator is a user), `PeopleAssumption` (the author,
the public and the administrators are different), `ListsAssumption` (which lists are
cached), `EmailOfAssumption` (a Google identity has an
address), `FeedsAssumption` (the two feeds), `TimesAssumption` (they have intervals,
times to live and latencies), `TimeToLiveAssumption` (a time to live is at least two
intervals, as in `price-cache.service.ts:8-22`, unless `FIAT_REFRESH_INTERVAL_MS` is set
to more than its default), and that amounts, delays and bounds
are natural numbers. TLC evaluates each of them in its runs.

## 6. Abstractions worth knowing

- Amounts are small integers. Decimals enter only where the code compares them as
  strings (`Decimals`). Conversions of prices between MON and BOOKS have no effect on
  control and are left out.
- One reference names one deposit, one hash one row: both columns are unique.
- A signature check only decides whether a request is taken up, so requests with a
  bad signature are not actions.
- In `Withdrawal` the chain's call refuses an amount below zero (`Sendable`); what Paystack
  makes of one is open.
- In `Accounts` a user who was deactivated is admitted as others are (the code looks at
  `isActive` in `jwt.guard.ts:30`): the model lets more requests in than the code.
- Access tokens are stateless; `OnlyRacedSurvive` speaks of what a
  refresh can still obtain.
- The buyer in `Checkout` is one user: an order of another user is refused before
  anything is written.
- Redis calls are atomic and durable; a lost Redis is not modelled.
- In `TransactionPin` no code is drawn twice. The development build, in which every code
  is `000000`, is not modelled. The second read of the counter
  (`withdrawal.service.ts:103`) only words the answer.
- In `Accounts` addresses are compared as they are: letter case and the database's
  collation are ignored. A code is what it is issued as; a guess at it is no action.
- In `Files` an object's key is fresh. That is R2's; Dropbox's keys are names.
- In `Prices` rates have no arithmetic. An answer of the source without a rate is a
  failed poll, because `rate.toString()` throws.

## 7. The code that is modelled, line by line

`map` in `PROJECT.json` gives for every definition the lines it stands for.
Definitions of Paystack, of the chain and of restarts are marked external: they are
modelled from how the code here uses them.

## 8. What is not modelled, and why

- **Genres**: checks before writes that unique indexes and foreign keys repeat.
- **Email**: one call to a service, whose errors are logged and swallowed.
- **Profiles, social links**: single writes of a user's own fields, some of them
  values that the request has read before.
- **Dropbox**, the other value of `STORAGE_PROVIDER`, the temporary files of
  uploads on the local disk, and signed addresses, which change nothing.
- **A change of password and the check of one at login**: one hash replaced or compared.
- **Bookmarks and downloads**: one insert or delete on a unique pair; a signed address.
- **`resolveBankAccount`, `getBanks`**: answers of Paystack, cached; no other state.
- **Redis and Prisma wrappers**: their calls are steps of the modules that make them.
- **Statistics and read-only endpoints**: queries.
- **Guards, throttling, filters, health**: stateless, or state inside a library.

## 9. Plan

Done, in this order: the queue and fiat deposits (the path all money events take),
crypto deposits, withdrawals, refresh tokens, checkout, the transaction PIN, the
catalogue, files, accounts, prices, roles; each with its run, its mutants and the proofs
of its safety.

Left:

1. **The composition** of the queue with crypto deposits, which gives one processor,
   and a proof that the composition keeps what each part proves.
2. **Abstract specifications** of what a wallet and an order promise, with
   `Withdrawal` and `Checkout` shown to implement them as the queue does `Inbox`.
