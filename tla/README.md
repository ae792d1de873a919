# A verification development of MÏÏghO

MÏÏghO is a social and payment platform: a Go server (`src/backend`) with a
Flutter client (`src/app`). This directory models the parts of it that move
money or keep state that several clients change at once, checks the models with
TLC and proves theorems about them with TLAPS.

Contents: [the system](#the-system) · [what is modelled](#what-is-modelled) ·
[the runs](#the-runs) · [the proofs](#the-proofs) ·
[where the code and its claims differ](#where-the-code-and-its-claims-differ) ·
[what is not modelled](#what-is-not-modelled) · [the plan](#the-plan)

## The system

The server is one process. `cmd/server/main.go` builds a repository over
PostgreSQL for each component, a service over each repository and an HTTP
handler over each service; the handlers run concurrently, one goroutine per
request. The in-memory repositories beside the Postgres ones are used by the
tests and by the sandbox. Components call each other directly (the business
service and the PSP service post to the ledger service); the chat service also
pushes events to the WebSocket hub and to NATS.

| Component | State | Operations | Hard behaviour | What makes it correct |
|---|---|---|---|---|
| **ledger** (`internal/ledger`) | accounts, journal entries with their postings | wallet look-up, P2P transfer, cash-in, cash-out, QR payment, reversal, raw entry | every operation is several repository calls with no lock around them; retries with an idempotency key; calls cut off between two queries | an entry balances and is never changed; a key is posted once; a client is answered with its own entry; wallets and pools agree; one wallet per user; no overdraft |
| **merchant payments** (`internal/business`, intents) | payment intents | create, confirm, cancel, expire | two mutexes of one process, key look-ups before inserts, the post to the ledger between two status updates | a payment is captured once; a captured intent is never reported failed; an expired or cancelled one is never captured |
| **refunds and settlements** (`internal/business`) | refunds, settlements, settlement items, fee rules | refund, create and process a settlement, fee reports | the remaining amount is read before the refund is inserted; a settlement is processed without a lock | no payment is refunded beyond its amount, none is paid out twice, no money is paid out that was refunded |
| **business members** (`internal/business`) | businesses, members and roles | create, add, change role, remove | the last owner is counted before it is removed | every business keeps an owner |
| **PSP gateway** (`internal/psp`) | provider transactions, webhook events | payment, status poll, refund, payout, webhook | the provider is called before the record is written; webhooks are duplicated, reordered and early | a final status never changes back; a webhook is applied once and not lost |
| **contacts** (`internal/contact`) | contacts, requests, blocks | sync, request, accept, reject | two users request each other at once | a pair has one pending request at most; contacts are mutual |
| **chat** (`internal/chat`) | conversations, members, messages, reactions, receipts | direct and group conversations, send, edit, delete, react, mark read | retried sends, two users opening one conversation, slow consumers | a message is stored once per client id; one direct conversation per pair; a read marker only advances |
| **WebSocket hub** (`internal/chat/hub.go`, `ws_handler.go`) | connected clients with their buffers | register, unregister, broadcast | reconnects while the old socket is still registered; a full buffer | a connected client that reads is sent every event in order; a channel is closed once |
| **auth** (`internal/auth`, `internal/middleware`) | OTPs, refresh sessions, rate-limit windows | send and verify an OTP, refresh, log out | two refreshes or two verifications with one token; first logins that race | a refresh token and an OTP are used once; logging out ends every session |
| **users, identity, notifications, media** | profiles, devices | read and update | none (one row per request) | – |
| **platform** (`internal/platform`, `pkg`) | caches, NATS connection, storage clients | thin wrappers | publish errors are dropped | – |
| **Flutter client** (`app/lib`) | tokens, one WebSocket, the chat list, cached wallets | API calls with token refresh, reconnect, optimistic sends | late answers, concurrent refreshes, events racing the answers of the calls that caused them | one live socket; one refresh in flight; a message is shown once; a late answer of an old screen changes nothing |

The hazards of each of them, with the line where each one bites, are listed
under `hazards` in `PROJECT.json`, with the properties that would catch it going
wrong. The last column is what a correct system would keep; where the code
does not keep it, the property checked is the strongest one that the code does
keep, and [where the code and its claims differ](#where-the-code-and-its-claims-differ)
says what is missing.

## What is modelled

A call of the server is a request that runs in a goroutine of its own. Every
model of the server gives it a program counter `pc[c]`, its request `req[c]` and
the values the service method keeps in local variables; one action is what the
goroutine does from one call of the repository (or of the ledger, or of a lock) to
the next. Everything the service decides from the value it has just read is part
of the same action. Calls interleave at every action, so a value read in one
action may be stale in the next. In the client, which is one event loop, an
action is what a handler does from one `await` to the next.

| Module | Models | State and actions |
|---|---|---|
| `LedgerRepo` | `MemoryRepository` and `PostgresRepository` of the ledger | `accounts`, `journal`; look-ups, `CreateAccount`, `PostResult`/`Posted` (validation, the unique reference, the append), each atomic as under the lock of the one and in the transaction of the other |
| `Ledger` | the ledger service over it | `CheckIdempotency`, `FindOwn`, `CreateOwn`, `CheckFunds`, `FindOther`, `CreateOther`, `Post`, `Recover`, `Reply`, `LookupFails`: the steps of `TransferP2P`, `CashIn`, `CashOut`, `QRPay`, `ReverseTransaction`, `PostEntry`, the wallet look-up, and the entry that `ProcessSettlement` posts (`settle`) |
| `IdempotentBook` | what the ledger promises (abstract) | a book written in single steps, at most one entry per reference, every client told the entry of its reference |
| `MoneyBook` | the ledger as the business service uses it | `moves`, with `Balance` and `PostMove` |
| `PaymentIntents` | `CreatePaymentIntent` and `ConfirmPaymentIntent` | `intents`, the shop's status, `paymentMu`; `CheckKey`, `Validate`, `Insert`, `Lock`, `CheckBusiness`, `CheckFunds`, `Post`, `Finish`, and around the calls `Expire`, `UpdateBusiness` and `WalletSpend` |
| `PaymentLife` | what an intent promises its payer (abstract) | an intent is paid and succeeds in one step, or ends unpaid |
| `Payouts` | `RefundPayment`, `CreateSettlement`, `ProcessSettlement` | `refunds`, `settlements`, `settlementMu`; the steps of the three methods in the groups `RefundStep`, `SettleStep`, `ProcessStep`; the provider's payment (`ProviderPays`) and its posting (`ProcessPost`) are two steps; history: `doubtful`, the settlements that an overlap or a discarded error has touched |
| `PSPGateway` | `internal/psp` over `PostgresRepository` and the sandbox provider | `rail` (the provider's transactions), `rows`, `events`; `ExecuteStep` (payment, refund, payout), `PollStep`, `EventStep` (a webhook), `LookupFails`, `Stop` |
| `StatusBoard` | what the gateway promises of the statuses it shows (abstract) | a transaction shows what the provider answered, and after that only what was reported of it; an event is used once |
| `Sessions` | the refresh tokens of `internal/auth` | `refresh`, and for each exchange of a token (`calls`) its queries: `Find`, `Delete`, `Store`, `Fail`; `RevokeAll` |
| `ClientSession` | `api_client.dart`, `auth_repository.dart` and the auth bloc, over `Sessions` | `store` (the secure storage), `shared` (`_refreshFuture`), `check` (the refresh of `AuthRepository` at start-up), `leaving` (a logout under way), and where each request is: `Send`, `Serve`, `Deny`, `Refresh`, `Expired`, `Lose`, `RefreshSucceeds`, `RefreshFails`, `CheckSucceeds`, `CheckRefused`, `CheckFails`, `Login`, `Logout`, `LogoutEnds`, `Restart`; history: `resent` |
| `ContactRequests` | `internal/contact` | `contacts`, `asked`; the queries of `SendContactRequest`, acceptance, rejection and the synchronisation by telephone number |
| `Chat` | `internal/chat` with its repository, over `ContactRequests` | `conversations`, `messages`; opening a direct conversation, creating a group, sending, editing, deleting |
| `MessageLog` | what the chat promises of its messages (abstract) | one live message for each identity its client gives, changed by its sender only, never after its deletion |
| `Hub` | `hub.go` and `ws_handler.go` | the table of connections, their buffers and channels, the goroutine `Run`, the two pumps of each connection, a broadcast under the read lock |
| `WsClient` | `ws_client.dart`, over `Hub` | sockets with their callbacks, `_channel`, the reconnect timer, logins, logout, and the network: a connection breaks with the app hearing of it, or not (`unheard`) |
| `ChatBloc` | `chat_bloc.dart` against a server that stores and tells | the list, the emitted state (`view`), generations, the loads, sends and events in flight, and for each handler that awaits the state it read before |
| `Sums` | – | the theory of finite sums the proofs share |
| `…Proofs` | – | the theorems |
| `MC…` | – | the instances TLC checks (`ClientSession` and `WsClient` need a `.cfg` only) |

Each component is composed with the one it depends on where the answers of the
other matter: `ClientSession` extends `Sessions` and `WsClient` extends `Hub`, so
that both ends of the protocol are the code's; `Chat` extends `ContactRequests`,
whose contacts decide who may open a conversation. `PaymentIntents` and
`Payouts` are over `MoneyBook` and not over `Ledger`: the business service uses
`GetBalance` and `PostEntry` of the ledger, and what it relies on is one entry
per reference, which is `KeyPostedOnce` of `Ledger`, and the answers of
`PostJournalEntry`, which `PostResult` repeats. `ChatBloc` is over a server that
stores each message once, which is `LogSpec` of `Chat`, and tells it once to a
client that is in the table of the hub.

`Stop(c)` ends a call between two of its steps. The handlers pass the request's
context to every query, so a client that hangs up, or a server that dies, stops
the call where it is, and the deferred unlocks run (or the lock dies with the
process). In-memory repositories ignore the context and lose their data with the
process, so `Stop` is for Postgres only. A query that fails ends its call in the
same way, except where the code discards the error or takes it for a missing row,
and goes on: `LookupFails` in `Ledger`, `PSPGateway` and `Chat`, `CheckKey` in
`PaymentIntents`, and what is under `ErrorsIgnored` in `Payouts`. These steps are
always possible on Postgres.

`Backend` chooses between the two implementations of the repository in the
modules of the money: they disagree, and the difference matters. Elsewhere the
in-memory repository is used by the tests only, and the model is of Postgres.

In each module some definitions are the code with one thing changed
(`CheckFundsNever`, `RefundDoneEarly`, `RefreshFailsStuck`, …). No specification
uses them: they are the bugs that the properties are shown to catch.

Abstractions that hold in all modules:

- One currency. Amounts are integers of a few units; overflow of `int64` cents
  is out of reach of any account.
- A name, a key, a text is a model value. A reference is a tuple of its prefix
  and its identity; a key that a client chooses is taken not to look like a
  prefixed reference of the service.
- Reads that decide nothing (listings, statements, summaries) are left out.
- A transaction of Postgres is one step. That a commit succeeds and its
  acknowledgement is lost appears as a step followed by `Stop`, not as an error
  that the service goes on to handle: with the context gone its next update
  fails as well.

And in single modules:

- `Payouts` records what the ledger books, not what the settlement provider has
  paid: when the posting fails after `ProviderPays`, the code marks the
  settlement FAILED, and nothing books the provider's payment.
- `Sessions` is about one user. A pair of tokens is a number; that tokens expire is
  the step `RevokeAll`, which has the same effect. Access tokens are left out: a
  request may be refused at any time, as if its token had just expired. With them
  goes what the server does at a logout, which deletes the access token only.
- In `ClientSession` the pair in the storage is written and wiped in one turn of the
  event loop, as the copy in memory is; that the keys on disk are written one by
  one, and that a write may fail, is left out. Sending and
  verifying a one-time code and storing the tokens is one step, `Login`, possible
  when nothing is stored. The wiping of the tokens and the logout that follows are
  separate steps (`leaving`, `LogoutEnds`), and a request may be sent at any time
  between them, before a login or during the check at start-up: what
  `AuthBloc` shows is left out, since `router.dart` admits by the token alone. The
  conversations screen does send while the check's refresh is under way.
- `ContactRequests` leaves out favourites and blocked users: no other
  operation reads them (the block list is not consulted when a message is sent).
- `Chat` leaves out reactions and read receipts, which are inserts and deletions of
  one row; the members are told of a change after the last step, and what they
  make of it is the question of `ChatBloc`.
- `Hub` is about the connections of one user and counts messages without reading
  them. `WsClient` lets the reconnect timer fire at any time, and a login come at
  any time, also when one is connected already (an authentication and a resumption
  of the app both connect).
- `ChatBloc` leaves out editing, deleting, reactions, receipts, typing, pinning,
  the creation of conversations, and the limit of 50 messages of a load.
  Its history variable `slip` remembers whether one of the handlers' known
  mistakes has happened, so that `OfActive` and `CaughtUp` say that there is no other.

## The runs

A call of the server runs once, so every behaviour ends when all of them have
answered; that is the only reason for `CHECK_DEADLOCK FALSE` in the runs about
the server. `ws_client` comes to rest because the last connection does not
break, and `chat_client` when its requests are used up. `client_session` checks
deadlock. A call that waits for a lock that is never released would not be seen
by the deadlock check, and is the question of `payouts_live`. Calls
are interchangeable, hence the symmetry; the runs that check liveness have none.

| Run | Instance | What it shows |
|---|---|---|
| `ledger_memory` | 4 calls of 12 requests, one of them the entry of a settlement | on `MemoryRepository` there is one wallet per user, mobile money reconciles with its pool when cash-outs and settlements have taken from it, and a reversal cancels its entry exactly |
| `ledger_postgres` | 3 calls of 11 requests, any of them stopped, any look-up failing | on `PostgresRepository` the ledger implements the book, whatever key is raced for or retried; debits equal credits; a spend overdraws only when the balance it read is stale |
| `payments_memory` | 4 calls of 8 requests | a paid intent is never refused, and the service implements `PaymentLife` |
| `payments_postgres` | 4 calls of 8 requests, any of them stopped | an intent is captured once and never reported paid when it is not, and `paymentMu` makes the balance check sound among merchant payments |
| `payouts_postgres` | 4 calls of 6 requests, any of them stopped, any statement failing, settlements processed by several calls at once | a settlement is booked once and SUCCEEDED only if it was; what is PENDING or FAILED was not booked, and no payment is paid out twice, but for the settlements that the race or a discarded error has touched (`doubtful`): the others stay sound beside them |
| `payouts_live` | 3 calls of 7 requests on the memory repository, fair, a provider that refuses, settlements processed by two calls | no payment is refunded beyond its amount; every call is answered; no refund and no settlement stays open |
| `payouts_overrefund` | 2 refunds on Postgres | more is refunded than was paid (violation) |
| `psp_gateway` | 3 calls of 7 requests: executions that share a key, a poll, events that come twice, early, without an identity or a transaction | what the rail executed is recorded, a later retry does not execute again, and the statuses shown implement `StatusBoard` |
| `client_session` | 2 requests of the app and the check at start-up, a login or a restart, logouts and revocations at any time, a start with or without stored tokens | a refresh token is exchanged once, and none is refused that nobody revoked, but for those that the app sends a second time in one of two ways (`resent`); every request ends |
| `chat` | 3 calls of 14 requests by two users who share a group | users whose request was accepted are contacts of each other, a pair gets a second conversation only from calls that overlap, and the messages implement `MessageLog` |
| `ws_client` | 3 connections of one user of which two may break, one broadcast, buffers of one message | nothing is sent to a closed channel and none is closed twice; the client has one open socket; after breaks that it hears of, it ends up as the only one in the hub's table |
| `chat_client` | 3 requests of the app, 2 conversations, a message it sends and one it is told of, one load of the list or logout | a text is shown once, in its own conversation, and the app shows what the server has unless one of the named slips happened |

**Bounds.** What goes wrong between calls goes wrong between two of them; the
third call is the one that retries, reverses or settles again, and the fourth
lets a creation precede three confirmations, or two settlements be created and
processed. In `ledger_memory` it is for a settlement or a reversal after the
entries that it takes from. The requests include both
outcomes of every check the code makes (an amount that is not positive, a key
used for another amount, a wallet that exists or does not, a user without a row
in `users`, two spends that fit the balance alone and not together). In
`Payouts` the shop holds two units more than the payments brought in: with less
the check of the balance would stop a double payout and hide it.

| Bound | Where | Why it is enough |
|---|---|---|
| `Calls`, `Reqs` | all | each runs once; two race and one comes later |
| `MaxSpends` = 1 | `PaymentIntents` | one spend elsewhere makes a balance stale |
| `MaxStarts` = 1 | `ClientSession` | the app is killed once in the middle of a refresh, or a refresh of the first session outlives it into a second one; the theorems are for any number |
| `Conns` = 1..3 | `WsClient` | a socket that ends, the one that replaces it, and the one that its late callback makes; the last connection does not break (`Fresh # {}` in `Drop`), so that the question after the end of the breaks has an answer |
| `Casts` = 1, `Cap` = 1 | `Hub` | one message finds a buffer empty, full or closed |
| `MaxLists` = 1 | `ChatBloc` | one reload of the list or one logout, to go past what is in flight |
| `Listed` = {a} | `ChatBloc` | one conversation is known and one is learned from an event |

**Assumptions of the instances.** `ProviderMayFail` lets the settlement
provider refuse; it is off in `payouts_overrefund` only. No run assumes that
clients take turns or that statements succeed: what the code does not survive
is named by the property itself, as the exception that it makes (`doubtful`, `resent`,
`slip`, an overlap, a look-up that failed).

**Fairness.** `Payouts`: weak fairness of each call's step, which is what the Go
scheduler gives a goroutine that can run; it suffices for `settlementMu` because
the calls are finitely many and each holds it for finitely many steps. Nothing
says that a request arrives, so `Begin` is not fair. `ClientSession`: the
requests of the app have a timeout of ten seconds, so each of them
(`RequestStep`) and the shared refresh (`RefreshEnds`) is answered or given up, and
the event loop runs the callbacks that are due; nothing is said of the server, of the
check at start-up or of logouts. `Hub`: `Run`, the pumps and the
broadcasts are goroutines, with strong fairness of the read pump because Go
serves the senders that wait on a channel in their order. `WsClient`: the event
loop and the timer. That the network comes back is the bound on `Drop`.
`Reconnects` has two premises. `[]~Stale`: that the app closes no socket to open
another (a login before the socket of before the logout has ended, or a
second login); without it reconnecting may go on for ever. `[]<>(unheard = {})`: that
the app comes to hear of every break. The server pings and has a deadline, the
client has neither (`ws_client.dart:60` passes no ping interval, and nothing calls
`sendPing`), so nothing is assumed of `Heard`, and a break that is never heard of is
never repaired; in the meantime `isConnected` is true (see below).

## The proofs

TLAPS proves the following for any number of calls, users, keys, requests,
connections and messages, and for both repositories where there are two, from
the assumptions the modules name on their constants (the requests have their
type, the demonstration users and the pools are different from each other, the
values that stand for "none" are none of the others).

**LedgerProofs.** `Typing`, `Idempotency` (`KeyPostedOnce`), `Receipts`
(`ReceiptIsPosted`), `AppendOnlyJournal`, `ImplementsBook`, `MoneyConserved`
(`TrialBalance`), `Reversals` (`ReversalCancels`), `OverdraftsAreStale`
(`OverdraftNeedsStaleRead`), `SecondWalletHasCause`; for `MemoryRepository`
`OneWallet` (`OneAccountPerUser`) and `MobileMoney` (`MobileMoneyReconciles`), for
`PostgresRepository` `AmountsPaid` (`ReceiptAmount`).
The inductive invariant is

    IInv == TypeOK /\ Phases /\ KeyPostedOnce /\ GoodReceipt

`Phases` says of every label which local values are still unset; it is needed
because an answer is only right if the receipt it carries was empty until the
step that filled it. `GoodReceipt` is `ReceiptIsPosted` for one call. The one
step that matters is `Post`: `PostResult` is "posted" only when no entry has the
reference, so appending keeps the references apart and the old entries where
they were (`PostGrows`, `JournalStep`), and every receipt still points at the
entry it did. `ImplementsBook` maps a call's label to "asked or not" and its
receipt to the decision; `Post` is the book's `Write`, both look-ups of the key
are its `Take`, `Reply` its `Confirm`, and every other step refuses or stutters.

The other theorems are about balances, which are sums over all entries, and use
the lemmas of `Sums`:

- `Entered` is the invariant of the entries: each one is `Sound` (its accounts
  exist and its debits equal its credits) and `Undoes` what it claims to (a
  reversal has the postings of an earlier entry, directions swapped). An entry
  that is sound adds nothing to all accounts together (`EntryCancels`, a table
  with a row per account and a column per posting), hence `MoneyConserved`, and a
  swapped one adds the opposite (`SwapNet`), hence `Reversals`.
- `AmountHeld`: on Postgres no call reaches `Recover`, the look-up that does not
  compare amounts, and a pair of postings moves its amount (`PairSides`).
- `FundsSeen`: a spend on its way to `Post` has read a balance that covers it. If
  that is still the balance, posting takes the amount and no more (`NetAppend`,
  `PairNet`), so that an overdraft needs another call in between.
- `Vacant`: there is no account for an owner for whom a call is about to create
  one. On `PostgresRepository` nothing keeps that true while another call creates
  it, nor when a failed look-up is taken for a missing row, and users do get two
  wallets. `SecondWalletHasCause` says that these are the only ways:

      Spec /\ []~TwoCreate /\ [][~Overlooks]_vars => []OneAccountPerUser

  where `TwoCreate` says that two calls are about to create an account for one
  owner, and `Overlooks` that a look-up misses an account that is there. A look-up
  that fails when there is nothing to find is left in.
- `Pooled`: the accounts a call has found belong to the one it looked for, an
  entry of mobile money or of a settlement leaves the escrow alone and any other
  entry the pool. What such an entry adds to the wallets it then takes from the
  pool (`MobileNet`). The assumption is `PoolForCash`: cash goes to and from the
  pool, payments between users, the entry of a settlement is between an account of a
  business and the pool, and the other raw entries leave the pool alone. That is
  how the handlers and the business service call the ledger, and how the
  requests of the runs are made.

**PaymentIntentsProofs.** `Typing`, `CaptureOnce`, `SuccessIsPaid`, `Final`,
`Covered` (`PaymentsCovered`), `RefusedIfCutOff` and `LifeUntilCutOff`; for
`MemoryBusinessRepository` `PaidNotRefused` (`PaidIsNotRefused`) and
`ImplementsLife` (`LifeSpec`):

    IInv  == TypeOK /\ Phases /\ NoStrayEntry /\ CapturedOnce /\ SucceededIsPaid
    Hands == PaidIsNotRefused /\ PaidInHand

`NoStrayEntry` excludes an entry under the reference of an intent that does not
exist yet, which the next `Insert` would inherit as paid. `PaidInHand` is what
the mutex buys: an intent that is paid and still CREATED is in the hands of the
call that holds `paymentMu` and is about to finish it, so no other confirmation
can expire it or fail it for lack of funds. On Postgres that ends with a step
`CutOff`: a call stops between the posting and the status update, and leaves a
paid intent in nobody's hands. Nothing else ends it:

    Spec /\ [][~CutOff]_vars => []PaidIsNotRefused
    Spec /\ [][~CutOff]_vars => LifeSpec

Both theorems are about either repository. Calls that are cut off anywhere else,
failing and repeated calls, expiry and suspended shops are left in. A call of
`MemoryBusinessRepository` is not cut off, so there both hold without the condition.
`NextEffect` is the lemma the invariants
share: what any step may do to `moves` and `intents`. `Covered` adds `Wallets`:
what a payer has paid the shop is covered by what the wallet had and received,
and so is the payment of a call that has passed `CheckFunds` (`Room`). Spends
elsewhere make the balance that it has read stale, but they do not pay the shop;
the other confirmations wait for the mutex.

**PayoutsProofs.** On both repositories `PayoutTyping` (`TypeOK`),
`RefundsBooked`, `GivenBackIsCounted` and `OverRefundIsARace`; on
`MemoryBusinessRepository` `NoOverRefundOnMemory` (`NoOverRefund`); on both,
whatever is cut off, fails or overlaps, `SettlementsBooked` (`SettlementBooked`) and
`NotPaidOutTwice` (`PaidOutOnce`).

    RInv == Shape /\ InRefund /\ RefundBooked
    PInv == Shape /\ InProcess

`Shape` is the part of the types that needs no sums. `InRefund` says that a call
that is about to post or to finish a refund has the row of its own request, that
between the two the entry is there, and that an entry under a refund's reference
is that refund's; without the last part a refund could be answered "duplicate"
for somebody else's entry. `InProcess` says what is left of the processing without
a lock: a settlement that is not doubtful is in the hands of one call at most
(`Alone`), is PROCESSING while that call posts it, and has its entry exactly when
that call has posted it; of a doubtful one there is still one entry at most, under
its reference, and it is there when the status says SUCCEEDED. The lemma `RefsApart` keeps the references of
refunds and settlements apart. The theorems about amounts add:

- `Typed` (for `PayoutTyping`): the totals that the code computes from its tables
  are natural numbers, so that what a settlement takes of a payment is one. It
  needs that a refund has a positive amount and that a settlement takes the
  positive remainders only.
- `Within` (for `NoOverRefundOnMemory`): no refund fails, and what is counted as
  refunded of a payment is at most its amount. `CreateRefund` of the memory
  repository is what keeps it. That what came back is at most what is counted
  (`BackWithin`) is an injection from entries to refunds, by their references.
- On Postgres `NoOverRefund` is false (`payouts_overrefund`). Two theorems say what
  is left of it. `GivenBackIsCounted`: what the ledger gave back is at most what
  `GetTotalRefundedAmount` counts; its invariant is `Paired` (a refund is in the
  hands of one call, and has not failed) and `Backed` (each entry is of a refund
  that nobody will mark as failed any more). `OverRefundIsARace`:

      Spec /\ []~Overlap => []NoOverRefund

  where `Overlap` says that two refunds of one payment are between the check of
  the remainder and the insert. So this race, and neither a cut-off call nor a
  failing statement nor a key, is the only way to give back too much. The
  invariant `Left` says that the remainder a call has checked is still there.
  The hypothesis is about the behaviour, and leaves in it every cut-off, failing
  and repeated refund whose check overlaps no other one of the same payment.
- `Settleable` (for `NotPaidOutTwice`): what the settlements that have neither failed
  nor are doubtful take of a payment (`Claimed`) is at most its amount
  (`Bounded`), and so is that together with what the call that holds `settlementMu`
  has scanned (`Scanned`), if it did read what is settled. A scan that did not makes a
  doubtful settlement.

**PSPGatewayProofs.** `Typing`, `RailOnRecord` (`RailRecorded`),
`ImplementsBoard` (`BoardSpec`) and `RetriesAreFree` (`RetryIsFree`):

    TInv == TypeOK /\ \A c : Working(c)
    XInv == TInv /\ Owns /\ \A n \in DOMAIN rail : Recorded(n)
    BInv == XInv /\ Handed

`Owns`: two calls never carry one transaction of the rail, and a transaction
that a call is about to store has no row yet. `Handed`: an event with an identity is
in the hands of one call, the one whose insert of the identity succeeded, and
the identity is recorded; so an update can be taken for the use of that event.
The refinement counts an event as used when its call is done with it. `RetryIsFree`
is of the form `[](P => []Q)`; the inductive step is that `Spared`, which is true
at P and implies Q, is kept by every step once the key has a row.

**ChatBlocProofs.** `Typing`, which includes that a text is shown once,
`InItsConversation` (`OfActive`) and `NothingLeftBehind` (`CaughtUp`). The
invariant of the first two, `Typed /\ Requested /\ Held /\
InPlace`, says what the two properties say not only of the emitted state but of
every state that a handler has read before an `await` and may emit later.
`MergeOnce` is the lemma about the merge of a load with what is shown.
`CaughtUp` is about states where nothing is under way; `Pursued` is what holds in
the others: a message that the server has of the active conversation is shown,
or its event is coming, or a load that is current and will have it is under way
(`Awaited`), or its event was lost, unless a handler slipped. A reload counts
only where it superseded a load, because its failure is a slip only there.

**ClientSessionProofs.** `Typing`, `TokenUsedOnce` (`SingleUse`) and `NotRefused`
(`RefusedIfRevoked`):

    IInv   == TypeOK /\ Tokens
    Tokens == OwnTokens /\ Recorded /\ Fresh /\ Usable /\ RefusedIfRevoked

The server alone keeps neither: it looks a refresh token up and deletes it in two
queries. What excludes the race is in the app, as far as it does. `Recorded`: a token
that was sent is in the storage only while its refresh is under way, since a
refresh that fails wipes the storage; so sending it again is possible only
beside that refresh, or after the app was killed in it, and either puts the token in
`resent`. `OwnTokens`: so two calls carry one token only if it is in `resent`, and
each pair belongs to the call that made it. `Fresh`: the pair that a refresh will
bring has not been sent yet, although a late one may be stored over another.
`Usable`: what is in the storage and has not been sent is good or revoked, and so
is a token that the server has not looked up, unless it was resent.

**ChatProofs.** `Typing`, which includes that accepted users are contacts of each
other and that messages are sent by members, `ImplementsLog` (`LogSpec`) and
`SecondsOverlap` (`OneConversation`):

    IInv == TypeOK /\ pc \in [Calls -> Labels] /\ (\A c : Placed(c)) /\ OwnWords

`Placed`: what a call has found out (a contact, a membership, the sender of a
message) is still true when it uses it, because contacts, members and messages
are never removed (`Grows`). `OwnWords`: a text was written by the message's
sender. In the refinement `CreateMessage` is the log's `Post`, because it looks
for the identity once more under the advisory lock; `UpdateMessage` and
`MarkDeleted` are its `Change`, or nothing if the message is deleted already;
every other step leaves the messages alone. `OneConversation` is
again of the form `[](P => []Q)`, and `Settled` is what is kept: the pair has a
conversation, and the call is not about to open another one for it.

The module also has the theorems about the sockets, with `WsSpec`: `SocketTyping`
(`WsTypeOK`), which includes that the client has one open socket at most and none
after a logout, and `NothingToClosed` (`SendsAreOpen`). The invariant adds
`Open`: a broadcast writes only to connections that are in the table, `Run` is
about to close only what it has just removed, and whatever is closed was left by
its read pump. It rests on `Run` not removing anything while a broadcast holds
the read lock.

**Sums.** A sum is the value of the recursive function that the folds of the
community modules build; `Total` names it, `SumExists` and `SumUnique` show that
there is exactly one such function on a finite set, and the lemmas `Total…` say
what sums do: one element more, sums and negatives of terms, zeros left out, rows
and columns of a table, parts of a sum of natural numbers (`TotalNat`), one term
that changes (`TotalChange`), an injection between two sums (`TotalImage`). They
are proved by induction on the size of a set, in the form that a set of finite
sets has a smallest member (`Least`).

**Only model-checked.** Liveness: `EveryCallAnswered`, `NothingLeftOpen`,
`EveryRequestEnds`, `Reconnects`. The prover has no `ENABLED`, so fairness is out of
its reach. Every other property of the passing runs is a theorem; those that
hold under a hypothesis (one of the two repositories, `PoolForCash`) are checked
by TLC under the same one.

## Where the code and its claims differ

1. *More is refunded than was paid* (`payouts_overrefund`, and `findings` in
   `PROJECT.json`). `RefundPayment` reads the remainder and inserts the refund in two
   calls; only `MemoryBusinessRepository` looks again when it inserts
   (`OverRefundIsARace` proves that there is no other cause). The comment at `business/service.go:960` says "Remaining Refundable Validation
   (Atomic lock safe)".

The models have more behaviours of this kind, each seen in the states of a
passing run; the properties of that run are stated so as to say that there are
no others. Server paths are below `src/backend/internal`, the client's below
`src/app/lib/features/auth/data` and `src/app/lib/features/chat/presentation`.

2. *Money.* Two racing spends overdraw a wallet (`OverdraftNeedsStaleRead` shows
   that this race is the only cause). On Postgres a paid intent is recorded as
   failed when its confirmation is cut off after the posting and repeated, and a
   user gets two wallets when two requests race for the first one or when a
   look-up fails and is taken to have found nothing (`ledger/repository.go:460`;
   `RefusedIfCutOff` and `SecondWalletHasCause` prove that there is no other
   way). Two creations with one key make two intents, when they race or when the
   look-up of the key fails (`business/service.go:605`). On `MemoryRepository` a
   request that loses the race for its key is answered with the winner's entry even
   if that moved another amount. A settlement processed by two calls at once, or
   whose mark PROCESSING was not stored (line 1493), may be booked and yet be
   recorded as failed, and its payments are settled again; so are those whose
   settled part could not be read while the amounts were collected (line 1301). A
   settlement whose posting fails is recorded as failed although the provider has
   paid. Refunds and settlements together overdraw the shop.
3. *Statuses of the provider.* `psp/interfaces.go:25` says that provider-specific
   statuses "MUST ALWAYS be normalized". A status of a webhook that is none of the
   listed ones is stored as it came (`psp/sandbox_provider.go:225`). A poll may also
   overwrite what a webhook stored meanwhile, and an event that comes before the
   row of its transaction is recorded as processed and has no effect.
4. *Sessions.* `auth_repository.dart:109` says that "local tokens are always
   wiped"; a refresh in flight stores its new pair after that. The refresh
   token is not revoked at the server either, only the access token is. The check at
   start-up (`auth_repository.dart:59`) makes a refresh of its own beside the
   shared one, so a request that is refused meanwhile sends the same token a second
   time: one of the two is refused, which signs the user out, or the token gives two
   pairs. An app that is killed between the server's exchange and `saveTokens`
   (`api_client.dart:122`) starts with a token that is used up.
5. *Contacts.* `contact/service.go:90` says "check for reciprocal pending
   request → auto-accept". One's own rejected request hides the pending one of
   the other (`contact/repository.go:397`), and a second pending request is
   stored. `chat/service.go:64` says "verify users are mutual contacts"; the
   synchronisation of the address book makes contacts in one direction only.
6. *Reconnecting.* A login before the end of the old socket, or a second login: the
   callback of the socket that was closed schedules a reconnect, which closes the
   live one, whose callback schedules the next. `ws_client.dart:47` says "Ensure
   strictly ONE connection". A connection that breaks without a word is noticed
   by the server only; the app goes on as if it were connected until it sends
   something, and a resumption (`app.dart:132`) does not reconnect either.
7. *Chat in the app.* `bloc/chat_bloc.dart:492` says "Safe merge: preserve any message
   received via WS or sent optimistically in the meantime", and then awaits the
   conversation before it emits: what came during that wait is lost from view, as it
   is at line 908. The reload after a reconnect (line 350) puts the messages of one
   conversation into the other one that was opened meanwhile; the screen takes
   them for those of "the active conversation" (`screens/chat_screen.dart:315`). A late load
   switches the active conversation back. A reload that supersedes a load and
   fails leaves the screen without messages. The client reports a connection before
   the handshake, so that an event between the reload and the registration in
   the hub is missed. Voice messages and files are shown twice when
   their event comes before their answer.
8. *Read, not modelled.* The event of a deletion carries `message_id`, the client
   reads `id`; the event of removed reactions names one of them although all
   are removed; a client's identity of a message is a time in milliseconds, not
   distinguished by its sender.

## What is not modelled

`components` in `PROJECT.json` lists every part with the reason. In short:

- *Commission*: no handler collects or refunds a fee, only tests do. It would be
  the pattern of `Payouts` again: read the total, post, store.
- *Members and roles*: updates of one row. The only rule that relates rows, that a
  business keeps an owner, is a count before an update; two owners who are
  removed at once leave none, and so does another status for the only owner. A
  property about it would be false, and the code says nothing that it contradicts.
- *The client's payment repository*: its ledger is a demonstration in memory that
  a failed call falls back to.
- *Users, media, notifications, HTTP plumbing, platform packages*: reads and
  updates of one row, or wrappers of a driver.
- *One-time codes*: a login is one step. Two verifications of one code that overlap
  both succeed, which gives two logins, as two codes would, or the second fails
  when both find no user; a code that is stored between the look-up and the
  deletion of another one is deleted with it.
- The client's screens, themes and translations, the assets, and the files at the
  root of the repository: `main.dart.js`, `canvaskit`, the service worker and the
  recording helpers under `assets/packages`. They are compiled from `app/lib`,
  generated by the Flutter tools or come with a package; what is written by hand
  is Go and Dart, and the models are of that.

## The plan

Done, in this order because everything else that moves money goes through the
first: the ledger, merchant payments, refunds and settlements; the gateway;
sessions on both sides; contacts and chat; the hub with the client's socket; the
chat state of the app. Left:

1. Edits and deletions in `ChatBloc`, and reactions and receipts on both sides, once
   the two agree on the fields of the events.
2. The rule that relates refunds and settlements of one payment, once it is written
   down: today a payment that was settled can still be refunded.
