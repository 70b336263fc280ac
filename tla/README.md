# Alwled backend: a TLA+ model

This directory specifies, model-checks and proves the transactional core
of the Alwled shop: the NestJS/Prisma backend under `src/src/`, with its
PostgreSQL schema in `src/prisma/`. Paths below are relative to the backend
unless they start with `src/`. Customers fill carts, order under an idempotency
key, pay by declaring a bank transfer that employees review, and are told about
it through a transactional outbox; employees restock, confirm orders, review
payments, verify identities, and look after the catalogue, each other's accounts
and roles. The employees' panel is a page in a browser (`src/frontend/`), which keeps
their session alive.

Every HTTP call runs concurrently with every other one. PostgreSQL runs at its
default level, READ COMMITTED, so a handler that reads with `findUnique`, checks,
and writes later with `update({ where: { id } })` may act on what is no longer
true. The models look at exactly that.

## Inventory of the system

| Part | State it keeps | Operations | Interacts with | What is hard | What makes it correct |
|---|---|---|---|---|---|
| Orders (`orders/`) | `orders`, `order_items`, key rows of scope ORDER | create, cancel, updateStatus, reads | locks inventory rows, empties the cart, enqueues events | two customers and one unit; retries of a running call; status checked before it is written | no overselling; one order per key; stock given back once and in full |
| Inventory (`inventory/`) | `inventory`, `inventory_movements` | adjust, update, reservation and release from orders | orders, alerts to the outbox | lost updates, deadlocks between row locks | reserved never exceeds quantity; every change has its movement |
| Payments (`payments/`) | `payments`, key rows of scope PAYMENT | create, submitProof, confirm, reject, cancel | reads order status, enqueues events | decisions that race, two declarations of one reference, crash between two transactions | a decision stands; evidence belongs to one payment; events match rows |
| Notifications (`notifications/`) | `notification_outbox`, `notifications`, `notification_preferences` | enqueue, dispatch, updatePreference, markRead, lists | called by orders, inventory, payments, verification after each commit | overlapping passes over the same rows, failures half way | handed over at most once, in the inbox of every recipient that was read; nothing stuck for ever |
| Customer verification (`customer-verification/`) | `customer_verifications`, key rows of scope VERIFICATION | start (and retry), getMine, cancel, review, verify, reject, lazy expiry | enqueues events | check and write are not one transaction; key written after the row | one active request; events tell the status the row has |
| Idempotency keys (`src/prisma/schema.prisma:521`) | `idempotency_keys`, unique on user, scope, key | insert, look up | the three `create` operations | the loser of the race for a key | a key stands for one resource |
| Cart (`cart/`) | `carts`, `cart_items` | addItem, updateItem, removeItem, clearCart | read and emptied by orders | the quota of lines is counted before the line is written | at most `CART_MAX_ITEMS` lines |
| Checkout (`checkout/`) | none | preview | reads cart and stock | - | - |
| Sessions, authentication (`auth/`) | `refresh_tokens`, `password_reset_tokens`, `verification_tokens` | login, refresh (rotation), logout, password change and reset | users | two refreshes with one token; refresh against revocation of all sessions | a refresh token has one successor; no session outlives the password, the account or its revocation |
| Employees, users, roles (`employees/`, `users/`, `roles/`, `permissions/`) | `users.status`, `roles`, `user_roles`, `role_permissions` | register, create, setStatus, assignRole, revokeRole, role create, remove, setPermissions | sessions (revocation) | owners and roles are counted before the write; deleting a role deletes its assignments | there is always an owner who can sign in; every account has a role |
| Catalogue (`categories/`, `products/`, `brands/`, `specifications/`) | `categories`, `products`, `product_images` | create, move, remove; add, choose, clear, remove and reorder images | inventory, carts and orders refer to products | checks made before the write; deletions that cascade or are restricted; `updateMany` against rows it cannot see | a tree of three levels; one primary image; no stock ledger deleted |
| Slider, dashboard, audit, uploads, HTTP layer | banners, log rows, files | CRUD, aggregation | - | - | - |
| Staff panel session client (`src/frontend/assets/js/core/`: `api.js`, `session.js`, `auth.js`) | access token and `refreshInFlight` in the memory of a page, refresh token in `localStorage` | restore, call, shared refresh after a 401, login, logout | the session service, over HTTP; tabs share the storage | several 401s at once or late, a reload in the middle of a refresh, lost answers | a refresh token is presented once (a second use ends all sessions); no call waits for ever, but for a body that stalls |
| Shop client, pages of the panel (`src/frontend/`) | what is on the screen | presentation | HTTP | - | - |
| Python files (`src/scripts/`, `src/frontend/tools/`) | none of the program's | tests, audits and screenshots of the deployed system | HTTP | - | - |

## Modules

| Module | Models | Kind |
|---|---|---|
| `OrderLifecycle` | `orders/orders.constants.ts`: statuses and transitions | shared operators |
| `Inventory` | the inventory table; reservation, release, adjust, update as one step each | component |
| `Orders` | create, cancel, updateStatus and the cart they read; EXTENDS `Inventory`, so the composition of the two | component |
| `Payments` | `payments/payments.service.ts`; the orders only move | component |
| `NotificationOutbox` | enqueue, dispatch passes, retries, preferences | component |
| `CustomerVerification` | start, retry, cancel, decisions, lazy expiry, for one customer (customers share nothing) | component |
| `StockLocks` | the transactions on inventory, lock by lock, with deadlocks, aborts and rollbacks | component, one level lower |
| `Sessions` | `auth/session.service.ts` and the calls of `auth/auth.service.ts` that open, renew and end sessions | component |
| `Accounts` | `employees/`, `users/`, `roles/`: who may do what to whose account; EXTENDS `Sessions`, so accounts and their sessions together | component |
| `CategoryTree` | `categories/categories.service.ts` and its walks of the tree | component |
| `Catalogue` | products and their images; EXTENDS `CategoryTree`, so the catalogue as a whole | component |
| `IdempotentCreation` | what an endpoint with an `Idempotency-Key` promises | abstract |
| `AtomicStock` | what the inventory table promises | abstract |
| `BrowserSession` | the staff panel in a browser; EXTENDS `Sessions`, so the client and the service together | component |
| `Orders_proofs`, `Payments_proofs`, `NotificationOutbox_proofs`, `CustomerVerification_proofs`, `StockLocks_proofs`, `Sessions_proofs` (of `Accounts` too), `BrowserSession_proofs`, `Catalogue_proofs` (of `CategoryTree` too) | theorems about the modules they are named for | proofs |
| `MC*` | instances for TLC | checking |

How the state corresponds to the code: a table becomes a function from ids to the
columns that matter (`orderStatus`, `reserved`, `reference`, ...); a unique index
becomes a guard of the insert (`keyIsFree`, `referenceIsFree`, `indexAllows`) with
the failing insert, Prisma's P2002, as the action of the loser (`createLosesKey`,
`startLosesKey`, ...). A call in progress is a record in `req` (in the outbox, a
pass in `pass`): its `pc` is the await at which it stands, its other fields are
what it has read so far, which may be stale. A `prisma.$transaction` that locks
the rows it reads is one action; one that does not is split where it reads.
`StockLocks` shows for the stock that locking makes this sound.

| Action | Code |
|---|---|
| `Orders!createReadsCart`, `createReplays`, `createChecksCart` | `create`, before its transaction (lines 136-184) |
| `Orders!placeOrder`, `createRollsBack`, `createLosesKey`, `createAnswersLoser` | the transaction and the handler of P2002 (186-330) |
| `Orders!cancel`, `cancelRefused` | `cancel`, which locks the order first (433-552) |
| `Orders!updateStatusReads`, `updateStatusWrites` | `updateStatus`: reads without a lock, writes by id (556-608) |
| `Payments!looks`, `transition`, `transitionRefused`, `submitChecksReference`, `submitEnqueuesReview` | the check before, the locked transition, and what `submitProof` adds |
| `NotificationOutbox!startPass` ... `recordsFailure` | `dispatch` and `deliverOutboxRow`, one action per await |
| `CustomerVerification!startCreates`, `startRestarts`, `startRecordsKey`, `writes`, `applyLazyExpiry` | the writes of the service, each after a read of its own |
| `Sessions!refresh`, `refreshResolves`, `refreshMints`, `claims`, `claimFails`, `undoes` | `refresh` and `rotate`: account, old row, new row, conditional claim, lost race |
| `Sessions!writesPassword`, `resetWrites`, `disables`, then `revokeAll` | the write that ends all sessions, and the statement that does it |
| `Accounts!createEmployee` ... `removeRole`, then `writesEmployee` ... `removes` | what a call of staff reads and checks, then what it writes |
| `CategoryTree!moveCategory`, `movesCategory` | the checks of `update`, then its write |
| `BrowserSession!unauthorized`, then `refreshed` or `refused`, `repeated` | `request` on a 401, `sharedRefresh` and its two ends, the call made again |
| `BrowserSession!headersArrive`, `refreshTimesOut`, `bodyIsLost` | the answer of a refresh comes in two parts; only the first is timed (`api.js:131-163`) |
| `BrowserSession!restores`, `loadsMe`, `meUnauthorized`, `reload` | `restore`, the 401 of its `GET /auth/me`, and a page that goes at any moment |
| `BrowserSession!signsIn`, `signsOut`, `signsOutEverywhere`, `signedOut`, ... | `login` and `logout` of `auth.js` |
| `BrowserSession!serverStep`, `refreshTimesOut`, `actTimesOut` | a step of the service and the answer it may give; the timer of a fetch, or a lost answer |
| `Catalogue!addImage`, `updateImage`, `fixesRows`, `insertsImage`, `writesImage`, `deletesImage` | the reads before the transaction, the rows its `updateMany` sees, its commit |

Three assumptions about steps. The guards of a route (`JwtStrategy`,
`PermissionsGuard`, which read the account anew for each call) and the first reads
of its handler are one step, and so are the several queries of a walk of the
category tree. A statement of SQL is one step, except where it waits for rows
another transaction holds: `fixesRows` takes the rows that were committed when
`updateMany` began, and the commit writes those of them that are left. The
transaction that deletes an image, which locks it first, is one step.

Variables the code does not have, kept to state properties: `holdMoves` and
`stockMoves` are sums over the movements table; `failures`, `deliveries` and
`mutedOnce` count what happened in the outbox; `handed`, `from` and `outdated` of a
session and `interrupted` tell where it came from and what should have ended it;
`stale` of a call says that another one has written since it read; `cut` holds the
tokens whose refresh was under way when their page was reloaded. No guard reads
them except for `failures`, which carries the bound `MaxFailures`, and `handed`: a
client presents only a token it was given.

Each module contains a few faulty variants ("A faulty variant: ..."): plausible
bugs in the code, which no action uses. Put in place of the definition they vary,
each makes one of the properties fail; they show that the properties can.

## What the runs check

| Run | Question | Properties |
|---|---|---|
| `orders` | two customers and staff, three calls, two products with a unit each, changing carts, stock and catalogue | `TypeOK`, `StockNotOversold`, `NoPhantomHold`, `LedgerNeverAhead`, `OutboxTellsTheOrders`, `OneOrderPerKey`, `AnswerMatchesCart`, `RetryIsAnswered`, `KeysAreIdempotent` (refines `IdempotentCreation`), `StockIsAtomic` (refines `AtomicStock`) |
| `locks` | three transactions over two rows, lock by lock | `TypeOK`, `StockIsAtomic`, `EveryTransactionEnds` |
| `payments` | two orders, two keys, one reference, four calls, one crash | `TypeOK`, `DecisionsStand`, `EvidenceIsItsOwn`, `OutboxTellsThePayments`, `OneKeyPerPayment`, `PaymentKeysAreIdempotent` |
| `outbox` | two passes over one staff event, failures, a crash, muting, under fairness | `TypeOK`, `SettledWithReason`, `DeliveredAtMostOnce`, `EveryEventSettles` |
| `verification` | four calls, two requests, two keys, two bodies, one crash | `TypeOK`, `OneActive`, `StatusIsAnnounced`, `AnswerIsOfTheKey` |
| `sessions` | three calls of a user or about the account, three tokens, one reset token, crashes | `SessionsTypeOK`, `RotationIsExclusive`, `SessionsEndWithCredentials` |
| `accounts` | two users (owner, manager, customer or not yet there), two calls, a role that comes and goes, one session | `AccountsTypeOK`, `OwnersRemain`, `EveryoneKeepsARole` |
| `catalogue` | two categories, a product, three images, two calls, crashes | `TypeOK`, `TreeStaysATree`, `OnePrimaryStays`, `HistoryIsKept` |
| `browser` | a tab with two calls of its own that go unauthorized, two calls at the server, three tokens, answers lost before and after their headers, reloads, the user on another device | `TypeOK`, `OneUsePerToken`, `WaitingEnds` |

`SessionsEndWithCredentials` is the one to argue about. `rotate` creates the new
session before it claims the old one, and `revokeAll` is a statement of its own
after the password, the status or the reset token is written. A session that was
open at that write does not survive it, nor does any that was rotated from it,
before or after: either the claim fails, because the old session is revoked, or
the new one is there for `revokeAll` to find. The one exception the property names
is a crash between the two statements.

`SettledWithReason` asks for the recipients that a pass read, because that is what the
code does: it reads at most `maxLimit * 10`, 500, of those who hold the permission
(`notifications.service.ts:248`), in no order, and tells nobody else. The run has two
staff users and reads both; theorem `Settled` is about any number and any limit.

`OwnersRemain`, `EveryoneKeepsARole`, `TreeStaysATree`, `OnePrimaryStays` and
`HistoryIsKept` are promises the code keeps for calls that come one after another,
in any order and number, and breaks for calls that overlap: it counts or walks
first and writes later by id. They say so: the step that breaks the promise is the
write of a call that had read something another call has changed since. A plain
invariant would be false; the runs show that nothing but such a write is to blame.
So the overlapping calls themselves (`employees.service.ts:266, 349`,
`roles.service.ts:178`, `categories.service.ts:247`, `product-images.service.ts:127`,
`products.service.ts:412`) are excepted and no property catches them; what these five
check is the sequences. `isTree` follows at most `Guard` parents, so the run sees every
circle its two categories can make, and theorem `TreeIsKept` is about circles of up to
`Guard` categories, whatever `Guard` is; in the code it is ten.
The foreign keys, in contrast, hold always (`AccountsTypeOK`, and `TypeOK` of
`Catalogue`): no role is deleted from under its accounts, nor a category from
under its children or products, however calls interleave.

`AnswerIsOfTheKey` is about calls that are answered: a start that crashes before it has
recorded its key is not, so the lost key shows in no property. `StatusIsAnnounced` does
not see that a terminal status was overwritten, as long as the new one is announced.

`OneUsePerToken` is why the page shares one refresh: the server takes a second use of
a refresh token for theft and ends every session of the user. The page is a client
that times out while the server goes on, so the property is about the order in which
401s, answers and losses reach it. It is stated for one tab and excepts `cut`: two
tabs share the token and not the refresh, and a reload, also one while the page is
being restored, forgets the refresh and keeps the token (both below).

`WaitingEnds` excepts a body that stays under way for ever. The code clears the timer of
a call when the headers of its answer arrive (`api.js:152`) and reads the body after
that; if the connection then stalls without breaking, the refresh never settles, and
every call that shares it waits with it. Up to the headers the timer ends the wait,
whatever the server does.

Three of the properties say less than one would hope, because the code keeps less.
`NoPhantomHold` bounds what is reserved by what live orders are owed, and
`LedgerNeverAhead` bounds the ledger by what is reserved (both count in units, a pair
of an order and a number for each piece); equality fails once a
late confirmation has resurrected a cancelled order (below). `StatusIsAnnounced`
asks for the event of the status that stands, not for the absence of other events.

Three more runs show what a comment or document of the repository says and the
code does not keep:

| Run | Property | What happens |
|---|---|---|
| `stock_released_twice` | `ReleasedOnce` | `updateStatus` reads PENDING, a cancellation commits and releases, `updateStatus` writes CONFIRMED by id; the order can be cancelled again, and the second release takes the unit another order holds: its own movements say it has one, `reserved` says none |
| `review_not_requested` | `ReviewIsRequested` | `submitProof` enqueues the event for the staff outside the transaction that changes the status; a crash in between loses it |
| `outbox_not_handed_over` | `ProcessedIsHandedOver` | the server stops after the insert of a notification and before the provider is called; the next pass sees a duplicate, skips it and marks the row processed, so it is never handed over and its `deliveryStatus` stays PENDING |

Further divergences of the same kind, seen in the same interleavings, without
runs of their own:

- `orders.service.ts:126` promises one transaction from cart to order; the cart is
  read before it (142), and lines added in between are deleted without being
  ordered (288).
- `src/docs/notifications-architecture.md:48-49` has alerts raised when stock crosses a
  limit; only `adjust` raises them (`inventory.service.ts:250`), a reservation or
  `PATCH /inventory` that takes the last unit does not.
- `notifications.service.ts:36-37` retries "up to maxAttempts"; overlapping passes
  write a count computed from what each read (123), so there may be more.
- `customer-verification.constants.ts:52` calls VERIFIED and CANCELLED terminal;
  the stale write at `customer-verification.service.ts:485` leaves them.
- `src/prisma/schema.prisma:522` has the key written in the transaction of its
  resource; verification writes it afterwards (339), so two submits with one key
  can create two requests.
- `payments.constants.ts:49` lets administrators cancel from PENDING_REVIEW,
  `src/README.md:281` does not; `payments.service.ts:37` says no HTTP path marks
  a payment SUCCEEDED, `confirm` (505) does.
- `payments.constants.ts:45` has cancelled orders never receive a payment; `create`
  reads the order's status once, before its transaction (`payments.service.ts:121`).
- `customer-verification.service.ts:475-476` has VERIFIED follow a review; a late
  verification (485) may meet a request that was rejected and started again.
- `employees.service.ts:80` prevents leaving the system without an owner; two calls
  that both counted two owners leave none, and disabled owners count (75).
  `src/README.md:94-95` gives every account a role; a role assigned while it is being
  deleted goes with it (`roles.service.ts:178-182`), and two revocations may each
  leave the other's role.
- `product-images.service.ts:120, 147` keeps exactly one primary image; calls that
  overlap leave none, two, or a flag on an image that follows nobody.
- `products.service.ts:399` refuses to delete a product with stock history; a
  movement recorded after the count is deleted with it. Two moves in the tree, each
  fine, may close a circle (`categories.service.ts:246`).
- `src/docs/security.md:18` and `auth/verification/verification.service.ts:24` call
  their tokens single-use; two calls with one token both see it unused
  (`auth.service.ts:302`, `verification.service.ts:52`), and two overlapping requests
  for a token leave two that work (266-280).
- A login that has verified the old password, or an account still active, opens its
  session after `revokeAll` (`auth.service.ts:171`); `logout` writes REVOKED by id over
  a session that a refresh has just used, whose successor stays
  (`session.service.ts:157`). `SessionsEndWithCredentials` speaks of sessions that were
  open, not of these.

- `categories.service.ts:19` allows three levels; a category may move below a parent
  when depth plus height less one is at most three (251), which is one level too
  many: a category may move below a grandchild, to a fourth. It is no more than one
  (theorem `DepthIsBounded`).
- `api.js:96` shares one refresh between calls so that they do not spoil each other's;
  the variable is per page and the token is shared by all tabs, so two tabs can
  present it twice.
- `session.js:4` keeps the refresh token because the session must survive a reload; a
  reload after the server has claimed the token and before the answer is stored
  (`auth.js:83`) leaves a used token, and the refresh of the new page ends all
  sessions of the user.
- A refresh that is answered after the user signed out stores a session again
  (`auth.js:89`, `108-113`); the server has ended it only if `logout-all` came later.
- `src/frontend/README.md:70` gives up the session when the refresh fails; the handler
  (`api.js:182`) also catches what the repeated call throws, and gives up a session
  that was just renewed.

## Bounds, and why they are enough

- Calls (`Requests`) are four, three in `orders` and `sessions`, two in `accounts`,
  `catalogue` and `browser`: a race here needs one call that reads and one that writes in
  between. In `Sessions`, `Accounts`, `Catalogue`, `BrowserSession` and `StockLocks` a slot
  is free again when its call is over, so any number of calls follow one another. In
  `Orders`, `Payments` and `CustomerVerification` a call keeps its answer, which
  properties are about, and its slot, so `Requests` bounds all calls of a behaviour: the
  three of `orders` let an order be placed, cancelled and confirmed late, but not cancelled
  again, nor the release be clamped. Theorems `NothingHeldForNobody` and
  `LedgerStaysBehind` cover that. Three sessions and three calls let two refreshes
  race while the account is suspended or the password changed.
- Stock of one unit of each of two products: two orders want the same unit, or an
  order finds one product and not the other. `stock_released_twice` has
  five calls, one product and two customers with an order of a unit each. One key per
  customer makes repeated calls collide. Two keys, two orders and one reference in `payments`: a key used for two orders, an order paid under two keys,
  one reference declared twice. One customer is enough there: the keys of others
  are other rows, and calls about the orders of others are refused before they write.
- Two users in `accounts` disable, promote and demote each other; one token is enough
  for the session of the one who is disabled, `sessions` has the rest.
- Two categories in `catalogue`: with a limit of three levels the depth rule itself
  refuses longer circles, so only a circle of two is left for the check of descendants
  to refuse. Three images of one product: a primary one, another, and one that comes.
  `Guard`, ten in the code, is four, more than any chain there is.
- One staff event with two recipients and two passes give every overlap of a stale and
  a fresh count; `MaxFailures` exceeds `MaxAttempts` so that events are given up. `MaxRecipients` is two,
  the number of recipients: with three the state space is out of reach, so the run does
  not cut the list, and the theorem does.
  `outbox_not_handed_over` needs one pass, one event and one crash. Three
  transactions over two rows give the circular wait and a bystander in the queue.
- Three tokens in `browser`: a login, its renewal, and a renewal of that or another
  login. Two calls of the page (`MaxCalls`) are one that asks for the refresh and one
  that joins it, or comes late; two calls at the server are a refresh and what the user
  does, here or elsewhere.
- `MaxCrashes`, `MaxMovements` and `MaxStock` cut off only repetition: one crash at
  any await, one staff edit of stock.
- Requests, keys, customers, products, passes and transactions are interchangeable
  in the specifications, so the safety runs use symmetry; runs with liveness do not.
  Ids that are taken in ascending order are not interchangeable.

Deadlock: carts may always be edited, orders moved, time passed and preferences
changed, so in `Orders`, `Payments`, `CustomerVerification` and the outbox TLC's
deadlock check says little; that nothing waits for ever is said by the three liveness
properties, and in `StockLocks` by the deadlock check too. `outbox`, `sessions`, `accounts`, `catalogue` and `browser` turn it off:
without crashes and staff the outbox stops when its event is settled, and the others
stop a call that needs an id when the ids, which are bounded and never used twice,
are spent.

## Fairness

`StockLocks!Fairness`: PostgreSQL executes the statements of a transaction (weak
fairness of reaching a row, committing and rolling back), runs its deadlock
detector after `deadlock_timeout` (weak), and grants the lock of a row to those who
queue for it in turn (strong: the lock is taken and freed again while one waits).
Nothing is assumed of timeouts or aborts.

`NotificationOutbox!Fairness`: a running pass goes on, time passes, and passes keep
being started. The last one is an assumption about the business, not about the
code: `dispatch` has no timer, it runs after commits and on demand, so with no
commit to follow a failed row waits. Failures are not fair: they may or may not
happen.

`BrowserSession!Spec`: a page handles a refresh that failed (`hearsOfLoss`), and the timer
that `request` sets for every fetch runs out (`refreshTimesOut`, 20 s), unless the
headers of the answer come first. Both are weak. Nothing is assumed of the server and the
network: no answer need come, and a body that was begun may neither end nor break,
which is what `WaitingEnds` excepts.

## What is proved

Every safety property the passing runs check, refinements included, is a theorem. The
theorems hold for every value of the constants under the assumption
the module declares, which TLC evaluates in its run: bounds are naturals, the ids
that mean "none" are no ids, and what the paragraphs below add. No proof uses
fairness, nor that a set is finite unless said.

### Orders and the stock (`Orders_proofs`)

Any customers, products, keys and calls, stock, quantities and thresholds, under
`InventoryAssumption` and `OrdersAssumption` (ids are positive and finitely many, the
staff user is no customer).

| Theorem | Statement |
|---|---|
| `TypeCorrect` | `Spec => []TypeOK` |
| `NeverOversold` | `Spec => []StockNotOversold` |
| `NothingHeldForNobody` | `Spec => []NoPhantomHold` |
| `LedgerStaysBehind` | `Spec => []LedgerNeverAhead` |
| `StockStaysAtomic` | `Spec => StockIsAtomic`: orders and inventory implement `AtomicStock` |
| `KeysAgree` | `Spec => []KeysOK` |
| `OneOrder` | `Spec => []OneOrderPerKey` |
| `AnswersMatch` | `Spec => []AnswerMatchesCart` |
| `RetriesAreAnswered` | `Spec => RetryIsAnswered` |
| `OutboxTells` | `Spec => []OutboxTellsTheOrders` |
| `ImplementsPromise` | `Spec => KeysAreIdempotent`: the endpoint implements `IdempotentCreation` |

The argument. `TypeOK` is inductive with `CallsOK`, which ties what a call carries
to where it stands. `StockNotOversold` is inductive given the types: the check under
the lock (`purchasable`, lemma `PurchasableFits`) leaves room for the reservation,
release only lowers `reserved`, and staff may not go below it. The refinement of
`AtomicStock` adds one lemma per kind of step (`PlaceTakes`, `CancelGivesBack`,
`StaffRestocks`); all others leave the stock alone.

`NoPhantomHold` and `LedgerNeverAhead` are about totals over all orders. Counted as
sets of units, a step that changes one order adds or removes a set disjoint from the
rest, so the cardinality moves by what that order moves, and no induction over the
orders is needed. Each is then inductive given the types: an order takes
what it is owed and what is written into the ledger; a cancellation takes from
`reserved` what it was owed or, when that is less, what there is.

`OneOrderPerKey` is not inductive: it says that each order has a row but not that a
row without an order is free, nor what a call that is still running may answer.
`KeysOK` adds that rows and orders name each other one to one, with owner and
content, that a confirmation in progress has an order to write to, and that an
answer names the order of the caller's row. It is inductive given the types;
`OneOrderPerKey` and `AnswerMatchesCart` follow from it, and it is what makes every
step of `Orders` a `Create`, a `Replay` or a stutter of `IdempotentCreation`.

`OutboxOK` adds to `OutboxTellsTheOrders` that the movements of an order never exceed
what is in it, so that one cancellation is enough to bring them to zero or below.
`RetryIsAnswered` needs `CartsOK`: a call never enters its transaction with an empty
cart, so the one refusal that is left to a retry is that of another cart.

### Payments (`Payments_proofs`)

| Theorem | Statement |
|---|---|
| `TypeCorrect` | `Spec => []TypeOK` |
| `StatusesAgree` | `Spec => []StatusOK` |
| `EvidenceStands` | `Spec => []EvidenceIsItsOwn` |
| `DecisionsHold` | `Spec => []DecisionsStand` |
| `OutboxTells` | `Spec => []OutboxTellsThePayments` |
| `OneKey` | `Spec => []OneKeyPerPayment` |
| `ImplementsPromise` | `Spec => PaymentKeysAreIdempotent` |

The argument. `StatusOK` adds to `EvidenceIsItsOwn` that no payment is `PROCESSING`:
the transitions checked under the lock lead from there to `SUCCEEDED` too, without a
reference. Each transition is conditional on the status it finds under the lock, and
none leads on from the target of a decision, so `DecisionsStand`. The outbox
needs that a call about to ask for a review has declared a reference (`OutboxOK`);
keys need that a call in its transaction pays an order of its caller (`KeysOK`).

### Notifications (`NotificationOutbox_proofs`)

Any events, users, passes, batch, number of attempts and limit of recipients; staff are
users (`OutboxAssumption`).

| Theorem | Statement |
|---|---|
| `TypeCorrect` | `Spec => []TypeOK` |
| `Settled` | `Spec => []SettledWithReason` |
| `AtMostOnce` | `Spec => []DeliveredAtMostOnce` |

The argument. Passes overlap, and each writes what it computed from an old read. What
they carry (`PassesOK`) is stable under the steps of the others, because failures are
only counted up, notifications are never removed, and who muted once is remembered:
the recipients left to do are all of those it read that are still owed the notification, and the count
of attempts a pass will write is at most that of the failures there were.
`DeliveredAtMostOnce` is inductive with `OnceOK`: the pass that inserted the row, and
it alone, goes on to deliver it, and the unique index lets nobody insert it again.

### Customer verification (`CustomerVerification_proofs`)

| Theorem | Statement |
|---|---|
| `TypeCorrect` | `Spec => []TypeOK` |
| `OneIsActive` | `Spec => []OneActive` |
| `Announced` | `Spec => []StatusIsAnnounced` |
| `AnswersKeys` | `Spec => []AnswerIsOfTheKey` |

The argument. `Typed` is `TypeOK` with what makes it inductive: a row is there exactly
when it counts an attempt, and a call past its reads works on a row that is there.
The other three are inductive given that: what a call writes, even late and over a
newer status, is guarded by the partial index and comes with its event and the
attempt it counts; a key is recorded once, and an answer reads it or has recorded it.

### Locks (`StockLocks_proofs`)

Any transactions, products, quantities and deltas. How locks are queued for and
deadlocks broken is part of what is proved about.

| Theorem | Statement |
|---|---|
| `TypeCorrect` | `Spec => []TypeOK` |
| `LocksImplementAtomicStock` | `Spec => StockIsAtomic` |

The argument. `ReadsAreCurrent`: a transaction holds exactly the rows it has read and
not yet let go, and they are in the table as it read them. So at commit, when it has
all the rows it needs, its checks are checks of the table and its writes are one
`Reserve`, `Release` or `Adjust` of `AtomicStock`; every other step leaves the stock
alone. With `StockStaysAtomic` this is why `Orders` may take a reservation as one step.

### Sessions (`Sessions_proofs`)

Any users, clients, tokens, reset tokens and calls, under `SessionsAssumption`.

| Theorem | Statement |
|---|---|
| `SessionsTypeCorrect` | `SessionsSpec => []SessionsTypeOK` |
| `RotationExclusive` | `SessionsSpec => []RotationIsExclusive` |
| `SessionsEnd` | `SessionsSpec => []SessionsEndWithCredentials` |

The argument. The types are inductive together with `SessionsOK`: a refresh works on a
session that its client was given, the session it has minted belongs to the same user
and to this refresh alone, and has been outdated whenever the old one has. The two
properties are inductive together given that. Minting and claiming are the steps that
matter. The claim is conditional, so one refresh takes the place of a token. The
minted session copies what has outdated the old one; what outdates the old one later
outdates it too, since both belong to the user; and whatever outdates leaves a call
at `revokeAll`, which ends all of them, or is cut short by the crash the property names.

### Accounts (`Sessions_proofs`)

Any users, roles, permissions and grants in which the seeded roles exist and the
owner's is one of those that only owners give (`AccountsAssumption`), any tokens and
calls.

| Theorem | Statement |
|---|---|
| `CallsStandOnTheirReads` | `AccountsSpec => []Inv` |
| `AccountsTypeCorrect` | `AccountsSpec => []AccountsTypeOK` |
| `OwnersStay` | `AccountsSpec => OwnersRemain` |
| `RolesStay` | `AccountsSpec => EveryoneKeepsARole` |
| `SessionsHoldAmongStaff` | `AccountsSpec => [](RotationIsExclusive /\ SessionsEndWithCredentials)` |

The argument. `Inv` has the types of the sessions and the roles (every assigned role
exists, seeded roles are never deleted) and, for every call of staff that is not
stale, that what it has read is still so: another owner can sign in, the account has
another role, nobody has the role it deletes (`readsHold`). A call is stale from the
moment another one writes, so the write of a call that is not stale acts on the truth,
and `OwnersRemain` and `EveryoneKeepsARole` follow step by step. The sessions' lemmas
are used again for the composition, whose steps are those of `Sessions` or leave
sessions alone.

### The panel (`BrowserSession_proofs`)

Any tabs, tokens and calls, under `SessionsAssumption` and `BrowserAssumption`.

| Theorem | Statement |
|---|---|
| `BrowserTyped` | `Spec => []TypeOK` |
| `BrowserCallsSessions` | `Spec => SessionsSpec` |
| `BrowserRotationExclusive` | `Spec => []RotationIsExclusive` |
| `OneTabUsesTokensOnce` | `OneTab` implies `Spec => []OneUsePerToken` |

The argument. `BrowserOK` is inductive: the types, and that the calls a page has on their
way, waiting and repeated stay within the bound together. Under it each step of a
page is a call of `Sessions` made with a token the client has, a step of the service,
or leaves the service alone. So what is proved of `Sessions` holds behind any number of
pages, however they lose answers; `BrowserRotationExclusive` spells one such result out.

The last theorem is about a browser with one tab (`OneTab`, which says that `Tabs` has no
two members); with two it is false. `Once` follows a token from the server to its use:
the tokens in storage, in the answer of a refresh and in that of a sign-in are
different and have not been presented, but for the stored one while the one flight
presents it or after a reload cut it off; a refresh that is not cut off is the only
one of its token, and the token has no successor before it is claimed.

### The catalogue (`Catalogue_proofs`)

Any sets of categories, products, images and calls, any limit of levels and any guard
of the walks above it (`CategoryAssumption`, `CatalogueAssumption`).

| Theorem | Statement |
|---|---|
| `ReadsStand` | `Spec => []Inv` |
| `TypeCorrect` | `Spec => []TypeOK` |
| `TreeIsKept` | `Spec => TreeStaysATree` |
| `OneIsPrimary` | `Spec => OnePrimaryStays` |
| `LedgersAreKept` | `Spec => HistoryIsKept` |
| `DepthIsBounded` | `Spec => DepthStaysBounded` |

The argument. `Inv` has the types, the foreign keys, that the images which were ever
added are finitely many (so that primary ones can be counted), and `readsHold`: what a
call that is not stale has read of the tree, of the images or of the stock history is
still so when it writes. Every step is of one of a few kinds (`StepKinds`): a call goes on
and writes nothing, or it writes one table and makes stale the calls that have read
it. `TypeOK` says nothing of calls and so holds however they overlap; the other
properties follow from what the write of a call that is not stale may rely on.

Walks up the tree are recursive functions on `0..Guard`. Induction is available in
one form: that numbers are well-founded is a first-order fact of the library, so every
set of numbers has a least one (`LeastNumber`), and a set that has 0 and successors has
them all (`NumbersInductively`). From that the function a walk recurses by exists (`WalkIs`), a
walk of i and j steps is one of i and one of j from there (`WalksCompose`), and two
trees that differ at c have the same walks until they reach c (`WalksAgree`).

`TreeIsKept` rests on `CircleThrough`: where c gets the parent t, a circle that closes
goes through c, so c was above t before; and that is what `collectDescendants` refuses, if
the tree is still the one it walked. `DepthIsBounded` turns the counts of `depthOf` and
`subtreeHeight` into places where walks end (`WithoutGaps`, `DepthIs`, `HeightIs`), and
adds them up: below t at depth D, a subtree of height H reaches D + H levels, and the code
has checked that D + H - 1 is within the limit. So one level too many is all there is.
No run checks `DepthStaysBounded`, since two categories cannot get too deep: it needs two
categories more than the limit has levels (TLC finds it true with three categories, a limit
of one level and no products, and with four and two).

## What is only model-checked

- Liveness (`EveryTransactionEnds`, `EveryEventSettles`, `WaitingEnds`): out of the prover's reach,
  as is anything with ENABLED.
- That the models' step sizes are those of the database: what is assumed about steps
  (under "Modules") is assumed, except for the stock, where `StockLocks` shows it.

## What is not modelled, and why

- Prices, totals, currencies and snapshots in orders; reasons, notes and names: no
  property here is about them. Listings and previews: they read.
- `payments`: the provider registry is empty, so no payment reaches PROCESSING.
- Notifications: `markRead` and the listings; the set of staff holding a permission
  is a constant; the provider is the in-app one, which stores.
- Verification: the LOG provider answers at once and changes nothing.
- Audit: an insert whose failure is swallowed; nothing reads it back.
- Sessions: the codes that verify an address (issue, consume) have the shape of the
  reset tokens. An access token lives until it expires, but each call reads the account
  anew. `Sessions` lets a call about an account come at any moment, `Accounts` says
  who may make it.
- Accounts: which permissions a role has (`setPermissions`), names, profiles.
- Catalogue: `isActive`, brands, specifications, prices, names and slugs, the order of
  images: they do not decide where a category hangs, which image is primary, or
  what may be deleted.
- Cart: the quota of lines (`cart.service.ts:205`): the code lets both of two overlapping
  calls in, so there is nothing to state; orders check the limit again.
- The panel beyond its session, and the shop: presentation of what the HTTP interface
  answers.
- The Python files under `src/scripts/` and `src/frontend/tools/`: they drive the deployed
  system or read its files, and keep no state that it relies on.
- HTTP guards, validation pipes and rate limits: actions are enabled for the inputs
  that pass them. Uploads, dashboard, slider: presentation or file I/O.

## Plan

Done, in this order: `OrderLifecycle`, `Inventory`, `Orders` with its abstract
specification; `Payments`; `NotificationOutbox`; `CustomerVerification`; `AtomicStock`
and `StockLocks`; `Sessions`; `Accounts`; `CategoryTree` and `Catalogue`;
`BrowserSession`. All have their safety properties proved.

Next:

1. `setPermissions` in `Accounts`, against the rule that nobody grants what they do not
   have.
2. `markRead` in the outbox.
3. The checkout of the shop, which repeats an order under the key it keeps.
