# A TLA+ model of the Laoji backend

The backend (NestJS on PostgreSQL, `src/src/`) takes an order from checkout to
the customer's door: the customer pays, the platform searches a vendor who
takes it, then a delivery partner ("rider") who carries it, and settles the
money between vendor, rider and platform. Around that stand the stores'
catalog and opening hours, the customers' wallets, and the accounts, documents
and phones of everybody concerned. There is one Node process and one database;
nothing locks a row across queries. So a handler is a series of awaited queries
with other handlers and timers between any two of them, and the few places
where a race is fenced off are a guarded `UPDATE ... WHERE status = 'pending'`,
a unique index or a database transaction. That is what the modules here are
about: **one action per awaited query**.

Paths such as `order.service.ts` are under `src/src/modules/<module>/`.

## 1. Inventory

| Part | State | Operations that change it | What is hard | What must be true |
|---|---|---|---|---|
| **Vendor allocation** (`allocation/`) | `allocation_attempts`, the order's status and vendor, timers in memory | `createAttempt`, `handleTimeout`, `handleRejection`, `handleAcceptance`, `reallocate`, `markFailed` | a timer races an answer; a search is started, cut short and restarted by other services; timers die with the process | one vendor is asked at a time, nobody is forgotten, the search ends, a failed order is refunded |
| **Checkout and pricing** (`order/`, `coupon/`, `vendor-discounts`, `revenue/`) | orders, voucher and discount counts, fee and payout ranges, revenue rules | quote, checkout of groceries and food, the admin's edits | limits counted before the order is inserted; checkouts sent twice | one order per key, limits kept, shares that add up |
| **Order** (`order/`) | `grocery_orders`, `food_orders`, their history, ratings | accept, reject, advance, correct, admin status, cancel, restore, change vendor, rate | each call reads the order, checks, and writes by id later | what is cooked is paid for and accepted by who has it; ratings count once |
| **Payment** (`payment/`) | `payments`, the order's `payment_status` and `wallet_amount` | `initiate`, `confirmByCustomer`, `reconcile`, `markRefunded`, `markRefundPendingIfPaid`, `restorePaymentStatusIfRestored`, `markCodCollected` | split payments; changing the method half way; two taps; cancelling in every state | the parts add up to the total, one payment is alive, money that was taken goes back once |
| **Wallet** (`wallet/`) | `wallets`, `wallet_transactions`, dated credits, scratch cards, withdrawals, commissions | sweep, debit, refund, adjust, scratch, reward, withdraw and decide, commission | sweeps and taps at once; read-then-write; two records of one amount | no money leaves without a row, credits are covered, a card and a referral pay once |
| **Delivery assignment** (`delivery/`) | `delivery_assignments`, the order's status and rider, SLA and retry timers | `triggerAssignment`, `handleTimeout`, `reassign`, `accept`, `reject`, `setOnline`, `updateLocation`, `adminAssignPartner`, `advance`, `verifyDelivery`, `adminCompleteDelivery` | location pings of all riders, timers, the admin and the vendor start and change one search | it keeps being offered until taken, its rider is the one on record, it is settled once |
| **Vendor withdrawals** (`revenue/vendor-withdrawal.service.ts`) | `vendor_withdrawals`, minimum limit | `request`, `approve`, `reject`, `updateMinWithdrawalLimit` | four reads before an insert; two taps; two admins | nothing is paid twice, periods do not overlap, a decision is final |
| **Catalog** (`catalog/catalog.service.ts`) | categories, products, listings, sizes, approvals | a store's and the admin's create, edit, list, approve, size, delete | Laoji's rows are templates: an edit copies, a deletion leaves copies behind | no store changes what another sells, what is sold can be found |
| **Stores and opening hours** (`catalog/`, `vendor-schedule.service.ts`) | vendor account, store, restaurant, menu, schedule state | profile, switches, hours, menu edits, deletion, the twenty-second tick | two switches in two tables; the tick against hands | closed by hand stays closed, the schedule is caught up with, both tables agree |
| **Accounts and sessions** (`auth/`, `user/`) | users, one-time passwords, refresh tokens, referral codes, addresses, riders' and vendors' rows | request and verify, log in, register, reset, refresh, log out, codes, addresses, the admin's user pages | rotation with lost answers; get-or-create by two calls; calls cut short | a code is used once, nobody is logged out for a retry, a code told is kept |
| **KYC** (`uploads/`, parts of `delivery/`, `catalog/`, `auth/` and `user/`) | documents, rolled-up status, mails | upload, delete, review, the admin's edits of riders and vendors, deletions of accounts | the status is recomputed after each write | verified means every mandatory document verified; whoever is rejected is told |
| **Notifications** (`notification/`, `job-queue.service.ts`) | device tokens, jobs in memory, log | register, remove, send, prune | a phone changes hands while a push is under way, or registers for two users at once | a token has one account; pruning drops no live token |
| **Dashboards, customers, area managers, banners, health, guards, cache** | – | records nothing else depends on, read-only aggregation, I/O | – | – |

How the parts call each other:

    sign-in, KYC ......... who may call, who may withdraw
    catalog, store hours . what can be put in a cart
    checkout -> PaymentService.initiate -- paymentSatisfied$ --> OrderService.handlePaymentSatisfied
        |  vouchers, discounts, fees                               | createAttempt
        v                                                          v
      WalletService                vendor accepts / rejects --> AllocationService <-- SLA timer
                                          | advance: preparing, ready, handed_over
                                          v
    DeliveryService.triggerAssignment <-- location pings, riders online, retry and SLA timers, admin
          | verifyDelivery
          v
    completeDelivery -> markCodCollected, settlement, scratch card, referral reward, commission
                     -> (vendor's earnings) VendorWithdrawalService
    cancel / failed  -> PaymentService.markRefundPendingIfPaid -> WalletService.refund...
    every event      -> NotificationService -> JobQueueService

`PROJECT.json` lists every component with what is modelled of it and, under
`hazards`, the places of this code that are hard to test, with the property
that watches each or the reason why none does.

## 2. Modules

| Module | Models | Abstract counterpart or reference |
|---|---|---|
| `Allocation` | the vendor search of one grocery order, with the handlers of order and payment that start, answer or cut it short | `VendorSearch` (refinement `SearchSpecAlone`) |
| `OrderPayment` | the money of one order: wallet, UPI, cash, split, cancel, refund, restore | – |
| `Delivery` | finding a rider for one order, and the delivery | – |
| `VendorWithdrawal` | vendor payout requests | `PayoutLedger` (refinement `LedgerSpecAlone`) |
| `Wallet` | one user's wallet: dated credits, cards, rewards, withdrawals, commissions | the sum of its rows (`NoSilentLoss`) |
| `Pricing` | distance ranges, revenue rules, discounts, vouchers and totals as pure operators | – |
| `Checkout` (EXTENDS `Pricing`) | quotes and checkouts of both kinds, with the limits they count and the admin's edits | – |
| `FoodOrder` | a food order after checkout, and ratings | – |
| `StoreCatalog` | categories, products and listings of Laoji and the stores | – |
| `OpeningTimes` | when a store is open and a dish is served, as pure operators | `OpenAsLongAsItLasts` |
| `Storefront` (EXTENDS `OpeningTimes`) | a store as customers see it, and the timer that opens and closes it | – |
| `Account` | sign-in, sessions, referral codes, addresses, users | – |
| `Kyc` | documents, reviews, the rolled-up status and its mails | – |
| `Notification` | device tokens, the job queue, pruning | – |
| `MC*` | instances for TLC, symmetry sets, history variables | |
| `AllocationProofs`, `OrderPaymentProofs`, `DeliveryProofs`, `WalletProofs` | machine-checked proofs (section 5), of one component each | |
| `FoodOrderProofs`, `VendorWithdrawalProofs`, `NotificationProofs`, `StorefrontProofs` | proofs of two components each, which share no variable: also of `Checkout`, `Kyc`, `Account` and `StoreCatalog` | |

The state that components share is modelled where both write it: `Allocation`
holds the payment row that starts and ends a search, `OrderPayment` the order's
life and the wallet's balance, `Delivery` the status that kitchen and admin
move, `Wallet` the payments and settlements that debit and credit it,
`Checkout` the payments and cancellations that make an order count, `Kyc` the
riders' and vendors' rows, `Storefront` the account a deletion ends. Where a
module needs another only for its outcome, that is one step: a rider takes and
delivers a food order, a payment succeeds.

### How code becomes actions

* In `VendorWithdrawal`, `Allocation`, `OrderPayment`, `Delivery`, `Wallet`,
  `Checkout`, `FoodOrder` and `Notification` a handler in progress is a record
  in `run[h]`, `req[s]` or `call[h]`: `at` (or `pc`, `step`) names the query it
  is about to make, the other fields what it has read or been given. A step
  between two `await`s is local and belongs to the query before or after it.
* In `StoreCatalog`, `Storefront`, `Account` and `Kyc`, whose handlers are many
  and mostly straight, a call makes its reads and checks in its first step, which leaves a
  list `todo` of the queries still to come (in `call[h]`, `request[h]`,
  `edit[h]`); `Query(h)` (`RunQuery(h)` in `StoreCatalog`) runs the next one, and
  a query that reads again, or that decides what follows, replaces the list. So
  the order of the writes, and every other call's writes between them, are kept.
* Where several queries are one action, it is because nothing else writes what
  the later one reads, or they are in one database transaction, or a
  `Promise.all`, whose queries then are actions in any order.
* A call that its first reads refuse changes nothing: a stuttering step.
* A guard of an `UPDATE` (`WHERE id = ? AND status = 'pending'`) is a guard of
  the action; an `UPDATE ... WHERE id = ?` has none, whatever has become of the
  row since it was read. A unique index or a foreign key is checked by the
  query that meets it, and ends the call. The models keep these apart everywhere.
* In-memory timers are a set (`timers`), a flag (`retry`), a set of jobs
  (`job`) or the tick's own slot. `Restart` (`Cut`, in
  `StoreCatalog` `EditCut`, in the modules with `todo`)
  empties them and ends the handlers with what they have done.
* Choices that only rank (which eligible vendor is cheapest, which rider
  nearest) are nondeterministic. Who is *eligible* is modelled where it depends
  on modelled state.
* `Calls` (`Offered`) says which calls a run makes; the passing runs fire every
  action of every module.
* Operators marked `Mutant:` are plausible bugs of the definition next to them.
  They are used by no specification; substituting one for its neighbour breaks
  the property named in `PROJECT.json` under `mutants`.

### What stands for what

`VendorWithdrawal`: `earned[v]` is the sum of `settlements.vendor_payout`,
`totals[v]` the sums of request rows by status, `now` the number of settlements
written so far, which is the clock of a period. `Insert` is guarded by
`vendor_withdrawals_one_pending_idx`; when it is taken, `InsertConflict`.

`Allocation`: `order` is the row (status, vendor, payment status, and in
`prices` whose prices its subtotal and total are made of), `payment`
the status of its payment row, `attempts` the `allocation_attempts` in order of
insertion. The payment row and the order's column, written by consecutive
queries, change together here (`OrderPayment` takes them apart). All statuses
from `vendor_accepted` to `handed_over` are one. `target` remembers that
`handleRejection` was called by `changeOrderVendor`, which goes on when it
returns.

`OrderPayment`: `rows` are the `payments`, `balance` the wallet, `paid` and
`refunded` the sums of the order's wallet transactions, from which
`refundWalletPortion` computes what to give back. `Prices` is what the order
costs at each vendor, `total` what it costs at the one that has it, whom
`Reallocate` (the vendor search) changes. `placed` is every live
status, `cancelled` also `failed`.

`Delivery`: `offers` are the `delivery_assignments`; `declined` is both
`timeout` and `rejected`. `waiting` is vendor_accepted to handed_over. `full`
are riders that carry `MAX_CONCURRENT_DELIVERIES` other orders. `todo` are the
offers `setOnline(false)`, a timeout or the admin still has to drop, one after
the other.

`Wallet`: `txs` are the rows of `wallet_transactions`; a dated credit has what
is left of it (`remaining`) and its last day. `day` is the date; nothing
happens at a finer time.

`Checkout`: `orders` are grocery and food orders in one list, `redeemed` the
discount redemptions by customer; a cart is its price, vendor, category and
distance. Amounts are whole rupees.

`FoodOrder`: `timeline` keeps the last `order_status_history` row, `accepted`
the restaurant the order was last accepted for, `offered` the orders with a
pending `delivery_assignments` row, `average` is `rating_avg` in
tenths, rounded as the code rounds it.

`StoreCatalog`: `tables` are functions from ids to rows; one sequence of ids,
`FirstId` the last one given out at the start, serves all of them, since no id is
used across tables. A name is a model value; two rows with one name are what the
code's matching by name and unit is about. The sizes of a listing
change together, new ones drawing their ids in some order. `Storefront`: `db`
likewise; a week has `Days` days of `MinutesPerDay` minutes.

`Account`: `device` is the refresh token an app holds, since when it has been
tried; the answer that brings a new one may be lost. Whatever revokes a user's
tokens is there: the deletions by the user, the vendor and the three admin pages,
and the admin's reset of a vendor's password. An input (code, password)
is the right one or not. `Kyc`: users are merchants and riders; `screen` is what
the admin has loaded, `mailed` the last mail a user got. `Notification`: `row` are the `device_tokens`, an installation's
token dies when the app is installed again.

## 3. Properties and runs

Each module that TLC checks has one run; the cfg holds its bounds:
`tlc -config <run>.cfg MC<module>`. A property whose name ends in `Alone`, `Up`,
`Calm` or `Left` holds for the behaviours its history variable describes (below)
and is checked over all of them.

**`VendorWithdrawal_requests`** - two taps of one vendor, with admins,
settlements and limit changes between their queries. As long as the taps have
not overlapped: `NeverOverdrawnAlone` (approved plus pending never exceeds
earned), `PeriodsDisjointAlone` (no order is shown as paid by two approved
requests), `LedgerSpecAlone` (the service implements the ledger of the payout
screen). The theorems of section 5 lift every bound.

**`Allocation_search`** - three vendors, two attempts, UPI and cash, every call
of customer, vendor and admin, and a restart at every query. `AttemptsBounded`;
`NoLostTimerUp` (a pending attempt has a timer or a handler that will see to
it); `WithItsVendorAlone` (a paid order waits for a vendor, at most one holds it,
an accepted one belongs to the vendor whose acceptance is on record, at its
prices);
`FailedIsRefundedAlone` (what is given up is in the refund queue); left to vendors
and timers, `SearchSpecAlone` (it implements `VendorSearch`: one holder at a
time, nobody asked twice, given up only when nobody holds it) and `SearchEndsUp`
(it ends). The run has one handler at a time, except that `changeOrderVendor`
runs another inside; the theorems are about any number.

**`OrderPayment_calls`** - two calls interleaved at every await, every call,
errors of the provider included. Always: `NeverNegative` (the guarded debit),
`PaidStays` (only the admin who reconciles a payment as failed drops a paid
one). One call at a time: `FullyPaidAlone` (the wallet's part and the latest
payment make up the total the order had when that payment was begun, whatever the
vendors found later ask), `OneLivePaymentAlone`, `CancelRefundsAlone` (when a
cancellation has ended the wallet has its part back and no payment is `paid`).

**`Delivery_serial`** - every call, riders that fill up and free again, restarts,
changes of vendor, one handler at a time. While `calm`: `NeverForgottenCalm` (an
order without a rider has an offer, a retry timer or a handler at work; section 5
proves it for handlers that overlap, too) and `KeepsOfferingCalm` (while some
rider stays available, an order is offered again after each refusal). While also
`alone`: `HeldByItsRiderCalm` (the rider on the order is the one whose acceptance
is on record) and `SettledOnceCalm` (a delivery is settled once, disturbed or
not never twice).

**`Wallet_races`** - two calls on one wallet, of the user, the admin, orders and
sweeps, interleaved at every query and transaction, with a date that turns.
`NoSilentLoss` (between calls the balance is at least what its rows add up to),
`RewardedOnce` (a referred friend), `CardPaysOnceLeft`, `CreditsCoveredAlone`
(an expiry never takes money another credit promises).

**`Checkout_limits`** - two checkouts of groceries and food at every await, paid,
cancelled and restored, with edits of vouchers, discounts, rules, ranges and
offers between. `OneOrderPerKey` (a checkout sent twice), `LimitsKept` (limits
are exceeded by no more than the checkouts that overlap, which is all that
counting before inserting gives).

**`FoodOrder_races`** - two handlers at every query, with payments and riders
between. `ServedProperlyAlone` (what is cooked is paid, accepted by the
restaurant that has it, and its timeline ends with its status, except for what a
rider takes after it was cancelled or moved), `RatingsCount`
(an order is rated once; one handler at a time, averages are of all ratings).

**`StoreCatalog_copies`** - two calls of a store and the admin, interleaved and
cut short at every query. `FoundAlways` (what is sold is in a category that
exists, visible to whoever sells it; one call at a time, a store makes one copy
of a template), `OthersUntouched` (no call of a store changes what is not its
own), `StoresKeepSelling` (what stores sell survives the admin's deletion).

**`Storefront_hours`** - two calls of vendor, admin and customers, the tick, the
clock and one call cut short. `ClosedStaysClosed`, `SwitchesAgree` (the store's
and the restaurant's switch differ only where the vendor last switched the
restaurant alone, or where it was made, open, for a store that was closed), and
under fairness `FollowsSchedule` (the timer catches up, whatever was missed).

**`Account_sessions`** - two calls of every sign-in, session, code, address and
user-management endpoint and of the resets and deletions by the vendor and rider
pages, with a customer and a vendor signed in, answers lost twice. `ToldCodesStay`,
`EnrolledHasProfile` (a call cut short is made good by the next sign-in),
`CodeUsedOnce`, `NotLoggedOut` (an app is signed out only for a token it has
retried for as long as the grace period, with its account, or after an admin has
set the vendor's password).

**`Kyc_review`** - two calls of uploads, deletions, reviews, the admin's edits
and the deletions of an account by its user or an admin, of a vendor, a rider
who is verified and has carried orders, and one who is not there yet.
`Verified`, `RejectionTold`: what the rolled-up status and the last mail say is
what the documents say, unless an admin has said otherwise or the account was
deleted since.

**`Notification_push`** - two phones, two users, two registrations at once (of
one phone, too, for which a user has signed in, out and in again), jobs,
installations and a restart at every step. `OneAccountPerDevice`: a token has one
account, unless two were registering it at once and none has registered it by
itself since. `LiveTokensStay`: pruning drops no token of an installed app.

### History variables

The MC modules add variables that remember what has happened. They read the
state and never restrict it, so one run checks what holds always beside what
holds only in an undisturbed behaviour, over the same states.

| Variable | Module | TRUE (or a member) while |
|---|---|---|
| `alone`; `oneRun`, `oneCall`, `oneEdit` | all but `MCNotification`; so called in `MCCheckout`, `MCKyc`, `MCStoreCatalog` | handlers have not overlapped (in `VendorWithdrawal`: of one vendor; in `Allocation`: nor has one run inside another; in `FoodOrder`: nor has a payment or a rider changed an order under one) and, in the modules with `todo`, none was cut short |
| `whole`, `up`, `waterfall` | `MCAllocation` | no restart has cut a handler short; the process has not restarted; no admin and no customer has called |
| `calm` | `MCDelivery` | no restart or vendor change so far, and no cancelled order taken up again (restored, or given a status or a rider by a handler that began before) |
| `taken` | `MCFoodOrder` | (a member) orders a rider accepted though they were cancelled, failed or waiting for a restaurant, as long as they are then served |
| `restored`, `priced` | `MCOrderPayment` | becomes TRUE when a cancelled order was taken up again; the total that the latest payment was made from (both as long as `alone`) |
| `dated`, `revived` | `MCWallet` | nothing was paid in full past the credits; TRUE once the admin revived a card |
| `edited`, `revived` | `MCCheckout` | TRUE once an admin changed a limit; once a cancelled order was restored |
| `forced`, `switched` | `MCStorefront` | stores closed by hand since their last opening time, unless they were deleted; restaurants last switched on their own, or made, open, when their store was closed, and followed by no switch since |
| `told`, `enrolled`, `accepted`, `ended` | `MCAccount` | codes users were told; riders and vendors who were let in; calls a code let in; users whose account a deletion, or whose sessions a reset, has begun to end |
| `mixed` | `MCNotification` | tokens that two accounts were registering at once, until one takes the token while no other registers it |
| `byHand`, `emptied` | `MCKyc` | users whose status an admin has set since it was rolled up, at the start also those whose status is not what their documents make it; users whose documents the deletion of their account has taken since |

### Fairness

Three properties are liveness properties. *Weak* fairness of each handler's
next query (`Allocation`, `Delivery`): Node runs every continuation whose query
has returned, and a query returns. *Strong* fairness of each armed timer:
`setTimeout` fires it whatever else happens; it has to be strong only because a
timer needs one of the model's few slots, and other calls may keep taking them,
a limit the process does not have. In `Storefront`, whose tick has a slot of its
own, weak fairness of the tick's read and of its queries: `setInterval` fires
every twenty seconds. Nobody is assumed to press a button: answers, pings and
calls carry no fairness. So `SearchEndsUp` says that the search ends by its
timers alone, and `KeepsOfferingCalm` that refusals alone cannot strand an order.

### Bounds

Bounds are constants marked `bound` where they are declared: `MaxRows` (rows of
an order), `MaxSettled`, `MaxSettlements`, `MaxTaken` (no payment starts once
the wallet was debited this much), `LastDay`, `MaxClock`, `MaxCalls`, `MaxEdits`,
`MaxCuts` (calls cut short), `MaxOrders`, `MaxEvents`, `MaxIds`, `MaxStock`, `MaxSignIns`,
`MaxReinstalls`, `MaxJobs`, `MaxRestarts`. Only the guards that name them have no
counterpart in the code. They are small, and enough for what the properties are
about:

* two slots: every race here is between two handlers; the modules that are
  checked with one slot have their races proved (`Allocation`, `Delivery`).
* three vendors and two attempts make both ways to fail (nobody left, attempts
  used up) happen, and the third row a restore or a vendor change on top.
* two rows of a vendor: two approved periods, or a second request after a refusal.
* two riders, three offers: refusals, a second round, an admin's assignment.
* a total of 2, then 3, and a wallet of 2: the wallet pays all, part or nothing,
  as the customer chooses and the vendor search goes.
* two to four calls: a call that prepares, two that race, and in `Wallet` and
  `FoodOrder` one that observes. In `Wallet` a credit of one day's validity, a
  sweep the day after, and a payment between.
* two or three apps, two phones, two codes: a collision of drawn codes, a phone
  with two roles, a device signed in twice.
* two uploads of one kind and two kinds that are mandatory.

At a bound a handler waits and calls stop, so `CHECK_DEADLOCK` is off where a
behaviour ends that way. The liveness properties speak only of rows below the
bound (`KeepsOfferingCalm`), of runs that never reach it (`SearchEndsUp`), or of
the timer, which no bound holds up. Symmetry is used in runs without liveness
properties only.

## 4. Where the code and its texts disagree

Each of the properties below is a statement of the repository, or follows from
one, that the model of the code does not keep. Each module's
`<Module>_divergences.cfg` lists its own. All of them fail: keep one at a time
and run `tlc -config <Module>_divergences.cfg MC<Module>` for the shortest
counterexample (the last one below, in a module without such a file, in the
configuration it names). They are not part of the list of runs, which is of what holds.

| Module | Property | What happens |
|---|---|---|
| `VendorWithdrawal` | `NeverOverdrawn` ("a vendor can't request the same money twice", `vendor-withdrawal.service.ts:35-37`) | two taps pass the open-request check; one is inserted *and approved*; the other inserts the balance it had read. The unique index sees pending rows only |
| `Allocation` | `OnePending` ("If there is any pending allocation attempt for the old vendor, cancel it", `order.service.ts:1760`) | `handleRejection` cancels it and asks a third vendor, whose attempt stays pending beside the new vendor's |
| | `OneFirstAttempt` ("don't create multiple attempts for the same order", `order.service.ts:932`) | customer and admin confirm one payment at once |
| | `ResolvedOnce` ("already resolved by accept/reject", `allocation.service.ts:138`) | the SLA handler reads a pending attempt, the vendor accepts, the handler writes `timeout` and reallocates |
| | `RestoredFirst` ("a cancelled/failed order has to be restored first") | the attempt of a cancelled order stays pending; its vendor's acceptance revives the order |
| | `NoOrphanAttempt` ("it would create orphaned allocation rows") | `reconcile` guards against a cancelled order, `confirmByCustomer` does not |
| | `AskedIsPaid` ("a real order only once payment is satisfied") | restoring an unpaid order asks a vendor |
| `OrderPayment` | `FullyPaid` | cancelling a split order gives the wallet part back; restoring it does not take it again. Two taps do it too; and a vendor with other prices, found after the payment, changes `total` (`allocation.service.ts:196-200`) and nobody charges or refunds the difference |
| | `OneLivePayment` ("Retrying the same way reuses the payment") | two `initiate` calls insert two live payments |
| | `NotOverRefunded` ("Puts back whatever the wallet still holds for this order") | two calls read one net amount and both give it back |
| `Delivery` | `SettledOnce` ("settlements exist exactly once per OTP-verified delivery") | two completions at once write two |
| | `HandedOverAlone` ("any pending offer is dropped") | a search in progress adds its offer after the admin's assignment has dropped the others |
| | `RestoredFirst` | an acceptance in progress revives an order cancelled meanwhile |
| | `OffersCycle` ("once every online partner has been tried, we cycle") | after the first round two riders alternate; the third is never asked again |
| `Wallet` | `NeverOverdrawn` ("Insufficient wallet balance") | two withdrawals compare the same balance; the deduction has no guard |
| | `CardPaysOnce` ("a card can only ever pay out once", `schema.ts`) | the admin restores a card that was scratched |
| | `CreditsCovered` | a payment in full takes the balance and leaves the dated credits unspent: their expiry takes other money |
| `Checkout` | `DiscountWithinLimits` ("Total redemptions limit across all customers", `schema.ts:1079-1083`) | both checkouts call `calculateItemDiscount` with order id 0 (`order.service.ts:331`, `557`), so no redemption is ever recorded |
| | `FirstOrdersOnly` ("Valid only on the customer's first N orders") | two orders are placed while neither is paid, and both go through as the first |
| `FoodOrder` | `AverageOfAll` | two ratings at once: the older average is written last |
| | `AcceptedByItsRestaurant` | the restaurant's acceptance has passed its check, the order is moved, and the acceptance is written for the new restaurant |
| | `TakenInTurnAlone` ("A cancelled/failed order has to be restored first", `order.service.ts:1455-1456`) | `accept` asks only for a pending assignment (`delivery.service.ts:701`); cancelling leaves it pending, and moving an order ends it only if a rider is on it (`order.service.ts:1710`). A rider who accepts then has a cancelled order, or one its new restaurant has not seen, `delivery_assigned` |
| | `CookedOrdersListed` ("what the vendor still has to act on") | an order its restaurant has accepted leaves the screen as soon as a rider is assigned, handed over or not |
| `StoreCatalog` | `CheapestShown` ("the cheapest vendor that has it in stock") | the first listing's price is kept, whichever is cheaper or in stock |
| | `OneCopyPerTemplate` ("at most one per vendor", `schema.ts`) | two calls at once each find no copy and make one |
| | `OwnProductsMove` ("vendor-owned products pointing to these categories move", `catalog.service.ts:568-569`) | the products of the categories are deleted before that (562-566), the stores' own among them |
| `Storefront` | `SearchOnlyOpen` ("that are open now") | `vendorsInRadius` does not ask whether a store is open, so a closed restaurant is found |
| | `NoOrderIsStranded` ("Cannot delete account while you have active orders") | an order is placed between the check and the deletion |
| | `RestaurantSelfHeals` ("A restart or missed tick self-heals", `vendor-schedule.service.ts:20-21`) | the tick writes the store, then the restaurant (69-73); cut between them, the next tick sees nothing due |
| `Kyc` | `ActiveHasDocuments` (`allMandatoryVerified`, `uploads.service.ts:192-194`) | the deletion of an account takes the documents (`auth.service.ts:885`, `catalog.service.ts:361`, `3519`, `user.service.ts:288`, `delivery.service.ts:1222`) and leaves the row `verified` where it is kept; an admin who takes the account up again has a verified vendor or rider without any |
| | `VerifiedAtOnce` | two reviews at once: the status rolled up first is written last |
| | `JudgedAsSeen` | a document is uploaded again between the admin's look and his decision, which is by id |
| `Notification` | `OneAccountAlways` ("so previous accounts on this device don't receive pushes", `notification.service.ts:31-32`) | one user's registration has read the row it will write, another user of the phone takes the token and writes it, the first is written too. `Notification_push.cfg` with this invariant shows it |

Smaller things met on the way, which no property states: two sweeps at once
deduct one credit twice; a restart between the two writes with which a search
gives up leaves the payment `paid` on a failed order (`allocation.service.ts:213-228`);
a tick that has read a store as due opens it over a closing by hand in between
(`vendor-schedule.service.ts:66-72`); a vendor's app that asks for a new token within the
grace period after the admin's reset gets one, though "existing sessions are
revoked" (`catalog.service.ts:3326-3327`); two address calls at once can leave two defaults; the
use of a newer one-time password leaves an older one usable until it expires;
the admin's `updateUser` writes back every field it read; deleting the rejected
document of a user makes the status verified without a mail; `restoreOrder`
writes the payment status it read at its start; a cart's options are dropped
silently once a dish was saved again, because its variants get new ids; a
force-closed store whose whole closed period the tick misses stays closed; a
search that gave up on an unpaid, restored order can still be paid afterwards
and stays failed and paid; an order whose vendor the admin changes keeps the
subtotal and total of the old one (`order.service.ts:1770-1775`); a change of
vendor that is refused, because the order is with that vendor already, has ended
the rider's acceptance and left the rider on the order (`1709-1749`).

## 5. Proofs

`tlapm` checks the following for all values of the constants, that is for any
number of vendors, handlers, rows and amounts. Every invariant and every action
property of the runs is the conclusion of one of these theorems, with the
hypothesis named where there is one; the liveness properties are not.

`VendorWithdrawalProofs`
* `TypeCorrect`, `AtMostOnePending`, `DecisionsAreFinal` - unconditional. The
  inductive invariant is `TapInv`: `OnePending` and `TypeOK` are not inductive
  without `PendingIsHeld` (a vendor's pending sum is the amount of the one
  pending row, so deciding it never makes the sum negative) and
  `InsertIsAcceptable` (a call about to insert carries an amount its own reads
  allowed).
* `SerialNeverOverdrawn`, `SerialPeriodsDisjoint`, `SerialLedger` - as long as
  no vendor has had two calls at once, which is what
  `VendorWithdrawal_divergences.cfg` shows to be necessary. `SerialInv` adds
  that what a call has read is still true of the vendor when it inserts
  (`ReadsStayValid`: nothing pending, earnings only grew, committed unchanged),
  that its period starts after every approved one (`StartFollows`), and that a
  pending one does (`PeriodsFollow`). `SerialLedger` maps each step to one of
  `PayoutLedger` or a stutter.

and of `Kyc`:
* `VerifiedMeansDocuments` (`MCKycSpec => []Verified`), `RejectedWereTold`
  (`MCKycSpec => []RejectionTold`) - as long as calls do not overlap and none is
  cut short; `Kyc_divergences.cfg` shows that two reviews at once break the first.
  `KycInv` says that at most one call is in progress, that everybody it is not
  about is `Settled` (his status is what his documents make it, whoever has a
  rejected one was told), and, by what is left of its list of queries, what the
  call still owes its own user (`InProgress`): before the documents are read
  again, that the mail of a rejection is still to come or not due; then that what
  it has read is what there is (`Counted`); before the mail, that the status is
  written.

`AllocationProofs`
* `TypeCorrect`, `NumbersBounded` - from `SearchInv`, which adds `Grounded`: a
  handler about to use an attempt or a vendor has read or been given one.
* `TimersKept` (`MCSpec => []NoLostTimerUp`) - for as long as the process runs,
  since a restart loses every timer. The argument: an attempt is inserted by a
  handler that arms its timer next; a timer is taken away only by a handler
  that holds the attempt and whose next query resolves it, or in the very step
  that does.
* `OneVendorAtATime` (`MCSpec => []WithItsVendorAlone`) and `GivenUpIsRefunded`
  (`MCSpec => []FailedIsRefundedAlone`) - as long as no two handlers overlap and
  no restart cuts one short. What holds between handlers is broken inside one,
  so the invariant says, for every query a handler may be about to make, what it
  has already made true and what it still owes: before the next vendor is asked
  nobody holds the order, before the acceptance is copied to the order its
  attempt is accepted, before the refund the payment is still there.
* `SearchImplemented` (`MCSpec => SearchSpecAlone`) - each query of a search left
  to itself is a step of `VendorSearch` or leaves its variables alone.

`DeliveryProofs`
* `TypeCorrect` - from `RiderInv`, which adds `Grounded`: the offer, rider and
  list of offers a handler is about to use exist, and only the steps that will
  work on such a list have one.
* `OffersKept` (a pending offer has a timer or a handler) - assumes
  `"restart" \notin Calls`. As in `TimersKept`, with one more way to be taken
  care of: an offer may be on the list a handler is still to drop, which it
  passes on through the search of the next rider (`Continues`).
* `NoOrderForgotten` (`MCSpec => []NeverForgottenCalm`) - however handlers overlap,
  with every call; a late write over a cancellation ends `calm`. `OfferedInv` adds
  what `NeverForgotten` rests on: an acceptance on record means a rider on the
  order or about to be put there (`AcceptedIsHeld`, which is why
  `triggerAssignment` may stop at one), and an order without a rider is waiting
  or cancelled for good (`WaitsOrCancelled`, `WritesInTurn`).
* `HeldByWhoAccepted` (`MCSpec => []HeldByItsRiderCalm`) and `SettledOnceAlone`
  (`MCSpec => []SettledOnceCalm`) - as long as handlers have not overlapped, for
  any number of slots: a late write breaks both, as `Delivery_divergences.cfg`
  shows. `SoleInv` has them in `alone` behaviours. Of its parts, `SerialInv` says
  what is on record in every behaviour, restarts included (a pending offer
  excludes a retry timer and a rider, a settlement a second one), and `CalmInv`
  what an undisturbed one adds, each but for the queries a handler still has to
  make.

`OrderPaymentProofs`
* `TypeCorrect`, `WalletNeverNegative`, `PaidNeverDropped` - however calls
  overlap, from `PayInv`, which adds `Grounded`: the payment a call is about to
  use exists, what it took from the wallet is at most the total when the rest is
  computed, and it goes on with a step it has prepared. A paid payment is safe
  because the drop of an abandoned one is guarded by its status in the same
  `UPDATE`.
* `OneLivePaymentServed` - one call at a time, which
  `OrderPayment_divergences.cfg` shows to be necessary. `SoleRows`: all payments
  but the latest have failed; a call on its way to a new one (`Replacing`) has
  found or made them all failed; the row a call has read is still the latest.
* `FullyPaidServed` - one call at a time and nothing restored. What is paid is the
  total the payment was begun with, `priced`, for any number of vendors and any
  prices. `Money` says what
  is known of the sums at every step of a call. Between calls (`Settled`): the
  order's wallet part is what the wallet gave and has not got back (`Net`), with
  a live payment it makes `priced`, without one it is zero and the order is not
  marked as paid. In a call each step owes what the next ones restore: after the
  debit `Net` is the amount the call carries, after a drop or an error of the
  provider `Net` is what `giveBack` is about to return.
* `CancellationRefunds` (`MCSpec => CancelRefundsAlone`), an action property -
  one call at a time, orders that were restored included, for which `Money` does
  not hold. `Accounts` is weaker and enough: whatever was given back or not, the
  order's wallet part is what the wallet still has in it (`Balanced`), and a
  cancellation that ends returns just that.

`FoodOrderProofs`
* `TypeCorrect`, and half of `RatingsAreCounted`: an order is rated once however
  handlers overlap, since the insert of a rating meets the unique index.
* `ServedProperly` (`MCSpec => []ServedProperlyAlone`) and the other half of
  `RatingsAreCounted` (`MCSpec => []RatingsCount`) - as long as handlers do not
  overlap. `WorksInv` says what a handler goes on to write: an accepted status
  only for a paid order and for the restaurant it is with, or for one that a
  rider has `taken` (`Going`), the history
  row of the status it has just written (`Told`), the average of the rows it has
  read with its own among them (`Counted`). The average is a sum over a set whose
  value the proof never needs: it has been computed from all rows or not.

and of `Checkout`:
* `KeysPlaceOneOrder` (`CheckoutSpec => []OneOrderPerKey`) - however checkouts of
  one customer overlap: the key is looked up before anything is priced, and again
  by the unique index when the row is inserted; nothing rewrites an order's
  customer, kind or key. `CheckoutInv` is little more than the shape of rows and
  runs.
* `LimitsAreKept` (`MCCheckoutSpec => []LimitsKept`) - for any number of runs,
  customers and codes. A limit is read in one query and used up in a later one,
  so `LimitInv` counts both: the orders that count against a limit and the runs
  that were found within it and have not inserted yet (`CodeTakers`, `UserTakers`,
  `FreeTakers`) are together no more than the limit and `Slack`, which is nothing
  while one checkout runs at a time and one less than the runs there can be
  otherwise. A run that is found within a limit finds less than the limit
  counted; all others may be takers as well, which is where `Slack` comes from. An
  order that fails or is cancelled only lets go of what it used. After one was
  taken up again, or a limit changed, `LimitsKept` says nothing (`revived`,
  `edited`).

`WalletProofs`
* `RewardsAreClaimed` (`Spec => []RewardedOnce`) - in every interleaving. The
  guarded claim of the referral makes its row in the same transaction, so every
  reward on record is claimed (`WalletInv`), and no other step writes a row's
  type or reference.
* `CardsPayOnce` (`MCSpec => []CardPaysOnceLeft`) - `CardInv`: once a card has
  paid, its status is one that no scratch accepts, unless the admin revives it.
* `NothingLost` (`Spec => []NoSilentLoss`) - in every interleaving of any finite
  number of calls. `NoSilentLoss` says something only between calls; `MoneyInv`
  says it in the middle of them: the balance is at least what the rows add up to
  plus what each call has done and not yet recorded, or recorded and not yet done
  (`Lag`). That takes what a call knows of the rows it is about (`CallMeans`): the
  request it decides has its amount, the row of a withdrawal is not yet written
  and nobody else is about to write it, the commission it turns into money still
  has its amount. An expiry takes less than its row says where the balance stops
  at zero, hence "at least". The sums are over the rows and over the calls; that
  a term more adds its value (`SumGrows`) and a term that changes adds the
  difference (`SumChanges`) is proved from a smallest set for which it fails
  (`Minimal`), since induction over the size is out of reach.
* `CreditsAreCovered` (`Customer => (MCSpec => []CreditsCoveredAlone)`) - as long
  as calls do not overlap and nothing is paid in full past the credits.
  `CoverInv` says that what is left of all credits, overdue ones too, is in the
  balance between calls, and `Fits` what becomes of that in the middle of the one
  call in progress: a debit is still to be used up (`readCredits`), a plan is
  partly carried out (`Planned`, which `UseCredit` leaves as it is), a sweep has a
  list of all that is overdue, each with what it still has. A debit may take more
  than the valid credits hold; then only overdue ones are left, and the sweep that
  follows takes no more than there is (`Enough`). That the first-in-first-out
  split takes exactly the debit, or all there is, is proved by prefixes of the
  order of expiry (`FifoIsEnough`): the sum taken from a smallest prefix for which
  it fails is that of a smaller one and of its last credit. `Customer` is needed:
  for a vendor a debit uses up no credit.

`StorefrontProofs`
* `WindowsExact` - a meal window, past midnight or not, is open for exactly as
  many minutes as lie between its start and its end, from its start on.
* `StaysClosed` (`MCSpec => []ClosedStaysClosed`) and `TablesAgree`
  (`MCSpec => []OpenEverywhere`: the half of `SwitchesAgree` that says that an
  open store has an open restaurant; the other half is only model-checked) - as
  long as calls and ticks do not overlap and none is cut short. The calls are lists of queries, so `FrontInv` has an
  invariant on every list a call may still have (`Script`): a query that opens a
  store is followed by the one that opens its restaurant (`Opens`), one that
  switches a restaurant follows one that switched its store (`Paired`), and so
  after any prefix is done. `InStep` relates a list to the tables: the next
  query is right for what is there (`Right`), a store is open only if its
  restaurant is or the list says so (`Agrees`), a store closed by hand is one
  that no tick, begun or not, will open (`Stays`, `Ticks`). `References` (the
  foreign keys) keeps a deleted store from leaving a restaurant behind.

and of `StoreCatalog`, all under `~AdminStrays`, that is as long as the admin
gives a store only what is its own or Laoji's. His endpoints do not insist on
it; where he does otherwise a store owns a row that refers to another store's,
and TLC finds `FoundAlways` and `OthersUntouched` violated at once. For
`StoresKeepSelling` it does not; there the hypothesis is what the proof needs.
* `CatalogInvHolds` (`CatalogSpec => []CatalogInv`) - whatever overlaps or is cut
  short. `CatalogInv`: there is a function `own` that says of every id drawn so far
  whose it is, and forever; each row is its owner's and refers to rows of the same
  owner or of Laoji (`TablesAre`), and so does every query that a call has yet to
  run, whether it writes (`Writes`) or reads to go on (`Reading`). It speaks of
  `own` and not of the tables because a row a query is about may be gone by then,
  or not be there yet. Each call is shown to start with such a list for the ids it
  draws (`Ready`), each query to leave one.
* `StoresFindWhatTheySell` (`MCCatalogSpec => []FoundAlways`) - what is sold is in
  a category that exists and is the seller's or Laoji's, from `TablesAre`. That a
  store has one copy of a template, one call at a time, is `SoleInv`: a query that
  makes a copy is the first of its list, and was put there by a read that found
  none (`Spare`).
* `OthersStayUntouched` (`MCCatalogSpec => OthersUntouched`), an action property:
  each query of a store's call writes rows that `own` gives to that store.
* `StoresDoKeepSelling` (`MCCatalogSpec => StoresKeepSelling`), an action property
  - one call at a time. `SellInv` says how far the deletion of a Laoji product has
  come (`Phase`): which listings still point to it, that just these are on its
  list, and that a copy about to replace it for one of them has its name, unit
  and switch.

`NotificationProofs`
* `OneAccount`, `LiveTokensKept` - however calls overlap and whenever the process
  restarts, from `TokenInv`. `Registers` says what a registration under way may
  rely on: once the rows of other accounts are gone no other account writes that
  token again, unless it registers it as well (`MixedAreMixed`), and the row it
  has read is still of its user.
  `DeadAreGone`: a token called dead never comes back, because tokens are not
  given out twice. That a prune drops no live token rests on it alone; the
  rows may have changed in between as they like.

and of `Account`, each however calls overlap and wherever they are cut short,
except `CodesLetInOnce`:
* `ToldCodesKept` (`[]ToldCodesStay`) - a referral code that a user was told, or
  that a call in progress is about to tell, is in the row (`CodeInv`): codes are
  written by an `UPDATE` guarded by the empty column, and a call tells what it has
  written or read there.
* `EnrolledAreListed` (`[]EnrolledHasProfile`) - a call that lets a rider or
  vendor in looks for the row and adds it if need be before it ends (`EnrolInv`);
  only the deletion of the user takes it away.
* `CodesLetInOnce` (`[]CodeUsedOnce`) - one call at a time: no more are let in
  than codes were used, have expired or are about to be marked by the one call
  (`SpentInv`, which also has the unique indexes and foreign keys, `Valid`).
* `StaySignedIn` (`MCAccountSpec => NotLoggedOut`), an action property.
  `SessionInv`: the token that an app holds is its own, and is live, or was
  revoked no earlier than the app first tried it, or belongs to an account being
  deleted or a vendor whose password an admin has set (`KnownToken`); a token about to be handed out is live and no one
  else's; and a call that is to revoke an app's token was made by that app. So a
  refusal means that the grace period since the first try is over.

The assumptions on constants are the `ASSUME`s of the modules; none bounds a
set. `AllocationAssumption`, `DeliveryAssumption` and `FoodOrderAssumption` keep
the value for "nobody" out of the sets of vendors, riders and restaurants, as
NULL is no id; `WalletAssumption` has finitely many calls at once, as any
process has; `FirstTables` says of the database `Storefront` starts with what
its foreign keys enforce, and that a store and its restaurant are both open or both closed.
`AccountAssumption` and `StoreCatalogAssumption` say the same of the tables these
modules start with (foreign keys, unique indexes, ids that were drawn; each app
holds a live token of its own; a store's rows refer to its own or Laoji's), and
the latter that there are finitely many units; `KycAssumption` that a document
is of a known user, kind and status and that merchants are not riders;
`CheckoutAssumption` that a limit is a number or NULL, that checkouts in
progress are finitely many and that no voucher is called like the two answers
that mean none or whichever fits.

Proof attempts that failed corrected the model. `ClosedStaysClosed` is not
inductive with a history that remembers a store by its vendor alone: a store
closed by hand, deleted and created anew came back as closed by hand. It takes
three calls, one more than the run has, so TLC had not found it; with three
calls and one slot it does. `Storefront` let an insert replace a row of the
same key, which the database refuses. In `Wallet` a withdrawal that drew on
credits went on as a debit, so that no request was ever made for one: the lag of
such a call did not add up. In `StoreCatalog` the new sizes of one listing were
given ids that the next of them had too, and an insert could meet an id in use.
And `Verified` held in `Kyc` only because the instance had nobody verified
at the start: a rider or vendor whose row a deletion keeps loses the documents
and not the status, which is what `emptied` remembers.

Only model-checked are the liveness properties `SearchEndsUp`,
`KeepsOfferingCalm` and `FollowsSchedule`: fairness and ENABLED are beyond the
proof system.

## 6. Not modelled

* Dashboards, customer and area-manager pages, exports: they read and add up.
* Banners, pages, payment settings and area managers' records: one query each,
  which no other part reads for a decision.
* Grocery orders' ratings, corrections and history rows (`FoodOrder` has them
  for food orders), and riders' requests to be paid their settlements.
* Guards, pipes, cache and the database pool. Who may call is taken as checked:
  an action is offered to whom the route admits.
* Texts, names, images, uploads to storage, links of the payment provider.
* Failing queries and crashes in `OrderPayment`, `Wallet`, `Checkout`,
  `FoodOrder` and `VendorWithdrawal` (a request writes once, at its end); `Allocation`, `Delivery`, `Notification`
  have `Restart`, the modules with `todo` lists have `Cut` (`EditCut`).
* Several orders at once in `Allocation` and `Delivery`: a rider's other load is
  `full`, changed by `Load`.
* Seed, migration and maintenance scripts (`scripts/`), run by hand against an
  idle database; they are a good part of the repository's lines.

## 7. Plan

What would come next, in this order:

1. Failing queries in `OrderPayment` and `Wallet`, and what a retry then does.
2. `OrderLifecycle`: `Allocation`, `OrderPayment` and `Delivery` composed through
   one order row, with the forward path and the grocery side of `FoodOrder`.
3. Lemmas about `Pricing`: shares add up, ranges cover every distance once.
