# Atenas backend: TLA+ models, checks and proofs

The Atenas backend (NestJS, TypeORM, PostgreSQL) sells graduation photos. Schools are institutions
with events; students are users of an institution; administrators say which products an institution
offers at which prices. Students fill a cart, check out with credit, with Mercado Pago or with both,
and administrators work the orders off. This directory models the code that changes rows: what every
handler, job and script does statement by statement, and what comes of it when they overlap, fail or
are restarted. Paths below are relative to `src/src/`.

## 1. Inventory

| Component (code) | State | Operations | What is hard | What makes it correct |
|---|---|---|---|---|
| Checkout (`core/orders/create-order/usecase.ts`) | local variables of one request | validate and price the cart; read the credit; deduct or reserve; insert order, items, details; flag; clear the cart; create the preference | the credit is read in one statement and taken in another; no transaction; the `catch` only rethrows | no balance below zero; a saved order's `creditUsed` was taken, once; an answered order is complete |
| Pricing (same file, 295-572) | none | selection rules, expected price per product type, tolerance of two cents | boundaries; products revised while the cart is priced | sold at the current price |
| User credit (`infra/data/sql/repositories/user.repository.ts`) | `creditValue`, `creditReserved` | deduct, reserve, release, consume: one guarded `UPDATE` each; absolute write by an administrator | release and consume are silent no-ops when too little is reserved | a hold is settled once, for its amount |
| Orders table (`infra/data/sql/repositories/order.repository.ts`) | `paymentStatus`, `creditUsed`, `credit_restored`, `paymentGatewayId` | insert, unconditional status write, flag, scan of abandoned orders, `cancelOrderAtomically` | status and flag are written without looking at the row | flagged before settled; closed orders hold nothing |
| Payment webhook (`core/mercado-pago/webhook/process-webhook.usecase.ts`) | notification rows | find, save pending, fetch from the provider, save processed, read the order, flag, settle, write, clear the cart | duplicate, concurrent and late deliveries; `processed` is saved before the order is updated | a notification is applied once; settlement once |
| Abandoned-order job (`infra/jobs/cancel-abandoned-orders.job.ts`) | snapshot of orders | per order: cancel, flag, release | hourly and on request, overlapping everything; the snapshot grows stale | held credit comes back in the end |
| Order endpoints (`presentation/orders/controller/orders.controller.ts`) | none of their own | cancel by client (one transaction), cancel and set status by administrator (several statements) | check-then-act over several awaits | an order is not refunded twice |
| Item fulfilment (`core/orders/update-item-fulfillment-status`) | `fulfillmentStatus` per item | validated transition | read, validate, write: a second writer takes the item back | no item skips a step of its type |
| Cart (`infra/data/sql/repositories/cart.repository.ts`, nightly job) | one row per user | upsert (find, then save), clear, clean-up | a clear or another upsert between find and save | an answered PUT is what GET returns |
| Password reset (`core/auth`) | reset codes, password hash | request, reset | invalidate-then-create and find-then-mark races | earlier codes are dead; a code works once |
| Sessions (`infra/services/auth.service.ts`) | refresh-token hash, `lastLoginAt` | login, logout | two statements | |
| Student credentials (`core/insituition/send-student-credentials.usecase.ts`) | password hashes | a loop over a list read earlier | the list grows stale; a statement or an e-mail fails | everybody is counted; nobody known to have logged in is reset |
| Institutions and events (`core/insituition`) | institutions, events | create, edit with events, delete; delete an event in three steps | forms saved around a deletion, forms that name events of another institution; cascades | a stored event is offered under its own id |
| Institution products (`core/institution-products`) | links with `details` JSON that refers to events | create, write details, delete | check then insert; references without a key and without a check | one link each; both ends exist |
| Users, products (`core/user`, `core/profile`, `core/products`) | rows | check, then insert or update; delete | uniqueness checked before the write, if at all | clashes only where nothing was checked |
| Event photos (`core/user-event-photos`) | photo rows | upload, delete | the owner moves or vanishes between check and save | a photo is of an event of the student's institution |
| Seed (`infra/data/sql/seed.ts`) | the example rows | look up, save, one by one | stopped half-way and run again, beside administrators | every row once |
| Migrations and entities (`infra/data/migrations`, `infra/data/sql/entities`) | the schema; which migrations ran | run, revert | old timestamps registered late; `down` must undo `up`; entities declared separately | the schema depends only on what was executed |
| Listings (five `findAllPaginated`, the user search) | none | one page per request: rows, then total | offsets into a list that is being written; ties; sorts in memory | undisturbed rows are shown once, in order |
| Mailer, signature validation, HTTP layer, storage URLs | none | I/O and mapping | | see section 8 |

**How they interact.** There is one Node.js process. Handlers interleave at every `await`; every
database statement is atomic in PostgreSQL; only the client's cancellation and the transactions of
`updateInstitution` and `hardDelete` span statements. Components never call each other back: they
meet in rows. A restart drops all handlers and no row. The hazards this leads to are listed, each at
its line, in `PROJECT.json`.

## 2. Modules

```
Shop                 identifiers
 +- UserCredit       creditValue / creditReserved and their UPDATE statements
 +- OrderTable       orders and carts, their statements, the transition table
     +- CreateOrder, ProcessWebhook (and the provider), CancelAbandonedOrders, OrderEndpoints
         +- OrderPayments       all of them together; Spec, FairSpec, properties
             +- OrderInvariant  the inductive invariants;                    OrderPayments_proofs
                 +- OrderAccount      refinement of CreditHolds, serial invariant;   OrderAccount_proofs
                     +- OrderLedger   sums over a customer's orders;                 OrderLedger_proofs
CreditHolds          abstract specification of the credit account

CartPricing          selection rules, prices, detail rows, preference items (pure)
 +- OrderLines       a checkout's pricing, address, order, items, details, preference
     +- Fulfilment   administrators moving items
         +- OrderDesk               composition and properties;  OrderDesk_proofs

CartStore            GET, PUT, DELETE of a cart and the nightly job;  CartStore_proofs

AccountTable         passwords, tokens, reset codes and their statements
 +- PasswordReset, Sessions, StudentCredentials
     +- Accounts                    composition and properties;  Accounts_proofs

ShopTables           the administrators' tables, their keys and cascades
 +- InstitutionDesk -> ProductDesk -> StudentDesk     the handlers, table by table
     +- Seed         the seed script
         +- Catalogue               composition and properties;  Catalogue_proofs

Ddl                  DDL statements as changes of a set of schema facts
 +- MigrationScripts every registered migration, up and down
 +- Entities         what the entity classes declare
     +- SchemaHistory               releases, run, revert

Listing              paginated lists and the search;  Listing_proofs
```

`MC*` modules hold the instances for TLC; `CartMC.cfg` and `UpgradeMC.cfg` instantiate `CartStore` and
`SchemaHistory` themselves. Each `*_proofs` module extends the module it is about.

* **Rows.** A table is a function or sequence of records of the columns some handler looks at. Where
  ids must not be used twice (`ShopTables`) it is the sequence of all rows ever inserted, deleted ones
  being `Gone`. Amounts are whole units or cents: the code only adds, multiplies and compares them. In a
  preference, unit prices are kept as numerators over the order's total, so nothing is rounded.
* **Handlers.** Each handler's local state is a program counter and the values it keeps across an
  `await`; an action is the work between two awaits, named after the code's function. Where the code
  acts on a *stale* value (the job's snapshot, the row an administrator's form showed, the row an
  upsert found) the local state keeps it. Look-ups of different tables that a handler makes one after
  the other before its write are one action (`InstitutionDesk` says why this loses nothing).
* **Loops.** The credential mailing keeps the roster positions still to do and takes the first (`Current`); the
  seed script keeps its place in the list of rows it saves.
* **Failures.** `CreateFault`, `WebhookFault`, `JobFault`, `AdminFault`, `OrderFail`, `PutFail`,
  `AskFail`, `ResetFail`, `LoginFail`, `BatchWriteFails` make the awaited statement throw, with what
  the surrounding `catch` does; `Restart`, `BatchStop`, `Abandon`, `SeedStop` end a handler.
* **Observation.** Variables and fields called history in their comment (`ledger`, `granted`, `touched`,
  `earlier`, `spent`, `known`, `stale`, `overtaken`, `reached`, `paid`, `history`, `since`) are read by no
  guard; the properties need them.
* **External.** `ProviderStep` is Mercado Pago: it moves a payment along its life cycle; a delivery is
  handled any time after its payment exists, in any order, and several may carry one notification.
* Operators commented *A plausible bug* are not used by any action. Each is a mistake that could be
  made in the code; replacing the definition that follows by it makes a run fail, which `PROJECT.json`
  (`mutants`) records.

## 3. Runs

"Overlapping" says whether two settling handlers (webhook, job, client and administrator
cancellation) of one order may be in flight together; those of different orders always may, and so may checkouts.

| Run | Instance | Shows |
|---|---|---|
| `OverlapMC` | one customer, two orders, two notices of one payment, job, both cancellations, one failure or restart, overlapping | the invariant of the proofs; flagged before settled; an order paid with credit is never refunded; a negative reserve needs two holds |
| `CheckoutMC` | two customers, three orders, free / credit / mixed totals, a credit edit, one failure, client cancellations | no overdraft; every order backed |
| `SerialMC` | one customer, two orders, handlers of an order one at a time; duplicate, later and merchant-order notices; cancel and complete by administrator; job; client | closed orders hold nothing; the two tables agree about a customer nothing of whose is in flight; duplicates ignored |
| `SerialFaultMC` | the same with a notice for each of the two orders (a credit edit lets both hold credit at once), two failures or restarts, status endpoint | the reserve is what rows hold and what is stranded; only a failure strands a hold, and for good; the reserve covers the open holds; the cart is kept until an order is paid; the account is implemented |
| `JobLivenessMC` | one order per customer, overlapping, fair | held credit is settled in the end |
| `OrderDeskMC` | one checkout of five carts over three product types, products revised meanwhile, three credits, a failure anywhere, every payment status, two administrators | answered orders are complete and charge what the credit leaves; prices are current; items move along their type's steps, only once paid, and back only in a race |
| `CartMC` | three overlapping PUTs of one customer, clears, failures | an answered PUT is read back until somebody else writes; the unique key is met only in a race |
| `AccountsMC` | two requests for a code and two resets of one user, a login, a mailing over a class of two, failures after every statement | earlier codes are dead; a code is spent twice only in a race or after a failure; everyone is counted; who had logged in keeps the password |
| `CatalogueMC` | two administrators and the seed script, four jobs; forms with any event id or one made up | no row refers to one that is not there; stored events are offered, clashes only where nothing was checked and photos of the own institution, each with its exceptions marked by name; sold lines go only with their customer; the seed saves once |
| `UpgradeMC` | a database of the first release, upgraded release by release or several at once, two reverts | the schema depends only on the migrations executed; upgrades succeed once the first release is there; the tables are the ones the entities declare; stored orders keep their status |
| `ListingMC` | a walk in pages of two over up to three rows of any list, two writes | rows nobody wrote are neither missed nor repeated; an undisturbed walk is in order |

One run is expected to fail. `LostApprovalMC`: `mercado-pago.controller.ts:103` answers "Webhook
processed successfully", but the notification is saved as processed before the order is updated, so an
update that fails is never retried and the order stays PENDING. `ApprovalsApplied` (section 6) proves that it takes a
failure or an overlap: late, repeated and reordered deliveries alone lose no approval.

**Bounds and why they are enough.** *Orders:* two orders of one customer are what one settlement needs
to eat another's reserve; a third order and a second customer (`CheckoutMC`) show that customers do not
mix. Credit of 1 or 2 against totals of 1, 2 and 3 gives every payment method and both outcomes of each
guard. Two notices reach every race of one payment with itself. One failure reaches each error path, two
reach a failure after a restart and a hold stranded before its row beside one stranded after it. *Desk:* the carts cover every price formula, a line off by exactly the
tolerance and one beyond it, an order without anything to pay, two-line carts (an item is worked off while
the next is being saved); two administrators are what a stale read needs. *Cart:* two PUTs race on a row,
the third sees what they left; more customers share nothing. *Accounts:* two of each request of one user
are what a race needs, the second student is the one still to come in the loop. *Catalogue:* four jobs let
two administrators finish two requests each, or a seed run be stopped and repeated beside two requests (an id a client
makes up counts as one); names and numbers come in twos so that they can clash. One event per form is enough for an
event to be taken over, renamed or added, and for a link to name one that is not, or no longer, the institution's. *Schema:* every registered migration; two reverts
take back a batch and what was before it. *Listings:* three rows in pages of two make two pages, one not
full, and one write can push a row over the boundary, the second back.
`MaxGrants`, `MaxFaults`, `MaxAttempts`, `MaxJobs`, `MaxEdits`, `MaxPhotos`, `MaxReverts`, `MaxLoaded`,
`MaxWrites` and `Instants` are bounds of the models only; the theorems hold for every value of them.
Deadlock is not checked: when all requests are answered, the system rests.

**Fairness** (`FairSpec` of `OrderPayments`). A handler that has started goes on: the event loop resumes a
settled await. The job: `@Cron(EVERY_HOUR)` fires for ever and every order grows older than its threshold.
Customers, the provider and administrators promise nothing, and nothing is assumed of failures (none occur
in the liveness run: a failed release is never retried by this code, which `JobFault` shows in the safety
runs). The other models are checked for safety only: their handlers end after a fixed number of statements
and no job of theirs finishes what another left.

## 4. What holds, and under which assumption

* **Orders and credit**, under every interleaving, failure and restart: types, `NoOverdraft`,
  `OrderBacked`, `MarkBeforeSettle`, `CreditOrderNeverRefunded`, `ReserveOverdrawnOnlyAcrossHolds`.
  A customer's `creditReserved` is always what was reserved less what was released and consumed, and no unit of
  credit is lost or made. The other theorems name the schedule they need, which nothing in the code enforces:
  - `SerialSchedule`: settling handlers of one order do not overlap (those of different orders of a customer do,
    on the customer's balance), and administrators use `PUT /v1/orders/:id/cancel` only
    where nothing fails and no payment becomes pending again (that endpoint looks at the status alone). Then
    `SettledOnce` and `ReserveCoversHolds` hold and the account of `CreditHolds` is implemented.
    Failures cost credit under this schedule, and `ReserveExplained` says how much: a customer's `creditReserved` at
    rest is what the rows still hold plus the stranded holds, those of requests that failed before their row and
    those whose row is flagged and whom nobody is about to settle. `StrandedOnlyByFailure`: handlers never strand a
    hold by what they do to each other, and none of them gives a stranded one back. (The administrator's cancellation,
    which this schedule excludes where statements fail, would: for an order that a failure left flagged and PENDING.)
  - `FaultFree`: that, and no failure or restart. Then `ReserveMatchesRows`; with failures it is false by the
    code's design, since a request that fails between two statements leaves its hold behind.
  - `ClosingSchedule`: that, and the status endpoint closes no order (it releases nothing). Then
    `ClosedOrdersHoldNothing`.
  - `OneAtATime`: settling handlers of one order do not overlap and nothing fails. Then `DuplicatesIgnored`.
  - `ApprovalsStand`: that, and a payment goes neither through "authorized" (which may still be voided) nor through
    "in_mediation" (which takes an approved order back to PENDING, by the webhook's table); the instance of `SerialMC`
    is such a one. Then `ProcessedMeansApplied`.
  - `NoAuthorizations`: the provider never reports "authorized", which the webhook maps to APPROVED before the
    money is there. Then `CartKeptUntilPaid`, under every interleaving and failure.
* **Items**: `StepsInOrder` and `AdvancedOnlyIfPaid` hold however many administrators overlap, although
  the write looks at nothing; that an item never goes *back* needs that nobody overtook the writer.
* **Carts, codes**: the guarantees hold for everything that did not overlap; the properties name the
  overlap exactly (`touched`, `earlier`, `spent`).
* **Catalogue**: keys hold references together; what has no key (`details`, identifiers, product names) is
  kept by checks, and the properties name the rows whose check was skipped or overtaken. Of the event ids in
  a form nothing is checked: the update of an institution takes over any event it names, and the details of a link
  name any event or none. So `PhotosOfOwnInstitution` excepts students who were moved and events that were taken over,
  and `StoredEventsOffered` excepts entries for an event that was not the institution's, or was deleted or being
  deleted, when they were saved, and events taken over since. What is left is what the handlers keep by themselves: an
  event deleted in three steps disappears from every product, and no overlap of uploads, moves and deletions puts a
  photo into the wrong school.
* **Listings**: `NothingMissed` survives inserts and updates where writes move a row to the front, which
  is so for the default orders; `NothingRepeated` needs that nothing came in front.

## 5. Disagreements met while modelling

Besides the one a run shows, the code and what is written about it disagree in these places. The models
follow the code.

* `core/orders/update-order-status/usecase.ts:50` calls CANCELLED a "Final state"; the webhook
  (`process-webhook.usecase.ts:220`) writes the mapped status whatever the row holds.
* `user.repository.ts:429` "Usado quando pedido é aprovado (remove do reservado sem devolver)": an order
  whose credit was released and that a later notice approves keeps the returned credit (`process-webhook.usecase.ts:189`).
* `orders.controller.ts:415` "cancela pedidos PENDING com mais de X horas e restaura créditos":
  `order.repository.ts:464` selects only orders with credit, so others stay PENDING; and the job, which
  releases from its snapshot (`cancel-abandoned-orders.job.ts:78`) while an administrator cancels the same
  order, uses up another order's reserve, whose own release is then a silent no-op.
* `user.repository.ts:414` "Usado quando pedido é cancelado/rejeitado/expirado": the status endpoint
  (`update-order-status/usecase.ts:21`) releases nothing.
* `orders.controller.ts:350` "libera instantaneamente o crédito que estava reservado": line 394 does not
  look at `credit_restored`, so credit already released is released again.
* `cart.controller.ts:65` "Criar ou atualizar o carrinho do usuário (upsert)": of two first PUTs the second
  meets the unique key and answers 500 (`cart.repository.ts:31`). The nightly job's statement
  (`cart.repository.ts:59`) is sent as `INTERVAL $1`, which PostgreSQL rejects, so no cart is ever removed.
* `request-password-reset.usecase.ts:33` "Invalidar códigos anteriores do usuário": two requests at once
  leave two valid codes. `reset-password.usecase.ts:50` "Verificar se o código já foi usado": the query before it
  returns unused codes only, and a code is spent twice by overlapping resets or after a failure.
* `institutionController.ts:140` "para alunos que nunca fizeram login": one who logs in after the list was
  read loses the password; line 141 promises a reset code to the others, and none is sent.
* `presentation/instituitions/dto/update.instituition.ts:60` "substitui completamente os eventos existentes":
  events missing from the form are kept.
* `presentation/instituitions/dto/update.instituition.ts:15` "ID do evento (opcional para novos eventos)": an id that is
  not one of the institution's events is no error. `institution.repository.ts:114` saves it as the institution's,
  which takes the event over from another institution, with the photos taken at it, or inserts an event under an id
  the client made up. `core/institution-products/update/usecase.ts:33` writes whatever ids the details carry.
* `list-users-query.dto.ts:60` "Campo para ordenação": a search ordered by a time compares the texts of
  dates, weekday first (`core/user/find-all.usecase.ts:136`), and ignores `order` without `sortBy`; products
  are sorted within the page only (`core/products/find-all/usecase.ts:42`).
* `src/README.md:33` says a container's first start applies the pending migrations: two of them
  (`1736848800000`, `1737050000000`) sort before the ones that create the tables they alter, so a new database
  fails. `UpgradeMC` therefore starts from the first release. `1757211242262-AddUserAndContractFields.ts:65`
  "First, update any invalid paymentStatus values": line 71 drops the column, and every order becomes PENDING;
  `StatusKept` is about the migrations after it.

## 6. Proofs

TLAPS proves the following for every value of the constants, from the named `ASSUME`s of the modules alone
(TLC evaluates them on every run). Schedules are hypotheses of the theorem, as in section 4.

| Module | Theorems |
|---|---|
| `OrderPayments_proofs` | `Spec => []P` for `IInv`, `TypeOK`, `NoOverdraft`, `OrderBacked`, `MarkBeforeSettle`, `CreditOrderNeverRefunded`; `DuplicatesIgnored` (`OneAtATime`); `ProcessedMeansApplied` (`ApprovalsStand`); `CartKeptUntilPaid` (`NoAuthorizations`) |
| `OrderAccount_proofs` | for `SerialSchedule`: `SerialInv`, `SettledOnce`, and the refinement `AccountRefined` |
| `OrderLedger_proofs` | `ReserveAccounted`, `CreditConserved`, `ReserveOverdrawnOnlyAcrossHolds`; `ReserveCoversHolds`, `ReserveExplained` and the action property `StrandedOnlyByFailure` (`SerialSchedule`); `ReserveMatchesRows` (`FaultFree`); `ClosedOrdersHoldNothing` (`ClosingSchedule`) |
| `OrderDesk_proofs` | `FulfilInv`, `OrdersInv`, `TypeOK`, `StepsInOrder`, `AdvancedOnlyIfPaid`, `AnsweredOrderComplete`, `ChargedWhatCreditLeaves`, and the action properties `BackOnlyWhenRaced`, `SoldAtCurrentPrice` |
| `CartStore_proofs` | `CartInv`, `AnsweredPutReadBack`, `ConflictOnlyWhenRaced` |
| `Accounts_proofs` | `ResetInv`, `EarlierCodesDead`, `SpentTwiceOnlyWhenRaced`, `EveryStudentCounted`, and the action property `KnownStudentsKeepPassword` |
| `Catalogue_proofs` | `TypeOK`, `StoredEventsOffered`, `IdentifiersClashUnchecked`, `NamesClashUnchecked`, `PhotosOfOwnInstitution`, `SeedSavesOnce`, and the action property `LinesGoWithCustomer` |
| `Listing_proofs` | `WalkInv`, `TypeOK`, `NothingMissed`, `NothingRepeated`, `OrderKept` |

Hardly any of the properties is inductive. What was added:

* **Orders.** `OrderInvariant!IInv` ties a handler's program counter to rows and ledger: what a checkout has
  taken so far is in the ledger and its row is not there yet (`CheckoutInv`); only Mercado Pago orders are
  payable and an order paid with credit never is PENDING, so that no webhook, job or cancellation picks it up
  (`RowInv`); a handler about to move credit has flagged the row, and flags and rows never go away
  (`WebhookInv`, `JobInv`, `AdminInv`); only an order that can be paid has payments (`PaymentInv`). Bottom up:
  what one statement changes, field by field; which conjuncts a step keeps because of what it leaves alone;
  one lemma per handler; `NextPreserves`.
* **Notifications.** A handler has an answer of the provider only once it fetched, and whoever has one wrote its
  notification down as processed or does so next; while one is fetching, no other delivery of it has an answer
  (`NoticeInv`). A payment is tried again only after the ones before it came to nothing, so of an order some payment of
  which a handler saw approved no fetch answers PENDING any more, whichever payment it asks for; and whoever saw the
  approval has written the row or is on the way (`AppliedInv`).
* **Carts of buyers.** Whoever is about to delete a cart row knows of an order that needed no payment or had one
  approved (`OrderInvariant!CartInv`).
* **Account.** `OrderAccount!SerialInv`, inductive next to `IInv`: one settling handler of an order at a time; a hold is
  settled whole and one way or not at all (`SettledWhole`); a handler that is about to settle an order has found it
  unflagged, and nobody has settled it since (`WebhookDue`, `JobDue`, `AdminDue`); a request takes its credit at once and
  in one way (`TakingInv`). From `IInv` come that what a row shows as used is what the ledger shows as held
  (`UsedIsHeld`) and that an unflagged row was never settled (`UnflaggedUnsettled`). Each statement of `UserCredit` is
  then shown to be one step of `CreditHolds` (`AccountTaken`, `AccountSettled`, `AccountAdjusted`) and every other step a
  stutter. The assumption is needed: a webhook and the job that overlap settle one hold twice.
* **Ledger.** A sum over a customer's orders is the cardinality of a set of units (`Units`), so that a statement
  that moves an amount adds or removes that many elements, and one amount per order below another gives one
  sum below another. The three columns are then accounted for statement by statement; that the reserve covers
  the holds follows from `SerialInv`, and that it equals them from `FaultFreeInv`: a flagged hold that is not settled has
  a handler about to settle it, which is none when nothing is in flight. `ClosedInv` adds the handler about to flag.
  What failures cost needs one thing more under every schedule: a row that is absent shows no credit and a request that
  came to its end left one (`RequestInv`). At rest each order's open hold is then either its row's or stranded, never
  both, so the two sums add up to the reserve. For the action property each statement is shown to keep the set of
  stranded holds: who flags a row is about to settle it, and who settles a due hold finds it covered (`HoldCovered`), so
  that the guard of the statement is no silent no-op.
* **Items.** A request in progress read a status the item has had (`EditOK`), and it is still the current one
  unless the request was overtaken. Every transition leads to the next step of the type, so a write adds a
  step whose predecessor was reached.
* **Checkouts.** The rows saved are the first lines of the cart, whole but for the one in progress, whose missing
  details the request still has (`RowsOfCart`, `SavedSoFar`); every line gone through was accepted at the price its
  product still has, unless it was revised (`PricedSoFar`). Sums are the library's folds over functions: that they
  exist, unfold and scale (`SumsExist`, `SumUnfolds`, `SumScaled`) is proved by taking a smallest set for which it
  fails, since the induction theorems with an operator as parameter cannot be instantiated.
* **Carts.** What a PUT has seen still is so unless somebody else changed the cart (`SeenHolds`).
* **Codes.** A reset that is over used its code up, and a reset that looked after it found another
  (`SpentByOthers`); a request that has not stored its code has no row (`UnaskedCodes`).
* **Mailings.** What was listed is what was sent, what failed and what is still to do, and nobody still to do was known to
  have logged in (`BatchInv`).
* **Catalogue.** `TypeOK` is inductive, for what requests and script have in hand is part of it. Every statement
  takes the tables to ones that follow (`Follows`): ids of institutions, links and users are not used again, and an
  event goes only with its institution. An event changes its institution, or comes back under an id that was gone,
  only by a step that marks it as taken over (`AdoptionsMarked`), and marks stay (`AdoptedStay`). For clashes
  (`IdentifiersInv`, `NamesInv`): a request that was not overtaken still sees what its check saw. For photos
  (`PhotosInv`): the uploads in hand as well, and a move marks its student. For events (`OffersInv`): an entry
  without a mark is of a live event of its institution that nobody is about to drop (`Lasting`); a take-over marks
  the event for every link of another institution, and a deletion finds no entry without a mark left. For the script
  (`SeedInv`): with nobody else at work the tables are the first rows of the script and their ids are what the
  script has in hand; the rows are then counted by a bijection.
* **Listings.** A row not shown yet has at least `(page - 1) * limit` rows ahead of it (`StillToCome`), one shown on page k
  fewer than `k * limit` (`LeftBehind`). Inserts and forward-moving updates only add rows ahead, which keeps
  the first, and with no row entering or written none is added, which keeps the second; the arithmetic is about
  cardinalities of sets of rows ahead, and the step from a rank to that cardinality (`AheadOf(r)` all have
  smaller ranks, and without ties they are all that have) is what the lemmas are for. While nothing is written
  the rows shown are in order within a page and from page to page (`PagesInOrder`).

The assumptions say what the code or the database guarantees, or keep a marker apart from data: totals are not
negative (`TotalsAssumption`); carts are sequences of lines with a price and a positive quantity (`LineAssumption`);
credit is a whole number (`OrderLines!CreditAssumption`); a marker for a deleted row or a missing value is no row and no
id, and what the script saves could have been typed (`CatalogueAssumption`); the script's rows of a table differ in the
columns it looks them up by (`SeedKeysAssumption`).

Model-checked only: liveness (`HeldCreditEventuallySettled`), which rests on fairness and `ENABLED`; and the migrations
(`SchemaFollowsHistory`, `EntitiesMatch`, `UpgradeSucceeds`, `StatusKept`), which are one concrete list evaluated with
folds, so that TLC's instance is the whole question. Apart from `IInv` and the `TypeOK` of the catalogue, the inductive
invariants are proved and not repeated in the runs.

## 7. Plan

Done: the modules above. Left:

1. An abstract order life cycle that the orders table implements, where no late notification reopens a final state.
2. An abstract cart (one register per customer) that `CartStore` implements where no PUT is raced.

## 8. Not modelled

* **Mailer** (`infra/services/mailersend.service.ts`): templates and one HTTP call; whether it fails is a choice
  in `AskMail` and `BatchMail`.
* **Webhook signature validation**: a keyed hash; it decides only whether a delivery is handled.
* **HTTP layer, adapters, configuration**: DTO validation, mapping, error texts, dependency injection. Inputs of the
  models are those that pass the validators, ids that nobody checks included.
* **File storage**: presigned URLs are input and output without state.
* **Payment preference client**: the items' arithmetic is in `CartPricing`, the call is a step that may fail; titles,
  return URLs and the like are left out.
* **Stored data in migrations**: only the status of an order is followed, and a statement fails on it where its values do
  not fit; that a revert's SET NOT NULL or a unique key added again may fail on other stored rows is left out.
* **Sorting users by `lastLoginAt`**, which is empty for many of them; the other columns of the lists are in `Listing`.
* **Columns nothing depends on**: names, descriptions, observations, measures; payment-status history (written,
  never read). `addCredit`, `updateUserCredit` and `deleteExpiredCodes` have no caller. Two reset codes of one user that
  are equal by chance are left out.
