# ChuyDex API: specifications

TLA+ models of the ChuyDex back end (NestJS, TypeORM, MySQL 8): what it does to
stock, sales, customers' debts, discounts, rewards, sessions, users, the catalogue and
its images, one request at a time and with requests that overlap.  Paths below are relative to the repository, whose code lives in
`src/src/`.

## The system

| Component | State | Operations | Correct when |
|---|---|---|---|
| Inventory (`inventory.service.ts`) | `productos.stock_actual`, `movimientos_inventario` | entry, adjustment, `change()` for sales | stock is never negative and is what the history adds up to |
| Accounts receivable (`accounts.service.ts`) | `clientes.saldo_actual`, `cliente_cuenta_movimientos`, `abonos_cliente` | payment, its cancellation, `addMovement()` for sales | a debt is what was sold on credit less what was paid; every payment is in the account once |
| Sales (`sales.service.ts`) | `ventas`, `venta_detalle` | create, cancel | a sale agrees with the stock and the account it moved; folios unique; tenants apart |
| Catalogue (`catalog.service.ts`) | categories, products, customers | create, edit, status, soft delete | keys are unique; no product in a deleted category; an edit changes what it is asked to and nothing else |
| Promotions, pricing (`promotions.service.ts:16`) | reads promotions | discounts of a sale's lines | no line sold below zero |
| Promotion administration (`promotions.service.ts:12-17`) | promotions and their scopes | create, update | a scope is replaced whole or not at all |
| Rewards (`rewards.service.ts`) | loyalty events, rewards, progress | applied by a sale, rolled back by a cancellation, redeemed, cancelled | one reward for each cycle completed |
| Sessions (`auth.service.ts`) | sessions, password | login, refresh, logout, change of password | a session that ended stays so; one that renews another follows its end; a password lasts until it is changed |
| Users, roles, businesses, guards | users, memberships, businesses | create, edit, status | a request acts only where it has an active membership |
| Product images (`product-images.controller.ts`, `storage/`) | `imagen_url`, files | upload, remove | the file a product names exists, and no other file stays |
| Settings | one row a business | get or create, edit | one row a business |
| Dashboard, public catalogue, audit log, shell | none they read back | reads; append to the log | not modelled: no state |

Controllers call one service method per request.  A service method of the sale
(`SalesService.create`, `cancel`) opens one database transaction and passes its
`EntityManager` to the inventory, accounts, promotions and rewards services, so
all they write commits or rolls back together.  The other components share
rows, not calls: an edit of a product saves the same row a sale locks.

What is hard here is what MySQL and TypeORM do to those transactions.  No
isolation level is set (`database/data-source.ts`, `database/database.module.ts`),
so InnoDB runs REPEATABLE READ: a locking read sees the latest commit, any other
read sees the snapshot taken by the first of them.  TypeORM's `save()` reads the
row again with such a plain read and updates only the columns that differ.  So
which read of a request comes first decides what its last write does, and code
that reads with no transaction (the catalogue's edits) may write old values back.

## Modules

`Inventory`, `Accounts` and `Sales` describe each operation as one step: what the
system promises.  `SalesTx` has the same variables and takes the transactions
apart.

- **Inventory**: `stock`, `movements`; `Entry`, `Adjustment`, and `Change`, which
  sales use with one difference per product (a transaction's lines change
  distinct products: `create()` merges repeated lines).  Units are refused below
  zero and beyond the unsigned column.
- **Accounts**: `balance`, `account`, `payments`, `customers` (active, inactive,
  deleted); `CreatePayment`, `CancelPayment`, `AddMovement`, and the customer's
  own `UpdateCustomer` and `DeleteCustomer`.  Amounts are in cents; a payment may
  ask for any positive number, so requests are in half cents and `toFixed(2)` of a
  tie is either neighbour (the binary fraction may lie on either side).
- **Sales** composes both: `Create`, `Cancel`, `StatusProduct`.  What pricing
  arrives at is an input, `Totals`, negative totals included.  `folio` is the
  number `nextFolio()` prints; the year is left out.
- **SalesTx**: each connection in `Tx` runs one `create()` or `cancel()` at a
  time.  `phase` is the next statement that locks or reads, `held` the locked
  rows (products, customers, sales, entries of the unique key of folios),
  `snapshot` what plain reads see (`NoValue` until the first), `request` what the
  code holds in its variables.  The steps follow the statements' order: products
  in the order of the request, pricing, the sale's insert, the customer for
  `create()`; the sale, the customer, the products for `cancel()`.  What a
  transaction wrote is seen when it commits, so its writes are in `CommitCreate`
  and `CommitCancel`, computed from the locked rows and filtered by `Saved`, the
  rule of `save()`.  `Refuse` is any exception, `DeadlockVictim` InnoDB's choice,
  `Fail` a lost connection, a stopped process or a lock wait that timed out.
  Entries, adjustments and payments read nothing before their locks, so they are
  one step, taken when their rows are free.  `ReadProduct`/`SaveProduct` and
  `ReadCustomer`/`SaveCustomer` are the two halves of a catalogue edit.
- **Loyalty**: what a sale to a customer does to the loyalty tables.  `BeginSale`
  is the transaction's first read, which fixes what the later ones see;
  `CommitSale` is `applySale()` as the sale commits, which `FolioFree` (the unique
  key again) allows only if no sale of the business has committed since.
  `CancelSale` is `rollbackSale()`.  `Redeem` and `CancelReward` read a reward,
  `SaveReward` saves it later, `LoseReward` is a process that stopped in between.
  Ids are modelled in `Redeem` because they decide it: TypeORM returns a BIGINT as
  a string, the DTO makes the request's a number, and `!==` tells them apart.
- **Promotions**: `Create`, `Update`, `DeleteProducts`, `DeleteCategories` and
  `Assign` are the statements of an administrator's request, with `request` its
  progress, and `Interrupt` a failure after any of them; `Sell` prices a sale from
  what the tables hold at that moment.  `Exact` is what one promotion takes off one
  line, `LineDiscount` and `Applications` the two places that round it.  Which
  promotions are within their dates is any subset; the price of products is fixed.
- **SessionLife**: what sessions promise: each is born once, comes into force, ends, never
  comes back, and one that renews another is in force only once the other has ended.
- **Sessions** implements it.  Rows of users, memberships, businesses and sessions; `tokens`
  and `access` are what clients hold; `request` is what each request in progress has read
  and its next statement.  `Login`, `FindMembership`, `OpenSession`, `SaveSession`,
  `SaveLastAccess` are the statements of `login()`; `Refresh`, `RevokeOld` and the same three
  in the middle those of `refresh()`; `ChangePassword`, `SavePassword`, `CloseSessions` those of
  `changePassword()`; `AskUsers`, `ReadMember`, `SaveUser`, `SaveMember` those of the users
  service, behind the three guards (`Authorized`).  `CreateBusiness` is one transaction and one
  step; it and `StatusBusiness` need a token only, as `PlatformAdminGuard` does.  `Fail` stops a
  request anywhere.  The column `password_hash` is declared `select: false`, so `save()` never
  reads it back and writes it whenever the entity has one: `SaveLastAccess` does.
- **Catalog**: categories, products (category, sku, image) and settings, again by
  statement, for requests without transactions.  `NameUsed` and `SkuUsed` are what the code
  looks for, `NameTaken` and `SkuTaken` what the unique keys refuse; they differ on deleted
  categories.  `SkuUsed` finds the product itself as well, because ids of rows are strings and
  the id of the route is a number: an edit that repeats its own sku is refused.  A product's
  barcode is checked after the sku and the same way; one of the two stands for both.
  A body of `POST` or `PUT` may set `imagenUrl` (`catalog.dto.ts:4`), which goes into the row as it is
  (`catalog.service.ts:17-18`): nothing (null, the empty text), the image of any product, or text that is no file.
  `Known` leaves out one thing only, the name of a file just written, which nobody can know before a row has it.
  A `PUT` always gives a category, as its body is a whole `ProductDto`; a change of status gives nothing.
- **ProductImages** extends it with the files: `Upload`, `SaveFile`, `SaveUploaded`,
  `Remove`, `SaveRemoved`, `RemoveFile`.  `remove()` sets `imagenUrl` to `undefined`, which `save()`
  does not write, so `SaveRemoved` leaves the row's image as it is.
- Three history variables say what the code does not: `overlapped`, the rows two requests have been about at
  once; `interrupted`, the products an image request stopped half-way on; and `given`, the products whose image a
  body replaced and the images bodies gave (`Gives`).
- **MCSales**, **MCSalesTx**, **MCLoyalty**, **MCPromotions**, **MCSessions**, **MCCatalog**: the constants and
  constraints TLC needs.
- **SalesProofs**, **LedgerProofs**, **SalesTxProofs**, **LoyaltyProofs**, **PromotionsProofs**,
  **SessionsProofs**, **CatalogProofs**: theorems and their proofs; **SumProofs**: lemmas about sums.

## Runs

| Run | Question | Bounds |
|---|---|---|
| Sales | taken one at a time, do stock, balance, their histories, payments and sales agree, and do two businesses stay apart? | 2 businesses, 1 product, 1 customer, 2 sales, 2 payments of 1/2, 1 or 1 1/2 cents, balances to 4 cents, stock to 2, 4 rows of each history |
| TxSerial | do walk-in sales and entries implement `Sales`, are folios unique and gapless, and does every request end? | 2 connections, 2 businesses, 3 products, one unit of each, 2 sales, 2 movements a product |
| TxHistory | do history and the accounts survive stale saves, credit sales and payments at once? | 2 connections, 1 product, 1 customer, 1 sale, 1 payment, edits, adjustments, 4 movements |
| TxCancelStock | (violated) are a cancelled sale's units always back in stock? | 2 connections, 1 product, 1 sale |
| TxEditStock | (violated) is the inventory the only writer of stock? | 1 product, one edit, one entry |
| Loyalty | do events, rewards and progress agree when sales overlap and are cancelled? | 2 connections, 2 customers, 1 promotion of 2 units, 3 sales of 0 to 2 units, 4 rewards |
| LoyaltyCancel | (violated) does cancelling a sale cancel the rewards it backed? | 2 connections, 1 customer, 2 sales |
| Promotions | do discounts follow their rules and add up, and does an edit leave the scope it asked for? | 2 promotions of 4 definitions, 3 scopes (one with an unknown product), 2 products, 2 or 3 units, one sale |
| PromotionsLine | (violated) is no line sold below zero? | 2 promotions, 2 products, one unit each |
| Sessions | does every session live the life of `SessionLife`, and do users without a membership stay out? | 2 requests at once, 3 sessions, 2 users, 2 businesses, 1 password |
| PasswordChange | (violated) does a new password last until the next change? | 2 requests, 2 sessions, 1 user, 2 passwords |
| Catalog | do keys stay unique, and what may leave a product in a deleted category, a file nobody names or a product without its image? | 2 requests at once, 2 businesses, 3 categories of 2 names, 2 products of 1 sku, 2 file names, bodies that name at most one image |

The bounds let each hazard happen: two sales are enough for two to count the same
folio or lock two products in opposite orders, two payments for one to be
cancelled between the others, three or four rows for every kind of row to follow
another, a column limit of one to four for the limit to be hit.  In Loyalty three sales of
up to two units complete three cycles of two, one of them across sales; in Promotions
10% of 2 and 3 units of 5 cents are a whole cent and a half one, 3 units a whole group
of the 2+1 and 2 units one short of it.  The constraint `BeforeSale` stops TLC after a
sale, which changes nothing a promotion's request reads.  Every counter
that would grow for ever (sales, payments, rows) has a named bound.  Symmetry
(over connections, customers, requests, the ids of sessions and files, names, or the rows of one tenant)
is used where only safety is checked; `SessionsLive` is a refinement of safety only.

In TxSerial an entry or a sale changes a product by one unit: what it is about, the order of locks and
reads, is the same with more.  A cancellation of a sale with two lines, that must return both or none,
is one step in `Sales` and all its writes are in `CommitCancel`; TxHistory and Sales check it with one line.

`FewAtOnce` of `MCSessions` lets administrators act one at a time (two refreshes, logins or changes of
password overlap freely, and one of them may overlap an administrator), and opens the third session only
while nobody has been added; two sessions are enough for a token refreshed twice, the third for the refresh of a refreshed one.
`FewAtOnce` of `MCCatalog` keeps the questions that do not touch apart: first reads of settings happen
before there are categories, the second tenant has a category and nothing else (what a lookup without its
tenant would find), and there are two categories and a product or a category and two products.  Images change
while there is one category and no sku: with one product two requests overlap and stop anywhere; with two products,
or bodies that give an image (at most one), requests come one at a time and are not cut short, which is enough for a
product to be created with another's file and then uploaded to (`OneByOne`).  Without any of the exceptions that
`NoFileLeft` and `ImageKept` make for `given` TLC finds them violated.  The theorems about both modules need none of
these bounds.

`CHECK_DEADLOCK FALSE` in the SalesTx runs without edits: with the histories
full and no transaction open nothing is left to do, which is the bound and not the
code; an open transaction can always fail, so TLC's deadlock would not be the
database's.  Lock cycles are what `EveryRequestEnds` is about.
In the Promotions runs nothing follows the last sale.  In the Sessions runs every id may be used up and every
token lost; in Catalog every row there may be exists and a request is stopped by the constraint.

Fairness (`TxSerial`): strong fairness of each transaction's own progress, because
InnoDB grants a row's lock to its waiters in turn, so a lock that is free again
and again is not refused for ever; weak fairness of the deadlock detector, which
runs on every wait.  Nothing makes a connection fail or a client ask.  The other specifications state no
fairness: a client may go away and a process stop at any statement, and no property of theirs needs one.

## What the runs show

- Taken one at a time the operations keep every relation stated: stock and its
  history, balance and its rows, payments, credit sales and the debt
  (`DebtExplained`, a sum no code computes), folios, tenants.
- Interleaved, the histories and the sales stay right (`SaleInMovements`,
  `SaleInAccount`, `FoliosReserved`, `HistoryImmutable`): rows of history are
  always inserted, sales are locked before they are cancelled, and the unique key
  of folios turns a lost count into a rollback.
- Walk-in sales are serializable: they read nothing until they hold every
  product, so their snapshot is current.  That is `Serializable`, the
  refinement of `Sales` by `SalesTx` under the identity.
- The stock itself is not safe from stale reads.  `TxCancelStock`: a cancellation
  takes its snapshot when it saves the sale, before it locks the products; if an
  adjustment takes as many units out in between, the stock it computes is the one
  of its snapshot, `save()` sees nothing to update and the units never come back.
  `TxEditStock`: an edit of a product, or of its status, reads the row with no
  transaction and saves all of it, the old stock included, with no movement.

- Loyalty stays consistent for sales in force although `applySale()` takes no lock
  of its own: two overlapping sales count the same folio, so one rolls back
  (`AvailableBacked`, `OneRewardPerCycle`; without the unique key both fail).  The
  progress shown never understates what the customer has in force
  (`ProgressShown`).  But a cancelled sale leaves its reward available
  (`LoyaltyCancel`), as against `docs/promotions-loyalty-rules.md:7`; a reward that
  was cancelled is generated again by the next sale, since only available ones are
  counted; and `Redeem` never succeeds (`test/e2e/workflow.e2e-spec.ts:139` expects
  it to), so no reward is ever `CANJEADA`, and no code sets `EXPIRADA`.
- Each promotion on its own keeps its rule: N paid for each M free
  (`FreeUnitsRule`, of the only product of a sale in the promotion's scope), never more than the line (`WithinLine`, for percentages up to
  100, which `PromotionDto` documents and does not check), and the rows of a sale
  add up to its discounts (`DetailsAddUp`).  Two promotions on a line may take more
  than it is worth (`PromotionsLine`).  Units are grouped line by line: of several products in the scope each
  has its own groups and its own free units, where `docs/promotions-loyalty-rules.md:3` gives them first to the
  cheapest.  The code (`promotions.service.ts:16`) has no such rule: three units of each of two products in the scope
  of a 2+1 have one free unit each, and the document's rule gives both to the cheaper. No run keeps this disagreement;
  the rule, stated as an invariant, fails at once under the constants of `Promotions.cfg`.
- An administrator's request that fails half-way leaves the promotion with part of
  its scope, and one with none applies to the whole shop (`InScope`), until a
  request that ends repairs it (`ScopeAsAsked`).

- Sessions keep the life they promise whatever overlaps (`SessionsLive`), but only because a
  session's token goes out after its second save: that save writes `revocado` back as it was inserted,
  so a logout between the two is undone, which nobody notices because no token of it exists yet.  Two refreshes of one
  token may both succeed, and a refresh that is half-way when the password changes survives it; neither
  contradicts what the code says of itself.  A password may: `PasswordChange` shows a
  login that began before `changePassword()` and ended after it writing the old hash back.
- A user whose membership was never saved cannot log in, nor refresh, nor ask for anything
  (`StrangersStayOut`), but keeps the username taken.
- Names, skus and settings stay unique because of the keys (`KeysUnique`); the code's own look before it
  inserts answers `DUPLICATE_CATEGORY` for a name in use.  The name of a deleted category passes that look and
  meets the key, which `http-exception.filter.ts` answers with a 409 `DUPLICATE_RESOURCE`.
- A product ends up in a deleted category only through two overlapping requests about that category
  (`CategoryInUse`): `deleteCategory()` looks for products first and deletes last.  The public catalogue
  reads `p.category.nombre` of every product it lists (`public.controller.ts:3`), so one such product makes
  the tenant's whole catalogue fail.  An edit of a category that overlaps its deletion brings it back.
- Files: a product whose image requests neither overlapped nor stopped half-way, and whose image no body replaced,
  has no file but the one it names (`NoFileLeft`), although after `DELETE imagen` it names one that is gone.  What it
  names stays until its removal is asked for, unless an edit that overlapped an upload wrote the old name back, or a
  body was involved (`ImageKept`).  Bodies do harm by themselves, one request at a time: a `PUT` with `imagenUrl`
  leaves the uploaded file with nobody to name it and the product naming what the body said; and a product created
  or edited with the file of another deletes it with its next upload or removal, while the other still names it.

## Theorems

Every safety invariant, action property and refinement that a passing run checks is also proved, by TLAPS, in
eight modules, for every value of the constants that satisfies the named assumptions of the modules. Each
argument is one inductive invariant: the properties are conjuncts of it or follow from it, and what it has
besides them is what the code relies on without saying so.

| Theorems | Of | Inductive invariant | Properties |
|---|---|---|---|
| `SalesProofs` | `Sales` | `IInv` | `TypeOK`, `StockFollowsMovements`, `BalanceFollowsAccount` |
| `LedgerProofs` | `Sales` | `LInv` | `SaleInMovements`, `SaleInAccount`, `PaymentsInAccount`, `DebtExplained`, `MovementDirection`, `TenantIsolation`, `FoliosGapless`, `HistoryImmutable` |
| `SalesTxProofs` | `SalesTx` | `TxInv`, `WalkinsOnly` | `TxTypeOK`, `FoliosReserved`, the relations of `LedgerProofs` that survive overlapping, `Serializable` |
| `LoyaltyProofs` | `Loyalty` | `LoyaltyInv` | `LoyaltyTypeOK`, `EventsOfSalesInForce`, `AvailableBacked`, `ProgressShown`, `OneRewardPerCycle` |
| `PromotionsProofs` | `Promotions` | `PInv` | `PromotionsTypeOK`, `ScopeAsAsked`, `DetailsAddUp`, `FreeUnitsRule`, `WithinLine` |
| `SessionsProofs` | `Sessions` | `SessionsInv` | `SessionsTypeOK`, `StrangersStayOut`, `SessionsLive` |
| `CatalogProofs` | `ProductImages` | `CatalogInv`, `ImageInv` | `ImagesTypeOK`, `KeysUnique`, `CategoryInUse`, `NoFileLeft`, `ImageKept` |
| `SumProofs` | sums | | lemmas the others cite |

**Sums** (`SumProofs`). `DebtExplained`, `Total` of `Loyalty` and the discounts of `Promotions` are sums over
finite sets, which the community modules define by a fold in an unspecified order. The lemmas say that any order
gives the same sum (`SumUnique`) and what an element more, one taken out or another name does to it
(`SumWithOneMore`, `SumTakeOut`, `SumRenamed`). An induction over the size of the set cannot be written, since
the library's induction theorems take an operator; instead a false sum would have a smallest set on which it is
false, because strict inclusion of finite sets is well founded (`SmallestSet`).

**One request at a time** (`SalesProofs`, `LedgerProofs`). `IInv` is its three properties and
`CreditHasCustomer`: a sale with something pending has a customer. Without it `Cancel` could credit an account
that does not exist; the code has the same need, and `ValidPayment` establishes it. A change of stock appends,
for each product it changes, one row that starts at the current stock and ends at the new one
(`ChangeFollowed`), and leaves the others alone; a move of an account does the same (`MoveFollowed`), with the
two roundings of a payment at most a cent apart (`RoundedApart`). `LInv` adds how the tables name each other. "A
sale is in the history once" is not inductive for the sales there are: a row with the number of a sale still to
come would break it later. So `SalesTold`, `SalesCharged` and `PaymentsTold` speak of every number a sale or a
payment may ever get, zero rows included; `SalesOfTenant` says what `TenantIsolation` of the rows follows from.
For `DebtExplained` each operation changes one summand: a sale adds one, a cancellation of a sale or payment
takes one away.

**Overlapping transactions** (`SalesTxProofs`). `TxInv` has the tables (`TablesOK`, as in `LInv` but for stock
and balance, which stale saves may break, and `DebtExplained`, which then breaks with them), and per open
transaction what its locks guarantee: no row is locked twice (`HeldExclusive`); the sale being cancelled is
locked, in force and as it was read (`Cancelling`); products are locked in the order of the request (`InOrder`);
a snapshot counts no more sales than there are (`SnapshotOK`), so a folio computed from it is taken or the next
one, and the transaction that holds the key of a free folio is the only one that will use it (`FolioHeld`).
`FoliosGiven`, that no number up to the count is free, is what turns a stale count into a rollback. The theorems
hold for all kinds of requests at once. `WalkinsSerializable` is the refinement of `Sales` by `SalesTx` under
the identity, for walk-in sales, entries and adjustments (`StockRequests`, the theorem's hypothesis; TxSerial is
an instance of it). `Walkin` says why: such a sale reads nothing until it holds all of its products, so what its
snapshot says of them is true until it commits. The argument fails for sales to customers, cancellations and
edits, whose snapshot is older than some of their locks: TxCancelStock and TxEditStock are counterexamples for
the last two.

**Loyalty** (`LoyaltyProofs`). `applySale()` trusts a snapshot that may be old. `OpenSales` says of it that,
while the folio computed from it is free, its units are between those in force and those ever bought, it saw at
least the rewards available now, and both are exact while nothing of the customer was cancelled. A sale that
committed in between takes the folio, so nothing is said of the others, which cannot commit; a cancellation or a
redemption in between only lowers what is in force or available, which is why the properties about rewards are
bounds. It assumes that goals are positive and that `NoValue` is no row of progress.

**Promotions** (`PromotionsProofs`). `ScopeAsAsked` speaks only of the last phase of a request; `ScopeInv` says
for each phase how much of the old scope is gone and of the new one there (`Progressed`), wherever earlier
requests were cut short. `SalesKept` says of each recorded sale, from the evidence it kept and never from the
promotions, which may have been edited since, what each row takes off and that the rows of a line add up to its
discount (`SaleOK`). `FreeUnitsRule` is about the step that records a sale, because the scope it was priced with is
still there in that step only; `Benefited` counts the groups of one line, so it says nothing of several. Every promotion of a line is rounded once for the line and once for its row, the same way,
so the sums are equal to the cent (`LineAddsUp`); `WithinLine` needs no bound of what several promotions take
together, which is as well (`PromotionsLine`). It assumes that product and category ids are told apart and that
an unknown id is neither, as separate tables make them, and that products are finitely many.

**Sessions** (`SessionsProofs`). It assumes that a first tenant and its users exist and that `NoValue` is no
row. `SessionsInv` has what a request in progress relies on: it holds what its kind has read (`RequestsFit`);
the user, session or membership it read still exists, and a session to be revoked was signed (`RequestsFound`);
the session a request is about to sign was opened by it and by no other (`OneOpener`), which is why the second
save can bring back only a session that never was in force; a member is a user; and a session's parent, once it
has a child, is over for good (`RenewedAreOver`). The refinement takes each action to a step of `SessionLife` or
a stutter.

**Catalogue and images** (`CatalogProofs`). It assumes that each id has its tenant, that ids of categories and
products, and products and images, are told apart and that `NoValue` is none of the rows, images and requests. `CatalogInv` says of a
request in progress that the rows it read exist in its tenant (`RequestsThere`), that two requests about one row
have marked it (`Apart`), and that a category not marked is still as the request found it (`AsFound`): in force
for one that puts a product in it, without products for one that deletes it. The lemmas go by what a step
writes: nothing, a category (`CategoryWritten`), a product (`ProductWritten`), or a new request (`Begun`).
`ImageInv` adds the files: each is of the product its name says; a row and a request name images of their own
product or images a body gave (`RowsOwn`, `RequestsOwn`), and a product is created with one of the latter or none
(`InsertsGiven`); a request whose product is not marked, by an overlap or a body, still has the row as it is, or the
image it wrote is the one the row names and not the one it is about to remove (`ReadsRow`); and each file of a
product not marked and not interrupted is named by its row or held by the request about it (`FilesNamed`), so
that none is left when there is no request. A step of one request moves the row and the files of one product, and
of other products only files a body gave (`MovesOnly`); what it then owes is only about that product
(`LeavesRight`), and `ImagesMoved` carries the rest over. `ImageKept` follows step by step from the same invariant.

Only model-checked: `EveryRequestEnds` (liveness under fairness, which the prover does not reach) and the five
violations, which are counterexamples and not theorems.

## What is left out

- In `Sales` and `SalesTx`: the audit log, loyalty and promotion rows written in the same
  transactions (they add no lock that the modelled ones do not already hold,
  but for shared locks of foreign keys, whose only effect, a deadlock victim, `Fail`
  allows at any point); ids are given in commit order; products and customers exist
  from the start, as `createProduct` and `createCustomer` make them, with no stock and no debt.
- A product's soft delete (no operation deletes one) and its price (in `Totals`).
- Edits go one at a time per row: a second `ReadProduct` replaces the first, and a
  promotion's next request waits for the last one to end or be cut short.
- In `Loyalty`, what pricing and scopes make of a sale's lines is an input
  (`eligible`); walk-in sales only take folios, which is one of the reasons a sale
  rolls back.  A promotion's `cantidadObjetivo` does not change.
- The year of a folio: two sales that overlap New Year may both commit.
- In `Sessions`: the expiry of a session (a refresh may find one at any time, as a client may not come back),
  ids of sessions in logout other than the caller's (they match no row), a user's name, email and role, and a second
  membership (no operation gives one); roles and permissions are what the seed made them.
- In `Catalog` and `ProductImages`: an empty sku in a body, the type and size of an image, columns nothing computes
  with; price, stock and status are in `Sales` and `SalesTx`, customers in `Accounts`.
- Not modelled, because they keep no state: dashboard, public catalogue and audit log (an append nothing reads back),
  the application shell; migrations and the seed run once.

## Plan

Next to model: overlapping edits of one promotion, with the cascades of `save()`; the folio's year; the sale with
several lines cancelled under locks, and a sale to a customer whose account others move, when a run can be spared.
Next theorems: what the violated runs leave true: `Serializable` for credit sales and payments when no snapshot is
older than a commit that touched its rows, and by how much stale saves may move a stock or a balance away from its history.
