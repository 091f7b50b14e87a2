# Verification of F3D

F3D is a procurement platform for construction: a contractor asks vendors for
quotes, awards them, sends purchase orders, and books the goods that arrive into
stock. Its rules live in a NestJS backend (`src/apps/backend/src`) over
PostgreSQL through Prisma; the React applications enforce most of them a second
time, for display, and keep two protocols of their own: the renewal of a session
and the public delivery form. This directory holds TLA+ models of the parts where
rules are kept by several handlers, or by a browser and the server, together;
model checks of the models with TLC; and proofs about them with TLAPS.

All paths below are relative to `src/apps/backend/src/` unless they begin with
`src/`.

## 1. How the code runs, and how the modules model it

Every operation is an HTTP handler that

1. reads some rows with plain SELECTs, outside any transaction,
2. checks them in memory and gives up with a 4xx if it does not like them,
3. writes with UPDATEs that name the row by id alone, often inside
   `prisma.$transaction`.

Nothing in the code takes a row lock and no transaction sets an isolation level,
so PostgreSQL runs them at READ COMMITTED: what was read in step 1, and even
what is read again inside the transaction, may have changed when step 3 writes.
Node runs one handler's code at a time between two awaits, but every database
call is an await, and several processes may serve the same database.

The modules keep this shape. A handler is two actions: one named for the handler
that reads, checks and puts a record in a request slot `req[r]` (what it read
and what it will write), and one, `Commit...`, that writes whatever the record
says to whatever the rows have become. Where a transaction reads again before it
writes (the approval of a delivery report, the issue of stock), that read is an
action of its own, and where two transactions meet on rows they both write, the
row locks of PostgreSQL are guards (`RowFree`, `BalanceFree`).
Where the database itself refuses a write (a unique column, a foreign key, an
update of a row that is gone, the guarded `updateMany` on a link), the guard is
named `Enforced` and the refusal is the action `RollBack`. A handler that rejects
its request changes nothing and is no step at all; so an action's guard is the
conjunction of the handler's early returns.

Two requests in flight are enough for every overlap of two handlers; the proofs
are for any number.

Many properties cannot hold when handlers overlap, because the code does not
prevent a stale write. Each module has a history variable `raced` that becomes
true (or, in `PoLifecycle`, `StockIssue` and `EmailLog`, takes in the order, request or mail) when
a request commits although what it read, or what it checked, is no longer so. A
property then says either *under any overlap* (no `raced` in it) or *unless
requests overlapped*. The second kind is not empty: handlers that follow one
another, in any order and number, are all covered, and so are overlapping ones
that do not disturb each other. Nothing but properties reads `raced`, nor the
history variables that play its part elsewhere (`lost` and `mixed` in `BulkOrder`,
`crossed` and `unlucky` in `DeliveryPortal`, `crossed` and `misrouted` in
`PoLifecycle` for change requests, `doubled` and `misrouted` in `RfqAward`,
`lowered`, `counted`, `cut` and `homeless` in `DeliveryReceipt`, `session`, `mishap`
and `late` in `ClientSession`).

Where a request passes between a browser and the server, or the server and the
mail provider, it is in the model from its start to its answer, and either side
may give up or die in between.

## 2. Inventory

| Component | State | Operations | Interacts with | What is hard | What makes it correct |
|---|---|---|---|---|---|
| Purchase order lifecycle (`modules/purchase-orders/po-status.service.ts`, `po-state-machine.ts`, draft editor in `purchase-orders.service.ts`) | an order's status, approval status, type and total, `issuedAt`, its PO_VIEW link | issue, approve, decline, confirm, accept, vendor decline, the three portal twins, receive, edit | roles and thresholds, access tokens, receiving, mail | nine handlers write one status column after a check on an older read | only legal edges; a released order was decided on by somebody with the authority, for the total it carries; mailed once; has a link |
| Receiving goods (`po-status.service.ts`, `modules/deliveries/deliveries.service.ts`) | delivered quantities, status, delivery reports, stock pushed | manual receipt, report create, approve, reject | inventory, order lifecycle, change requests, portal | quantities written as absolute values from an old read, stock as an increment; reviews that overlap; change requests that rewrite what was ordered meanwhile | stock covers what was delivered; a report is applied once or not at all; over-receipt only by report; status tells quantities |
| RFQ, quotes and award (`modules/rfqs/rfqs.service.ts`, `quote-response.service.ts`) | request status, lines, invited vendors, links, quotes and their lines, orders made | draft edit, send, invite, submit (signed in or by link), revise, approve, decline, award, split award, cancel | access tokens, orders, mail | a fire-and-forget job mails links; edits replace rows that quotes refer to; awards check quotes read earlier; a revision deletes rows and then makes others | a link brings one quote; quotes answer the lines there are; shares within offers; one order per quote |
| Material requests (`modules/material-requests`) | request status, lines, the document it became | create, update, submit, approve, decline, cancel, convert to an RFQ or an order | inventory, RFQs, orders | approval issues stock inside its transaction, on a check made before it; two conversions overlap | issued once and as asked; converted into one document, for the lines it has |
| Inventory (`modules/inventory`) | balances per material and location, movements | applyIn, issueOut | receiving, material requests | `issueOut` compares with a balance read before | a balance is the sum of its movements |
| Bulk orders (`modules/bulk-orders`) | per line its quantity, what was ordered and what remains; drawdown rows; status; change requests | line edits, drawdown, drawing by an order, coverage of an RFQ, cancel, change | orders, RFQs | a drawdown is two statements with no transaction; three handlers write numbers reckoned from old reads | a line's columns add up and agree with its drawdown rows; coverage loses nothing of an RFQ |
| PO change requests (`purchase-orders/po-change.service.ts`) | change status, the order's revision, total, quantities and location | propose, approve, reject | order lifecycle, receiving | approval of a row read before, on an order that lives on, or on the order of another route | the revision counts the changes; a release still rests on a decision |
| Access tokens (`modules/access-tokens`) | hash, expiry, attempts, used, revoked | issue, issue if none live, validate, consume, revoke, prune | everything reached by link | the row is read, then counted, then used | a consumed link stays so; calls are counted |
| Delivery portal (`modules/deliveries/delivery-portal.service.ts`, `delivery-code.service.ts`, `src/apps/web/.../PublicDeliveryPage.tsx`) | a list of codes per address, sessions, reports, the step of the form | request a code, verify, submit, upload, finalize | tokens, receiving, mail | one row of codes replaced as a whole; five calls that make one submission, any of which is lost or refused | a code opens one session; the newest codes work; "submitted" is true |
| Invoices (`modules/invoices`) | status | approve, reject, bulk approve | orders | bulk approval is one guarded UPDATE, single approval is not | decided once |
| Email log, mail sending (`modules/email-log`, `modules/notifications`) | an event list and a rolled-up status per mail | send with retries, record sent, record failed, provider event | mail provider | provider events repeat, overtake and overlap; sends are retried and rows lost | every event is counted once, the status is the highest on file, every mail and event gets on file |
| Sign-in and accounts (`modules/auth`, `modules/users`, `src/packages/api-client`, `src/packages/auth`) | the user's refresh hash and status; cookies; per tab a refresh flag and queue | sign-in, refresh, logout, reset, deactivate | permissions | many requests meet one expired token; two tabs share the cookies; the answer of a rotation is lost | one refresh per tab; expiry is invisible; a closed session stays closed; every request settles |
| Material catalogue, projects, companies, vendors, roles, BOMs, lists, document extraction, messages, storage, export, views, audit, HTTP layer, other pages | rows of their own | single-row create, read, update, delete | | little: no state two components must agree on | |

Statuses that exist in the schema and that nothing writes are worth knowing:
`CLOSED`, `APPROVED`, `SCHEDULED_FOR_DELIVERY`, `LATE_FOR_DELIVERY`, `INVOICED`,
`DISPUTE`, `CHANGE_PENDING`, `DECLINED` and `NOT_DELIVERED` of an order, and all
but `DRAFT`, `OPEN`, `AWARDED` and `CANCELLED` of an RFQ. So `archivePurchaseOrder`
and `archiveRfq`, which ask for `CLOSED`, can never succeed and are not modelled.

The main hazards these components are exposed to are listed, each at its line, in
`PROJECT.json`; every property below, the type invariants aside, was written
against one of them. Smaller ones, which the models have and no property is
about: a purchase order draws from a bulk order that was cancelled, and can set it
to COMPLETED (`purchase-orders.service.ts:664`); a change proposed while its bulk
order is being cancelled stays pending (`bulk-order-change.service.ts:56`); an event
of a mail not on file is acknowledged and lost (`email-log.service.ts:132`); a retry
after a broken connection mails twice (`notifications/resend.service.ts:115`); a submit sent again makes a second report
(`PublicDeliveryPage.tsx:471`); a printed QR code serves ten calls
(`po-status.service.ts:1029`). two drawdowns that each fit into what
remains are both recorded (`bulk-orders.service.ts:328`). And three that are not
modelled: references of change requests repeat (`po-change.service.ts:439`), two
senders who both find no live token issue two (`access-tokens.service.ts:114`), and
the numbers of material requests and delivery reports are one company's count plus
one in a column that is unique over all companies
(`material-requests.service.ts:659`, `deliveries.service.ts:556`).

## 3. Modules

| Module | Models | EXTENDS / INSTANCE |
|---|---|---|
| `PoStateMachine` | the transition table and `canTransition`; no state | |
| `PoLifecycle` | the handlers on an order's status, approval and type, and its change requests | `PoStateMachine` |
| `PoContract` | what those handlers promise when they do not overlap: one atomic step per handler | instantiated by `PoLifecycle` |
| `DeliveryReceipt` | receipts, delivery reports and stock of one order, whose quantities change requests rewrite | `PoStateMachine` |
| `RfqQuotes` | one RFQ from draft to decision, its links and quotes | |
| `RfqAward` | approval, award, split award and revision of the quotes of RFQs of one line | |
| `StockIssue` | material requests and the balances their approvals draw on | |
| `ClientSession` | requests of a browser's tabs, the refresh of their session, its ends | |
| `EmailLog` | the send of a mail, its row, and the provider's webhooks | |
| `BulkOrder` | one bulk order: drawdowns, edits, changes, coverage of one RFQ | |
| `DeliveryPortal` | the form behind one delivery link, its codes, sessions and uploads | |
| `PoLifecycleProofs`, `DeliveryReceiptProofs`, `RfqQuotesProofs`, `RfqAwardProofs`, `StockIssueProofs`, `EmailLogProofs`, `BulkOrderProofs` | theorems | the module of that name, `TLAPS` |
| `BrowserProofs` | theorems about the two models with pages of a browser in them | `ClientSession`, `DeliveryPortal`, `TLAPS` |
| `MC` before the name of each module with state but `PoContract` | values for TLC | the module of that name |

### PoLifecycle

`po[p]` holds the four columns the handlers decide on. A request keeps the row it
read (`snap`), the row as the handler means to leave it (`row`), the columns its
UPDATE names (`writes`), whether the transaction stamps `issuedAt`, mails the
vendor and mints the link (`sends`), and the approval decision it rests on.
`Written` is the UPDATE: named columns only, on the row as it is by then.
`Threshold` is the table of approval limits: roles outside its domain lack the
grant, and `SuperAdmin` is not evaluated. The grants do not change during a run.
`ExpireLink` is time passing; a link that is not live also stands for one whose
attempts are used up.

Change requests (`Talk`, `ProposeChange`, `StoreChange`, `ReadChange`, `Resolve`
and what follows) are read by one statement and written by a later one, by id. The
order an approval revises is the one its route names, and nothing compares it with
the request's own (`ReadChange` takes both), so a request of one order can be
resolved under another: the first has its request approved, the second its
revision counted. `misrouted` holds both. An approval gives the route's order a
total recomputed from its lines and adds one to its revision; it consults no
threshold, and no status of the order. So `ReleasedWithinAuthority` is about orders at revision 1, and what
holds at any revision is `NoReleaseWithoutDecision`. `crossed` marks an order with a
change request that was resolved again after it had been: the revision, which is
an increment, is then ahead of the approved requests. `RevisionCountsChanges` says
that on orders which are not `misrouted` this is the only way, and that there the
revision is never behind.

A receipt is here only as a status move; the quantities that decide between
`PARTIALLY_DELIVERED` and `DELIVERED` are the business of `DeliveryReceipt`.
In turn, `DeliveryReceipt` has the order already sent, and only those handlers
of `PoLifecycle` that a receipt can meet, each as one step.

`PoContract` is the abstract specification. It has no requests: an order is
held, sent, released, acknowledged, withdrawn, accepted, refused by the vendor
or received, each in one step, from the statuses the handlers accept, with the
number of mails sent along. An order that `raced` may do anything. The
refinement (`Contract` in `PoLifecycle`) maps statuses and mails
from the stored rows: reading is a stutter and a commit is the step of the
contract, or the order has raced.

### DeliveryReceipt

The order's status and quantities, the stock its lines pushed into inventory,
and the reports. Three code paths share one applier
(`applyDeliveryDeltasTx`): the manual receipt turns cumulative figures into
deltas, the approval of a report turns received and damaged counts into deltas
(`Accepted`), both project and pick the status from what they read
(`NextStatus`), and `Apply` writes absolute quantities and increments stock.
`RecheckReport` is the second read of the report inside the approval's
transaction.

What is ordered is not fixed. A change request may be proposed while the order is
sent, acknowledged or accepted, and approved at any status: `ApproveChange` then
gives its lines new quantities and the header a delivery location or none
(`Revise`), and leaves the status to the next receipt or approval. It is one step
here, as its two are in `PoLifecycle`, and the request may stay pending, for an
approval that overlaps. `ApproveChangeOfAnother` is the approval of another order's
request under this one's route: lines of another order are skipped, header fields
are not. What a receipt judged by are the quantities it read; `counted` keeps those
of the last one that wrote, and `StatusTellsQuantities` holds the status to them. It
says in particular that a change approved after a delivery is not looked at before
the next receipt, and then as a whole. `cut` holds the lines whose quantity
a change lowered, on which a delivered quantity may exceed the ordered one with no
report saying so.

A line moves stock if it has a catalogue material and a place, its own or the
header's as the receipt read it (`Moved`). `Tracked` are the lines of which this is
sure to have been so at every receipt: those with a place of their own, and the
others unless the header has been without one (`homeless`). A line that was
received without a place is never booked later. A report says one thing of a line; several entries
for one line are summed by the code, which the model's figures stand for.

### RfqQuotes

The RFQ row carries two generation counters, `lines` and `vendors`: the edit
handler deletes and re-creates those child rows, so a reference from an
earlier generation dangles. A quote refers to lines by foreign key, a link to a
vendor row by an id in its metadata, without one. `Enforced` says which of these
the database defends. `CommitSend` turns the request into the job that mails the
invitations, which goes on in the background, one link per vendor, and may
die at any point (`EndInvitations`): its caller swallows the error. The code
reads the vendors at the start of the job, the model at the commit of
the send; an edit that falls between the two has the same effect as one just
before the send. Editing the vendors of an open request kills the links mailed
earlier; that is visible in the model (a link whose `row` is not current cannot
be used) and no property forbids it, as no document does.

### RfqAward

RFQs that ask for `Requested` of one line each, and quotes as rows offering some of
it. A row has an id, and its `approved` share once a split award has granted one. A
revision's transaction is two steps, `DeleteLines` (deleteMany, which deletes the
rows that were committed when it starts) and `CommitUpdate` (createMany): at READ
COMMITTED two revisions of one quote may each delete the rows they see and make
their own, and both rows stay, as no key on quote and line forbids it. `doubled` holds the quotes
whose last revision left rows it had not seen. A split award
updates the rows it read by id, and fails if a revision has deleted them
(`Enforced`). So `ApprovedWithinOffer` has two parts: of a row, no more is approved
than it offers, under any overlap; and a quote that is not `doubled` has one row, so
that its row's offer is the vendor's. On a doubled quote a split award may approve
the share of each row.

Approving and awarding write the request their route names and check the quote
alone, so the request is an input of its own (`route`), which may not be the quote's;
then the quote's own request stays as it is, and the other one is awarded.
`misrouted` holds both. A split award does compare (`AwardSplit`).
Order numbers are worked out before the transaction (`TakeNumber`) and unique in
the database. Orders of other requests of the company would only make
`Enforced` fail more often. Quotes arrive at any time, so
this module allows everything `RfqQuotes` lets happen to them. The bound on
revisions is checked when one begins; two in flight may both pass it.

### StockIssue

Material requests with their lines, one balance row per place (a material at a
location), the sums of the movements in (`received`, by place) and out
(`issued`, by line), and the documents requests were converted into. A line
keeps its content and its owner: replacing the lines of a draft takes new ids.

An approval is the one transaction of the project modelled statement by
statement, as the question is what it reads while it runs: `Approve` (the read
outside), `OpenApproval` (the request's row is written, and locked), for each
line `ReadOnHand` and then `IssueOut` or `IssueNothing`, and `CommitApproval`.
Writes not yet committed are kept in the request slot (`taken`, `out`), so that
only the transaction itself sees them; a balance row taken from is locked, and
who wants it waits. `RollBack` is possible at any time: two approvals that lock
two balances in opposite order are a deadlock which PostgreSQL ends this way,
and a timeout or a number taken meanwhile end the same. The number of a new
document is not modelled: taking the same number twice only makes one of two
conversions fail, and taking it late makes both succeed.

`raced` holds the requests written by a handler whose check no longer held,
`stale` the places from which an approval took although the balance had gone
down since it read it. `ApplyIn` is `DeliveryReceipt`'s push into stock, seen
from the other side, one unit at a time.

The sum of the issues at a place (`Total`) is a number of units: pairs of a line
and a number up to what the line issued. So it is a cardinality, and what one
more issue does to it can be proved without an induction over the lines.

### ClientSession

One user, one browser, any number of tabs. Pairs of tokens are numbered as they
are minted; a request carries the pair that was in the cookies when it was sent.
The interceptor's callbacks are one action each: `Queue` and `AskRefresh` are the
two branches for a 401, `Refreshed` replays the queue and then the leading
request, `GiveUp` is the catch and finally blocks. At the server a refresh is the
guard (`Validate`: the strategy reads the hash) and the handler (`Rotate`: it
overwrites the hash), and its answer is a third step, which may be lost
(`RefreshLost`) while the server goes on. `Rotate` takes in the handler's own read
of the status just before its write, and the answer of a logout is
received with its effect; both only leave out interleavings
with an administrator or a sign-in in the same few milliseconds.

### EmailLog

A mail is sent in up to `MaxAttempts` attempts; a retryable failure may hide an
accepted copy (`copies`), of which the provider reports under an id nobody knows.
Such reports are dropped by the code as of an untracked mail, and left out. A
webhook finds the row, looks for the event and files it (`Find`, `Look`, `File`):
the last is two statements of one transaction, and the unique key decides between
two deliveries of one event. The provider delivers again what was not answered
with 200, also over `HookFails` and `AckLost`. Events are a type and a time, and
none has to have happened before another.

### BulkOrder

A line is its quantity, what was ordered and what remains; `drawn` is the sum of
its drawdown rows, written before or with the columns. A drawdown by hand inserts
its row and then updates the line, with nothing around the two statements; an
order draws line by line in a transaction which holds each row it has updated
(`held`, `Free`); a coverage reads everything first. `Drawn` and `Edited` say
which columns each handler reckons from its read and which it leaves as they are.
`Fail` ends any request wherever it waits. `pending` is what is drawn by
drawdowns whose second statement is still to come; `lost` are the lines on which
drawdowns overlapped or one died half way, `mixed` those on which an edit of the
quantity overlapped a drawdown. The RFQ is the quantity it asks of the material
of each line. A line id that is `NotYet` waits to be added by a change.

### DeliveryPortal

A page goes from the address to the code, the form, the uploads and the summary,
and awaits requests that go on at the server when it stops awaiting them. The
codes of an address are one row, a list replaced as a whole: `Identify` and
`Verify` take what they read along and `StoreCode`, `VerifyMatch` and `VerifyMiss`
write it back. Codes are numbered in the order they are generated, and expire in
that order; `Unexpired` lists the live ones by rank, which is what the filter of
the code leaves and, unlike a fold, can be proved about. Names that `ClientSession`
has too are spelt out here (`PortalTypeOK`, `PortalSpec`, `Reply`, `StopWaiting`), so
that one module can extend both. A session is a token: every call reads it, counts itself (`Admit` or
`TurnAway`), and does its work in a later step; `Consume` is guarded by the row as
it is. An upload carries no token, because the headers it sets for
its form data replace those with the token (`Upload`), and the guard refuses it before it looks
up or counts anything (`RefuseUpload`); `failed` holds the files refused or given up
on, and the page, which settles uploads with `allSettled`, does not look at it. So
the handlers behind the upload routes, which store a file, are not in the model.
Counts are capped at their limit, as the code only compares them with it. Some
round trips are merged: counting a call of the link with the read of the codes,
hashing a code with that read, the deletion of
the codes' row with the issue of the session, expiry of a session is noticed
when it is used. All pages use one address, the only case in which they meet.
Left out: the expiry of the link itself, and asking for another code while a
verification is still awaited.

## 4. Runs

All runs use breadth-first search of the full state space of the instance, within
the `CONSTRAINT`s named below. The largest have about two million distinct
states (`po_lifecycle`, `delivery_receipt`, `rfq_award`).

| Run | Instance | Shows |
|---|---|---|
| `po_lifecycle` | 1 order and a second one at rest, 2 requests, 1 change request that either's route may carry, totals {1, 2}, an administrator, an officer with cap 1, a foreman without the grant | under any overlap: no release without a decision, a revision never behind its changes, approvals under another order's route aside; unless raced: total within authority; unless resolutions crossed: a revision for every change; and the contract is implemented |
| `delivery_receipt` | 2 lines ordered 1 and 2, one from the catalogue; 2 reports, 2 requests; 2 change requests, one that lowers a line, raises the other and takes the location away, one that cancels both lines; manual receipts stop once a line's stock is over 1 | under any overlap: stock covers deliveries; otherwise: it equals them, the status tells quantities as last counted, a report is applied as decided |
| `delivery_double_approve` (violation) | the same, no change requests | two approvals pass the second read and both apply |
| `rfq_quotes` | 2 vendors, 2 quotes, 2 links, 2 requests, 1 replacement of lines or vendors | under any overlap: a link brings one quote, quotes answer the lines there are, a link that opens belongs to an invited vendor; otherwise: vendors under consideration are invited and have one pending quote |
| `rfq_award` | 2 quotes of one RFQ, offers of 0 or 2 of 2 requested, a second RFQ whose route may be used, 2 HTTP requests, 1 revision each (2 when they overlap) | under any overlap: shares within the offers of their rows, and one row per quote unless its last revision overlapped another; otherwise: one order per quote, a decision stays |
| `stock_issue` | 2 material requests, 3 lines of which 2 draw on one balance, 2 documents, 2 HTTP requests, 2 units received | under any overlap: the balance is the sum of its movements; unless an approval took from a balance that had gone down: no balance below zero; unless raced: issued once and as asked, converted into one document |
| `client_session` | 2 tabs, 3 requests, 1 end of the session or new sign-in; any number of expiries and lost answers | one refresh per tab; nobody is signed out by an expiry alone; a closed session stays closed; every request settles unless queued too late |
| `session_stranded` (violation) | the same | a request queued too late never settles |
| `email_log` | 1 mail, 2 attempts, 3 events of 2 types, 2 webhooks at a time, 2 faults | each event counted once, the status the highest on file unless webhooks overlapped, every mail and every event gets on file |
| `bulk_order` | 2 lines of which one is there at first, 2 requests, quantities {1, 2}, 1 change request | drawdown rows cover the columns and agree with them unless drawdowns overlapped or died; columns add up unless an edit overlapped; coverage loses nothing |
| `delivery_portal` | 2 pages, 2 requests, 1 file, 3 codes of which 2 active, 2 misses, 5 and 4 calls, 2 faults | a code opens one session; the row holds the newest codes, unless writers crossed; a page that says submitted has made its report and ended its session, exactly one if no call was lost and no session turned away |
| `portal_uploads` (violation) | the same, no faults | the uploads of a submission are refused |

Fairness is assumed in two runs, and only of what the code or its environment
drives by itself:

- `client_session`: weak fairness of `Answer(r)`. Axios answers every request it
  sent, with data, an error or its timeout of 30 seconds. Nothing is assumed of
  the server.
- `email_log`: weak fairness of a dispatch once begun (a loop of at most
  `MaxAttempts` turns that ends in a record) and of a webhook in the server;
  strong fairness of the arrival of a webhook, as the provider repeats an event
  until it is acknowledged and two repetitions may compete for a slot. That the
  number of faults is bounded is part of it: a provider or database that fails
  for ever is not expected to deliver.

The other modules have no fairness and no liveness property: a request in flight
may never be finished (the process may die), no scheduler or retry would take it
up again, and every handler leaves the rest of the system free to go on.

Why the bounds are enough for these questions:

- Staleness takes a reader and a writer, so two requests. A third adds only a
  second writer in between, whose effect on the reader is that of the first.
- Orders do not touch each other in `PoLifecycle` but through an approval that
  names a change request of one under the route of another. So one order is worked
  on, and a second, a draft at rest, lends its route (`SecondAtRest` in
  `MCPoLifecycle`). Such an approval reaches no column of the first order that its
  handlers read, so states with one behind them and a handler in flight are left
  out; the change requests go on. The theorems have no such restriction. One change request
  proposed, approved and sent again by two requests reaches every way in which
  resolutions overlap. Two totals
  with a cap equal to the smaller one reach both sides of the threshold and its
  boundary.
- Two lines tell "every line" from "some line". A tracked line ordered 1 and an
  untracked one ordered 2 give partial delivery on a line and on the order. The
  two contents of a report include a partly damaged return with more kept than
  ordered, a line that did not come and a damaged line that was kept.
  `MaxStock` ends the otherwise endless lower-and-raise cycle of manual receipts;
  reports may still push past it. Quantities and overlaps multiply, so
  `MCDeliveryReceipt` takes them in turn: the overlaps of two requests and of two
  reviews on an order whose quantities and location are those it was sent with, and, once a
  change is proposed or the location is gone, one report and one request at a time
  (`AloneWhenChanged`), which may have read the order before the change and write
  after it. A location taken away stays away (`LocationLost`). The theorems have no
  such restriction.
- In `RfqQuotes` two vendors let one drop out while the other stays; two links
  let the same vendor hold two. One edit is enough to make every reference stale.
- In `RfqAward` offers of 0 (not quoted) and 2 of a line of 2 allow a full award,
  a real split with shares of 1, a double award and a share above a revised offer.
  `FewRows` bounds the rows made to four: two quotes and two revisions, of one quote,
  overlapping or not, or of both. Of the second RFQ only its route matters
  (`SecondAtRest`): it has no quotes and is not cancelled, and states with a request
  in flight after a decision under its route are left out. The theorems have no such restriction.
- In `StockIssue` one line asks for 1 and one for 2 of a balance of at most 2, so
  that stock covers all, part or nothing of what is asked, alone and together.
  The lines are spread over the requests in every way: one request with both,
  or two that compete, or one line held back for an update to bring in. The
  third line is not in the catalogue. Two documents let a request be converted twice.

- In `ClientSession` a second request in one tab is queued behind the first, and
  the third refreshes from the other tab. One change is enough, as every property
  is about the time after one. Pairs are not bounded: only a refresh mints one,
  and each request asks for one at most.
- In `EmailLog` two events of the type that is counted and one of a lower rank
  come in every order; two faults hit the same event twice.
- In `BulkOrder` two draws of a line reach overlap, exhaustion and overdrawing;
  the second line is added by a change, and makes the tally of an order depend
  on more than the lines it draws.
- In `DeliveryPortal` a third code pushes the first out of a row of two; four
  calls of a session (uploads do not count) are a submission twice over, so that a
  third attempt meets the limit; five with the link let a page start over.

Symmetry is declared for interchangeable ids (vendors, quotes, links, reports,
documents, pages and requests) and only in runs without liveness. The lines of an order
are not symmetric and are not declared so. `CHECK_DEADLOCK FALSE` is set where
the system comes to rest: an order in a terminal status takes no request, a
complete one no report, and a material request that has ended nothing once all
receipts have come; a session that ended, a mail with all its events on file, a
bulk order drawn to its bound and a link with all its calls used stop too. In the RFQ modules cancelling is always possible, and the
check is on.

Each property is tied to a mutant: an operator in the module, next to the one it
would replace and marked `Mutant:`, that is the code with one plausible mistake.
Each property is violated when its mutant is put in.

## 5. Where the code and its comments differ

The violation runs each check one sentence of the repository against what the
code does; `PROJECT.json` quotes the sentences. In short:

1. `delivery_double_approve`: the re-read inside the approval transaction does not
   stop a second approval under READ COMMITTED (`deliveries.service.ts:439`).
2. `session_stranded`: the interceptor's queue is emptied before the leading
   request's replay, and the flag is lowered after it; a request queued in between
   never settles (`src/packages/api-client/src/interceptors/auth.interceptor.ts:72,97`).
3. `portal_uploads`: `portalConfig` spreads the caller's config over the object that
   holds the session token's header, and the two uploads bring headers of their
   own, so they go out without the token; the guard answers 403 and `allSettled`
   hides it (`src/packages/api-client/src/endpoints/deliveries.ts:164-175,249-252,268-271`,
   `modules/access-tokens/access-token.guard.ts:37-40`). Behind it waits a second
   disagreement that no call reaches today: the page names the order's line in the
   upload of a damage photo (`PublicDeliveryPage.tsx:484`), the handler looks for a
   line of the report (`delivery-attachment.service.ts:150`).

Met while modelling, in the models as the code has them, and without a run:

- Status writes are checked on a row read earlier and then made by id, so an
  order can leave a terminal status (`po-state-machine.ts:7-9,26-27` says it
  cannot). `PoContract` lets an order that raced do anything for this reason.
- A manual receipt with a smaller cumulative figure does change something
  (`po-status.service.ts:930` says only a positive delta does); stock stays, so
  raising the figure again books the goods twice. `lowered` marks it.
- The quantities approved over all vendors may exceed the requested quantity, as
  each split award looks at itself only (`prisma/schema/rfq.prisma:301-302`).
- Approved quantities do not survive a revision of the quote after the award
  (`rfqs.service.ts:1376-1377`).
- Two issues that read one balance both take its last units, and it goes below
  zero (`inventory.service.ts:121-126` says the read is consistent).
- What was issued from stock is ordered as well (`material-requests.service.ts:317-318`
  says that what is not covered flows on).
- Approving a change request consults neither a threshold nor the order's status:
  it rewrites ordered quantities after deliveries, and the order keeps a status that
  does not tell them until the next receipt (`po-change.service.ts:283-307`).
- Approving and rejecting a change request take its order to be the one in the
  route (`po-change.service.ts:257-333,364-394`), and approving and awarding a quote
  its RFQ (`rfqs.service.ts:1146-1160,1195-1271`); no statement compares the two. An order
  can so be one revision ahead and another one behind, and an RFQ be awarded
  without an approved quote. `misrouted` marks them.
- Two revisions of one quote that overlap leave the line rows of both
  (`quote-response.service.ts:262-266`; `rfq.prisma:282-312` has no unique key on
  quote and line), and what is then awarded is more than the vendor's offer.
- A verification hands its address to the service as the submitter's name
  (`deliveries-portal.controller.ts:84`).

## 6. Proofs

TLAPS proves, for every value of the constants that satisfies the named
assumptions of the module (quantities are natural numbers, `NoRequest` is not a
request, and the like), what TLC shows on the instances above.
All theorems have the form `Spec => []Inv` or `Spec => [][A]_vars`.

| Module | Theorems | Argument |
|---|---|---|
| `PoLifecycleProofs` | `TypeCorrect`, `Authority`, `Decided`, `Revisions`, `SendAndDecline`, `LinkMinted`, `Legal`, `Implements` | What a handler read and what it will write is a pair of rows nobody else touches. `Sound` says the pair is a step of the contract with the authority it needs; it is true when the handler reads and stays true. If the stored row is still the one read, the commit takes the stored row along the pair; if not, the order joins `raced`. For `Decided`, decisions are never forgotten, so one seen at the read is still there at the commit. For `Revisions`, an approval adds one to the route's revision and at most one request to the approved ones of the request's order, exactly one unless it crossed another resolution; if the two orders differ, both are `misrouted` from then on, and the counts of all others stay. `Implements` maps every commit to a step of `PoContract` and everything else to a stutter. |
| `DeliveryReceiptProofs` | `TypeCorrect`, `StockFollowsDeliveries`, `OverReceipt`, `StatusFollows`, `DecisionsApplied`, `Completion` | Stock only grows, so it covers what a request read (`Covered`) for as long as the request is in flight; writing that plus the delta while adding the delta to stock keeps it covered, however old the reading is. Without a race the quantities written are those stored plus the delta. What a request read of the ordered quantities and the location bounds what they are now on lines no change has cut, and while the header never was without a place (`Informed`, `OrderFollows`). |
| `RfqQuotesProofs` | `TypeCorrect`, `LinksAreSpentOnce`, `RowsMatch`, `InvitedOnly` | Row generations only grow, and a link or job of the current generation is for a vendor invited now (`Dated`). Requests refer to links and quotes that exist, and these are never deleted (`RefersToRows`). A draft has no quotes unless raced, so sending cannot meet uninvited ones. |
| `RfqAwardProofs` | `TypeCorrect`, `SharesWithinOffers`, `OneOrderPerQuote`, `StatusTellsQuotes`, `DecisionsStand` | Row ids only grow, and a split award in flight is within the offer of each row it read, if that row is still there (`Sound`); the transaction writes to those rows or fails. A revision whose DELETE has seen all rows of its quote leaves one (`OneRow`), and one that has not puts the quote into `doubled`. Without a race the handler's check is true of the quotes it writes. |
| `StockIssueProofs` | `TypeCorrect`, `ClampCovers`, `IssueOnce`, `ConvertOnce`, `LedgerKept` | A balance is taken from by one open transaction at a time (`Exclusive`, the row lock) and covers what that one holds (`Covered`), unless it fell between read and write. What an approval holds for a line is within what the line asks (`Sound`), lines belong to one request for good (`LinesOwned`), and a check that still holds at the commit finds nothing issued and no document. For `LedgerKept`, what an open transaction took from a balance is what it holds for the lines of that place (`TakenByPlace`), so the commit takes from the balance and adds to the issues the same number of units (`TotalAdds`). |
| `BrowserProofs` | `TypeCorrect`, `OneRefresh`, `StaysClosed`, `Invisible` | Of `ClientSession`: the flag of a tab is up for exactly one leading request (`Leads`). A session closed with no refresh past its guard leaves the hash empty, and an empty hash lets none past (`Shut`). While nothing but expiries happens, at most one refresh is under way and carries the pair the user row accepts, so it is never refused (`Calm`). |
| `BrowserProofs` | `PortalTypeCorrect`, `CodesOpenOnce`, `NewestAccepted`, `SubmissionsHaveReport` | Of `DeliveryPortal`, in three layers. `PortalSound`: requests, pages and rows have their types, two pages never hold one session, a page awaits a request only for a call its step allows, and what a request or report refers to exists. `CodesSound`, as long as the row was never written over unread codes: the row is what the list of due codes begins with, and what it leaves out is over unless the row is full; each request in flight read a list whose unexpired part is a beginning of it; no due code opened a session, and a code not yet stored is newer than all its request read. `ReportsSound`: a page that sends or sent its submission has a session with a report; while no call of the page was lost and no session turned away, that report is the session's only one and every request of the session is awaited by the page. |
| `EmailLogProofs` | `TypeCorrect`, `CountedOnce`, `OrderIndependent` | A row is recorded once and before its first event (`Rows`), and an event is filed and rolled up in one step, guarded by the key (`Filed`). The count is a cardinality that grows by one; the highest of a set and one more is the higher of the two (`HighestGrows`). |
| `BulkOrderProofs` | `TypeCorrect`, `OrderedAccounted`, `ColumnsAgree`, `NothingLost` | A request writes what it reckoned from its snapshot, so the invariant says of each snapshot in flight what the properties say of the row (`SnapOK`): `drawn` only grows, so it covers an old snapshot too; a quantity that changed meanwhile puts the line into `mixed`, a figure drawn meanwhile into `lost`. For coverage, what an RFQ asked for when it was read is no less than what it asks for now. |

In each module `IInv` (`Inv` in `BulkOrderProofs`; for the portal, `PortalSound` with
`CodesSound` or `ReportsSound`, and `Ledger` besides `IInv` in `StockIssueProofs`) is
the inductive invariant:
type correctness, the soundness of the requests in flight, and the invariants to
prove. The invariants alone are not inductive: without soundness, a request in
flight could hold anything and break them at its commit. One lemma for the
initial states and one per action or group of actions (`...Keeps`, `...Step`)
prove the two induction steps, and `Invariance` or `Inductive` is
`Spec => []IInv`.

Some theorems are about properties no run checks, as they were found out to be
consequences of the shape of one action or follow from others: the decline's
two columns, mailing once and never a SPLIT order (`SendAndDecline`, which the
contract shows too), the PO_VIEW link (`LinkMinted`), the table of edges (`Legal`,
likewise), over-receipt (`OverReceipt`), completion (`Completion`), the status of an
awarded request (`StatusTellsQuotes`).

The assumptions are on constants only. Most say of which kind a value is; three
sets have to be finite, as rows of a table and events of a log are: `Change` in
`PoLifecycle`, `Event` in `EmailLog` and `Line` in `StockIssue`. The bounds of the runs
(`MaxCodes`, `MaxFaults` and so on) are any natural numbers in the theorems.

Only model-checked:

- The liveness properties `SettlesUnlessLate`, `EventIsLogged` and `MailIsLogged`,
  as fairness is beyond the prover.
- The violation runs, which are counterexamples.

## 7. Not modelled, and the plan

Left out of the modelled components: creating and copying drafts (a new row
nobody refers to), archive (see section 2), deleting a draft, single-line review
statuses of a quote, documents and attachments other than the portal's, texts of
mails, PDF, money beyond the total compared with thresholds, audit rows (written
and never read back), revoking and pruning tokens, passwords and one-time codes.
Invoices, the catalogue, projects, companies, vendors, roles, lists, document
extraction, messages, storage, exports, dashboards and most pages of the web
application are not modelled: they are most of the repository's lines, and what
they keep is single rows which no second component must agree with, reads, or
layout. `PROJECT.json` gives the reason for each.

The order of work was and is:

1. Order lifecycle with its contract, then its change requests.
2. Receiving goods.
3. Quotes, then awards.
4. Material requests and stock.
5. The session of a browser, as everything goes through it.
6. The email log.
7. Bulk orders.
8. The delivery portal, with its tokens.
9. Proofs about every module, the last ones about the ledger and the portal: no
   safety property of a run is without its theorem.
10. Next: `RfqAward` over an RFQ of two lines, with the orders of a split award per
    project.
11. A token module of its own, with issue if none is live, revocation and
    pruning, of which the links of `PoLifecycle`, `RfqQuotes` and `DeliveryPortal`
    become instances.
12. Numbering: requests, reports and orders take a number per company from a
    count or a maximum, and the column is unique over all companies.
13. Accounts and the last administrator.
