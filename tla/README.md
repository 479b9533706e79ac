# A verification of the marketplace: its services and its browser application

The marketplace pools demand: customers open and join *requests* for an item, sellers
answer a request with an *offer*, an admin approves an offer, and the approval lets the
seller see the phone numbers of the customers behind the request.  Each service owns a
Postgres database and calls the others over HTTP; notifications travel through an outbox
table, RabbitMQ and an idempotent consumer.  Nothing spans two databases in one
transaction, so the correctness of the whole rests on locks and unique indexes inside a
service, and on the order of steps between services; and in the browser, where every page
shares one store and nothing cancels a call, on the order in which answers arrive.  Those
are what is modelled here.

## Inventory

| Part | State | Operations that change it | Talks to |
| --- | --- | --- | --- |
| request-service | `purchase_request` (totals, status), `request_participant`, outbox | Create, EnsureForItem, Join, UpdateQuantity, Leave, SetOfferCount | customer-service (who is calling); is called by offer-service and admin-service |
| offer-service | `offer` (terms, status), outbox | submit, update, cancel, set_status | request-service (does the request exist, ensure one, report the live-offer count), auth-service (the admins), seller-service |
| admin-service | `offer_decision`, `contact_access`, outbox | Decide (approve, reject), Revoke; reads contacts | offer-service (read, PATCH status), request-service (participants), identity services |
| outbox relays | `notification_outbox.published_at` | drain, in each producer | RabbitMQ |
| notification-service | `processed_event`, `notification` | consume an event; create, bulk, mark read over HTTP | RabbitMQ |
| auth-service | users, refresh tokens | register, login, refresh (rotate), logout, update | - |
| customer-, seller-service | one profile per user | create, update | auth-service |
| frontend: session | the auth slice, tokens in localStorage, the page shown | sign in, register, create a profile, sign out; load the session; refresh on a 401 and retry; redirect | auth-, customer-, seller-service |
| frontend: pages | the offers, requests, admin and notifications slices; forms, dialogs, timers; object URLs | one thunk per endpoint, each dispatched by a page, a form or a timer and settled in any order | all services |

What is hard in it, and the property each needs (`PROJECT.json`, "hazards", gives lines):

* request-service: concurrent creates of one item; totals and a status recomputed by
  concurrent joins, leaves and offer counts at READ COMMITTED; two kinds of locks; the
  message sent to a joiner.  *One request per item; totals and status always those of the
  participants and offers; operations atomic; every transaction ends.*
* offer-service: every call reads, awaits, and writes by primary key.  *One live offer per
  seller and request; a decided or cancelled offer stays so; terms frozen once decided;
  request-service's count is right.*
* admin-service: a decision is two commits in two databases with an HTTP call between,
  a timeout on it, and a seller free to act meanwhile.  *No decision against a PENDING
  offer; grants exactly for approvals; the audit is permanent; a lookup shows only what is
  granted.*
* notifications: at-least-once everywhere, crashes between any two steps, broker outages,
  poison messages.  *Stored once; with publisher confirms, never lost once
  marked sent and eventually stored or dead-lettered.*
* accounts and session: token rotation that checks and writes without a lock, a refresh per
  unauthorised call, answers that arrive after the session they belong to has ended. *A
  session that ended leaves no tokens behind; redirects settle; no spinner or busy form for
  ever; a session is ended only when its refresh token is spent.*
* pages: an answer applied to a page it was not asked for, answers that overtake each other,
  forms re-keyed under a call, timers that outlive what set them, polls beside clicks,
  object URLs.  *What is changed is what was shown; a join adds no second row; what a
  timer asks for is what is typed; a button or a skeleton waits only for a call in flight;
  the inbox converges; no stale picture is shown; every URL is given back.*

## Modules

| Module | Models |
| --- | --- |
| `DemandTypes` | rows, participant lines, totals and status of request-service |
| `AbstractDemand` | what request-service promises: atomic operations on a demand board |
| `RequestDemand` | request-service, one action per SQL statement |
| `OfferLifecycle` | offer-service, one action per stretch of code between awaits |
| `ContactDecision` | admin-service composed with `OfferLifecycle` |
| `NotificationPipeline` | outbox, relays, broker, consumer |
| `BrowserSession` | the tab's session: auth slice, API client, routes, forms, and the tokens of auth-service |
| `StoreThunks` | a `createAsyncThunk` in flight: dispatched, served, settled, failed |
| `OfferPages`, `RequestPages`, `AdminPages`, `InboxPages` | each slice with its pages and the endpoints behind it |
| `OfferPicture`, `PictureField` | the hook that shows an offer's picture; the field that takes one |
| `StorePages` | the pages composed over the one store |
| `RequestDemandProofs`, `OfferProofs`, `ContactProofs`, `NotificationProofs`, `SessionProofs` | the TLAPS proofs about `RequestDemand`, `OfferLifecycle`, `ContactDecision`, `NotificationPipeline` and `BrowserSession` |
| `PagesProofs`, `PictureProofs`, `ShopProofs` | the TLAPS proofs about `StorePages`: the seller's and the admin's pages; the pictures; the customer's pages, the inbox and the types of all |
| `MC...` | instances for TLC: symmetry sets and constant functions only |

### RequestDemand

Variables `request` and `participant` are the committed tables, `nameLock` the advisory
locks, `rowLock` the row locks, and per handler `pc`, `call`, `aggregate` and `row` its
transaction: where it is, the call, the subquery of a `RecalculateDemand` under way and the
row it has written.  Uncommitted writes are visible to their own transaction only
(`LinesSeen`, `RowSeen`).  `RecalculateDemand` is two actions, because Postgres evaluates
the subquery on the statement's snapshot and only then waits for the row: without the lock
the code takes first the aggregates could be stale, which is what the mutant
`LockRequestNot` shows.  `Commit` makes row, lines and outbox event visible together;
`Rollback` may come at any point and stands for failed statements, cancelled callers and
crashes.  A request's name is a spelling, and `ItemKey` (the function `request_item_key`)
and `HashText` are constant functions: the proofs hold for every normalisation and every
hash, collisions included.  An inserted request is given the row lock of its identifier,
as nobody can see or lock it before the commit.

The message of a joiner carries the customers and the quantity it announces.  The creator's
message quotes only the quantity and "first participant"; both are the recalculated row's
figures of a fresh request.

### OfferLifecycle

A worker's `task` is the call it serves.  `ReadOffer` makes the checks of
`_own_pending_offer` or of `set_status`; `WriteOffer` comes later and writes only the
columns that differ from what was read, as SQLAlchemy does, onto whatever the row has
become.  The partial unique index is the guard and the test in `FlushOffer` and
`WriteOffer`.  After a change the live offers are counted in a transaction of their own and
the number is sent.  `Faults` chooses what may go wrong: a report fails, a report times out
and arrives late, a worker dies.  Terms are a function from columns to values; resolving
the seller, the request and the admins precedes the model's first step, and a failure there
changes nothing.  Whether any admin was found is a parameter of `StartSubmit`.

### ContactDecision

Extends `OfferLifecycle`: the `PATCH` of a decision is served by one of its workers, so
everything a seller can do happens in between.  A `desk` is one run of `Decide`:
`participants` (fetching the buyers), `begin`, `recorded` (decision and grants written in
the open transaction, index entry held), `patching`, `patched`, then the commit.  A timeout
closes the desk and leaves the worker at work.  `lookup` is a seller's contact lookup,
which lists grants first and resolves them afterwards.  The two events for the seller of an
approval are one element of `notified`.  The customers behind a request change freely.

### NotificationPipeline

`outbox` is the table in `created_at` order.  A relay's record is its open transaction: the
rows it `locked`, the `batch` still to send, oldest first, and the rows `marked`.  `queue`
counts the copies of each event at the broker, which is external, and `handler` is a
delivery.  A publish makes two attempts, each of which may have reached the broker whether
or not it was seen to fail, so it puts zero to two copies in the queue.  `Confirms` tells
the two kinds of producer apart.  offer-service's aio-pika waits for a confirm, and its
relay knows only rows it can send.  The Go relays do not wait, and retire a row whose
payload cannot be decoded (`Undecodable`, `RetireRow`).  That no producer has both is
assumed (`Confirms => Undecodable = {}`).  When a channel closes, unacked deliveries return
to the queue and the handler goes on without owning its message.  A failed transaction of
the consumer is dead-lettered, as the code does.

### BrowserSession

`session` is the auth slice together with the token in localStorage (`stored`), `place` the
page with the location state, `effectDue` the pending effect of `App`.  A pair of tokens is
a number.  `calls` holds the calls of `api()` in flight; a call goes to the wire, is
answered, and if the answer is a 401 goes through a refresh of its own (there is no shared
one: `installRefresh` starts one per call) and back to the wire once.  `CheckRefresh` and
`RotateRefresh` are the two halves of `AuthServiceImpl.refreshToken`, between which a
logout or another refresh may come.  `op` is the function that awaits the call, so a form
that logs in and then loads the session is one slot that goes from leg to leg.  A write to
localStorage may fail: `writeStored` swallows that, and the store changes while the storage
keeps what it held (fault "unstored", `Written`); where removing the entry fails, so does
reading it.  Every change of the store goes through `Show`, which also draws the page,
follows the redirects and sets the effect.  `RedirectFrom` is the guard, the profile page's
own redirect and the catch-all route; `Landing` follows it twice, and `RedirectsSettle`
shows that twice is enough.  The unread poll stands for all the authorised calls of the
other pages: for the session only its 401 matters.  `SessionInit` is a reload with anything
localStorage may have kept.  A wrong password, a blocked account and an unknown one are one
refusal.  Several tabs are not modelled: the slice reads localStorage only when it is
created.

`TokenIn` says where the refresh call puts its token.  `session_refresh` has what the code
does ("body").  `session` has what the service asks for ("header"), which includes the
code's behaviours: there any refresh may fail.

### The pages

`StoreThunks` gives the calls in flight; a handler's dispatches are composed as values, in
the order the handler makes them.  `own` is true of a call whose awaiting component is still
mounted; when a page is left or a form re-keyed its calls go on and settle in the slice, but
their `setState` reaches nothing.  A page module has the slice's reducers, one action for
each way a user acts on the page, one for each timer, the endpoint as the thunk sees it
(`Serve...`), and the continuation after the answer (`Settle...`): the reducer's case, then
what the handler does next, navigation and further dispatches included.

* `OfferPages`: `forRequest` is the slice, and the form of a request's page is mounted for
  the live offer found in it.  Of the terms the model keeps from which offer they were
  seeded, and of a decision or a cancellation that the offer is APPROVED or CLOSED: no page
  here tells a rejected offer from a cancelled one.  `OfferOnThis` leaves the item dialog
  for a request's page, also while the dialog saves.
* `RequestPages`: `mine` counts the rows of each request; timers are sets, so that one
  that is not cleared would be seen.  `ShortNames` are too short to be looked up but may be
  submitted.  A search is for what its argument says (`Filter`), or for nothing
  (`Unfiltered`).
* `AdminPages`: a case is an offer with the grant its approval gives.
* `InboxPages`: the polls, the clicks, and notifications that keep coming, numbered as they
  are stored.  The page reads one list, of the newest `ListLimit` (20 in the code), and
  never another part; the badge counts all.
* `OfferPicture`, `PictureField`: `urls` are the object URLs not yet revoked.  Making a
  URL in the memo and giving the previous one back in the effect are one step of drawing.
  A picture is wanted at a version, which only goes into the `Address`: the endpoint
  ignores it and answers with what is stored, and the browser may answer from its cache.
* `StorePages` composes them.  A user has one role and the slices share nothing but the
  calls, so each behaviour is a *tour* of some pages while the other slices stand still: a
  seller's pages (`offers`, the item dialog included), an admin's two pages (`admin`), a
  seller's contacts, the inbox, a picture, a picture field.  A customer's pages are over
  one slice, `requests`, but are split into four tours (`search`, `request`, `adopt`,
  `participate`) because any two together have millions of states.  So steps of two of
  these four are not interleaved, by TLC or in what is proved.

## Runs

Passing:

| Run | Checks | Instance |
| --- | --- | --- |
| `request_demand` | types, one request per item, totals and status, what joiners are told, refinement of `AbstractDemand` | 2 handlers, 2 spellings of one item, 2 ids, 2 customers, quantities 1 and 2, counts 0 and 1 |
| `request_demand_live` | every transaction ends | 2 handlers, 2 items whose hashes collide |
| `offer_lifecycle` | types, one live offer, never reopened, announced is stored | 2 workers, 2 sellers, 2 offers, all faults of the service |
| `contact_decision` | types, no decision on a PENDING offer, grants follow approvals, told what was decided, permanent audit, lookups show only what is granted | 2 admins, 2 workers, 1 offer, one lookup at a time, timeouts and crashes |
| `notification_pipeline` | types and batch limit, stored once, rows not shared | a Go producer: no confirms, 3 events of which 2 are undecodable, 2 relays, 2 consumers, batches of 2 |
| `notification_live` | not lost, eventually stored or dead-lettered | offer-service: confirms, 2 events of which one is malformed for the consumer, 2 relays, 1 consumer |
| `session` | types, an ended session is forgotten, redirects settle, the spinner ends, a busy form ends | a customer to register and an admin, one call by the user and one by the effect at a time, 2 pairs of tokens, failures both ways, failing writes to localStorage |
| `store_pages` | types, terms go to their offer, joined listed at most once, revoked shown is revoked, pictures not stale, URLs given back, nothing waits for nothing, asks for what is typed, the inbox converges | every tour, 2 of everything, failures both ways |

Two actors are what every race here needs: each is a read and a write of one call around
the whole of another.  Two ids let a replaced offer and its replacement coexist, two
spellings of one item let creates race, and two values in the quantities tell a changed
line from an unchanged one.  `MaxCopies` bounds the copies of an event waiting at once;
two already give a duplicate in flight with a duplicate behind it.

In `session` the effect's call and the user's are the two that race (two parallel refreshes
among them), and two pairs of tokens give a session and its successor; past `MaxTokens` every
login and refresh fails, as it may anyway.  In `store_pages` a handler starts while fewer
than `MaxWaiting` = 2 calls are out; three slots then hold the two calls one handler may
send beside one already in flight, so that answers overtake each other.  Two offers, items
or cases are a thing and another it can be taken for; one of the items has a short name.
Two notices with a list of one give a notice past the list's end.  The pictures wanted are
two versions of one offer's and, with no version, another's.

The remaining runs state what a comment or a document says and show a behaviour of the code
that contradicts it; the findings in `PROJECT.json` quote the lines.

| Run | What the code does |
| --- | --- |
| `offer_final` | a decision, a cancellation or an update is written over an offer that changed after its read |
| `contact_timeout` | a timed-out PATCH leaves an APPROVED offer without grants |
| `session_refresh` | the refresh token travels in the body, the controller wants a header: the first 401 ends a good session |
| `offer_page` | from one request's page to another's: the form still edits the first one's offer |

Seen while modelling and in the models, without a run of their own:

* the INSERT of a submission is flushed outside the `try` block that turns an
  `IntegrityError` into a 409 (`offer-service/app/service.py:108`), so the loser of two
  racing submissions is answered 500;
* two reports of the live-offer count can overtake each other and the older one stays
  (`offer-service/app/routers/offers.py:128`);
* the Go relays lose notifications: `publisher.go:133-143` does not wait for a confirm, so
  a publish onto a connection that is going away succeeds, the row is marked sent, and the
  message never arrives.  `docs/events.md:77-80` says otherwise.  With `Confirms = FALSE`
  `PublishedIsNotLost` fails after six states (`Enqueue`, `BeginDrain`, `BrokerDown`,
  `PublishRow` with no copy, `CommitDrain`), and with it `EventuallyHandled`; both are
  claimed here for offer-service only;
* a logout that comes between the two halves of a refresh leaves the new pair of tokens
  good (`AuthServiceImpl.java:137`);
* `authSlice.ts:21` says "Refresh is scheduled off this rather than waiting for a 401", but
  nothing schedules one: the 401 is the only path to a refresh;
* lists and look-ups answered out of order replace newer ones until the next load (the
  approval queue, suggestions, contacts after their page was left), and a request the
  customer made can be listed twice; a list served before a join and settled after it
  leaves the joined request out until the next load;
* the approval queue asks for pictures with no version (`Queue.tsx:143`), so an admin may
  be shown a replaced picture for the five minutes it is cached;
* notifications past the first list cannot be reached, while the badge counts them.

## Fairness

`request_demand_live`: a handler that can execute its next statement does (the process
runs), and a lock that becomes free again and again is granted, since Postgres queues the
waiters of a lock.  Nothing is assumed of `Begin` or `Rollback`.

`notification_live`: the relay polls every two seconds for ever, the broker comes back,
RabbitMQ delivers what waits to an idle consumer, and the consumer finishes what it is
given.  Faults are not fair; the property speaks of behaviours in which they stop.

`session`: an effect that is due runs, a call is answered or fails, and its promise settles.
Nothing is assumed of users, links or expiry.  `store_pages`: the same of the inbox's calls,
and its intervals tick.  A tick that finds no room waits because of the model's bound on
calls, not the browser's, hence strong fairness there.  `InboxConverges` speaks of
behaviours in which calls stop failing.

## Proofs

Every invariant and every action property the passing runs check is also proved, for every
value of the constants that satisfies the named `ASSUME`s.  The argument has one shape
throughout: an invariant seldom survives a step by itself, because what a step writes is
right only by what its call read earlier, so the inductive invariant says of every call in
progress what it may still rely on; then each action is shown to keep each part.

### request-service (`RequestDemandProofs`)

For every set of handlers, items, identifiers, quantities and counts and any `ItemKey` and
`HashText`: `TypeCorrect`, `OneRequest` and `DemandMatches`, the invariants of
`request_demand`; `JoinersTold`, the action property `JoinersAreToldTheDemand`; and
`Refinement`, that `Spec` implements `AbstractDemand` (safety; `AbstractDemand` has no
fairness).

`IndInv` adds, per handler, that the call is well formed (`CallOK`); that it holds the
advisory lock from its look-up and the row lock from its `SELECT ... FOR UPDATE` on
(`HoldsLocks`); that what it read is therefore still so (`SnapshotOK`); and that its
aggregates and the row it will commit are those of the lines as they are now
(`FiguresOK`).  A step of another handler keeps these because it cannot hold the same lock.
Only commits change the tables, and `SnapshotOK` and `FiguresOK` then give the invariants,
what the commit announces, and the atomic operation it maps to.

Assumed: `ItemKey` and `HashText` are functions, quantities are positive and counts natural
(the handlers validate them), customers are finitely many.

### offer-service (`OfferProofs`)

For any workers, sellers, requests, offers and faults: `OfferTypeCorrect`, `OneLive`,
`AnnouncedStored`, and `DecidedStaysDecided` (the action property `NeverReopened`).

`OfferInv` adds what a call carries at each of its steps (`Equipped`); what it knows of the
database (`Informed`): an insert not yet committed has an identifier and an index entry
nobody has, a row that was read is still there, a decision that was written stays; and that
two uncommitted inserts are `Apart`, which is the partial unique index between
transactions.  `IndexHolds` is the same index between stored rows, and gives `OneLiveOffer`
by counting.  `WrittenRow` is the heart of `NeverReopened`: whatever the row has become, a
stale write never sets PENDING, because an update writes terms only.  Assumed: finitely
many offer identifiers, for the count.

### admin-service (`ContactProofs`)

For any admins and customers beside those: `ContactTypeCorrect`, `DecidedIsNotPending`,
`GrantsMatchApprovals`, `ToldTheVerdict`, `ShownIsGranted`, and `AuditPermanent` (the
action property `AuditIsPermanent`).

`ContactImplementsOffer` is `ContactSpec => OfferSpec`: every step of the composition is one
offer-service allows alone or leaves it as it is.  Hence `OfferInv` and the lemmas of
`OfferProofs` hold inside the composition and are not proved again.  `ContactInv` adds what
a `Decide` holds at each step (`DeskFits`): while its transaction has the index entry no
decision is stored for its offer; an approval has customers and a rejection none; and the
worker it waits for is serving that offer's PATCH or has answered it, "ok" only when the
offer is no longer PENDING (`Relays`).  `NeverReopened` keeps that last part true until the
commit, whatever the seller does meanwhile.  `DesksApart` keeps two admins from one offer,
and `LookupFits` says what a lookup that has listed but not shown may rely on.

### notifications (`NotificationProofs`)

For any events, relays, consumers and batch size: `PipelineTypeCorrect`, `ExactlyOnce`,
`RowsNotShared`; and, where the publisher waits for confirms (`ASSUME Confirms`, which is
what offer-service's does and the Go services' does not), `PublishedNotLost`.

`PipelineInv` adds that a relay works on rows it locked and that are in the outbox
(`DrainFits`), that locked sets are disjoint (`LocksApart`), and that an event about to be
acked is recorded (`DeliveryFits`).  `ConfirmedInv` adds that what an open transaction has
marked is accounted for like what is published: the commit of a drain publishes only that.
`AccountedKept` shows that no step takes an event from the last place it is in; the broker
going away is the hard case, where the deliveries returned are counted into the queue.
The batch limit rests on `FirstOf`, for which the least and greatest elements of sets of
places are derived from the library's well-founded induction.  Assumed: finitely many
consumers, a positive batch size.

### the session (`SessionProofs`)

For any accounts, roles, calls in flight, tokens and faults, and with the token in the
header or in the body:

* `EndedForgotten`: `EndedIsForgotten`.  The invariant `Forgotten` adds only that the slice
  has its fields; the work is that every way a call can settle ends in one of the reducers.
* `SessionTypeCorrect`: `SessionTypeOK`.  `SessionInv` adds what a call carries from leg to
  leg (`CallOK`): the account it is for, the issued token a refresh presents, the token or
  the account its answer brings.  Without these the user and the token that settle in the
  store could be anything.
* `NoRedirectLoop`: `RedirectsSettle`, from the types alone (`TwoHopsSettle`): every other
  page's redirect is open to all or is `/profile`, whose own redirects are to open pages.

### the pages (`PagesProofs`, `PictureProofs`, `ShopProofs`)

For any number of calls in flight and any offers, items, cases, notices, pictures and
files.  A slot is only ever filled, answered, orphaned or emptied; the lemmas on `Sent`,
`Awaited`, `Orphaned` and `Room` say what each does to all the slots, and the rest follows
page by page:

* `RevokedIsRevoked`.  `DeskInv`: the grants in the slice and in every answer on its way are
  ones the server showed now or earlier, and REVOKED is final there.
* `TermsStayWithTheirOffer`, `OfferSavingEnds`.  `SellInv`: a form's terms are its key's and
  so are those of every call it sent; while a form or a dialog saves, a call in flight is
  its own, which only its own answer or a new mount takes away.
* `JoinedAtMostOnce`, `ShopWaitsEnd`.  `ShopInv`: rows counted twice are of requests the customer
  made; at most one accepted create of an item is on its way, and none once there are two
  rows (`CreatesOnce`); what is shown waiting has its call.
* `TimersAskForWhatIsTyped`, an action property: a look-up, and every search for some text,
  is sent for what is in its box when it is sent.  The timers of a box are for what is in
  it (`ShopInv`), and no other dispatch of any page sends these calls.
* `UrlsGivenBack`, `NoStalePicture`.  `PictureInv` adds `OneLiveFetch`: at most one fetch
  belongs to the running effect, and none once the effect has made its URL.  Otherwise a
  second URL could be made over the first, which the cleanup would then not know.
  It also says that a key's version has been stored (`KeyFits`), so that an answer from
  the endpoint is no older (`FetchFits`), and that what the cache keeps under a versioned
  address is no older than that version (`CacheFits`).
* `PagesTypeCorrect`, from these with `InboxInv` and `FieldInv`.

Assumed: slots for more calls than a handler waits for (`ThunkConstants`: the browser always
has room for one more), a fresh URL to give (`UrlConstants`), at least one request and item
(`OfferPageConstants`, `RequestPageConstants`), versions that are numbers
(`PictureConstants`), a list of at least one notification (`InboxConstants`).

Everywhere, the model value `None` and the names of pages are assumed to be none of the
values they stand beside.

### Only model-checked

Liveness, which the proof system does not reach: `TransactionsEnd`, `EventuallyHandled`,
`SpinnerEnds`, `BusyEnds`, `InboxConverges`.  The four violated properties are TLC's
counterexamples.

## Plan

1. Abstract specifications of an offer's life, of exactly-once notification and of contact
   access, with their refinements proved from the invariants above.
2. `RequestDemand` composed with the reports of `OfferLifecycle`: what a stale count does
   to the status of a request.


## Not modelled

Token signing and verification, API keys and roles (stateless filters); search, similarity
and the item-name normalisation itself (evaluated in Postgres); the bytes of images;
pagination, except that the inbox reads one list; error wording, logging; the layout of the
frontend's pages, its component kit, theme and generated types; account updates and the
internal look-ups of the identity services; deployment.
Grants never expire in the code (`expires_at` is always null), so EXPIRED does not occur.
