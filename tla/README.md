# Magic Collection Keeper: a verification project

TLA+ specifications of the parts of Magic Collection Keeper in which several
actors act on shared state: the private import store and the other writers of an
account's records, the migration that loads an account, the browser facade that
retries its operations, the publication of the public catalog and its readers, the
live capture session, Recognition's sessions, the browser session, the navigation
shell, the card list, the Import page and the transport every request takes. TLC
checks each on small instances. TLAPS proves, for every value of their constants,
the safety properties the runs check (one of them where reviews raise no quantity).

Paths are those of the repository (`src/usercards/...` and so on). `PROJECT.json`
lists the components, runs, mutants, hazards and theorems, and maps every
definition that models code to the lines it models.

## The system

The application keeps a collection of Magic cards: a browser scans cards with a
camera, recognizes them locally, stages what was recognized or imported as
*pending entries*, and the owner reviews and confirms those into owned copies or
tags. Two PostgreSQL databases stand behind HTTP services on AWS Lambda, reached
through the RDS Data API: a public catalog of cards and printings, refreshed from
a provider's snapshots, and the private records of each account.

| Component | State | Operations | Works with |
| --- | --- | --- | --- |
| UserCards, import store (`usercards/internal/imports`, `import-*.ts`) | `import_session`, `import_entry`, `import_candidate`, `import_stage`, `import_receipt`, `import_acquisition`, associations, the account's revision | stage caller lines, a source list or a capture; correct; attach candidates; discard an entry or an import; confirm; recover | PostgreSQL; Catalog for references |
| UserCards, copies and organization (`copies.ts`, `organization.ts`) | copies, tags, associations, a copy's location | create, correct, remove, move | the same tables and revision |
| UserCards, queries and import reads (`queries.ts`, `imports/reads.ts`) | none; continuations that carry a revision and an offset | pages of private records | every writer above |
| UserCards, migration (`migration.ts`) | a recorded migration, its batch receipts and archive | start, apply a batch, complete, read back | the same tables |
| UserCards, browser operations (`browser/operations.ts`) | attempts, those retained over a reload, the storage record, the account's scope | begin, resume, retry, recover, discard, release, reload | the transport, session storage, every view that observes a handle |
| Catalog, publication (`catalog/internal/sync.ts`, `publication.ts`) | cards, names, printings with `current` and `candidate` marks, the revision | synchronize | the provider's snapshots, the job that invokes it |
| Catalog, reads (`service.ts`, `postgres.ts`, `printing-lookup.ts`, `query.ts`) | none; continuations bound to a revision | list printings, look one up, resolve, search | the published tables |
| Capture (`capture/internal`) | camera lifetime, the present attempt, the pending write, retained captures | prepare, stop, retry, dispose; frames, readings, answers | the device, Recognition, UserCards |
| Recognition (`recognition/internal/service.ts`) | sessions, their shared preparation, the active attempt | prepare, recognize, dispose | the engines, Catalog |
| CardList (`card-list/internal`) | the window, its continuation, demand, selection, fragments | demand, query, retry, select, retain and restore | Catalog and UserCards reads |
| Application, browser (`browser-authentication.ts`, `client.ts`) | the stored session, its generation, the transport's epoch | sign in, sign out, refresh, send | the identity provider, every service |
| Application, backend (`routes.ts`, `transport.ts`, `data-api.ts`) | none between requests | route, run an operation or a transaction | both databases |
| UserInterface, shell (`ui/navigation`) | the presented page, its history entries and what they retain, the account | navigate, restore, sign out, dispose | pages, identity, every component a page opens |
| UserInterface, Import page (`ui/editors/internal/imports.ts`) | rows read, drafts, requests, confirmations | present, edit, save, discard, confirm | UserCards, the shell's history |
| UserInterface, other editors, views and controls | drafts, dialogs | present | all of the above |
| Infrastructure, CI, migration and packaging scripts | files | batch tools | AWS, GitHub |

They meet in three ways. Within a database, transactions interleave at READ
COMMITTED: a row lock, a unique key or an advisory lock is what orders them.
Between browser and services, calls are lost before or after they take effect, and
their answers come late. Inside the page, every `await` and every callback lets
something else run, and what was read before it may be stale after.

### What is hard, and what makes each part correct

`PROJECT.json` lists 40 hazards at their lines. In short:

- **Import store.** A confirmation reads its entries in the service, before the
  transaction that locks their session; it may be sent again, under the same or a
  second operation identity, or race another import for one identity. It is correct
  when each entry is decided once, by one request, with the content its caller
  reviewed, when ownership and tags grow by exactly that, and when an operation
  always reports what it recorded. Staging must admit an input once whatever is
  accepted, discarded or confirmed in between, and a revision must name one state.
- **Private records.** Writers of tags, associations and copies lock rows in their
  own orders: they must not wait in a circle, must not overwrite what they did not
  read, and a page joined from several statements must show one state. A migration
  may be interrupted anywhere, started again and sent twice, and is whole or absent.
- **Browser operations.** A lost answer is not a refusal, a refused retry says
  nothing of the first dispatch, and a reload must find what it needs to resume.
- **Catalog.** Readers must see whole snapshots through overlapping, failing and
  half-acknowledged synchronizations; reads of several statements must not join
  two revisions.
- **Capture and Recognition.** The owner may stop or dispose at any await; no camera,
  status or comparison of an earlier lifetime may leak into the next, what was written
  must be recovered exactly once, and a pipeline shared by several callers is
  released once, by the end of its session.
- **Browser session and shell.** Late answers must not bring a session back, no call
  or answer may cross from one account to another, and a page that loads late must
  not replace the one presented since.
- **Lists and the Import page.** A page, fragment or review that answers late must
  not be shown as the answer to what is asked now; a selection and an unsaved draft
  survive what changes below them or are reported lost.
- **Transport.** An operation that ran on behind its deadline is not one that failed.

## The modules

Models, from the store outwards:

| Module | Models |
| --- | --- |
| `ImportState` | the tables of one account's imports and what several operations share: bumping a session, advancing the revision, closing entries |
| `ImportStaging` | staging of caller lines, source lines and captures |
| `ImportReview` | correction, candidates, discards |
| `ImportConfirmation` | a confirmation as a process: the service's read, the lock and its checks, the commit or rollback |
| `ImportStore` | the three together, their invariants, and the refinement of `Confirmations` |
| `Confirmations` | the abstract promise: an entry is decided once, an operation has one outcome |
| `ImportReads` | pages of pending entries read by several statements beside the store (extends `ImportStore`) |
| `Organization` | tags, associations, copies, printing references and confirmations into a tag, statement by statement, with paged lists beside them |
| `MigrationLoad` | a prepared collection loaded into the account in batches (extends `Organization`) |
| `PrivateRecords` | the abstract promise of both: every commit is one change of the records, and a load happens once |
| `BrowserOperations` | attempts of one account in the page, in storage, on their way and at the server |
| `PublishedCatalog` | the abstract promise: what is published is one whole snapshot |
| `CatalogPublication` | overlapping synchronizations, statement by statement, and the refinement of `PublishedCatalog` |
| `CatalogReads` | paged lists and lookups beside them (extends `CatalogPublication`) |
| `RequestTransport` | one request: its path and route, the operation racing a deadline, the report of its failure |
| `CaptureSession` | the live session with its device, Recognition and UserCards |
| `RecognitionSession` | shared preparations, the attempts that run on them and their ordered delivery |
| `BrowserSession` | sign-in, sign-out, refresh, the transport and the account boundary |
| `NavigationShell` | the presented page, late loads, retained states and account changes |
| `CardListWindow` | the window of a list: pages, demand, restart, refinement, retry, restoration |
| `CardListSelection` | the explicit selection and the fragments its tools need |
| `ImportReviewEditor` | the Import page's review: reads, drafts, saves, discards, confirmations in batches |

Proofs, each module about those it extends: `ImportStore_proofs` (`ImportStore` and
`ImportReads`), `ImportPage_proofs` (`ImportReviewEditor`),
`BrowserOperations_proofs`, `CaptureSession_proofs`, `Serving_proofs`
(`CatalogPublication`, `CatalogReads` and `RequestTransport`), `BrowserPage_proofs` (`BrowserSession`,
`RecognitionSession`, `NavigationShell` and the half of `MCBrowserSession` that joins
them), `PrivateRecords_proofs` (`Organization` and `MigrationLoad`), and
`CardList_proofs` (`CardListWindow` and `CardListSelection`).

Instances: `MCImportStore`, `MCImportReads`, `MCImportPage`, `MCPrivateRecords`,
`MCBrowserOperations`, `MCCatalog`, `MCServing`, `MCCaptureSession`,
`MCBrowserSession`, `MCCardList`.

A definition called `...Slip` is a plausible mistake in the definition it precedes:
a dropped guard, a missing reset, the wrong count. `PROJECT.json` pairs every
checked property with one; put in place of the definition, it makes TLC find that
property violated. No specification uses one.

### Import store

State. One account. `session`, `entry` (with its candidates), `staged`,
`receipt`, `acquisition`, `binding`, `association` and `revision` are rows of the
tables of the same names in `schema.ts`; `lock` and `request` are the row lock and
the local variables of the confirmations being served. The copies of an
acquisition are its quantity.

Steps. A staging or a review operation is one transaction on one locked session
row, so it is one action: its early returns leave everything unchanged and are
part of the guards. A confirmation takes three: `ReadReviewed` is the service's
read and fingerprint (`import-confirmation.ts`), `LockConfirmation` takes the
session row and does every check up to the reservation of the operation, and one
of `CommitIdentical`, `CommitTag`, `CommitOwnership`, `AnswerUnchanged` or
`RollBack` ends it. Between the first two anything may commit; between the last
two, anything that does not need the locked session. The reservation, where an
insert waits for the key of another transaction, is `Reserved`: it is evaluated at
the commit, where the waiting insert resumes. A lost commit answer needs no action
of its own: the caller then sends the request again, which `ReadReviewed` allows
at any time.

Abstractions. Contents are card, printing, finish and quantity; a fingerprint is
the content it hashes, so equal inputs and equal fingerprints are the same thing. A
quoted revision is one that the service has published. Staging one identity from
two sessions at once fails on the primary key in the database and is the line
conflict here. The branch of the ownership destination that finds an entry already
acquired is not modelled: an entry bound to an acquisition is no longer pending.

`ImportReads` adds the page of pending entries: its statements read the session,
then the entries in chunks, then compare the revision, and a continuation is
answered only at the revision it quotes.

### Private records and migration

`Organization` runs each request of `organization.ts` and `copies.ts` as a
transaction under READ COMMITTED, one action per statement: `work[w]` holds what the
request read, the rows and keys it holds, and where it is. A statement that needs a
row or an unique key another transaction holds waits (`MayRun`); `RollBack` releases
everything. The account row is the last taken, so advancing the revision and the
commit are one step. A reader lists in pages, each of several statements, and
compares the revision it started from.

Two differences of data, in which the same statements run. A tag of the user's own that
is no location (`Intended`: deck, wish-list or other) names numbered targets with a quantity.
In the code a deck or another tag may also name a copy, whose quantity is null
(`model.ts:52`); such a copy is a target like a card here, except that no confirmation
adds to it. And where a plan carries one, the code stores it in the batch of the copy it
names (`migration-plan.ts:392`), the model with the other associations.

`MigrationLoad` takes the account row first, so each of its transactions is one
step: starting a plan, applying a batch with its receipt, completing. A loader may
stop anywhere; another, of the same or of another plan, may come. The load is
refused unless the account is empty, and an ordinary request runs beside it.

### Browser operations

An attempt is the handle's record; `phase` is what its in-flight slot runs and
`reply` what the call brought back. `Submit`, `BeginSourceImport`,
`ReopenSourceImport`, `Change`, `Retry`, `Recover`, `DiscardImportSession`,
`Release` and `Reload` are the facade's operations. A call that is sent is served,
lost before it, or given up by its caller while it still travels (`late`), and
served then. `Settle`, `Doubt` and `Ignore` are the continuation of `perform` and
`fail`: an outcome, an open one, or nothing because the attempt was disposed. The
services are reduced to what they record of an operation identity (`applied`).

### Catalog and transport

`stored` is the committed content, `draft` what the transaction holding the
advisory lock has written. `Begin` takes the lock and resets the marks, `Ingest`
consumes one record and flushes the batch when the next one does not fit, `Finish`
closes the membership and writes the revision, `Commit` commits, with its answer
lost or not. A task may fail at any of these, and its transaction then rolls back
or, when that call fails too, stays open until it expires. `CatalogReads` reads a
page together with its revision, as the statements do. The order of versions is that
of the calls: nothing in the code or its documents claims that a newer snapshot is
never followed by an older one.

`RequestTransport` sends one request: the client composes a path from a template and
identifiers, which may be words of the templates; the table of routes matches it;
the boundary starts the operation and answers when it settles or when its deadline
passes, while the operation runs on; and the client makes one of its failures of
what came back. The report and what the operation did are kept apart.

### Capture session and Recognition

Every await of the session is a step: the camera request (`Granted`, `Denied`),
Recognition's preparation (`Prepared`), the delivery of a reading (`Deliver`,
`Handle`), each write (`StageAnswered`, `StageRefused`, `StageLost` and the same for
attachments), and the owner's `Prepare`, `Stop`, `Retry` and `Dispose`. `Settling`
says that promise reactions of a settled write run before timers and the owner's
events, as JavaScript's microtasks do. Whether a frame is due is a free choice.

Two facts of the neighbours are used: UserCards answers `unresolved` only to an
observation without a printing, which the session never submits, and a replayed
staging is never definitely refused, because the facade keeps it open. Recognition
delivers nothing after an attempt's completion. `Room` stands for the number of
candidates an entry still holds; each comparison is taken to add one.

`RecognitionSession` models the other side: a preparation with its initiator and
the callers that join it, each with a signal of its own; the end of a session by its
owner, by a failed preparation or by an aborted one; attempts queued on a busy
session; readings passed through an asynchronous catalog read and delivered in
order. The pipeline is external: it settles whenever it likes, also when released.

### Browser session and shell

`generation` is the counter that pending work compares (`owns`); it starts at one, so that
zero says that no refresh is joined. A sign-in passes
through the exchanges with the identity provider; `token()` lets concurrent callers
join one refresh. `requests` are calls of the page: token acquired, sent, served,
answered. An account that leaves takes its operations with it (`released`) before
the transport ends its session, in the order of `client.ts`. Storage is written
synchronously and equals the session; a page starts with either.

`NavigationShell` presents one `page`; a page that loads for a view the shell left
stays in `lateLoad` until it arrives. `store` holds the handles that history entries
retain, up to `Limit`, oldest first out, and `released` counts what was given back.
The account changes at any time, also during the shell's own sign-out. `GoBack` is the
first half of `back()`: it captures and keeps the presented page, which stays presented
until the browser moves. The second half is any later `Traverse`, which captures once
more; other steps may come between the two, and with no entry behind it never comes. The
first capture gives back the handle the page was restored from, so that what a presented
page restores is released under it, but only once its entry keeps what that page handed
over since (`HandedOver`).

### Lists and the Import page

`CardListWindow` issues page requests (`reads`), of which the latest is current and
others may still answer. The source is external: it moves between versions, and
answers an older continuation or reports it invalidated. Demands of the viewport,
refinement, retry and the restoration of a retained window are actions of their own.
`CardListSelection` takes the pages as they come and models the selected keys with
the target each was chosen at, and the queue of fragment reads. A page that leaves the
target of an entry but changes its basic information (`altered`) invalidates its fragments
and leaves the selection alone.

`ImportReviewEditor` models the page: `row` is the store's entry, `view` what the
mounted editor or the history entry it left keeps (the rows read, the drafts,
what is being saved and confirmed), `requests` what is away. An entry changes
elsewhere at any time. An editor keeps one window of drafts (`DraftWindow`): when another
entry is edited, the oldest draft gives way (`boundByWindow`), whatever it says, and `before`
holds the order they were begun in.

## The runs

A run joins questions that one instance can answer. Where two models share no state,
one run checks both over disjoint behaviours: a variable `part`, chosen at the start
and never changed, says which of them moves (`MCServing`, `MCBrowserSession`,
`MCCardList`, `MCImportPage`); `MCPrivateRecords` does the same with the account it
starts from. Nothing a behaviour of one part reaches is lost by that, because no
action reads the other's variables, and the sizes below are sums, not products.

| Run | Question | States |
| --- | --- | --- |
| `import_confirm` | Two lines of one import, corrected, discarded and confirmed into ownership and a tag by two requests under two operations, with retries, replays and rollbacks, beside a list read page by page: is each entry confirmed once, with what was reviewed, is ownership exactly what was intended, does each operation report what it did, however late, and does a list show one state? | 705,151 |
| `import_race` | Two imports racing under one operation identity, entries without a printing among them: is `Confirmations` implemented? On the Import page: is one operation outstanding, over what is pending, and does every draft survive, get resolved or give way as the oldest of a full window? | 660,856 |
| `import_staging` | One session of captures and lines, or of a list imported again, reordered, split and shortened, between corrections, discards, late candidates and confirmations: do the accepted sequence, the admissions and the session's revision keep their meaning, is nothing staged twice, and can the next attempt always be staged? | 120,939 |
| `browser_reports` | Operations of every retry policy, lost, refused storage, reloaded, reopened and discarded while the account ends: does an observer of a pending one always hear of it (liveness), are outcomes final, is what the server holds reported, abandoned or kept, and has each identity one attempt? | 379,872 |
| `serving` | Two overlapping tasks over six versions, good, moved, split, empty and oversized, or a task beside lists and lookups: do readers see whole snapshots, do pages join and lookups answer from one revision? Or one request through the transport: is the report what happened? | 208,144 |
| `capture_session` | A capture left by an earlier session and those of this one, over two camera lifetimes: is the left one recovered first, is there one write, one camera and one status, is no comparison lost, attached twice or falsely refused, and does retrying resolve what is pending (liveness)? | 318,272 |
| `browser_session` | Two accounts, two calls, four transitions: who is signed in, whose calls are sent and answered? The shell over two users: does it present and retain only its account's? Two pipelines: is each released once, and do attempts take turns? | 1,208,289 |
| `private_records` | Three requests on one account, two of them beside a list, or a collection loaded twice beside a request: is there no circle of waits, does a list show one state, is the load whole, is `PrivateRecords` implemented? | 265,453 |
| `card_list` | Pages of a source that moves on, in any order, beside demands, refinements, retries and a restored window; the selection and its fragments: is the window one run of one sequence, is nothing rejected asked again, is no selection substituted? | 500,823 |

Three runs show where the code and what is written about it part. Each is a
finding of `PROJECT.json`, with the quotation.

- `browser_rejected` (770 states): a confirmation without a recorded outcome is
  reported as rejected, "nothing was created", while its first request may still be on
  its way and be applied.
- `capture_recovery` (4,915): an attachment whose first request was lost before it
  was recorded, and for which the entry has no room, is refused on every retry; the
  session keeps it and never becomes ready, though retrying is how an owner is said
  to resolve it. `capture_session` checks the same property where the entry has room
  or the comparison is the first; there retrying resolves.
- `list_demand` (276): a demand reported while a first page is outstanding is not
  acquired when that page completes a restored window, though the comment above says
  it stays part of the active generation.

### The properties

Each is stated in words where it is defined. Several collect facts that a reader
wants together: `OwnedAsReviewed` says that an acquisition holds the content its
confirmation reviewed and that no two entries made one copy; `ConfirmedOnce` that one
request under one operation confirmed an entry and that the same request gets the
same outcome; `ReportsWhatItDid` that a receipt names exactly the acquisitions or
requirements its entries came to, whatever was confirmed since; `AtMostOnce` that one identity has one attempt, answers for its own
input and that no creation is sent twice; `OneAtATime` that there is one camera, one
write and one status, with earlier captures recovered first; `ComparisonsAccounted`
that every comparison waits, is recorded or is explained; `ServesTheLatest` that the
latest sign-in wins and that a call is sent and answered for the account that made
it; `ReleasedOnce` that handles of the shell and pipelines of Recognition are given
back once, and none in use but what a page handed its successor over for; `PublishesHistory` and the two `KeepsPromise` are the refinements of the
abstract modules. `DecidedForever`, `AdmissionPermanent`, `NeverReopened`,
`AttemptsTakeTurns`, `RevisionNamesState`, `SessionRevisionNamesView`, `ContextIsKept`
and `ActsOnWhatWasChosen` are about steps: what none may do.

### Bounds, and why they are enough

- *Import store.* Two workers and two operations are what a race or a replay needs;
  a third repeats one of the roles. `import_confirm` has one session, where content
  and occurrences are shared, and `import_race` two, where only the operation is;
  there and in `import_staging` a second confirmation repeats the first under its
  operation or its request (`SecondRepeats`), because `import_confirm` asks the rest.
  Two lines of equal content compete for one acquisition, and two entries make a
  request that is partly overtaken. `MaxChanges` (four revisions) allows staging, a
  correction, two confirmations or discards and a replay; in `import_staging`, four
  admissions or a list staged, discarded, staged again and confirmed. Three input
  identities give a capture, its successor and one between them. `MaxAttempts` is how
  often a source line can be staged again; the lists of `import_staging` repeat,
  reorder, split and shorten one another, and no review of that run raises a
  quantity, which an owner may but a list does not declare. A session belongs to one
  source, so captures and lists never meet in one. A page of one entry, read one entry
  per statement, makes every list continue.
- *Import page.* `BatchSize` 1 makes two entries two batches; three revisions of an
  entry are what was read, what changed elsewhere and what is saved; two requests, two
  reads and two visits are an answer that comes late, after a newer one, or to a view
  that was left and mounted again. What may be away at once is bounded per question
  (`Bounded`). Drafts of three entries of two imports are one more than a window of two.
- *Private records.* Three workers are the smallest circle beyond a pair; the requests
  hold a tag, an association, a location and a reference in every order the code
  takes them. Pages of one row make lists continue, `MaxIssued` lets each worker's
  request insert, and quantities to 4 let two confirmations add to one row.
- *Migration.* Two loaders of the same plan, of a smaller one from the same source or of
  one from another; batches of one record put an interruption between any two.
- *Browser operations.* Two attempts allow an attempt and its successor or a
  reattached one; one release shows what an ended account leaves behind.
- *Catalog.* Batches of two records or two units of bytes are cut at both limits;
  three revisions allow a record to be published, removed and published again; a page
  of one printing makes every list continue. *Transport.* One request, since requests
  share nothing; identifiers include the words of the templates.
- *Capture.* Two lifetimes make an earlier and a later one; one earlier capture is
  recovered before an attempt and its successor; two readings are an observation and a
  comparison, and the third of `capture_recovery` a second one, with room for one.
- *Browser session.* Transitions are counted from one: five are four of them, two sign-ins with a sign-out or a refresh
  between them, and one more. *Shell.* Three entries, tokens for each, a store of two
  that must evict, and two captures, so that one may follow the other of the same page.
  The entry below the first presented one may be of an earlier load. *Recognition.* Two pipelines are a session and its successor; two
  attempts and one joiner compete for one, with two readings to be reordered.
- *Lists.* A window of three, pages of none or two entries and demands of three or four
  put every page at its limit; two versions differ in order and membership; one late
  read is an answer after a newer request. Two keys with two identities, of which one is
  presented at a time, let a selected entry leave, return and return as another.

Symmetry is declared over workers, operations, sessions, inputs, accounts, calls,
loaders and identities, all of them interchangeable model values, and never where
liveness is checked. `CHECK_DEADLOCK FALSE` is set where a counter ends at its bound or
the system may rest: everything is confirmed, or the page is idle. `serving` checks
deadlock: a task can always be invoked again or fail. That writers of private records
never wait for each other in a circle is `WritersYield`, not a deadlock check.

### Fairness

Safety needs none and the safety runs assume none. `browser_reports` assumes that
every call the transport started is answered or fails, and that its promise then
resumes the attempt: `fetch` settles, and JavaScript runs the reaction. Nothing is
assumed of the consumer. `capture_session` and `capture_recovery` assume that an owner
who stopped the session keeps asking for a retry, which is what the property is about,
that a running retry goes on, that UserCards answers every call, and that a call
repeated without end is not lost each time: an acceptance and a refusal that stay
possible are eventually delivered (strong fairness). Publications, sign-ins and
confirmations are not assumed to happen at all.

## What is proved

Eight modules hold proofs that `tlapm` checks to the last leaf. Each states its
results for any values of the constants that satisfy the named assumptions of the
model: that identities, rows and the null value differ (`IdentityAssumption`,
`NoneAssumption`, `AttemptAssumption`, `CaptureAttemptAssumption`,
`SessionAssumption`, `NullAssumption`, `NoneIsNoRecord`, `NothingIsNoAnswer`, `PipelinesAreNumbers`, `TagAssumption`), that bounds are
numbers (`BoundAssumption`, `CaptureAssumption`, `PageAssumption`, `BoundsAssumption`,
`StoreAssumption`, ...), that
printings are ordered by numbers (`OrderAssumption`) and that inputs have the shape
the code validates (`RequestAssumption`, `StagingAssumption`, `ReviewAssumption`,
`CatalogAssumption`, `PlanAssumption`, `ResultsAssumption`: a source
lists each key once, `AccountsAssumption`: the records an account starts with satisfy the
unique indexes and foreign keys of `association`, `KindsAssumption`: a plan's tags are of the
kinds a migration may create (`migration-plan.ts:99`) and its pending records are not
sessions, `IdentifierAssumption`: no identity is the word "operations",
`FreshAssumption`: an identity the service
composes for a request is in no prepared plan, and `RestorableAssumption`: what was retained continues a result of its
own description). TLC evaluates each of them on the instances. No bound of a
`.cfg` is used: the numbers of tasks, sessions, captures, attempts and revisions are
arbitrary.

Every safety result follows the same path: an inductive invariant, one lemma per
action that it is kept, a lemma that joins them, the theorem that it always holds,
and from it the property the runs check. An action property is proved of one step
from the invariant, and a refinement step by step.

**Import store** (`ImportStore_proofs`). `StoreInv` is `TypeOK`, `RecordsAgree` and
`PositionsBounded`. Types alone are not inductive: a commit uses what an earlier step
of the same request read, so the invariant must say that what it names exists
(`RequestAgrees`), and the next position is one more than the maximum of those
present, which exists only because the positions of a session are bounded
(`BoundedMax`). From it: `Typed`, `Final` (`DecidedForever`), `Immutable`
(a receipt is never changed), and `Implements` (`KeepsPromise`): stagings admit,
corrections stutter, discards discard, commits confirm or repeat.

**Import outcomes** (`ImportStore_proofs`). `OutcomesInv` adds what a confirmation
relies on between its steps. What it read of an entry describes the entry while the
revision it quotes stands (`ReadsAgree`); from the lock on nobody else moves it
(`LocksHeld`); so the receipts partition the entries that were confirmed
(`OutcomesAgree`) and number the acquisitions of one content without a gap
(`BindingsAgree`). The last makes the keys a commit claims fresh, and so the branch in
which a position is inherited is never taken by ownership. What a tag requires is a sum,
which the model counts in units (`Total`): it is then the size of a set, and what a
confirmation adds is disjoint from what was confirmed before. From it: `ConfirmsOnce`,
`ReportsOutcomes`, `IntendsOnce`, `OwnsAsReviewed`, `AdmitsOnce`, `RevisesEveryChange`, `RevisesEverySession`. The other
half is staging: only it adds rows, rows are kept, and the attempts of a source key are
numbered by the records kept for it, which gives `StagesAsAccepted`. What a list stages
of a line is a sum of differences, row after row, which telescopes to what the list
declares beyond what was held (`StagesBeyond`); so an import never holds more of a line
than one reading declared (`HoldsNoMoreThanDeclared`, of the behaviours in which no step raises the quantity of an
entry, `RaisesNothing`: a reviewer may well correct a line to more copies than its list
had, and then the import does hold more).
New rows, last, go after those of their session, each at a place of its own (`PositionsUnique`), so that there is
one order to list them in (`ListsInOrder`). `ReadInv` adds a consumer of that list: the
pages it joined begin the list of the revision they carry, the statements of the page
being read continue them if nothing was published in between, and every change of an
entry publishes. From it: `ListsOneState`.

**Browser operations** (`BrowserOperations_proofs`). `FacadeInv` says what page,
storage and the calls still on their way know of one another: what is not retained was
closed (`Covered`), storage that accepts writes holds exactly what is retained
(`StoredAll`), and an attempt that did or may still do something is in doubt until it
commits (`Doubted`). A reload renumbers the stored records one to one. From it:
`WorkIsKept`, `WorksAtMostOnce`, `SettledStands`.

**Capture session** (`CaptureSession_proofs`). `CaptureInv`: while the session is busy
only its attempt's handler writes (`Turns`), a write in flight makes the call its record
asks for (`OneWrite`), only the lifetime that is starting can be granted a stream
(`Cameras`), and an empty list of retained captures is trusted only with nothing pending
(`Recovered`). `ComparisonInv` follows each reading: held once, or accounted for.
From them: `WorksOneAtATime`, `AccountsForComparisons`.

**Catalog** (`Serving_proofs`). `CatalogInv`: the draft
extends the committed tables and its candidate rows are those of the records written so
far (`Represents`); what is read and not written is the batch (`ReadSoFar`); the
committed tables are a whole snapshot at the last position of the history; the lock
means nobody else commits. From it: `ReturnsWhatWasPublished`, `StaysResolvable`,
`ImplementsPublication` and, of the run, `PublishesItsHistory`. `ReadsInv` adds the
readers: a reader goes on only at the revision it started from, so what it listed is a
prefix of a list no later publication changes. That such a list exists is itself
proved: every finite set of ranked printings can be ordered. From it:
`AnswersOneRevision`.

**Transport** (`Serving_proofs`). The table is read by its shape: two routes of one method
and length differ in a word where both have one, so that a path written from the template
of an operation reaches the route of that operation (`RoutesTake`, `ReachesItsRoute`).
The exception is a template whose identity stands where another has a word: the order of
the table decides for `recoverImportOperation` against `listImportEntries`, and
`IdentifierAssumption` is what is left. `TransportInv` then follows one call: how far it
came (`Progress`), what the backend did for it (`Work`), what the answer on its way says
(`Replied`), what arrived (`Received`), and that an end which says something definite
leaves nothing on its way that could still act (`Settled`). Every part is about one call,
and a step changes one call. From it: `TransportInductive` and `ReportsAsItWas`.

**Browser session, Recognition and shell** (`BrowserPage_proofs`). `SessionInv`: a call whose
transport session stands belongs to the account that is signed in and any other was
released (`CallAgrees`); a refresh of the current transition renews the current session
(`RefreshAgrees`); a sign-in on its way began after the latest sign-out
(`SignInsOrdered`). From it: `RefusalsAreTrue`, `LatestServed`. `RecognitionInv`:
the registered session's pipeline is in use, every other that was used is released, a
running attempt holds its session's pipeline and is finished when the session is. From
it: `PipelinesReleased`, which is Recognition's half of `ReleasedOnce`, and
`TurnsTaken`. `ShellInv`: the store holds at most one snapshot per token, each of the
presented account and of an entry that was opened (`StoreAgrees`); each handle that was
captured is in the store or was given back, once (`HandlesAgree`); a page restores
exactly what the store keeps of its entry, or its entry keeps what `back()` captured of it
since (`PageAgrees`, `Resumes`). What dropping a token and
dropping the oldest snapshots leave of the store are lemmas of their own. From it: `PresentsItsAccount`, `KeepsContextOfViews` and, with
Recognition's half, `ReleasesEverythingOnce`.

**Private records** (`PrivateRecords_proofs`, whose invariants are in
`RecordsInvariants`). `YieldInv` says what a transaction holds at
each of its statements. Who writes into a tag holds its row (`DomainHeld`); the row of an
association is held together with its tag's, or by a transaction that has only its commit
left (`RowsHeld`); references are taken in the order of their identities. What a
transaction wrote it holds (`ChangesHeld`), nobody else holds it (`Exclusive`), an
association that a request names is not brought back once removed (`NamedStays`), and what
a statement read stands when the next one writes (`ReadStill`). The commit of one
transaction, or a batch of a load, then leaves all of this true of the others, because it
changes no row they hold. From it: `Yields`. In a circle everybody holds something, so
each waits for a reference, larger than every reference it holds itself; of finitely many
references one is the largest, and its holder waits for nobody. That is why
`storePrintingReferences` sorts. `PagesInv` is about readers, and needs none of this:
whatever changes an association publishes a revision, so a reader that goes on at the
revision it started from holds the first rows of the tag's list (that the list can be
ordered is proved too). From it: `PagesAgree`.

`PromiseInv` carries the refinement of the abstract module. The records are sound: no tag
names a target twice, no copy is in two places, every copy is owned (`Sound`). What an open
transaction wrote, put over the records as they are at any later moment, is the change its
request asked for of those records (`Written`): the rows it read are the rows it holds, so
`YieldInv` is what makes this last while others commit. Identities composed for requests
are distinct (`Composed`) and loads carry verified plans (`LoadsVerified`). `Written` is
shown operation by operation, for each statement of its program; `CommitPromises` reads off
it that a commit is one action of `PrivateRecords`, `BroughtPromises` that a batch of a
load is. Every other step changes nothing the abstract module sees. From it:
`PromiseInductive` and `KeepsThePromise`, which is `LoadSpec => KeepsPromise`.

`WholeInv` is about the load. A plan's batches are not empty and no two share a record
(`BatchesApart`, shown of the division itself: the kinds are apart, the chunks of a kind are
apart, the last chunk carries the rest). The batches an account has recorded are the plan's
first; every record of theirs is there, since nothing removes a tag, an owned copy, a session or an
entry of a load; none of the other batches' is; and the position of every loader is at most
one beyond what is recorded. An account that holds records keeps holding some
(`CommitGrows`), so no second migration begins in it. A loader whose batch another one
recorded finds its receipt and goes on; one that writes it writes records that are not there.
From it: `WholeInductive` and `LoadsOnce`, which is `LoadSpec => []LoadedOnce`.

**Card list** (`CardList_proofs`). `ListInv` is about what the list awaits: a request it
would still take an answer to either begins a result or continues it exactly where the
presented window ends, at the description that is active (`Awaited`), and no position
it keeps, asks for or failed at names a rejected sequence (`Accepted`). A late answer is
of a request that is no longer current; that is why `RefineList` and every replacement
withdraw it before they mark the window stale. The page that then arrives extends a run
by the run that follows it, none of whose keys the window holds, because a result lists
each key once. From it: `PresentsOneRun`, `GoesOn`. `SelectionInv` is about the
fragments and the selection at once: what waits for an answer is queued or read
(`Attended`), what is kept of an entry beyond the window is kept of a selected target,
and a selected key that the window shows carries the identity it was chosen at, or is
reported (`Chosen`). Each handler is a composition of the same few changes of the
fragment state (retire, invalidate, mark stale, queue, pump), and each of these has its own
lemma. From it: `AsksForWhatItAwaits`, `ActsOnChoice`.

**Import page** (`ImportPage_proofs`). `PageInv` joins what the page believes with what
the service did: a review or a discard answered as done was done, what an applied
confirmation named is confirmed, the one retained confirmation is the one the view
waits for, and a view holds only entries and drafts of the import it presents. Answers
arrive after the page turned to another import or entry, so each of these is needed to
say what a late answer may still touch. From it: `ConfirmsOneAtATime`, and of a step
`KeepsDrafts`: a draft leaves with what it says committed, its entry decided, its import
discarded, or as the oldest of a full window when another is begun. `MovesInv` adds that
a view which is not about to read again what it presents (`Due`) presents an import with
pending entries, or of which something decided is yet to be told (`Alive`). Every change a
handler makes of the view leaves it so or makes it read (`Onward`). From it:
`LeavesDecidedImports`.

## What is only model-checked

Out of the prover's reach:

- Liveness: `PendingReports`, `RetryResolves`, and `DemandIsAcquired`, whose state
  predicate belongs to a run that violates it; and everything about ENABLED.

## Observations

What the models show of the code and no line of it contradicts, so that it is not a
finding:

- A migration's batches of sessions and entries publish no revision
  (`migration.ts:563`), unlike every other writer; nothing is listed before the load
  completes, so that no list joins two states.
- The fragments of a kind nobody demands are not marked stale when their subject
  changes; demanded again, such a kind first shows the value answered before
  (`CardListSelection`, `lapsed`).
- `back()` captures the page that stays presented (`shell.ts:239`) and by that gives back
  the handle it was restored from. A view closed by a whole sign-out between that and the
  move, or a move that never comes, finds its own newer state kept, not the older one. The only
  caller in the repository is a test harness (`tests/browser/import.harness.ts`).
- A review that leaves an import whose last entry was decided chooses the next by a list of
  imports that may be old (`imports.ts:2249`): it may turn to nothing although an import
  staged since has pending entries, or to one that was decided meanwhile and leave that
  one in turn. It is what an owner is left at, not where, that `LeavesWhatIsDecided` states.
- Beyond one window of drafts an editor drops the oldest without a word
  (`import-support.ts:558`); the page says so only in that function's comment.
- A discard of an import that is answered late drops the drafts of entries staged to
  the same import after it was asked.
- A draft begins with every stored value of its entry, so that saving one attribute
  also restores the others as they were when editing began.
- A path such as `GET /imports/operations/entries` matches two routes: the list of a
  session named "operations" would be answered as the recovery of an operation named
  "entries". The identities the client composes (`operations.ts:1623`) are never that
  word, which is `IdentifierAssumption`; every other word of a template may be one.
- The client ignores the operation identity that failures of replayable routes carry in
  `recovery`.

## What is not modelled, and why

- The engines of Recognition (image processing and inference, JavaScript and Python):
  numeric code without a protocol.
- The editors of copies and tags, the card views, pages, dialogs and controls: rendering
  of state other components own. Of tag lists, the order in which a created tag is kept
  beyond an incomplete window is a candidate for a model.
- Text: parsing of Moxfield lists, the query language and the SQL it compiles to,
  formatting of failures and payloads.
- The migration's readback and archive: they change nothing the application reads. The
  readback pages by offset over several statements (`migration.ts:937`), and a change between
  them would be reported as a difference; no property covers it.
- Infrastructure, packaging and CI scripts: batch tools over files.
- Other accounts: every statement is bound to one account id.
- The scheduler's frame statistics and the camera's media tracks.

## Plan

Done: every model of the list above, and the proofs of the eight modules. What follows,
in this order:

1. The migration's readback, by offset beside ordinary writes.
2. Models of the tag lists, the card views that present a list, the server's source imports.
