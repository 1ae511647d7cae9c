# A verification model of the DSpace/Atmire repository

This directory holds TLA+ specifications of the parts of this DSpace 5
customisation that keep state across steps which can be interleaved, fail or be cut
off, or whose algorithm is hard to get right; the TLC configurations that check them
on small instances; and theorems about them that TLAPS proves for every instance.
Paths below are relative to the repository, with three abbreviations:

    A/ = dspace/modules/additions/src/main/java/
    S/ = dspace/modules/swordv2/src/main/java/
    U/ = dspace/modules/rest/src/swagger-ui-2.1.0/

    tlc -config ImportRuns.cfg MCItemImport.tla     # one run
    tlapm ItemImportProofs.tla                      # the proofs of one component

`PROJECT.json` lists the components, runs, theorems, hazards and findings, and maps
each definition to the lines it stands for.


## Inventory

### Batch item importer: `A/org/dspace/app/itemimport/ItemImport.java`

* State: the database seen by one context (`Context`, or with `--transactional` the
  `TransactionalContext` of `A/com/atmire/dspace/core`, which only counts commits
  until `realComplete`), the mapfile, its buffered writer, the `handle` files of the
  source directories, and static flags.
* Operations: `add`, `add-bte`, `replace`, `delete`, each with `--resume`, `--test`,
  `--workflow`, `--large-import`, `--transactional` or per-directory collections.
* Hard: a crash between the commit of an item and its mapfile line; the line printed
  before the commit; a rejected item, whose deletion commits everything before it;
  rollback of the database but not of the mapfile; handles that outlive their item.
* Correct when: the mapfile is true; success means every directory is imported; a
  transaction is all or nothing; nothing is doubled, lost or left invalid.

### Virus scanner: `A/org/dspace/ctask/general/ClamScan.java`, `A/com/atmire/clamav`, `A/com/atmire/consumer`

* State: the static read buffer, a session (socket) per item, the verdict and the
  policies of each bitstream, the queue of the consumer pool.
* Operations: the pool's threads scan each newly archived item; the script scans one
  bitstream after the other; both store a verdict and remove policies.
* Hard: threads sharing the buffer; answers that are late or lost; one transaction in
  the script and two in a consumer; a queue that does not survive a shutdown; an item
  archived while it is scanned.
* Correct when: a stored verdict is clamd's verdict on that very file; only infected
  files lose their policies; infected files end up unreadable.

### Bitstream checker: `A/com/atmire/scripts/bitstreamchecker`, `A/com/atmire/scripts/IteratorScript.java`

* State: the current batch, the order of the scan dates, the limits and counters.
* Operations: query a batch, scan, commit per batch, loop, stop at a limit.
* Hard: the next batch is queried before the last bitstream of this one is done; the
  consumers change scan dates meanwhile; exceptions roll a batch back.
* Correct when: the longest waiting are scanned first, none twice, all again and
  again, and every run ends.

### SWORD v2 deposits: `S/org/dspace/sword2`, `S/com/atmire`, `A/com/atmire/sword/rules/UniqueValueByAuthorityId.java`

* State: two contexts per request, the pool of database connections, the static
  mapfile writer of `ItemImport`, the committed items and the authorities of their
  identifiers.
* Operations: authenticate, open the contexts, `addItemsAtomic`, the uniqueness rule
  in a context of its own, commit or abort, the consumer that sets authorities.
* Hard: concurrent deposits share the writer, and a failed one deletes what its
  mapfile lists; up to three connections are taken one after the other; uniqueness is
  checked against committed items; authorities come in a second transaction.
* Correct when: a deposit is all or nothing, answered accordingly, and leaves others
  alone; connections come back; identifiers are unique.

### Discovery index: `A/org/dspace/discovery/SolrServiceImpl.java`, `A/com/atmire/utils/multithreading`

* State: the items and their modification dates, the documents as written and as
  Solr's last commit shows them, the pool of `ItemFold` with its bounded queue, what
  each thread has read of the item it is at.
* Operations: the nightly `index-discovery` (`cleanIndex`, then `updateIndex` over the
  pool), its options `-f` and `-b`; `indexContent`, `unIndexContent` and
  `requiresIndexing`; the event consumer of the web application; Solr's commits.
* Hard: the row of an item is read, later the index, later the clock that stamps the
  document, and the item may change in between; a change is dated before it is
  committed; a document is deleted before the new
  one is built; the main thread blocks on the queue and waits for the pool; failures
  in a thread are swallowed, those in the main thread leave the pool behind.
* Correct when: after an update each item is found with its content; updates keep
  ending; what failed is made good by a later update.

### Markdown renderer: `U/lib/marked.js`

The API documentation page renders descriptions with it.

* State: the tokens of a source; in the lexer the recursion into quotes and items, and
  the text put back in front of the source; in the inline lexer whether a link is open,
  which images change as links do; `marked.defaults`; the renderer, whose options all calls share; per call the
  options, the count `pending` and the code blocks at the highlighter.
* Operations: `Lexer.token`, `InlineLexer.output`, `Parser.parse`, and `marked` itself
  with and without a callback; `setOptions`; highlighters that return, call back or fail.
* Hard: one mutable token list for nested calls; a loose item is told by a variable
  that outlives it; a list cut in two puts its rest back; highlighters answer in any
  order while other calls run and the defaults change; an option is deleted and restored.
* Correct when: the output says what the source says, in its order, once; a callback
  is called once, not early, and in the end.

### OAuth login of the API documentation: `U/lib/swagger-oauth.js`

With the page `o2c.html`, into which the authorization server's answer comes.

* State: the dialogs in the page; global variables for the newest dialog, the token's
  name, url and key and the enabled scopes; the popups and the codes under way; icon
  and info box of each operation; the tokens of the client.
* Operations: open a dialog, tick, cancel, authorize; log out; a popup's answer; the
  exchange of a code; explore another API.
* Hard: everything is global, answers come late and in any order, older dialogs stay
  in the page, and users may start over or leave at any moment.
* Correct when: one dialog can be authorized; icons, info boxes and tokens agree; a
  login that is left alone brings its token.

### Components that are not modelled

| Component | State and operations | What makes it hard, what makes it correct |
|---|---|---|
| Compliance rules, `A/com/atmire/sword/rules` | none; rules with preconditions in ordered categories | exceptions make categories not applicable; a result agrees with its rules |
| Authorization and groups, `A/org/dspace/authorize`, `A/org/dspace/eperson/Group.java` | policies with dates, the cache of the group hierarchy | a stale cache, cyclic groups; the cache is the closure of the memberships |
| Metadata-based access, `A/com/atmire/access` | policies by metadata values, groups in the index | the index and the check agree |
| Authentication chain, `A/org/dspace/authenticate` | the methods in order, special groups | the first method that succeeds decides |
| REST API, `dspace/modules/rest` | a context per request, tokens | complete, abort and rethrow on every path |
| Item export, `A/org/dspace/app/itemexport/ItemExport.java` | export directories, a background thread | size limits, clean-up while an export is written |
| Checksum checker, deletion scripts, `A/org/dspace/checker`, `A/com/atmire/scripts` | history and most recent checksum, limits | dispatchers that end, deletions in batches |
| Documentation page: `U/gulpfile.js`, `U/lang`, the other scripts of `U/lib` | a build script, tables of words, `translator.js` (one loop that replaces texts) and third-party libraries | no state that outlives a call: left out |
| Structure builder, feeds, registry updater | sequential transformations of XML | mostly input and output: left out |
| XMLUI, Mirage 2 theme, configuration | presentation and settings of services | left out |

The components meet in few places: every one on the server writes through `Context`,
whose `commit` dispatches events to consumers; an import or a deposit raises the
Install event that feeds the virus scanners (unless the `noindex` dispatcher is used),
and the events from which the index is kept; the checker calls the scanner for each
bitstream; deposits call the importer; importer and deposits call the compliance rules.
The OAuth login and the renderer meet only in the page that uses both.


## Modules

| Module | Stands for |
|---|---|
| `ItemImport` | the importer as run from the command line, its database, files and operator |
| `AtomicScans` | what the repository relies on when files are scanned: `ScanAndHide`, `ScanOnly`, `Commit` |
| `VirusScan` | the scanners, their sessions with clamd and their transactions; `Atomic == INSTANCE AtomicScans` |
| `BitstreamChecker` | the loop of the check-bitstreams script; one scan is one step here and many in `VirusScan` |
| `AtomicDeposits` | what a SWORD client relies on: `Store`, `Accept`, `Refuse` |
| `SwordDeposit` | the deposits in detail; `Atomic == INSTANCE AtomicDeposits WITH stored <- disk` |
| `DiscoveryIndex` | the index, the nightly update over the pool, the consumer and Solr |
| `MarkdownLexer` | `Lexer.token` as an operator: from blocks to a flat list of tokens |
| `MarkdownParser` | `Parser` and `InlineLexer`: from tokens to nested output |
| `MarkdownReference` | what a source means, defined block by block and without tokens: not in the code |
| `IsolatedCalls` | what a caller of `marked` relies on: each call as if it were the only one |
| `Marked` | the calls of `marked`, with lexer and parser as parameters; `Isolated == INSTANCE IsolatedCalls` |
| `SwaggerOAuth` | dialogs, popups, codes, tokens and icons of the OAuth login |
| `MC...` | small instances of each for TLC; `MCMarked` composes the four modules on Markdown |
| `...Proofs` | the theorems, for `ItemImport`, `VirusScan`, `BitstreamChecker`, `SwordDeposit`, `DiscoveryIndex`, `Marked`, `SwaggerOAuth` |

In the modules of the server the control state `pc` (or the step of a thread's task)
names where a thread is in its handler; an action is the code between two points at
which another thread, a failure or a crash can intervene. JavaScript runs to
completion, so there an action is a whole handler, or the part of `marked`'s loop
between two calls of a highlighter. Variables that exist only to state properties are
marked as such. Actions without code under the repository (a crash, a commit that
throws, clamd's or a server's answer, the connection pool, the operator) are marked
external in `PROJECT.json`. A definition with the comment "Mutant" is no part of the
model: it is a form that a bug would give to the definition next to it.

A variable `world` (`faults` in `VirusScan`) is chosen in `Init` and never changes: the
command lines, sources or APIs that are used and the mishaps that occur. It lets one
run ask every question about a module, and lets a property say under which
circumstances it holds.

### ItemImport

`work` is the database as the open transaction sees it and `disk` what is committed.
`Commit` copies one to the other, or under `--transactional` does nothing, as in
`TransactionalContext.commit`. `Start` is the first half of `main`; `AddItem`,
`PrintLine`, `CommitItem`, `FlushLine` are `addItem` cut at the points where an
exception or a crash makes a difference; `RejectItem` is its catch block, with the
commit that follows the deletion; `ReplaceItem` and `DeleteEntry` are the loops of
`replaceItems` and `deleteItems`; `Finish`, `Complete`, `Abort`, `RealComplete`,
`RealAbort` are the ends of `addItems` and `main`. Between runs the operator discards
the mapfile or edits a directory, and a reviewer approves an item.

Abstractions: one destination collection; whether metadata is valid is one bit per
directory, and deterministic; directories come in any order; a handle is the id it was
made from; the writer's buffer holds whole lines; what was built of an item that fails
with an exception other than a rejection dies in the rollback, so it is not shown;
exceptions before `main`'s try block leave nothing behind.

### VirusScan

A session (`Open` ... `Leave`) takes the bitstreams of an item one by one: `ReadChunk`
fills the buffer of the JVM, `Send` puts out what the buffer then holds, `Receive`
reads the answer into the same buffer, `Decode` judges by it. `PostConsumer` and
`PostChecker` are `postScanOperations`, in which a consumer commits the removal of the
policies in a context of its own.

`AtomicScans` knows no buffer, no answers and no steps of a scan: a session is about one
item, scans each of its bitstreams at most once, and a scan is one step with clamd's
verdict on that bitstream, or none. In the refinement (`Unscanned`, `Session`) that
step is the one that records the verdict, in `PostConsumer` or `PostChecker`; a
bitstream counts as unscanned until then, so that all steps before it stutter.
`ScansAreAtomic` holds where two scanners never need one buffer at the same time, and
implies that verdicts are sound (`VerdictSound`), but for files above clamd's stream
limit, which pass for clean in both modules.

Abstractions: a file is one chunk; clamd's answer is determined when it is sent the
file; non-internal bitstreams only; row locks, mail and reports are left out; only
installing an item grants policies.

### BitstreamChecker

The dates are a sequence of bitstreams, oldest first, and the sets of those without a
date and of those dated after the start of the run; `saved` is the same in the
database. Iterations stop being counted at `MaxIterations`, which is above every
count in use. A consumer waits for rows the script has changed and not committed.

### SwordDeposit

One thread per deposit. `Receive` ... `GroupsFail` are the request and
`SwordAuthenticator.authenticate`; `OpenMapfile` ... `Finish` are `addItems`, with the
mapfile writer read from the static field at each item (`out`) and closed by whoever
gets to the `finally` block first; `Fail`, `Undo` are `addItemsAtomic`'s catch block;
`Abort`, `Commit`, `Dispatch`, `Accept` are `SwordContext` and the consumer of
`ExternalIdentifierAuthorityConsumer`. `added` and `gone` are the uncommitted changes
of a deposit.

Abstractions: one identifier per item and one uniqueness rule (two are configured);
`Undo` deletes any subset of what its mapfile lists, which stands for what was flushed
to it; a writer's lines are kept whole; `CollectionDepositManagerDSpace.createNew`,
which is not in the repository, commits after the ingester returned and aborts after
it threw; authorization failures are one step before `addItems`.

### DiscoveryIndex

The content of an item is told by the date of its last change (`modified`), on a clock
that moves with every commit of a change. The date is one between the item's previous
date and the commit (`Dates`), since DSpace sets it when the item is updated, and the
context commits later; `committed`, the moment of the commit, is not in the database,
and is there for properties. A document has the content that was read for it (`modified`) and the
moment at which its writing began (`stamp`). A thread takes an item through `Find`
(the row is read), `Check` (`requiresIndexing`, against the documents that Solr shows),
`Delete` (the old document goes, the new one is stamped) and `Write`. `CleanIndex`,
`UpdateIndex`, `Submit`, `Shutdown`, `AwaitTermination` and `Commit` are the main
thread, in `cleanIndex`, `updateIndex` and `ItemFold.execute`. `Web` is the event
consumer, which forces every item and commits at its end. `raced` has the items whose
last change was overtaken (`Overtaken`): a thread had read the old row when it was
committed, or a document was already stamped no earlier than the change is dated.
`UpToDate` and `EventuallyIndexed` except these items, and `index_left_behind` shows
what becomes of them.

Abstractions: two commits of one item are dated in their order; searching, the fields
of documents, and the documents of collections and communities, which are always
rewritten, are left out; so are the fold's contexts,
which several threads share in turn; Solr fails at a request or not at all, and after
a failed request the thread may have gone on or given up, as the code has it. The
client that parses the command line, the consumer and Solr's automatic commits are
external.

### MarkdownLexer, MarkdownParser, MarkdownReference, Marked

A source is a sequence of blocks, as the regular expressions cut it: the kind of the
rule that is meant for a block, what its lines say when no such rule takes it, whether
a blank line follows, and nested blocks of quotes and items. `Rule` is the order in
which the rules are tried at the top level, in quotes and in items, under the options.
The lexer accumulates one record of tokens and links, as `this` does; `MarkdownParser`
walks the tokens with the one inline lexer of the source. `MarkdownReference` says
what the same source means directly: which list an item belongs to, whether it is
loose, which addresses are in a link. Links and images, by brackets or by reference, go
through the same code (`Link`, `RefLink`, `OutputLink`), which sets and clears `inLink`
for both; under `sanitize` the renderer gives nothing for a link whose address it cannot
decode or that is a script (`Unsafe`, `Anchor`), and still gives an image. The links of
a source are a function from keys to addresses, where the last definition wins.

`Marked` has a call's synchronous part (`RefuseCall`, `CallAtOnce`, `CallAndWait`), the
loop over the tokens (`PassToken`, `AskHighlighter`, `LeaveLoop`), the highlighter's
answers (`HighlightFails`, `HighlightKeeps`, `HighlightReplaces`) and `SetOptions`.
While `running` is a call, nothing but its loop and the highlighter just called runs.

`IsolatedCalls` knows neither tokens nor the renderer nor a count: a call takes its options
from the defaults of the moment, and then gets one of the answers it could get alone
(`AnswersAlone`), or errors. `finished` are the calls whose count is down.

Abstractions: texts are numbers, an image's alternative text is its spans as they stand,
and an address is of the web, a script or garbled; table alignment, titles, the options
`pedantic`, `breaks`, `smartypants` and `mangle`, and the escaping of HTML are left out.
A highlighter that throws, one that calls back twice for one block, one that calls
`marked` itself, and one that calls back in a call without callback are not considered.

### SwaggerOAuth

`HandleLogin`, `Tick`, `Cancel`, `Authorize`, `HandleLogout` and `Explore` are what the
user does, `InitOAuth` what the page does when an API has been read; `Granted`,
`Denied`, `Closed` end a popup, `Exchanged` is the answer to a posted code, `Complete`
is `onOAuthComplete`. `dialogs` are the dialogs in the page, shown or not; `popupDialog`
is the global variable of that name, which the closing handlers use. A token knows the
dialog it was asked for and its scopes, so that properties can speak of them.

Abstractions: markup, positions and the addresses of popups are left out; two requests
for an API do not overlap; errors in `initOAuth`, after which icons have no handlers,
are not considered.


## Runs

| Run | Instance | Shows |
|---|---|---|
| `import_runs` | 2 directories, 3 runs, 5 ids, five worlds | type, truth of the mapfile, success, no doubles, no invalid items, deletion, the mapfile's record, handles, atomicity, termination |
| `replace_invalid` | 1 directory | violation: a replace that fails validation loses the original |
| `scan_runs` | 2 bitstreams of one item, a consumer and a script, all faults | refines `AtomicScans`, only infected files are hidden, a consumer hides before it flags |
| `scan_hides` | 2 items, the pool loses its work | infected files end up hidden |
| `shared_buffer` | 2 threads of one JVM | violation: a verdict for the wrong file |
| `checker_runs` | 3 bitstreams, batches of 2, four worlds | the oldest batch first, none twice, each again and again, every run ends |
| `deposit_runs` | 2 deposits of the same 2 items, one mediated, 3 connections, five worlds | refines `AtomicDeposits`, connections come back, identifiers are unique in turn, every request is answered |
| `index_runs` | 3 items, a pool of 1 thread with a queue of 1, a commit every 2 items, a page of 1, 2 changes, 1 failure, six worlds | what was not overtaken by a thread or a document is found with its content after an update; updates keep ending; failures are made good |
| `index_left_behind` | the same with 1 change | violation: an item changed between its row's reading and its document's stamp keeps the old document |
| `markdown_runs` | every pair of leaf blocks, quotes, lists of up to 3 items with nested bodies, spans with links and images in each other; options; 2 overlapping calls (890 worlds) | answered once, not early and in the end; refines `IsolatedCalls`; the output is the reference's; nothing is lost |
| `oauth_runs` | 2 operations, 2 logins, five worlds of schemes and popups | one live dialog, icons and info boxes agree, no icon without a token, an undisturbed login brings one |
| `satisfied_uncovered` | the same | violation: a logout while a popup is open makes its answer satisfy every operation |

### Bounds, and why they are enough

Two directories are one that is done and one that is not, or one with a collection and
one without; three runs are an import, its resumption or a replace, and what comes
after; five ids cover each run that fails and starts over.

Two bitstreams are the one whose answer is late and the one that would be given it. A
batch of two out of three bitstreams has a last one, at which the next query is made
too early, and one that waits beyond it. Two deposits that could use five connections
and have three can block each other at each point where one is taken; the same package
twice is a retry as well as a collision.

Three items for a thread and a queue of one are the least at which the main thread
blocks; one commit falls in the middle and one at the end; a page of one is smaller
than the index. Two threads already write the same document: the pool's and the
consumer's. Two changes are one before and one while an item is in hand, and let a change be dated
before another's commit. In `index_left_behind` one change is enough, and every date is
that of its commit, so that its counterexample is the race of row and stamp alone.

Two leaf blocks, with and without a blank line between them, are every neighbourhood
the rules of the lexer see; three items are a list that is cut in its middle; nesting
goes to the depth at which `top` and `bq` no longer change. Two calls are enough to
share the renderer and the defaults; two code blocks in each give four answers, which
come in every order. `Plain` and `PlainText` in `MCMarked` leave three shapes out of
`AsWritten`: a link within a link or within `<a>`; an image within `<a>`, or within a link
before its end; and an `<a` that is not closed, or is closed in another text. They are
among the documents, and the other properties hold of them, but the code's single
variable `inLink` does change what follows them (below). An image at the end of a link
is in `AsWritten`. `NothingLost` is of all documents; under `sanitize` it excepts what
links with a refused address say, which the code loses.

Two logins are one that is under way when the other begins. Two operations are one
that a token covers and one that it does not. The worlds have implicit and access code
flows, both, a scheme without flow beside one with, and an API of version 1.2 after one
of version 2.

`CHECK_DEADLOCK FALSE` is set where the system stops by itself: after the last run of
the operator, when all requests or calls are answered, when the consumers have nothing
left to scan, and when a commit that throws in the fold has left the process hanging
(`stuck`). In `oauth_runs` the user can always go on, and deadlock is checked.

### Fairness

* Importer: `WF` of the one thread of the JVM, over all its steps. Starting a run,
  crashes and edits have none.
* Scanners: `WF` of each consumer thread and script. The script has in addition
  `SF` for taking a given bitstream and for its commit: that it comes to each
  bitstream again and again is what `BitstreamChecker` checks (`ScannedAgain`).
* Checker: `WF` of the script, of cron, which starts it every week, and of time, by
  which a duration passes; a duration is taken to outlast the first scan.
* Deposits: `WF` of each request's thread. A thread that waits for a connection gets
  an exception after `db.maxwait` and goes on, so it is never disabled for good.
* Index: `WF` of cron, which starts the job every night, of the main thread, of each
  thread of the pool, of the web application and of Solr's automatic commits. Changes
  and failures have none and are bounded.
* Markdown: `WF` of a loop over tokens, and of each call's highlighter, if it answers
  at all: worlds without results have highlighters that never do, and there
  `EveryCallAnswered` claims nothing.
* OAuth: the user does something about each popup, if only close it, and the token's
  server answers each code. Nothing obliges the user to log in.


## What is proved

TLAPS proves the following for every value of the constants (any number of
directories, bitstreams, threads, deposits, connections, items, calls, operations,
every set of faults), under the assumptions named in the modules, which only type the
constants and keep the sentinels apart from the data.

### ItemImport

* `TypeCorrect`: the type invariant; it needs that `addItem` reads back the item it
  created (`IInv`).
* `MapfileIsTrue`: `RecordedWasCommitted`. The line is printed before the commit, so
  the invariant `Provenance` speaks of the file, of the buffer and of the line just
  printed separately: what is in the file was committed, what is in the buffer was
  committed or belongs to the item about to be. An id of the sequence is never used
  twice, and a handle file names an item of its own directory.
* `NoSilentLoss`: `SuccessMeansImported`, from `Provenance` and `Covered`: each
  directory is ahead, being worked on, or has been committed once.
* `TransactionalAllOrNothing`: `AllOrNothing`, for imports, replacements and deletions.
  The invariant `Progress` says of each directory or entry of the run that it is ahead
  or that `work` already shows it done, until an abort was counted. In a replace the
  new item must be told from the old one and outlive the deletions that follow: `Apart`
  says that no number which an item, a mapfile line or a handle file of one directory
  carries is carried by those of another, so that deleting an original takes no other
  directory's item with it (`DeletesOwn`).
* `InvalidNeverStored`: `NoInvalidItemStored`, by `Sound`: what breaks the rules is at
  most the item just built, and every commit comes after its deletion.
* `DeletedIsGone`: `DeleteRemovesAll`, by `Removing`: an entry is ahead or the items it names
  are out of `work`, and the end of the run makes `work` the disk.
* `ImportedOnce`: `OneItemPerDirectory`, without crashes, by `Single`: an item is listed in
  the mapfile or its buffer, unless it was just built, and what an import still has
  ahead is not (`Ahead`); a file that does not exist yet has no items (`Files`).
* `RecordIsKept`: `ImportKeepsRecord`; a mapfile is opened afresh only when there was none
  (`Opens`).
* `HandlesSurviveReplace`: `ReplaceKeepsHandles`; for replaces without validation: all files that
  name a handle for a directory name the same one (`OneHandle`), and from the deletion
  of the original to the commit the new item has its handle (`Replacing`).
* `RunsAreBounded`: the part of `RunEnds` that needs no fairness. `StepsLeft` counts what
  a run has ahead, at most `4n + 7` for `n` directories; every step of the importer
  lessens it, a rejection or an abort as well as a success, and only the start of a
  run adds to it.

### VirusScan and BitstreamChecker

* `ScanTypeCorrect`: a session has at most one answer under way, and only while it
  waits for it (`Wires`).
* `ScansAtomic`: `VirusScan` implements `AtomicScans`, as long as `BufferAlone`: no two
  scanners of a JVM have something in its buffer that they will still read (a file to
  send, or an answer to judge by). The invariant
  follows the file from the buffer over the wire back to the buffer: at each stage
  what is there belongs to `cur`; and a session has only bitstreams of its item to
  scan. With one scanner per JVM `BufferAlone` needs no assumption
  (`ScansAtomicOnePerJvm`). Without it the theorem is false: see `shared_buffer`.
* `VerdictsAreSound`, `CleanStaysReadable`: `VerdictSound` and `OnlyInfectedHidden`, while
  `BufferAlone`; the first also needs that no infected file is above clamd's stream
  limit (the oversized answer below), the second does not.
* `FlagFollowsHiding`: `FlaggedIsHidden`, by `Hiding`: the pool only takes items of the
  archive, and while the verdict VIRUS waits to be stored, the bitstream is hidden.
* `CheckerTypeCorrect`: the type invariant, which says that the order of the scan dates lists
  every bitstream once with those never scanned first, in the session as in the
  database. A scan moves a bitstream to the end of that order (`PlaceOf`, `Dated`), and
  the lemmas say what is before and behind it then (`DatedShape`, `DatedOrder`).
* `OldestBatchScanned`: `OldestBatchSwept`, by `Sweeping`: until the run has scanned, or has in
  hand, all it is for, the rest is in the batch, each once and none of it dated after
  the start (`Ahead`); so `lastScan` cannot end the run before.
* `ScannedOnce`: `NothingScannedTwice`: what the run has swept is dated after its start,
  what is dated so is not also without a date (`Dates`), and a run that does not loop
  takes only what is not yet dated so.
* `SweepsAreBounded`: the part of the checker's `RunEnds` that needs no fairness. A run
  over `n` bitstreams that does not loop takes at most `3n + 3` steps, and one more for
  each scan that finds clamd down, since such a scan leaves its bitstream where it was;
  a looping run is three steps from its end once its time is over.

### SwordDeposit

* `DepositTypeCorrect`: the type invariant.
* `DepositsAtomic`: `SwordDeposit` implements `AtomicDeposits`. `Transactions` says that
  a deposit's uncommitted items are of its own package, complete at the end of the
  loop, and that it has deleted nothing unless it is on its way to the abort: that is
  why deleting what a shared mapfile lists cannot hurt. `Committed` ties `disk` and
  `answer` to `pc`. `Commit` is `Store`, `Accept` is `Accept`, the failures are
  `Refuse`, and every other step stutters.
* `ConnectionsAreReturned`: `ConnectionsReturned`, from `Bounded` (the pool is finite and
  never exceeded) and `Balanced` (what a thread holds at each stage).
* `UniqueInTurn`: `IdentifiersUnique`. With no overlap nothing is claimed between the
  rule's look and the consumer's claim, so what was found clear stays clear
  (`Cleared`); and what is committed has claimed its identifier or is about to
  (`Claiming`), unless a consumer failed or the web application went down.
* `RequestsAreBounded`: the part of `EveryRequestAnswered` that needs no fairness. A
  thread is at most `4n + 7` steps from its end for a package of `n` items, whatever
  the other deposits do; where it ends there is an answer, unless the web application
  went down.

### DiscoveryIndex

* `IndexTypeCorrect`: the type invariant, with the bound of the queue.
* `IndexUpToDate`: `UpToDate`. What a thread holds of an item is still so, unless the item's
  last change was overtaken (`Hand`); else a document whose stamp is not older than the
  date of that change has its content (`Right`); a document that was fresh and visible is missing only while it
  is being rewritten (`Kept`); during an update each item whose last change was
  committed by its start is ahead, in hand or done (`Owed`), and after it, done
  (`Settled`).
* `UpdatesAreBounded`: the part of `EventuallyIndexed` by which updates end, without
  fairness. While the main thread waits for room in the queue or for the pool, a
  thread has an item or can take one, since items are queued only when all threads
  are started (`Orderly`). An update of `n` items is at most `6n + 4` steps of the main
  thread and the pool from its end, and nothing but the next update adds to them.

### Marked

For any lexer and parser that return (`LexReturns`, `ParseReturns`):

* `TypeCorrect`, `CallsAnsweredOnce`, `NoEarlyOutput`: `TypeOK`, `AnsweredOnce`,
  `NothingParsedEarly`. The invariant is that `pending` is the number of the tokens
  that the loop has not reached, the highlighter has not given back, or it failed at
  (`Unsettled`): a failed token is never counted down, so the count stays above zero
  and the call is not answered with an output after its error.
* `Isolation`: `Marked` implements `IsolatedCalls`. `Ownership` says that a call that waits
  has its own tokens, lexed under the options it was made with, that `highlight` alone
  is missing from its options until a highlighter fails, and that only its code blocks
  were asked for. The settling of the last token is `Output`, a failure is `Fail`, and
  every other step of loop and highlighter stutters.
* `NoCallForgotten`: the part of `EveryCallAnswered` that needs no fairness. A call that
  was not answered has its loop on the stack or a token with a highlighter
  (`Remembered`), and each step of either lessens the `2n + 1` steps it is from its end.

### SwaggerOAuth

* `OAuthTypeCorrect`: the type invariant. The schemes of an API are any sequence, and the last
  with a flow or grant types decides (`LastScheme`); the boxes of a dialog are those of
  the page's schemes (`Boxed`). That the concatenated lists of scopes are a list of
  scopes is shown by the least position at which they would not be (`Flattened`), since
  the library defines the concatenation by a fold.
* `OneDialogAuthorizes`: `OneLiveDialog`. A new dialog takes the handlers from those
  before it (`Unbind`); every other step only hides, empties or ticks (`Fades`).
* `IconsAndInfosAgree`, `NoIconWithoutToken`: `IconsAgree`, `OnWithToken`. Icon and box are
  changed together; the key under which a token is stored is one of the API's, which
  needs that a finite set of positions has a greatest one.

### Only model-checked

* Liveness: `RunEnds` (importer and checker), `EventuallyHidden`, `ScannedAgain`,
  `EveryRequestAnswered`, `EventuallyIndexed`, `EveryCallAnswered`, `LoginBringsToken`.
  The prover does not reason about fairness and `ENABLED`. What it can show of five of
  them is shown (`RunsAreBounded`, `SweepsAreBounded`, `RequestsAreBounded`,
  `UpdatesAreBounded`, `NoCallForgotten`): how many steps there are at most, and for
  index and renderer that nobody waits for nobody. That a thread with steps left can
  take one, and does, stays with TLC.
* `AsWritten` and `NothingLost`: lexer, parser and reference are
  recursive operators, and what they compute for every source would be shown by
  induction over sources. `Isolation` reduces them to calls that are alone.


## Findings

The violation runs each show one disagreement between the code and a comment beside
it; `PROJECT.json` quotes it.

1. A replace whose new metadata is invalid commits the deletion of the original
   (`ItemImport.java:946`; comment at 783-785).
2. The static buffer of `ClamScan` is shared by threads, so a verdict may be of another
   file (`ClamScan.java:377`; comment at 374).
3. A logout while a popup is open sets the enabled scopes to null; its answer then
   misses no scope, and every operation shows as satisfied
   (`swagger-oauth.js:255`; comments at 241 and 273).
4. The document of an item is stamped after the item's row was read; an item changed in
   between keeps its old document through all later updates
   (`SolrServiceImpl.java:683`; comment at 190-192, `dspace/src/main/resources/crontab.sh:36`).

### Other disagreements, met while modelling, without a run

Importer:

* Resuming an aborted transactional import passes over the items that were rolled back,
  whose lines stay in the mapfile (`ItemImport.java:928`; the message at 384). The
  module states it as `ResumeCompletes`.
* A crash between commit and flush makes a resumed import take a directory twice
  (`ItemImport.java:931-935`, though 280 offers resumption as the remedy).
* A commit that fails leaves the line of its item in the mapfile, since the line is written
  before (`ItemImport.java:928`); a resumed import passes over the item. `CommitsForReal`
  excepts these runs.
* An invalid item sent to the workflow stays: `deleteItem` only takes an item out of
  its collections (`ItemImport.java:943`, `980`). For the same reason a delete run
  leaves workflow items.
* `add-bte` without `--resume` truncates an existing mapfile; `--test` replaces still
  append to the handle files (`ItemImport.java:788`).
* A replaced item's handle is lost when a BTE import came between, since it ignores the
  handle file.
* `processUIImport` completes its context in a `finally` block (`ItemImport.java:2110`)
  although a comment says that all operations are aborted (2083). It has no caller in
  the repository.

Scanner and checker:

* Whether an item is archived is read before the scan and used after it
  (`ClamScan.java:151`, `206`), so that a bitstream can be flagged and readable until
  the next scan (`ScanHidesVirus`).
* An answer of clamd that reports the stream size limit counts as clean
  (`ClamScan.java:422-435`).
* A run of the checker without limits ends after one batch
  (`BitstreamCheckerIterator.java:42`; `EverythingSwept`).
* With clamd down the checker does not end, whatever its duration
  (`BitstreamChecker.java:95`; `EndsByDeadline`).
* A positive `-c` keeps the checker from scanning at all, as the test is
  `iteration >= count` (`IteratorScript.java:58`).

Deposits:

* Two deposits at the same time can store the same identifier
  (`UniqueValueByAuthorityId.java:28`; `AlwaysUnique`).
* `addItemsAtomic` undoes with a commit: harmless with the `TransactionalContext` of a
  deposit, but with a plain `Context` it would keep the half-built item and delete
  what its mapfile lists of other imports.
* An exception once the second context of a mediated deposit is open leaks that context
  (`SwordAuthenticator.java:214-262`): hence the exception in `ConnectionsReturned`.

Discovery index:

* `cleanIndex` "Iterates over all documents" (`SolrServiceImpl.java:476-477`) but asks for
  one page of them, ten by default.
* A commit that throws in `ItemFold` (77, 86) leaves the pool running: the process does
  not end, and with it stays the lock of the nightly job (`crontab.sh:37`).
* An item whose full text cannot be extracted loses its document before the write fails
  (`SolrServiceImpl.java:224-225`) and stays out of the index.
* A change that is dated before, and committed after, an update reads its item or stamps its
  document is left behind as well: the stamp is not older than the date
  (`SolrServiceImpl.java:649`).
* A thread that had read an item which is deleted meanwhile writes its document again;
  it stays until it is cleaned.

Markdown renderer:

* A link or an image in a link ends the outer one for `inLink`, also where the outer one is
  an `<a>`: an address after it becomes a link in a link (`marked.js:615-622`, `637-639`).
  An `<a` that is not closed keeps addresses of all later blocks from becoming links.
* Under `sanitize` a link whose address is refused loses its text as well
  (`marked.js:863-872`).
* A synchronous call without options uses `marked.defaults` itself rather than a copy.

OAuth login:

* Scopes ticked in an earlier, hidden dialog are asked for again, as the boxes are
  looked up in the whole page (`swagger-oauth.js:51`, `135`); the label of a box of the
  newest dialog ticks that of the oldest, with the same id.
* A logout leaves the token with the client (`swagger-oauth.js:167`,
  `U/dist/swagger-ui.js:30788-30801`), and its info box keeps `ic-info`.
* Cancel in an older dialog closes the newest.
* The token url of an API of version 1.2 outlives it, and the next answer is lost.
* The token is stored under the key of the last OAuth 2 scheme, though another one may
  have been used.


## What is not modelled, and why

Metadata and contents parsing, archives, mail, reports, logging and presentation are
input and output. Solr, PostgreSQL, clamd, the SWORD and DSpace libraries and jQuery
are not under the repository's own code; they appear as far as the code relies on them.
`U/gulpfile.js`, `U/lang` and the vendored libraries of `U/lib` keep no state between
calls. SWORD requests other than creating a deposit, and the components of the second
table above that are not marked as left out, are left for later.


## Plan

1. `ItemImport`, `VirusScan`, `BitstreamChecker`, `AtomicDeposits` and `SwordDeposit`, with
   proofs: done.
2. `DiscoveryIndex`, with proofs: done. Left: searching, and the contexts that the fold's
   threads share.
3. `MarkdownLexer`, `MarkdownParser`, `MarkdownReference` and `Marked`, `SwaggerOAuth`, with
   proofs: done.
4. `ComplianceRules`: rules, categories and policies as pure operators over small
   metadata, checked against a declarative definition; then used by an instance of
   the importer and the deposits.
5. `GroupCache` and `AuthorizeManager`: the hierarchy cache against the closure of the
   memberships under changes by several contexts; policies by date. After that
   metadata-based access, the REST resources' contexts, `ItemExport`, the checker of
   checksums, the deletion scripts and the remaining SWORD requests.
6. Theorems: all safety properties of the runs are proved but `AsWritten` and
   `NothingLost`, and the bounds on the length of runs, sweeps, requests, updates and
   calls. Left: abstract specifications of the importer and of the index, and
   the recursion of `MarkdownLexer` as functions, so that at least its types can be
   proved.

Modules to be proved about declare no recursive operators. Passing runs stay one per
module, with `world` collecting the circumstances.
