# lobstr-mcp: specifications and proofs

TLA+ models of the `lobstr_mcp` server (`src/src/lobstr_mcp/`), the TLC
configurations that check them on small instances, and proofs that TLAPS checks
for every instance. The source is the reference; where a comment in a module
gives a line, it is a line of that tree. Run everything from this directory:

    tlc -workers 2 -config MCRunScraperAlone.cfg MCRunScraper
    tlapm RunScraperProofs.tla

## 1. The system

lobstr-mcp is a server that offers the Lobstr.io scraping API as tools to
language-model clients. It keeps almost nothing itself: what a tool does is a
sequence of HTTP requests to the API, each of which may be refused, may never be
sent, or may be applied without its answer coming back. A *squid* is a saved
scraper: settings (`params`), input rows (`tasks`) and linked platform accounts.
A *run* executes a squid over every row it holds, and costs credits.

| component | source | state | operations |
|---|---|---|---|
| run_scraper | `execution.py`, `tools/execution.py` | locals of one call | read squid, crawler, accounts, rows, balance; gate; write squid; start run; undo |
| idempotency store | `safeguards.py:235`, `persistence.py:114` | key -> (run id, expiry) | get (prunes), put |
| account selection | `account_linking.py` | none | resolve an explicit account, pick the only healthy one |
| cost estimate | `safeguards.py:72-225` | none | price of a run from rows, caps and paid steps |
| schema translation | `schema_translator.py` | none | crawler inputs to a JSON schema, levels, aliases |
| squid tools | `tools/primitives.py`, `tools/accounts.py`, `tools/scrapers.py` | none | create, configure, add rows, attach account, list, empty, deactivate |
| run observation | `execution.py:757-1048` | none | get run, wait, results, abort |
| search and paging | `tools/scrapers.py`, `lobstr_client.py:40-66`, `execution.py:914-963` | none | find a crawler by words or slug, walk pages |
| error contract | `errors.py` | none | API and transport errors to `error_code`, `request_state`, `retry_safe` |
| OAuth provider | `auth/oauth_provider.py`, `auth/token_store.py`, `persistence.py` | clients, pending consents, codes, access and refresh tokens | register, authorize, consent, exchange, refresh, revoke |
| scopes | `auth/scopes.py` | none | expansion and check of granted scopes |
| API client | `lobstr_client.py` | none | one request per method, capped page walks, slug lookup |
| presentation, wiring | `server.py`, `render.py`, `toon.py`, `observability.py`, `config.py` | none | transport, formatting, logging |

Components meet in three ways: tools call the API client and see its exceptions;
run_scraper calls share the idempotency store; and all of them, together with
the Lobstr dashboard, share the squids the API holds. The store and the OAuth
registries are process memory, or Redis when several processes share them.

What is hard here is not computation: it is that every tool is a long sequence
of remote reads and writes with nothing atomic about it. Two calls overlap; the
dashboard edits a squid between a call's read and its write; an answer is lost;
a process dies between starting a run and remembering it; an undo fails too; a
run pauses while it is waited for. Around these sequences stand a few pure
algorithms whose inputs are adversarial by accident: what a crawler declares,
how it is priced, which accounts are connected.

What makes each part correct, in a word: run_scraper buys what it estimated, once,
and accounts for what it bought and destroyed; the squid tools change what they
were asked to change and no more; a watcher comes back in time and says what it
saw; an answer never says that retrying is safe when it is not; a token never
has more than its grant; the published schema loses no input; the estimate is a
bound. The hazards are listed, each at its line, in `PROJECT.json`.

## 2. Modules

| module | models |
|---|---|
| `ErrorContract` | how a request can end, and what a tool's error says of it |
| `RunScraper` | every run_scraper call in flight, the squids and runs of the API, the idempotency store |
| `PaidRuns` | the abstract specification: what run_scraper promises about money |
| `RunScraperPaid` | `RunScraper` seen as `PaidRuns` (the refinement mapping) |
| `SquidTools` | create_squid, update_scraper, add_tasks, attach_account, empty_scraper, deactivate_scraper |
| `RunWatch` | get_run, wait_for_run and abort_run on a run that the API advances |
| `OAuthProvider` | registrations, authorize requests, consents, codes, tokens, in one or more processes |
| `InputSchema` | the schema published for a crawler, and the split of an input on the way back |
| `CostEstimate` | prices, caps, paid steps, the estimate, the warning |
| `AccountChoice` | which connected account a squid gets |
| `Listings` | search_scrapers, the slug lookup, pages of squids and of results |
| `Algorithms` | the four above on given inputs, and what is promised of them |
| `MCRunScraper`, `MCSquidTools`, `MCRunWatch`, `MCOAuthProvider`, `MCAlgorithms` | the small instances TLC checks, one `.cfg` per question |
| `RunScraperProofs`, `RunScraperSafety`, `RunScraperSquids`, `RunScraperRefinement` | proofs about `RunScraper` |
| `OAuthProviderProofs` | proofs about `OAuthProvider` |
| `RunWatchProofs` | proofs about `RunWatch` |
| `SquidToolsProofs` | proofs about `SquidTools` |
| `AlgorithmProofs` | proofs about `Algorithms` |

`RunScraper`, `SquidTools` and `RunWatch` extend `ErrorContract`: all three make
requests that end in the same ways and tell of them in the same envelope. They
meet in the squids and runs that the API keeps. Each model has those of its own,
and stands for the others by a step of its surroundings (`OutsideEdit`, and the
API's own `RunStep`): what another tool may do to a squid between two requests of
a call is at most what the dashboard may do. The OAuth provider shares no state
with them: a token selects the user whose API key the calls carry. `RunScraper`
takes from the algorithms what it needs as parameters: `FreeRows` stands for
`CostEstimate`, the outcomes of `ResolveAccounts` for `AccountChoice`.

### RunScraper

A call is a record (`call[c]`) with a program counter and the locals of
`run_scraper_impl` that survive a request. One action is one API request and the
local computation after it, up to the next request or the return: what a call
computes in between is visible to nobody, and every interleaving of requests is
an interleaving of actions. In the code's order:

| action | code | |
|---|---|---|
| `Invoke` | 428-443 | arguments |
| `GetSquid` | 444-446 | reads params and accounts of a reused squid |
| `CatalogFails`, `RefuseInput` | 448-478 | crawler reads fail; validation_error |
| `KeyHit`, `KeyMiss` | 483-495 | `idem_store.get`, which prunes an expired entry |
| `AccountsFail`, `ResolveAccounts` | 502-539 | account to attach, or a refusal |
| `SnapshotTasks` | 112-133 | rows kept, rows counted, or unread |
| `AskConfirmation`, `BalanceFails`, `RefuseTasks`, `PassGate` | 567-664 | estimate, gate, protection of saved rows |
| `UpdateSquid`, `EmptySquid`, `AddTasks` | 183-295 | save the config, then replace or add the row |
| `LinkAccounts` | 670-673 | a re-run without input still saves a resolved account |
| `CreateSquid`, `ConfigureSquid`, `DeleteSquid` | 674-697, 88-109 | a squid made for the call, and its cleanup |
| `StartRun` | 706-718 | the paid step |
| `RestoreNothing`, `RestoreTasks` | 136-180 | undo of a replacement |
| `StoreFails` | 493 | the lookup fails, over Redis |
| `RecordRun` | 719-754 | `idem_store.put`, which may fail over Redis; then the answer |

A request ends `ok`, `rejected` (an API error), `not_sent` (connection refused),
`lost` (sent, not applied, no answer) or `late` (applied, no answer); the code
cannot tell the last two apart, and the model tells them apart only in what
happens to the API's state. A command on the store ends `ok`, `lost` or `late`
over Redis; its exception is none that `structured` maps (`errors.py:192-203`), so
a call that meets it ends `raised`, without a run, a squid or a `request_state`, also
when it has just paid for a run. The surroundings are `OutsideEdit` (the dashboard
or another tool changes one thing about a saved squid: its rows, its settings or
its account links), `Tick` (the clock of the store), `Restart` (a process dies with
calls in flight; without Redis the store goes with it).

Abstractions. Rows, settings and accounts are model values. Settings are one
value per squid: `_effective_settings` yields the call's value if it passes one
and the saved one otherwise, so the merge of two different fields is not
modelled, only who overwrites whom. A price is `FreeRows`, the number of rows
each setting may run without confirmation; 0 is an unknown price. `EmptyRow` is
a row whose params are not a non-empty dict. All calls are of one user and name
one crawler: keys of two users never meet (`user_scope`). `erased`, `made`,
`asked`, `until`, `known` and `disturbed` are history variables: no guard of
an action that models code reads them, except that `CreateSquid` uses `made` to
hand out a fresh id.

### OAuthProvider

The actors are calls, named by what they mint: a call of `authorize` by its
request id, a call of `complete_consent` by its code, a call of one of the two
exchanges by its pair of tokens; those of `revoke_token` have names of their own
(`Revocations`). `ended` is history: the lines a revocation has ended. `codes` stands for `_codes` and `_code_identity`
together, which are only ever changed together.

| action | code in `auth/oauth_provider.py` | |
|---|---|---|
| `Register` | 123-124 | a dynamic client registration |
| `BeginAuthorize`, `FailAuthorize`, `EndAuthorize` | 144-166 | prune, then add the pending request |
| `BeginConsent`, `FailConsent`, `FindPending` | 172-176 | prune, then look the request up |
| `Redeem` | 179, `auth/delegation.py:37` | the grant is spent at the API |
| `Finish` | 180-196 | consume the request, settle the scopes, make the code |
| `RedeemCode` | 198-210 | load and pop a code |
| `LoadRefresh`, `PopReads`, `PopDeletes` | 223-240 | load, read and delete the refresh token, settle the scopes |
| `PutAccess`, `PutRefresh` | 210-221, 241-251 | store the new pair; the answer may be lost |
| `DropAccess` | `auth/token_store.py:34` | an expired access token is dropped by who looks at it |
| `BeginRevoke`, `RevokeAccess`, `RevokeLooks`, `RevokeDrops` | 265-269, `persistence.py:110`, 185 | the access token is deleted, the refresh token read and deleted |
| `KeyGoesEarly` | `persistence.py:62` | a Redis key goes in the second before its expiry |

Atomicity is the point of this module, and it follows the code. The handlers of
one process are coroutines that never suspend (Redis is called synchronously),
so no two of them interleave: `LoopFree`. Consents are the exception, since
`server.py:149` runs them in worker threads: they interleave with each other and
with the handlers, also inside `_prune_pending`, which collects the stale
entries in one step and deletes them in another, where an entry that a
neighbour has deleted raises `KeyError` (`FailAuthorize`, `FailConsent`).
Processes that share a Redis interleave at each command. `Finish` is one step
although a thread executes it: its writes follow the redemption without a call
out, and what a neighbour could see between them is a request consumed and a
code nobody has been given yet.

A Redis command ends done, failed without effect or failed after its effect; a
dict does not fail. `Restart` takes a process's pending requests and codes, and
without Redis the clients and tokens too. Time is in ticks: a pending request,
a code and a refresh token are good in their last tick, an access token is not
(`DropAccess`), and a Redis key is gone when its time is up (`Tick`) or, since
`_ttl_from` cuts what is left to whole seconds, in its last tick (`KeyGoesEarly`).
A time to live that is cut to nothing would be stored as none (`persistence.py:66`),
which the times to live of a token never are (`StoreAssumption`). A client
registered over Redis is registered for `ClientTTL`.

External, that is, modelled from how `src/` uses it: the event loop, the ends of
a Redis command, the death of a process. Left out: PKCE, redirect URIs and the
check that a token is presented by its client, which the `mcp` package makes;
the encryption of stored tokens; a registration that fails, which leaves at most
an entry nobody knows the id of.

### PaidRuns and the refinement

`PaidRuns` knows calls, keys and runs, and nothing else: `Ask`, `Repeat` (answered
with a run of the same key), `Consult` (nothing is owed to the key, so the call may
buy), `Sell`, `Tell` (the run is named, and from now on owed to the key), `GiveUp`,
`Lapse` (promises end), `Crash`, and `Break`: a store that may fail (`Fallible`, which is
`SharedStore`) may do so as it is consulted or as it is told of a run, and a call
that it breaks has said nothing. Its states rule out the failures that cost
money: a second purchase by one call, a purchase while a run is owed to the key,
an answer that names somebody else's run, a run whose lost answer is not told as
unknown. A run that is paid and goes untold is there only where the store broke as it
was told of it.

`RunScraperPaid` maps `RunScraper` to it: `stage` from the program counter, `sold`
from the API's runs, `named` and `unsure` from the answers, `owed` from the promises
in force (`until`). Squids, failures, undo, the gate, the store and its clock are
hidden. What is checked (run `keys`) and proved (`PaysAsPromised`) is that every step
of `RunScraper` is a step of `PaidRuns` or leaves all of that unchanged.

### SquidTools

The shape is that of `RunScraper`: a call is a record with a program counter, an
action is one API request and the computation after it. `made` and `applied`, the
squid a call made and whether it changed anything, and `stale`, the calls whose squid
changed since they read it, are history.

| action | code | |
|---|---|---|
| `Invoke` | `tools/primitives.py:242-256` | arguments; an update of nothing is refused |
| `ReadSchema` | 152-180 | create_squid: aliases, validation, defaults, all best effort |
| `CreateSquid`, `ConfigureSquid` | 182-200 | make the squid, then save its config |
| `DeleteSquid` | 84-118 | a rejected config deletes it again |
| `GetSquid` | 203-212, `tools/accounts.py:117` | required by attach_account, best effort for the rest |
| `ReadWireNames` | 26-34 | the schema, for its aliases; best effort |
| `ReadCrawler`, `ResolveAccount` | `tools/accounts.py:117-174` | the account to attach, or a refusal |
| `WriteSquid` | 221-269, `tools/scrapers.py:436-485` | the one write of a tool on a saved squid |
| `OutsideEdit` | | the dashboard changes one thing about a squid |

Flat settings and those under "functions" merge alike and are one set. A setting
may be published under an alias only (`WireName`); the saved params are a function
from names to values, so that a save under an alias is seen. Which accounts are
usable is chosen anew at each `ResolveAccount`.

### RunWatch

| action | code in `execution.py` | |
|---|---|---|
| `Invoke` | 879-886, 802, 1005 | the clamp on the timeout, the first request |
| `GetRunStats`, `GetRun`, `AccountLimitOut` | 785-846 | the requests of one look |
| `GetRunCredits` | 862-871 | get_run with `full` |
| `Wake` | 888-892 | the sleep of the poll loop is over |
| `AbortRun` | 1005-1026 | |
| `Tick` | | a unit of time passes |
| `RunStep` | | the API moves the run on: pause at an account limit, relaunch, stop, verify, export |

The run is external: its statuses are those the code and its tests name, and what
it does next is up to it. Time is discrete: a request takes at most `Slow` ticks
(the client's timeout), computation none. The deadline of a call is the counter
`left`, which goes below zero when it has passed, so no clock has to be bounded.
`over`, `detailed`, `age` and `ended` are history. A look is not a snapshot: its two or
three requests see the run at different moments.

### The algorithms

`InputSchema`, `CostEstimate`, `AccountChoice` and `Listings` are operators without
state. `Algorithms` gives each the inputs it is to be looked at on: a behaviour
picks one and is done. Each ends with what it promises, stated without the operators that
compute it where there is a second way to say it: the steps that run are read off
the four places that may switch them (`Runs`), not off the merge the code makes;
what the API demands of a row is said of the declared entries (`Demanded`), not of
the schema made from them. A name is the sequence of the parts, words and numbers,
that its underscores separate, so that the alias `squid_a` of `a` and an input that
a crawler declares under that name are one name. Two entries of the shadowed dict
are published in the order of that dict, and each alias avoids every name published
by then, the aliases included (`PublishAlias`, `schema_translator.py:343`). What is
found in a catalog is the set of its places there, since only the first of some
places, their number and their emptiness are looked at. Amounts are whole credits and ratios are
in `Den`-ths.

An entry of `/params` is a spec or a bare value (`bare`), which is not published as a
setting (`schema_translator.py:164`, 169) but counts where levels are read. A run is
billed step by step as often as a step succeeds (`hits`): the estimate goes by the
mean, `int(max_rows * success_ratio)`, so `CostIsTold` is of runs that succeed no more
often than that. `list_my_scrapers` has three ways to its rows: with a crawler it
walks the squids as far as `list_squids` goes (`WalkMax` stands for what 50 pages
hold) and cuts its own pages, where a size of zero is a division by zero, and
otherwise passes on a page, or a bare list, of the API. Accounts go through the
type and status filter of the request before they are cut to a page (`Filtered`).

## 3. What the runs check

Deadlock is checked in every run but `algorithms`, whose behaviours are one step
long: elsewhere a state where nothing can happen but `Quiet` (all calls answered)
is an error. The calls of `RunScraper`, `SquidTools` and `OAuthProvider` are straight
lines, so that is their termination, and no fairness is assumed of them.

| run | instance | shows |
|---|---|---|
| `alone` | 1 call, perhaps with an account to attach, in-memory store, 2 faults, 2 outside edits of rows, settings or links | `GateHolds`, `RowsAccountedFor`, `LossIsNamed`, `RowsLeaveOnlyByReplace`, `RunHasAccount` |
| `pair` | 2 calls, on one squid or new ones, accounts, Redis, 2 faults | `AnswerNamesItsRun`, `NoHiddenRun`, `RunsAsEstimated`, `NoHiddenSquid`, `LinksLostOnlyToRaces` |
| `keys` | 3 calls, clock 0..2, Redis, restarts, 1 fault | `PromiseKept`, `NoPaidRepeat`, `KeepsPaidPromises` (the refinement) |
| `squids` | 2 calls of any of the six tools, 2 faults, 1 outside edit | `SavedStateLostOnlyBlind`, `LinksLostOnlyToRaces`, `ConfiguredSquidKept`, `NoHiddenSquid`, `RetrySafeMeansUntouched`, `SavedUnderRealNames`, `TypeOK` |
| `watch` | a wait, next to a full get_run or an abort; 1 fault | `EveryCallAnswered` (liveness), `WaitIsBounded`, `TimedOutIsTrue`, `DoneIsDone`, `OverIsReported`, `AbortIsTold` |
| `tokens` | 1 process in memory, 2 requests, 2 consents in threads, 3 exchanges, 1 failing redemption | `AllowAgainWorks`, `OneLiveRefresh` |
| `procs` | 2 processes on one Redis, 3 exchanges, 1 revocation, 1 fault, 1 restart | `CodeOnce`, `HeldTokenWorks`, `ScopesWithinGrant`, `RotationNotRefused`, `RevokedIsTheEnd` |
| `algorithms` | every input of a small size | `SchemaKeepsApart`, `SchemaAsksEnough`, `SchemaReachesAll`, `CostIsTold`, `AccountIsForced`, `CrawlersAreFound`, `PagesLoseNothing` |

Fairness. `RunWatch` alone states some, and of the server only: time passes
(`WF(Tick)`), and a request or a sleep that is under way ends (`WF(CallStep(c))` for
each call, since every request has a timeout and `time.sleep` returns; `Tick` itself
waits for a request that has used its time). Nothing is assumed of the run: it may
stay `pending` or `paused` for ever, and `EveryCallAnswered` holds all the same, which is
what the deadline is for. Nor is it assumed that a call is made.

Bounds of RunScraper: two rows and an unrepresentable one are enough for a
snapshot that is partial, stale or truncated (`PageCap`); two faults are what it
takes for a write and its undo to fail; two calls are what it takes to race,
three to race over a key whose earlier run has already been answered; the clock
needs two ticks for an entry to be live, at its limit and past it.

Bounds of SquidTools: one saved squid that both calls may change and two that they
may make; a plain setting with a default and one published under an alias; two
accounts, one of them perhaps attached; two failures for a save and the deletion
after it, or for the read and the write of one update; one edit to make a view stale.

Bounds of RunWatch: `WaitMin` 1, `WaitMax` 3, `Poll` 2, `Slow` 1 leave room for a sleep
that is cut to the deadline and for one that is not, for a request that crosses
the deadline, and for a timeout below and above the clamp.

Bounds of OAuthProvider: three exchanges are a code and two rotations, of one
token or of each other's, which is what it takes to narrow scopes twice and for
two rotations to meet; two consents, each with a grant, over two requests are what
it takes for two prunes and two redemptions to meet. What is asked for and granted
tells every branch of `_effective_scopes` apart: in `procs` two of three scopes are
granted and none, one, or one and the third asked for, in `tokens` one scope is asked
for against a grant of one or of none, which the code reads as everything. One fault
falls on any command of any exchange. The times to live are in ticks, of which there is
one: in `tokens` it makes stale whatever there is, so that a request, a code and a token
are each met fresh and stale and two prunes meet, and in `procs` it brings codes and
tokens to their last second, where a key of Redis may be gone. `AllowAgainWorks` and `OneLiveRefresh` are checked for one
process that is not restarted, where the event loop and its memory provide them:
they fail for two (below). What this run leaves out, Redis and restarts of the one
process, the proofs cover (§4). In `procs` a token is revoked in one process while
the other exchanges it: `RevokedIsTheEnd` then leaves out the rotations that have
read the token for their pop, which may survive it (`LastOfLine`), and includes those
that have only loaded it, which may not.

Bounds of the algorithms: three schema entries over two names, one of which is an
alias of the other, with any `/params`, bare values among them; two names whose aliases would be one name,
in any order of their entries; three task inputs with defaults and two groups; two paid steps set in every way, and one with every price and cap; three
accounts with pages of two; catalogs of up to three crawlers; up to seven squids with pages of up to four, zero and less, of which the walk
comes upon five; up to seven rows with pages of up to four.

The remaining runs each show a place where the program does not do what a line
of the repository says. They are listed with both lines in `PROJECT.json`:

| run | property | in short |
|---|---|---|
| `repeats` | `RepeatsAreReplayed` | overlapping repeats both pay |
| `undone` | `RestoredMeansNoRun` | "no run was started" after a lost answer to start_run |
| `replay` | `RequestOnce` | overlapping consents for one request, each with a grant, both yield a code |
| `early` | `DoneMeansOver` | a refused detail leaves is_done to the stats, which say so during the upload |

Seen in the same models, and not given a run of their own:

- a Redis put that fails after the run is paid (`execution.py:720`) ends the call in
  the store's exception: the caller has neither the run nor `unknown`, nothing is kept
  under its key, and the same call again pays again, against
  `tools/execution.py:116-117`;
- rows the snapshot cannot keep (no params, or past the last page read) are lost
  without `tasks_lost`, and if it kept none the answer says that nothing was
  destroyed (`execution.py:157-160`), against `docs/tools.md:95-98`;
- a settings-only input with `replace_tasks` empties the squid
  (`execution.py:633-636`), although `tools/execution.py:66-71` says that such an
  input leaves the saved inputs untouched;
- a write refused before it was sent is answered `not_sent` also when a squid
  has been made before it (`execution.py:691`, `CHANGELOG.md:331`);
- update_scraper that could not read the squid replaces its params with the new
  ones alone, and its name with the id (`tools/primitives.py:203`, 261):
  `SavedStateLostOnlyBlind` excepts it, and a save over a view that somebody has
  changed since;
- `task_count` is of the snapshot (`execution.py:617`), `docs/tools.md:108` says
  it is of the run;
- rows that cannot be read are priced as one (`execution.py:574`), so their run
  may pass the gate unconfirmed, although `docs/tools.md:100` says that an
  estimate that cannot be known needs confirmation;
- a link that is taken away between a call's read of the squid and the start of the
  run leaves a crawler that needs an account to run without one (`execution.py:445`,
  707), which `RunHasAccount` excepts;
- a consent that reaches another process than its request did is unknown there
  (`auth/oauth_provider.py:173`, against `docs/configuration.md:34-36`), and after a
  restart an "Allow" is answered as unknown, although `persistence.py:17` says that
  the user just clicks again;
- `pop` over Redis is a read and a delete (`persistence.py:185-190`), so two
  processes can rotate one refresh token into two pairs (against
  `auth/oauth_provider.py:233`), and a rotation that has read a token for its pop
  registers a successor also when the token is revoked before the delete;
- the estimate prices a step at its mean success (`safeguards.py:192`), so a run whose
  steps succeed more often may be billed above what `tools/execution.py:85-86` calls an
  upper bound;
- an abort of a run that is `uploading` because it has finished is answered
  "aborting", though nothing was stopped (`execution.py:1017`): `AbortIsTold` is of the
  answers that deny an abort;
- without Redis a restart forgets every run already answered, as the server says at
  its start (`server.py:106`): what is promised ends there, and the properties say so;
- a prune in a thread that meets one of a neighbour ends its consent in a
  `KeyError` (`auth/oauth_provider.py:96`); the request stays pending;
- squids beyond the 50 pages that `list_squids` walks are missing from
  list_my_scrapers with a crawler, and from its total (`lobstr_client.py:35-37`, 127);
- a registration ends 90 days after it was made, also under a client that
  rotates its token daily (`persistence.py:136-145`);
- a query of plurals, of parts of words, or of substrings can leave search_scrapers
  with two empty lists though each word matches some crawler, against
  `tools/scrapers.py:477`: the strict match knows singulars and substrings, the
  fallback whole words only, which is what `CrawlersAreFound` is restricted to;
- `schema_translator.py:262` says that the task level breaks a tie between two
  entries of one name; `_outranks` keeps the first;
- a squid-level key of `/params` whose name `input[]` declares once, at the task
  level, is not published (`schema_translator.py:306`), which is why
  `SchemaReachesAll` speaks of settings that share their name with nothing;
- only the first 100 accounts of a type are looked at (`account_linking.py:140`):
  `AccountIsForced` is of those that fit on the page.

## 4. What is proved

For every value of the constants, that is, for any number of calls, squids,
rows, processes, consents and tokens, any clock, any timeouts and any number of
faults:

`RunScraper`

- `TypeCorrect` (`RunScraperProofs`): `Spec => []TypeOK`. `TypeOK` alone is not
  inductive: a call that updates `squids[me.squid]` must know that `me.squid` is
  a squid. The invariant is `TypeInv`, `TypeOK` with `SquidsKnown`: a call past
  the reads that find its squid has one. There is one lemma per action, under
  lemmas about the shapes actions share (`ReadingType`, `FinishingType`,
  `WritingType`).
- `StoreAlwaysSound` and `NoRunIsHidden` (`RunScraperSafety`), from `RunInv`:
  `StoreSound` with `RecordsItsRun` (who is about to tell the store knows a run
  with its key), `Unanswered` (no answer before the last step) and `RunsOwned`.
  The last is the strengthening of `NoHiddenRun` that is inductive: it also says
  where a call that has started a run can be, that it is recording this very run
  or is undoing a replacement with `unknown` in its answer. A start whose answer
  is lost goes on with steps that fail or succeed on their own, and only that
  survives them. The theorem leaves a caller uninformed in one case, where a store
  over Redis fails as it is told of the run, and says that the run is then this one.
- Everything the runs `alone` and `pair` check of squids, rows, accounts and answers
  (`RunScraperSquids`): `RunsPassTheGate`, `RunsKeepTheirEstimate`,
  `RunsHaveAccounts`, `AnswersNameTheirRun`, `NoRowIsForgotten`, `LossesAreNamed`,
  `NoSquidIsHidden`, and the action properties `OnlyRacesLoseLinks` and
  `OnlyReplaceLosesRows`. They come from one invariant, `SquidInv`, next to `TypeInv`
  and `RunInv`. Its main part is `View(c)`, in four layers. `Local` is what the
  locals of a call say of each other: which request leads to which step, that the
  accounts to save are the ones read and more, that what a replacement destroyed is
  accounted for by the answer. `Held` is what is true of the call's squid whatever
  others do: that it exists.
  `Fresh` is what the call believes of the squid at each step (its settings, its
  accounts, the rows of the snapshot, the price of what is about to start), and
  holds as long as the call is not in `disturbed`; a step of one call or of the
  dashboard that writes to a squid puts the other calls on it in `disturbed`, so
  that nothing else needs to be shown of them. `Kept` says that the rows a
  replacement has destroyed are rows it had read. Besides, `MadeApart` (no two
  calls made one squid) keeps a new squid out of reach of the others, `RunsFit`
  says that a run is what its call was looking at, and `AnswersNamed` that an
  answer's run is its own or its key's. None of this can be read off the properties themselves: `GateHolds`, for
  one, is about the moment of `StartRun` and the estimate was made several requests
  earlier, so the invariant carries the price across each write in between.
- `PromisesAreKept` and `NoRunIsBoughtTwice` (`RunScraperSafety`), from
  `IdemInv`: `PromiseKept` with `PromiseBounded` (no promise outlasts a put made
  now, so the overwriting put of a later call keeps it), `RunKeyed`, and
  `KnownExpired` (every run that was known when a call asked the store had
  outlived its promise), which is what the lookup's miss establishes and what
  every later step leaves alone. The proof needs `KeyAssumption`: a caller's key
  is never one the server derives. The code keeps them apart by what stands in
  front of them, `derived:` against the user's scope, a hash
  (`execution.py:483-492`, `lobstr_client.py:274`).
- `PaysAsPromised` (`RunScraperRefinement`): `Spec => KeepsPaidPromises`, the
  refinement. To the invariants above it adds `Unsaid`: before a call is answered
  its answer is empty and nothing is promised, without which a step in the middle
  of a call could change what `PaidRuns` sees. Each action that neither asks the
  store nor pays is `Hidden` or `GivesUp` (`MinorMoves`, one case per action); the
  eight others have a lemma each that names their step of `PaidRuns`. The two that
  carry the argument are `KeyMissPaid`, where the miss shows that nothing is owed
  to the key (from `PromiseKept`), and `RecordRunPaid`, where what the store is told
  is the run that this call bought (from `RecordsItsRun`), also when the store fails
  after it was told.

`OAuthProvider`

- `TypeCorrect` (`OAuthProviderProofs`).
- `ScopesStayWithinGrant` and `RotationsAreNotRefused`, from `ScopeInv`. That a token's scopes are within the grant is not enough to
  survive a rotation, since an empty list is read as everything: `Good` asks
  that they also be non-empty when the grant names any. `GoodExchanges` carries
  it through the steps of an exchange, in which the token presented is gone and
  the new one is not yet stored; `RequestsTold` and `CodesTold` say that the
  request and the consent a token goes back to no longer change (`Settled`,
  proved for every action). `NextNarrowing` is the lemma about
  `_effective_scopes` that gives both theorems.
- `CodesAreExchangedOnce`, from `CodeInv`: a consent has one code, in one process, as
  long as nobody has taken it, and of the exchanges that did take a code no two
  took the same. This needs no assumption: codes are kept in process memory, and
  the handlers of a process do not interleave.
- `RotationReplaces`, from `LineInv`, assumes one process (`OneProcess`;
  `StoreAssumption` says as much when there is no Redis). The invariant is about the
  exchange that is under way: there is one at most, the token it has loaded is the
  only one of its line, and the line has none while the new pair is made. So it
  holds for a process that is restarted and whose Redis fails at any command, which
  is more than the run `tokens` covers. With two processes it is false (§3).
- `RevocationIsFinal` is of any number of processes. `Ended` says of a line whose one
  token a revocation has deleted that nothing is left to bring it back (`Gone`): no
  code, no token, and no exchange past the read of its pop. An exchange that has
  loaded the token and not yet read it for its pop does not count, as that read will
  miss; this is what `Descends` (a rotation is of the line of the token it was given)
  is for. What the theorem does not cover are the revocations that a rotation
  overtakes between that read and its delete.
- `HeldTokensWork`, from `Kept`, assumes Redis (`SharedStore`), for any number of
  processes; in memory a restart loses the tokens, as the code intends. A token
  counts as held until it is presented, to be rotated or to be revoked, and until
  its last tick, in which a Redis key may be gone.
- `ClickingAgainWorks` assumes one process and says it until the first restart:
  `AllowInv` adds `Waiting` (a request that is neither stale nor consumed is
  pending), and `StaleOnly` says that what a prune has collected stays stale
  however long its thread takes to delete it. That is what keeps a thread's prune
  from deleting a request the user is about to answer.

`SquidTools`, all it is checked for, from one invariant (`SquidToolsProofs`)

- `TypeCorrect`, `NoSquidIsHidden`, `RetriesAreSafe` and `RealNamesAreSaved`, and the
  action properties `ConfiguredSquidIsKept`, `LinksAreKept` and `SavedStateIsKept`.
  The invariant `IndInv` has, besides `TypeOK`, what a call has said and done by
  each of its steps (`Local`); that a squid which a call has read is still as it was
  read unless the call is in `stale`, and that any alias it saw there was sent by an
  answered call without a schema (`View`); that a squid a call has made carries no
  settings until the call's own configuration is applied, and is gone once an answer
  says so (`Own`), which needs that no two calls made one squid (`MadeApart`); that
  a new squid has no account links (`NewUnlinked`); and `RealNames`.  Steps are of
  two kinds with a lemma each, `ReadKind` and `WriteKind`; an action's lemma shows
  that it is of its kind.  The action properties follow from `SquidChanges`, what one
  step can do to one squid, and `FreshWrite`: with `View`, a save that puts back what
  was read and lays the new settings on top loses nothing.

`RunWatch`, all from one invariant (`RunWatchProofs`)

- `TypeCorrect`, `WaitsAreBounded`, `TimeoutsAreTrue`, `DoneStaysDone`, `OverIsSeen` and
  `AbortsAreTold`. None of the properties is inductive. The invariant has a part for
  the run (`RunSound`: no abort is pending at a run that has ended) and three per
  call. `Timed` says at each request how far past its deadline the call can be and
  how old its look is; the overrun of one look is the sum of its requests. `Judged`
  says what the look in progress has established and the run cannot undo: a run
  that was over stays over, whatever is aborted, verified or exported meanwhile.
  `Told` is what the answers say. A step of the run preserves it since a run that
  is over has no step that makes it less so (`CallPersists`).

The algorithms (`AlgorithmProofs`), for crawlers, catalogs, prices and lists of any size

- `InputsAreKeptApart`, `AcceptedIsEnough`, `DeclaredIsReached`, `CostsAreTold`,
  `OnlyForcedPicks`, `CrawlersCanBeFound` and `PagesAreComplete`: everything the run
  `algorithms` checks. The invariant is only that an input is of the set it was
  drawn from (`InputKnown`); the work is in lemmas about what is computed of it.
- The code's loops are folds of the community modules, and a fold is a `CHOOSE` of a
  function that satisfies an equation. So there are two steps to each: such a
  function exists (`FoldExists`, `SumExists`), and whatever satisfies the equation
  does what the loop is to do (`FoldUnrolled`, `SumRemove`, `SlicesMakeAll`). Both are
  inductions over numbers, and the library's induction rules take an operator as a
  parameter, which the provers cannot instantiate; `Least` and `Induct` say the same of
  sets of numbers, from the well-foundedness of `<`, and are applied to the set of
  numbers up to which a claim holds.
- The loop invariant of the `input[]` loop is `IsMerge`: what is kept and shadowed are
  entries of the list, of two levels where both, required where any of the name is,
  and `order` lists the shadowed names once each. That of the alias loop is
  `IsPublished`: the names of the API stay as they were published, and each shadowed
  name so far has one alias, outside all other names. It rests on `AliasFresh`: among
  the names `level_name`, `level_name_2`, ... one is free before the counter has
  passed the number of names taken, because they are all different (`LevelNames`).
  `Facts` is what both come to, and all four promises about the schema follow from it.
- `EstimateBounds` compares two sums over different sets of steps, those that are on by
  the merge the code makes and those a run is billed for by what is saved and sent,
  as often as they succeeded. `RunsAreOn` says that the steps are the same, `StepCosts`
  that what a step is billed is no more than its term although that is rounded down,
  and `SumLess` that then the sums are. The bound `MostRows` on the
  rows of a run that is looked at is a constant like any other here.
- `PagedSeesAll` and `PagesShowAll` cut a list at the ends of its pages (`Ends`), which
  ascend and come to its end; `PageBounds` is the rounding in the count of pages.
  `WalksSeeAll` applies the former to the three ways `list_my_scrapers` has to its rows,
  of which a capped walk yields a list of its own (`WalkedSquids`).

The assumptions are the named `ASSUME`s of the modules: which constants are members
or subsets of which, that the sets of rows, of input names and of paid steps are
finite, that numbers are naturals and times and page sizes positive, that there is
one process without Redis, and `KeyAssumption`. TLC evaluates them on every run. The
proofs of `RunWatch` use no fairness.

The conditions `OneProcess`, `SharedStore` and `restarts = 0` of the theorems about
`OAuthProvider` are hypotheses of the theorems and not of the modules. `docs/configuration.md:31-37`
describes both ways to run the server: one process in memory, which loses what it
knows at a restart, or any number of processes that share a Redis.

Only model-checked: `EveryCallAnswered`, since liveness and `ENABLED` are out of the
prover's reach.

## 5. Not modelled

- *Scopes* (`auth/scopes.py`): one implied scope and a set inclusion, with nothing
  that takes more than one step. How granted scopes narrow is in `OAuthProvider`.
- *Presentation and wiring* (`server.py`, `render.py`, `toon.py`, `observability.py`,
  `config.py`) and the texts of hints and errors: no state of the system depends on
  them.
- *HTTP* (`lobstr_client.py`): a request is one step that ends in one of five ways; what
  becomes of bytes, headers and pools, and any retry of a read, is the SDK's.
- *Tools that reshape one answer* (list_runs, get_results_url, get_my_scraper,
  get_scraper_details, list_accounts, check_credits but for its subtraction): one
  read, no write, nothing to interleave with.
- *The order of search results*: BM25 ranks what `Similar` selects; no property is
  about the order.
- *Types and descriptions of inputs*: `InputSchema` has names, levels, what is
  required, alternatives and defaults.
- *PKCE, redirect URIs, client authentication*: made by the `mcp` package.
