# A specification of yoshi-pihole

TLA+ modules, model-checking runs and machine-checked proofs for yoshi-pihole,
a DNS sinkhole for one Mac: a daemon that answers DNS queries from block and
allow lists, an HTTP API with a dashboard, two SQLite databases, a helper in the
menu bar, and the scripts that install and remove all of it.
Paths and line numbers are those of the repository, under `src/`.

## The system

| component | code | state | operations | hard about it |
|---|---|---|---|---|
| gravity.db store | `internal/db/gravity_store.go`, `migrations/gravity_schema.sql` | tables adlist, gravity, domainlist, group and the tables that relate them | add, remove, switch, replace the domains of a list, metadata, the two queries of `LoadSnapshot` | foreign keys, ids held across calls, one connection |
| rule reload | `internal/api/{domains,lists,groups}.go`, the closure `reload` of `main.go`, `Engine.Load` | the snapshot the engine holds | write, then read two queries, then swap | no lock from the write to the swap, two queries without a transaction |
| gravity builder | `internal/gravity/build.go`, `fetch.go` | none of its own; a listing and a body while it runs | `EnsureDefaultAdlists`, `Run`, `Fetch` with entity tags | overlaps itself and the handlers, dies between two writes |
| parsing | `gravity/parse.go`, `DetectAndParse` of `fetch.go`, `ParseRegex` of `regex.go` | none | text to domains, text to a rule | the format is guessed from a sample, malformed and cut off input |
| blocking switch | `internal/service/bedtime.go`, `internal/api/dns_control.go` | one atomic int64 | `Enable`, `Disable`, `IsDisabled`, `Status` | lock-free, a clock, integer overflow |
| matcher engine | `internal/matcher/engine.go`, `gravity/regex.go` | a pointer to an immutable snapshot | `Evaluate`, `Load` | precedence of four lists |
| resolver | `internal/dns/` | none shared | `handleQuery`: switch, engine, answer or forward, log | reads shared state twice, failing and truncating upstreams |
| query log | `internal/db/query_store.go` | a channel, a batch, a table, a counter | `Log`, the writer `loop`, `Close` | a full buffer, failing batches, the order of the shutdown |
| log readers | `query_store.go`, `api/stats.go`, `api/queries.go` | none | `Summary`, `Recent` | several statements without a transaction, offsets that move |
| lifecycle | `cmd/yoshi-pihole/main.go`, `config.go`, `sqlite.go` | which servers are up, what was loaded | start, first update, serve, shutdown | the Mac resolves names through a process that is not up yet |
| status icon | `cmd/yoshi-menubar/main.go` | the icon | poll, click | two goroutines whose answers come late |
| installer | `scripts/install.sh`, `uninstall.sh` | files, launchd's job, the DNS servers of every service, their backup | install, reinstall, uninstall | stopped or failing between any two commands |
| clients, dashboard, `install-menubar.sh` | `api/clients.go`, `web/`, `scripts/` | | | not modelled |

How they interact.  `runServe` seeds the default lists, runs the builder once,
reloads, and only then starts the DNS and HTTP servers.  Each HTTP request and
each DNS query is a goroutine.  A handler that writes rules calls `Reload` before
it answers; an update is answered at once and goes on in a goroutine that reloads
at its end.  The resolver shares with the rest the pointer of the engine, the word
of the switch and the channel of the log, and nothing else.  launchd keeps the
process alive; the scripts put it into launchd's hands and the Mac's DNS servers
into the process's; the icon is a client of the API.

What makes each part correct: the tables are consistent after any sequence of
calls (store); an idle system evaluates queries against the rules of the database
(reload); what an update leaves is one version of each list, as new as it can be,
and no cached tag hides a stale one (builder); what a list names is blocked and
nothing else (parsing); the last command is obeyed (switch); every event is logged
once, in order, or counted (log); figures are within what the table held (readers);
every decision was right at some instant, and its answer fits it (resolver); the
daemon comes back, with what it had fetched (lifecycle); the user's DNS servers are
not lost and nobody is left without an answer (installer); the icon comes to show
the switch (icon).

## The modules

| module | models | extends |
|---|---|---|
| `GravityDB` | the store methods, one step each, and both queries of `LoadSnapshot` | |
| `RuleReload` | the API handlers, the reload in its steps, the connection, updates that outlive their answer, restarts; implements `RuleService` | `GravityDB` |
| `RuleService` | what the API promises: queries go by the rules of the last answer | |
| `GravityUpdate` | `EnsureDefaultAdlists` and `Builder.Run` statement by statement, the user, upstreams, crashes | `GravityDB` |
| `BlockingSwitch` | what the switch promises: the last command and the clock say what it is, nothing else | |
| `Bedtime` | `bedtime.go` at the grain of atomic loads, stores and swaps; implements `BlockingSwitch` | |
| `LossyLog` | what the query log promises: calls that never wait, and losses that are bounded and counted | |
| `QueryLog` | `Log` and `loop` of `QueryStore` between resolver goroutines and the table, and the shutdown; implements `LossyLog` | |
| `QueryReads` | `Summary` statement by statement and `Recent` page by page, while the writer commits | `QueryLog` |
| `Matcher` | `Evaluate` and `Matches`, as operators | |
| `Parsing` | `DetectAndParse` and its three parsers, and `ParseRegex`, composed with `Evaluate` | `Matcher` |
| `Resolver` | `handleQuery`, `forwardUpstream`, the answers, what is logged | `Matcher` |
| `Lifecycle` | the process from one start to the next under launchd | |
| `Installer` | `install.sh` and `uninstall.sh`, command by command | `Lifecycle` |
| `StatusIcon` | the two goroutines of `yoshi-menubar` | `Lifecycle` |
| `Deployment` | the three together on one Mac, which may itself restart | `Installer`, `StatusIcon` |
| `*_proofs` | the theorems about `GravityDB`, `RuleReload`, `GravityUpdate`, `Bedtime`, `QueryLog` with `QueryReads`, `Parsing`, `Resolver`, `Deployment` | the module each is about |
| `MC*` | instances for TLC | the module each is about |

**GravityDB.**  `SetMaxOpenConns(1)` (`sqlite.go:53`) makes every method, a
statement or one transaction, atomic; so each is one action.  A table with an id
is a function from ids to rows; a table that relates ids is a set of pairs.
`AUTOINCREMENT` is `adlistSeq`, `domainSeq` and `groupSeq`.  A method that fails
changes nothing.  Comments, dates and counters decide nothing and are left out.

**RuleReload.**  `pc` is where a goroutine is; between its write and its swap a
handler is at `reload` (waits for the connection), `gravity` (holds it, rows
open), `domains` (waits again), `load`.  `engine` is the compiled snapshot.
`handleListsCreate` and `handleGroupsCreate` do not reload, as in the code.
`handleListsUpdate` answers at once and starts a goroutine, an `Updater`, which builds
and reloads while the handler that started it takes the next request
(`lists.go:88-96`).  A running builder may store anything for any list here;
`GravityUpdate` says what.  `readCurrent` and `engineCurrent` are histories: the reloads
that began after the last write of a rule, and whether the engine was loaded by one of
them.  So is `orderly`: whoever last began to change rules found nobody else at it, and
no query of a reload has failed since.

**RuleService** is what the user sees of it: rules that are stored, rules queries go
by, whether queries are taken, whether everything is answered, and `calm`, whether the
promise stands.  Rules may change in any way while a request is served; while it is
calm, the answer is the step that applies all that is stored.  Changes that overtake
each other and queries that fail end the calm; a change that begins when all is
answered restores it.  The mapping is `Snapshot` (what a reload would load now) for the
stored rules, `engine` for those in use, `serving`, `AllAnswered`, and `orderly` for `calm`.

**GravityUpdate.**  `listing` is the slice `adlists`, read once and out of date
from then on; `todo` what is left of the loop; `got` the body in hand.  An upstream
is the number of the version it publishes, its entity tag that number; it never
goes back to an older version.  `Corpus` stands for `DetectAndParse`, which
`Parsing` has.  The user edits the table between any two statements, and `Restart`
falls between any two, so between the domains of a list and its tag.

**Bedtime.**  A look is `load`, `check`, `swap`; a pause reads the clock, and stores its
deadline in a second step (`bedtime.go:29`): `asked` is what it read.  Commands and
ticks fall between any two.
The clock counts ticks, `TicksPerSecond` of them to a second, so that a pause that
starts within a second and ends on a whole one is told from one that is exact.
A duration wraps modulo `DurationModulus`, 2^64 in the code.

**BlockingSwitch.**  A caller asks, and what it asked for takes effect later, in an order
that is open: `waiting` is what each has asked for, and when.  A pause is counted from
the asking.

**QueryLog.**  `events` is the channel, `batch` the slice of `loop`, and `loop` where
its goroutine is.  `Close` of the module is the end of `Shutdown` followed by
`close(done)`: it may come with handlers still busy, after five seconds.  An
event is the number of its call.  A batch that fails is forgotten, as in the code;
`accepted`, `issued` and `discarded` are the histories the properties compare with.

**LossyLog** has calls, what waits, what is stored, what was refused and what was
forgotten.  A call is refused only while a channel's worth waits; what waits is
stored, or forgotten by a write that failed, from its front, several calls at once and
all of them or none; once the process has ended nothing changes.  In the mapping what
waits is `batch \o events`.

**QueryReads.**  One request at a time, since readers change nothing: `reader` is the
statement `Summary` comes to next, or that a client is paging.  `began` is the
history of what the table held when the first statement ran.  A request's filter
is the set of events it selects.  Types `qtypeName` has no name for come under one
name, and one of their counts stays, any of them, as the code ranges over rows.  The two
statements of `Summary` that list the domains asked for most (`query_store.go:241-249`) are
left out: an event has no name here.

**Parsing.**  A line is told by its form, that is by what the code looks at: how it
begins and what separates its words.  A line is written in the format of its list,
and the list grows line by line; a filter grows tag by tag.  `long` is a line the
scanner has no room for.  `Normal` is lower case without a trailing dot.

**Resolver.**  A handler is at `switch`, `engine`, `udp`, `tcp` or `log`.  `Toggle` and
`Reload` are everything the API does to what handlers share, between any two
steps.  A message is its code, the types of its records, and where it is from.
`healthy` is a set of upstreams drawn at the start: one of them answers every query
over UDP, any other may fail; over TCP any may.  `seen` is the history of what a
query met until it was decided.

**Lifecycle.**  `phase` is where `runServe` is, `up` the listeners it has, `engine`
whether it has the lists; all of it ends with the process, and `fetched`, the data
directories with lists, does not.  `LoadLists` may fail, at the start and at a request:
the failure is logged, the engine stays as it was and the servers start all the same
(`main.go:104-108`).  `unloaded` says that the engine is empty for that reason, `late`
that the lists were first fetched by hand, when the process served already.  A
process whose files are purged goes on with them, unlinked.  An update needs `Resolvable`: a service of the Mac
has servers of the network, or the daemon (or who has its port) answers.  A port
somebody else holds ends the process, and launchd starts it again.

**Installer.**  `pc` is the next command of the script that runs.  Under `set -e` a
command that fails ends the script, and so may the user: `cut` says that it happened
to the script that runs, or to the last one that ran.
`bootout` may fail and be passed over (`install.sh:105`, `uninstall.sh:38`), and
`bootstrap` is refused for a job that is still loaded.  A service whose servers cannot be
read is saved as one without any and redirected all the same (`install.sh:133-136`):
`unread` has those.  `backup` is `dns-backup.json`; `lost` remembers that a script left no
copy of what a service had.  `launchctl` and `networksetup` are external and modelled from their use.

**StatusIcon.**  `poll` and `menu` are the two goroutines, each holding the answer it
got until it sets the icon.

**Deployment** joins them; `MacRestart` ends whatever runs, and launchd loads the job
if its file is there.

## What the runs check

Runs that pass:

| run | question | instance |
|---|---|---|
| `ReloadOverlapping` | Requests and an update that overlap anyhow, queries that fail: is a snapshot exact that was read after the last write; are the rules of whoever changed them alone in force once all is at rest; and is the API a `RuleService`? | 2 handlers, 1 updater, ids to 1 |
| `ReloadRequests` | Are the tables consistent, is the default group a switch for everything, and is everybody answered though all share one connection? | 1 handler, 1 updater, 2 groups, ids to 1, failing queries, fairness |
| `UpdateOneRun` | One update at a time, besides the first: do cached tags tell the truth after crashes, is what a run refreshed fresh and of one version, has no domain outlived its list, are the writes no reload follows invisible, and does the run end? | 2 addresses, 2 versions each, one of them empty, 1 updater, fairness |
| `BedtimeSwitch` | Is the last command obeyed, are callers told what was true, and is it a `BlockingSwitch`? | 2 callers, 3 ticks to a second, 9 ticks, 32 durations, 5 timers |
| `QueryLogAndReaders` | Is each event logged once, in order, or counted; is nothing left behind; is what was accepted settled, does the process end; are figures within what the table held, do pages miss nothing, and is it a `LossyLog`? | buffer 2, batch 2, 4 events, 2 goroutines, pages of 1 and 2, 2 filters, fairness |
| `ParseLists` | Is what is listed blocked, and nothing else; does a filter mean what its tags say; what does a list that is cut off lose? | 5 lines, a sample of 3, 4 tags, every form of line |
| `Deployment` | Are the user's DNS servers kept, given back by an uninstall that goes through, and nobody stranded; does the daemon come back with its lists, and the icon to the truth? | 2 services, 2 ports that may be taken, 1 crash or restart, one script with an icon or two without, fairness |
| `ResolverAnswers` | Was the decision right at some instant, does the answer fit, are upstreams tried in order and no longer than needed, does every query end? | 1 handler, 5 snapshots, 2 spellings, 3 types, 2 upstreams, fairness |

Runs that TLC must find violated, each a finding of `PROJECT.json`:

| run | shows |
|---|---|
| `ReloadLostUpdate` | two overlapping requests leave the engine with the older rules (`ChangesAreInForce`; `main.go:103`, against `router.go:24`) |
| `UpdateOverlap` | two overlapping updates leave old domains under the new tag, and all later updates see a 304 (`build.go:46`, against `build.go:21`) |
| `ParsePathRules` | a rule about one path of a site blocks the whole site (`parse.go:118`, against `parse.go:97`) |
| `DeploymentReinstall` | `install.sh`, `install.sh` again and `uninstall.sh`, each to its end: the second backup is of 127.0.0.1, which `uninstall.sh` then restores (`UninstallReverses`; `install.sh:128`, against `uninstall.sh:2`) |

`FreshWhenIdle` holds after every change that began alone, whatever overlapped or
failed before it; `ChangesAreInForce`, which asks it of all changes, fails with two that
overlap.  `UnchangedMeansCurrent` holds with one update at a time and fails with two.
The passing run, the theorem (`FreshTheorem`, `CurrentTheorem`) and the violation say
where the border is.

Seen in the code while modelling, with no run of their own, since nothing in the
repository says otherwise or nothing is decided by it:

- the servers of a service that cannot be read are saved as none, the service is
  redirected, and `uninstall.sh` leaves it with dhcp (`install.sh:133`, although
  `install.sh:34` speaks of a backup that can be restored): `unread` in
  `OriginalsSurvive` and `UninstallRestores`;
- when the lists cannot be read at the start, the daemon serves with an empty engine until
  the next reload (`main.go:104`): `unloaded` in `OnceFetchedAlwaysServed`;
- a default list that the user removed is seeded again at the next start
  (`build.go:71`; `config.go:39` does speak of a first run only);
- a list that failed once stays in status error while it is answered 304, for the
  metadata is written after a body only (`build.go:42`);
- nothing reads `update_interval_hours`, so lists are refreshed at a start and by
  hand only (`config.go:41`);
- an answer of `IsDisabled` may be that blocking is on though it was off all through
  the call: the word was loaded before a new pause replaced one that ended
  (`bedtime.go:46`); `OffWasTrue` holds of the other answer;
- `timer` is multiplied into a `time.Duration` without a bound (`dns_control.go:29`):
  `Duration` of `Bedtime` wraps as the code does, and a product that comes out
  negative disables blocking for good;
- the event of a handler that outlives the five seconds of the shutdown is taken by
  the channel after it was drained, and lost uncounted (`query_store.go:119`);
  `OrderlyExitKeepsAll` is about exits with every handler waited for;
- query types without a name share one entry of the summary, where one count
  overwrites the others (`query_store.go:261`); a limit above 1000 gives pages of
  the default size;
- a header, an exception, a cosmetic rule and another address all vote for the plain
  format, so a list that opens with many of them is read as plain (`fetch.go:83`):
  `NothingElseIsBlocked` says what may come of it; a hosts list read so blocks nothing;
- `localhost` of a hosts list is counted among the invalid names;
- a manual entry is stored as typed and looked up in lower case, so an entry with
  capitals never matches (`gravity_store.go:97`);
- SERVFAIL or REFUSED of an upstream is an answer like any other (`upstream.go:35`);
- a command of a second `install.sh` that fails after `bootout` leaves the services
  pointed at a daemon that does not run (`install.sh:149`), which `NobodyIsStranded`
  excepts by `cut` until a later script goes through; and the probe is satisfied by whoever answers (`install.sh:112`);
- `uninstall.sh --purge` deletes the backup although a restore failed, and run once
  more resets every service to DHCP (`uninstall.sh:56`): `lost` in `OriginalsSurvive`;
- `config.yaml` that was half written is never written again (`install.sh:69`).

### Bounds, and why they are enough

- `MaxId`: the largest id a table hands out.  With 2, in `UpdateOneRun` and
  `UpdateOverlap`, a list can be deleted and another added while somebody still holds
  the first id.  With 1, in the runs of `RuleReload`, each table has one row besides the
  default group, added, changed and deleted once; that keys stay unique with any number of rows
  is `DBIntegrityTheorem`.
- Two handlers and an update, two updaters, two callers, two resolver goroutines: every
  race of the code is between two parties (a writer and a reader, two swaps, two runs).
- `MaxVersion` 2: stale and fresh.  One version of `u2` is empty because storing
  nothing for a deleted list succeeds where storing something fails.
- `MaxTime` 9 with 3 ticks to a second: a pause of one and of two seconds begins
  at any fraction of a second and ends within the run.  `DurationModulus` 32 and
  timers 6 and 11: products that wrap to a negative and to a positive number.
- `MaxEvents` 4 with buffer and batch of 2: the buffer overflows with a batch in
  hand, and rows are committed before, between and after the statements of a
  summary and the pages of a listing.  `Limit` 1 is a page of one row; 3 is above
  `MaxLimit`, which the code turns into the default.  Four query types, two of
  which have no name.
- `MaxLines` 5 with `SampleSize` 3: two lines after a full sample, and every vote
  that a sample of three can have.  `MaxTags` 4: each of three kinds of tag, and one
  of them twice.
- `Service` 2, one with servers of its own and one without.  `Contended` leaves TCP
  out, which fails as UDP does.  `MaxCrashes` 1, at any step.  `Budget`: one
  script with an icon, or two without; three for `DeploymentReinstall`.  An uninstall
  that follows an install, or an installation repeated, needs two.
- `MaxSeen`: the instants a query meets before it is decided; 3 is the instant it
  came in, one change while it is at the switch and one while it is at the engine.
- The five snapshots have a name allowed exactly, allowed by a regex for one query type
  only, denied by hand, by a list and by a regex, rules inverted, scoped and
  negated, and of two rules that match with different replies the first; upstreams
  are healthy in every combination.  The mode is `null`: `nxdomain` gives one answer
  for all query types, and the theorems cover both.  One handler suffices as
  handlers share nothing they write; the theorems have any number.
- `exchanges` is counted up to one beyond the bound `ExchangesBounded` states.
- Symmetry, permuting handlers or callers, is used in `ReloadOverlapping`,
  `ReloadLostUpdate` and `BedtimeSwitch`, which check no liveness.
- Three systems really may stop, and their runs do not check deadlock: a query log
  whose process has ended, a list or filter that has reached its bound (`Parsing` is
  the input growing), and a Mac on which the scripts have been run and removed
  everything.  All others check it.

### Fairness

- `RuleReload`, in `ReloadRequests`: Go runs every goroutine that can run; `database/sql` hands a
  connection that is put back to a goroutine that waits for it.  `Proceed`, all that a
  goroutine does between its write and its answer, has strong fairness, since
  others can take the connection while it waits.  Requests have none: nobody has to
  send one.  A failing query is not required, nor that a builder stores anything.
- `GravityUpdate`: the steps of a run are fair, since a fetch ends within the 30
  seconds of the client, as are the start of the first run and the seeding before it.
  Upstreams, the user and crashes owe nothing.
- `QueryLog`: the writer runs and its ticker ticks, a query ends, `runServe` goes on
  once it was told to stop.  Nobody has to stop it.  Readers owe nothing.
- `Resolver`: an exchange ends with an answer or with its timeout.  Nothing is asked
  of the API, nor of the upstreams' health.
- `Deployment`: launchd starts the job it has when it is down (fair only with the
  installed configuration, since another may name a directory that cannot be
  opened), the first update ends by its timeout of 60 seconds, `Listen` succeeds or
  fails, a process told to stop ends in five seconds; the goroutines of the icon run.
  Scripts, users, crashes and whoever holds a port owe nothing: `AnswersAgain` and
  `IconEventuallyRight` say in their premises what has to come to rest.

## What is proved

For every value of the constants that satisfies the named assumptions of the
modules; the theorems a reader should know of are listed in `PROJECT.json`.

- **`GravityDB_proofs`**: `DBIntegrityTheorem`, `DefaultGroupTheorem`,
  `IdsNeverReusedTheorem`, `QuietWritesTheorem`.  The invariant is `DBTypeOK` with
  `DBIntegrity`: that ids are fresh needs that present ones are at most the
  sequence, that the default group silences everything needs that every row is in
  it and in no other.  Each method is a lemma, so that modules that call it inherit it.
- **`RuleReload_proofs`**: `ReloadUsesStore` and `ReloadIntegrity` (every step is one of the
  store's, so the handlers keep the integrity of the database), `ReloadTypesTheorem`, `ConnTheorem`, `EngineMatchesTheorem`.  The
  invariant says what each reload that began after the last write has in hand: at
  `gravity` and `domains` the rows of the first query as they are now, at `load` those of
  both.  A write empties `readCurrent`; any other step leaves both queries as they
  were, which is where the lemma of `QuietWritesTheorem` is needed.  `FreshTheorem` is for
  any number of handlers and updates and whatever fails: by `Solo`, after a change
  that began alone one goroutine is at work, and what it has read or will read is
  what is stored; one that joins it, or a query that fails, ends `orderly`, and the next
  change that begins alone restores it.  `ServesTheorem` shows that the API is
  a `RuleService`: writes, builders and the reads of a reload are steps that change the
  stored rules, or stutter; the load is the answer, for by `Solo` everybody else is idle
  and by `EngineMatches` what is loaded is what is stored.  `SilencedTheorem` joins
  `FreshTheorem` to `DefaultGroupTheorem`: with the default group off the engine is empty.
- **`GravityUpdate_proofs`**: `UpdateTypesTheorem`, `NoOrphansTheorem` (a list
  that is deleted while its body is on its way leaves no domains behind, for storing them
  then fails or stores none), and `RowsTheorem` by `VersionInv`: the
  rows of a list and the body in a builder's hand are each one version of an
  address.  With one updater, `OneRunInv`: nobody else writes the tags of the lists a
  run has before it, and what it stores is no older than its start; `CurrentTheorem`
  and `RefreshTheorem` follow.  `RunStepsTheorem`, for any number of runs at once, is by the
  measure `RunLeft`, three steps for each list to come.
- **`Bedtime_proofs`**: `OffWasTrueTheorem`, `CommandObeyedTheorem`, `SwitchTheorem`.
  The invariant says that a goroutine about to swap holds a second that is over:
  if the word still is that second, clearing it changes nothing anybody sees.
  `AskedInv` says that one about to store a pause holds an instant that is not to come,
  and under the mapping it is one that waits for that pause.
  `BlockingSwitch` knows the last command and its duration, so a swap that took a
  newer pause away would be no step of it.
- **`QueryLog_proofs`**: `QueryLogTypes` and `DropsCountedTheorem` (`CountInv`);
  `ExactlyOnceTheorem` (`OrderInv`: table, batch and channel, one after the other, are an
  increasing sequence below `issued`, and have what was accepted and not
  discarded); `OrderlyExitTheorem` (`EndInv`: where the writer is says what is left);
  `SummaryTheorem` (`CoverInv`: rows are added only, so that a figure that lay between
  the table of the first statement and the present one still does); `PagesTheorem`
  (`PageInv`: what was there at the first request and has fewer rows newer than it than
  the offset counts was seen; rows that are committed meanwhile only push the others
  down the pages, so that a row may come twice and is never passed over);
  `PromiseTheorem` (each step is a step of `LossyLog` or leaves its state alone:
  taking an event from the channel into the batch moves it within `batch \o events`);
  `NothingLostTheorem` (with `WriteFaults` off, `query_log \o batch \o events = accepted`);
  `ClosingStepsTheorem` (the measure `ClosingLeft`: an event that is accepted late costs
  a handler 4 and gives the channel 3, one that is taken from it costs 3 and gives a tick
  2 at most); `SettleStepsTheorem` (the measure `SettleLeft`: what comes before an event in
  the channel, which is in the order of the events by `OrderInv`, so that what a resolver
  adds is behind it; and what `loop` does until it writes the batch in hand).
- **`Parsing_proofs`**: `ListedTheorem`, `NothingElseTheorem`, `LaterLinesTheorem`.  The
  invariant `Written` says that lines are of the author's format, so that the form
  of a line tells what it may be taken for; that a line after a full sample is in no
  sample is a lemma about `Sample` on an appended sequence.  `FilterTheorem`: after n tags
  the loop has what the last of each kind among them said, for n = 0 and, by `TagStep`,
  from one n to the next; that this reaches every n is `UpTo`, by the least
  counterexample (`WFMin`), as the induction theorems take an operator.
- **`Resolver_proofs`**: `EvaluateAgrees` (the decision is what the four lists say,
  whatever the order of evaluation), `DecidedTheorem`, `UpstreamTheorem`,
  `ExchangesTheorem`, `FitsTheorem`, `ResolverTypesTheorem`.  The invariant says that a
  query that has not decided has met the present, so what it reads of the switch and
  later of the engine are each of an instant it met; that the upstreams before the
  one it is at have failed and had one exchange each; and that the reply that is
  withheld is that of a rule that matches.  `QueryStepsTheorem` is by the measure
  `StepsLeft`: an upstream is asked once, and TCP is tried of one answer only.
- **`Deployment_proofs`**: `OriginalsSurviveTheorem` (`SurvivalInv`: at each command of a
  script, which services have their servers, and whether the backup has the others,
  save those `unread`; `BackupGood` is what it has of each),
  `UninstallTheorem` (`RestoreInv`: the services the loop of `uninstall.sh` has behind it have
  their servers, unless a step failed; those before it have them in the backup, by
  `SurvivalInv`),
  `NobodyIsStrandedTheorem` (`StrandInv`: between which commands the job may be gone),
  `OnceFetchedTheorem` (`ServedInv`: the
  engine has the lists once they were loaded, or it is `unloaded` or `late`), `DaemonStepsTheorem` and `LateAnswersTheorem`.

Every safety property of a passing run is a theorem: an invariant, an action property,
or that a module implements an abstract one.  Some theorems say what no run checks,
because they follow from what runs do check or hold for fixed constants only:
`DropsCountedTheorem` (a part of `KeepsPromise`), `ConnTheorem`, `IdsNeverReusedTheorem`,
`NothingLostTheorem`, `SilencedTheorem`, and the measures below.

Only model-checked is liveness: `Answered`, `RunEnds`, `Settled`, `StopEnds`, `QueryEnds`,
`AnswersAgain`, `IconEventuallyRight`, for fairness and ENABLED are out of the prover's
reach.  What of it is a safety property is proved, as an action property over a
measure: every step of the process or goroutine in question lowers it and nobody else's
raises it, so that fairness is needed for nothing but that steps are taken.

| liveness (TLC) | its measure (TLAPS) |
|---|---|
| `RunEnds` | `RunAdvances`: 3n + 1 steps for n lists |
| `QueryEnds` | `QueryAdvances`: `Len(Upstreams)` + 4 steps |
| `StopEnds` | `ClosingAdvances`: 4 for each busy handler, 3 for each place of the channel, 5 |
| `Settled` | `SettleAdvances`, while the servers run: `(BatchSize + 1) * (BufferSize + 1)` steps of `loop`; then `ClosingAdvances` |
| `AnswersAgain` | `DaemonAdvances`: 6 steps, unless it is killed |
| `IconEventuallyRight` | `LateOnce`: the icon goes wrong twice at most while the switch rests |

For `Answered` there is none: a goroutine that waits for the connection gets no nearer to
it by steps of its own or of any one other.

## What is not modelled

- The client tables: written, listed, and read by nothing else.
- The dashboard, a page that polls the API and draws; what it changes, the API does.
- `install-menubar.sh`, which copies a binary and writes a LaunchAgent; the static
  files of the router; applying the schema.
- Text: whether a name or a pattern is well formed is given with it.
- The spelling of manual entries, the wall clock going back, upstreams going back to
  an old entity tag, an empty list of upstreams (the query then fails at once).
- Filters of the query log are sets of events, not their SQL.

## Plan

Every component that decides anything is modelled and its safety proved.  Left:

1. A composition of store, engine, resolver and log: from a request answered to a
   query blocked and logged, with the spelling of manual entries.
2. The wall clock stepping back under a pause.
