# A verification project for mirenai

mirenai is a DNS server for a home network. It screens each query by policies
per client, blocklists and local zones, answers from a cache or forwards to
upstream resolvers, and is configured through an HTTP API. This directory holds
TLA+ models of its parts, translated from the source, TLC configurations that
check them on small instances, and TLAPS proofs of all the safety properties for
every value of the constants. Paths below are relative to
`src/mirenai/` of the repository unless they begin with `docs/`, `tests/` or
are `README.md`.

## 1. The system

Four processes run under supervisord (each restarted when it exits): the HTTP
API (waitress, several threads), the DNS worker, the blocklist downloader and
the local-zone downloader. They share no memory. They communicate through
SQLite files: `config.db`, `blocklist.db`, `localhosts.db`, and files for the
statistics, the cache mirror and the query log. A transaction covers one file,
and with the driver in use it begins at the first write, so that two SELECTs of
one session may see two states.

Inside the DNS worker, many threads share memory: one thread per query, the
configuration refresher, the host tracker's flush thread, one flush thread for
each statistics buffer, the RTT flush thread with its gap prober, the cache
flusher and the thread that mirrors the cache and the gauges.

| component | state | operations | correct when |
|---|---|---|---|
| policy selection (`domain/policy.py`) | none | `select_policy` scans the rules | it returns the rule the documented precedence names |
| configuration snapshot (`domain/state.py`) | seven published fields under a lock | timed `reload` with seven loaders, property reads | a query never sees a value older than the last full reload; a failed pass changes nothing; edits arrive |
| query pipeline (`domain/resolver.py`) | none of its own | `handle`: screens with early returns, local, cache, forward | the screens that hold throughout a query's window are never passed |
| answer cache (`domain/cache.py`) | ordered dictionary under a lock | `get`, `set`, `clear`, `snapshot` | capacity, LRU order, lifetimes |
| flush protocol (`repository/cache_control.py`, `workers/dns_server.py`) | a stored time stamp, the flusher's `last_seen` | API request, poll, clear | a request clears every answer stored before it |
| host discovery (`domain/hosts.py`, `repository/hosts.py`) | pending counts, known set; host rows, wildcard policies | record, flush, refresh, seed; modes, deletes | counts conserved, each host seeded, operators' choices kept |
| statistics buffers (`domain/*buffer*.py` and others) | seven buffers and tables | add, timed flush, stop, reset | each query counted once, memory drains |
| upstreams (`repository/upstreams.py`, `_forward`) | rows, published list | CRUD, failover, retry over TCP | priority order, SERVFAIL only if all fail |
| RTT statistics (`domain/upstreamstats.py`) | samples and coverage of an hour | add, probe gaps, flush | no gap, no repeated probe |
| blocklists (`workers/blocklist_downloader.py`, `repository/blocklists.py`) | rows, domains in another database, overrides | cycle, refresh, CRUD, load | counts match, overrides apply, due lists are tried |
| local zones (`workers/local_zones.py`, `domain/localzones.py`) | rows, records | cycle, refresh, CRUD, load, answer | answers agree with the files |
| database set-up (`db.py`) | tables, late columns, the old single file | `initdb`: create, copy the old rows, add columns, plant defaults | no old row is lost, overwritten or brought back; the worker gets to serve |
| configuration store (`api/schemas.py`, `api/*`, `repository/*`) | configuration tables, settings as text | validate, create, update, delete, put settings, Sando's names | stored rows are usable; a setting reads back as it was put |
| HTTP routing, reports, Sando's transport, config, logging | none | parsing, reads, I/O | not modelled |

`initdb` runs once at the start of the container, beside the four processes and
not before them.

What is hard to test here is where threads and processes meet: state read
before a lock and used after it (every clock reading), two databases written one
after the other, requests that race a worker's cycle, the turn of the hour,
failed writes, crashes and restarts. `PROJECT.json` lists these places under
`hazards`, with the properties that would catch them going wrong.

## 2. Modules

One module per component, an `MC_` module with the values of its constants, and
proofs in a module of their own. Operators carry the source's names where TLA+
allows it. `PROJECT.json` maps each definition to its lines.

**Screening** has the pure decision functions (normalisation, pattern matching,
specificity, blocklist suffixes, trusted networks) that the others extend. A
name is its sequence of labels plus a spelling that `normalize_domain` removes.
Scores count labels where the code counts characters; two suffixes of one name
compare alike.

**PolicyScan** is the loop of `select_policy`, one rule per step, checked against
the documented precedence and against the operator that LiveScreening uses. Its
specification is `ScanSpec`.

**LiveScreening** is the query pipeline beside the refresher. Each query reads a
component of the configuration when the code does, under a lock released between
reads; `reload` loads seven components in seven transactions and publishes them
together. History variables record which values the database has held since the
last complete pass began. That is the exact sense in which a reading may be
stale. The verdict the queries are compared with has blocklists for every client that
is not excluded, as README.md:82 has it; one chapter of the docs says otherwise
(section 6).

**AnswerCache** has `TTLCache`, with the clock read before the lock, the caching
decision and TTL clamp, the flusher and the mirror. The two TTL limits belong to
the published settings: a query takes both once, when it begins, and a reload
(`Reload`, an edit and the pass that publishes it) may replace them before the
answer arrives. Nothing relates the two, since the API accepts any two integers. Time
is in ticks finer than a second because flush requests are stored in whole seconds,
and there is one clock: that the code adds monotonic differences to wall-clock times
in the mirror is modelled, an adjustment of the wall clock is not. A request left in
the database from before the server's start has the second `Earlier`; a request
made before the flusher's first read is taken for such a one (`swallowed`).

**HostDiscovery** has `HostTracker` with its flush on the timer thread and, at
shutdown, on the main thread; `record_queries`, seeding of the `(client, *)`
policy, `PUT` of a client's mode (look, then write), host deletion in two
databases, crash and restart. `SetDefault` is an edit and its reload in one step.
Requests for a flush begin after the tracker has read its hosts once.

**BlocklistRefresh** has the downloader and API threads refreshing lists, the
split between `config.db` and `blocklist.db`, overrides, the size sample and the
DNS server's loader. `replace_domains` reads and writes in separate steps, as
explained in section 1. SQLite reuses the highest id once its row is deleted, and
so does the model. The histories `unapplied` and `slipped` have the overrides that the
last write of a list did not know of, and the domains that another refresh stored
between the read and the write of that one.

**StatBuffers** has the seven buffers. A counter is represented by the set of adds
it counts, so that a double or a lost count is visible. What a query has still to
report is a set of buffers (`route`), taken in the order of the calls in the
source (`CallOrder`). Trimming keeps any of the older rows (an over-approximation
of their order).

**Forwarding** has the upstream rows and their publication, the failover of a
query along the list it read, and the RTT buffer with the gap prober. A sample is
the pair of hour and address it is filed under. The list is shuffled within a
priority (`balanced_order`), so any such order may be taken. What a pass has
still to probe is a set of positions in the list it read, taken from the front;
the history variable `skipped` has the addresses it marked as covered and then
could not look up, and `behind` the positions that the KeyError of that look-up left
unprobed. A shutdown flushes on the main thread beside the RTT thread; a restart begins with an empty buffer
and no coverage.

**LocalZones** has a file's way from its lines to an answer: expansion into
records, refresh by the downloader and by a request, deletion, the two SELECTs of
the loader, and the answer with its chain of aliases. Rows come back in no
specified order, so the first CNAME of a name is any of them.

**ApiSchemas** has what the API accepts (one operator per request model: the
values each field may have), the constraints and defaults of the tables, and the
two conversions a setting undergoes (`serialize`, `coerce`), which are not
inverse to each other for null.

**ConfigStore** has the databases from the container's start on: `initdb` one
statement at a time (create, count and copy each old table, rename the old file,
add columns, fill `first_seen`, plant the defaults), the API's edits of eight
tables, the settings, the flush request that shares their table, Sando's replies,
`PUT` of a client's mode (refused ones included), the DNS worker's retries until the
schema is there, its reloads of `default_action`, the policy it gives a client it
discovers (`Discover`, a copy of that setting) and its first write to the query log, a stop of the container at any moment and writes that find the
database locked. An update is a SELECT and an UPDATE of the changed columns,
with other requests in between.

**LegacyMigration** is the abstract specification of the move from the old file.
It has two kinds of actors, told apart by `mover`, the state of the one that moves:
an action of the others leaves `mover` alone and may write what it likes (`Write`),
while a step that changes `mover` can do only one of four things: copy all old rows
of one table on keys not in use, beside the rows that are there (`TakeOver`); add one
default to a table whose old rows are settled (`Plant`); set the file aside when every
table is settled (`SetAside`); or leave the tables alone (`Move`). ConfigStore
implements it with `mover` mapped to the variables that only `initdb` and its restarts
change (`Mover`) and `settled` to `Settled`: the tables copied, those another process wrote to first, those without old rows,
those the old file cannot supply because a required column is missing, and all of
them once the file is gone. The mapping is where the code's weak promise shows: a
table somebody wrote to first is settled without its old rows.

Not composed: the modules meet at the database and at the published snapshot.
LiveScreening treats each component of the configuration as a value that edits
change at any time, which covers what the downloaders and the API do to it. A
stored blocklist changes there in one step; BlocklistRefresh shows how it comes
about.

## 3. Runs

| run | what it shows |
|---|---|
| `policy_scan` | `select_policy` returns the rule README, "Match precedence", names (`DocumentedPrecedence`), which is the one the operator computes (`LoopComputesSelection`): every list of up to three rules |
| `live_screening` | with edits and passes between any two reads, readings are recent (`ReadsAreRecent`), the result follows README's order of screens, blocklists for every client, for what was read (`VerdictOfReads`), and no screen enforced throughout is passed (`EnforcedScreening`); a publication comes from one pass (`PublishedFromOnePass`), and after edits and failures end the stored configuration is served (`Converges`) |
| `cache_lru` | shape, capacity and lifetimes that respect the limits their query was given (`CacheShape`), lifetimes of hits (`ServedWithinLifetime`), LRU eviction |
| `cache_flush` | requests of distinct seconds, other than those the flusher's first read finds, are honoured (`FlushHonoured`) and dealt with (`FlushServed`); the mirror never overstates a lifetime |
| `cache_flush_race` | **violation**: two requests in one second, see section 6 |
| `hosts_discovery` | `CountsConserved`, `SeedAccounted`, `OperatorChoiceStands`, `EventuallyDiscovered` under failures, a crash or shutdown, a deletion and two requests |
| `hosts_deleted` | **violation**: a deleted host is not seeded again, see section 6 |
| `blocklist_refresh` | `DomainCountSettled`, `OverridesApplied`, `EveryDueListTried`, `BlocklistsConverge` with two refreshers, two requests, an elapsed interval, an escaping exception |
| `stat_buffers` | `CountedOnce`, `CleanExitFlushes`, `LastActionCurrent`, `MemoryDrains` at caps of one, with a failure, a kill or shutdown and a delete |
| `forwarding` | `FailoverOrder`, `GapsClosed`, `ProbesBounded`, `SamplesKept` over two passes, the turn of an hour, an edit, a failed write and a shutdown or crash |
| `local_zones` | `ForwardAndReverse`, `WholeFiles`, `AliasesChased`, `ZonesSettle` |
| `config_store` | `initdb` implements LegacyMigration among other writers, a restart and a failure (`MigrationPromise`); a deleted row is not copied again (`DeletedStaysDeleted`); `RowsUsable` with mode changes and discoveries among the writers, `SettingsEffective`, `FirstSeenFilled`; the worker comes to serve (`ServesAfterSetUp`) |

Each property of a passing run has a mutant in `PROJECT.json`: a changed
definition, of the kind a bug would make, under which TLC finds the property
violated.

### Bounds

Every bound is a constant named `Max...` and appears only as a guard of an
action of the environment (queries, edits, failures, ticks), never of the code's
own steps.

- `policy_scan`: three rules are enough for a best one, a challenger that loses
  and one that ties.
- `live_screening`: the components that matter have an open and a closed value; two
  edits suffice to open one screen and close another between two reads; one
  failed pass lies between them.
- `cache_*`: three keys over two entries force evictions; two threads allow a
  store between another's lookup and store; two ticks to a second. The LRU run
  has two pairs of limits, the defaults and one whose minimum is above its maximum, and
  one reload between them (`MaxReloads`); two ticks are a lifetime of one second, so
  that an entry expires. The flush run
  has a cache of one entry (setting 0, which the code raises to 1) and three ticks, for
  requests in two different seconds.
- `hosts_discovery`: one device, since devices meet only in the sets the model
  treats pointwise; two queries, so that one comes after a flush; one failure,
  one crash and one deletion, two requests. The proofs cover any number.
- `blocklist_refresh`: two ids, one domain, one API thread besides the worker:
  two overlapping refreshes and one list after a failing one.
- `stat_buffers`: one thread that reports to three buffers, one of each kind (log,
  queue, capped); two queries, one before and one after a swap; both flushers.
- `forwarding`: two rows over two addresses and both protocols, starting from a
  first choice with a fallback or from an empty table; two passes in two hours;
  a retention of one hour instead of 500, so that the turn of the hour purges.
- `local_zones`: the alias depth is 2 instead of 8, so that chains of up to three
  aliases and loops through two zones go beyond it.
- `config_store`: two edits or discoveries, so that one races an update, or one claims a
  table and the other changes it, or a discovery follows an edit of the default
  action; reloads of the worker are unbounded; about 1.2 million distinct states; one restart and one failed write, each at any step of
  `initdb`; two old files (one with a table that may be unusable), a new or an old
  schema. Bodies include ones that must be refused and columns put to null.

### Fairness

Weak fairness is assumed only of loops that the code keeps alive: the refresher
(`state.py`, every exception is caught in its loop), the cache flusher, the
flush threads of the tracker and of the buffers, the two downloaders (every
cycle's exception is caught), a shutdown that has begun, supervisord's restart
of the worker, `initdb` while it runs, and the worker's retries at its start
(`_build_state`, an endless loop). No fairness is assumed of queries, operators, ticks or API threads.

## 4. Proofs

All theorems hold for every value of the constants that satisfies the named
assumptions: any number of threads, queries, rows, edits, failures and restarts.

| module | theorems | argument |
|---|---|---|
| `ScreeningProofs` | on PolicyScan: `PrecedenceTheorem`, `SelectionTheorem` | loop invariant `LoopInv`: `best` is the earliest top-ranked match among the rules examined. The lemmas show that `Outranks` is the documented order (`OutranksIsBeats`) and a strict weak order, for which no suffix score may reach that of an exact match |
| | on LiveScreening: `RecentReads`, `VerdictTheorem`, `EnforcedScreeningTheorem`, `PublicationTheorem`, `TypeTheorem` | `IInv` adds to the types what a pass has loaded (`ReloadInv`), that a query's window contains all it can still read (`WindowInv`), and what a query past a screen knows of its readings (`ThreadInv`); without the last, the result cannot be related to readings made several steps before |
| `AnswerCacheProofs` | `ShapeTheorem`, `LifetimeTheorem`, `EvictionTheorem`, `FlushTheorem`, `MirrorTheorem`, `TypeTheorem` | `CacheInv`: the dictionary is a sequence with one entry for a key, sorted by last use and within its capacity, each lifetime respects the limits stored with it, and a thread's clock reading and found entry fit together (`ThreadOK`). `FlushInv` compares the numbers of requests made, swallowed, seen and honoured with the seconds stored, polled and remembered (`FlushOrder`). `MirrorInv` says that a row's expiry is never after its entry's, also while it is in the thread's hands |
| `HostDiscoveryProofs` | `CountsTheorem`, `SeedingTheorem`, `ChoiceTheorem`, `TypeTheorem` | `IInv` adds that a flusher holds counts only before it writes them (`IdleInv`), that a new address has a pending count (`NewInv`), and that every address that may yet become a host row is accounted for already (`SeedInv`); `SeedAccounted` alone is not inductive because the row is written steps after the address was found new |
| `BlocklistRefreshProofs` | `DomainCountTheorem`, `OverridesTheorem`, `TypeTheorem` | `ListInv` adds to the two properties the types of the tables (`Tables`) and of each refresher's variables (`Locals`), what a refresher knows of the overrides it read (`Exempted`), and that an undisturbed refresher about to record its count has exactly its own domains stored (`Faithful`): the count is written a transaction after the domains. `TypeTheorem` needs in addition that the size sample, a sum over the enabled lists, is a number (`SumOfCounts`) |
| `StatBuffersProofs` | `CountsTheorem`, `ExitTheorem`, `LastTheorem`, `TypeTheorem` | `StatInv`: every add is in one place (memory, one of the two snapshots, the table), and the queries found in them are those reported and not lost (`Counting`); main has a snapshot only of the buffer it is stopping (`Stopping`); a query has not reported where it is going to (`Waiting`). `Leftover` is the same for what arrives behind main's flush, and `LastInv` orders the rows of the query log, its snapshot and its buffer, an order that a shutdown breaks (section 6). `InRange` bounds the stamps by the clock and the numbers of the adds by the queries asked, which counts the queries a buffer has had |
| `ForwardingProofs` | `FailoverTheorem`, `GapsTheorem`, `ProbesTheorem`, `SamplesTheorem`, `TypeTheorem` | `ThreadsInv`: the list a query read is what has failed so far and what is left to try, and the rest is sorted by priority; a result keeps what was known when it was given (`Outcome`). `CoverInv`: an address counts as covered only if it was seen in that hour, and whenever it does not, there is room for one more probe (`Room`); `PassInv`: in a pass, every entry behind it is closed and there is room for those ahead. The room has to be followed through samples filed late, since these drop the coverage. `SamplesInv` as in the buffers |
| `LocalZonesProofs` | `WholeFilesTheorem`, `ForwardReverseTheorem`, `AliasesTheorem`, `TypeTheorem` | `ZoneInv`: what is stored for an id, or parsed and not yet written, is the expansion of a whole file (`Stored`, `Refreshing`); what is published, a union of such, has the PTR record of each of its addresses and only names as alias targets (`Expanded`, `Loaded`). A refresher writes steps after it has parsed and the loader publishes what others have stored, so that none of the properties is inductive alone. `AliasesTheorem` compares the recursion of `add_address_chain` with the walks along the aliases: both are determined by how far the chain is from its limit, and the argument goes down from the limit |
| `ConfigStoreProofs` | `MigrationTheorem`, `DeletedTheorem`, `SettingsTheorem`, `FirstSeenTheorem`, `RowsTheorem` | `MoveInv`: the tables before the position of `initdb` are settled, a table that is not has no rows, and a table about to be copied has not been copied before, unless it was emptied since. With it every step of ConfigStore is shown to be a step or a stutter of LegacyMigration under the refinement mapping: a step of `initdb` that touches a table is a `TakeOver` or a `Plant`, because its own state changes with it. `SettingsInv` relates the stored text to the value last put, by a lemma on the two conversions (`RoundTrip`); `FirstSeenInv` follows the column through ALTER and UPDATE. `UsableInv` (for `RowsTheorem`) says of every row that it has what its readers need (`TableOK`), and of the old rows and of the columns an update has still to write the same up to NULL (`LegacyOK`, `UpdOK`): the tables' constraints and defaults then have to keep the NULLs out, since what a validator let through is written steps later. `ActionInv` adds what the rows of policies are like besides: an action is one of the four, or "None" once a null has been put; the setting, the worker's copy of it and an update that waits have the same; and an override without an answer is one an update has changed |

`FlushTheorem` has the hypothesis `DistinctSeconds`: no two requests within one
second. Without it the property is false, as `cache_flush_race` shows. The other
theorems of `AnswerCacheProofs` have no such hypothesis.

Induction over data: the library's induction theorems cannot be applied, as they
take the statement as a parameter. Where a recursive function is involved (the
sum of the domain counts, the alias chain), a module first shows that the
function exists with its recursive equation (`SumsExist`, `ChainsExist`), and then
takes the least number for which the statement fails, which the well-foundedness
of the natural numbers gives, and refutes it (`Upwards`, `Downwards`). The least
position of `Min` and the latest add of `Newest` are obtained in the same way.

Assumptions: rule lists are sequences of rules and names have at most 127 labels
(the wire format's limit); bounds are natural numbers, capacities and retention
periods as the settings allow; the TTL limits are integers, and nothing is assumed of
their order; ids are
positive and finite in number; zone files are finite sequences of lines and the
zones found at the start are rows (`LocalZonesAssumption`); the sets of request
bodies are for tables that have such requests, and Sando's replies have text or
null in the three fields it sends (`RequestAssumption`); an old database has its
rows under positive ids (`StoreAssumption`) and, having been written through the
same API, in each column what its readers need or NULL, and no two policies of a
client for one domain, nor any use of the two gaps that `RowsUsable` names
(`LegacyAssumption`); null is neither a number nor a truth value (`NullAssumption`);
a default action is what the API lets through: forward, deny, or null, which reads
back as "None" (`SettingsAssumption`); the reserved words
of the models are no addresses, threads or modes. TLC evaluates each assumption
on the constants of the runs.

The types of the variables are the first part of each inductive invariant, as far
as the argument needs them; `TypeTheorem` of a module has the rest, among it that
no clock reading is ahead of the clock. Of the runs only `blocklist_refresh` repeats
them. ConfigStore has no type invariant apart from `RowsUsable`.

Only model-checked: liveness (`Converges`, `FlushServed`, `EventuallyDiscovered`,
`EveryDueListTried`, `BlocklistsConverge`, `MemoryDrains`, `ZonesSettle`,
`ServesAfterSetUp`), since the prover has neither fairness nor ENABLED.

## 5. Not modelled

The parsing of list and zone texts, addresses and CIDR strings (a string is
represented by what the validators tell apart); routing,
request handling and the reports and searches, which only read; the HTTP exchange
with Sando (its replies are inputs of ConfigStore); the building of override
answers and the rewriting of TTLs in cached ones; the materialised series of new
domains and the gauges, which are derived anew from other tables; the process
configuration from the environment, and logging. Settings that only a restart
applies (`cache_max_entries`, `query_flush_seconds`) are constants. In
LiveScreening the first pass of the loaders is part of the initial state; its
retries are in ConfigStore.

## 6. Where the code differs from its documentation

With a run:

- Two cache flushes in one second (`cache_flush_race`): the second request stores
  the same text as the first, and the flusher ignores it for good, although
  `docs/frontend-integration.md:843` promises that it clears the cache.
- A deleted host that asks before the next refresh (`hosts_deleted`) is listed
  again without being discovered, and never seeded, although
  `docs/frontend-integration.md:546` says it is.

Met while modelling; the models have the behaviour, and the properties are
stated so as to allow for it:

- docs:242-244 says that a listed domain is blocked "only for clients whose policy uses
  the `blocklist` action". README.md:82 and docs:500 have blocklists for every client,
  and so does the code (`domain/resolver.py`), whatever a policy says: a `(host, *,
  forward)` row does not forward a listed name, where README.md:70 has "forwards every
  lookup upstream". `VerdictOfReads` and `EnforcedScreening` take the side of README.md:82.
- A minimum lifetime above the maximum is accepted by `PUT /settings`
  (`api/schemas.py:223`), and the minimum then wins (`domain/resolver.py:468`), where
  docs:465-466 has the maximum as an "upper clamp". Lowering `cache_max_ttl` leaves the
  longer lifetimes that are stored. `CacheShape` speaks of the limits a query was given.
- A flush request made after the server's start and before the flusher's first read is
  taken for an old one and ignored, where docs:843 has it cleared at the next poll; and
  the answer of a query that was forwarded before a flush and arrives after it is stored
  (`domain/resolver.py:391`). `FlushHonoured` and `FlushServed` leave out the first by
  name (`swallowed`), and the second counts as stored later.
- An override a refresh knows of may stay stored, and blocked, after that refresh, where
  docs:358-359 has it in effect "on a list's next refresh": `replace_domains` deletes
  only what it has read (`repository/blocklists.py:114`), so what another refresh of
  the list, which began before the override, stores between that read and the write is
  left. `OverridesApplied` names the exception (`slipped`); the next refresh that no
  other one interrupts takes the domain out.
- A blocklist or a local zone deleted during its refresh gets its domains or
  records stored after the deletion. They are not loaded, until SQLite gives the
  id to a new row (docs:283, docs:1113).
- A sample stamped before the hour turned and filed after it drops the coverage
  of the new hour, so that upstreams are probed twice in it; and an address listed
  in two rows is probed twice by one pass, each time through the last of the rows; after a restart, whose memory has no
  coverage, every upstream without traffic is probed again
  (`workers/dns_server.py:116`, docs:727: "at most one ... per upstream per hour").
- `_probe_rtt_gaps` reads the published list twice; an address that leaves it in
  between raises KeyError and ends the pass (`workers/dns_server.py:123`). It has
  been marked as covered by then (line 126), so that if it is listed again within
  the hour nobody asks it, where the comment has "a failed attempt counts too":
  here there was no attempt. `GapsClosed` excepts it (`skipped`); it takes two
  edits, of which the run has one, and the theorem any number. The targets behind it
  get no probe in that pass either, although they are listed as before, where the
  docstring has one for each upstream "still missing". They are the second exception of
  `GapsClosed` (`behind`): since they do not count as covered, the next pass takes them.
- Upstreams of equal priority are shuffled, where docs:193 has "then `id`".
- A URL with a space passes validation but raises `http.client.InvalidURL`, which
  the downloaders do not count as a download error: the lists after it are left
  out of every cycle (`workers/blocklist_downloader.py:108`). The exception is
  bounded in the models.
- `stop()` may write a newer snapshot of the query log before the timer thread
  has written an older one, whose `last_action` then stands.
- A private PTR lookup reads the local records twice; `PUT` of a client's mode may
  lose a race and fail on the unique constraint, and leaves a disabled row
  disabled; a crash between the host row and its seeding leaves the host without a
  policy.
- A table that another process has written to before `initdb` reaches it keeps its
  new rows only: the old ones stay behind in the file that is then renamed
  (`db.py`, `_copy_legacy_table`), where README.md:155-157 has the data copied. A
  flush request is such a write, since it is kept among the settings.
- If the rename fails, or the container stops before it, a table the user has
  emptied in the meantime is copied again (`MigrationPromise` and
  `DeletedStaysDeleted` allow for both).
- A key taken between `initdb`'s count and its insert ends `initdb`: the columns
  are not added in that start, and the DNS worker keeps retrying.
- A stop between ALTER TABLE and the UPDATE leaves `first_seen` NULL for good,
  although `db.py:388` has "existing rows are backfilled"; the listing
  of a list's domains then calls `isoformat` on None
  (`repository/blocklists.py:203`).
- `PUT` of `default_action: null` stores the text "None", which is neither of the
  values docs:469 and docs:484 name, and from then on every client that is discovered
  gets a policy with the action "None" (`repository/policies.py:138`), which is not one
  of the four of docs:1150. The resolver treats it like `forward`. `SettingsEffective` and
  `RowsUsable` name them as exceptions.
- A policy may be updated to the action `override` without an `override_response`
  (`api/schemas.py:94`; only the creation asks for one, line 87), where docs:138 and
  docs:1156 require it. `RowsUsable` names the exception: policies whose action or
  answer an update has changed.
- An update that loads a row, which is then deleted and its id given to another,
  changes the other (`RowsUsable` holds, as the columns are still checked).
- An OPT record in a cached answer has its flags overwritten with the remaining
  lifetime (`domain/resolver.py:343`); the records of an answer are not modelled.
- `last_downloaded_at` of a blocklist is set by failures too (docs:256: "last
  successful download").

## 7. Plan

Done, in this order: policy selection, live screening, cache, host discovery,
blocklists, statistics buffers, forwarding, local zones, database set-up and
configuration store with their abstract specification; proofs of every safety
property that a run checks.

Left: **NewDomains** (`repository/client_requests.py:81-124`, the materialiser
thread): first sight of a domain across flushes, deletions and the materialised
series.
