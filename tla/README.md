# A TLA+ model of tronc

tronc is the chassis the Facile Suite's Go services share: a middleware stack in a fixed order, a
migration runner, a rate limiter, a layered content security policy, body decoding, configuration,
probes, a static file handler, an API reference and a harness for database tests. This directory
holds TLA+ modules of the parts that have state, order or concurrency to get wrong, the TLC
configurations that check them on small instances, and TLAPS proofs of what matters most for
every instance.

All paths below are relative to the repository's root. `PROJECT.json` maps every definition to the
lines it stands for, and lists the hazards of the code at the line where each bites.

## 1. The system

tronc is a library; its packages meet in the application that imports them. At boot the
application reads its environment (`env`), builds a logger, runs its migrations (`migrate`) and
builds a router (`httpx`) with probes, an API and a client mounted on it. After that every request
runs down and up the middleware stack in a goroutine of its own; requests share nothing but the
rate limiter's buckets, the client's directory and the database. In tests, every test binary opens
a schema of one shared database (`testdb`), and a drift test holds the API registry against the
router (`apiref`).

| Component | State it keeps | Operations | Interacts with | What is hard |
|---|---|---|---|---|
| `migrate` | the ledger table, the session lock (both in Postgres) | `Run`, `Command` (status, version, up, baseline) | goose and Postgres; other instances through the database | instances of several builds starting together, crashes and errors between migrations, a baseline that works without the lock |
| `middleware/ratelimit` | a bucket per key behind one mutex | the handler, `allow` | `RealIP` supplies the address that is the default key | requests reach a bucket in another order than that of their clock readings; rounding; capacity |
| `httpx` and the standard stack | per request: headers, what was sent, the context's id, the recorded status | `RequestID`, `Recoverer`, `SecurityHeaders`, `RealIP`, `CORS`, `RequestLogger` | each wraps the next; `net/http` sends the response | the order, panics and aborts at any point, responses that are already on the wire |
| `health` | none | `Mount`, `Live`, `Ready` | the application's checks; mounted in the router | checks share one deadline and may ignore it, dependencies come and go meanwhile |
| `spa` | none; reads a directory | `Handler`, `InlineScriptHashes` | the file system; the router's catch-all | the directory changes between two looks at it; what falls through to it |
| `middleware/realip`, `cloudflare`, `env.TrustedProxies` | none per process but the configured ranges | resolve the address of a request | reads what the hops wrote; the result keys rate limits and logs | headers anybody can write, proxies that extend or replace, an incomplete list of edges |
| `middleware/policy`, `override`, `permissions` | the policy headers of a response | `SecurityHeaders`, `SecurityOverride` | nested layers rewrite what outer ones set; other middlewares add values | any number of layers in any order, enforced or reported, two headers that must agree |
| `httpjson` | a decoder, a byte budget | `DecodeJSON`, `DecodeGzipJSON`, `WriteJSON`, `WriteError` | stacks `encoding/json` on gzip on `MaxBytesReader` | caps to the byte, errors that come with data and are dropped |
| `testdb` | a schema per test binary, its ledger and its pool | `Open`, `Truncate` | Postgres, `migrate`; other test binaries and the tests' goroutines through the database | schema names that collide, list-then-truncate, cascades, killed binaries, connections of a pool |
| `apiref` | the registry, the component schemas while a document is built | `Mount`, `Undocumented`, `Incomplete` | reflection on the application's types; the router | recursive types, types of one name, a drift test that rewrites what it compares |
| `errors` | none | constructors, `Status` | `httpjson.WriteError` | nothing: a table |
| `env` (the rest) | none | typed reads of variables | boot | blank, unset and malformed are three things |
| `healthcheck` | none | `Probe` | the container runtime | pure I/O |
| `logger` | none | construct | boot | nothing |

What makes each correct: migrations run once, in order, and success means the schema is current;
a rate limit is a budget over every window and its refusals tell the truth; every response, however
it came about, carries the id and the security headers and is logged once; a probe's answer is
about its dependencies during the probe and comes in time; the client's shell answers pages and
nothing else; a request is attributed to its sender or to a hop it passed and never to whoever the
sender names; a policy is the sum of its layers and everybody else's policy is left alone; a body
is accepted exactly when it is one complete object within both caps; a test binary has a database
to itself and its fixture always gets the same keys; a document's references resolve, and the
drift test reports what the document lacks.

## 2. The modules

### Migrate, MigrateOverlap, SchemaHistory — `migrate/migrate.go`

`SchemaHistory` is the promise: executed versions only ever grow in ascending order, versions are
recorded, and a caller is told its versions are in place only when they are on record.

`Migrate` is the package. `Proc` are the instances, `Sources[p]` the migration files p's build
embeds. `ledger` is `goose_db_version` in insertion order (its first row is goose's version 0),
`ran` the bodies that were committed, `lock` the session advisory lock; `pc`, `op`, `todo`,
`current` and `result` are one command's control state.

| Action | Code |
|---|---|
| `Start` | `Command`'s (and `Run`'s) validation and dispatch |
| `HasPending` | `baseline`'s first call, which prepares the ledger without the lock |
| `TryLock`, `LockTimeout` | goose polls `pg_try_advisory_lock` and gives up after a bounded number of refusals |
| `EnsureLedger` | goose creates the ledger under the lock |
| `Plan`, `Apply`, `Applied` | `provider.Up`: what is pending, refusing unrecorded versions below the highest one; each body and its row in one transaction |
| `Report` | `status`, `version`, and `baseline`'s `GetDBVersion` |
| `Unlock` | every provider call gives the lock back when it returns |
| `Decide`, `Stamp`, `Stamped` | `baseline` after `GetDBVersion`: refuse or insert row by row, without lock or transaction |
| `Fail` | an error of any database call, or the context ending |
| `Crash` | the process dies: the open transaction and the lock go with the connection |

goose and Postgres are not in the repository: their part is taken from the options
`newProvider` passes and from what the package's comments rely on. `MigrateOverlap` adds the history
variable `overlapped` (a baseline ran while another command did), because what a baseline promises,
it promises an operator who runs it alone. `MCMigrate` names the builds and command lines.

### RateLimit — `middleware/ratelimit.go`

A request reads the clock (`Arrive`: `time.Now()` is evaluated before `allow` is called) and is
decided later under the mutex (`Admit`, `Refuse`), while the clock moves and others overtake it.
A token is split into shares so that limits below one per second and waits that are no whole
seconds are exact integers. `Observe` starts the measurement of a window at any time; `retryAt`
remembers what a refused client was told. Both are history variables.

### Chain, App and AppProbe — `httpx/router.go` and the six middlewares, `health/health.go`, `spa/spa.go`

`Chain` is the stack. One request, chosen by method, path, origin, id header, peer and scheme,
goes down `Order` and back. `header` is `w.Header()`, `wire` what `net/http` really sent, `logged`
the status the logging writer believes in, `records` the log with its levels. An API handler does
up to `MaxOps` operations (write a status, write, flush) and returns, panics or aborts anywhere;
CORS and the logger may panic too. Header values are abstracted to the writer's intent ("suite"
for the configured value). All the headers `SecurityHeaders` sets on every response are there; what
the policy and X-Frame-Options say is `Csp`'s subject.

`App` extends it to an application as the packages' docs lay it out: the router gives the request
to a probe, to the API or, as the catch-all, to `spa.Handler`, all inside the same stack, so that
what the stack promises is checked of their responses and records as well.

| Action | Code |
|---|---|
| `Live`, `BeginProbe`, `Passes`, `Fails`, `AllPassed` | `health.Live` and `health.Ready`: the checks in order, one context derived from the request's with the deadline for all of them, the first error ends the probe |
| `Tick`, `Change`, `Cancel` | time passes in a check, beyond the deadline in one that does not look at its context; a dependency comes up, goes down or hangs meanwhile; the client gives up and `net/http` cancels the request's context |
| `MethodNotAllowed`, `HiddenFile`, `Look`, `ServeFile`, `Missing`, `Fallback` | `spa.Handler`: its refusals, the file it opens to see whether it is there, `http.FileServer` opening it again, and the history fallback |
| `Replace` | a deploy replaces the client's directory between any two of these steps |

`AppProbe` adds history variables about the probe: which dependencies were up and which were not
while it ran. `MCApp` has two checks and two builds of the client that share
their index and differ in a hashed chunk.

### RealIP — `middleware/realip.go`, `env/env.go`

`Boot` turns `TRUSTED_PROXIES` into the trusted set and the CDN's ranges, or refuses to. The slice in
between, which the router tells apart when it is nil and when it is empty (`ConfigTrusted`), is a sequence
of at most one set. Who may speak for a visitor (`MaySpeak`) is read off the setting, not off what
`Boot` made of it, so that the properties are about the configuration as well as the walk. A request
starts with anything in its two headers, passes at most one edge and some proxies, each extending
or replacing the chain, and `Serve` resolves it. The middle steps are external; the walk, the CDN
test and the fallbacks are the code's.

### Csp — `middleware/security.go`, `policy.go`, `override.go`, `permissions.go`

The headers of one response as sequences of policies, tagged with who wrote them.
`SecurityHeaders(cfg)` writes the app's where no value is there yet (`SetIfAbsent`),
`SecurityOverride(cfg)` rewrites them once per nested layer, `AddForeign` is another middleware, whose
policies may be any number. `Mixed` tells whether that middleware may write where a layer takes its
policy for the chassis's: in front of the chassis, or a reported one below an enforcing chassis. `layers`
remembers the configurations, which is what the sum is computed from. That the values of others are
kept (`Kept`) is said by positions: each of them is at a new position, and their order is the same.

### Body — `httpjson/httpjson.go`, `httpjson/gzip.go`

A body, the empty one included, is described by its sizes and by where its value ends, where it breaks
and where a second value ends, if one follows.
Reads of any length bring bytes and possibly an error; `Read` is the stack of readers up to
`cappedReader`, `Value`, `Reject` and `Finish` are `decodeStrict` and `decodeError`. The decoder
forgets the error of a read that completes the value, as `encoding/json` does.

### TestDb, TestDbFixture — `testdb/testdb.go`

Several test binaries on one Postgres database. `schemas`, `tables`, `recorded` (the ledgers), `rows`,
the identity sequences and `lock` are Postgres's and outlive the binaries; `pc`, `path` (the search path
of every connection of a pool), `todo`, `listed`, `seeded`, `goroutine` and `tests` are a binary's.

| Action | Code |
|---|---|
| `Start` | `Open`'s checks of its configuration |
| `LookForSchema`, `CreateSchema` | `CREATE SCHEMA IF NOT EXISTS`, which looks and inserts in two steps: of two binaries, one may get an error |
| `Connect` | the pool, whose connection string carries the search path |
| `Plan`, `LockTimeout`, `Apply`, `Migrated` | `Config.Migrate`, which is `migrate.Run` under its lock |
| `NoSchema` | an unquoted search path that Postgres folds to a name nobody created |
| `List`, `Empty`, `TruncateFails` | `Truncate`: the tables that exist by name, then `TRUNCATE ... RESTART IDENTITY CASCADE`; when it fails, its test is over and the next one is run |
| `Seed`, `Seeded`, `Run`, `Exit` | a test: its fixture, its writes, and the end of the binary |
| `Background` | a goroutine a test left behind writes on the same pool |
| `Fail` | a statement of `Open` fails or the binary is killed |

The schema's name is put together from prefix and binary name, character by character, so that two
binaries may have one schema, also across the underscore between the two (prefix `c_t` and name `a`,
prefix `c` and name `T-A`). `CREATE SCHEMA` quotes the name and the search path does not: a prefix with
capitals ends in a schema no connection finds (`Folded`, `NoSchema`). The builds of the binaries are
older or newer states of one history of migrations; a version missing below a recorded one is `Migrate`'s
subject. `TestDbFixture` adds the history variable `disturbed`: whether somebody else (a goroutine a test
left behind, a second binary of that schema) wrote between a binary's `Truncate` and its test.

### OpenApi, Coverage — `apiref/openapi.go`, `apiref/coverage.go`

`OpenApi` builds a document from a registry. The recursion of `reflectType` and `reflectStruct` is a
stack of the structs whose fields are being visited; `Response`, `Request` and `Store` convert a route,
`Element`, `Plain`, `Refer` and `Enter` describe a type, `Field` and `Leave` go through a struct.
Properties are visited in the order the struct declares them. What a document should describe is
`Mentioned`, the least set of types that has the bodies and is closed under mentioning, and not a result
of the recursion it is compared with. A type may come back to itself through any named struct; through
slices, pointers and anonymous structs alone it may not (`RecursionAssumption`): Go allows `type T []T`,
and on such a type the builder does not return, see the limits in section 3.

`Coverage` is the drift test on the same registry and a router that may have drifted: its
`Undocumented` is compared with what the finished document really holds. `Applications` are the
pairs of a registry and a router that are tried. `CoverageAssumption` is what makes the comparison
meaningful: registries, servers and ignored prefixes are written as a document writes paths, without
patterns and trailing slashes; the router's may have both, and segments with a "*" anywhere in them
(`Starred`). `path.Join` is a recursive function over
the segments.

### Proofs

`MigrateProofs`, `RateLimitProofs`, `AppProofs`, `RealIPProofs`, `CspProofs`, `BodyProofs`,
`TestDbProofs` and `OpenApiProofs` extend the module they are about; see section 4.

## 3. What the runs check

Every run finishes within two minutes on two cores.

| Run | Distinct states | Question and bounds |
|---|---|---|
| `migrate` | 406,865 | Two builds of a rolling deploy, p1 with {1, 3} and p2 with {1, 2, 3} (a file merged late), every command line of every subcommand, two starts each, one fault. Two instances are enough for every race on the lock and the ledger, two starts for crash and restart, three versions for a gap. Order, success, gaps, the refinement of `SchemaHistory` and liveness without any condition; single rows and exact baselines as long as no baseline overlapped another command. |
| `migrate_stamp` | fails as expected | `StampsFreshDatabase`, see the findings. |
| `ratelimit` | 412,568 | One request per two seconds, bursts of two, half-second ticks up to 4.5 seconds: the burst is spent and refilled, a wait is not a whole number of seconds, and two connections of one key overtake each other. |
| `app` | 636,523 | Every API request with no origins, one origin and the wildcard and up to three handler operations with an informational, a good and an error status; every probe with two checks, a deadline of two ticks watched for three, dependencies changing and the client leaving at any time; every client path with the directory replaced at any time. |
| `app_record` | fails as expected | `OneRequestRecord`, see the findings. |
| `realip` | 116,533 | Eleven settings (unset, `none` and nothing but separators among them) and two malformed ones, two visitors, a neighbour on the proxies' network, two proxies, one listed and one unlisted edge, up to two seeded hops. |
| `csp` | 1,889,551 | Three nested overrides from seventeen configurations on any of them for the app, two foreign policies, up to two of them in the headers, so that their order shows. Three overrides are needed to extend a promoted policy that was extended before its promotion. |
| `csp_foreign` | fails as expected | `ForeignKept` with `Mixed = TRUE`, see the findings. |
| `body` | 86,546 | Every body of none to seven bytes against caps of three sent and two expanded bytes, in reads of up to two: at, below and above either cap, with an error on, before or after the interesting byte. |
| `testdb` | 642,595 | Four binaries, two of which have one schema and different builds and one a schema its search path does not find, two connections each, two starts, two tests, one fault; a kept table that nothing emptied reaches and one that a foreign key does. |
| `testdb_keep` | fails as expected | `KeepIsKept`, see the findings. |
| `apiref` | 244,777 | Four structs, two of one name and one anonymous, referring to each other in every way through slices, pointers and maps, in twelve registries; and every router of up to two routes against four registries of paths. |

Deadlock checking is off everywhere, because all of these systems really stop: commands and test
binaries run out of their bounded starts, the clock of `ratelimit` reaches its last tick, a request
is answered, a document is finished.

**Fairness.** `Finishes` (migrate) assumes weak fairness of each instance's own steps, that is, a
process that was started keeps being scheduled by the operating system. Nothing is assumed of
`Start`, `Fail` or `Crash`. The wait for the lock needs no fairness towards the waiter, because
goose bounds its retries and `LockTimeout` ends the wait. The property is therefore that commands
end and give back the lock, not that a waiter succeeds. `Answered` (app) assumes weak fairness of
the request's goroutine and of time; nothing is assumed of dependencies, which may hang for good,
and the property has as its condition what the code needs, that the checks look at their context.
`Terminates` (apiref) assumes that the sequential builder runs.

**Wrong variants.** Next to some definitions stands a variant marked as wrong: the mistake a
property is there for, such as the stack in the order the code's comments warn of or a bucket
without its cap. Nothing in a specification uses them; each property is known to fail when its
variant takes the definition's place.

### Findings

- **`migrate_stamp`.** `baseline` decides on a version it read while goose held the lock, and
  inserts without it. A run in between is not noticed, and the stamp lands on a database that has
  history by then, against `migrate/CHANGELOG.md:36`. The race costs no correctness of the order of
  migrations (`RanInOrder`, `NoGaps` and the refinement hold without condition), but a version may
  get two rows, which is why `RecordedOnceApart` and `BaselineExactApart` have theirs.
- **`app_record`.** A request whose handler panics has no request record, only the recoverer's,
  against "exactly one record" in `docs/architecture.md:65`. `LoggedOnce` states what does hold.
- **`csp_foreign`.** Where the chassis enforces and another middleware reports, an override takes
  the other's policy for the chassis's, against the comment at `middleware/override.go:89`. A policy
  that is there before the chassis ran is taken for it as well, since `setIfAbsent` leaves it the only one
  (`middleware/security.go:164`). The run `csp`, with `Mixed = FALSE`, shows that it does not happen
  without one of the two.
- **`testdb_keep`.** `Truncate` leaves kept tables out of its list and empties the list with
  `CASCADE`, which reaches a kept table that refers to an emptied one, against
  `testdb/testdb.go:65`. `KeptStay` states which kept tables are safe.

Limits met while modelling that have no run of their own:

- The target of a baseline is compared with the sources after the ledger was created
  (`migrate/migrate.go:255`), against the comment at `migrate/migrate.go:129`.
- A `HEAD` of a probe's path falls through to the catch-all and gets the client's shell with a 200;
  `ShellOnlyForPages` therefore speaks of `GET` where it excludes probes and the API.
- The recorded status of a handler that passes several statuses, an informational one, or flushes
  first, may not be the one sent (`StatusOfCleanHandler` states the case in which it is); for the
  same reason a failure followed by a second status may be recorded below level error.
- A visitor behind the CDN is lost when a second proxy replaces the chain behind a first, and when
  `TRUSTED_PROXIES` trusts the CDN's edges by a literal of their range instead of by the name
  `cloudflare` and a proxy replaces the chain: the CDN's header is only read where the name is
  configured. `VisitorFound` states when a visitor is not lost; the second condition came up when
  it was being proved, and the run confirms that it fails without.
- A prefix with capitals never gets a test database: its schema is created under a quoted name
  (`testdb/testdb.go:144`) and looked for under a folded one (`testdb/testdb.go:212`), so that its
  migrations find no schema (`NoSchema`).
- In the API reference: type names are keyed without their package (`ComponentsAreOwn` states what
  that leaves); names with "/" or "[]" end up in a `$ref` as they are; embedded structs are not
  inlined and untagged fields are lower-cased, unlike `encoding/json`; operation ids may collide;
  the drift test skips whatever is below a probe's or the reference's path; and a named slice of
  itself recurses without end (`apiref/openapi.go:238`), since only structs are remembered
  (`RecursionAssumption` excludes it, and `RecursionIsBounded` shows that nothing else recurses so).

## 4. What is proved

The proofs are checked by TLAPS with SMT, Zenon and LS4. Constants are only known by the named
assumptions in the modules: instances, versions, builds, limits, requests, handlers, layers, caps,
binaries and types are arbitrary, and so are all bounds.

`MigrateProofs`:

- `TypeCorrect`, `MigrationsRunInOrder`. `RanInOrder` is not inductive: that the next version is
  later than all executed ones depends on the plan having been made from a ledger nobody else
  changed by executing since. The invariant `IInv` adds that whoever is between acquiring and
  releasing holds the lock (`Holder`), which command can be where (`Place`), that what was executed
  is on record (`RanRecorded`), and that a plan being carried out is newer than all that was
  executed (`PlanIsNewer`). A concurrent baseline only adds rows, which keeps all of them.
- `SuccessIsCurrent`. `SInv` adds that a plan being carried out covers what its build lacks
  (`PlanCovers`), which holds when it is made because goose refuses unrecorded versions below the
  highest one (`PlanComplete`).
- `MigrationsAreNotSkipped`, the action property `NoSkipping`, from `SInv`: the oldest version of a
  plan that covers everything has all earlier versions of the build on record.
- `RecordHasNoGaps`, for instances of any builds: what is on record was recorded by a build whose
  earlier versions are on record too. `GInv` adds that a plan is of its build (`PlanOwn`) and that
  what a baseline has to stamp is either still to do or on record (`StampCovers`); both a run and a
  baseline add the oldest version of a set that covers all earlier ones, so neither can open a gap
  under the other.
- `EachVersionRecordedOnce`, `BaselinesAreExact`, about `OverlapSpec`. The invariant `OInv` says
  what is true until a baseline first overlaps another command (`Apart`): a run only has left what
  nobody has on record (`UpIsNew`), the version a baseline decides on is still the database's when
  it does (`DecidesOnRecord`), and while it stamps, the ledger is what it has stamped so far and
  nothing was ever executed (`StampsAlone`). None of it follows from the lock, which a baseline
  gives back before it decides; it follows from nobody else being there. A crash or a fault in the
  middle ends a command with its rows in place, which is why `StampsAlone` is about whoever stamps
  now: a baseline that is run again finds a version above zero and refuses.
- `BaselinesStampFreshDatabases`, from the same invariant: without an overlap, a row is only
  stamped next to rows of the same baseline. It is what `migrate_stamp` refutes without that condition.
- `MigrateImplementsHistory`: initial states map to initial states, and every step executes one
  migration, stamps one version, or changes neither and only what was confirmed.

`RateLimitProofs`:

- `TypeCorrect`, with the bounds on a bucket's balance.
- `BudgetKept`. For every key, the tokens taken in the window and those left never exceed a full
  bucket and the refill from the window's beginning to `bucket.last` (`Spent`). A request older
  than the last one moves `last` back and takes back the refill it brought, which is why the sum,
  and not the balance, is the invariant.
- `RetryAfterIsHonest`. At the time a refused client was told, its bucket is back to a token
  (`Promise`): a refusal of another request moves `last` and the balance together and changes
  nothing at any later time, and an admission voids the promises of its key. The rounding up of
  the wait is lemma `CeilDivCovers`.

`AppProofs`, all about `AppSpec`, the whole application:

- `TypeCorrect`, `OneIdentity`, `SecuredAlways`, `OriginsAreEnforced`, `LoggedExactlyOnce`,
  `RecordIsTrue`, `FailuresAreLoud`. The invariant `IInv` says what the headers hold n middlewares down
  the stack (`Fit`, for the ones being prepared and the ones sent alike, `WireFit`), that the peer is in
  sight until `RealIP` and the id is settled after `RequestID` (`Placed`), that nothing is sent and no
  operation done above CORS and before a handler's first step (`Fresh`), that the recorded and the sent
  status of a handler with a single status are one (`Agrees`), and what the log holds (`Recorded`). The
  handlers only touch headers that are not protected (`Kept`), which is why one lemma (`ResponseStep`)
  serves the probes and the client.
- `PanicsAreAnswered`, `AbortsAreSilent`: the action properties, from who can take a step then.
- `ShellIsForPages`, with the routes where the application mounts them (`Layout`). `PInv` adds what
  `spa.Handler` found for whom (`Looked`), that a prepared cache policy is that of a file that was
  seen (`Undecided`), and that nothing prepared survives its handler unsent (`Unsent`). That the
  file may be gone by the time it is served is what `FilePages` is about.
- `ProbesAreHonest`, about `ProbeSpec`, for any checks, deadline and coming and going of dependencies.
  `HInv` says that the checks before the current one were seen up, that what is up or down now is in the
  history, that all checks expire together, one deadline after the probe began, and that no heedful one
  goes on for longer (`Tracked`); once the answer is given it stands against the history (`Truthful`),
  which no later change of a dependency touches.

`RealIPProofs`: `SeededEntriesAreInert` and `NoBystander`, for any addresses, settings and ways of any
length. The invariant tells apart what the sender wrote and what the hops added: the latter are the
sender and hops (`OwnEntries`), the sender's address comes first among them (`SenderFirst`), without an
edge the last entry is no edge (`EdgesKnown`), and the router trusts exactly whom the setting lets speak,
the nil list and the empty one included (`Vouched`). Lemma `Resolution` does the walk: it stops at or
before the sender's own entry, because a sender is no trusted proxy. `VisitorsAreFound` is the converse,
for ways of any length whose hops all extend the chain and for one replacing proxy behind the CDN or
alone. `VInv` adds that an unbroken chain has the sender right after what it seeded (`Extended`), that
the CDN is the first hop or none (`EdgeComesFirst`), and what a replaced chain holds (`Replacing`).

`CspProofs`: `PolicyIsTheSum`, the granted features and the opener policy included, and
`FramingHeadersAgree`, for any configurations and any number of nested layers, where nobody writes in
front of the chassis or reports below an enforcing one (`~Mixed`). The invariant says where
the chassis's policy is in the two headers (`Heads`) and that it is, in effect, the sum of the
layers; "in effect" because an explicit `'none'` gives way to the first source
(`MergeEffective`). `OthersAreLeftAlone`, the action property `ForeignKept`, for any number of values
in either header: what an override extends, moves or removes is a value of the chassis (`Owned`), and
the others stay in their order at positions that move by one at most (`Shift`). `Owned` is where
`~Mixed` is needed, and `csp_foreign` shows what happens without it.

`BodyProofs`: `TypeCorrect`, `AcceptedExactlyWhenGood`, `RefusedForItsSize`, `ExpansionIsBounded`,
for any caps and any cut into reads. The invariant says that what a reader reported is true
(`InnerTrue`), that the decoder was handed it unless the count was spent (`ErrTrue`), and by how
much the count may be overdrawn in which phase (`Overdrawn`): one read past the cap may complete
the value, no second one goes unnoticed.

`TestDbProofs`: `TypeCorrect`, `OpenNeverReplays`, `SchemasAreIsolated`, `KeptTablesStay`, for any
binaries, names and migrations. The invariant says that every connection of a binary that got past its
migrations is scoped to its own schema (`Scoped`; a search path that was folded to another name finds no
schema, lemma `FoldedIsOwn`), that ledger and tables tell one story (`LedgerTellsTables`), which
`Truncate` would break if it listed the ledger (`KeptUnlisted`), and that who applies holds the lock of
its schema and has planned nothing that is on record (`Holds`, `PlanUnrecorded`). Assumed: binaries of
one schema take one lock, and no prefix is another one in capitals. `FixturesLandOnFirstKeys`, about
`FixtureSpec`, for any fixture and any number of inserts: `FInv` adds that no row has a key its table's
sequence has still to give (`KeysBelow`), without which an emptied table's restarted sequence could
collide, and that while a fixture is being seeded undisturbed the listed tables hold the rows of its
first inserts and nothing else, and their sequences stand right behind them (`Placing`).

`OpenApiProofs`, for any types, fields, registries and routers:

- `TypeCorrect`, `ReferencesResolve`. A reference is only written to a name that is taken
  (`RefsTaken`), a name without its schema is on the stack (`PlaceholdersPending`), and the stack is
  empty when the document is finished.
- `ComponentsAreTheirOwn`. One half is `Sound`: nothing is described that the bodies do not mention,
  and a finished component has the properties of its struct. The other half is that nothing is left
  out. The set the builder has been through is no variable of it: `CInv` says that there is a set
  `U` that has the bodies and fields so far and is closed under mentioning except where a
  description is still in progress (`Explores`). In the end nothing is in progress, so that `U` is
  closed and the least such set is part of it. The second half needs names to be distinct
  (`Distinct`): of two structs of one name the builder describes the first one only.
- `RecursionIsBounded`. Every struct on the stack below which no named struct was entered since is
  in what the one above it leads to without a named struct (`Descending`, `Under`), no named struct
  is on the stack twice, because its name is reserved before its fields are visited, and so two
  structs on the stack differ in the named structs before them or in themselves. There are at most
  `MaxDepth` such pairs. The guard `Len(stack) <= MaxDepth` of `Enter` therefore never holds the
  builder back, and a run of `Terminates` is not cut short by it.
- `DriftIsReported`, about `CoverSpec`. `DInv` adds that the document has the paths of the routes
  converted so far (`Stored`). The rest is about paths: normalising a path twice changes nothing
  (`PlainestStays`), joining a server and a path that are plain is concatenation (`JoinFacts`), and
  what begins with a skipped prefix is skipped however it is spelled (`SkippedIsReserved`).
  `JoinFacts` needs an induction over a recursive function; it is done by the least counterexample
  (`Least`, from the well-foundedness of `<`), which needs no rule with an operator parameter.

Model-checked only: the liveness properties `Finishes`, `Answered` and `Terminates`, which are out
of the prover's reach, and the four refutations (`migrate_stamp`, `app_record`, `csp_foreign`,
`testdb_keep`), each of which has a theorem beside it that says when the property does hold:
`BaselinesStampFreshDatabases`, `LoggedExactlyOnce`, `OthersAreLeftAlone`, `KeptTablesStay`. Every
other property that a run checks is a theorem.

## 5. What is not modelled

- **Migrate**: migration files that opt out of transactions; the race of two connections creating
  the ledger table (one of them gets an error, which `Fail` covers); a failing unlock; a pool of
  one connection, which the comment at `migrate/migrate.go:56` forbids.
- **RateLimit**: floating point (shares are exact), the growth of the map, the key function.
- **Chain and App**: the redaction of a record's query and its client address; credentials, methods
  and exposed headers of CORS; headers set before the stack; extra middlewares; a panic inside
  `http.FileServer`, or a file replaced by a directory of the same name; conditional and range
  requests. In `MCApp`, dependencies and directory stand still for requests whose handler does not
  read them.
- **RealIP**: spellings of addresses and prefixes; several `X-Forwarded-For` lines, of which the
  code reads the first (`middleware/realip.go:137`).
- **Csp**: rendering and parsing, the validation of sources and features (the configurations are
  valid ones), `report-uri`, the order of directives.
- **Body**: what encoding/json makes of the value, beyond known and unknown fields.
- **TestDb**: the skip message, the connect timeout; a prefix that is another application's in
  capitals, whose search path would find that application's schema (`NameAssumption`); a statement of a
  fixture that fails ends its binary.
- **OpenApi, Coverage**: `Incomplete`, operation ids, parameters, required properties and the page.
- **Whole components**: `errors`, `logger`, `healthcheck`, most of `env` (stateless functions), the
  HTML scanner behind `InlineScriptHashes` (a pure function on text), `scripts` and CI.

## 6. Plan

Done: `SchemaHistory` and `Migrate`, `RateLimit`, `Chain` and `App`, `RealIP`, `Csp`, `Body`,
`TestDb`, `OpenApi` and `Coverage`, with proofs about each.

All safety properties of the runs are proved. Next, in this order:

1. A composition of `RealIP` and `RateLimit`: the budget per visitor rather than per key, from
   `BudgetKept`, `NoBystander` and `VisitorsAreFound`.
2. The refinement of an abstract test database (a schema that belongs to one binary at a time, whose
   every test sees the fixture and nothing else) by `TestDbFixture`, step by step.
3. `Env`: the parsers of the other variables against a reference definition.
