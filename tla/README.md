# go-amazing in TLA+

A verification project for `go-amazing`, a service with a record API on MySQL
behind two tiers of cache. It models the parts of the program where calls, pods
and failures meet, checks them with TLC on small instances, and proves the most
important results for every value of the constants with TLAPS. `PROJECT.json`
lists components, runs, mutants, findings, hazards and theorems, and maps each
definition to the lines it models.

## 1. The system

### Components, their state and operations

| Component | Code | State | Operations |
|---|---|---|---|
| record DAO | `pkg/dao` | table `records`, shared cache (Redis, TTL 1 min), one local cache per pod (TTL 10 s) | `CreateRecord`, `GetRecord`, `ListRecords` |
| record RPCs | `pkg/rpc/rpc.go` | none | `Health`, `Config`, `CreateRecord`, `GetRecord`, `ListRecord` |
| dynamic configuration | `pkg/rpc/config` | one global struct of three fields | `Check`, `Apply` (watcher), `Config` (callers) |
| service process | `cmd/rpc` | how far the start has come; two servers | start, migrate, launch, end |
| schema | `database/migrations` | table, recorded version | `Up` |
| wait-for | `script/wait-for` | arguments, shell variables, countdown | options, probe, exec |
| cron process | `cmd/cron`, `pkg/cronjob` | a loop counter | one run |
| GraphQL resolvers | `pkg/pb/amazing.rpc.graphql.go` | a channel and a goroutine per field | resolve, thunk |
| HTTP adapter | `pkg/pb/amazing.rpc.http.go` | one request, response and answer per handler | five handlers |
| protobuf codec | `pkg/pb/rpc.pb.go` | read positions and calls of one Unmarshal | size, marshal, equal, unmarshal, skip |
| column types | `database/migrations`, `docker-compose.yml`, `pkg/dao/mysql.go` | the records in the calls, the clocks of the pods, the rows | stamp, INSERT, reads |

### How they interact

- HTTP (gin) and gRPC call the RPCs, the RPCs call the DAO. A GraphQL gateway
  calls gRPC through the resolvers.
- Pods share MySQL and Redis and nothing else. A local cache belongs to one pod
  and dies with it.
- `cache.GetByFunc` (a library) looks into the local cache, then into Redis,
  then calls the getter back, which runs one statement, and stores what the
  getter returned in both tiers. An error is not stored.
- The watcher goroutine of `configkit` calls `Check` and `Apply`; the `Config`
  RPC reads the same struct from any goroutine, without a lock.
- Every pod migrates the one database when it starts. docker-compose starts a
  pod through `wait-for`.

### What is hard about it

1. A create invalidates no cache, so listings are stale; how long depends on two
   TTLs, on who copies what when, and on slow calls.
2. Fills of the two tiers by calls of several pods interleave, with values read
   at different moments.
3. Records and listings are cached under one prefix: ids and listing keys meet.
4. An `INSERT` may be executed although its caller got an error, before that error or
   long after it, or after its pod has died.
5. The configuration struct is overwritten while it is copied (a data race).
6. Pods migrate concurrently, and MySQL commits DDL at once, so that a kill in
   the wrong place leaves the migration half done.
7. One of the two servers of a pod can fail alone; etcd may be missing.
8. `wait-for` keeps its saved variables behind the user's arguments and counts
   from both ends; its timeout counts probes, and nothing bounds how long one takes.
9. Resolvers go on after their caller has left, with a time limit of their own, and
   answer through a channel that carries one value; a call that got no answer in
   time may have taken effect, or may yet.
10. Handlers return early in many places, after a create has taken effect too; the
    body and the url give the same fields.
11. Unmarshal adds a read position and a length, both from 64-bit numbers, and
    slices by the sum; unknown fields are skipped by a second loop over the same
    bytes; messages are written backwards into a buffer sized forwards.
12. Without strict SQL mode, columns change values silently; and a record is stamped in
    its pod, by the pod's clock, before its `INSERT` is sent.

### What makes each component correct

- DAO: every answer is one an uncached service could have given, except that a
  listing may be old (`AnswersAllowed`, `ImplementsService`); no cache entry is
  another key's (`CachesCoherent`); staleness ends (`EventuallyListed`) and is
  bounded (`VisibleInTime`); calls hang in MySQL at most (`CallsEnd`).
- Configuration: no value of a document that was not in force (`WordsInForce`).
- Process and schema: nothing listens before the schema is there
  (`ServesMigrated`), pods recover from everything (`EventuallyServes`), no pod
  goes on with one server (`NoHalfPod`).
- GraphQL and HTTP: each request is a call of the service that takes effect at
  most once, and not at all if it was refused (`ImplementsRemoteCall`); it is
  answered (`RequestsAnswered`), in GraphQL with the result of its own call
  (`OwnResults`), and no goroutine stays behind (`GoroutinesEnd`). HTTP lists whole
  pages (`ListsWhole`), those its url names (`UrlDecides`).
- Codec: what was marshalled is read back (`ReadsAsMerged`), what arrived in part is
  not taken for something else (`CutIsNoOther`), `Equal` says what the bytes say
  (`EqualIsSameBytes`), and no bytes do harm (`NeverPanics`, `Ends`).
- Columns: an answered create has its row, with what it answered if that fits
  (`KeptIfItFits`), and the records of a pod read in the order it created them
  (`CreatedInOrder`).
- wait-for: the given command with the inherited environment
  (`CommandAsGiven`), as many probes as asked for (`PatienceBounds`), no waiting but in a
  probe (`Ends`).

## 2. The modules

    Records <--- RecordService            what the API promises
       ^              ^
       |              | refinement mapping (INSTANCE)
       +--- RecordDAO -+                  pods, caches, SQL
              ^   ^
              |   +-- RecordDAO_proofs
              +------ MCRecordDAO

    CacheStaleness  <-- CacheStaleness_proofs,  MCCacheStaleness
    DynamicConfig   <-- DynamicConfig_proofs,   MCDynamicConfig
    RpcMain         <-- Schema_proofs,          MCRpcMain
    RecordColumns   <-- Schema_proofs,          MCRecordColumns
    WaitFor         <-- WaitFor_proofs,         MCWaitFor

    RemoteCall                              what a front end promises
       ^      ^
       |      | refinement mappings (INSTANCE)
       |      +--- HttpAdapter     <-- HttpAdapter_proofs,     MCHttpAdapter
       +---------- GraphqlResolver <-- GraphqlResolver_proofs, MCGraphqlResolver
    RecordRpc  <-- both of them             the RPCs behind it

    PbMessages  <-- PbReader <-- PbReader_proofs, MCPbReader

`MC*` modules give constants their values for TLC; `*_proofs` modules hold the
theorems (`Schema_proofs` those about the schema, its migration and its columns).
Operators that a comment calls a *mutant* are changed copies of the definition below
them. No specification uses them: each stands for a plausible bug, put in its place to
see that a property notices.

### Records, RecordService, RecordDAO

`Records` holds the values: the cache key of a listing (`KeyOf`, the tokens of
`fmt.Sprintf("%v-%v", Page, Size)`), the pages a listing may select (`PageOf`),
the answers. A record is represented by its uuid, because nothing ever updates
or deletes one. A page is a set, and a limited page is any set of rows of the
right size, because the query has no `ORDER BY`.

`RecordService` is the abstract specification: a create takes effect at most once,
between its call and its answer, or later if that was an error or the caller has died
(`late` holds such creates); a get is answered from the table, and "not found" only if
the record was not stored when the get was called; a listing is a page of some state the
table has been in. Any call may fail with `Unavailable`, creates that took effect
included.

`RecordDAO` has one action per access to a shared thing:

| Action | Code |
|---|---|
| `CreateRecord`, `GetRecord`, `ListRecords` | the call up to its first access (`impl.go`) |
| `InsertCommits`, `InsertReplies` | `db.Create` (`mysql.go:28`); commit and reply are apart, and the reply may be lost |
| `InsertFails` | an error before the statement was executed: refused, or the connection is lost and MySQL may still execute it |
| `LateCommit` | MySQL executes an `INSERT` whose create is over |
| `LoadLocal`, `LoadShared` | the lookup in `cache.GetByFunc` |
| `Query` | the getter: `First` (`mysql.go:41`) or `Find` (`mysql.go:65`) |
| `Refill`, `Copy` | storing the value in Redis and in the local cache |
| `Return` | the call is over |
| `ExpireLocal`, `ExpireShared` | TTL, eviction, flush |
| `Restart` | a pod dies with its calls and its local cache; MySQL may still execute an `INSERT` it sent |

`cache.GetByFunc` is not in the repository. It is modelled from its use
(`impl.go:91`, `:108`) with as little trust as possible: concurrent misses all
run the getter (no single flight), storing in Redis may succeed, fail silently or
fail the call, and an entry may go away at any time. MySQL may take for ever over a
statement: no context, DSN or flag limits one.

### CacheStaleness

The timed view of one listing key: of a page only whether it shows one followed
record, of a cache entry only that and its expiry. `SharedExpiry` and
`LocalExpiry` are the two TTLs of `NewRecordDAO` (`impl.go:38`, `:39`). A copy in
the local cache gets the full local TTL, whatever was left of the shared one.
`MaxLag` bounds how long one call carries a value from where it read it to where
it stores it. The listing is unlimited, so that every query after the insert
shows the record.

### DynamicConfig

The struct is four machine words: `enable`, `num`, and the data pointer and the
length of `str`. `Apply` (`config.go:37`) writes and `Config()` (`config.go:41`)
reads them one at a time in any order: the race is a nondeterministic choice, as
the code has no synchronisation that would exclude any of its outcomes. `Watch` is
the watcher taking up a document: `Check` decodes it into a fresh struct and
refuses a malformed one. Checking and applying are sequential in the watcher.
A word is only followed for which document it is from; that the pointer and the
length of `str` may come from two documents is among the states the model has.

### RpcMain

`development` is the namespace the pods run in, chosen at the start. `pc` is the place
of each pod in `main`, in the order of the code: etcd, publish
(development only), redis, mysql, migration, listen, launch, wait. `Exit` is
`logkit.FatalV2`; all it leaves of a pod is what is in the database. The
migration is three steps, each of which a kill or an outage may cut off: look for
the version, `CREATE TABLE IF NOT EXISTS`, record the version.

### WaitFor

One action per case of the option loop, then `Check` (the validation at the end of the
script and the look for the probing program) and the loop of `wait_for`. Arguments are
words; what they mean (number, target, option) is given by functions on words: `HostOf`
and `PortOf` of a target, `TimeoutOf` of `-tX`, and `Unbundled` of `-qX`, which the
script puts back as `-X` (`wait-for:126`). `args` is `"$@"` with the saved variables
behind it; `Rotated` and `Command` are the rotation and the shift before `exec`. The
inherited `TIMEOUT` is taken not to be an option: after a `-t` at the end of the call
the loop would go on with it. The other inherited values may be anything. wget is never
looked for (`wait-for:55` compares with "wget", and `PROTOCOL` is "http"): without it,
all probes fail.

A probe (`ProbeSucceeds`, `ProbeFails`) takes any number of seconds, or never ends: `nc
-w 1` does not count the look-up of the name, and `wget --timeout=1` limits each wait for
the network, not the run, and tries again by itself. `Sleep` is the second between two
probes. `MaxProbe` bounds the seconds of one probe for TLC.

### RecordRpc, RemoteCall

`RecordRpc` has the methods of `GoAmazingServer` as operators: `Serve` is the call of
the DAO that a method makes of a request, or a refusal before any. `Valid` is the
`required` of both fields of a listing, `Parses` is `ParseInt(_, 10, 32)`. `Outcomes` is
what a method may have done when it returns: an error says nothing of its effect.

`RemoteCall` is the abstract specification of a front end: a call takes effect at most
once, data comes after the effect, a refused call never takes effect, a failed one may
have and may yet, and no answer is taken back. `GraphqlResolver` and `HttpAdapter`
implement it, under mappings of their own.

### GraphqlResolver

One request of `Width` fields. The executor belongs to graphql-go, whose order is not to
be seen here: it calls each resolver and each thunk once, a thunk after its resolver, one
at a time, in any order, and may stop at any time (`Leave`).

| Action | Code (`GetRecord`'s resolver) |
|---|---|
| `Resolve` | make the channel, start the goroutine, return the thunk (298-328) |
| `FindClient` | the client out of the context, or an error into the channel (302-306) |
| `Invoke` | time limit, `mapstructure.Decode`, the call (308-318) |
| `Handle`, `Lose` | the server's handler (`rpc.pb.go:1183`); the connection |
| `Receive`, `GiveUp` | the reply; the 30 s, or a broken connection (318) |
| `Send` | the result into the channel, then `close` (319-324) |
| `CallThunk`, `TakeResult` | `r := <-ch` (326): wait, and take the result or the zero value of a channel closed empty |

A result carries the field whose call it is of, so that one taken by another would be
seen. `Decode` matches names as mapstructure does, without letter case and without
looking at tags. So `id` and `page` reach the request, and `size`, `the_num`, `the_str`
and `created_at` do not: a listing asked for by GraphQL is always refused, which is the
finding `graphql_size`, and a create stores zero values. The five resolvers differ in
names only, so one action stands for all of them.

### HttpAdapter

One handler per client, with the method as part of the request. `Decode` reads the body
and puts the url over it (`Bind`; only `GetRecord` and `ListRecord` have one), `Call` is
the method, which belongs to the server and not to the `Handler`; then the answer
follows: `AnswerError`, `AnswerNothing` (204), or the parts of the response one by one
(`MarshalPart`, for a listing its records), each of which may fail, then `AnswerData`. A
server may return neither a response nor an error; the five methods do not, but the
handlers' check is modelled. Answers are appended to `written`, so that a second one
would be seen.

### PbMessages, PbReader

`PbMessages` has, per message, `Size`, `Marshal`, `Equal` and the table of field cases of
`Unmarshal`; `BitLen`, `sovRpc` and `encodeVarintRpc` are the functions of that name.
`Marshal` keeps that a message is written from the end of a buffer of its `Size`, and that
its first `n` bytes are returned. Bytes are numbers; a `time.Time` is the bytes the
library writes for it. Numbers have `Word` values, so conversions wrap. `Message` gives
the values of each type: a field is `Text`, `Int64`, a Boolean or a `Pointer`.

`PbReader` is `Unmarshal` running: a stack of calls (a message, a record within it, a
`skipRpc` within either), each with its slice and its read position, one action per byte
of a varint and one per case of the code. A slice or an index out of range is the
outcome `"panic"`. An input is a slice with what is known of its bytes: nothing, that
they are the first of a message, or that they are two messages `of` its type with an
unknown field `between` them. That field is a sequence of tokens, a tag and its payload
each, so that groups within groups are among them (`IsUnknownField`). Times the library
writes differently from `Marshal`'s bytes are left open: it may read them as any time,
or refuse them.

### RecordColumns

What a create answers (from memory) and what every read answers (from the row). Each
create is in a pod:

| Action | Code |
|---|---|
| `Stamp` | the record made of the request, without its `created_at`, which the RPC drops (`rpc.go:59`), and stamped by GORM with the pod's clock; then the `INSERT` is sent (`mysql.go:28`) |
| `Insert` | MySQL executes it: in any order, after its caller's error too, or never |
| `Answer`, `Fail` | the reply; an error, of MySQL or of the connection |
| `Tick` | a pod's clock goes on |

`StoredNum`, `StoredLen` and `StoredTime` are what the columns keep. docker-compose
starts MySQL with an empty `sql_mode`; both modes are checked. The clocks of pods are
independent; that none is set back is assumed.

## 3. The runs

| Run | Instance | Distinct states | Properties |
|---|---|---|---|
| `dao_get` | 2 pods, a call each, 1 record, a get spelled like the key of a listing | 83 thousand | `TypeOK`, `AnswersAllowed`, `CachesCoherent`, `EventuallyListed`, `CallsEnd` |
| `dao_list` | 1 pod, 2 calls, 2 records, a whole listing and a page of one row, a get spelled like a key | 318 thousand | `CachesCoherent`, `ImplementsService` |
| `staleness` | 2 pods, a call each, TTLs 3 and 2, lag 1, horizon 9 | 2.8 million | `VisibleInTime` |
| `config` | 1 reader, 6 documents, up to 3 of them applied | 410 thousand | `WordsInForce` |
| `main` | 2 pods, in development or not | 18.7 thousand | `ServesMigrated`, `EventuallyServes`, `NoHalfPod` |
| `wait_for` | up to 5 arguments of 10 kinds, probes of up to 2 s or endless | 3.2 million | `CommandAsGiven`, `PatienceBounds`, `Ends` |
| `graphql` | 2 fields of 3 query methods or 2 creates, with and without arguments | 82 thousand | `TypeOK`, `OwnResults`, `ImplementsRemoteCall`, `RequestsAnswered`, `GoroutinesEnd` |
| `http` | 2 clients, 5 methods, 3 bodies, 25 query strings, listings of up to 2 | 240 thousand | `TypeOK`, `ListsWhole`, `UrlDecides`, `ImplementsRemoteCall`, `RequestsAnswered` |
| `pb` | 11 messages, in pairs with 7 unknown fields or cut at each byte, and all slices of up to 4 of 13 bytes | 817 thousand | `TypeOK`, `NeverPanics`, `ReadsAsMerged`, `CutIsNoOther`, `EqualIsSameBytes`, `Ends` |
| `columns` | 2 creates, 2 pods with a clock each, 4 requests, both SQL modes | 2.1 million | `KeptIfItFits`, `CreatedInOrder` |
| `dao_absent` | as `dao_get` | violation | `AbsentIsNotFound` |
| `graphql_size` | as `graphql` | violation | `SizeArrives` |

### What they show

- `dao_get`: no interleaving makes a get answer "not found" for a record stored
  before it was called, or answer another record (the mutant drops the `WHERE`); and
  although nothing invalidates a listing, every cache comes to show a created record
  and never loses it again. A call whose statements end comes to an end.
- `dao_list`: no interleaving of fills puts a value under a foreign key. The two
  listings differ in `Size` only, so that a key without the size is noticed.
  Pods, caches and SQL are an implementation of `RecordService` under the
  identity mapping of the client's variables, with `INSERT`s executed after their
  callers' errors and with two reads of one page that see different rows. The theorem
  `Implements` says so for any pods, calls and pages.
- `staleness`: a record is in every listing answered later than
  `SharedTTL + LocalTTL + 2 * MaxLag` after its `INSERT`: 70 s in the code, plus twice
  the time a call needs from reading to storing. Two ticks less and TLC finds a
  violation, so the sum of the TTLs is really reached: the 10 s of the local cache come
  on top of the minute of the shared one.
- `config`: a caller may get a mixture of documents, but only of those in force
  during its call, and never a leftover of an older one.
- `main`: whatever is killed or unreachable between the steps of the migration, both
  pods come up once the outages end; outside development without etcd. The mutant that
  drops `IF NOT EXISTS` never comes up again after a kill between the DDL and its
  record.
- `wait_for`: the rotation hands over exactly the command; giving up takes
  `TIMEOUT + 1` probes and at least `TIMEOUT` seconds, which are the sleeps. There is
  no upper bound, and the script ends if its probes do.
- `graphql`: whatever is lost or late, a field with data took effect once, none takes
  effect twice, and one without a client never; whatever the order the goroutines end in
  and thunks are called in, each thunk finds a result, and that of its own field. A
  request that goes on and is not dropped is answered although the server may never
  reply. The mutant that calls again after a timeout creates two records. Nothing is
  assumed of the executor for the goroutines to end: the one place in the channel takes
  the result nobody will read.
- `http`: one answer per request on every path, 400 only for a request that never took
  effect, 200 for a listing only with all its records, and what is listed or got are the
  size, page and id of the url, whatever the body gives for them.
- `pb`: unmarshal after marshal is the message, for negative numbers, times and
  nested records too; two messages on end, or a record embedded twice, are merged field
  by field; every proper prefix is refused or is exactly the fields that arrived whole.
  `Equal` agrees with equality of the bytes wherever it does not panic, which it does
  for a nil time of its receiver against one that is set.
  Damaged input ends in an error or a message, never out of bounds and never
  in a loop. The mutant that leaves out `postIndex < 0` panics.
- `columns`: a record reads as its create was answered, but for half a second, if its
  fields fit or MySQL is strict; no order of the `INSERT`s and no `created_at` of a request
  makes a pod's earlier record read as created later. Records of two pods may, as their
  clocks may differ: nothing promises otherwise.

### Findings

- `dao_absent` (bug, `pkg/dao/impl.go:107`): `GetRecord("0-0")` after a listing
  with page 0 and size 0 finds the cached page and fails to decode it, where the
  test "not existed" (`impl_test.go:222`) expects "record not found". Records and
  listings share a prefix.
- `graphql_size` (bug, `pkg/pb/amazing.rpc.graphql.go:362`): the argument `size`, which
  the schema declares (line 332) and `rpc.proto:93` makes the name of `PageSize`, does not
  reach the request: mapstructure looks for a field of the name `size`. No listing can be
  asked for by GraphQL.

Without a run of its own: the usage of `wait-for` (line 41) says of `-t` "Timeout in
seconds, zero for no timeout". The script counts probes, not the seconds they take, and
with `-t 0` gives up after one probe. `PatienceBounds` states what it does.

### Bounds

Two calls of one pod (`dao_list`) overtake each other in both tiers, two of two pods
(`dao_get`) in the shared one; the theorems are for any calls and pods. One call can be
begun again any number of times, so that what a call finds may be the work of arbitrarily
many earlier ones. One record decides what an
answer says of it, and a page of one row beside a whole listing makes pages differ.
Nothing in `RecordDAO` counts, so it needs no bound. `Horizon` in `CacheStaleness` is long
enough for insert, full shared TTL, full local TTL and both lags; `MaxChanges` in
`DynamicConfig` gives a reader a document before, one during and one after. In
`WaitFor`, `MaxArgs` = 5 allows a timeout, a target, `--` and a command of up to
two words; `Default` is 15 in the script and 2 here, and two seconds of `MaxProbe` make a
probe longer than the second between two of them. Only `dao_list` uses symmetry, of the
calls of its one pod and of the uuids; it checks no liveness.

A word of 15 bits in `PbReader` gives a varint at most three bytes, the last of which
carries one bit, as the tenth of a real one does; four bytes are then enough for a tag and
a length that wraps, an overlong varint, a group within a group and a skip in an embedded
record. In `GraphqlResolver` two fields are enough for one to end before the other and for
a thunk to be passed over. In `RecordColumns`, 6 ticks with 4 to a second put two creates
into the same second and on both sides of a rounding, in one pod or in two.

`CHECK_DEADLOCK FALSE` stands in `main` (once the outages are over, two serving pods
have nothing left to do), in `wait_for` (a script ends), in `graphql`, `graphql_size`,
`http` and `pb` (a request, a handler and a call end), and in `columns` (its bounds are
reached).

### Fairness

- `RecordDAO!FairSpec`: weak fairness of each step of a call at a cache (goroutines are
  scheduled; the Redis client has time limits of its own) and of expiry (both TTLs are
  set). None for MySQL: `mysql.go:28`, `:41` and `:65` pass no context, and neither the
  DSN nor a flag sets a timeout, so a hanging MySQL hangs the call. `CallsEnd` says
  of each call that it ends if its statements do. None for calls being made, for
  restarts, or for the success of any step.
- `RpcMain!FairSpec`: weak fairness of each pod's steps, restart by the
  orchestrator included, and of its two servers. Backends are not fair:
  `EventuallyServes` is about behaviours in which the needed ones stay reachable
  from some time on (`calm`).
- `GraphqlResolver!FairSpec`: weak fairness of each goroutine. While one waits for its
  call, `GiveUp` stays possible, so a reply is not assumed: the 30 s are. No fairness of
  the server or the connection. `RequestsAnswered` is about the behaviours in which the
  goroutine of the request (`Executor`) also runs whenever it can, `Leave` staying
  possible; `GoroutinesEnd` needs nothing of it.
- `HttpAdapter!FairSpec`: weak fairness of each handler, without its call of the server,
  which may wait for MySQL. `RequestsAnswered` says of each request that it is answered if
  the server returns.
- `PbReader!FairSpec`: weak fairness of the one sequential call.
- `WaitFor!Spec`: the shell goes on with the script. A probe need never end, and `Ends` is
  about the behaviours in which each does.

## 4. The proofs

All theorems but two are `Spec => []P` (or `Spec => Abstract!Spec`), those two are about
operators, and all are for every value of the constants; `tlapm` checks them to the last
leaf. They rest on the `ASSUME`s of the modules, which TLC evaluates on its instances.

| Theorem | Module | Says |
|---|---|---|
| `TypeCorrect` | `RecordDAO_proofs` | `[]TypeOK` |
| `CachesStayCoherent` | `RecordDAO_proofs` | `[]CachesCoherent` |
| `AnswersAreAllowed` | `RecordDAO_proofs` | `[]AnswersAllowed` |
| `Implements` | `RecordDAO_proofs` | `Spec => RecordService!Spec` |
| `VisibleInTimeAlways` | `CacheStaleness_proofs` | `[]VisibleInTime` |
| `WordsStayInForce` | `DynamicConfig_proofs` | `[]WordsInForce` |
| `ServesMigratedAlways` | `Schema_proofs` | `[]ServesMigrated` |
| `KeptAlwaysIfItFits` | `Schema_proofs` | `[]KeptIfItFits` |
| `CreatedAlwaysInOrder` | `Schema_proofs` | `[]CreatedInOrder` |
| `CommandAlwaysAsGiven` | `WaitFor_proofs` | `[]CommandAsGiven` |
| `PatienceAlwaysBounded` | `WaitFor_proofs` | `[]PatienceBounds` |
| `TypeCorrect` | `GraphqlResolver_proofs` | `[]TypeOK` |
| `OwnResultsAlways` | `GraphqlResolver_proofs` | `[]OwnResults` |
| `Implements` | `GraphqlResolver_proofs` | `Spec => RemoteCall!Spec` |
| `TypeCorrect` | `HttpAdapter_proofs` | `[]TypeOK` |
| `ListsAreWhole` | `HttpAdapter_proofs` | `[]ListsWhole` |
| `UrlAlwaysDecides` | `HttpAdapter_proofs` | `[]UrlDecides` |
| `Implements` | `HttpAdapter_proofs` | `Spec => RemoteCall!Spec` |
| `TypeCorrect` | `PbReader_proofs` | `[]TypeOK` |
| `NeverPanicsAlways` | `PbReader_proofs` | `[]NeverPanics` |
| `MarshalFillsItsBuffer` | `PbReader_proofs` | `Marshal` returns all that is written, for every message |
| `ThroughAlways` | `PbReader_proofs` | the invariant behind the next two |
| `ReadsAsMergedAlways` | `PbReader_proofs` | `[]ReadsAsMerged` |
| `CutIsNoOtherAlways` | `PbReader_proofs` | `[]CutIsNoOther` |
| `EqualIsSame` | `PbReader_proofs` | `Equal` is equality of the bytes, for every two messages |
| `EqualIsSameBytesAlways` | `PbReader_proofs` | `[]EqualIsSameBytes` |

- **RecordDAO.** Three layers. `Shape`: types, and which operation may be at which
  step. `CacheInv`: in addition each cache entry, and each value a call carries to a
  cache, is `Coherent` with its key; this is inductive because rows and history only
  grow, and because a value is carried only to the key it was read for; it also keeps
  that what was stored when a call began is still stored (`Stored`). `AnswerInv`: in
  addition each answer given is allowed. The steps that need all of it are `LoadLocal`
  and `Copy`, where the coherence of an entry becomes that of an answer.
  `Implements` maps each action to one of the service (`BeginService`,
  `StepService`, `EndService`) or to a stutter, and `LateCommit` to `TakeEffectLate`. A
  fourth invariant, `UniqueInv`, says that an `INSERT` that may still be executed carries
  an id that no row has and no other `INSERT` carries; so each takes effect at most once,
  whenever that is. Assumed: an id of a record is never
  also a listing key (`KeysAssumption`: a uuid has more dashes).
- **CacheStaleness.** `VisibleInTime` speaks of answers only. The invariant
  `AgeInv` bounds the age of a listing without the record at each place: carried
  after the query, in the shared cache (with what is left of its TTL), carried to a
  pod, in a local cache. Each hop adds its own TTL or lag, and the sum is the bound.
- **DynamicConfig.** `ConfigInv` says of each word of the global struct whether it
  belongs to the newest document or to the one before, by whether `Apply` has yet to
  write it, and so which documents a reader's word can be from.
- **RpcMain.** `SchemaInv` says what each place of a pod knows of the schema, and
  that servers run only in pods that got past the migration. Exits and steps are
  treated by lemmas of their own, as most steps are one or the other.
- **RecordColumns.** `RowsInv` says of each row that it is what the columns keep of the
  record of its call, which does not change any more; of an answered create that it has a
  row; and of each create that it was stamped no later than its pod's clock shows, and no
  earlier than those its pod had answered by then. The properties follow from what the
  columns keep: `NumStored`, `LenStored`, `RoundedClose` (half a second at most) and
  `RoundingMonotone`. Assumed: an INTEGER has an even number of values.
- **WaitFor.** `ArgsInv` says what `args` is while options are read: what is left of the
  call after a number of words, then `--` and the saved variables (or, after `-t` as the
  last word, those variables alone, of which the first is no option and ends the loop); and
  that each `--` among the words passed was the value of a `-t`. An unbundled `-q` may stand
  in front, which is why a word has to be followed by what it becomes. `CommandOfCall`
  rotates and shifts that sequence and finds the command and the environment. `CountInv`
  adds probes and what is left of `TIMEOUT`, and bounds the seconds from below by the
  sleeps; it holds however long probes take. Assumed: the kinds of words are
  disjoint, an unbundled word is not one to unbundle again, and the inherited `TIMEOUT` is
  no option.
- **GraphqlResolver.** The invariant says of each field, by where its goroutine is, what
  is on the connection, what is held, in the channel or answered, and how often the
  method ran: a result `"data"` anywhere along that way comes from a method that ran
  once, and `"refused"` from a goroutine that never called. A field's channel holds
  nothing but the result of its own goroutine, from the end of that until the thunk
  takes it, whatever the order of the executor; hence `OwnResults`, and no zero value.
  Each action is then a step of `RemoteCall` or a stutter: `Handle` takes effect,
  `TakeResult` answers.
- **HttpAdapter.** The invariant says by `pc` what was built, returned, marshalled and
  written so far, in particular that the request is `Bind` of what came in from the call
  on. `Call` takes effect in `RemoteCall`; the writes answer.
- **PbReader.** For every slice shorter than half a word (the code's `int` is one, and no
  slice is longer than the largest `int`), every word and every input. The invariant
  `Inv` bounds each call's position by its slice, except that of `skipRpc`, which may run
  past it and is only bounded by half a word; and it says which calls there can be, as an
  embedded record holds no message. `SumOfTwo` is the heart: a position and a length, both
  below half a word, wrap around at most once, and then the sum is negative, where the
  code looks (`postIndex < 0`). `SliceInRange` gives from it that no slice is out of range.

- **What the codec computes.** A *plan* of a slice is a set of pairs: the bytes left where a
  field begins, and the message read by then (`Plan`). From each pair a field, known or
  not, leads to another, or it is the last, with no bytes left and the message meant.
  `Reads` says that there is a plan from some bytes and a message. Every single field
  `Marshal` writes has one (a lemma for each kind of field), plans can be joined, and so
  every message has one (`AllReadOver`), unknown fields have, and one message behind
  another. The invariant `Through` puts every state of `Unmarshal` on such a plan: at a
  field, in the middle of a varint (of which what is read and what is left make up the
  number), in a record within the message, in a `skipRpc` at one of the tokens of an unknown
  field and as many groups deep. For a message cut off, each pair's message would be written
  in front of its bytes (`Writes`), so that a message read to the end is what arrived.
- **Bytes tell messages apart.** `EqualIs` says that `Equal` is equality of the values
  unless it panics. `MarshalSame` says that equal bytes come from equal messages: tags
  differ and are never left out for a field that is there, a varint ends at its first
  byte below 128 and gives its number back, and a length says where its field ends.
- **Size.** `MarshalFillsItsBuffer`: `sovRpc` counts the bytes of `encodeVarintRpc`, and
  every field is as long as its part of `Size`; so writing backwards ends at the first
  byte.

Of the codec it is assumed that a word has at least 256 values and an `int32`, for the
number of a field, 64, both evenly many (`WordAssumption`: tags of the fields are
bytes), and that an input is shorter than half a word (`InputsAssumption`: the length of
a slice is an `int`). The modules of the codec write recursion as recursive functions,
of which the proofs need induction. No induction theorem of the library can be cited, as
they take a predicate; the proofs instead take the smallest number for which the claim
fails, which the library's `WFMin` gives for a set of numbers (`SetInduction`,
`StrongInduction`).

Model-checked only: liveness (`EventuallyListed`, `CallsEnd`, `EventuallyServes`,
`NoHalfPod`, `RequestsAnswered`, `GoroutinesEnd`, `Ends` of the codec and of wait-for), which
the prover cannot do. Every invariant a passing run checks is proved, and so are the three
refinements. That `VisibleInTime`'s bound is reached is a remark about
one instance.

## 5. Not modelled, and abstractions

- Whether a MySQL server answers: nothing in the code limits a statement, so a hanging
  server hangs its callers.
- In `RecordDAO`, the content of a record beside its uuid (`RecordColumns` has it);
  strings MySQL compares equal to a uuid without being equal (case, trailing blanks).
- A transaction of the caller (`daokit.Enrich`): no caller passes one.
- Metrics, logging and monitoring; nothing else reads them.
- The protocol of goose with its version table beyond "look, run, record"; whether
  it fails when two pods record a version at once is not known from this code.
- etcd as the watcher sees it: that a watcher on a nil client, which the code starts where
  etcd cannot be reached (`cmd/rpc/main.go:84`, `:102`), does not end the process is assumed
  of configkit.
- That a pod's clock is set back, in `RecordColumns`.
- Of the codec: a nil element of `ListRecordRes.Records`, which no method of the service
  puts there; nothing in the repository calls `Equal`. Printing, getters, `Reset`,
  descriptors and the `XXX_` wrappers, which keep no state and branch on nothing but
  nil; the bytes of a timestamp, which a library reads and writes, and its refusal to
  write a time out of range.
- Of GraphQL: the schema (names and types of fields; of its arguments, their names are
  modelled), and whether graphql-go waits for the thunk of one field of a mutation
  before it resolves the next; the model lets all be resolved first, which is its
  behaviour for a query. `grpc.Dial` with `WithBlock`, which waits for a server without
  limit: nothing in the repository calls it.
- Of HTTP: middleware, and the JSON of bodies (malformed, empty, or the fields it gives).
- The cron process: a straight line of log lines and one `os.Exit(0)`, which skips two
  deferred clean-ups. A model would restate its text.
- Flags, mocks, build and CI, which have no behaviour of interest.

## 6. The plan

Done, in the order of importance: the record DAO and its abstract specification,
staleness, configuration, process start and migration, wait-for, the RPCs, the two front
ends and their abstract specification, the codec, the columns. What is left:

1. A composition of `HttpAdapter` and `RecordService`: what a client may conclude from
   the answers to several requests.
