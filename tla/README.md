# vgi-cve in TLA+

vgi-cve is a worker that gives DuckDB SQL functions over the NVD 2.0 API
(`cve`, `cve_search`, `cpe_cves`) and offline CVSS v3.1 arithmetic
(`cvss_base_score`, `cvss_severity`, `cvss_severity_bands`). This directory holds
TLA+ modules that model it, TLC configurations that check them on small
instances, and TLAPS proofs of their main theorems for every value of the
constants. Paths below are relative to the repository.

## 1. The system

| Component | Source | State | Operations | Module |
| --- | --- | --- | --- | --- |
| NVD client | `internal/cveworker/client.go` | one call: rows, `startIndex`, the response in hand | `FetchCVE`, `SearchKeyword`, `CVEsForCPE`, `paginate`, `get` | `NvdClient` |
| Table function streaming | `internal/cveworker/functions.go` | `CursorState` (rows, offset), in memory or in a token | `NewState`, `Process`, `nextSlice` | `TableScan`, `LookupPromise` |
| Table function calls | `functions.go`, `client.go` | the argument, the call of `NewState` under way | `BindArgs`, `isNullArg`, `NewState` | `CveQuery` |
| CVE projection | `client.go` | none: one record in, one row out | `projectCVE`, `applyCVSS`, `englishOr`, `firstCWE` | `CveProjection`, `NvdRecord` |
| CVSS base score | `internal/cveworker/cvss.go` | none | `BaseScore`, `roundUp1` | `Cvss` |
| CVSS vector parser | `cvss.go` | the map of metrics | `parseVector`, `lookup` | `CvssScalar` |
| Severity bands | `cvss.go`, `functions.go` | `bandsState.Offset` | `Severity`, `SeverityBands`, `NewState`, `Process` | `Cvss`, `BandsScan`, `SeverityQuery` |
| Scalar functions | `functions.go` | `firstErr`, the output column | `Process` of both scalars | `CvssScalar`, `SeverityQuery` |
| Worker command line | `cmd/vgi-cve-worker/main.go`, `docker-entrypoint.sh` | arguments, flags | `filterKnownFlags`, flag parsing, choice of transport | `Launch` |
| Integration runner | `ci/run-integration.sh` | PIDs, report files, exit status | start, poll, run, guard, clean up | `IntegrationRun` |
| Mock NVD server | `internal/mocknvd`, `cmd/mockserver` | two goroutines, the signal channel, the listener | `serve`, `servePaginated`, `main`, the signal goroutine | `MockServer`, `MockWalk` |
| Catalog metadata | `meta.go` | none | constant tags | not modelled |
| VGI SDK, gob | not in the repository | continuation tokens | transports, encoding | external actions of `TableScan`, `BandsScan` |
| Build and release | `Makefile`, `Dockerfile`, CI | none | recipes | not modelled |

**Interactions.** DuckDB sends batches of rows to the scalar functions, and
starts and pulls scans of the table functions. A scan's `NewState` calls the NVD
client, which asks the service at `base_url` page by page; the rows it returns
are projected and kept in a `CursorState`. Each `Process` tick emits one slice of
them. Over stdio and Unix sockets the worker keeps the `CursorState` between
ticks; over HTTP it keeps nothing, and the state goes to the client and back as a
gob-encoded token. The entrypoint, or a launcher that adds flags of its own,
decides which of the transports a worker serves. In SQL the severity of a score is
found in three ways: `cvss_severity`, a join with `cvss_severity_bands`, and the
column of a row. The integration runner starts
the mock service and a worker as processes and runs the same SQL suite over each
transport.

**What is hard**, and what makes each component correct:

- *Client.* The records change between two page requests, and paging is by
  offset; the service may be a mirror that lies about totals, ignores the
  request, or never answers; a later page may fail after earlier ones arrived.
  Correct: bounded work whatever is answered; pages that tile the records
  whenever the part already walked did not change; nothing missed; a return.
- *Streaming.* A response is lost and the exchange repeated with the old token;
  a worker dies between two ticks; a state snapshot from before the emit repeats
  rows for ever. Correct: every fetched row once and in order, or a scan that
  is visibly cut off; the row is what was fetched.
- *Calls.* `NewState` fetches with `context.Background()`, so a cancelled
  statement leaves its fetch running. Correct: what SQL has at the end is what
  the service had; an error never looks like an empty or a partial result; NULL
  makes no request.
- *CVSS.* Two equations, a power, a cap, a rounding, two tables for severity,
  and a parser in which the last of two values wins. Correct: a worse
  vulnerability never scores lower, every score lies in the band it is given,
  and a batch fails with its first error.
- *Severity.* Thresholds in a function, ranges in a table, and a column computed
  when a row is made. Correct: a score joins with exactly one band, and all three
  agree.
- *Projection.* Three metric lists in order of preference. Correct: score, vector
  and severity of a row belong together; no metrics is never shown as NONE.
- *Command line.* Which flags take a value is written down twice, and what a flag looks
  like is too: the filter trims any number of dashes, the flag package reads one or
  two. Correct: flags of a launcher never shift the worker's own, nor end the worker.
- *Mock server.* A client that has read the PORT line may call before `Serve` runs, and a
  signal may come at any moment. Correct: whoever read the line is served; a
  client that pages sees every record once; a signal ends the server, and
  gracefully.
- *Integration runner.* Servers hang or die at any moment, and a dead server makes
  the tests skip rather than fail. Correct: green means that tests ran and
  passed; no process and no socket is left behind, also when a signal falls inside the
  trap that removes them, but for what no script can reach; every run ends.

## 2. Modules and the code

Names follow the source. Operators marked "slip" in a comment are plausible
mistakes in the definition that follows them; no specification uses them. They
say what a property would catch.

**`NvdClient`.** One behaviour is one call. `pc` is where the call stands:
about to request a page, waiting in `Do`, holding a response, done. `Request`,
`BadURL`, `Timeout` and `Reject` are `get`; `FetchCVE` is the single lookup;
`PaginateFull`, `PaginateEnd` and `PaginateMore` are the three ways out of the
body of `paginate`'s loop (the cap inside a page, the last page, another page). The service is
external: `corpus` is the sequence of matching records, `Publish` and `Withdraw`
change it at any moment, `AnswerPage` serves from it as NVD's documentation has
it, and `AnswerUnknown`, `AnswerBroken` and `AnswerOdd` are the answers of a
service that fails or is not NVD. The history variable `disturbed` records
whether the part of the corpus behind `startIndex` changed under the walk.

**`TableScan`.** `cursor` is the `CursorState` of the next tick and `holder` says
who has it. `ProcessLive` is a tick over stdio or a Unix socket; `ProcessHTTP`
answers with a batch and a token that holds the state after the tick, and
`Receive` takes both. `Gob` is modelled by what it does to a row: it leaves out
a field that is zero, also behind a pointer. `Lose`, `Crash`, `Restart` and
`GiveUp` are the faults. The SDK's side is taken from the comment in
`functions.go:32-57`, as it is not in the repository.

**`LookupPromise`.** The abstract specification of a lookup: answered once, with at
most `MaxResults` records or an error; delivered in order, each record once;
finished only when all of it is delivered. `TableScan` implements it, with
`Promise!Spec` under the mapping at the end of that module.
`BandsScan` implements it too, with the five bands as the answer.

**`CveQuery`.** Composes `NvdClient` and `TableScan` (by `INSTANCE`) into a SQL
call: the shapes of the argument that `isNullArg` tells apart, the fetch, and
the hand-over of its rows or its error to the scan.

**`Cvss`**, **`CvssScalar`.** Floating point is modelled in fixed point,
sub-scores in units of 10^-8 within TLC's 32-bit integers. Truncation errors
stay below the 10^-5 at which `roundUp1` works, and for each of the 2592 base
vectors the fixed-point score equals that of the IEEE arithmetic (compared
outside TLC). `CvssScalar` runs `parseVector` over the tokens of a vector
(`ParseTokens`, a recursive function of the number of tokens read), looks
up the metrics in `BaseScore`'s order, and runs the row loop of `Process`, which
goes on after a bad row and reports the first. `cvss_severity` takes the scores
or a column of any other doubles, in hundredths. Trimming and upper-casing are
left out: a token is empty, malformed or a pair.

**`BandsScan`.** The scan of `cvss_severity_bands`. Its whole state is one int,
`offset`; a tick rebuilds the rows from `SeverityBands` and emits them in one
batch. Transports, tokens and faults are those of `TableScan`.

**`NvdRecord`**, **`CveProjection`.** A record as `client.go` decodes it, and
`projectCVE` as operators over one record; `Project` makes the rows of a page one
by one. Texts are model values, severities are in upper case already.

**`SeverityQuery`.** A statement that reads the bands (`BandsScan`) and then rates
scores (`CvssScalar`) of all three kinds: those of vectors, those of rows
(`CveProjection`), and other doubles. `Joined` is what the join makes of a
score. The three parts are composed in one behaviour, so that the join is with
the bands as the scan delivered them, after losses and crashes too.

**`MockServer`**, **`MockWalk`.** The handler (`Serve`, `ServePaginated`) over the ids
of the canned records, and the process: `main` from `Listen` to its end, the
goroutine that waits for a signal, the signal channel with room for one, and a
connection that waits in the listener's backlog until it is accepted (`net/http`,
external). A signal kills the process before `signal.Notify` and is queued
after it. `MockWalk` lets the client of `NvdClient` make one call against it:
`Request` connects, `Answer` is the handler's response, and `Lost` is a
connection that was refused or cut.

**`Launch`.** A command line is a sequence of units, the tokens that a launcher
means to belong together; it adds them one by one, and runs the entrypoint or
the worker. A unit is one token, or a flag other than the Boolean `http` and its
value (`IsUnit`). A token that is a flag has one dash or two, or more (`Extra`), which
`filterKnownFlags` trims all the same and the flag package refuses. The
entrypoint prepends its own tokens, `filterKnownFlags` runs token by token, and the
flag package (external) parses what is left; a flag it cannot read (`WellFormed`: the
dashes, and the Boolean values `strconv.ParseBool` knows) ends the worker. Then
`logFlags.Apply` may refuse the log level (`ApplyFails`; `BadLogs` are the values it
refuses), and `Serve` calls the SDK. The three logging flags are represented by one;
`--help` is a flag the worker does not define, and a value that itself begins with a
dash occurs only as the token swallowed by a flag without a value.

**`IntegrationRun`.** The script, the two server processes and the runner. The
poll loops are modelled look by look, as is the window between `server &` and
`PID=$!`. A file may be reported as passed only if the servers it needs answer,
as failed or skipped at any time: the runner turns network errors into skips. The
EXIT trap runs one command at a time: `reap` says what it is at, `Kill` and `Wait` are
the two halves of the lines for a server, `NoPid` is their test, `RemoveSocket` is the
`rm -f` and the saved status. `Interrupt` is a signal before the trap, `InterruptTrap`
one inside it: bash does not run an EXIT trap in progress again, so the script ends
there and leaves what it had not come to.

**`NvdClientProofs`**, **`TableScanProofs`**, **`CveQueryProofs`**, **`MockWalkProofs`**,
**`SeverityQueryProofs`**, **`LaunchProofs`**, **`IntegrationRunProofs`** hold the proofs about
the modules they are named for (`SeverityQueryProofs` also those about `Cvss`, `CvssScalar`,
`CveProjection` and `BandsScan`), **`SequenceLemmas`** what they share: induction over the
naturals, and facts about sequences. **`MC_*`** give the constants their values for TLC.

## 3. What the runs check

| Run | Question | Bounds, and why they are enough |
| --- | --- | --- |
| `nvd_client` | Is a call's work bounded, do its pages tile, does it miss nothing and return? | Four records, cap 3, pages of 2: walks of several pages, a cap that falls inside a page, on its end, and past the end. Two changes of the records: one on each side of the offset. A mirror with empty, one-row and oversized pages and totals of -1, 1 and 99. |
| `table_scan` | Is every row delivered once, in order and unaltered, under faults? Is the promise kept? | Up to three rows, two to a tick: the empty result, an exact multiple, a short last slice. Two faults: a loss or crash of the repeated exchange too. |
| `cve_query` | Does SQL get what the service had? Does an abandoned fetch end? | Three records, pages and ticks of two, one change, one fault: a fault in each phase with a change in each. |
| `severity_query` | Do parser, equation, rounding, function, table and column agree, for every score, over the bands as they were delivered? | All 2592 base vectors (exhaustive); one vector with each kind of token inserted or removed at every place; batches of three with two bad rows; doubles on, just below and just above every threshold. Records with up to two metrics of each version, stated or missing severities, scores 0.0, 7.5 and 9.5, two descriptions and two by two weaknesses: `projectCVE` looks only at first entries, so one record a page is enough. Both transports, one fault of the bands scan. |
| `launch` | Do filter and parser agree, and is the intended transport served? | Command lines of up to three units out of seventeen, with every first argument of the entrypoint: a flag before, between and after two others. The units are the worker's flags in both forms, flags it does not define, a stray word, a flag without its value, a bad Boolean and a bad log level, and flags with three dashes. |
| `mock_walk` | Is the mock an NVD service, is who read the PORT line served, does a signal end it? | Every operation with a known, an unknown and an empty argument; pages of two of three records, so walks of one and of two pages; cap 3. Two signals at any moment: the second one finds the channel full or the shutdown begun. |
| `integration_run` | Is green honest, is no process or socket left behind, does every run end? | Two files, one of which needs the mock; three looks instead of 30 and 50 (a look before, at and after the report). A signal between any two commands, and one more at any point of the trap; a third changes nothing. |

Every action of these models is taken in some run. A type invariant is checked where
it bounds what it types (scores within 0..100); the others are conjuncts of the
inductive invariants that are proved (section 4). TLC agreed with each of those on
these instances (`LaunchInv` and `RunInv` in runs of their own with the same constants) before it
was proved.

The runs that end in a violation show where the code and its own documentation
disagree; see section 6.

**Fairness.** Only what the code or its surroundings justify: the client's own steps
with its 30 s timeout (`client.go:30-53`), which bounds a request nobody answers;
DuckDB pulling a scan it has not given up; a supervisor that restarts a worker
behind HTTP; the integration script as a running process, and of its servers that
one the trap has killed and waits for goes (`Perish`: the worker by the default action of
SIGTERM, the mock as `StopsOnSignal` says; a server that ignored it would hold `wait` for
ever); and the goroutines of the mock and its connection, which
the Go scheduler runs (not signals, and not the caller). Nothing is assumed of the service, of losses, or of the
servers the script starts.

## 4. What is proved

Every invariant, every action property and every refinement that a passing
run checks is also a theorem, for every value of the constants under the
named assumptions, which TLC evaluates on each instance:

- `ClientAssumption`, and `WalkAssumption` of `MockWalk`: positive `MaxResults` and
  `ResultsPerPage`.
- `ScanAssumption`: positive `RowsPerTick`, 0 a score, `NoScore` none.
- `QueryAssumption` of `CveQuery`: both of these, and that each record has a score or none.
- `ScalarAssumption`, and `QueryAssumption` of `SeverityQuery`: batches are sequences of
  sequences of tokens, columns are of numbers, records have the type `client.go`
  decodes, and no CWE is the empty string, which is how the code says that there is none.
- `LaunchAssumption`: a launcher adds units, each one token or a flag and its value; the
  default log level is one that `Apply` accepts.
- `RunAssumption`: some test files, those that need the mock among them. A pattern that
  matches no file is left out: there the runner's own verdict would decide.

The invariants of a component are used again where it is composed: `CveQueryProofs`
and `MockWalkProofs` take the lemmas of `NvdClientProofs` and `TableScanProofs` by
`INSTANCE`; the steps of the composition are shown to be steps of the component.

*Client* (`NvdClientProofs`). `ClientTypeCorrect` is type correctness. `BoundedWork`
is not inductive: that a call issues at most `MaxResults` requests follows only
because every request but the last brought a row. `Budget` says that, and
`Position` that `startIndex` counts the rows between two requests; together they
give `WorkIsBounded`, with a service that answers anything. For the tiling,
`Tiled` adds that the response in hand continues the rows (`Agrees` relates a
sequence to a piece of the records), which must survive records being inserted and removed
behind the walk: `AgreesKept` and the lemmas on `InsertAt` and `RemoveAt`. This is
`WalkInvariant`, and `RowsArePrefix` (`PagesTile`) and `WalkIsComplete`
(`NothingMissed`) follow from it.

*Scan* (`TableScanProofs`). `ScanTypeCorrect`; then `ScanInv`, which says that the
rows in the cursor, in the response in flight and at DuckDB are the fetched rows
up to what gob does to them (`Carries`), that the offset is the number of rows
delivered, and that a response in flight is the answer to the present cursor, so
that to repeat it is harmless. From `ScanInvariant` follow `RowsAreFaithful`,
`CursorNeverStale` and `FinishedScanIsComplete`, and with them the refinement
`ScanKeepsPromise`: the initial states map to the promise's, a slice delivered maps
to `Deliver`, an exchange, loss or restart to a stutter.

*Call* (`CveQueryProofs`). `CallInv`: a fetch that runs finds the scan still waiting,
or given up, so nothing has been delivered when it fails; and with a NULL
argument client and scan stay as they were but for the phase, which must
survive every loss, crash and repeated exchange (gob of a state without rows is
that state). From `CallInvariant` follow `AllOrNothing` and `NullAsksNothing`.
`QueryInv` carries the walk's and the scan's invariants through the composition and
adds what neither has, `Handed`: the scan holds the rows that the fetch ended with,
and nothing changes them any more. So `QueryIsEndToEnd`: what SQL has is what the service
had, up to a 0.0 that became NULL; and `QueryKeepsPromise`, the promise for the call as
a whole.

*Mock* (`MockWalkProofs`). The mock is the service that the client's model leaves open, so
`MockIsNVD` is a refinement: every step of a call against it is one `NvdClient` foresees.
`Consistent` says that its records do not change and that the answer at the client
is the handler's to the page the walk asked for; with it the walk's invariants give
`MockShowsEveryRecord`: for the records the mock has (at most three, fixed in its source)
and any page size and cap of the client, the rows are the first of them at every
moment. `Ready` says where `main`, the signal goroutine and the
connection can be together until a signal is sent, and that a call then ends only as
its query does; from it follows `PortLineMeansServed`.

*Severity* (`SeverityQueryProofs`). `BandsInv` says that the offset, wherever it is
held, is the number of bands delivered, and that an answer in flight is the
one to the present offset. With it the bands scan refines `LookupPromise`
(`BandsKeepPromise`), and `QueryInv` adds that nothing is rated before the bands are
there and that rows are projections of records. `SeverityAgrees` then rests on a
lemma on the two tables: each tenth is in exactly one band, with the severity
the thresholds give it, and any hundredth is in that band or in none.
`RowsShowOneMetric` says of a severity that is stated with the score that the row has it
exactly, and allows the band only where none is; a v2 metric may state one on itself,
which the code overwrites (`v2_severity`, section 6), so there both are allowed, and
`SeverityAgrees` leaves such rows out. `RowsShowOneMetric` and `RowsKeepTexts` hold for records with any number of metrics,
descriptions and weaknesses.

*Scores* (also there). `BatchesAreScored` compares the parser, which reads token by
token and overwrites, with what a vector says as a whole, for vectors of any tokens. The induction is
in `OneToken` and `AllTokens`: after n tokens the map holds the last value given to each
metric, or there is an error, and a reason for it among the first n. `RowsInv` does the
same for the rows of a batch: the error kept is that of the first bad row.
`RoundUpIsLeast` is about `RoundUp1` alone, for every argument up to 10.0 and not just
the values the equation takes; `ScoresAreRoundedUp` gives it to the rows of any batch.
`WorseScoresNoLower` goes factor by factor: products, percentages and the
rounding are monotone, and `PowerTable` and `ImpactTable` evaluate the power, which is
not a product of monotone factors, at the ten values it is taken of.

*Launch* (`LaunchProofs`). `FlagRun` says that the flags of a sequence of tokens follow
one behind the other, all defined, each with its value but perhaps the last. The
filter extends such a run (`AppendRun`), as long as there are tokens left a whole
one, and the parser takes flags off its front (`RestRun`). So `ParserIsSafe`: the parser
meets neither a flag the worker does not define nor a stray word, and it ends the worker
only if the launcher left a flag of the worker's own without its value (`Dangling`) or
wrote it as the flag package does not read it (`Misspelt`, which `WellSpelt` carries
through the filter). That the worker also does what was
meant needs a second half, `MeaningKept`: what the tokens still say of a flag (`Said`,
on top of what is already set) is what the units said last (`Given`). The lemma it
rests on is `SaidConcat`: of two pieces in which no flag lacks its value, the second
has the last word. From `LaunchInvariant` follow `TransportIsMeant`, with which only a log
level that `Apply` refuses ends the worker, and `AddressIsMeant`. Excepted are the two
kinds of launcher above (a flag without its value takes the token behind it) and
`unix <sock>` (section 6), which the worker takes to mean stdio.

*Runner* (`IntegrationRunProofs`). `RunInv`: a server of the run has reported or is still in
`todo`; a live process is recorded, but for the window between `&` and `PID=$!`; in each
step of the trap the servers it has passed are gone (`ToReap` are the others), and so is
the socket at its end, unless a worker without a recorded PID made it later; only a
signal ends the script inside the trap; results belong to a suite that ran, and a status
is the verdict on them. From `RunInvariant` follow `NothingLeftBehind`, with just the two
exceptions a signal makes, `SuiteWaits` and `GreenMeansRun`, for any files and any number
of looks.

`SequenceLemmas` has the facts about `Append`, concatenation, slices, `InsertAt`,
`RemoveAt` and `FlattenSeq` the proofs rest on, and induction in a form the provers can use:
the library's induction theorems take a predicate, which none of them can
instantiate, but a well-founded relation has a minimal element in every set, so a set
with 0 and the successor of each of its numbers has all of them (`LeastElement`, `NatSteps`).

**What the proofs found in the models.** The guards of the `CASE` in `ParseToken`
overlapped, so that TLA+ left open which branch a token took (TLC took the first). `RoundedUp`
had its strict bound on the wrong side: half of the fifth decimal is rounded up.
`TextsAreKept` did not say that a row's CWE is one of the record's. `Launch` did not say
which tokens may form a unit, and only with `unix` did it foresee a missing value.

**Only model-checked:** liveness (`Returns`, `Terminates`, `AbandonedFetchStops`,
`StopsOnSignal`, `Ends`), which is out of the prover's reach. That the fixed-point
arithmetic gives the scores of the floating-point code was compared outside TLC for
each base vector. The runs that end in a violation are counterexamples, and need no proof.

## 5. Plan

Order of the modules, most important behaviour first:

1. `NvdClient`, with its proofs (done).
2. `LookupPromise` and `TableScan`, with proofs and the refinement (done).
3. `CveQuery`, which composes both, with proofs and the refinement (done).
4. `Cvss`, `CvssScalar`, `CveProjection`, with proofs (done).
5. `Launch` and `IntegrationRun`, with proofs (done).
6. `BandsScan`, with the refinement, and `SeverityQuery`, with proofs (done).
7. `MockServer` and `MockWalk`, with proofs and the refinement of `NvdClient` (done).
8. Theorems for every safety property a run checks (done, section 4).
9. The EXIT trap command by command, the dashes and the log flags of the command line, the
   severity stated by a v2 metric (done).
10. Left: the two hazards without a property (a status that is neither 200 nor an error with
   a body that is no envelope; a server that dies half way through the suite), about
   which the repository promises nothing; more of the action properties of single components,
   and shorter proofs where one lemma could serve two modules (`TableScan`, `BandsScan`).

## 6. Where code and documentation disagree

- **A score of 0.0 becomes NULL over HTTP** (`scan_null_score`). `Score` is a
  `*float64` in a gob-encoded struct; gob omits a pointer to zero.
  `NullMeansNoMetrics` states `functions.go:285`. `RowFidelity` shows, and
  `RowsAreFaithful` proves, that this is the only thing lost.
- **A CVSS v2 severity is never taken from the metric** (`v2_severity`): the branch of
  `client.go:144-146` is dead, as `applyCVSS` has already derived one.
- **The entrypoint's default does nothing** (`launch_default`): without an argument
  `shift` ends a dash script. The image's `CMD ["http"]` hides it.
- **The mock's shutdown is not graceful** (`mock_stop`): `main` returns when `Shutdown`
  begins, not when it ends, so a request in hand is cut and not given two
  seconds (`cmd/mockserver/main.go:46-59`).

- **`unix <sock>` serves stdio** (`launch_unix`). `docker-entrypoint.sh:9` and
  `Dockerfile:6` document the socket as a plain argument; the filter drops it as a
  stray word, and without `--unix` the worker serves stdio. The form in the comment at
  `docker-entrypoint.sh:31-32`, `unix --unix /sock/cve.sock`, works, and `launch` covers it.

Further points have no run of their own:

- An unknown CVE is an error in the code (`client.go:189-191` and `284`, and
  `README.md:88-90`), while the description of `cve()` says "Returns no rows for an
  unknown CVE" (`functions.go:277-278`).
- A signal between `&` and `PID=$!`, or a second one inside the trap (tried with bash, on
  the lines of the trap), leaves a server behind, although `run-integration.sh:25` says
  of all started processes that they are killed on exit. That nothing else does is
  `NothingLeftBehind`.
- `main.go:20-22` promises to tolerate unknown launcher flags. One with three dashes that
  names a flag of the worker (`---http`) is not unknown, is kept by the filter and ends
  the worker with "bad flag syntax".
- A walk returns a record twice when one is published in front of the offset during it,
  as offset paging does: `PagesTile` holds only for an undisturbed walk (the word
  "dedupes" in `client_test.go:113` is about the mock, which does not change).
- The client asks for 50 records a page (`client.go:28`), so the "2-page response" of the
  mock (`mocknvd/server.go:11`) is one page to it; `mock_walk` checks pages of two.

## 7. What is not modelled

Encoding of query parameters, headers, JSON decoding and Arrow building; the API key;
the text of errors and logs; catalog metadata (constants) and build files; the
SDK's own transports beyond what `functions.go` says of them, and its handling of NULL
rows in a scalar, and an error of its servers when they cannot bind their address or
socket (`log.Fatal` in `main.go:247` and `256`); `awk` rewriting of the tests; SIGKILL of the script; a server that
ignores SIGTERM. Of the
mock: permanent errors of `Accept`, the 30 s timeout of the client (it answers
at once), bodies cut short, and keep-alive: each request has a connection of its
own. A status other than 200 below 400 is modelled as the code treats it (decoded like a
200), although `client.go:250-252` speaks of all non-200 statuses; NVD sends none. A
server that dies half way through the suite leaves the later files skipped and the
run green, as the model has it; nothing in the repository promises more.
