# step-runner in TLA+

A verification project for step-runner, the program that runs CI steps: as a
service on a build machine (`step-runner serve`), driven over gRPC by a client
(GitLab Runner), or from the command line (`run`, `ci`). The TLA+ modules model how
jobs are started, executed, followed, cancelled and cleaned up, what steps are
compiled from and what flows between them, the caches that steps come from, and the
steps that build, promote and fetch steps as OCI images. TLC checks them on small
instances, and TLAPS proves all their safety properties but three, and that a job
implements its abstract specification, for every value of the constants.

## 1. The system

A client sends a `RunRequest` with an id and a step definition. The service
creates a job, registers it in a map, and executes it in a goroutine. The job
runs a tree of steps; its output goes to a log file that clients follow. A
client then asks for the status and closes the job, which cancels it if it still
runs and removes its directory.

| Component | Source | State | Operations | What makes it correct |
|---|---|---|---|---|
| job | `pkg/api/internal/jobs` | status, error, times, context, logs, directory, `finishC`, mutex, two `sync.Once` | `New`, `Run`, `Close`, `Status`, `FollowLogs` | an outcome is recorded once and kept; the logs end after it; `Close` and `Run` never wait for each other for good |
| log streamer | `pkg/api/internal/streamer/file` | file, stop flag, condition variable; per follower: position, scanner | `Write`, `Stop`, `Close`, `Follow` | lines arrive in order and completely; no wakeup is lost; followers of a stopped stream return |
| service | `pkg/api/service`, `pkg/internal/syncmap`, `pkg/api/internal/variables` | map of jobs, directories | `Run`, `Close`, `FollowLogs`, `Status` | a running job can be found and closed; its directory is its own |
| client | `pkg/api/client` | the progress of one `RunAndFollow` | `RunAndFollow`, `Follow` | it reports a final status, returns, and has closed its job unless a call got no answer |
| step execution | `pkg/runner` | stack of calls, environments, results of steps | `Run` of executable steps, sequences and lazily loaded steps | results tell what happened; cancellation ends the job |
| environment | `pkg/runner/environment.go`, `global_env.go` | variables, parent, mutations | `AddLexicalScope`, `Mutate`, `Values` | variables reach the commands they should, and no others |
| step files, expressions | `pkg/runner/step_file.go`, `pkg/internal/expression`, `pkg/context` | none beyond one call | reading of outputs and exports, interpolation | what is in scope resolves and keeps its type |
| schema, references | `schema/v1`, `pkg/runner/*_step_resource.go` | none beyond one call | compilation, look-up of definitions | a document means the same whichever way its steps are referred to |
| git cache | `pkg/cache/git` | a repository and directories of steps on disk, shared by processes | `Get` | a directory is whole, and the one of the version |
| dist cache | `pkg/cache/dist`, `dist` | a directory of the process | `Fetch`, `CleanUp` | what is found is whole |
| proxy, serve | `pkg/api/proxy`, `cmd/proxy`, `cmd/serve` | two copy loops and a connection; the listener | `Proxy`, `Listen`, `Serve` | answers get through, also at shutdown; the proxy ends |
| run, ci | `cmd/run`, `cmd/ci`, `pkg/report` | one foreground job, a report | `run` | job variables stay out of the environment |
| OCI steps | `dist/steps/step/oci` | tags in a registry, files on disk | build, promote, fetch | releases are kept, tags go forwards, what is fetched is what was released |
| others | `cmd/bootstrap`, `pkg/di`, `proto`, `.gitlab` | | wiring, generated code, tools | |

Interactions: the service calls jobs and shares its map and the directories
between handlers; a job calls the steps and shares its mutex, channel, context
and log with those who close or follow it; all jobs share the environment of the
process, over which each puts a scope of its own. Steps get their definitions from
files that the caches have put on disk, which other processes may be writing.
Everything a client sends passes through a proxy on the build machine.

What is hard to test: a `Close` whose timer races the end of `Run`; two handlers
between two operations of the map; a `Close` that acts on an id which by then
names another job; a write between a follower's read and its wait; reads that
end inside a line; a cancellation between any two steps of a client; steps that
fail at any place of a nested sequence; exports of a variable that was set
before; a value that travels through outputs, inputs and references of several
steps; a process that dies in the middle of a clone; a shutdown with answers still
in buffers; promotions and builds that overlap, or stop half-way. `PROJECT.json`
lists these as hazards, each at its line.

## 2. The modules

| Module | Models | Composes |
|---|---|---|
| `StepResult` | the results of steps, as far as jobs tell them apart | |
| `Job` | `jobs.go` | `StepResult` |
| `JobLifecycle` | abstract: what a job promises | |
| `Streamer` | `streamer/file/file.go` and the `bufio.Scanner` it uses | |
| `Service` | `service.go`, with jobs as `JobLifecycle` describes them | |
| `Client` | `extended/client.go` | `Service` |
| `Environment` | `environment.go`, `global_env.go` as operators on a heap | |
| `Expression` | `pkg/internal/expression` as operators on tokens | |
| `StepFile` | `step_file.go` as operators on lines | `Expression` |
| `Schema` | `schema/v1`: from documents to definitions | `Expression` |
| `StepResource` | the resources of `pkg/runner` and the checks of inputs | `Schema` |
| `Steps` | `executable_step.go`, `sequence_of_steps.go`, `lazily_loaded_step.go`, `steps_context.go` | `Environment`, `StepFile`, `StepResource`, `StepResult` |
| `Command` | `cmd/run`, `cmd/ci` | `Steps` |
| `GitCache`, `DistCache` | `pkg/cache`, `dist/step_finder.go` | |
| `StepImage` | the data of the OCI steps: layers, manifests, versions | |
| `Registry` | the runs of these steps against one registry | `StepImage` |
| `Proxy` | `pkg/api/proxy`, `cmd/proxy`, `cmd/serve` | |
| `JobProofs`, `ProxyProofs` | proofs | the module of that name |
| `StreamerProofs`, `RegistryProofs`, `StepsProofs` | proofs | the module of that name, `InductionLemmas` |
| `ClientProofs` | proofs about the service and its clients | `Client` |
| `CacheProofs` | proofs | `GitCache`, `DistCache` |
| `InductionLemmas` | induction and recursion over numbers, for the proofs | |
| `MC*` | constants for TLC | |

**Job.** Each goroutine that calls `Run` or `Close` has a place (`runPc`,
`closePc`). A critical section of the mutex is one action, except the timer's
branch of `Close`: its `Unlock` is deferred, so `mux` stays taken from
`RecordTimeout` to `RemoveTmpDir`. `StepRun` returns any of the five results of
`StepResult`, and also one with an error of the context when nobody closed the job:
`onRunCompletion` only asks whether the error is one of `context`, and a network
timeout in a git clone is.
`ReportError` reads `j.err` without the lock, as the code does. A panic runs the
deferred calls (`Cleanup`, `CloseLogs`, `SendFinish`) and then ends the process
(`crashed`).

**JobLifecycle.** Start, outcome, end of logs, end; cancel, closed. `Job`
implements it (`KeepsLifecycle`). The job actions of `Service` are written after it,
which is what entitles that module to leave the mutex and the channel out. A panic
of a job, which would end the service, is left out there.

**Streamer.** The file is a sequence of bytes, a byte being a newline, a carriage
return or any other. A follower reads between one byte and what its buffer has
room for, splits lines as `bufio.ScanLines` does, skips blank ones and sends the
others in two writes, either of which may fail. `Read` is one turn of the reader's
loop under the lock. A read of the file may fail: the scanner then takes what it has
as a last line, which the follower sends before it returns the error. `Render` is the reference for what a follower should send: it
splits the bytes one by one (`Split`), with no buffer and no reads.

**Service.** One action per operation on the map and per step of a handler. The
preparation of a job (reading and compiling steps, variables, contexts) succeeds
or fails, and so may a call of `Status`. Directories are named after ids, not jobs, so that two jobs of one id
share theirs, as in the code.

**Client.** Constrains the calls of `Service` to the order of `RunAndFollow`;
calls of `Close` that belong to no client are those of others. `CancelRun` is a
context that is cancelled while `Run` is under way: gRPC ends the call for the
client, while the handler, which does not look at the context, goes on.
`CloseFails` is a call of `Close` whose error the client drops: the service may have
taken it, may take it later, or never sees it.

**Expression, StepFile.** A string is a sequence of tokens (delimiters, dots,
text), a value has a kind. `InterpolateString` is one fold over the tokens, as the
code is one loop over the matches of a regular expression; an expression alone in
its string keeps the kind of its value, otherwise values become text. A file is a
sequence of lines of a few kinds, of which one is too long for the scanner.

**Schema, StepResource.** A document is a record with the keys that it gives.
`Compile` makes of it the definition that is executed, with the keywords `script`
and `action`, and with OCI references as the sequences they are compiled to.
`Fetch` looks a reference up: relative to the directory of the document, in what the
caches have put on disk (`Files`), or, for a dynamic one, by what its expression
yields. An error is a value, and `Then` passes it on.

**Steps.** The nested calls of `Step.Run` are a stack of frames. Environments are
objects that point to a parent and are mutated, hence a heap; the object of the
process is shared by all jobs. The environments a call has made are dropped when it
returns, which keeps the state finite and changes nothing: no live frame or
object points to them. `View` is what an expression in a frame can lead to. What
compilation and expansion decide is decided by the operators above; logs, files,
fetches and commands may fail at any time, a fetch also with an error of the
context. `KillCommand`, the end of a command whose context is cancelled, is an action
that nothing forces. The error `invalid` marks failures that the documents alone make
unavoidable.

**Command.** `run` and `ci` make a definition of their options and a job over a
filtered environment, and then take the steps of `Steps`, without cancellation.

**GitCache.** One repository, on a directory that several processes share, each with
a mutex of its own. The places of `Get` are those where other processes can
interfere: the stat of the repository, the clone and its end, find, fetch, the
temporary copy, the rename. `Push` changes the remote, `Crash` ends a process and
leaves what it has written. go-git is external and as `GitFetcher` relies on it: a
clone of depth 1 brings the refs and their commits, one that fails removes its
directory.

**DistCache.** `Fetch` with its mutex, the check for the directory, and a copy that
may fail half-way; `CleanUp` at any time.

**StepImage, Registry.** A build turns inputs into layers and an index, asks whether
the reference exists, and pushes; a promotion lists the tags, computes the ones to
move, and reads and writes once per tag; a fetch picks a manifest for its platform
and writes files one by one. A destination is a clean path, so that a file of one
artifact may meet a file, or a directory, of another (`MayOpen`). The registry is a map from references to images; any
call to it may fail (up to `MaxFaults`), a write also after it took effect.
`during` is a history variable that tells which runs overlapped.

**Proxy.** The two loops, each with what it has read and not yet written; the
connection with bounded buffers (`MaxBuffer`) and its two halves, which `CloseRead`
and `CloseWrite` shut; the server with the calls it works on.

## 3. The runs

| Run | Instance | Shows |
|---|---|---|
| `job` | 2 callers of `Run`, 2 of `Close` | the outcome is kept (`OutcomeIsFinal`), is `cancelled` only after a `Close` or with an error of the context and has a message when it is not a success, logs end after it, the send on `finishC` finds room, a `Close` that returns left no directory and, unless its timer fired, no running job; `Run` and `Close` return; the job implements `JobLifecycle` |
| `streamer` | 1 follower, 5 bytes, buffer of 3 bytes, offsets -1, 0, 1, 6 | lines in order up to the first failed read, completeness on success, no lost wakeup, followers of stopped streams and cancelled followers return unless their writer blocks |
| `service` | 2 `Run` and 2 `Close` of one id | running jobs can be found and keep their directory unless two `Run`s passed the check of the map, closed jobs are gone, no directory is forgotten, calls return |
| `client` | 2 clients, one id, in turn, whose `Run` and `Close` may get no answer | final status, closed jobs, clients return |
| `steps` | a job with nested or setting sequences, beside one with a command | environments, results, cancellation |
| `steps_data` | 8 documents run by the service, 9 sets of options of `run`, 2 of `ci` | expressions in scope resolve, inputs have their declared type although nobody checks it, unless a command reported its outputs itself, a job variable that no document names reaches no command |
| `caches` | 3 calls of `Get` by 2 processes, of which one may die, a branch of two commits and a tag; 3 fetches of 2 embedded steps | directories of steps are whole, `Get` returns the version or an error, `Fetch` returns whole steps |
| `registry` | 2 builds of one reference, 2 promotions of 1.1.0, 1.2.0, 2.0.0 or 2.0.0-rc over 1.1.1, 1 fetch of `latest` for one of two platforms, as root or not, 1 fault | releases are kept, tags go forwards, files are those of one build |
| `proxy` | 1 proxy, 4 requests, buffers of 2 | answers are delivered, also when a signal stops the server; the proxy returns |
| `job_captures_result`, `client_resent_close`, `steps_oci` | as above | the findings of section 6 |

Deadlock is not checked: every one of these systems stops when its calls have
returned, and a job whose steps never end simply stays. That nothing which should
return is stuck is stated by the liveness properties instead.

**Bounds.** Two callers of `Run` and of `Close` contend for both `sync.Once`: one
is inside, one waits; a third would wait like the second, and the proofs cover
any number. In the streamer (`MaxToken`, `MaxBytes`) 5 bytes with a buffer of 3
give lines that end inside a read, `\r` and `\n` in different reads, blank lines,
lines that exceed the buffer, and several lines in one buffer; followers do not
interact but for the broadcast, and the proof of `WaitsOnlyForMore` covers any
number of them. The service with two jobs and two calls of `Close` of one id has
every pair of handlers interleave; jobs of different ids share nothing.
In `Steps` a sequence within a sequence is the first depth at which a scope hides an
export; more depth repeats it. Every source of a variable (request, reference,
definition, export, the other job) has values of its own, which tells the sources
apart. In `steps_data` there is one job, since data does not pass between jobs; its
documents use every kind of reference, keyword and place for an expression, and its
commands write outputs that are right, of a wrong type, missing, or lost after an
over-long line. `MaxHops` is 2: a dynamic reference that leads to another one
is followed, and one that leads to a third is an error there, while the code goes on. `caches`: two calls of one process meet at
its mutex, one of another meets them on disk; one crash (`MaxCrashes`) at every
place. `registry`: two overlapping runs of each kind are what its properties are
about; versions differ in each of the three places. Symmetry is used for builds and
promotions, whose names no property tells apart; there is no liveness in that run. A
host runs images of its own platform only; the proof covers any ranking of platforms.
`proxy`: proxies have nothing in common but the server; four requests fill
both buffers and both loops.

**Fairness.** Goroutines and handlers that can run are scheduled, and a timer that
was started fires. Whatever waits for somebody else is not assumed to end:

- the arrival of a call, and that one which does not arrive fails: `Status` and
  `Close` of a client have no deadline, and `ClientsReturn` says so;
- steps and commands. `exec.CommandContext` kills the command, but without a
  `WaitDelay` `cmd.Run` goes on waiting for pipes that a grandchild holds. Hence
  `CancelledJobsEnd` begins where the command of a cancelled job is gone, and says
  that no other starts. It is for commands that stay that `Close` has its timer;
- a fetch of a step over the network, which may hang (`Fetches`);
- the writer of a follower: it is a `Send` of gRPC, which blocks until its client
  reads. `FollowersReturn` allows a follower to stay there, and no other place;
- the end of the logs, an error and a cancellation all let a client go on from
  following, but none of them must come: `ClientsReturn` begins where it has ended.

In `Proxy` each of the two loops is scheduled, and the server takes what comes and
answers it; nothing is assumed of callers and signals, and a caller that neither ends
stdin nor sends more may keep its proxy forever.

## 4. The proofs

Each theorem holds for all values of the constants that satisfy the named `ASSUME`s
of the modules, which TLC evaluates in every run. Hardly any of the properties is
inductive on its own. Each proof module therefore states an inductive invariant, which was
first checked with TLC on the instance of the run, and has a lemma or a step per
action that shows that the action keeps it.

| Module | Proved | From |
|---|---|---|
| `JobProofs` | `TypeOK`, `CancelledHasACause`, `EndOfLogsMeansFinal`, `FinishSendNeverBlocks`, `OrderlyClose`, `FailureHasMessage`, `OutcomeIsFinal`; `Job` implements `JobLifecycle` (`KeepsLifecycle`) | `ActorsAssumption`: callers of `Run` and of `Close` are disjoint |
| `StreamerProofs` | `TypeOK`, `WaitsOnlyForMore`, `SendsInOrder`, `CompleteOnSuccess` | `StreamerAssumption` |
| `ClientProofs` | of the service: `RunningJobsAreRegistered`, `RunningJobsHaveDir`, `ClosedJobsAreGone`, `DirsCanBeRemoved` | `ServiceAssumption` |
| `ClientProofs` | of the client: `ReturnedClientsHaveClosed`, `ClientsReportFinalStatus` | `ClientAssumption` and the hypothesis `ClientsTakeTurns` |
| `CacheProofs` | `StepDirsAreWhole`, `GetReturnsTheVersion`, `FetchedStepsAreWhole` | `GitAssumption`, `DistAssumption` |
| `ProxyProofs` | `RepliesAreDelivered` | `ProxyAssumption` |
| `RegistryProofs` | `ReleasesAreKept`, `MovingTagsAdvance`, `FetchedFilesAreReleased` | `RegistryAssumption`; the first also from the hypothesis `PromotionsGoElsewhere`, the others from `PublishedAssumption`, and the last from `SourcesAssumption`, `InputsAssumption` and `RankAssumption` |
| `StepsProofs` | `SequencesAreAllOrNothing`, `JobsGetAResult`, `EnvHasASource`, `LaterStepsSeeExports` | `StepsAssumption` |

**Induction.** The library states induction for any predicate, and the provers cannot
fill in one. `InductionLemmas` states it with a set for the predicate and a function for
the step, which they can: every set of numbers has a least element, from which follow
induction over numbers and that functions can be defined by recursion over them. This
is what the proofs about `Split`, `Values`, `ForPlatform`, `Platforms` and `FlattenSeq`
rest on: a recursive function of TLA+ is a `CHOOSE`, and what it chooses has its
equation only once some function is known to have it.

**Job.** `IInv` adds `RunExclusive` (one goroutine at most is inside `runOnce.Do`, and
`finishC` is empty until it sends), `RunProgress` (what is recorded, closed and
removed at each place of `Run`, in particular that a status is no longer
`unspecified` once `Run` has started, so that a late timer leaves it alone) and
`CloseProgress` (the same for `closeOnce.Do`). The refinement uses it: each action maps
to one step of `JobLifecycle` or to none.

**Streamer.** `WaitsOnlyForMore` is inductive together with simple types: the
broadcast empties the set of those who wait whenever `content` or `stop` changes, and a
follower begins to wait only under the lock. For `TypeOK`, the position of the first
newline in a buffer is a least number, which gives that a token holds none.
`SendsInOrder` and `CompleteOnSuccess` follow from `StreamInv`, which says of each
follower how many of the bytes it wants it has split into lines, that its buffer holds the
next ones (`Position`), and that what it has sent, with what it is about to send, is what
`Split` gives for the bytes that it has split (`Due`). For a follower whose read failed the
bytes are those that it had read by then (`Seen`). What it sent then stays right
when more is written, since only a last line without a newline could change, and that one
is sent only after the stream has stopped (`Safe`).

**Service.** `IInv` says that the map and what a handler took from it lead to jobs of
the id that were registered (`MapIsSound`), that one call at most is inside the
`closeOnce` of a job (`ClosingIsExclusive`), what a closed job has behind it
(`ClosedIsOver`), and that a registered job stays so until it is closed, unless another
`Run` of its id registered its job too (`PublishedIsRegistered`). For `DirsCanBeRemoved`
it is added that a directory was made for a job that is not closed (`DirsHaveAJob`).

**Client.** `ClientInv` adds to that the order of the calls, that logs end after the
status is final, and for each client that its calls deal with the job that it started
(`OwnJob`), as long as no `Run` or `Close` of a client of its id went without an answer.
After a lost `Close` a client may meet the job of the one before it; that it still sees a
final status follows from `FollowedJob`. This needs `ClientsTakeTurns`: those who share an id use it one after
the other and nobody else calls `Close`. The instance
of run `client` satisfies it. It cannot be dropped: run `client_resent_close` has one
more `Close` and violates the property.

**Caches.** `GitInv`: what a process copies is the tree of a commit that its version
names, the copy is whole before it is renamed, and a version that was found at the
remote is found again unless a clone failed. `DistInv` says which fetch holds the mutex
and that a partial copy is its own or one that has failed.

**Proxy.** `ProxyInv`: requests are passed on in order; each one that the server took is
a call, an answer on its way, or an answer that was written; and unless the caller has
closed something, loops end only after the server has closed the connection, with no
call left.

**Registry.** For `ReleasesAreKept`, a tag that a build has found free is free or was
taken while the build is under way. Promotions do not ask whether a tag is taken, so the
theorem asks that no build writes to a repository that is promoted to
(`PromotionsGoElsewhere`, which the instance of the run satisfies); without that, a build
replaces a promotion that came between its question and its push. For `MovingTagsAdvance`, `PromoteInv` says that every version a tag names also
has its full name in the registry (`VersionsAreNamed`, which the code ensures by writing
the full name first), so that a promotion that lists the tags sees every version that
holds one of its tags; what a promotion has yet to write is then no step back, except
for versions that other promotions have written since, and these ran at the same time.
`PublishedAssumption` asks the same of what the registry holds to begin with.

For `FetchedFilesAreReleased`, `FetchInv` says that every index in the registry, and every
one that a promotion is about to write, is what the build that made it makes of its
inputs (`Genuine`), and that a fetch has written the first files of the image and has
the others before it (`Unpacks`, `Laid`). Lemmas about the operators of `StepImage` give that an
index has one image for each platform with files, and that the one which is found fits the
host best, or the host `generic` if none fits. Its assumptions are types: what is below a source
is a list of files, the files of a build are pairs of names, and ranks are numbers.

**Steps.** `StepsInv` says of each job that the frames of its stack have the results of
successful steps only, that environments nest as the frames do, and that what a call
returned is a success without an error or a failure with one; no result at all comes only
from a command that could not write its first line to the log. It holds for any documents: what expressions, documents and environments come
to is left open in the proof, and only where the steps go from there is used. `EnvInv`
is about environments. Each frame has its objects above those of its caller
(`FrameEnv`), so that dropping them leaves all others alone, and parents are older than
their children, which is what induction along them needs. Every value in an object was given by
the process, the request, an export of the job or a frame below it (`Sources`); the
environment of the job has what was exported (`HasExports`); and a step that is no
sequence sees of its caller all that it does not set itself (`Fresh`), also after exports.

Only model-checked:

- all liveness, which is out of the prover's reach;
- `ScopedExpressionsResolve`, `InputsHaveTheirType` and `SecretsAreNotPassedOn` of
  `steps_data`. They are about the documents of that run, which are consistent: each
  names steps and inputs that exist, and gives values of the declared types. For any
  documents they are false (nobody compares types, as section 6 says), so a theorem would
  first need a definition of a consistent document that is not the conclusion itself.

## 5. What is not modelled

- In the service: the listing of all jobs by `Status`, and that the files of
  variables are written.
- In the client: dialling, conversions to and from protobuf, and the offset with
  which a client that follows again would resume; nothing in the repository does.
- In `serve`: what becomes of jobs when the process ends. It does not close them, so
  their directories stay and their commands go on.
- In the schema: decoding of YAML and JSON and the JSON schema. Nested structs and
  arrays have one level.
- Sensitivity: the flag of inputs is compiled and compared, but `Evaluate` marks
  every value as not sensitive, so the comparison has no effect.
- In the git cache: annotated tags, whose directories only have another name; two
  URLs that differ in the port and share a directory (`git.go:44` leaves it out).
- Step files on disk: that they are removed. `Cleanup` ignores the errors of
  `os.Remove` (`steps_context.go:117`), and the first file stays when the second cannot be
  made (`steps_context.go:32`). Their names are random (`rand.Uint32`); that two are
  equal is ignored.
- An empty command, for which `cmdArgs[0]` panics (`executable_step.go:80`): the JSON
  schema refuses it (`minItems` in `schema/v1/step.json`), and only a definition given as
  text proto to `run` goes around that.
- Dynamic references beyond `MaxHops`; destinations of a build with `..`.
- Permissions, times and symbolic links in archives.
- `cmd/bootstrap` copies a file, `pkg/di` constructs objects, `proto` is generated;
  `.gitlab`, `testutil`, `examples` are not part of the program.

## 6. Findings

Shown by a run:

1. **A late timer can bring the process down** (`job_captures_result`,
   `jobs.go:116`). `Run` tests `j.err`, which a `Close` whose timer fired may have
   set after `onRunCompletion`, and then calls `Error` on its own `err`, which is
   nil when the steps succeeded. For the same reason a job may report success
   together with the error `context canceled`.
2. **Close removes an id, not the job it closed** (`client_resent_close`,
   `service.go:136`). A second `Close` that waited along removes a job that was
   registered under that id in between; that job can no longer be found.
3. **Expressions do not resolve in OCI steps** (`steps_oci`, `reference.go:84`). The
   reference is compiled to a sequence that holds the inputs and the env of the
   step, and where the earlier steps of the document are unknown. The env is also
   applied to both steps of that sequence.

Seen while modelling; some contradict a statement of the repository, and the models
do as the code does:

- `Close` does not release the logs of a job that does not end (`jobs.go:180`): only
  `Run` closes the file. A request that fails between `jobs.New` and the start of its
  job always takes this way, after the full timeout. `jobs.go:159` promises that
  `Close` "cleans up all resources".
- A context that is cancelled during `Run` leaves the job running
  (`extended/client.go:66`): the deferred `Close` is set up after `Run` has returned. So
  does a `Close` that fails (`extended/client.go:74`), since its error is dropped.
- A network timeout makes a job `cancelled` that nobody has cancelled (`jobs.go:146`).
- A command at the root that cannot write its first line to the log returns no
  result (`executable_step.go:36`), which `onRunCompletion` dereferences (`jobs.go:128`).
  `JobsGetAResult` excepts this case and shows that there is no other.
- A follower whose read of the log fails sends the line it is in as if it had ended.
- Exports can be hidden in nested sequences (`lazily_loaded_step.go:102`): a step gets
  a snapshot of its parent's variables as a scope over the environment of the job.
  `LaterStepsSeeExports` states what holds. And `${{ steps.x.exports.y }}`
  (HOWTO.md:104) never resolves: `View` has outputs only.
- Two calls of `Run` with one id may both pass the look-up and both start; the first
  job can then not be found.
- The type of an input is never compared with the one of the spec, and the outputs of
  a sequence not at all, nor those that a command reports as a whole step result
  (`executable_step.go:112`). Results of steps with one name replace each other.
- After an over-long line the rest of an output file is lost without an error.
- A dynamic reference is resolved relative to the directory of the process and not to
  the one of the document (`dynamic_step_resource.go:40`), and may lead to a dynamic
  reference again, without end. An expression in the path of a git reference is
  expanded without a view; no instance does this.
- A service hands its whole environment to jobs, `run` and `ci` filter it. A report
  that cannot be written is no error. The options of `run` are inserted in YAML as
  they are, so that an input gets the type that YAML gives its text.
- A process that dies during a clone can leave a repository that nothing repairs:
  every later `Get` fails. One whose clone fails removes a directory that others have
  opened; `GetReturnsTheVersion` excepts this. With depth 1 older commits are not
  found.
- A dist step whose copy failed half-way is taken for whole by the next `Fetch`;
  `FetchedStepsAreWhole` excepts this. `CleanUp` is only called by tests.
- A proxy "should exit immediately if either of the write or read loop finish"
  (`proxy.go:16`), but stays while stdin has neither data nor an end. A call of
  `FollowLogs` that never ends keeps `GracefulStop` waiting, and further signals are
  dropped.
- A platform that a build declares without files of its own gets no image. A shorter
  file of a platform over a longer common one keeps the tail of that for root, and
  fails for others. An error when asking for a tag counts as "not published". A
  promotion reads its source anew for each tag, and copies the image of linux/amd64
  alone after any error with the index. `fetch` does not authenticate.

## 7. What could follow

`PROJECT.json` says of each component whether it is modelled as a whole or in part, and
section 5 what is left out. The safety properties are proved except for the three about
documents. What is left:

1. A definition of consistent documents, as a type system over `Expression` and `Schema`
   would give, and from it the three properties of `steps_data` for all of them.
2. A model of the offset of a client that follows again, over `Streamer`.
3. What becomes of running jobs when `serve` ends.
