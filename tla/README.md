# A TLA+ development of bpt

`bpt` is a build tool and a package manager for C++ libraries. It builds
projects incrementally with the help of a build database, keeps *CRS
repositories* of packages, mirrors the package listings of remote repositories
in a per-user cache, solves for dependencies and fetches them.

The modules here are translated from the C++ sources under `src/src/bpt`
(below, paths are relative to that directory). TLC checks them on small
instances; TLAPS proves the most important properties for every value of the
constants. `PROJECT.json` lists components, runs, theorems and hazards, and maps
every definition to the lines it stands for.

## The system

| Part | State it keeps | Operations | Used by |
|---|---|---|---|
| `parallel_run` (`util/parallel.hpp`) | a shared iterator, a list of exceptions, one mutex | spawn workers, take an item, call back, record an exception, join | every build phase |
| Incremental compilation (`build/plan/compile_exec.cpp`, `build/file_deps.cpp`, `db/database.cpp`) | the build database: command and input times of each object; the object files | make tickets, compile, collect dependencies, record them in one transaction | `builder` |
| Build phases (`build/builder.cpp`, `build/plan/full.cpp`, `archive.cpp`, `exe.cpp`) | archives, executables | compile, archive, link, run tests | `bpt build`, `build-deps`, `compile-file` |
| CRS repository (`crs/repo.cpp`, `cli/cmd/repo_*.cpp`) | `repo.db`, `repo.db.gz`, `pkg/<name>/<version>~<revision>/` | import, remove, init, validate | `bpt repo` |
| Metadata cache (`crs/cache_db.cpp`, `cli/cmd/cache_util.cpp`) | remotes and packages in one SQLite database, the temporary table of enabled remotes | synchronise a remote, enable it, list packages | every command with dependencies |
| Package cache (`crs/cache.cpp`, `crs/remote.cpp`) | expanded packages in a directory | prefetch | builds, `repo validate` |
| HTTP pool (`util/http/pool.cpp`) | open connections by origin, the state of each | request, discard or save a body, abort | synchronisation, fetching |
| Solver (`solve/solve.cpp`) | none | the algebra of requirements, best candidate, requirements of a candidate | builds, `solve`, `repo validate` |
| Usage requirements (`usage_reqs.cpp`) | the graph of libraries | include paths, link paths, find a cycle | the build plan |
| Library plans (`build/plan/*.cpp`, `build/builder.cpp`, `sdist/root.cpp`) | none | which file is compiled, archived, linked, and where to | build phases |
| Subprocesses and signals (`util/proc.*.cpp`, `util/signal.cpp`) | the child, its pipe and timeout; one flag for signals | run, time out, cancel | compilers, linkers, tests |
| Migrations (`util/db/migrate.cpp`, `db/database.cpp`) | the schema version in each database | migrate on opening | all databases |
| Installation (`cli/cmd/install_yourself.cpp`) | the installed executable, the user's start-up files | place, put on the PATH | `bpt install-yourself` |
| Toolchains (`toolchain/*.cpp`) | none | read a file, built-in ones, make commands | builds, `compile-file` |
| Packages and projects (`project`, `crs/info`, `sdist`) | none | read `pkg.yaml` and `pkg.json`, write a distribution | all |
| Texts (`util/glob`, `fnmatch`, `shlex`, `name`, `libman`) | none | match, split, quote, parse | all |
| Command line (`debate`, `cli/options.cpp`, `cli/dispatch_main.cpp`) | none | parse, dispatch | `main` |

How they interact: a command synchronises and enables its repositories, solves,
prefetches, and builds. A build calls `parallel_run` once in each phase; its
callbacks start subprocesses, after each of which `cancellation_point` may
throw. The build database, the metadata cache and a repository are SQLite
databases that several `bpt` processes may have open at a time; next to the
last two lie files that no transaction covers. Cache and repository meet in
`repo.db.gz`, which the one writes and the other downloads.

What is hard here: worker threads that share an iterator, and pipes that their
children inherit from each other; inputs that change while a compiler reads them;
processes that die between a file operation and the transaction that describes
it; several processes, of several releases, on one cache, database or repository;
HTTP caching by ETag and max-age across all of that; and, in what is sequential,
formats that are written by one function and read by another.

What makes each part correct:

- `parallel_run` hands out every item at most once, hands out none after a
  recorded exception, returns only when no callback runs, and returns.
- An object that is skipped is the one that compiling now would make; a build
  that succeeds has linked nothing stale, and does not have to compile again
  what it compiled.
- A repository's table and files agree, and its published list contains what was
  committed.
- The cache never mixes two listings under one ETag, a `304` confirms what is
  cached, and nothing is taken as fresh beyond what a server allowed.
- A connection goes back to the pool only between two requests, and every request
  ends, whatever servers answer.
- A prefetched package is complete, and of a remote that lists it.
- A call of `run_proc` returns, with the output and status of its own child.
- A database is at the version that was applied to it, and what one build has
  recorded is there for the next.
- An installation that fails or dies leaves what the user had written.
- The algebra that the solver is given is one of sets of candidates.
- Archives come in an order that the linker can use, and no output file is
  written by two steps.
- Two things that differ are written differently (commands, ids, dependencies,
  distributions), and what is written is read back.
- A command line means the same in each way of spelling it.

## Modules

| Module | Models | Composed of |
|---|---|---|
| `ItemBatch` | the promise of `parallel_run` (abstract) | |
| `ParallelRun` | `parallel_run`, its caller and workers | refines `ItemBatch` |
| `CompileAll` | `compile_all` over many builds | uses `ItemBatch` for its batch |
| `Build` | `builder::build` | extends `CompileAll`; an `ItemBatch` for each later phase |
| `Repository` | a CRS repository directory | |
| `CacheSync` | the metadata cache | |
| `HttpPool` | `http_pool::request` and the life of its connections | |
| `RunProc` | `run_proc` by several threads at a time | |
| `Migrate` | `apply_db_migrations` by processes of several releases | |
| `BuildDbOpen` | opening the build database | |
| `Prefetch` | the package cache | |
| `Install` | `bpt install-yourself` | |
| `Solver` | what pubgrub is told | operators |
| `CycleSearch` | `find_usage_cycle`, call by call | extends `Usages` |
| `Usages` | the graph of what uses what, and what a cycle is | operators |
| `UsagePaths` | filling the map of libraries; `link_paths` and `include_paths`, call by call | extends `Usages` |
| `LibraryPlan` | what a library's files become | operators |
| `Toolchain` | toolchain files and commands | operators |
| `Manifest`, `License` | package files, distributions; SPDX expressions | operators |
| `Patterns`, `Words` | globs and fnmatch; shell words, names, ids, libman lines | operators |
| `ArgParser` | command lines | operators |
| `Components` | `RunProc`, `Migrate`, `BuildDbOpen`, `Prefetch`, `Install`, `CycleSearch`, `UsagePaths` side by side | extends the first, instantiates the others as `M`, `B`, `P`, `I`, `C`, `U` |
| `Algorithms` | questions to the algorithms, with inputs of any size | instantiates `Solver` and `LibraryPlan` as `Alg` and `Lib`, `Manifest` as `Man`, and `Words` |
| `ParallelRunProofs`, `BuildProofs`, `RepositoryProofs`, `CacheSyncProofs`, `HttpPoolProofs`, `RunProcProofs`, `ComponentsProofs`, `AlgorithmsProofs` | theorems | extend the module they are about |
| `MCComponents`, `MCAlgorithms` | the instances of the modules from `RunProc` on | `MCAlgorithms` extends `Algorithms`, `MCComponents` extends `Components` and `MCAlgorithms` |
| other `MC*` | finite instances | extend the module they check |

### ParallelRun and ItemBatch

`mut` is the mutex, `wpc[w]` the place of worker `w` in `run_one`, `iter` the
shared iterator. Each critical section is one or two actions: `Lock`, then
`Leave`, or `Fetch` and `Advance` (`auto&& item = *iter; ++iter; lk.unlock()`).
The callback runs without the mutex and ends by `CallReturns` or `CallThrows`;
an exception counts only when its worker has taken the mutex again (`Record`),
and other workers may take items in between. The caller holds the mutex while it
creates the workers. `ItemBatch` has no threads: items become running, ok or
threw, and the call returns when nothing runs and either all are ok or one threw.

### CompileAll and Build

`mtime[i]` identifies the version of an input by the time it was written (0: it
is gone). `object[o]` is what an object file was compiled from, `db[o]` what the
database says: the command, and for each input the *earlier* of its file time
when the batch was recorded and the start of the compilation. `Plan` makes all
tickets; `Begin`, `Skip`, `Compile` and `CompileThrows` are `handle_compilation`;
`RecordCommitted` and `RecordRolledBack` are the transaction at the end.

Around that the world moves: `Edit`, `Delete` and `Revert` change inputs at any
moment, `Cancel` is SIGINT (the handler sets a flag; `run_proc` throws after the
child has ended, so the object may have been written), `Killed` ends the build
and its compilers, whose outputs may be damaged.

`Build` puts the later phases on top: each enters a new batch (`Enter`), archives
(removing the old archive first), links, or runs tests. `archive_all` and
`link_all` throw when their batch failed, `run_all_tests` does not look.

Assumptions: file times are as fine as the clock (edits at even times,
compilations start at odd ones); one build at a time in an output directory,
which nobody else writes to during a build; a build reads its configuration
once. Not modelled: syntax-only compilations and `.syncheck` inputs,
`compile_files` on a subset, a build database that does not open, how
dependencies are parsed.

### Repository

`rows` is `crs_repo_packages`, `txn` the process in a write transaction, `tgz`
and `json` the files of each package directory, `gz` the published list. An
import goes through `Insert` (the transaction begins), `MoveTgz`, `CopyJson`,
`Commit`, `Vacuum`, `OpenGz`, `WriteGz`; a removal through `Delete`, `Unlink`
(file by file, in any order), `Unlinked`. `Crash` ends a process anywhere; its
transaction is rolled back, its files stay. `MoveTgz` overwrites, `CopyJson`
does not (that is what `copy_file` does without options).

`compress_file_gz` reads the database file without a lock and writes
`repo.db.gz` in place: the list is `Unknown` from opening until writing, and
remains so when somebody wrote to either file meanwhile (`torn`).

Assumptions: package names are left out (packages of different names share
nothing); SQLite's busy timeout never runs out; temporary directories of dead
imports are in nobody's way; opening a file for writing truncates it;
`repo init --if-exists=replace` runs alone (on POSIX, a process that has the old
database open would go on with a file that is no longer there).

### CacheSync

`server[u]` is what a URL serves now and the `Cache-Control` of its responses.
`remotes` and `packages` are the two tables of the cache, `prior` the ETag that a
process sends, `info` what it will note down. `NeverSeen`, `Revalidate` and
`AnswerFresh` read the prior information; `Request` is the exchange with the
server (304 when the ETag is that of the current content); `Touch` is the
`UPDATE` after a 304 or a fresh answer, *of every row*, as in the code; `Import`
is the transaction that replaces a listing. `Fail` covers errors of request and
import, with what `--repo-sync` says about them; `Enable` and `NoSuchRemote` are
`enable_remote`. Between any two of these steps other processes take theirs,
and `Publish` may change what a URL serves, its repository's name included.

Left out: the `Last-Modified` validator (as the ETag), the `Age` header (moves
the time of a response back), reboots (see below).

### HttpPool

The connections of one thread (`thread_local_pool`), so one request at a time.
`state` and `peer_disconnected` are the fields of `http_client_impl`; `open` and
`unread` are the peer: has it not hung up, and how much of a body nobody has read
yet. `Request` begins, `Reuse` or `Connect` is `client_for_origin`, then come
`SendHead` and `RecvHead`. `Answer` hands the client to the user; for errors and
redirects `Discard` reads the body inside of `http_pool::request`, and `Follow` or
`ThrowStatus` comes next. `UseBody` is `save_file` or `discard_body` of the user.
`Drop` is `~http_client`, called when the request is `Finish`ed and when an
exception unwinds (`SendFails`, `RecvFails`, `BodyFails`, `ThrowStatus`). An
assertion that fails leads to `aborted`. Inside of `http_pool::request` the client
has been default-initialised and, with copies elided, never moved, so its
`_n_exceptions` has no value: `Drop` may go either way.

Left out: TLS (part of connecting), the parsing of heads, what a body says. A
connection's name may be used again after it was closed, so two of them
suffice for any number of connections, with two origins: one connection is in use
and one pooled. `CacheSync` takes a whole request as one step that answers or
fails.

### RunProc

Each caller is a thread in `run_proc`: `Pipe`, `Fork` (or `ForkFails`),
`CloseWriteEnd`, then `ReadSome`, `TimesOut` or `ReadEnd` as `poll` answers,
then `WaitPid`, whose last step is the cancellation point. `holders[p]` is who has
the write end of the call's pipe open. The pipes are not close-on-exec, so a `Fork`
of one thread gives its child the write end of every pipe that bpt has open
at that moment; a pipe is at its end when the last holder has ended, which may
be somebody else's child. `leaked` remembers that this happened and `overdue` that a
call timed out after its own child had ended. A timeout is per `poll`: it is
armed until it fires once, and any output starts it again. `fork` answering -1 is
taken for a process: `kill` and `waitpid` of -1 reach every child.

### Migrate and BuildDbOpen

`Migrate`: `ReadVersion` is outside of the transaction that `BeginMigration`
starts, so between the two another process may migrate. Its migrations then
fail for the loser (`MigrationFails`), unless it has none missing: an older bpt
writes its own, lower number over the newer one (`setBack`).

`BuildDbOpen`: the build database from its opening to the end of the build, under
SQLite's locks for a rollback journal (`held`): many readers, one writer, whose
COMMIT waits until no other process reads (`MayRead`, `MayWrite`, `MayCommit`).
There is no busy timeout, so a statement that is refused a lock fails at once.
`ReadVersion`, `WriteVersion` and `Migrated` are the transaction of
`ensure_migrated`, which writes the version in any case. When it fails,
`database::open` takes that for a corrupted file: `MigrateFails`, `Remove`,
`Reopen`, and the second time `std::terminate()`. The other build goes on in a file
without a name. `Lookup` is `get_prior_compilation`: the statement of
`command_of` is stepped once and not reset, so a build that has found a record
(`reading`) holds a reader's lock while its compilers run and on until it ends,
and another bpt that starts meanwhile cannot commit its migration.
`BeginRecording` and `Recorded` are the transaction of `compile_all`, where
`BuildFails` leaves the exception to the command.

`session` are the builds that overlap, since one began alone; `kept` those
whose records must be there from then on. `collided` says that since then one of
them was refused a lock, or deleted a new database of another: `RecordsAreKept`
says that without it nothing recorded is lost and no build fails for the
database, and that it takes two builds that overlap. A build that begins
alone starts anew, with whatever earlier ones have left.

### Prefetch

`Choose` is `for_package` (the first entry of the version, whatever revision was
asked for), `UseExisting` the test `fs::exists(pkg_dir)`; otherwise `Fetch`,
`Download` (http) or not (file), `OpenArchive`, which makes the directory, and
`ExpandFile` file by file, in any order. `FetchFails` and `Break` end it anywhere,
and leave what is there. `disturbed` are the ids of which an expansion was cut off,
overlapped another or was looked at: `LoadsOneDistribution` says that there is
no other way for a build to load something else than one whole distribution.
Which remote is asked is stated by no property; see the findings below.
Listings are fixed here; `CacheSync` is about how they change.

### Install

One run after another of `install-yourself` with all its options: `Clear`,
`BeginCopy`, `EndCopy` or `MakeLink`, then each start-up file: `PassOver`,
`LeaveAlone`, or `Read`, `WriteTmp`, `Backup`, `Replace`. `ReplaceFails` and
`Restore` are the deferred action that moves the backup back; `Stop` is an error or
a death between two operations, `Killed` one between the two moves. The deferred
action looks for the file and then moves, in two steps. `Save` is the user's editor at
any moment: it adds a line, and makes the file when it is missing, between the two
moves or after a kill there. `exposed` has what such a save puts at risk: a line
that is saved between the moves is overwritten by the second; and a file that is
made anew after a kill becomes the backup of the next run, over what was saved
before. `UserFilesSurvive` is about all other lines. `self` is whether the running executable is still
whole: a copy onto a link to itself would truncate it.

### CycleSearch

`find_usage_cycle` as a machine, since its recursion is what has to be reasoned
about. `calls` are the libraries of the calls of `find_cycle` that have begun,
`mark` and `Onward` are `vertex_info::status` and `next`, `tried` how far the loop of each
call has come. `SearchFrom` is the loop over the map, `TryNext` one round of the loop in a
call, with the beginning of the call that it makes (`NoCycleBelow`, `MetAgain`, `GoBelow`),
`Return` its end, and `Chase` one round of the loop that recovers the cycle from what the calls have left
in `next`. The calls that return when a cycle was met change nothing and are no steps.

### UsagePaths

`Add` fills the map, library by library; `AskNext` is the loop of `link_executable_plan::link`,
or that of `generate_compile_command`, over what a target uses. `given` are the libraries
in the order in which their paths come in the result, once for each call;
`pending` are the calls of `link_paths` or `include_paths` that have not returned, with the place
of each in `given` and how far its loop has come. `LookNext` is one round of the loop in the last
call, with the beginning of the call that it makes (`Give`) or the exception (`Nonesuch`),
`Return` its end. Order counts for a link only: include directories are sorted afterwards. The
linker is given the object with `main` and the library's own archive before all of these.
`links` come from an index only, since `prepare_ureqs` leaves them empty.

### The algorithms

A state of `Algorithms` holds a `query`, one step answers
it, and each invariant evaluates the operators of a module on the queries of its
kind. `AlgorithmsSpec` allows every query of eight groups, as large as one likes
(`IsAlgebraQuery`, `IsPlanQuery`, `IsAskedQuery`, `IsCandidatesQuery`, `IsCommandsQuery`,
`IsTextQuery`, `IsPairsQuery`, `IsManifestQuery`: the types of their
inputs, that two libraries have no file in common, that packages are such as
`throw_if_invalid` lets through, and that arguments are not empty); `MCAlgorithms` asks
small ones, and those of all other kinds. A text is any sequence of `Characters`, among
which are those that the algorithms know (`MarksAreCharacters`). Where a property compares with a reference definition, that one is stated
without the algorithm: by quantification over all subsets closed under a
relation, all ways of cutting a text, all sets of candidates.

- **Solver.** A requirement is a set of versions and a set of libraries, or `All`.
  `Meaning` is the set of candidates it admits: intersection is exact, union
  loses nothing, difference keeps nothing that was to go. `BestCandidates` and
  `ClosedUses` are `best_candidate` and the loop in `requirements_of`.
- **LibraryPlan.** The kind of a source file from its name, the compilations,
  archive and executables of `library_plan::create`, the object, archive and executable
  paths, `compile_files` on a list of files, the `.lml` and include directories.
- **Patterns.** The run-time and the compile-time fnmatch, `glob` as a match and as
  a walk of a tree.
- **Words.** `split_shell_string`, `quote_command`, dependency listings, names and
  their reasons, package ids, libman's pairs.
- **Toolchain.** The keys of a file with their defaults, the templates of each
  compiler, `create_compile_command` and its siblings, the built-in
  toolchains, the search for a default file.
- **ArgParser.** The grammar of `options.cpp` as data (subcommands, switches,
  values they accept, required and repeated arguments), the parser, and what
  `dispatch_main` does next. `Rendered` writes down what is meant in each
  possible spelling and order; the parser must read that back.
- **Manifest, License.** `pkg.yaml` with shorthand and object dependencies, the
  package made of it (each library with the root's dependencies), `to_json`, reading
  it back, paths in their shortest form, `create_sdist_in_dir` with its errors for a library
  that is missing and a file that is copied twice; SPDX expressions, what they print and read.

Texts are sequences of characters only in `Patterns` and `Words`, where the
algorithms work on characters; elsewhere words and keys are atoms.

## Runs

| Run | Instance | Shows |
|---|---|---|
| `parallel_run` | 3 items; `n_jobs = 0` and one processor, so 3 workers | `TypeOK`, `OneWorkerPerItem`, refinement of `ItemBatch`, `EventuallyReturns` |
| `build` | 2 objects sharing a header, a library and a test that links it, 2 commands, 2 changes of inputs, 2 builds | `SkippedIsCurrent`, `SuccessLinksCurrentObjects`, `NextBuildSkipsWhatWasRecorded` |
| `build_interrupted` | as `build` | violated: `UpToDateIsCurrent` |
| `build_tests` | one build, no edits | violated: `SuccessMeansTestsPassed` |
| `repository` | 2 processes, one version with 2 revisions, 2 contents, 4 commands | `RowHasFiles`, `PublishesWhatItCommitted` |
| `repo_remove` | one process, 2 commands | violated: `RemoveRemovesAllRevisions` |
| `cache_sync` | 2 processes, a web server that may serve 2 repositories, a mirror, a directory; 3 commands, one publication, one tick | `PackagesMatchEtag`, `NotModifiedIsCached`, `FreshWithinSomeMaxAge` |
| `cache_fresh` | as `cache_sync`, smaller | violated: `FreshWithinItsMaxAge` |
| `http_pool` | 2 origins, 2 connections at a time, 2 requests, 2 redirects each, bodies of 2 parts | `PooledAreBetweenMessages`, `AssertionsHoldOtherwise`, `RequestsEnd` |
| `http_assert` | one request, one redirect | violated: `BodyFollowsHead` |
| `components` | one of the parts below, chosen in the initial state | the properties below |
| `command_line` | the command lines of `ArgParser` | violated: `ShortSwitchesAreParsed` |

The parts of `components` share no state. Which one runs is chosen first
(`part`), the others rest, so that their state spaces add up and do not multiply.

| Part | Instance | Shows |
|---|---|---|
| RunProc | 2 callers, one with a timeout; 2 chunks of output; one failing fork | `ReturnsOwnResult`, `TimesOutOnlyWhileRunning`, `EverythingEnds` |
| Migrate | an older bpt that knows one migration, 2 that know two; 2 openings each | `VersionIsWhatWasApplied` |
| BuildDbOpen | 3 builds, 4 files, of which one may be there before, in any state | `RecordsAreKept` |
| Prefetch | 2 processes, a web and a local remote with any listings, 2 revisions, 2 files | `LoadsOneDistribution` |
| Install | 2 start-up files of which one is required, 2 runs, 2 saves of 2 lines | `UserFilesSurvive` |
| Solver | requirements over 2 versions and 2 libraries; lists of 2 entries; graphs of 3 libraries | `AlgebraIsOfCandidates`, `RequirementsAreTheCandidates` |
| CycleSearch | maps of 3 libraries with up to 2 uses each, or one unknown | `CyclesAreFound`, `EverythingEnds` |
| UsagePaths | the same maps if they have no cycle, the first library linking the third in some; paths of 1 or 2 libraries, or an unknown one, for a link or a compilation | `UsedArchivesFollow`, `EverythingEnds` |
| LibraryPlan | up to 3 files of all kinds in 3 directories, all parameters | `OutputsAreDistinct`, `AskedIsCompiledOrMissing` |
| Patterns | patterns of up to 4 characters, texts of up to 3; globs of up to 3 components, trees of up to 3 files | `TextsMeanWhatTheySay` |
| Words | shell texts of up to 5 characters, commands of up to 3 arguments, names of up to 4, ids of up to 6, pairs | `CommandsAreTold`, `WordsAreUnderstood` |
| Toolchain | all options and up to 2 lists for each compiler; files that lack up to 2 keys; all built-in ids | `CommandsSayTheToolchain` |
| ArgParser | every subcommand with one option in every spelling and place, two for `build-deps` and `repo init` | `CommandLinesAreUnderstood` |
| Manifest, License | all shorthand texts of up to 5 words; manifests with up to 2 libraries, with paths of 7 kinds and a tree of 5 files; expressions of up to 6 pieces | `PackagesAreReadBack`, `TextsMeanWhatTheySay` (dependencies, licenses) |

`TypesOK` is the type invariant of the seven parts that have a state; `EverythingEnds` says
that every call of `run_proc` returns and that the searches among libraries end.

Why the bounds are enough. `parallel_run`: with three workers one can throw
while a second is in its callback and a third waits for the mutex; three items
leave one that must not be handed out. `build`: two changes are an edit during
the compilation and a revert after it; two builds are one that records and one
that relies on it; two commands are a switch and its return; two objects let one
compilation fail while the other succeeds, and a header of both relates them.
`repository`: four commands are an import that crashes, one that repairs, and a
concurrent pair. `cache_sync`: three commands of two processes overlap in pairs
with a third before or after; one publication makes the listings of two processes
differ, and one tick with `MaxAge = 0` separates fresh from stale. `http_pool`:
two redirects are there and back again, so that one is followed on a reused
connection, and the next is one too many; a body of two parts can be given up in
between; the second request finds what the first has left in the pool. What larger
instances could show beyond that is covered by the proofs. In `components`: two
callers are one whose child inherits the other's pipe; a third process besides
an older and a newer one lets the newer two race; three builds are two that
overlap and one that comes later or meets both, and four files are the first
database and one remade by each build; two fetchers with two remotes overlap on one
directory, with different sources; two runs are one that dies and one that
repairs, two saves one before and one during a run. Inputs of the algorithms are
as long as the longest rule that looks at neighbours plus one.

Symmetry is used where the members of a set are only compared with each other:
commands in `build`; processes and contents in `repository`; processes in
`cache_sync`. No run with a liveness property uses it. Deadlock is not checked:
every model comes to an end when its bounds are used up or its call has returned.

Fairness is assumed in five modules. `ParallelRun`: weak fairness of the caller and
of each worker, which says that threads are scheduled and callbacks return (compilers
and linkers end; a test has a timeout). A `std::mutex` promises no fairness and
none is assumed: a waiting worker may be overtaken, but every overtaking uses up
an item. `HttpPool`: weak fairness of the steps of the request, `RecvHead` included,
and of the server that closes a connection it has announced to close: servers
answer or hang up. The code has no timeout, so nothing ends a request to a server that
does neither. `RunProc`: weak fairness of each caller, and of the end of each
child (`EndsBySigint`): compilers and linkers end by themselves, a test need not
until it has been interrupted, but then does. A test that ignores SIGINT is
waited for forever, and nothing is claimed of it. `CycleSearch`, `UsagePaths`: weak fairness of
the search, which is one thread that waits for nothing; paths are asked for only when
the builder has found no cycle, and `UsagePaths` would not end with one.

Some invariants except states that the code can reach and that are reported below:
history variables remember how they came about (`unrecorded`, `raced`, `torn`,
`leaked`, `setBack`, `collided`, `disturbed`, `exposed`, and a failed `fork`).
The exception is then the finding and the invariant says that there is no other
cause.

## Proofs

Everything below is proved for any number of workers, outputs, processes and so
on; the assumptions on constants are the `ASSUME`s of the modules and those
named below, which the theorems state.

- **ParallelRun.** `IInv` adds to the properties who holds the mutex
  (`MutexHeld`: the caller until all workers exist, then a worker exactly while it
  is in a critical section), which item a worker has and in what state
  (`ItemInHand`), that exactly the items before the iterator have been handed
  out (`HandedOut`), and that a worker exits only at the end or after an exception
  (`WhyExited`). `OneWorkerPerItem` alone is not inductive: a step must know that
  the item at the iterator is in nobody's hands. The refinement maps `Fetch` to
  `Begin`, `CallReturns` to `Succeed`, `Record` to `Throw`, `JoinAll` to `Return`
  and all else to stuttering; that `JoinAll` may `Return` follows from `WhyExited`
  and `HandedOut`, as there is at least one worker.
- **CompileAll.** `SkippedIsCurrent` speaks of the present file times and is not
  inductive: a revert can bring any old one back. The invariant speaks of every
  time an input could have: versions of inputs have even times, starts of
  compilations odd ones (`Times`); for an object that waits to be recorded, each
  input is still the version that the compiler read, or gone, or newer than the
  start (`Unsaved`); a recorded time is the version read, or a start time, which
  no file ever has (`Recorded`). `Unsaved` is where `MoveOldFiles = FALSE` is
  needed: an older file that replaces an input after the compiler has read it is
  recorded as if it had been read.
- **Build.** Every step of `Build` is a step of `CompileAll` or a stutter, so
  `SkippedIsCurrent` carries over. `NextBuildSkipsWhatWasRecorded`: an input that
  nobody has touched since the build began is older than each compilation of it
  (`Untouched`; `SeenNow` says that what the build has seen includes the present),
  so that the earlier of file time and start, which is recorded, is the file time.
  That the record is then taken as up to date needs that `None` is
  no record (`NoneIsNoRecord`). `SuccessLinksCurrentObjects` is carried through the phases: a
  finished ticket has an object of its command and of versions that were seen
  (`TicketsCurrent`), a phase begins only when all items of the phase before
  are ok (`CompilePhased`, `StagePhased`), hence what is archived and linked is current
  (`StagesCurrent`). Skipped objects are current only while `SkippedIsCurrent` holds, so
  `MoveOldFiles = FALSE` is assumed here, too.
- **Repository.** `PackagesHaveTheirFiles` needs to know what each command is
  about to do: an import past `Insert` has no row yet and owns the files that it
  has put in place (`ImportsOwnFiles`); for a removal past `Delete` there is no
  row, and nobody imports that id unless it is in `raced` (`RemovalsOwnFiles`);
  what a command was asked for fits where it is (`JobsFit`). `PublishesWhatItCommitted`
  compares a list with the rows of an earlier moment: what was committed is
  in the database until the list is written, or taken off the record by who
  removes it (`CommittedAreRows`).
- **CacheSync.** `PackagesMatchEtag` is inductive because it includes that every
  package has the revision number of its remote: what is left of an older
  listing is then exactly what the final `DELETE` finds. It needs that what is
  imported came with the ETag of its content (`ImportsContent`).
  `NotModifiedIsCached` needs that a process since whose look nobody has imported
  sends an ETag that is cached under its URL (`AsksAboutCached`).
  `FreshWithinSomeMaxAge`: every time with `max-age` in the cache, and every one that
  a process is about to note down, was allowed by a server and is not
  later than what that one was last heard to allow (`Ages`), wherever the `UPDATE`
  without `WHERE` has copied it. Assumed of the constants: `None` is neither kind of
  `Cache-Control`.
- **HttpPool.** The state of the client is determined by where the request is, up to
  the assertion that may have failed (`StateFollowsStep`); nothing is unread
  before a head or after one that announces no body (`UnreadFollowsStep`); the head
  is kept until it is done with (`HeadIsKept`). `PooledAreBetweenMessages` alone
  says nothing of the connection in use, which is the one that will be pooled.
- **RunProc.** A pipe is held by bpt between `Pipe` and `CloseWriteEnd`, and by children
  that live (`HoldersLive`); another child than the call's own has it only if it
  was inherited (`OthersInherited`, hence `TimesOutOnlyWhileRunning`). So when a read
  meets the end, the own child has ended, and while no fork has failed
  nobody else reaps it (`ChildFollowsCall`).
- **Prefetch.** An expansion that nobody disturbs has its directory for itself
  and has filled it from one remote, except for what it has yet to do
  (`ExpandsAlone`); a directory that nobody is expanding is whole (`LeftWhole`), which
  is what `Load` finds. Assumed: `Absent` is no remote. One or two remotes are
  enabled in each process.
- **Migrate.** While nothing was set back, a transaction either has applied
  nothing, or exactly the migrations up to the last it has made
  (`WorksOnWhatIsMissing`): who read a version that is too low by now cannot apply
  anything. A version is the number of some release, 0 apart (`VersionIsOfRelease`),
  so that two releases are needed to set one back. Assumed: `Known` is a
  number for each user, and `NoUser` is none.
- **BuildDbOpen.** Until some collide, all that work on a database have the one at
  the path, but for one that has just found no database there, and only that is
  removed (`OneDatabase`). Records are in files of the current schema only
  (`FilesAreMade`), so that no migration can drop one. What is no database is removed once and does not
  come back (`GarbageGoes`), or else the second failure would end a build that is alone. Who is
  refused a lock, or finds another's database, is not alone (`SessionRuns`, `TakesTwo`).
  Assumed: `NoDbFile` is no file.
- **Install.** The property is not inductive: it would let a file that has the
  line be backed up over one that has it not. A file without the PATH entry, which
  is one that will become the backup, has all that was saved; one that has the
  entry has what its backup lacks; and for one that is missing, the backup is
  complete (`Kept`); all of that for what is `Safe`, not exposed. While a file is
  rewritten it is there until it is the backup, the new one has the entry, and a file
  that the user makes in that place has exposed all that was saved (`Rewriting`). A copy goes to a file and not to a link
  (`CopiesToAFile`). Assumed (`ShellFilesAreListed`): there is a start-up file, and `Gone` is no content.
- **CycleSearch.** The libraries that are being visited are those of the calls, each
  used by the one before (`CallsAreAPath`), so that one that is met again closes a
  cycle, which is the end of that path (`Recovered`). That nothing is missed: what a
  call has looked at has been visited (`LookedAt`), hence the visited libraries are closed under
  uses, and each has a closed set of visited ones with all that it uses and
  without itself (`VisitedAreDone`: the libraries visited before it returned). That set
  is why no one can reach it again. Assumed (`UsageMapsAreMaps`): names are ordered,
  and uses are sequences of names, known or not.
- **UsagePaths.** What the loop of a call has come to is in the result, behind what the call
  gave itself (`LoopsGiveLater`); a call that has returned has looked at all that its
  library includes (`ReturnedHaveGiven`), and at the end all have: so the libraries that
  come at or behind a given place contain all that is used from there. What is given is what
  is asked for or is reached from it (`GivenAreWanted`), or an error says what is missing
  (`WhatIsMissing`). Assumed: uses, links and what is asked for are sequences of names
  (`PlansAreSequences`). Cycles need not be excluded: who asks for one gets no answer.
- **Components.** `TypesOK` is the conjunction of the type invariants of these seven, each from
  the invariant of its part. Assumed in addition: one of the users' releases is the newest
  (`OneIsNewest`: the type of a version is the numbers up to it), which holds for finitely
  many users.
- **Algorithms.** What is not recursive is proved for inputs of any size, and of what is, the
  closure of usages, what is said of texts, and the shortest form of a path.
  `AlgebraIsOfCandidates`: a candidate is a version with the libraries that it
  has, and the one that has no more than what a requirement lists
  tells it apart from others. `OutputsAreDistinct`: a
  compilation is found again in its object path, as the directory
  of the file is what lies between that of the library and the last name, which only
  files of two roots share; an executable's path tells its kind, except for apps below `test`.
  `RequirementsAreTheCandidates`: each round of the loop stays within every closed set that
  has what was asked for, and either nothing is added any more or there are at least as many
  libraries as there were rounds (`RoundsGrow`), so that the number of the package's libraries is
  enough rounds (`ClosedUsesIsReached`). In place of induction, the first round
  for which this fails is taken (`LeastNumber`), and there is none. That some entry is the best of those
  that match follows likewise: take one before which no fewer of them come.
  `AskedIsCompiledOrMissing`: the rules of a compilation are those of the library
  that has the file.
  `CommandsAreTold`: a command is cut from its end, as the last argument is told from the
  text: within the quotes a quote is always escaped (`QuotesEscaped`), so no argument that is
  quoted is the end of another (`NoArgumentWithin`), and equal texts end with equal arguments
  and have equal beginnings (`PiecesAreTold`).
  `WordsAreUnderstood`: `split_shell_string` and a shell are in the same state after each
  character of a plain text (`PlainCharacter`); of the tests in `calc_invalid_name_reason`
  some one succeeds exactly for the names that are refused; the `@` and the `~` of an id are the first
  ones (`FirstOfJoined`); the text of pairs is split into their lines and nothing
  (`LinesAreSplit`), the key of a line ends at its only separator (`KeyEndsAt`), and trimming takes
  what was put between them (`TrimmedTo`). What is computed character by character is a recursive
  function, whose existence is shown the same way as everything else by `Upward`:
  what holds at 0 and after each step holds always.
  `PackagesAreReadBack`: whatever a directory's documents say, what is read of it is refused or is a
  package whose dependencies accept finite sets of versions (`DirectoryIsRead`). The
  intervals that `to_json` writes for such a set are in order and their union is the set
  (`IntervalsAreVersions`: the k-th lowest start exists, `NthIs`, and each start
  has a first end, `FirstEndIs`), so that each dependency, library and package is read as it was
  written, or refused exactly where `Writable` fails (`DependencyIsRead`,
  `LibraryIsRead`, `PackageIsRead`). A path in its shortest form goes up only at its beginning
  (`NormalIsShort`), and such a path is its own shortest form (`ShortIsNormal`), hence a library
  has the same sources where the distribution says it is (`SameSources`), and one that has a
  source is reached there (`SourcesAreReached`), which makes the second distribution
  the same as the first (`DistributionIsReadBack`).
  Assumed: `All` is no list of libraries (`AllIsNoList`), what is refused is no list of
  pairs (`InvalidIsNoList`) and nothing that is read (`RefusedIsNoInfo`), a key that is missing is
  none that is there (`NotGivenIsNoText`), the characters with a meaning are `Characters`, and
  two libraries of a plan share no file (a file is in one package, and libraries
  of one package have directories of their own).

Only model-checked, and why:

- `EventuallyReturns`, `RequestsEnd`, `EverythingEnds`: liveness under fairness.
- `TextsMeanWhatTheySay`, `CommandsSayTheToolchain`, `CommandLinesAreUnderstood`: what
  folds and recursive operators over texts, lists and syntax compute has to be shown by
  induction over the data.

## What disagrees with the code's own word

Six runs expect a violation; `PROJECT.json` quotes the lines.

- **Interrupted builds.** Object files are written before the transaction that
  records them. Compile with command A; switch to B and interrupt after the
  compiler ran; switch back to A: the object of B is taken as up to date. The
  same with a damaged object of a killed compiler. All other properties of
  builds except such objects (`unrecorded`).
- **Tests that throw.** `run_all_tests` drops the answer of `parallel_run`: a
  test that was interrupted by a signal to bpt is not among the failures, and the
  build succeeds.
- **`bpt repo remove`** deletes the rows of all revisions but the directory of
  revision 0, which no package has. The files that stay make a later import of
  the same id fail, since `copy_file` does not overwrite `pkg.json`.
- **Freshness.** The `UPDATE` after a 304 has no `WHERE`: one remote's time and
  `Cache-Control` are written to all, and a remote whose server forbids caching
  is used without asking. `FreshWithinSomeMaxAge` is what does hold.
- **Empty bodies.** `recv_head` sets the client `ready` when `Content-Length` is 0, and
  `_make_body_reader`, which everybody calls next, asserts that it is not. A
  redirect or an error without a body ends the program where assertions are
  compiled in. `AssertionsHoldOtherwise` says that there are two more such causes:
  a body that HTTP/1.1 delimits by closing ("Unimplemented"), and the
  uninitialised `_n_exceptions`.

- **Short options.** When the last member of a group of short options is a
  switch, `_try_parse_short` falls out of its loop "having parsed the full group" but does
  not go on to the next argument: `bpt build -NDR` is refused. (`-NDR` is the whole
  short spelling; there is no `-N`.)

Noted on the way, without a run, in the modules named:

Concurrent and failing steps (`Repository` to `Install`):

- The exception in `RowHasFiles` (`raced`): `remove_pkg` deletes the row first and
  the files later, outside of any transaction; another process may import the
  id in between and lose its new files.
- An import that dies between `copy_file` and its commit leaves a `pkg.json` that
  makes every later import of that id fail.
- `resource_time` is a `steady_clock` time in a persistent database (the comment
  in `crs/cache_db.cpp:63` says system time): after a reboot, cached data may be
  fresh for as long as the machine was up before.
- A URL whose repository changes its name leaves the row of the old name, with the
  same URL, and `enable_remote` enables both.
- A connection that is lost within a body of known length looks like the end of the
  body: `recv_plain_state` reports it as ready, the short file is taken, and the
  dead connection is pooled and fails the next request, which is not retried.
- A client whose `send_head` throws is still `ready`, so its broken connection goes
  back to the pool and is what the next request to that origin gets.
- `enable_remote` reports an unknown URL when the remote is enabled already.
- A child inherits the pipes of others: a test that ended in time is reported as
  timed out when another thread's child holds its pipe. A test that exits with 0 on
  SIGINT counts as passed. `proc.hpp:35` says that a timeout of zero waits forever; it
  times out at once. `kill` and `waitpid` of -1 follow a failed `fork`.
- An older bpt can write its schema version over a newer one's.
- A build database that is locked is deleted, under the build that has it open;
  the lock of a build that only compiles suffices (`db/database.cpp:219-239`), once it has
  found one record. A build whose lookup or commit meets a lock fails. When the
  new database is locked too, `std::terminate()` is called.
- `prefetch` asks the remote that comes first among those that list the version, also for
  a revision that it does not list: the command fails, although a later remote has that
  revision. A directory that is there is used although no remote lists the revision.
  `crs/cache.hpp:46-54` says that it throws when no enabled remote has metadata of the package.
- What the user saves in a start-up file between the two moves of `fixup_user_path`
  (`install_yourself.cpp:225-227`) is lost; and if the command was killed there and the
  user has made the file anew, the next run's backup replaces the earlier text.
- A package directory half expanded by a process that died, or that still is at it,
  is used; two remotes that have one id share a directory, and their files may mix.

Packages and the solver (`Solver`, `UsagePaths`, `Manifest`, `License`):

- `requirements_of` reads the first listed entry of the version, not the candidate
  that was chosen. `All` gives way on the left of a union of usages only.
- Cycles through `links` are not looked for.
- A trailing comma (`a using b,`) dereferences an errored result
  (`crs/info/dependency.cpp:98`). `docs/tut/hello-test.rst:72` writes `for test`,
  which `from_shorthand_string` refuses.
- `to_json` asserts that no dependency leaves open what it uses
  ("This should never occur"), but `pkg create` gets there with any `catch2@2.13.7`;
  without assertions an empty list is written. `resolve_implicit_usages` does
  not resolve test dependencies, on which `build/plan/library.cpp:80` asserts.
- In an object, an empty `using` means all libraries.
- `versions: []` and paths outside of the directory are accepted in `pkg.yaml` but
  refused in the `pkg.json` made of it, after sources have been copied.
- A directory without a source is not copied (`sdist/dist.cpp:44-62`): a distribution of
  which some library has none may have no such directory, and a distribution made of that one fails.
- Names of `lib` and `libs` are not compared for duplicates.
- SPDX: `WITH` is never accepted, a group in parentheses must end the expression,
  `MIT +` is refused (`project/spdx.cpp:135-165`).
- Of package ids, what follows the revision number is ignored, and negative
  revisions are accepted.

Outputs and commands (`LibraryPlan`, `Toolchain`, `Words`, `Patterns`):

- Headers of one relative path in `src/` and `include/` share one `.syncheck` record;
  an app in `src/test/` and a test of one name share an executable path, and so do
  `a.main.cpp` and `a.main.c`; an app called `lib<name>.a` takes an archive's path.
- `archive_prefix`, `obj_prefix` and `exe_prefix` have no effect (`archive.cpp:18` writes "lib").
- `.C` is compiled as C.
- The toolchain's hash is recorded in builds, never compared; commands are, and
  they change with what a file asks for.
- Built-in ids take `debug:`, `ccache:` and `c++NN:` only in that order, and suffixes only from
  `-7` to `-13`. A launcher is not used for linking. With `c_compile_file` given, its words
  are not checked for placeholders.
- `quote_argument` does not keep the backslash it means to add, but two commands
  still never have the same text, unless an argument is empty.
- A quote within a word discards what precedes it (`shlex.cpp:48`), against
  `docs/guide/toolchains.rst:189`. `SplitsLikeAShell` holds for plain words.
- `glob` does not always descend after `**` (`glob.cpp:113`), and `**/**` throws. The
  run-time fnmatch does not negate `[!...]`, the compile-time one does. Only tests use either.
- libman's `read_check_eq("Type")` is never reached; a `.lml` that `build-deps` writes
  lacks the lines that `library.cpp:16-21` requires.

Command line (`ArgParser`):

- `pkg ls` is offered (`options.cpp:273-276`) and documented
  (`docs/guide/pkg-cache.rst:16`), but the enumeration has no such member, and it is
  refused (`NotEnumerated`). `options.hpp:209` says of `repo init` that a name is made
  up if none is given; `options.cpp:389` requires one (`NameLeftOut`).
  `CommandLinesAreUnderstood` excepts both by name, says that they are refused, and that
  every other command line is parsed as it is meant, apart from the short options above.

## Plan

Done, in the order of importance: `ItemBatch`, `ParallelRun`, `CompileAll`,
`Build`, `Repository`, `CacheSync`, `HttpPool`; then `RunProc`, `Migrate`,
`BuildDbOpen`, `Prefetch` and `Install`; then the algorithms; and the proofs
named above.

Next: `CommandsSayTheToolchain` with recursive functions in the place of folds, as in `Words` and
`Manifest`, and by a least counterexample; `TextsMeanWhatTheySay` needs the matchers of patterns
as functions of positions.

## Not modelled

- The wording of errors and warnings, help texts, suggestions for misspelled keys,
  colours, progress output, `compile_commands.json`: pure output.
- The text formats themselves (YAML, JSON, JSON5, the CMake files that `build-deps` writes):
  libraries, or templates that no property is about. Documents are modelled as
  records with keys of the right types.
- `error_handler.cpp`: maps exceptions to exit codes and messages; no state.
- `new`, `repo ls`, `pkg search`, and the glue in other commands that calls the
  operations above one after another.
- The Windows counterparts of the POSIX code.
- The search of pubgrub, SQLite and the neo libraries, which are modelled
  by what the code relies on: a solver is given an algebra, transactions are
  atomic, an iterator moves.

## Checking it

    tlc -config MCBuild.cfg MCBuild
    tlapm BuildProofs.tla

and likewise for the other modules.
