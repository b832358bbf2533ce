# just-git in TLA+

A verification project for just-git: a git implementation in TypeScript whose
client runs on a virtual file system, whose server keeps repositories in a
pluggable storage backend, and whose platform layer adds pull requests. The
modules here model the server and the platform, where several actors share
mutable state; the client's repository, where many commands share state files
and must never lose the user's work; and the algorithms both are built from.

## 1. The system

| Component (under `src/src`) | State | Operations | What is hard |
|---|---|---|---|
| receive-pack: `server/operations.ts`, `server/handler.ts` | objects and refs of a repository; per request: commands, verdicts, inserted objects | advertise, ingest, hooks, per-ref compare-and-swap, rollback, announce | every `await` lets another request in; objects are stored before the hooks decide; verdicts age |
| in-process writes: `handler.ts` (`commit`, `updateRefs`), `repo/writing.ts` | the same refs and objects | build a commit object by object, resolve old values, swap | no hooks, no policy, no rollback; several refs, one at a time |
| gc: `server/gc.ts` | a snapshot of the refs, the reachable set, the doomed set | snapshot, walk, list, look again, delete | races with every writer; there is no lock |
| server life cycle: `handler.ts` | `closed`, `inflight`, the drain promise | `enter`, `leave`, `close` | promises that are returned without `await`; repeated close, abort |
| upload-pack and `PackCache`: `operations.ts` | cached packs, hidden refs | ls-refs, negotiate, build or stream a pack | the refs, the request and the walk are read at three times; stale entries; shallow boundaries |
| forks and repositories: `server/storage.ts`, `*-storage.ts` | repositories, their parents, two partitions per fork | create, delete, fork, push, collect, read through | check-then-act across awaits, gc of a root with live forks |
| SSH: `server/ssh-session.ts` | what was read of a request, haves, common commits | fetch (versions 0 and 2), push | two ends that wait for each other; a channel that closes anywhere |
| platform: `platform/*.ts` | pull request records in SQLite, `refs/pull/N/head` | create, push hook, close, merge | records and refs change at different times; hooks overtake each other |
| client fetch and clone: `commands/fetch.ts`, `clone.ts`, `lib/fetch-helpers.ts`, `lib/shallow.ts` | refs, objects, `.git/shallow` | fetch, clone, deepen, prune, follow tags | cut off between any two writes |
| client transports: `lib/transport` | none between calls | fetch, push, in process or over HTTP | the refs were seen earlier |
| ref store, reflog: `lib/refs.ts`, `lib/reflog.ts` | loose and packed refs, queues of swaps | read, write, delete, pack, swap, expire | read-compare-write over several files |
| object store, packs: `lib/object-store.ts`, `lib/repack.ts`, `lib/pack` | loose objects, packs, indexes | read, write, repack, prune; deltas, pack and index formats | order of writing and unlinking; limits of the format |
| wire: `lib/transport/*.ts`, `server/protocol.ts` | what is left of a chunk | write and read packets, requests, reports | cuts anywhere, lengths at the limit |
| unpack-trees: `lib/unpack-trees.ts` | none: index, files and trees are its arguments | one-way and two-way tables, preconditions, application | many cases, protection spread over table, precondition and caller |
| working copy: `commands/*.ts`, `lib/operation-state.ts` | branches, HEAD, index, files, `MERGE_HEAD`, `CHERRY_PICK_HEAD`, `REVERT_HEAD`, messages | merge, cherry-pick, revert, continue, abort, skip, commit, reset, switch, add, restore | long sequences of legal commands; state files of one operation met by another |
| rebase: `lib/rebase-engine.ts` | the files of `.git/rebase-merge`, `REBASE_HEAD` | start, pick, continue, skip, abort, finish | written one by one, read after a crash |
| stash, bisect, worktrees: `lib/stash.ts`, `lib/bisect.ts`, `lib/worktree-admin.ts` and their commands | the stack; the marks; the admin directories and HEADs | every subcommand | half-done pops; wrong answers; branches held elsewhere |
| merge engine: `lib/merge-ort.ts`, `rename-detection.ts`, `diff3.ts`, `diff-algorithm.ts`, `blame.ts` | none | merge trees, renames, directory renames, texts, virtual bases | phases that settle the same paths |
| history and names: `lib/commit-walk.ts`, `rev-parse.ts` | none | walks by date, topological order, describe, `~ ^ @{}` | dates that run against the graph |
| patterns: `lib/wildmatch.ts`, `pathspec.ts`, `ignore.ts` | none | match a path | short cuts that must not show |
| other commands, argument parsing, repository API, HTTP proxy | none of their own | call the above | wording |

Components interact by calls. The transports, SSH and the in-process API call
the server's operations, those call a `GitRepo` (an object store and a ref
store), whose adapter calls the storage backend; hooks call back, and the
platform is a set of hooks and calls around a server. All shared state of a
server is in the storage backend, and the only synchronisation is that each of
its operations is atomic. A client's commands share the files under `.git`.

What has to be right:

* receive-pack: no ref ever names an object that is not stored; policy holds at
  the moment of the swap, not of the check; an answer tells the truth; what was
  refused is gone and what others use is not; moves are announced.
* in-process writes: a commit never overwrites another writer's.
* gc: nothing live is deleted, everything dead is.
* life cycle: nothing enters after close, close returns, and not too early.
* upload-pack, fetch, clone: a client has all that its refs reach, up to its
  boundary, wherever it was cut off and whatever the server did meanwhile.
* forks: what a fork reads from its root stays there.
* SSH: the two ends stay in step, and a session ends.
* platform: records and refs agree, what is merged is what was approved, and a
  merge loses nothing.
* client storage: a stored object stays readable, a ref reads as last written.
* working copy, rebase, stash: no command loses what git does not have, abort
  gives back what was there, a pending operation is concluded or given up,
  never forgotten. bisect names the culprit. A branch is in one worktree.
* algorithms: what is written is read back; a merge takes what each side did;
  no short cut changes an answer.

`PROJECT.json` lists the places in the code where each of these could break.

## 2. The modules

Server and platform:

| Module | Models | State and actions |
|---|---|---|
| `GitObjects` | reachability, `isAncestor` | no state: the graph is a constant (an object's hash fixes what it points at), walks are least fixed points over it |
| `ObjectWalk` | `lib/transport/object-walk.ts`, `computeShallowBoundary` | no state: what a walk of wants and haves emits, with boundaries of shallow histories |
| `ReceivePack` | `ingestReceivePack`, `buildRefUpdates`, `applyReceivePack`, the policy hooks | `objs` and `refs` are the partition of one repository; the other variables are the local variables of each request. One action per stretch of code between two awaits |
| `AtomicRefs` | what a push promises | independent compare-and-swaps with an answer each |
| `ReceivePackRefinement` | the refinement mapping | the answer a client can conclude from the state of its request |
| `GitServer` | `commit`, `updateRefs`, `gcRepo` beside `ReceivePack` | `j...` are the local variables of an in-process call, `gc...` those of the collector |
| `ServerLifecycle` | `enter`, `leave`, `close` | the four variables of the closure in `createServer`, and where each caller is |
| `PullRequests` | `Platform`, `executeMerge`, the postReceive hook | `pr` are the rows, `pull` the `refs/pull/N/head`, `refs` the branches |
| `Fetch` | upload-pack with `PackCache`, `fetch`, `clone`, `applyShallowUpdates`, tag following, pruning | `s...` and `cache` are the server, `c...` the client's files, the rest the local variables of its command: one action per await, and `Lost` for being cut off |
| `Repositories` | `createRepo`, `forkRepo`, `deleteRepo`, pushes and `gc` over the tables of the three kinds of backend | `repos`, `objs`, `refs`, `head`, `parent` are the tables; a call has its local variables and a step per statement or transaction, as its backend has them |
| `SshSession` | `server/ssh-session.ts` and `runPush` | the channel both ways, the server's reader line by line, a git client (external) that may hang up anywhere |
| `Serving` | `ServerLifecycle`, `Fetch` and `SshSession` side by side | the variables of the three, and `part`, the one a behaviour is of |
| `Wire` | `pkt-line.ts`, `smart-http.ts`, `protocol.ts`, the report and its readers | no state: writers and readers, whole and streaming |

The client:

| Module | Models | State and actions |
|---|---|---|
| `UnpackTrees` | `onewayMerge`, `twowayMerge`, `unpackTrees`, `checkoutTrees`, `resetHard`, `mergeAbort` | no state: tables and their application, path by path |
| `WorkingCopy` | merge, cherry-pick, revert, reset, checkout, commit, add, restore | `commits`, `branch`, `head` are the repository, `index` and `wt` the index and the files, `op` the state files. One action per outcome of a command |
| `Rebase` | `rebase-engine.ts`, `commands/rebase.ts` and the commands a user runs in between | `rb` is `.git/rebase-merge`, `Torn` while files of it are missing; `mem` the state as the process has it; `pc` its place, with a step per write, so that a crash may come between any two |
| `Stash` | `lib/stash.ts`, `commands/stash.ts` | the stack is the reflog of `refs/stash`; push, pop and drop write in the code's order |
| `Bisect` | `lib/bisect.ts`, `commands/bisect.ts` | the refs under `refs/bisect` and the state files; `honest` is a ghost: were all marks true |
| `Worktrees` | `worktree-admin.ts`, `commands/worktree.ts`, the checks in `branch`, `switch`, `checkout` | `admin`, `gitdir`, `link` are both ends of the gitlink; `head` and `rebasing` are per worktree; users move directories by hand; `shared` is a ghost: branches taken while others have them, where the code asks nobody |
| `LocalRepository` | `refs.ts`, `reflog.ts`, `object-store.ts`, `repack.ts`, `commands/gc.ts` | loose and packed objects and refs as files; swaps, deletions (of several refs at a time) and a gc go file by file, and `packed-refs` is read and written in different steps; `raced` is a ghost: the refs the code may lose or bring back |

The algorithms, as operators without state:

| Module | Models |
|---|---|
| `Diff`, `Diff3` | the line diff with its heuristics (trimming, discarding, snakes, cost limit, sliding), hunks; the three-way merge of texts |
| `Blame` | `lib/blame.ts` over `Diff` and `Renames` |
| `Packs` | deltas, the choice of bases, pack files read whole, streamed and by index, thin packs |
| `Renames`, `MergeOrt` | rename detection; the recursive merge of trees with renames, directory renames, modes and virtual bases |
| `History`, `Revisions` | walks by date and in topological order, counts, ranges, describe, merge bases; names of revisions |
| `Patterns` | wildmatch, pathspecs, ignore rules |

`GitServer` extends `ReceivePack`, which extends `GitObjects`: the collector and
the in-process calls act on the same `objs` and `refs`. `Fetch` extends
`ObjectWalk`. `PullRequests` takes a push as one atomic swap, which is what
`ReceivePackRefinement` shows of it. `WorkingCopy` extends `UnpackTrees`;
`MergeOrt` extends `Diff3` and `Renames`. The modules that end in `_proofs` hold
theorems, those that begin with `MC` the instances that TLC checks.

`Serving` and `Stores` put several of these systems in one run each, and a
behaviour stays in the part that the variable `part` names. The parts that
theorems are about are extended, with their own variables (`ServerLifecycle`,
`Fetch` and `SshSession`; `Repositories` and `LocalRepository`), so that the run
checks the very definitions that are proved. The variables `s1`, `s2`, ... of
`Stores` stand for those of its other parts (`INSTANCE ... WITH`). The systems of
one such module share no state; the run asks the questions of all of them.
`MCServing` and `MCStores` are the instances that TLC checks: theorems are about
`Serving`, `Stores` and their parts. `MCGitServerGc` does the same with two ways
to deploy the collector.

Operators whose comment begins with "Mutant" are the code with a plausible bug.
None is used by a model; with one of them in the place of the definition it is
named after, a property of a run fails. `PROJECT.json` lists one for each
property; where a property is a conjunction, further ones show that the other
conjuncts can fail as well.

How the code is read:

* A step is the code from one await that may yield to the next. Storage
  operations are atomic, as every backend makes them; `compareAndSwapRef` is one
  step because it runs inside `atomicRefUpdate`. Where a backend splits an
  operation into statements (`deleteRepo` on PostgreSQL), so does the model; the
  four statements of SQLite run without an await between them, so that only the
  end of the process comes between them (`CutOff`).
* Hashes, trees and file contents are model values with a graph over them. A
  pack is a set of objects: those that the new values reach and the old values
  do not, as the clients compute it. `Packs` and `Wire` are about its bytes.
* Requests that fail to parse, limits and corrupt packs are one action: the push
  is refused before it changes anything.
* User hooks may refuse anything (`RejectPush`, `Decline`) or throw (`Throw`),
  the policy's own hooks are modelled exactly (`PolicyRejects`,
  `PolicyDeclines`). `Hidden` is what an `advertiseRefs` hook may hold back.
* `Throw` is also the death of the process: nothing in memory matters after it,
  and what is stored stays.
* In `SshSession` a storage or hook that throws ends the session with code 128
  (`ssh-session.ts:177`), at a batch of haves, at the pack or within a push, and
  what was taken until then stays taken. The lines of a pack are one line, so a pack that
  breaks off midway is not modelled.
* In `PullRequests` a commit is its id with the ids of its history. SQLite is
  synchronous, so a record and the ref written right after it change together.

And of the client:

* A user runs commands one after the other, so in `WorkingCopy` a command is one
  step with all its writes. A command that refuses before it writes anything is
  no step; one that refuses after a write (a merge restores staged additions,
  drops `REVERT_HEAD` or the message) is. Failures between two writes of a
  command (a missing identity, a hook that says no) are outcomes of their own.
  `Rebase`, `Stash` and `LocalRepository` have a step per write, as they are
  about what a crash or another process finds.
* In `Rebase` every file of `.git/rebase-merge` that decides whether a command
  reads the state at all counts as one (`Torn` until the last of them is there);
  `todo` and `done` are written apart, as are HEAD, the branch, the markers and
  the clean-up. A write of a file is atomic, and the index and the files under
  version control change in one step: what a crash in the middle of a checkout leaves
  is what `git reset --hard` is for (`Resolve`). While a process runs, no other
  one does; the user, and commands elsewhere that move branches, come in when it has
  stopped or was cut off.
* In `Worktrees` commands are one step each, and those of different worktrees
  run one after the other.
* In `LocalRepository` a process looks at the files whenever it reads an object.
  The lists of packs and the readers that `PackedObjectStore` remembers
  (`object-store.ts:240`) are left out: a process that holds a list
  from before a repack of another one may miss what has moved into the new pack.
* Hash and mode of a file are one content; a path with conflict stages is
  `Unmerged`. What a content merge yields is a free choice of merged, marked or
  left (`Outcomes`); modify/delete always conflicts. `Rebase` has trees as sets
  of files, some pairs of which clash.
* `undo` is a ghost: the files as they were before a conflict, for the paths
  nobody has touched since. `Mine` is what the user writes.
* In `WorkingCopy` HEAD is on a branch, paths are not prefixes of each other, a
  merge has one base. Renames, submodules and sparse checkouts are left out, and
  so is `ORIG_HEAD`, which none of these commands reads.
* The algorithms keep the code's order of decisions; sizes that are constants of
  the format or of a heuristic (16-byte blocks, 64 KiB copies, 65520-byte
  packets, the 50 % of a rename) are CONSTANTS and small, so that both sides of
  each limit are within the bounds. A byte, a chunk or a line is a number.

## 3. The runs

All model values are told apart, and symmetry is used only in `Stores`, where a
permutation exchanges the two calls, refs, branches, paths or callers of a part
that no definition names. Deadlock is not checked in any run: a user, a client or
a caller may stop, and the bounds end the work.

| Run | Question | Result |
|---|---|---|
| `ReceivePack_safety` | two pushes with policy, a hidden tag, hooks that refuse and throw: types, complete refs, exact rollback, policy, announcements, refinement of `AtomicRefs` | holds |
| `ReceivePack_policy` | does `denyNonFastForward` with `denyDeletes` leave only fast-forwards, with overlapping packs and a hidden branch | holds |
| `ReceivePack_rollback` | is the rollback of a refused push harmless when packs overlap | violated |
| `GitServer_gc` | a push, `commit`, `updateRefs` and the collector: is what the refs reach stored, is a collection exact, do commits only extend | holds |
| `GitServer_recheck` | does a change up to the deletion that makes a doomed object live abort the collection | violated |
| `PullRequests_merge` | records, pull request refs, approval and finality of merges, step by step | holds |
| `PullRequests_race` | does a merge keep what the base branch has | violated |
| `WorkingCopy_operations` | is work kept, does abort restore, are pending operations remembered, do index and files agree | holds |
| `Serving` | admission and drain; an SSH session with a client that may die; fetches and clones with depth, tags and pruning through the pack cache | holds |
| `Stores` | forks on every backend; loose and packed objects and refs; worktrees; a rebase, a stash, a bisection, with crashes between two writes | holds |
| `Algorithms_inputs` | does every algorithm compute what it has to mean, over all inputs of a bounded size | holds |
| `Algorithms_worktree` | does a path that both sides added show both of them in the worktree | violated |

What a run asks is stated with the property: the properties are at the end of
each module, those that combine parts of `Serving`, `Stores` and
`Algorithms` at the end of `Serving`, `Stores` and `MCAlgorithms`.

### Bounds, and why they are enough

* `ReceivePack_*`: two pushes, each has only its request's state and they meet
  in the store, so that two show what goes wrong between any two. Five objects
  give a line of commits, a fork of it and a shared blob; each push may go to
  two refs with values of its own choice.
* `GitServer_gc`: one push, one commit, one `updateRefs`, and `MaxGc` two
  collections where gc is left alone, so that the second finds what the first
  and the failures left. Where gc races with everything (`alone = FALSE`), one
  branch that may go back to where it was and one collection.
* `PullRequests_merge`: `MaxPr` two records of one branch, so that a hook has a
  list to work through, two merges with different strategies, two creations, one
  push with its hook. The theorems of section 5 have no bounds.
* `WorkingCopy_operations`: two files, one of which `.gitignore` names, and two
  branches that diverged: both changed a file and one adds the ignored one, or
  one deletes the file the other changed. `MaxCommits` four leaves room for one
  new commit, `MaxWork` two for two edits, resets, picks or reverts; merges,
  aborts, switches and staging are not counted. That is enough for an operation
  to meet the leftovers of another one and local work at once.
* `Serving`: four operations of the three kinds and two calls of `close()`; two
  refs, `MaxHaves` three haves in windows from `FirstWindow` one on, the command
  limit at five and out of reach, so that a batch is full, partly full and empty;
  a server with a branch that is extended and forced back, one that comes and
  goes and a tag, `MaxPushes` two, `MaxCalls` three, depths one, two and
  unlimited, and a cache of `MaxBytes` seven, which holds two packs at most.
* `Stores`: three names of repositories and four calls, two at a time, on each
  of the three kinds of backend; on disk two objects one of which reaches the other,
  two refs, two callers, `MaxOps` four things that commands begin and `MaxGcs` two
  collections, one after the other (collections side by side are covered by the theorem
  alone); two branches and two paths, the main worktree and one linked one at a time,
  which is two that can hold one branch; a rebase of four
  commits one of which changes nothing and one clashes, with `MaxSteps` three
  for what the user does in between and for processes cut off, so that a command is
  cut off, run again and cut off again, beside a step of the user; two stash entries
  of two files and two edits; a history of six commits with a merge and three marks
  beside those of `bisect run`.
* `Algorithms_inputs`: a state is an input, made in two steps, and looked at by
  the third. Texts of up to three lines over three, and longer ones with lines
  that have many partners; bytes that are bits, in strings of five and of twelve;
  packs of three objects; patterns of up to four characters (six for stars)
  against paths of three (five); all histories of four commits with dates in and
  out of order, one of them shallow; three deleted and three added files of
  seven contents; merges of trees with up to two files each in two directories,
  with every mode, and criss-crosses; requests, answers, advertisements and
  reports in chunks of one byte, three bytes and all. Every constant of a format
  or heuristic is set so that both sides of its limit occur.

The sets `Client`, `Job`, `Caller` and `Collector` bound who acts; `MaxOps`, `MaxGcs`,
`MaxStash`, `MaxEdits`, `MaxMarks`, `MaxSteps`, `MaxTrees`, `MaxTwins` and
`MaxCommit` cap what a user or a process begins, never what it finishes.

### What is left out by assumption

Some promises hold only on conditions that the code does not enforce. Each is a
constant or a predicate with a name, so that a reader can see what depends on it,
and each was found by the run failing without it.

* `Overlap = FALSE`: no two unfinished pushes bring a common new object, and no
  in-process call asks for one a push may still take back.
  `ReceivePack_rollback` is what happens otherwise.
* `GcAlone = TRUE`: no writer beside a collection. Pausing pushes, as the
  documentation asks for, is not enough: a client that was shown the refs before
  the collection and sends its pack after it leaves out objects that are gone,
  so that a push counts from its advertisement on (`Busy`).
* `CutBeforeShallow = FALSE`: a fetch does not die between storing the pack and
  writing `.git/shallow`. Otherwise a later fetch that follows a tag takes
  commits without parents for complete.
* `PlainWhenShallow = FALSE`: a shallow client fetches with a depth, and something
  that it lacks. A plain fetch sends no `shallow` lines (`fetch-helpers.ts:75`),
  and the server then takes the haves of a shallow client for complete. The
  request for tags to follow (`fetch-helpers.ts:97`) sends none either; after a
  fetch that asked for its refs with a depth that does no harm, after one that had
  nothing to ask for it may.
* `GcWhenShallow = FALSE`: no collection while a client is shallow, for the same
  reason on the other side. `FetchDeployment` is the three of them.
* `Deployment` in `Repositories`: no deletion beside a creation, a fork or a push,
  no collection beside a fork or a push, forks are made one after the other
  (`Apart`), and a fork that is pushed to is not forked (`Nested`). The checks of `deleteRepo`
  (`storage.ts:300`) and `gc` (`handler.ts:538`) are an await older than what
  they protect, and nothing in the code keeps these calls apart.
* `CutDeletes = FALSE`: the process does not die within the four statements of
  `deleteRepo`, on PostgreSQL (`pg-storage.ts:130`) or on SQLite
  (`better-sqlite3-storage.ts:222`). With `TRUE` a name is born with what its
  predecessor left, on either.
* `raced` in `LocalRepository`: `RefsAsWritten` leaves out a ref that is written
  or deleted while a gc holds its listing of the refs (`refs.ts:551`) or another
  caller is half done with it, a ref whose deletion was cut off, and a ref whose line
  in `packed-refs` changed between the moment the deletion of another ref read
  that file (`refs.ts:344`) and the moment it wrote it back (`refs.ts:372`). The
  last is no accident of the model: a gc that packs `b` and removes its loose file
  while `a` is being deleted loses `b`. No document promises that a gc may run
  beside a deletion, so that no run is spent on it.
* `waived` in `Rebase`: files the user dropped, and what a pick adds that a
  process was cut off in after it had noted the pick as done. `--continue` goes on
  without that pick. What is asked is that nothing else is lost, not that the rebase can always
  be finished: a start that is cut off leaves HEAD detached, or a `rebase-merge`
  that no command reads and that has to be removed by hand (`UserRemovesState`);
  an end that is cut off after the branch moved (`rebase-engine.ts:1016`) leaves a
  state that `--continue` refuses for ever (line 1005), and `--abort` takes back. A branch
  that another process moves between those two lines is moved over; that is not
  modelled.
* `honest` in `Bisect`: a bisection finds the culprit when the marks were true.
  `RunNarrows` is about rounds of `bisect run` that test a commit, without
  `--first-parent`: with it a mark beside the chain may leave as much as before,
  and a round that waits has nothing to test (`bisect.ts:551`).
* `shared` in `Worktrees`: `OneHolder` leaves out a branch that was taken while
  another worktree had it by a command that asks nobody who has it: with
  `--ignore-other-worktrees` or `--force`, by `checkout -` (`switch -` asks), as
  an orphan or by a `-C` or `-B` while it has no commit, by a `worktree add` that
  makes the branch itself, and by renaming a branch in use onto one in use. What a
  command does that does ask is in no way excused, so that a check that
  is missing shows (`Unclaimed_attached` is the mutant).
* `MeetNowhere`, `Crowded`: merges in which two files go to one place, by a
  rename and a directory rename, or in which a renamed file meets another one.
  There `MergeOrt` gives two entries of one stage or drops a line, and so does
  the code.

### What the violations show

* `RollbackHarmless` (`ReceivePack_rollback`): a push is refused after another
  push, with a common new object, has moved its ref; the rollback deletes the
  object under the ref (`operations.ts:970`).
* `GcAbortsOnRefChange` (`GitServer_recheck`): the comment in `gc.ts` (line 27) promises
  an abort for changes up to the deletion step; the last look is one await before
  it (`gc.ts:79`). The property asks it only of a change that brings what is about
  to be deleted within reach of a ref. In the run a push has stored its commit before the
  collector lists the objects, moves the branch to it after the second look,
  and the commit is deleted under the branch.
* `MergeKeepsBase` (`PullRequests_race`): `DESIGN.md` describes a
  compare-and-swap of the base branch; `mergePullRequest` writes it without
  comparing (`platform.ts:173`), and a push in between is lost.
* `AddAddShowsBoth` (`Algorithms_worktree`): a file that one side added in a
  directory the other side renamed moves along and meets a file of the other
  side; the conflict is recorded as add-add, but the worktree shows one of the
  two (`merge-ort.ts:875`), against the comment at line 99.

Disagreements that were met while modelling, which the models take as the code
has them and no run is spent on:

* `close()` does not wait for `updateRefs` and `gc`: they return a promise from
  inside `try` without awaiting it, and `finally` runs `leave()` at once
  (`handler.ts:431`; `docs/SERVER.md:752` says pending operations are awaited).
  `Early` in `ServerLifecycle` is the set of them.
* `head_sha` does not follow the head branch: hooks write their own push's value
  in whatever order they run, and a new record is inserted with a head that was
  read earlier (`platform.ts:237`; `platform.test.ts:851` expects it to follow).
* A plain fetch of a shallow clone sends no `shallow` lines
  (`fetch-helpers.ts:75`), although the server knows what to do with them
  (`operations.ts:402`).
* A fork of a fork takes over refs whose objects it cannot read, as it reads
  through the root only (`storage.ts:329`; `SERVER.md:712` describes forks of
  forks as flat).
* Two creations of one ref on PostgreSQL lock no row, so that both may succeed
  (`pg-storage.ts:254`); the interface promises compare-and-swap
  (`storage.ts:229`).
* A collision by directory rename beside a rename/delete leaves a path with two
  entries of one stage (`merge-ort.ts:690` and `866`).

## 4. Fairness

Handlers are promises on one event loop, and every await of theirs is on storage
or on a hook, which answers or throws. What has begun therefore goes on, and
that is all the fairness there is; nobody has to begin anything, no hook has to
agree, and nothing has to fail.

* `ReceivePack` (`FairSpec`): each handler weakly fair, for `Announced`. Nothing
  makes a client send a request or the process die.
* `ServerLifecycle` in `Serving`: operations inside leave, work outside ends, a
  resolved promise wakes its waiters, for `CloseTerminates`. The abort signal has
  no fairness.
* `SshSession` in `Serving`: the server, and the client while it has not hung up,
  take their next step if they have one, for `SessionEnds`. Fairness gives no
  line that is not there: a side that waits for one that never comes waits for
  ever, which is what the property would show.
* `PullRequests` (`FairSpec`): merges, creations and hooks that have begun, for
  `WrittenMergeIsRecorded`.
* `bisect run` is a loop of the code; that each round leaves less to choose from
  (`RunNarrows`) takes the place of fairness.
* None for the commands of a user: `WorkingCopy`, `Rebase`, `Stash`,
  `Worktrees`, `LocalRepository`, `Repositories` and `Fetch` are asked for safety
  only.


## 5. Proofs

The theorems hold for every value of the constants: any object graph, any set of
refs, pushes, calls, files, histories and commands. Each is
`Spec => []Invariant` or `Spec => [][Action]_vars`, from an inductive invariant.

The push path (`ReceivePack_proofs`):

* `TypeCorrect`: `TypeOK` is inductive as it stands, because it ties the state of
  a request to its `pc`.
* `ProtectedOnlyFastForwards`, `TagsNeverMove`, `NothingIsRewritten`: a ref moves
  only by `Swap`, which compares it with the value the client sent. The
  strengthening `PolicyInv` says that what is left to do has passed the policy,
  and that a fast-forward verdict is a fact of the graph about the two values of
  the command (`AncestryIsSound`: what is found with an incomplete store is
  true). So the verdict cannot age: it is about the very value the swap
  compares with.
* `RefsNeverDangle`, under `~Overlap`: the new values of unfinished pushes are
  covered by the store or by their own inserted objects, and nothing that a ref
  or a client's view reaches is still liable to a rollback.
  `ReceivePack_rollback` shows that the assumption cannot be dropped.
* `RefusedLeavesNothing`: an answer ends a request, and whoever stores an object
  again after it was rolled back has found it missing, so that it is among the
  objects that one inserted. This needs no assumption about overlaps.
* `Refinement`: the push path implements `AtomicRefs`; `Swap` is its `Apply`, the
  refusals its `Refuse`, all else stutters.

The repository under all of its writers (`GitServer_proofs`):

* `ServerTypeCorrect`: the variables of calls and collector, with what `jpc` and
  `gcPc` say of them.
* `CommitsOnlyAdd`: a new commit names the value its call read as its parent, and
  the call compares with that value (`CommitInv`), so that nobody's commit is
  lost, with or without overlaps and with gc anywhere in between.
* `SecondLookSpares`: between the two looks anything may happen; if the refs are
  equal again, what they reach is what was found live.
* `CollectionIsExact`, under `GcAlone`: nobody else runs, so the snapshot stays
  true (`AloneInv`).
* `ServerRefsNeverDangle`, under `~Overlap` and `GcAlone`: `StoreInv` says that
  the store is closed under what its objects name, now and after any roll-back;
  that refs, the refs clients were shown, and values that were looked at but not
  yet swapped are safe from roll-backs; and that what a commit has still to
  write names safe objects beside its own. The looked-at value of `updateRefs`
  is where closedness is needed: the code looks for the one object
  (`JobCheck`), not for what it reaches.

* `StoreStaysComplete`, under the same conditions: whatever is stored names only what is
  stored, garbage included, and what a push may still roll back is not reached by any
  ref, for the repository under all of its writers. `GcStaysExact` is `CollectionIsExact` in the deployment that `GitServer_gc`
  runs. Both are about `MCGitServerGc`, where a behaviour chooses its deployment,
  because that is where the run states them; the constants are any.

The life cycle (`Serving_proofs`):

* `CloseWaits`: the counter is the number of operations that have entered and not
  left; a drain that is no longer pending was resolved at zero, or aborted; a
  `close()` that returned saw such a drain.
* `NothingMoreEnters`: after `closed` is set no operation comes inside.

Repositories and their forks (`Repositories_proofs`), under `Deployment`:

* `NetworkStaysReadable`: every repository reads what its refs reach, a fork
  through its root, and no fork hangs on a fork. The inductive invariant has a
  part for each kind of call, in terms of the steps it has left: a fork being
  made has read refs that its root still holds, and will link itself before it
  puts them; a push has inserted what its new value reaches, where its target
  reads it; a collection dooms nothing that the root or any of its forks reaches,
  as far as these are still there; a deletion leaves nobody who reads from what
  it deletes. It
  says as well that a name that is not in use has left nothing behind, which is
  where the four statements of a deletion matter: their order on PostgreSQL, and on
  both SQL backends that the process does not die between them.
* `SwapsSeeExpected`: a branch moves from the value its push expected, and a name
  is born empty.
* All that `Deployment` asks for is needed: without any one of its conjuncts TLC
  finds, within five calls, a ref whose object is gone or a name that is not
  born empty.

Fetches and clones (`Serving_proofs`), under `FetchDeployment`:

* `ClientsStayComplete`: whatever moves on the server and wherever commands are cut
  off, every client has all that its refs reach up to its boundary, and every pack
  in the cache all that its wants reach. The invariant says that a client's objects
  are held: each names only what is there, but for parents at the boundary. This
  is said of the objects before the pack with the old boundary, of the objects and
  the pack with the new one (`PackIsEnough`), and while the new boundary is
  known but not written (`pc` is "shallow"), where what the refs reach is complete
  under the old boundary as well. Two things are less obvious than they look. The
  new boundary never contains a commit that is taken out of the old one
  (`ShallowIsApart`: levels of a breadth-first walk), and all of it is behind the
  refs that were asked for, which stays true as the server grows. That is what
  makes the second request, for tags, safe although it names no boundary: the
  server's walk behind the haves includes the boundary, so that it sends the tags
  and nothing behind the boundary that the client would take for complete
  (`TagsAreEnough`).
* `BoundaryGivesWayToParents`: a commit leaves `.git/shallow` when its parents are
  there.
* The walks are recursive functions (`Met`), and so is the size of the cache
  (`Bytes`). That they have values, that a walk ends after as many steps as there
  are objects, and that it computes the least set closed under its rule
  (`SpreadIsLeast`) follows each time by looking at the least number of steps that
  would refute it, since an induction cannot be instantiated.

SSH sessions (`SshSession_proofs`), for any number of haves, commands and refs, any
window and any limit of a request:

* `SessionsInStep`: as long as the client is there it reads only what it waits for;
  when it is done nothing is left unread, and it was told what took effect or what
  the server found in common; a session that ends well leaves nobody waiting.
  The inductive invariant (`SessionInv`, at the end of `SshSession`, which TLC checked
  before it was proved) cannot speak of one side alone: each conjunct relates where
  the server is, where the client is, and what is under way in both directions.
  For a push (`PushTalk`), what was read and what is on its way is the request, or as
  much of it as the client has written; for version 2 (`V2Talk`), there is one whole
  request or one whole answer on the way, or none. The negotiation of version 0 is the
  hard part, because the client runs one window ahead. As long as nothing is
  acknowledged for good, the windows the client counts as not answered (`unread`) are
  the NAKs on the way to it, the flushes on their way to the server, and the answer
  to `done` once that was said (`TalkCounts`); where the server refused, at least the
  NAKs. Without `multi_ack` the count breaks off with the first acknowledgment,
  after which the server is silent: it stands behind fewer NAKs than the client waits
  for, and nothing but the pack follows it (`TalkSingle`). An acknowledgment
  on every batch would be taken for the pack, which is the mutant of the run.
* Counting needs lemmas about occurrences in a sequence (`Times`), what the common
  commits of a batch are (`Found`, a recursive function) follows by a least
  counterexample.

The three together (`Serving_proofs`): `PartsAreServed` shows that a behaviour of
`ServingSpec`, which the run checks, is one of each of its parts, so that their
theorems hold of it, and `NothingEverSlipsIn` that the run's action property does.

The client's files (`Stores_proofs`): `DiskKeepsAllHolds`. Three
invariants that share only the types:

* `ObjectInv`: an object that was stored is loose or in a pack with an index. A
  repack is followed through its order of writes: until the new index is there
  nothing was deleted; from then on its pack covers what it is about to delete
  (`Covered`). Two repacks at a time may delete each other's old packs, and never
  what the other one has just written.
* `RefInv`: unless a ref is among those the code may lose (`raced`), what is read
  for it is what was last written. While a gc rewrites `packed-refs`, the listing it was
  made from is still true of every ref in it, and a loose file is removed only when the
  packed line says the same. A deletion writes back lines that are older than the
  file: a ref whose line has changed since is put into `raced` there and then.
* `LineInv`: the callers that swap one ref stand in one line, each of them once,
  and only the first is between its look and its write, so that what it compared
  with is what it overwrites. Deletions stand in no line (`refs.ts:310`), and a swap
  that one of them meets is `raced` as well.

The stash, bisections, rebases and worktrees (`Stores_proofs`):

* `StashKeepsAllWork`: between the writes of a push the entry holds what HEAD, the
  index and the files were (`PushedAll`), and between those of a pop the files
  hold all of its entry (`AppliedAll`); outside of a push or a drop that was cut
  off, `refs/stash` is the top of the stack (`RefFollows`). A crash leaves each of
  them as true as it was.
* `BisectionIsRight`, under `BisectAssumption` (a parent comes before its child):
  while every mark was true the culprit is an ancestor of the commit marked bad
  and of none marked good (`CulpritBetween`); the answer given last, or the commit
  to test, is the one that the present marks lead to (`AnswerHolds`). That a round narrows the
  choice needs that the commit to test splits the candidates, whichever of the
  two answers it gets (`ChosenSplits`, `SmallerPart`).
* `RebaseKeepsAllWork`, under `RebaseAssumption`. `NothingLost` is about the files at
  the end; the invariant says where each of them is on the way (`WorkOnTheWay`, which
  TLC checked before it was proved): in HEAD, among what a pick that is left or under
  way adds, or, while the loop is stopped at a pick, in the index; and what HEAD has the
  index has, so that a commit made from the index keeps it. It is a
  fact of the states between any two writes, those of the start and of the end
  included (`Places` says what of the state is on disk and what in the process at
  each), and that is what makes a crash harmless
  but for the pick it hits, which the ghost `waived` gives up, as the code does.
  `BranchMovesWhole` is the part of it that others see: whenever a step of the process
  moves a branch, it is to a commit on top of it, to one with all that is to be
  kept, or back. `AbortOnTheWay` follows an `--abort` from write to write, so that one
  that was cut off can be run again. The invariant
  becomes true because the plan is complete (`PlanKeepsAll`): a file of the branch was
  added by some commit of its history that is no merge (`AddedSomewhere`: the earliest
  one that has the file), which is upstream, or has its patch there, or is skipped
  as it sits on the target (`ChainGrows`), or is picked. This is where `goal` needs
  histories whose commits only add files and whose merges add none of their own
  (`OnlyAdditions`; the code leaves merges out of a rebase), and an upstream that is the
  new base. Elsewhere `goal` is empty, and the theorem says that the state stays
  well-formed, that finishing moves over no branch that somebody else moved, and that
  `--abort` restores HEAD, branch and files. The history is a recursive function,
  unfolded like that of a bisection (`HistoryUnfolds`); picks are ordered by number,
  one of the orders in which parents come first, and no proof uses more than that the
  list holds each of them (`OrderedHasAll`).
* `WorktreesStayApart`, under `WorktreesAssumption` (the main worktree is none of the
  linked ones, and no branch is named like the absence of one): a branch has one holder
  at most (`OnlyHolder`), a holder being on it or rebasing it, unless it was taken where
  nobody is asked (`shared`). Each command lets
  go of branches (`LettingGo`), takes one that nobody else holds, or is one that
  asks nobody, and notes the branch (`Taking`).

The platform (`PullRequests_proofs`):

* `RefsMatchRecords`: records are numbered without gaps, and every
  `refs/pull/N/head` is the `head_sha` of its record.
* `MergedStaysMerged`: no step undoes a recorded merge.
* `ApprovedHeadOnly`: a merge under way has read a head that is its record's, or
  refuses, and its result is built from that head. Hypothesis `CommitsDiffer`:
  no commit is taken for the zero hash or for a missing ref.
* `TypesHold`, under the same hypothesis.

The working copy (`WorkingCopy_proofs`):

* `LocalFilesSafe`: no command replaces a file that git does not know. The
  property is about steps, and the argument needs no invariant: on one path, a
  decision of the one-way or two-way table together with its precondition
  replaces known content only (`DecisionsReplaceKnown`, `TwowayReplacesKnown`,
  `OnewayReplacesKnown`), whatever the index, the file and the trees; hence so
  do a checkout, the application of a merge and an abort; hence every command.
* `UncommittedSafe`: the same for what HEAD does not have, in files and in the
  index. Here the commands matter: a merge is safe because `applyMergeResult`
  looks for staged changes, a replay because `ReplayAllowed` did, and a switch
  because the two-way table rejects.
* `PendingHeadStays`: while a pick or a revert is pending alone, a command leaves
  HEAD, or forgets the operation, or concludes a merge. The strengthening says
  which operations can be pending together.
* `TypesHold`: trees never hold conflict stages, parents come before children,
  branches and pending operations name commits that are there. Each command's
  trees come from `unpackTrees` or from merges of trees.
* `MergeIsTakenIn`: `MERGE_HEAD` goes with the commit that takes it in, or by
  giving the merge up. `Ancestors` is defined by a recursive equation, and that it
  has a solution is shown by giving one, the least sets closed under parents
  (`ReachedIsSolution`), so that it can be unfolded (`AncestorsUnfold`).
* `AbortGivesBack`: `Restorable` is inductive. On every path that the user left
  alone, the conflict is still there, or the entry is that of HEAD and the file as
  it was, or the entry is not that of HEAD and there was nothing to lose. It begins
  true because a merge without `-n` starts from an index that agrees with HEAD.
* `IndexAgrees`: the entry that a merge computes for itself is the one that the
  checkout of its result would write (`MergedAsUnpacked`), so that index and file
  move together.

`WorkingCopy!TypeOK` and `PullRequests!TypeOK` are proved and therefore not
listed in a run.

Assumptions. `ObjectsAssumption`, `PushAssumption`, `ContentAssumption`,
`WorkingCopyAssumption`, `DiskAssumption` and `PullRequestAssumption` are
ASSUMEs about the constants (types, a store that begins with what its refs
reach, parents before children), which TLC evaluates on the runs.
`ServerAssumption` (the store begins closed, no object names itself, directly or
through others, as its hash is made last), `LifecycleAssumption`,
`RepositoriesAssumption`, `Deployment`, `WorktreesAssumption`, `BisectAssumption`,
`RebaseAssumption` (commits come after their parents, every branch is at one),
`FetchAssumption` (finitely many objects; an annotated tag names one object, and
no object but a tag names a tag), `SshAssumption` (a window is not empty; a client
may have nothing to offer) and `FetchDeployment` are hypotheses of their theorems,
evaluated in `InputsFit` of `MCGitServerGc`, `MCServing` and `MCStores`.

Every safety property of a passing run is proved but for those of the algorithms.

Only model-checked:

* The algorithms. Most are recursive operators, which no module with a theorem may
  reach, over texts, trees and bytes; the least-counterexample argument that does
  for the walks of `Fetch` would have to be made for each of them.
* Liveness (`Announced`, `CloseTerminates`, `SessionEnds`,
  `WrittenMergeIsRecorded`).

## 6. Not modelled

* The HTTP proxy, argument parsing, help and output formatting: no state, or none
  that outlives a request.
* The SQL of the backends below a statement: batching, prefix search, schema
  changes. `Repositories` takes each statement or transaction as atomic.
* zlib and SHA-1, which the code takes from a library or the platform.
* Of the working copy: submodules, sparse checkouts, directories in the way of
  files, merge drivers, detached HEAD, renames, several merge bases. `MergeOrt`
  has renames and several bases on their own.
* Of the client: explicit refspecs and remotes without a name,
  `LocalTransport.push` (the same swap, ref by ref, without policy), symbolic refs
  other than HEAD, and the commands that only read and print.
* Of the platform: editing titles and bodies, the REST routes, deletion of
  repositories.

What a continuation would add, in this order: the refinement of the abstract swap
by the file system ref store, outside of `raced`; a composition of `Fetch` with
`GitServer`, so that collections on the server meet clients that are shallow; and
the algorithms as recursive functions, to prove about them.
