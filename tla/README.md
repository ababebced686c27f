# A TLA+ model of uppm

`uppm` is a package manager: a single-threaded C program, run once per command,
that keeps all its state in the files of one home directory (`~/.uppm`).  It has
no daemon, no lock and no journal.  Whatever can go wrong goes wrong between two
system calls: another `uppm` runs at the same time, the process is killed, a
download is cut off, a formula is replaced while it is in use.  The modules here
model those files and the order of the system calls that change them.

Paths below are relative to the repository; the C sources are in `src/`.

## 1. Inventory

| Part | State | Operations | Source |
|-|-|-|-|
| package store | `downloads/<sha><ext>`, `downloads/<session>`, `installed/<session>/`, the link `installed/<package>` | install, forced install, fetch, uninstall | `install.c` `fetch.c` `uninstall.c` `check.c` `rm-r.c` `record-installed-files.c` `http-fetch.c` `core/http.c` |
| command line of the package operations | `argv`, the C stack | install, reinstall, upgrade, uninstall, fetch: check every argument, act on one after the other | `uppm.c` `reinstall.c` `upgrade.c` `check.c` |
| formula repositories | `repos.d/<name>/`: a git worktree and `.uppm-formula-repo.yml` | init, add, del, conf, sync, update, list | `formula-repo-*.c` `formula-path.c` `formula-locate.c` |
| git synchronisation | worktree, refs, `HEAD` of one repository | init, fetch, create or move the branch, checkout | `fetch-from-git.c` |
| dependency graph | stack and formulas of one walk; the drawing, the output file | depends | `depends.c` `rename-or-copy.c` `copy.c` |
| formula and receipt parser | token loop, one record | lookup, parse, check, version from a url | `formula-parse.c` `receipt-parse.c` `formula-repo-parse.c` `core/regex/posix.c` |
| self upgrade, session directory | `run/<pid>/`, the executable itself | upgrade-self | `upgrade-self.c` `session.c` |
| `uppm download`, `uppm integrate` | a file and its temporary name; a child process and a pipe | download, fetch a completion script, transform the url | `download.c` `integrate.c` `core/url-transform.c` |
| listings | none (read the files) | ls-*, is-*, info-*, search, tree | `list-*.c` `info-*.c` `search.c` `tree.c` |
| cleanup | none | a no-op in this revision | `cleanup.c` |
| utilities | none | base16, base64, url coding, which, zlib, system information | `util.c` `core/*.c` |

How they interact:

- `main()` calls the operations; every operation reads the formula of its package
  from the formula repositories, and install reads it a second time when it
  writes the receipt.
- install uses the cache in `downloads/` that fetch also fills.
- upgrade compares the receipt in `installed/<package>/.uppm/` (written by
  install) with the formula (moved by the git synchronisation).
- uninstall follows the link that install made, and deletes what it leads to.
- The listings read, call by call, what install, uninstall and the syncs change.
- The receipt is the formula text between two lines that install adds; the config
  of a repository is written by one function and read by another.
- depends, upgrade-self, integrate and the commands on repositories prepare what
  they make in `run/<pid>` and move it out at the end.
- Several processes share all of this without any lock.

Which behaviours are hard, and which property answers for each, is listed under
`hazards` in `PROJECT.json`, each at its line.  In short: install and uninstall
racing for one link; a crash between `unlink` and `symlink`; a failed install
that leaves a directory behind; a cache that holds wrong bytes; a formula that
changes under a running install; a disk that is full where nobody looks; session
names that collide; a recursion over
dependencies that nothing bounds; commands that check all arguments first and
act on them later; a program that replaces itself, twice at once or across
devices; two processes at the ends of a pipe; listings of what is changing; texts
that are written one way and read another.

What makes each part correct:

- **store**: a package's name leads to nothing or to one build, all files of which
  are there and were verified, whatever interleaves and crashes, but for session
  names that collide and for a build whose name somebody is still emptying (section
  6); a version is given up only for an uninstall or for a successor that is built.
- **command line**: exit status 0 means that what the verb says has been done to
  every argument and to what it needs; every command ends.
- **repositories**: a sync changes only its own record and its worktree; pinned
  repositories stay as they are; disabled ones are not searched.
- **git**: after a successful sync the worktree is the remote's commit.
- **dependency graph**: the walk ends, what it writes is what the package needs,
  and the output file is one whole drawing as the command got it.
- **parser**: the last line of a key is what counts, and what uppm writes reads
  back as it was, with exceptions that are known exactly.
- **self upgrade**: there is always a program that can be run, except across
  devices; success means the release that was seen.
- **download**: only a file with the digest asked for is put in place; the url is
  the line the transforming program printed; it ends.
- **listings**: nothing that was there all the time is missed, unless a lookup was
  disturbed; nothing is invented; an early end has a cause in what went away.
- **coders**: after a success stdout holds the whole input, coded.

## 2. Modules

| Module | What it is |
|-|-|
| `PackageIndex` | abstract specification: under a name there is nothing or a finished build that the formulas offer |
| `PackageStore` | the files of the store and the processes that work on them, one action per system call |
| `MCPackageStore` | instances of it with a bounded number of operations |
| `PackageStoreProofs` | type correctness, the inductive invariant, the safety properties and the refinement of `PackageIndex`, proved |
| `Uppm` | `main()` and the recursive `uppm_install` on top of `PackageStore` |
| `UppmProofs` | `Uppm` implements `PackageStore`; the recursion ends where there is no cycle; success means done and `install` begins no session twice, for commands one after the other, proved |
| `MCUppm` | instances of it: three packages, command lines, failures on or off |
| `GitSync` | `uppm_git_sync`: references, `HEAD` and worktree of formula repositories |
| `GitSyncProofs` | syncs that overlap and all succeed leave one commit; one that is alone brings the remote's, proved |
| `MCGitSync` | instances of it: one directory, synced a few times |
| `FormulaRepo` | the commands on formula repositories and their config files, on top of `GitSync` |
| `FormulaRepoProofs` | repositories appear whole and stay whole; `update` brings `official-core`, and every repository up to date; settings are kept and pinned repositories left alone, proved |
| `MCFormulaRepo` | instances of it: `official-core` and one more repository |
| `Depends` | `uppm depends`: the walk over the formulas, the drawing, the output file |
| `DependsProofs` | what the walk prints, what becomes of the output file, proved |
| `MCDepends` | an instance of it: seven packages, a shared dependency, one that needs itself, one that needs what is not there |
| `UpgradeSelf` | `uppm upgrade-self`: `run/`, the release, the replacement of the executable |
| `UpgradeSelfProofs` | there is a program to be run; what success means, proved |
| `MCUpgradeSelf` | an instance of it: four releases around the one that is installed |
| `Download` | `uppm download` and `uppm integrate zsh`, with the program that transforms urls |
| `DownloadProofs` | the url is the line, only verified files are put in place, proved |
| `MCDownload` | an instance of it: lines shorter and longer than the buffer, two lines, nothing |
| `KeyedText` | the three YAML files: token loop, fields, check, and the two writers |
| `UrlVersion` | the version a file name tells |
| `Coders` | `uppm util`: the coders that read stdin piece by piece |
| `MCTexts` | instances of these three |
| `Listings` | the commands that only look, over `PackageIndex` |
| `ListingsProofs` | a listing misses nothing, invents nothing and ends early only for a reason, proved |
| `MCListings` | an instance of it: three packages, two repositories |

### PackageStore and the code

A process (`Pid`) is one invocation.  `pc[p]` names its next system call, `job[p]`
holds the local variables of the operation it is in, `result[p]` what its last
operation returned.

| Variable | File |
|-|-|
| `download[x]` | `downloads/<x><ext>`; `x` is the `bin-sha` of a formula |
| `partial[s]` | `downloads/<s>`, the temporary file of session `s` |
| `dir[s]` | `installed/<s>/`: are the files unpacked and recorded, from which file, what is in `.uppm/receipt.yml` |
| `link[k]` | `installed/<k>`: nothing, a link to a session, or a directory |
| `current[k]`, `Formula[k][r]` | the revision of the formula file of `k` that lies in the repository, and its text |
| `time` | `time(NULL)` |
| `started`, `reused` | history variables: sessions begun, sessions begun twice |
| `exposed` | history variable: sessions linked while another installation was deleting what it had found under the name |

`install.c` is split as follows: `CheckLink`, `CheckReceipt` (200-211),
`StartSession` (221-247), `LookupDownload` (320-336), `FetchOpen`, `FetchDone`
(349), `VerifyAndRename` (355-374), `MakeRealDir`, `ClearRealDir`,
`RemakeRealDir` (413-451), `Unpack` (455-501), `RunInstallScript` (503-552),
`RecordFiles` (556-577), `CreateReceipt` (591), `CopyFormula` (598-644) and the
link loop `MakeLink`, `InspectLink`, `UnlinkOld` (651-676).  A directory that lies
where the link is to be goes through `rm-r.c`: `StatInWay` (`lstat`, 24), `OpenInWay`
(`opendir`, 57), `RemoveInWay` (one entry, or the last `rmdir`, 64-140).  These take the
name anew each time, and `opendir` follows a link that another installation has put
there by now; `exposed` records the builds that may be emptied so.  Three details of
the code that look like slips are in the model as they are: the session's directory
is made twice when it existed (423-451, the second `mkdir` always fails), the
formula file is opened again for the receipt, and nobody looks whether the lines
around its text were written (606, 642), so that a full disk leaves a receipt that is
cut short (`cut`) and that is linked all the same.  `Built` is what the code makes sure
of, all files and the formula text; `Complete` is what it means to.  `uninstall.c` is one action per
call.  `CallFails` stands for any system call, unpacking or script that fails:
the operation returns and cleans nothing up.  `Crash` stops a process for good.

Abstractions:

- A file is its digest: two files are equal if and only if their sha256 sums are.
  In the same way a session is the triple `(bin-url, second, pid)` that is hashed.
- The file name extension in `downloads/` is left out: one `bin-sha` is one file.
- Unpacking, running the script and recording the files are one step each, on a
  directory no other process knows by then; `rm -r` is one step per entry
  (`RemoveSome`) and one for the last.  A session's directory is never a link, so
  there the names may be taken once.
- `downloads/` and `installed/` exist.  A process id is not used again.
- A formula never disappears and only moves forward, and a lookup finds it; where a
  lookup fails (`formula-repo-list.c`, section 6) the command ends before the operation on
  that package begins.

### Uppm and the code

`command[p]` is the command line and the place in `main()`'s two loops
(`uppm.c` 345-615): every argument is screened, then the operation is called on
one after the other until one fails.  `frames[p]` is the stack of `uppm_install`
(`install.c` 679-723).  The operations themselves are the actions of
`PackageStore`, which `Uppm` extends; `Screening` is `check.c` and
`receipt-parse.c`.  The recursion has no end of its own, so `MaxDepth` is the
number of calls the stack has room for and `StackOverflow` is what happens then.
`UppmSpec` runs all processes at once; in `SerialSpec` a command begins when no other
runs, and formulas move only between commands (the clock always does).

### GitSync and the code

`git[d]` is the repository in directory `d`: `heads` are `refs/heads/*`,
`tracking` is `refs/remotes/origin/*`, `head` is the branch `HEAD` names, `files`
the worktree.  `job[p]` holds the arguments and locals of one call of
`uppm_git_sync` (`fetch-from-git.c` 152-518), `pc[p]` its next libgit2 call:
`OpenRepository` (227-344), `Fetch` (348-388), `LookupTrackingRef` (392-404),
`LookupBranch` (408-427), `CreateBranch` (429-436), `CheckoutFile` (440-470, one
step per file), `SetTarget` (472-484), `SetHead` (486-492).  `GitFails` is any of
them failing, or the process being killed.  `Push` is the server.

What libgit2 does is modelled from how the code uses it: a refspec without `+`
moves a tracking branch to descendants only and says nothing otherwise;
`git_reference_create` without force fails when the reference exists;
`git_reference_set_target` fails when the reference is not what was looked up; a
forced checkout overwrites every file of the commit.

Abstractions: every commit changes every file, so a file is known by the commit
it is from.  Objects are there when a reference to them is.  Lock files a crash
leaves behind, and files of an interrupted checkout that no commit knows, are
left out.

### FormulaRepo and the code

`command[p]` is the command of process `p` with its locals, `config[d]` is
`.uppm-formula-repo.yml` in directory `d`, `exit[p]` how the last command ended;
`asked` and `torn` are history variables.  A process's directory `run/<pid>` is
named by the process.

| Steps | Code |
|-|-|
| `CheckAbsent`, `PrepareSession`, `InitRepository`, `StartClone`, `CloneReturns`, `WriteNewConfig`, `RenameSession` | `formula-repo-create.c`, `formula-repo-add.c` |
| `CheckDeletable`, `CheckConfig`, `RemoveEntry`, `RemoveDir` | `formula-repo-remove.c`, `rm-r.c` |
| `LookupRepo`, `StartPull`, `PullReturns` | `formula-repo-lookup.c`, `formula-repo-sync.c`, `formula-repo-change.c` |
| `OpenConfig`, `SaveConfig`, `ShortWrite` | `formula-repo-config-write.c` |
| `ListNext`, `ListEnds` | `formula-repo-list.c`, `formula-repo-parse.c` |
| `UpdateNext`, `UpdateEnds`, `Failed` | `formula-repo-list-update.c` |
| `Locate` | `formula-locate.c` |

A config file is `None` (no such file), `Empty` (truncated), `Garbled` (does not
parse) or the four settings.  The times `created` and `updated` are left out.
Preparing `run/<pid>` is one step because nobody else looks there.  Removal is
one step for the config file and one for the rest, in any order, because the
order of `readdir` is not known; a config file that is open when it is deleted
goes on to exist for the process that has opened it.  Every command begins with
arguments `main()` has accepted (`uppm.c` 731-882).  `RepoSpec` runs all processes at
once; in `SerialSpec` a command begins when no other runs; in `SteadySpec` besides
nothing is pushed while one runs, and `formula-repo-conf` changes no url or branch.

### Depends and the code

`stack[p]`, `known[p]` and `text[p]` are `packageNameStack`, `packageSet` and the
string `p` of `depends.c`; `Expand` is one round of its loop (129-283), `EndWalk`
what follows (285-347), `PrepareSession`, `Draw`, `NameOutput` the rest of the
function, `Rename`, `OpenCopy`, `CopyBlock` are `rename-or-copy.c` and `copy.c`.  A
file is the sequence of its blocks.  `get_output_file_path` returns an error by a
variable that is not set when `-o` names a file (62-80), so `NameOutput` goes either
way.  The server that draws boxes and the program `dot` are part of `Draw`.  What the
server sent is written by `http_fetch_to_file`, which ignores what `fclose` returns
(`core/http.c` 142): when the disk fills up at the last flush the command goes on with
a drawing that is cut short, so `Draw` takes any of `Drawings(p)`.

### UpgradeSelf and the code

`program` is the file under the path of the executable, `stray` the one under that
path with ` (deleted)` behind it, which is what Linux says (`core/self.c` 159) when
the image has been replaced; `image[p]` is what process `p` runs, and the version it
compares with the release is that of its image (329-370).  `UnlinkRun` has the test of
`unlink` as it is in the code (151), the wrong way round.  Steps that touch only
`run/<pid>` (fetch, unpack) are one.

### Download and the code

`child`, `rest`, `pipe`, `url` are the program named by `UPPM_URL_TRANSFORM`, what it
has not printed yet, the pipe and `outputBuffer` (`core/url-transform.c` 12-128);
`tmp` and `file` the temporary and the output file, known by their digest.
`StatOutput` .. `Rename` are `download.c` 100-219; `integrate.c` shares them except
that it checks no digest, makes the directory last and may have to copy.

### KeyedText, UrlVersion, Coders and the code

These are functions of their input; their variables are an input and how far it has
been read.  `KeyedText`: a file is a sequence of entries, each a top-level line with
what is below it; `Tokens` is what libyaml makes of one (external), `Scan` the loop over the tokens
that all three readers share (`formula-parse.c` 502-547, `receipt-parse.c` 408-451,
`formula-repo-parse.c` 259-304), `SetValue` what a value does to the record, `Checked`
and `Completed` the check; `ReceiptText` is `install.c` 598-642, `ConfigText`
`formula-repo-config-write.c` 22-36.  Characters stand for their class: blanks, bytes
outside ASCII, digits, `#`, `:`, the hyphen, what YAML reserves, what begins a tag, an
anchor, a collection, a quoted or a block scalar, and the rest; `Unquoted` says what a
reader of YAML may take an unquoted text for (a superset where libyaml looks further
into the text than a class tells).
`UrlVersion` takes a stem and an ending apart as `formula-parse.c` 292-452 does.
`Coders` reads its input in pieces of any size a `read` may return, or full buffers
with `fread` (zlib).

### Listings and the code

A command is one process that goes through `installed/` (`list-installed-packages.c`,
`list-outdated-packages.c`) or the formula directories (`list-available-packages.c`,
`search.c`), or looks at one package (`info-installed.c`), one action per system call
that reads what others change.  `ListRepos`, `ReadRepo`, `ParseConfig` are the walk over
`repos.d` (`formula-repo-list.c` 33-194): `stat` of a config file is one step, `fopen`
another, and a config that is gone in between ends the walk; so does a name without a
config file if it is the last one (section 6).  `Locate` and `ReadFormula`
are the `stat` and the `fopen` of one formula (`formula-locate.c` 24-57,
`formula-parse.c` 469-572), `VisitShelf` and `OpenShelf` the `stat` and the `opendir` of
a formula directory (`list-available-packages.c` 37-51).  `LookupFails` is what becomes
of an error: `ls-available` and `search` return it, `ls-outdated` goes on to the next
package.  The others change the store, the formulas and the config files between any two
calls.  The repositories are walked in any order, so one that appears too late for the
walk is one it was at before.  The store is not
`PackageStore` in full but `PackageIndex`, which `PackageStore` is proved to
implement: whatever the processes of the store do, a reader sees `Appear` and
`Disappear`; the sessions that were reused or exposed are outside this and are counted
as gone.  An upgrade unlinks the old link before it makes the new one, so a
reader can find the package gone in between; the model has that as the two
actions one after the other.  What a `readdir` returns of names that come and go
meanwhile is open, as POSIX leaves it.

## 3. Runs

| Run | Instance | What it shows |
|-|-|-|
| `store_races` | 2 processes, 3 operations; 1 package and 2 revisions, or 2 packages from one file and 2 seconds; a directory in the way or none; a full disk | races of install, forced install, fetch and uninstall while the formula moves on, or with session names that collide |
| `uppm_one` | 3 packages (a needs b and c, b needs c), commands one after the other: 3 of install, uninstall, fetch; 2 of install, reinstall, upgrade with 2 revisions; 3 of install `c`, reinstall `c c` | success means done; no session twice without force; the recursion ends |
| `uppm_busy` | 3 packages, one of which needs itself, 2 commands at once | refinement of the store; every command ends |
| `git_sync` | a cloned repository, 3 processes, 3 commits, 4 syncs, failures | a sync that succeeds brings what the server sent, whatever the ones before left undone; overlapping syncs that all succeed leave one commit |
| `repo_settings` | 1 process, 4 commands out of 8, failures and kills | settings are kept, pinned repositories are left alone, `update` updates the others |
| `repo_places` | 2 processes, 3 commands out of 7, failures and kills | repositories appear whole and stay whole; `update` brings `official-core` |
| `depends` | 7 packages, 2 revisions of one, 2 processes, files of 2 blocks, drawings cut short by a full disk | the graph is what the package needs; the file is one whole drawing as the command got it; the walk ends |
| `self_upgrade` | 3 processes, 4 releases, a program of 2 blocks, one device or two | a runnable program unless one was cut off between devices; success means the release that was seen |
| `download` | 2 processes, 2 files, urls of 2 characters, a pipe of 3 | the url is the line; only verified files; every download ends |
| `texts` | 2 hand edits of a good file; names of 5 characters and an ending; 10 bytes to code | readers, writers and coders against reference definitions |
| `listings` | 1 command, 3 packages, 2 repositories with or without config file, formulas and receipts that do not parse, 3 changes by others | nothing missed unless a lookup was disturbed, nothing invented, no early end without a reason |
| `uppm_reinstall` | 1 package with a shared dependency, no failures | a reinstall that fails by itself (section 6) |

Bounds, and why they are enough.  Races need two processes and one name; a third
operation lets one of them meet what the first left behind (a reinstall of a
linked package while the other uninstalls it).  Two packages from one url and a
clock that can stand still are what a collision of names takes; a second tick
lets the same process avoid it.  Two revisions are what it takes for a formula to
move once.  The three packages of `Uppm` form the smallest graph with a shared
dependency.  `MaxOps` counts operations in `MCPackageStore`; in `MCUppm` each
process runs one command, so there the number of processes is the bound.
A worktree of two files is the least that can be a mixture of commits; four
syncs let one be cut off, one repair it and two overlap, or three overlap; with
three commits the remote moves twice, so that the three may each have fetched another.  In `FormulaRepo` one file is enough, since
mixtures are `GitSync`'s matter; three commands at two processes let an add, a
deletion and a sync meet, four commands in a row let settings be changed, kept by
a sync and changed again.  The branch `master` at the remote exists from the start.
`uppm_one` lets only the second set of commands move formulas and the clock, since
only these build anything anew.  Its third set is what the proof of `OkMeansDone` asked
for: an install, a reinstall that is killed while it clears the directory of a session
it has named twice, and an install again, which two commands never get to.
In `Depends` a graph needs a package that is reached on two ways, a cycle of one, a
missing name and a formula that changes; two blocks are the least that can be mixed.
Three upgrades let one replace the program, the next run the replaced image, and the
third meet both.  A url of two characters in a pipe of three lets a line be cut by
the buffer, by the pipe, by both or by neither.  Two edits let a key be repeated,
emptied, nested or broken and the error be followed by something; with names of five
characters and endings of up to eight every branch on the length of a name is taken;
ten bytes fill the buffers (8, and 6 for base64-encode) and start again.  In `Listings`
three changes let a package go, come back as another revision and go again, or a
formula or a config file go in one repository while another has it, between any calls.
In `MCUppm` a server answers with the file or with junk, and only the second and the
third set of commands meet a full disk: the first never parses a receipt.
Processes are symmetric and `SYMMETRY` is used where only safety is checked.
Deadlock is not checked: processes end and nothing more is to be done.

Every property has a mutant of the code that breaks it, written next to the
definition it replaces and listed in `PROJECT.json`.

`SyncedIsRemote` holds in `git_sync` for a repository that `formula-repo-add`
made, that stays on its branch and whose remote does not rewrite history; without
these conditions it does not hold (section 6).  `SuccessMeansClean` rests on
libgit2 refusing to move a branch that somebody else has moved: the sync that
loses the race says so.  It does not notice a branch that was moved and moved back,
which takes three syncs at once; the property excludes that (`ComesBack`) and
repositories whose branch was changed.  `ConfigIsAsAsked`, `PinnedStays` and `UpdateUpdates` are
checked for commands one after the other: what becomes of them otherwise is in
section 6.
`OkMeansInstalled` and `ReplacesOlder` say nothing of an upgrade that another one met,
and `EveryDownloadEnds` is for lines no longer than the url and the pipe together
(section 6).
`OkMeansDone` is checked for commands that run one after the other: with two at
once it is false by design, an uninstall may follow at any moment.  Of an `install` it
says that what is linked is built, unless its session was begun twice (section 6); that
the receipt has its signature and its time cannot be said, since a full disk may take
them and nobody looks.
`LinkedIsBuilt` and the index count a build as lost that was linked while another
installation was deleting what lay in the way (`exposed`): the program may empty it
(section 6).  One command at a time never exposes one (`StaysUnexposed` in
`UppmProofs`).
`NothingMissed` promises a line of `ls-outdated` for a package that was outdated all
the time only if no lookup of it was disturbed (`Undisturbed`): otherwise the line may be
dropped with exit status 0 (section 6).  For the names of `ls-available` and `search` it
needs no such condition, since they end with an error then (`EarlyEndHasCause`).

## 4. Fairness

`FairUppmSpec` asks for weak fairness of each process's own steps (`Main` or
`Work`): the operating system schedules a runnable process, and no system call
blocks for ever.  The code justifies this for everything but two calls.
`core/http.c` sets no time limit on a transfer (lines 74-75 are commented out), so
the assumption includes that a server answers or closes; and an install script is
assumed to end.  No fairness is assumed of failures, of other users or of the
clock.

`EveryCommandEnds` is not trivial under it: two processes could in principle undo
each other's link for ever, and the recursion could go round a cycle.  It holds
because each command makes finitely many attempts to link, so that the other can
be sent round the loop only finitely often.

`Depends`: weak fairness of each process's own steps, which includes that the server
that draws boxes answers or hangs up and that `dot` ends.  `EveryCommandEnds` there
needs a graph without a cycle of two or more packages (one of a single package is
detected); each expansion makes the rest of the walk shorter.

`Download`: weak fairness of the process and, separately, of the program that
transforms the url: both are scheduled.  `EveryDownloadEnds` fails if the parent
waits before it has read, because the child then blocks in a full pipe.

The other modules claim no liveness.

## 5. What is proved

Eight modules hold theorems.  They are for any number of packages, processes,
revisions, repositories, files, blocks and characters, from the assumptions on
constants that the modelling modules name: the constants have their types, the marks
for "nothing" are none of the things they stand beside, bounds are numbers.  TLC
evaluates the assumptions on every instance.  The fairness in a specification is not
used by any proof.  Each argument is an inductive invariant; most properties are not
inductive, since they speak of the end of an operation and not of what a process in
the middle of it may rely on.

**`PackageStoreProofs`** (assumptions `BoundAssumption`, `FormulaAssumption`,
`MarkAssumption`).

- `TypeCorrect`: `Spec => []TypeOK`.
- `InvCorrect`: `Spec => []Inv`.  `LinkedIsBuilt` is not inductive: to know that
  a link leads to a directory that is built one has to know why nobody else writes to
  it or deletes it.  `Inv` adds
  - `Phase`, `Named`: where a process is tells which operation it is in, and its
    session bears its own id and url and is on record as begun;
  - `Private`: until an installation links its session, no link leads to it and no
    uninstall has read it (unless the name was used twice);
  - `Grown`: how far the directory is follows from how far the process is, down to
    the link loop (`Linking`), which it enters with all files and the formula text;
  - `LinksApart`: one session is linked under one name;
  - `RemovalOK`: a removal of what lies in the way begins where a directory is, so a
    link it meets was made meanwhile, and its build is `exposed`;
  - `AimedOK`: an uninstall that has begun to delete has removed the only link;
  - `DownloadedOK`: between the check of the digest and unpacking, the file in
    `downloads/` stays what it was;
  - `BegunOK`: nothing on the disk bears the name of a session not begun.
- `LinkedBuilt`, `LinkedVerified`, `UnpackedVerified`, `GivenUpForBuilt`: the
  properties of the runs, from `Inv`.  `LinkedVerified` and `GivenUpForBuilt` have no
  exception for builds that were exposed: what is left in them is verified still, and
  the link stays.
- `StoreImplementsIndex`: `Spec => ImplementsIndex`.  The mapping takes the whole
  directory, its files and its receipt, so that a build that loses a file under its name
  would be a step the index does not have (`Gutted`: it only happens to exposed ones).

The steps are summed up first (what a step does to the processes, to the
directories, to the links, to the downloads), and each part of the invariant is
then shown to be kept by whatever fits the summaries.

**`UppmProofs`** (also `DepthAssumption`, `CommandMarkAssumption` and the others of
`Uppm`).

- `UppmTypeCorrect`: `UppmSpec => []UppmTypeOK`.
- `UppmImplementsStore`: `UppmSpec => ImplementsStore`.  A step of the command line
  leaves the files alone or begins an operation of the store; that it begins it with a
  package, and with a revision that the formula has had, is what `CliInv` adds: a
  call of the recursion holds a text it has parsed (`FrameOK`), and the names that
  `main()` has screened have packages (`Screened`).
- `UppmKeepsStoreSafe`: so every theorem about the store holds of the command lines.
- `RecursionEndsWithoutCycle`: `UppmSpec => []RecursionEnds` if there is a rank of the
  packages below `MaxDepth` that every dependency of every revision lowers
  (`NoCycle`).  Without it the property is false: nothing in the code bounds the
  recursion, and the formulas are those of other people.
- `SuccessMeansDone`: `SerialSpec => OkMeansDone`, for any formulas, with cycles as
  well, and wherever the commands before failed or were killed.  `SerialInv` follows
  the one process at work.  No build is exposed, since nobody else links
  (`Unexposed`).  `Shape`: every call of the recursion has parsed the present
  formula and each is for the dependency its caller has come to.  `Sessions`: a process
  that clears a directory it has made before can only fail (`Spent`, `Doomed`), so what
  it links bears the receipt of the present formula (`Copied`); a session it has begun
  has its directory (`Made`), and a process that has installed nothing has begun none
  (`Fresh`).  `Progress`: a package is settled if everything it needs is as the command
  wants it, but for the one being installed right now (`Settled`); the arguments and the
  dependencies that were dealt with are settled (`ArgumentsDone`), the arguments uninstalled so
  far are not linked (`Removed`), what was fetched has its digest (`Fetched`).  What a
  package needs is the smallest set closed under `dep-pkg` (`Needed`), so that a
  return of the recursion settles a package once its dependencies are settled
  (`SettledBy`), with no induction over the depth.
- `InstallsNameSessionsOnce`: `SerialSpec => []InstallsNameOnce` if no two packages are
  fetched from one url (`UrlsApart`; nothing in the code enforces it, and two packages
  with one `bin-url` installed in one second do share a session).  An `install` builds a
  package only while nothing is linked under its name, and every session it has begun
  is the one it works in or is linked under the name of a package with that url
  (`Kept`).

**`GitSyncProofs`** (`CommitAssumption` and the others of `GitSync`).

- `TypeCorrect`: `Spec => []TypeOK`.
- `CleanIfAllSucceed`: `Spec => []SuccessMeansClean`.  A process is a writer from the
  look at its branch until it moves it.  The invariant says that a directory without
  writers is clean, and that a sole writer who still finds the branch where it was has
  what it wrote in place (`IsClean`), since any other would have moved the branch; and
  that in a directory that stays on its branch every sync is for that one (`StaysOn`).
  The attempt to prove it without `ComesBack` showed the three syncs of section 6.
- `SyncBringsRemote`: `Spec => SyncedIsRemote` for one remote whose branches only move
  on to descendants (`ForwardOnly`): the files are those of the branch, or the branch is
  behind what was fetched, so that the next sync writes them (`LeftOrClean`).

**`FormulaRepoProofs`** (also `ConfigAssumption`, `CommandMarkAssumption`; it uses the
types and the locality of steps of `GitSyncProofs`).

- `RepoTypeCorrect`, `RepositoriesStayWhole`, `RepositoriesAppearWhole`,
  `UpdateLeavesOfficial`: `RepoTypeOK`, `StaysWhole`, `AppearsWhole` and
  `UpdateBringsOfficial` for `RepoSpec`.  The invariant says that `run/<pid>` is what its
  process has made of it, call by call (`SessionOK`, `Cloning`), so that what is renamed
  into place is whole; that the config file of a repository that nobody deletes is there
  (`PlaceOK`); that a file a process holds open is there or is known to be deleted
  (`OpenOK`); and that `official-core`, once `update` has seen it, stays (`SeenOK`).
- `SettingsAreAsAsked`, `PinnedIsNotUpdated`: `ConfigIsAsAsked` and `PinnedStays` for
  `SerialSpec`, commands one after the other, each of which may fail or be killed.  The
  settings a command has read and is to write back are those its repository has been
  asked to have, a repository that is synced is not pinned, and a file that is open for
  writing is empty (`HandOK`); only the one command that runs can make it otherwise.
- `UpdateBringsAll`: `SteadySpec => UpdateUpdates`, for any number of repositories, urls
  and branches, if pushes only move branches on to descendants (`ForwardOnly`).
  `SteadyInv` ties three things together.  A repository whose syncs have all succeeded
  has the files of what was fetched, and that is not ahead of the remote (`RestOK`).  A
  sync that begins with such a directory, and that nothing disturbs, fails or brings
  what the remote has (`Undisturbed`, `GoesWell` in `GitSyncProofs`), and what it has
  brought is there when the command writes the settings back (`HasBrought`).  Every
  repository is still to be listed, is on the list or in hand, is pinned, or has been
  brought up to date (`UpdateOK`), so that at the end, when the list is empty and
  nothing is in hand, the last two are left.  A change of the url or the branch is left
  out because the property is then false: the tracking branch may be ahead of the other
  remote, and a branch that is where it should be skips the checkout (section 6).

**`UpgradeSelfProofs`** (`ReleaseAssumption` and the others of `UpgradeSelf`).

- `AlwaysRunnable`, `AtMostOneIsLost`, `SuccessInstalls`, `OlderIsReplaced`:
  `RunnableUnlessCut`, `CostsOneUpgrade`, `OkMeansInstalled`, `ReplacesOlder`.  What
  makes it inductive is who is to blame when the program is not there or not whole: a
  process that is at it or was cut off (`ProgramOK`); that what somebody runs stays as it
  was (`ImagesOK`); and what a process that met no other one knows of the path
  (`AloneOK`).  `ComparisonIsRight` shows that the comparison of three numbers in the
  code is the lexicographic order.

**`DependsProofs`** (`GraphAssumption`, `PathAssumption`, `DrawingAssumption`).

- `OutputStaysWhole`, `SuccessIsWritten`: `OutputIsWhole` and `OkMeansWritten`.  A copy
  that meets no other one finds its file as far as it has written it (`CopiesOK`), and
  what it copies is one of `Drawings(p)`.
- `WalkPrintsReachable`: `[]PrintsReachable`, for any formulas, with cycles and with
  changes during the walk.  What has been seen is what has been read and what is on the
  stack; it lies in every set that is closed under what was read, and at the end it is
  closed itself.
- `WalkForgetsNothing`: `[]EveryMentionExpanded`, by counting: a round moves one name
  from the stack to the lines and puts the names of that line on the stack
  (`BalanceOK`).

**`DownloadProofs`** (`DownloadAssumption`).

- `UrlIsTheLine`: `[]UrlIsLine`.  What the program prints is at any time what has been
  read, what is in the pipe and what is still to come, in this order (`Flow`), and the
  url is the line of what has been read, as far as there is room; `ReadingGoesOn` and
  `FullIsFull` are what a further piece does to it.
- `OnlyVerifiedFiles`: `Spec => OnlyVerified`.

**`ListingsProofs`** (`ListingAssumption`).

- `NothingIsInvented`: `Spec => []NothingInvented`.
- `EarlyEndsHaveCauses`: `Spec => []EarlyEndHasCause`.
- `NothingIsMissed`: `Spec => []NothingMissed`.

None of them is inductive: a line is printed some system calls after what it tells was
read.  The invariant `IInv` adds what a command knows in between: what is there now
is among what has been there (`OnRecord`), the receipt that waits to be compared was
under the name of its package (`GotOK`), what a `stat` has found is there or is on record
as gone (`FoundOK`), every name readdir is still to return was in a formula directory
(`AheadOK`), and where a command is tells which one it may be (`Phase`).  The steps of
the command leave the record alone, those of the others only make it grow, and a line
that is true stays true when the record grows (`LinesStay`).  `MissedInv` counts
besides: a package that was there all the time has as many lines as it should, or none
yet and the scan is still to come to it (`ScanOK`); while `ls-outdated` looks for a
formula that nothing disturbs, the repository that offers it is still to be listed, is
on the list, or is the one at hand (`LookupOK`); and a formula has as many lines as
repositories it stays in were served (`NamesOK`, `Served`), the others being still to
come (`Coming`); this needs that the repositories are finitely many.

Only model-checked:

- liveness (`EveryCommandEnds` in `Uppm` and `Depends`, `EveryDownloadEnds`), which is
  out of the prover's reach;
- the texts (`KeyedText`, `UrlVersion`, `Coders`): what a recursive function computes
  needs an induction over data, which the installed provers cannot do.

## 6. Where the program and its documentation differ

Shown by a run:

- `uppm_reinstall`: `uppm reinstall` of a package whose dependencies share a
  dependency fails when that one is built twice within one second, and leaves it
  linked to an empty directory (`install.c:228`, `423-451`).

In the models as it is in the code, with no run of its own:

- Of two installations of a package whose name a directory lies in the way of, one may
  put its link there between the `lstat` and the `opendir` of the other (`rm-r.c:24`,
  `57`), which follows it and deletes the files of the build that has just been linked;
  the entries are taken by name as well, so a removal that was under way may do the same.
  It ends with an error at the `rmdir` of a link, and the package stays linked to
  what is left.  (Drop `exposed` from `LinkedIsBuilt`, `store_races`.)
- Nobody looks whether the lines that install adds to the receipt were written
  (`install.c:606`, `642`).  On a full disk `uppm install` succeeds with a receipt without
  signature and time; `upgrade`, `ls-outdated` and `info-installed` refuse it from then
  on (`receipt-parse.c:301-309`).  (Add `PROPERTY InstallMeansComplete` to
  `MCUppm_one.cfg`.)
- A reinstall that builds a package twice within one second, and is killed while it
  clears the directory it has just linked, leaves the link, the receipt and some of the
  files; `uppm install` then says that the package is installed already and succeeds (`install.c:200`, `check.c:120`).  The attempt to prove
  `OkMeansDone` showed this: it had been stated for every session, and two commands,
  the bound of the run at the time, did not reach it.  (Add the same property, and let
  no disk be full: `~DiskWasFull(p)'` for all `lines` in `MCNext` of `MCUppm`.)
- `http_fetch_to_file` ignores what `fclose` returns (`core/http.c:142`): a full disk may
  cut the last buffer off.  Where a digest is checked afterwards that shows; the drawing
  of `uppm depends -t box -o` and a completion script are put in place as they are.
  (Put `file'[Path(p)] = Whole(Graph(p))` into `OkMeansWritten`.)
- The receipt of a formula without `version` cannot be parsed (`receipt-parse.c:276`),
  nor that of one that rests on `res-url` and `res-sha`, which only a formula on
  musl may have (`formula-parse.c:124`): `WrittenReadsBack` says exactly when.
- A branch that is where it should be skips the checkout (`fetch-from-git.c:417`),
  though the files may be those of another branch: after the branch was changed
  and changed back a sync leaves the files of the other one.  (Drop `"switched"` from
  `SuccessMeansClean` and `SyncedIsRemote`, which exclude this; set `Branch` to `{master,
  dev}`, `Pid` to `{p1}`, `Overlap` and `MayFail` to `FALSE` in `MCGitSync_sync.cfg`.)
- `enabled` is never looked at when a formula is searched (`formula-locate.c:28`).
- The receipt may describe a newer formula than the one that was installed
  (`install.c:598`); such a package is no longer reported as outdated.
- `uppm upgrade a b` fails when upgrading `a` has already upgraded `b`
  (`upgrade.c:4`).  `uppm upgrade` does nothing (`uppm.c:555`), where `help.c:80`
  says "or all outdated packages".
- The branch is created before the files are checked out (`fetch-from-git.c:430`).
  A first sync of a repository that `formula-repo-init` made, stopped in between,
  makes all later ones say "Already up to date." over an empty worktree.  (Drop
  `"switched"` as above, since such a repository is on no branch yet; set `Cloned` and
  `Overlap` to `FALSE` and `Pid` to `{p1}`.)
- The refspec lacks the `+` that the comment shows (`fetch-from-git.c:150`, `372`);
  a branch rewritten at the remote is not followed.  (Set `Descends` to `Rewritten` in
  `MCGitSync_sync.cfg`.)
- A sync moves the branch if it is where it was when the sync looked at it
  (`fetch-from-git.c:472`), and does not notice that it was moved and moved back in
  between: of three syncs of one repository that overlap all may succeed and leave files
  of two commits.  The first syncs of a repository that `formula-repo-init` made may do
  so two at a time: the one that has created the branch moves it to where it is.  (Drop
  `"back"` from `SuccessMeansClean`.)
- A sync writes back the settings it read before the fetch
  (`formula-repo-sync.c:85`) and undoes a `--pin` made meanwhile.  (Add
  `ConfigIsAsAsked` to `MCFormulaRepo_places.cfg`.)
- `update` stops at the first failing sync and reports success
  (`formula-repo-list-update.c:94-103`).
- A deletion that stops after the config file is gone leaves a name that can neither
  be deleted (`broken') nor added (`already exist') (`formula-repo-remove.c:60`).
- `formula-repo-list.c` returns what `snprintf` has left in `ret` (84, 96) when the last
  name `readdir` gives it has no config file: a stray file in `repos.d`, or what a deletion
  has left of a repository, may make `update`, `search`, `ls-available` and every lookup of
  a formula fail, though all repositories are in order.  (`NothingDropped` as below.)
- A config file that does not parse, or that is gone between `stat` and `fopen`, makes
  `formula-repo-list.c` free its list twice (115, 188) when there is something in it.
- An empty config file, which a kill can leave (`formula-repo-config-write.c:50`),
  crashes every command that lists the repositories (`formula-repo-parse.c:166`).
- A cycle of two or more formulas keeps `uppm depends` walking and printing for ever
  (`depends.c:129`), and a package is expanded once for every way to it.
- `uppm depends -o <file>` may fail at its last step because of a variable nothing was
  assigned to (`depends.c:62`).
- A file in the place of `run` fails `upgrade-self` once, because it could be deleted;
  a dangling link there fails every upgrade (`upgrade-self.c:151`).
- Of two upgrades at once the second writes its program to `<path> (deleted)` and
  reports success (`core/self.c:159`); an older one that ends later puts an older
  program in place (`upgrade-self.c:357`).  Between two devices a kill leaves no
  program, or a part of one (`upgrade-self.c:437`).
- A url transforming program that prints more than 1024 bytes and then more than a
  pipe holds makes it and `uppm` wait for each other (`core/url-transform.c:103`); if
  it prints two lines, whether a newline is kept depends on how they come through
  the pipe (26).
- `uppm download` to standard output checks no digest (`download.c:35`), and
  `--unpack-dir` and `--strip-components` are accepted and ignored (`uppm.c:1011`).
- A url or a branch with blanks at its ends, ` #`, a colon before a blank or at the end,
  or beginning with a byte outside ASCII or with what begins something else in YAML
  (`@`, `%`, `!`, `&`, `*`, `[`, `{`, `|`, `>`, a quote, `- `) does not come back from the
  config file (`formula-repo-config-write.c:29`, `formula-parse.c:146`): the file is
  refused or says something else.
- A file in which no key has a value crashes the command that reads it
  (`formula-parse.c:557`).
- File names of eight characters or fewer keep most of their endings
  (`formula-parse.c:346`), which may hide the version.
- `uppm util base64-encode` pads every piece a pipe delivers (`util.c:177`);
  `base64-decode` writes zero bytes for pads and may write bytes it never set
  (`util.c:258`).  `zlib-inflate` leaves its last buffer to `exit`, which reports no
  failure.
- `uppm ls-installed -v` and `uppm ls-outdated` end with an error at a package that is
  removed meanwhile or whose receipt does not parse (`list-installed-packages.c:102`,
  `list-outdated-packages.c:101`).
- `uppm ls-outdated` ignores every error of the lookup (`list-outdated-packages.c:110`).
  A formula that goes away between `stat` and `fopen` (`formula-locate.c:42`,
  `formula-parse.c:475`), a config file that does (`formula-repo-list.c:105`) or a name
  without a config file that is the last (96) drops an outdated package that a repository
  offers all the time, with exit status 0.
  (Add `INVARIANT NothingDropped` to `MCListings_looks.cfg`.)
- `uppm ls-available` and `uppm search` end with an error when a config file or a formula
  directory goes away between `stat` and opening it (`formula-repo-list.c:113`,
  `list-available-packages.c:45`), whatever the other repositories offer.

## 7. Plan

Done, in the order of their weight: the store and its proofs, the command line on
top of it, the git synchronisation, the commands on formula repositories, the
dependency graph, the self upgrade, downloads, the texts and their coders, the
listings over the abstract store; and the proofs of section 5.  Next:

1. The two searches for a formula (`formula-locate.c`, `formula-path.c`) compared
   over one list of repositories.
2. `tree`, which walks the installed packages as `depends` walks the formulas.

## 8. Not modelled

- `tree`, `info-available`, `formula-view`, `-cat`, `-bat`, `-edit`, `formula-repo-info`,
  `formula-repo-list`: they read one file or one list and print it, or start a pager
  or an editor on it.  `is-available`, `is-installed`, `is-outdated` print what the
  checks of `Uppm` return.
- `formula-path.c` takes the last repository that has a formula where
  `formula-locate.c` takes the first: with a formula in two repositories `formula-view`
  shows another text than is installed.
- Help texts, `about`, the sample of a url transforming program, `cleanup` (a no-op in
  this revision), system information.
- The wrappers of libraries (tar, zlib apart from its loop over stdin, regex, sha256, the
  search for executables, url coding), and the contents of install scripts.
- Of git: lock files and untracked files that a crash leaves, transport and
  credentials.  Of formula repositories: the times in their config files, and a
  `repos.d` or `run` that is not a directory.
- Of `uppm depends`: the layout of the graph.  Of downloads: those to standard output
  or standard error, and a second url, which no caller passes.
- More than ten dependencies in one formula, for which the code has no room
  (`install.c:697`).
