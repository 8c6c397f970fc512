# Verification of the MkPFS-PS5 payload

This directory holds TLA+ models of the payload's core, the TLC runs that check them on small
instances, and theorems about them that the TLAPS proof system checks for every value of the
constants. Paths are relative to the repository; C files without a directory are in `src/`.

Contents: 1 the system, 2 the modules, 3 the runs, 4 fairness, 5 what is proved, 6 what the code does
otherwise than it says, 7 limits of the models, 8 what is not modelled, 9 plan.

## 1. The system

The payload is one process. libmicrohttpd answers HTTP requests on a single polling thread
(`websrv.c`), so **request handlers never interleave with each other**. Work that takes long is a
*job* (`file_task_t`) in the list `g_tasks`, done by a detached `task_worker` thread; handlers and
workers share the list under `g_tasks_lock`, the transfer slots under `g_url_download_lock`, and
two atomic flags per job, `cancel_requested` and `pause_requested`. Conversions and URL downloads
keep journals on disk and are taken up again when the payload starts (`main.c`).

| component | sources | state | operations | hard behaviour | what makes it correct |
|---|---|---|---|---|---|
| task registry | `task.c`, `filemgr.c`, the jobs of `upload.c` and `download.c` | `g_tasks`, job states and flags, `g_url_download_workers` | create, cancel, pause, resume, retry, sweep, shutdown | workers against handlers, slot wake-ups, a job freed under its worker | one owner per active job, one active file system job, slots counted, cancel and shutdown settle |
| package installs | `filemgr.c`, `pkg_installer.c` | queue in `g_tasks`, `g_pkg_worker_started` | enqueue, take, finish | order, sweeping of entries nobody has seen | one at a time, in the order asked |
| URL download | `url_download.c` | `.part` file, journal, byte counters | request, range resume, checkpoint, publish, discard, restore at start | crash at every step, power loss, servers that ignore ranges | a name stands for a whole durable file or for nothing |
| conversion | `filemgr.c`, `mkpfs_native.c` | journal, recovery note, exFAT and PFS stages, output | build, pack, verify, publish, clean up, restore at start | crash between any two file operations, a source that changes | the output is one snapshot of the source, stages are reclaimed |
| PFSC packer | `mkpfs_native.c` | ring of slots, thread pool, output file | read, compress, store in order, checkpoint, stop | threads in any order, errors and cancel while others wait | what a single thread would have written |
| image formats | `mkpfs_native.c`, `exfat_upcase.h` | bytes | layout, checksums | arithmetic at field widths | readers accept the image |
| file system jobs | `filemgr.c` | private files, source, target, a ring of buffers for a large file | copy, move, delete, permissions | each step may fail, cancel, crash; reader against writer | no data is lost, done means all done, a copy is whole or absent |
| extraction | `filemgr.c`, `archive_extract.h` | private folder | decode, inspect, publish | leftovers under one's own name, failure after publication | all or nothing under the output name |
| copy and count queues | `filemgr.c` | queues of files and folders | copy, count | producers against consumers | same as the plain loop |
| launcher | `app_installer.c`, `main.c` | files and marker of the Home Screen title, the firmware's entry | stage, verify, mark, forget, register, put back | a start that fails or dies anywhere; a firmware that refuses | the title is whole, and registered or marked |
| browser upload | `upload.c`, `websrv.c`, `assets/main.js` | job counters, a stream with a private file per request | prepare, begin, data, end, finish, free | lost answers and connections, cancel from another tab | done means every file published |
| browser download | `download.c` | prepared job, file or tar stream | prepare, open, read, end | a stream nobody opens, cancel while sending | done means all parts handed over |
| text editor | `text.c` | none but the file | open, create, save with a version | two tabs | nobody's change is overwritten unseen |
| HTTP server | `websrv.c`, `main.c` | connections | dispatch, ends of connections, start, stop | a connection ends late | callbacks in order |
| listing, helpers, package metadata | `list.c`, `space.c`, `file_response.c`, `fs_util.c`, `path_util.c`, `json_util.c`, `pkg_info.c` and others | none | read, format | edge cases of strings | as the interfaces say |

How they interact: the web server calls handlers and stream callbacks; handlers create jobs in the
registry and set their flags; workers run the bodies (conversion, copy, extraction, URL download)
and settle the jobs; upload and download streams settle theirs from callbacks of the server thread.
Bodies meet each other, and other programs, only on the file system. At start `main.c` first
resumes one conversion, then downloads, then opens the port; when the port is bound, a thread of its own
refreshes the Home Screen title (`app_install_if_needed`), which shares nothing with the jobs.

`PROJECT.json` lists every component with its state of modelling, the hazards with the lines
they bite at and the properties that watch them, and for each definition the lines it models.

## 2. The modules

| module | models | checked by | proofs |
|---|---|---|---|
| `TaskRegistry` | the job list, worker threads, slots, installs, browser transfers as jobs, shutdown | `MC_TaskRegistry` | `TaskRegistryProofs` |
| `UrlDownload` | downloads to one name, with file, journal and server | `MC_UrlDownload` | `UrlDownloadProofs` |
| `Conversion` | one conversion, with stages, journal and note | `MC_Conversion` | `ConversionProofs` |
| `PfscPack` | `pack_pfsc_into_stream` and `pfsc_worker_main` | `MC_PfscPack` | `PfscPackProofs` |
| `FileJobs` | copy, move, delete, permissions, extraction | `MC_FileJobs` | `FileJobsProofs` |
| `CopyPipeline` | `copy_file_pipeline` and `copy_pipeline_reader` | inside `FileJobs` | `CopyPipelineProofs`, on which `FileJobsProofs` builds |
| `BrowserTransfer` | uploads and downloads of tabs | `MC_BrowserTransfer` | `BrowserTransferProofs` |
| `Launcher` | `app_install_if_needed`, over many starts | `MC_Launcher` | `LauncherProofs` |
| `AtomicPublish` | abstract: a job makes a file under a name, or does not | as a property of `UrlDownload`, `Conversion`, `FileJobs` | refinement in the proofs of these three |
| `SerialPack` | abstract: blocks are stored as by one thread | as a property of `PfscPack` | refinement in `PfscPackProofs` |

Conventions. A step of a thread that can interleave with something visible is an action; a program
counter (`pc`) is named after what comes next. Handlers are one action each, since one server
thread runs them; the one handler that continues after it released the list (the cancel broadcast,
the removal of a download's files) has a second action and `handler` says what is left.
Failures come from the constant `Faults`, the set of those a run allows. A definition preceded by
`Mutant:` is a plausible wrong form of the one after it; nothing else refers to it.

**TaskRegistry.** `task[t]` is the `file_task_t` with id `t` reduced to operation, state, the two
flags, `worker_active` and, for packages, whether a listing has reported the end. `thread[w]` is a
`task_worker` thread: *attach* sets `worker_active`, *slot* waits for a transfer slot, *prepare* and
*run* are the body, *giveback* returns the slot, *settle* is the last transition of the job,
*detach* is `task_worker_release`. The body ends with any result its flags allow. `pkgWorker` is the
installer thread, `stopper` the thread that `api_exit` starts, which scans (`filemgr_cancel_and_wait_for_tasks`)
until nothing is active. Uploads and downloads of the browser have no thread: `CreateTransfer`, `OpenDownload` and
`EndTransfer` are requests of the browser, which nobody owes, and what moves their bytes is `BrowserTransfer`'s
matter. An upload whose tab disappeared therefore keeps the shutdown waiting, as in the code, and
`ShutdownCompletes` is stated for shutdowns that do not wait for a transfer. The 60 seconds an ended job is kept are nondeterminism: it may be swept at
any request.

**UrlDownload.** `file[i]` is what an inode holds (`data`, a sequence of chunk numbers), and how much
of it is on the medium (`durable`); `part` and `dst` are the names; `journal` is the journal file,
replaced atomically; `worker[t]` is the body `download_url_to_file`, with descriptor, offset and
what the server answered. `Crash` ends the process at a point of `CrashAt` (with fault `power`,
it also keeps only a prefix of what was not synchronized); `Restart` is `url_download_resume_interrupted`
with its checks, unless a conversion was resumed first. `Platform` selects the console code (SceHttp) or
the code of the host build, which differ in how the rest of a file is accounted.

**Conversion.** Versions of the source folder are functions from files to version numbers; `exfat`
says which version of which file the first stage holds and which of it is safe on the medium; `pfs`
says for each block which exFAT state it was packed from. `journal` has the phase and the two
counters of `mkpfs_resume_state_t`; `note` is the announcement beside the output. The actions follow
`mkpfs_convert_folder_resumable` and the branches of `task_worker` after it (`Judge`, the `Drop...`
actions, `Settle`). `Restart` is `filemgr_resume_interrupted_conversions`, `Sweep` the branch that
reclaims a journal whose output exists.

**PfscPack.** `main` is the writer, in the calling thread: it fills slots within the window,
dispatches them, stores the block that is due, checkpoints, and ends the pool. `thread[t]` is
`pfsc_worker_main`. Mutex, condition variables and broadcasts are explicit: a thread that sleeps is
in a sleeping state until a signal moves it (`Signal`, `Woken`, `AllWoken`). `file` and `table` are
the output's blocks and offsets, `mark` the checkpoint, `safe` what is on the medium.

**FileJobs.** One source folder with a few files, a destination folder, an output name for
extractions. A copy or a move is of the folder, or of one file of it (`job.one`): a move on one device is then a plain
`rename` of the file (`Route`), which does not look at `allow_overwrite`. A file copy is *open a private file, write, publish* (`link` and `unlink`, or on FAT a
second look and `rename`), a cross-device move is copy, check, remove; an extraction is *prepare
the private folder, decode, inspect, rename, synchronize, clean up*. The removal of a private file or folder may
fail, and that of a folder must fail where the inspection did, for depth or a name `path_join` refuses;
`stuck` says that a removal was tried in vain. Requests follow each other, so
the second meets what the first left. A file of `Large` is copied by `copy_file_pipeline`: there the
module runs an instance of `CopyPipeline` between the opening of the private file and its publication.

**CopyPipeline.** `slot` is the ring, `ctl` the two flags `done` and `error`, `reader` and `writer` the two threads
with their places in the ring, `sink` the chunks in the private file. What is between lock and unlock is one
step; `read` and `write` are steps of their own, without the lock. A thread that waits is *asleep* until
the other one signals (`Woken`). `Stop` and `Join` are the end of the call, after which the buffers are freed.

**BrowserTransfer.** `tab` is the script in `assets/main.js` that prepares a task, sends one file
after the other, polls, gives up or finishes; `request` is a request on its way; `context` is
`upload_context_t` or the download stream on the server; `task` the job with its counters. A
connection may be lost before, during and after its work, and the server may notice it late. A callback
of the server is one step (`Serving`), but on a file system without links a publication is two, the look at the name (in `Finish`)
and the rename (`RenameInto`), as another program may make the file in between (`TakeName`).

**Launcher.** `disk` is the title's folder: which port `param.json` links to (or that it is absent, cut off, or
another program's), and which icon is there. `registry` is the firmware's entry with the files it was made from,
`marker` the file that says a registration is pending, `worker` the thread `launcher_install_worker` with the
locals of `app_install_if_needed`. One action per stretch of the function between two visible effects;
each file operation and each call of the firmware may fail, the firmware may refuse to forget an
entry, or report success without refreshing one, and the payload may die at any step and be
started again, with the same port or another one.

## 3. The runs

| run | question | bounds | result |
|---|---|---|---|
| `registry` | slots, hand-over of jobs between threads, exclusion, wake-ups, installs; do queue and shutdown come to an end | 2 jobs of any kind, 2 packages, 2 threads, 1 slot, 1 resume | holds |
| `url_host` | whole files, true progress, `AtomicPublish`, with every fault, crash and power loss | 3 chunks, 1 job, journal every 2 chunks | holds |
| `url_console` | on the console with a server that ignores ranges, FAT, every fault and every point of a crash: is what was fetched or paused kept, does every download come to rest | 2 chunks, 1 job | holds |
| `url_sce_resume` | is a resumed download that has been read to its end accepted on the console | 3 chunks, no faults | violated, section 6 |
| `url_restart` | is what the payload leaves when it dies taken up by the next start | 2 chunks, crashes only | violated, section 6 |
| `convert_safe` | snapshot, journal, stages announced, no retry loop, `AtomicPublish`, with edits, faults and crashes anywhere | 2 files, 2 blocks, 2 versions | holds |
| `convert_grow` | does recovery keep completed work when nothing but a crash happens | 2 files, no faults but the crash | violated, section 6 |
| `pack_pool` | ring, order (`SerialPack`), checkpoint, end of threads, return | 4 blocks, 1 to 3 threads, 2 calls | holds |
| `file_jobs` | nothing lost, done means all, whole copies, sound ring, clean ends, leave for copies, `AtomicPublish` of extractions, does every job end | the folder or one file of it, a small and a large one, 2 jobs in a row, 2 slots, 3 chunks | holds |
| `browser` | whole files, done means published, references, ended stays ended, no clobbering, does every transfer end | 2 tabs, 2 files of one chunk, the same two names for both tabs and another program | holds |
| `launcher` | whole metadata, a removed title is marked, success means registered, a marked title is registered in the end | 2 ports, 3 attempts, 4 faults or crashes | holds |
| `launcher_first` | is a title that is found up to date registered for the bound port | 2 ports, 1 crash, no other fault | violated, section 6 |

Why these bounds show the interesting cases. For the safety and action properties of the runs that
hold they bound only the run, since section 5 proves these for all values of the constants (for `UrlDownload`
under the hypotheses given there); the liveness properties and the violations rest on the runs alone.

* *registry*: one slot and two downloads make a waiter and a holder; two threads and one resumed job are the
  case in which a job has an old and a new thread; two paths and two jobs make an order and a duplicate;
  a transfer and a file system job, or a transfer and a download, meet in every state.
* *url*: three chunks with a journal every second chunk give states with data beyond the journal, a
  journal before the data and both equal; three inodes suffice since a crash leaves at most one
  private file, another program one, and a new part one. `url_console` has two chunks with a journal after each, one inode less,
  and all crash points and faults but another program, for its liveness. The runs that are violated are cut down to what their
  finding needs, so that the behaviour TLC prints is the one described. `MaxDone` caps the byte counter, which on the
  console can pass the length; two lengths are enough to see the wrong sum, and it must be at least the length
  (`DownloadAssumption`), or the bound would stop a download that the code does not stop.
* *conversion*: with two files one is before and one after a checkpoint; two blocks likewise;
  two versions suffice to see a mixture.
* *packer*: four blocks with at most three threads (a window below the number of blocks) reuse slots; one
  block is incompressible, so stored sizes differ; a checkpoint every two blocks falls between.
* *file jobs*: two jobs allow fail, cancel or die, and ask again. Three chunks through two slots (the code has
  more of both) fill the ring, wrap around it and leave the end of the source for a full or an empty ring.
  An extraction after one that died meets a private folder of an earlier launch; archives with links are left to `extraction.cfg`
  (section 6), whose failed inspection differs from that of a deep archive only in that the clean-up can work.
* *browser*: a second tab with an upload without a task, to the same names, meets every state of the first, which uploads or
  downloads; another program may make a file with either name at any time.
* *launcher*: two ports are a refresh with a change and one without; three attempts are the code's
  `LAUNCHER_INSTALL_ATTEMPTS`; four faults suffice for all attempts to fail and the way back as well.

The type of the variables is a part of one invariant of each module (`ProgressIsTrue`, `StagesAnnounced`,
`RingIsSound`, `CopiesAreWhole`, `ReferredIsKept`, `MetadataWhole`), and proved with it; of `TaskRegistry` it is
the theorem `Typed`.

`convert_safe`, `convert_grow`, `url_host`, `url_console`, `launcher` and `launcher_first` check for deadlock. The other runs do not, as
the system may really stop there: users need not ask for anything more, and the models bound how much they ask for. That no thread waits for ever is stated as liveness instead (`CallReturns`, `QueueDrains`, `JobSettles`).

Every property of a run that holds has a mutant in `PROJECT.json`: a wrong form of one definition, under which the run reports
that property violated. They show that each property depends on the code it is about.

## 4. Fairness

Weak fairness only, and only of what the machine does by itself, but for the next start of the payload, which a
liveness property about what a crash left has to suppose.

* `TaskRegistry`: of each worker thread, the installer, the broadcast the cancel handler still owes, and
  the shutdown thread. Threads are scheduled, and the operations a body makes return (sockets have timeouts).
  No fairness of users: nobody has to cancel, resume or retry, nor to go on with an upload or a download.
* `UrlDownload`: of the worker, of the removal of files a handler still owes, and of the start after a
  crash. A body is one sequential thread, so weak fairness of its steps is that it is scheduled.
  `DownloadSettles` speaks of the run of the process up to a crash.
* `Conversion`: none, only safety is checked. Its worker is a sequential thread whose loops are
  over finite sets; that it blocks nowhere is checked as absence of deadlock in `convert_safe`.
* `FileJobs`: of the worker, which is also the writer of the ring, and of the reader thread.
* `Launcher`: of the thread, and of a next start. `RetryRegisters` is a promise for "next launch", so it
  supposes that somebody launches the payload again; `MaxFaults` makes failures end.
* `PfscPack`: of the writer and of each thread. Mutexes need no stronger fairness since their
  critical sections are single actions and a blocked thread is enabled whenever the mutex is free.
* `BrowserTransfer`: of each open tab's script, and of the end of a connection, which MHD forces
  after 120 seconds of silence (`MHD_OPTION_CONNECTION_TIMEOUT` in `websrv.c`). Not of the
  data: a connection may be silent until that limit. Nor of prepare, which a user does.

## 5. What is proved

Each safety property, action property and refinement that a passing run checks is also a theorem. The
theorems need what the modules assume of their constants (`...Assumption`), which TLC evaluates in each run, and
nothing else, but for `UrlDownload`, whose further hypotheses are given with its theorems. Each inductive invariant
`IInv` was checked by TLC on the bounds of the module's run before it was proved.

All are laid out in one way. Lemmas of the form "what is known of the constants" and "what this helper does" come
first; then one lemma per action, or per kind of action, says that it keeps `IInv`, with one step per conjunct it
can disturb; one lemma combines them over the disjuncts of `Next`; the theorems follow. A refinement
is a lemma per action that says to which abstract action, or stutter, it maps.

### The registry

`TaskRegistryProofs` proves, for any finite set of threads, any set of paths, and any limits
(`RegistryAssumption`):

| theorem | says |
|---|---|
| `Inductive` | `Spec => []IInv` |
| `Typed` | `Spec => []TypeOK` |
| `SlotsCounted` | the slot counter is the number of threads that own a slot, and is within the limit |
| `OneFileSystemJob` | at most one file system job is queued or running |
| `OneWorkerPerJob` | no two threads are in the body of one job, although resume and retry start a second one |
| `NoOrphanJob` | each active download from a URL or file system job has a thread that will settle it |
| `InstallsInOrder` | a package starts only when no other runs and none asked for earlier waits (an action property) |
| `NobodyOversleeps` | a thread sleeps on the slot condition only while no slot is free and its job is not canceled, or a broadcast is on its way |

None of the last six is inductive by itself. `IInv` adds:

* `SlotInv`: a slot is owned only between taking and giving it back. Without it the return of a slot could
  bring the counter below the number of owners.
* `ResultInv`: which results a thread can carry at which point. It separates a thread that has already
  settled its job early (a canceled waiter) from one that still will.
* `BusyInv` and `OwnedInv`: threads that are *busy* (between their creation and the job's last
  transition) and active jobs correspond one to one. `OneWorkerRuns` alone says nothing of a thread
  that is about to attach, and then `Resume` could make a second one.
* `PkgInv`: the running install is the one the installer thread has.
* `UncreatedInv`: ids not given out are unused, so that a new job changes no other.

The argument: `TypeStep` and `SlotStep` handle typing and the counter (cardinalities of the set of owners
with one thread more or less). For the rest, every action is one of a few kinds: a step of one
thread that leaves jobs and ownership alone (`QuietInv`), a creation of a thread (`SpawnInv`, `CreateInv`),
a change of flags (`MildInv`), or a step of a worker described by its effect on one thread and one job
(`StepEffect`, `StepInv`). `NextInv` combines them with one case per action.

`NobodyOversleeps` needs one more part, `WakeInv`, on top of `IInv`: a thread that sleeps is at the wait loop
(`Asleep`), so that its job is its own and only `Cancel` can set the flag it would have to see. Then a
cancel owes a broadcast, a return of a slot broadcasts at once, and all other steps leave sleepers,
slots and flags alone (`WakeKept`).

### The launcher

`LauncherProofs` proves, for any set of ports, number of attempts, choice of faults and steps at which the payload
may die (`LauncherAssumption`):

| theorem | says |
|---|---|
| `Inductive` | `Spec => []IInv` (with the type invariant) |
| `RegisteredIsWhole` | what the firmware reads of a registered title is whole at every moment |
| `RemovalIsMarked` | a title that was removed and not registered again is marked, or the log says that it could not be |
| `RefreshRegisters` | a refresh that reports success registered the title for the bound port, unless the firmware refused to forget the old entry |

`IInv` there is the three properties with what the thread knows at each point: `FilesInv` (what is staged and what
the backup is worth: it is whole, since `write_owned_param` refuses to go on over anything else),
`MarkerInv` (from the removal on, a marker exists or was told) and `EntryInv` (an entry that is there
when the installer is called is one the firmware refused to forget). `FilesInv` has to say that an error of the
staging has ended the start before the files are verified, which the code tests only once (`Decide`).

### URL downloads

`UrlDownloadProofs` proves, for any length of the file, checkpoint interval, answers to a range, points at which the
payload may die, and faults:

| theorem | says | needs |
|---|---|---|
| `NameIsWhole` | the final name never stands for a part of the file | `Alone`, `Counted` |
| `ProgressHolds` | the progress shown is the size of the private file; types | `Alone` |
| `FetchedIsKept` | while a download fetches or is paused, there are a journal and a private file that holds what it counts | `Alone` |
| `DownloadPublishesAtomically` | a download implements `AtomicPublish` | `Alone`, `Counted`, `Kept` |

The hypotheses are what the code relies on:

* `Alone`: one job has the destination. Two may have it by `url_twice` of section 6.
* `Counted`: if connections break, the server sends a length, and (on the console) answers no range request
  with 206. A body without a length that is cut short looks complete; a rest on the console is compared with
  the wrong number (finding 1).
* `Kept`: no other program takes the name on a file system without links, where nothing protects it between
  `lstat` and `rename` (section 7).

`url_host` and `url_console` satisfy the hypotheses of the theorems whose properties they check. Crashes, power loss
included, are allowed at every point.

`FetchedIsKept` is as much of "retains a validated private part file and atomic journal" (README.md:140) as the
code keeps. It begins with the first journal, ends with the last transition of the job, and leaves out the gap between the truncation of
a file whose range was ignored and the journal that says so. What it leaves out is what `url_restart`, `url_discard` and `url_power` of section 6 are about: that the
next start takes up everything a crash leaves (`RestartResumes`) does not hold, and is no theorem.

`IInv` says of the files that each is a beginning of the remote file or another program's, with the name's whole
and on the medium (`FileInv`); of the journal that what it counts is in the private file, from the first one to the end of the job or while the job is paused (`JournalInv`); and of a job,
where its worker is for each state (`StateInv`), what it believes of its file (`SizeInv`, in particular that the
length compared at the end is the right one, which `Counted` makes true), what is counted (`CountInv`) and what is
known of the file on the way to its name (`WholeInv`). `PublishedIsWhole` alone is not inductive: the worker could
publish whatever the private file holds.

### Conversion

`ConversionProofs` proves, for any number of files, blocks and versions of the source, and any faults, with edits
of the source and crashes anywhere:

| theorem | says |
|---|---|
| `OutputIsSnapshot` | the output is complete and packed from one state the source was in |
| `JournalIsBacked` | what the journal counts of a stage that is there is on the medium |
| `StagesStayAnnounced` | while a private stage exists, so do the journal that reclaims it and the note; types |
| `FailedIsNotRetried` | a recovered job that fails for its stages or its source leaves no journal |
| `ConversionPublishesAtomically` | a conversion implements `AtomicPublish` |

The core of `IInv` is `JournalInv`: what the journal claims (`Covers`) holds of the stages, for the journal on disk and
for the one that is about to be written. It is stronger than `JournalCovered`, since it also says that the files counted are
those of *one* tree the source was in, which is what a restart relies on when it goes on with the same stage.
`BuildInv` is how this comes about: the files counted so far are those of the scan, and the file that is being
read has not changed since, as its device, inode, size and time were compared with the scan when it was opened.
`ControlInv` and `PhaseInv` say which phase the worker has at which point and that its copy of the journal is the
one on disk except while files are copied, `PackInv` how far the PFS stage is, `StageInv` in which order
the end removes stages, journal and note.

Refinement: a request or a restart is `Begin`, `Link` or `Rename` is `Publish`, the failing `Unlink` after a link is `Retract`,
`Settle` is `Complete` or `Stop`, and another program that takes the name, a crash and the end of the record map to
`Take`, `Crash` and `Forget`; all else stutters.

### The packer

`PfscPackProofs` proves, for any number of blocks, threads, calls, distance of checkpoints and faults:

| theorem | says |
|---|---|
| `RingStaysSound` | a slot holds the block due in it, no two threads work on one slot, no thread outlives the slots; types |
| `CheckpointsHold` | the blocks and offsets before a checkpoint are on the medium |
| `PacksInOrder` | packing with a pool implements `SerialPack` |

`SlotInv` says that the blocks between the two ends of the ring and the pending slots correspond, which is where
the number of slots and the remainder matter: two blocks of the window cannot share a slot. `ThreadInv` says that a thread
at work has claimed a pending slot that no other thread has, so the writer cannot release one under it. `StoreInv`
says that the file and the write buffer together hold the blocks stored so far in order, and `MarkInv` that what is
below the mark is safe. The simulation maps the storing of a block to that of the serial loop, and
everything the threads do to a stutter.

### File system jobs, and the copy by two threads

`CopyPipelineProofs` holds lemmas that each step of the two threads keeps `PipeInv`, for any number of slots (two or more)
and chunks; `FileJobsProofs` uses them and proves, for any finite set of files, any of them large, any number
of requests and any faults, with a crash at any step:

| theorem | says |
|---|---|
| `NothingIsLost` | a move removes from the source only what has a whole copy |
| `DoneIsAll` | a job that is reported done has done all it was asked for |
| `EndsAreClean` | a job that is done leaves no private file or folder; one that failed or was canceled leaves only what it tried to remove and could not |
| `CopiesWhole` | the destination never shows a part of a file; types |
| `PipelineSound` | reader and writer share the ring soundly |
| `CopiesWaitForLeave` | a copy without leave to overwrite leaves the files of others alone, but for one that appears between the second look and the rename on FAT (an action property) |
| `ExtractionPublishesAtomically` | an extraction implements `AtomicPublish` |

`PipeInv`: the chunks handed over and not yet done with (`Held` of them) lie in order in the slots from the writer's on, and
no other slot is ready (`RingInv`); the reader's place is `Held` ahead of the writer's (`ReaderInv`); what is written is a
beginning of the source, all of it when the writer reports success (`WriterInv`). A full and an empty ring look alike to
the two places, so the ready flags have to be counted, not the places compared.
`IInv` of the jobs adds that the two threads run only while the worker waits for them (`PipeAt`), what a copy, a
removal, a change of permissions and an extraction have done so far (`CopyInv`, `RemoveInv`, `ModeInv`,
`ExtractInv`), and that a job at its end without error has achieved what it was asked for (`DoneInv`).
For a move the removal begins only when every file that is still in the source has a whole copy, which the end of the
copying establishes (`AfterCopy`) and `RemoveInv` carries along, also into a second request that finds the source half removed.
`SingleInv` says that a job for one file is about that file until its route is taken, and `LeftInv` that something private is left only
by a removal that failed, in a job that went wrong. `CopiesWaitForLeave` is of copies only: a move on one device renames without
a look at the leave (`move_file` of section 6).

### Browser transfers

`BrowserTransferProofs` proves, for any finite set of tabs, any number of requests, files and their size, and any connections lost:

| theorem | says |
|---|---|
| `NamesAreWhole` | only whole files get a final name |
| `DoneIsPublished` | an upload that is done has published every file of it |
| `ReferencesHold` | no task is freed while a connection refers to it; types |
| `LeaveIsAsked` | a file of another program is replaced only by an upload that found it when its request came and has leave, or, without links, if it appeared between the look and the rename (an action property) |
| `EndsStay` | a job that ended stays as it ended (an action property) |

The heart is `CountInv`: the number of streams of a task is the number of connections that refer to it
(a cardinality, with one connection more or less in each step), and the number of files it counted is at most that of the files
that have *landed*, that is, are whole under their names and will not be sent again. The finish handler compares
that counter with the total, and `LandedInv` says that the script sends one file after the other, so no file is counted
twice although an answer may be lost after its file was published. `TabInv` and `LiveInv` relate what the tab has done to
what the server can know of it. `LookInv` is of a connection between its look at the name and the rename: it has the whole file and no
reason to stop, and a file that has the name came after the look. The server does nothing else meanwhile, as the look and the
rename are in one callback, but other programs do.

### Only model-checked

* Liveness: `QueueDrains`, `ShutdownCompletes`, `DownloadSettles`, `CallReturns`, `JobSettles`, `TransferSettles` and
  `RetryRegisters`. Their proofs need fairness and `ENABLED`, which are out of the prover's reach.
* The violations of section 6, which are counterexamples and need no proof.

## 6. Where the code does otherwise

Four runs check one property each that the repository states, and TLC finds a behaviour in which it fails.

1. `url_sce_resume`, `url_download.c:951`: after a range answer `content_length` is the length of the rest, the
   counter it is compared with started at the offset. On the console a resumed download that has been read to its end fails there.
   The host build adds the offset where it reads the answer, so the regression tests do not see it
   (README.md:142, "pause, retry, and restart recovery through safe range requests"). `WholeIsAccepted` names this
   comparison only, so the run cannot end as `url_416` does.
2. `url_restart`, `url_download.c:893`: when the range is ignored, the private file is cut to zero and the journal is
   replaced later. A payload that dies in between leaves a journal that counts more than the file has; no start takes it up, and
   a request for the name is refused because of it (README.md:140, "A transient failure or payload restart retains a validated
   private part file and atomic journal").
3. `convert_grow`, `mkpfs_native.c:1503`: the recovered stage must be exactly as long as at its checkpoint; files
   written after it make it longer, and then all work is thrown away although the source is unchanged
   (README.md:105, "continues from the last completed file").
4. `launcher_first`, `app_installer.c:622`: a launcher is up to date when its files are as wanted and no marker
   exists, but the marker is written only after staging and verification. A payload that dies in between leaves
   the new files under the old registration, and the next start on that port does not register them: the
   entry keeps the old port (README.md:54, "The startup notification and managed launcher follow the port that
   actually bound successfully").

Six more configurations beside the modules show disagreements of the same kind. They are not among the runs of
`PROJECT.json`, but each prints its behaviour when it is run (`tlc -config url_416.cfg MC_UrlDownload`), and the properties
of the runs that hold say where they stop short of them.

* `url_416`, `url_download.c:524`: a download paused between its last chunk and its publication asks, when it is resumed, for
  a range that starts at the end of the file. A server that knows ranges has only 416 to say, which is an error here, now and
  at every retry (README.md:142 again).
* `url_discard`, `url_download.c:205`: the clean-up removes the private file before the journal. A payload that dies in between
  leaves a journal without a file, with the same end.
* `url_power`, `url_download.c:978`: checkpoints and pauses synchronize the journal, but the private file only before
  publication. After a loss of power the journal of a paused job may count bytes that are gone (README.md:153, "stopped
  at its last durable checkpoint and can resume safely").
* `url_twice`, `url_download.c:1130`: a second request for a name is refused when the name or its journal
  exists; the worker writes the journal later. In between, two jobs get the same private file, and the second appends to what the
  first has published (README.md:140, "Each download is written to a private temporary file").
* `extract_deep`, `filemgr.c:2634`: the inspection of an extracted tree gives up below `STAGING_TREE_MAX_DEPTH`, and at a name
  `path_join` refuses; the clean-up that follows has the same limits, so the private folder stays (README.md:128, "its private
  staging directory is removed").
* `move_file`, `filemgr.c:1481`: a move on one device renames whatever `allow_overwrite` says. A file that another program
  makes under the name after the request was checked is replaced (RELEASE_NOTES_v0.4.6.md:53 lists "L5: Copy/move overwrite=0
  TOCTOU" as fixed; it is for copies).

`extraction.cfg` is a longer version of `file_jobs` for extractions alone: three in a row, also of archives with links. It holds.

## 7. Limits of the models

General: a file operation that a model lets fail leaves what the C library leaves; short writes are folded
into failing writes. Wall clock, speed, estimates and messages are left out. Ids and counters do not wrap.

* *registry*: that a job is not freed under a thread is not claimed: `worker_active` is one flag
  (`filemgr.c:2407`), but a job that is paused and at once resumed has two threads for a while, of which the first
  clears the flag of the second when it returns. A transfer has one stream in this model, and ends in any way
  at any time.
  A new job between the last scan and the stop of the server is allowed but its fate is not followed.
* *url*: lengths are known (`HasLength`), the server has one version of the file and answers 200 or 206; a range
  from the end of the file on is refused (416), which the code takes as an error like any other status. A loss of power takes
  unsynchronized bytes, never directory entries. In
  `url_host` another program on the name (`foreign`) and file systems without links (`nolink`) are
  not combined: between `lstat` and `rename` nothing protects the name there, which the README of the
  program says as well ("checks again for an existing name before the same-directory rename").
* *conversion*: one conversion at a time. `Edit` changes a file before or after it is read, not during. Another
  program does not take the name between the second look and the rename. Removing one's own files succeeds
  (`LoseStage` covers stages that vanish). `StagesAnnounced` leaves out a stage that is a second
  link of the output, after a crash between `link` and `unlink`: it takes no space, but stays, as the
  clean-up refuses files with two links. A journal in phase DONE that a crash left also stays, with its note.
* *packer*: condition variables do not wake up spuriously (the loops in the code re-test, so this only
  removes stutters). Reading a stage that somebody changed is `Conversion`'s matter.
* *file jobs*: the crash is that of the process; `copy_file_buffered` does not synchronize, so after power
  loss a cross-device move may have lost what it had removed. The private file of a copy that died stays.
  Cancel is seen at the steps the code tests it. Deeper trees repeat the steps modelled.
  Of jobs for one file, copy and move are modelled; delete and permissions of one file are a part of those of a folder. What another
  program adds to the source or changes in it between the copy and the removal of a move is not modelled. On a file system without
  links, a file that appears between the second look and the rename is replaced (`late`), which the properties excuse.
* *browser*: no crash of the payload, as nothing survives it. The script sends one file at a time; other clients of
  the API are outside. One tab uploads or downloads, the other uploads without a task
  (and never with overwrite); that two prepared jobs exclude each other is `TaskRegistry`'s matter. A file and a tar stream are merged: a download has `Parts` parts. Files of length zero,
  whose length is not compared, are left out. Only the upload request gets lost; the
  small requests for cancel and finish do not. A prepared download whose request got lost stays
  queued; a tab that closes between two files leaves its job running, and a cancel only sets the flag of a running upload, which
  nobody is left to see: `TransferSettles` excludes both. On a file system without links, a file that another program makes between
  the server's look at the name and the rename is replaced (`late`), which `NoClobber` excuses. A file whose last data arrived before the cancel may still be published
  after the job was reported canceled.
* *launcher*: a firmware that refuses to forget the old entry and then reports success without refreshing it leaves the
  old registration, and the code believes the report: `SuccessIsRegistered` excuses it (`refused`).

## 8. Not modelled

* *Image formats* (exFAT, PFS, PFSC bytes): pure data; see the plan.
* *Copy queue and count queue* (`filemgr.c` 404-684 and 1144-1385): compiled only with
  `FILEMGR_AGGRESSIVE_COPY`, which `filemgr.c:34` sets to 0. (`FILEMGR_PIPELINE_COPY` is 1, and is modelled.)
* *Text editor*: one request is one handler, so two tabs never interleave in it, and what its version check
  misses is a writer outside the server between check and replacement (`text.c:411`); see the plan.
* *Listing, space, MIME, JSON, notification, package metadata*: read-only, without state of their own.
* *Archive libraries* (`third_party/`): seen as a call that fills a folder, or fails.
* *The web pages*, but for the upload script.

## 9. Plan

Done, in order of importance: registry with browser transfers, URL download, conversion, packer, file system jobs
with the copy by two threads, browser transfers, launcher; the two abstract specifications; the proofs
of all safety properties, action properties and refinements the passing runs check.

Next:

1. A server with two versions of a file in `UrlDownload`, with the proofs kept.
2. The start of the payload: conversions and downloads restored in the same start, several journals.
3. `TextEditor`: an outside writer over `text.c`, with `format_text_for_save` as a function of byte classes
   checked against a reference.
4. Pure functions: layout of PFS and exFAT over small trees, `path_util.c`, `pkg_info.c` offsets.
5. A theorem for two downloads with different names, or with one name once the window of `url_twice` is closed: today
   `Alone` is what separates the theorem from that finding.

## Running

    tlc -config url_host.cfg MC_UrlDownload     # one run
    tlapm TaskRegistryProofs.tla                # the proofs of one module

The modules with proofs are `TaskRegistryProofs`, `UrlDownloadProofs`, `ConversionProofs`, `PfscPackProofs`,
`CopyPipelineProofs`, `FileJobsProofs`, `BrowserTransferProofs` and `LauncherProofs`.
