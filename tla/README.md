# Model checking cush job control

This directory holds TLA+ models of the job-control shell `cush`
(`src/unnamed/part_000`, lines 1-936) and of the segregated-list allocator
`src/malloclab/mm.c`, and of the draft explicit-list allocator
`src/malloclab/mm2.c`. Each is modelled as a state machine and checked with
TLC.

## The system

`cush` is single-threaded. It also has an asynchronous SIGCHLD handler, and
the other actors are its child processes, the kernel and the user at the
terminal. It has four parts (spec.md names them):

| Part | Code | What it does |
|---|---|---|
| Job Registry | `jid2job`, `job_list`, `add_job` (106), `delete_job` (129), `job_with_jid` (260), `print_all_jobs` (222), `free_all_jobs` (246) | A job has a jid (the lowest free slot), a status, `num_processes_alive`, `child_pid_array` and the saved terminal state. |
| Pipeline Spawner | `iterate_over_pipeline` (477-665) | Blocks SIGCHLD and spawns each stage with `posix_spawnp` into one process group. A foreground pipeline takes the terminal (`TCSETPGROUP`). Then it registers the job and either announces it (background) or waits for it. |
| Status Monitor | `sigchld_handler` (292), `wait_for_job` (328), `handle_child_status` (379) | Reaps children, finds the job by pid, and updates its count and status. It also records the ^Z notice (`z_update_jid`) and the signal notice (`error_update_code`). |
| Job-Control Dispatcher | `check_for_builtin` (667-832) | The builtins `jobs`, `fg`, `bg`, `stop`, `kill` and `history`. `exit` is handled in `iterate_over_pipeline` (489). |

The read/eval loop in `main` (854-935) prints the pending notices, reads a
line and runs its pipelines in order (`iterate_over_command_line`). SIGCHLD is
blocked throughout `iterate_over_pipeline`. The handler can therefore run
only at the prompt or between two pipelines of one line. Inside a pipeline,
children are reaped only by `wait_for_job`'s blocking `waitpid(-1)`.

The `termstate_*` functions (terminal owner and attributes) are not under
`src/`. They are modelled from the spec.

The allocator `mm.c` is separate from the shell: the two share no state.
Blocks have a 4-byte header and footer (`struct boundary_tag`: size in words,
in-use bit). Free blocks sit on one of ten segregated lists (Pintos `list.h`
intrusive lists), chosen by size.

* `mm_malloc` takes a block from the first fitting list, or else grows the heap by `extend_heap`, and splits it with `place`.
* `mm_free` and `extend_heap` merge with free neighbours (`coalesce`).
* `mm_realloc` first absorbs free neighbours in place, and only then moves the data.

`mm2.c` is an earlier draft with one doubly linked free list (`struct block`:
header, `prev`, `next`; 24 bytes), first fit, and an empty `mm_realloc`.

## Modules

* **`Shell.tla`** is the shell together with its environment.
  * State:
    * `pc`: where the single thread is (`prompt`, `dispatch` between pipelines, `spawn`, `wait`, `exited`, `crashed`).
    * `line`: the pipelines of the current command line that have not run yet.
    * `cur`: the pipeline being spawned.
    * `jobs` and `jobList`: `jid2job` and `job_list`.
    * `procs`: the children, as the kernel sees them (pid, pgid, state, pending wait report).
    * `lastPid`: for cyclic pid allocation.
    * `tty`, `ttyAttrs` and `shellAttrs`: the terminal owner, the current attributes and the shell's saved attributes.
    * `zUpdate` and `errorUpdate`: the notices.
    * `fault`: which NULL dereference or abort crashed the shell.
    * `pipeFds`: the pipe ends the shell holds open. `StartSpawn` opens two per pipe (`pipe2`, `PipeEnds`); `SpawnFail` and `RegisterJob` close them (the two close loops); `SetupFail` leaves them open.
  * Shell actions. Each one covers one stretch of code between two points where SIGCHLD can be delivered.
    * `Prompt`: the notices plus `readline`, or EOF.
    * `EndOfLine`.
    * The builtins: `Jobs`, `Exit`, `Fg`, `Bg`, `Stop`, `Kill`.
    * `MissingArg`: `fg`, `bg` or `stop` typed without a jid, so `atoi(NULL)` crashes (line 684). The constant `OmitArgs` lets the command lines contain such builtins.
    * The spawner: `StartSpawn`, then `SpawnChild` (one successful `posix_spawnp`), `SpawnFail` (its failure path, lines 596-616) or `SetupFail` (an early return after a failed attribute or file-action call, lines 535-591), then `RegisterJob`.
    * `JobsFull`: `add_job` finds all `MAXJOBS` slots taken and fails its assertion (line 121). `MaxJobs` plays `MAXJOBS`.
    * `SetupFail` leaves the shell between pipelines with SIGCHLD still blocked (`pc = "blocked"`). A later pipeline of the line unblocks it. At the end of the line, `BlockedAtPrompt` is the failing assertion in `main`.
    * The wait loop: `WaitStep` (one loop iteration of `wait_for_job`) and `WaitDone` (the code after the loop).
    * `SigchldHandler`: one iteration of the handler's `waitpid(WNOHANG)` loop.
  * `HandleChildStatus` is a whole call of `handle_child_status`: the pid search, then `AfterExit`, `AfterDeath` or `AfterStop`. It is a NULL dereference (`pc = "crashed"`) when no job holds the pid.
  * Environment actions:
    * `ProcExit`.
    * `TerminalSignal`: ^C or ^Z sent to the terminal's group.
    * `BackgroundRead`: SIGTTIN.
    * `SetTtyAttrs`: a foreground program changes the terminal mode.
  * Kernel behaviour is written as operators:
    * `Deliver` and `SignalGroup` are `killpg`. SIGCONT clears a pending stop report.
    * `NextPid` is cyclic pid allocation. A pid stays in use while a process or a process group refers to it.
    * `Reap` is `waitpid`.
* **`JobControl.tla`** is the abstract promise of the registry and the monitor. Each job is only a status and a count of live members.
  * A job is registered under the lowest free jid.
  * Each observed termination lowers the count by exactly one, and the last one makes the job DONE or TERMINATED.
  * At most one job is FOREGROUND.
  * A job is removed only once no member is alive. The exception is `exit`, which drops every job.

  `Shell` maps its jobs onto this spec (`JC == INSTANCE JobControl WITH ...`), and the run checks `JobControlRefined`.
* **`MM.tla`** is the allocator of `mm.c` with a client that calls it.
  * Memory is word addressed (4 bytes, one `boundary_tag`) and sparse:
    * `heap.tags` holds the boundary tags written at an address;
    * `heap.data` holds the client's data or a free-list link written at a word.
    * A write of one kind removes the other at that word. A word never written reads as junk.
  * `heap.bins` holds the ten free lists (`list_size` 4096 down to 8 words) as sequences in list order. `push_back` is `Append` and `list_remove` is `Remove`.
  * `heap.brk` is the break and `heap.listp` is `heap_listp`. `heap.st` is `crashed` once a write went through a failed `mem_sbrk`'s pointer; the client then makes no more calls. Addresses count from the two fences `mm_init` allocates. The bins' own records, which `mm_init` also takes from `mem_sbrk`, are outside the modelled words.
  * Each C function is a pure operator under its own name that returns the new heap, or `[h, ret]`:
    * `mm_init`, `extend_heap`, `coalesce`, `add_free_block`, `find_fit` (with its two-ended scan `Scan`), `place`;
    * `mm_malloc`, `mm_free`, `mm_realloc`;
    * the tag helpers `blk_size`, `next_blk`, `prev_blk`, `prev_blk_footer` and `set_header_and_footer`.
    
    Sizes are the code's own: `MIN_BLOCK_SIZE_WORDS = 8`, `CHUNKSIZE = 1024` words, and `align` with `ALIGNMENT` (a constant; `config.h` is not in the repository).
  * `Memcpy` copies words. `memcpy` over overlapping regions is undefined behaviour. `MemcpyOutcomes` chooses what the build does:
    * `"forward"` gives what `memmove` gives;
    * `"backward"` reads the overlapped source after it has been overwritten.
  * The client holds `live`, a map from payload address to its token, request size and the marked word offsets. Its token is written at the first and last word it asked for.
  * Each call is one atomic step, because the allocator is single-threaded. The actions are `MmInit`, `Malloc`, `Free` and `Realloc`, each over the request sizes `Sizes` plus 0 and over the live pointers plus NULL.
  * `mem_sbrk` fails beyond `MaxHeapWords` and returns `(void *)-1`. `extend_heap` compares that with NULL (line 462), so it does not return NULL: `mark_block_free` writes 4 bytes below the all-ones address and the process crashes (`heap.st = "crashed"`). So the NULL that `mm_malloc` returns for a failed extension (line 257) never happens. In the code it returns NULL only for size 0 and for the `size_t` overflow of line 240.
  * Invariants:
    * `HeapWellFormed`: the heap is a chain of blocks from fence to fence. Every block is at least 8 words, every footer equals its header, and no two free blocks are adjacent.
    * `FreeListsExact`: the lists hold exactly the free blocks, each once, on the list `add_free_block` chooses for its size.
    * `ClientBlocksValid`: the used blocks are exactly the client's, and each is large enough for its request.
    * `DataPreserved`: the client's tokens are where it left them.
  * The action property `ExtendOnlyWithoutFit`: `mm_malloc` grows the heap only when no free block is large enough.
  * `AllocatorRefined`: `MM` implements `Allocator` (below). The mapping `AllocIn(heap, live)` takes the used blocks of the heap walk, each with its payload words, the client's request and what the client reads at its marked words. The property is `AL!Spec` written with `AL!Step` over the mapped blocks of the two states, bound once per state: substituting the mapping into `AL!Spec` directly re-walks the heap at every use and makes the run six times slower.
* **`Allocator.tla`** is the contract of the header comment of `mm.c` (Allocation, Freeing, Reallocation), with no layout, tags or lists. The state `alloc` maps each payload address to its size in words, its request and the client's data.
  * `Allocate`: a new block, large enough (`Holds`) and apart from all others (`Separate`), or NULL and nothing changes.
  * `Release`: one block goes (`free(NULL)` does nothing).
  * `Reallocate`: the block is replaced, in place or elsewhere, by one that keeps the data up to the new size (`Kept`); or NULL and nothing changes.
  * In every step the blocks not involved stay exactly as they were: their size and their data.
* **`MM2.tla`** is the draft allocator `mm2.c`.
  * Memory is a sparse map from word address to a value: a boundary tag (`Tag`), a pointer (`Ptr`, a word address and which half of the 8-byte pointer it is) or client data. `heap.flp` is `free_listp`, `heap.listp` is `heap_listp`, `heap.epi` the epilogue.
  * The code's own pointer arithmetic is kept: `mm_init` adds to a `struct block *`, so its fences land 24 words apart; `extend_heap` puts the block four words before the new memory; `mm_malloc` uses `asize` (bytes) as a word count; `mm_free` hands the payload pointer to `coalesce`.
  * The word before the heap is not written by the code. `BeforeHeap` chooses what it reads as: an in-use tag, zero (an assertion in `coalesce` fails) or anything else (undefined).
  * `heap.st` records how a call ended: `ok`, `hung` (the insertion loop of `insert_free_block` never ends), `aborted` (an `assert`), `undefined` (a read of a word that is not what the code takes it to be), `crashed` (a write beyond `mem_sbrk`'s limit), `indeterminate` (the empty `mm_realloc` returns no value).
  * `MIN_BLOCK_SIZE_WORDS` and `ALIGNMENT` come from `config.h`, which is not in the repository, so both are constants.
  * Actions: `MmInit`, `Malloc`, `Free` and `Realloc`. `CallsComplete` says every call returns with defined behaviour (`heap.st` stays `ok`).
* **`MCShell.tla`** defines the model values for the configurations: the builtin sets and the terminal attribute values.

## Runs

The shell runs share these bounds:

| Bound | Value |
|---|---|
| `MaxJobs` | 2 |
| `MaxProcs` | 3 |
| `MaxStages` | 2 |
| `MaxCmdLines` | 3 |
| kill numbers | `{9, 19, 5}`: an allowed fatal signal, an allowed stop signal and a rejected number |
| terminal attribute values | 2 |

| Run | Expect | What it shows |
|---|---|---|
| `shell_safety` | pass | Covers every interleaving of the shell, its handler, up to 3 children, ^C/^Z, background reads and mode changes, with pids not reused (`PidMax = 3`) and spawns failing only at stage 0 (`FailStages = SetupFailStages = {0}`). A `posix_spawnp` failure there leaves no child behind. A setup failure there returns with SIGCHLD blocked, and the shell aborts before the next prompt. That is the `spawn_failure` finding; these invariants say nothing about it, so it is reached here but not judged. The following hold: the shell owns the terminal at every prompt; a job is FOREGROUND only while it is being waited on; every job's alive count equals its unreaped members; the registry refines `JobControl`. About 235,000 distinct states in under a minute. |
| `shell_liveness` | pass | Under the fairness below, `wait_for_job` always returns once its job's members have all stopped or died (`ForegroundWaitEnds`). A background job whose members are all gone is eventually DONE/TERMINATED or removed (`FinishedJobsNoticed`). `bg` is left out of this run because it revives finished jobs (see `bg_revives_finished`). |
| `spawn_failure` | violation | `ResourceErrorsContained`: a resource-setup error affects only its pipeline, so every child belongs to a job, the pipeline's pipes are closed once `iterate_over_pipeline` returns (`PipesClosed`), and SIGCHLD is unblocked at every prompt. With a setup call failing (`SetupFailStages = {0}`), `iterate_over_pipeline` returns with SIGCHLD blocked and the assertion before `readline` aborts; for a two-stage pipeline it also returns with both ends of its pipe open (TLC finds this at depth 4 when `PipesClosed` is checked alone). With `posix_spawnp` failing at stage 1, the stage-0 child belongs to no job and its report makes `handle_child_status` dereference NULL. |
| `user_errors` | violation | `UserErrorsNotFatal`: a builtin naming a free jid (`bg N`, `kill N`) or with no argument (`atoi(NULL)`) never ends the shell. A full job table is not a user error: spec 4.1 makes it fatal, and `JobsFull` models the abort. TLC finds `fg` without a jid at depth 2. |
| `stale_stop_notice` | violation | A job stopped by ^Z is removed later in the same line (e.g. it is killed during `fg`), so the notice before the prompt dereferences NULL (`StopNoticeNamesJob`). This needs two pipelines per line (`MaxPipes = 2`). |
| `bg_revives_finished` | violation | `bg` on a DONE job makes it BACKGROUND with no member alive, and `jobs` never reports or removes it (`FinishedIffNoneAlive`). |
| `pid_reuse` | violation | With only two pids (`PidMax = 2`), a new child reuses a pid of a finished job still in `job_list`. Its report is charged to the old job (`AliveCountMatchesMembers`). |

| `terminal_sample` | violation | A foreground job switches the terminal mode and is stopped by ^Z. `wait_for_job` then takes the job's mode as the shell's own terminal state (`SampleOnlyWhenJobFinishes`). The comment above the call says the sample is taken when the job finishes. |

The passing runs use `SetupFailStages = {0}`: a setup call may fail before the
first child exists, which ends in the `spawn_failure` abort but creates no orphan.
They also use `FailStages = {0}`: only a single-stage pipeline or the
first stage may fail, so the failure path runs without creating orphans.
`PidMax` equals `MaxProcs`, so no pid is reused while an old job still holds
it. These two settings exclude exactly the two bugs that the violation runs
show.

The bounds are large enough for the interesting cases to happen:

* Two jobs can exist at once, one stopped or in the background and one in the foreground.
* A two-stage pipeline exercises a member reaped by the handler while the other is reaped by the wait loop.
* Three command lines allow a spawn, a builtin on the resulting job, and one more command.

Every mutant in `PROJECT.json` is a plausible slip in one of the mapped
definitions, and each makes TLC report its property violated:

* `add_job` scanning from slot 0.
* The spawn failure path not giving the terminal back.
* `wait_for_job` deleting only DONE jobs, or deleting jobs by status.
* A death not being counted.
* DONE being set one report late.
* The pid search comparing only the leader.

The allocator runs:

| Run | Expect | What it shows |
|---|---|---|
| `mm_safety` | pass | Covers every sequence of five calls after `mm_init` (MaxOps = 6) with requests of 24, 392 and 3000 bytes (8, 100 and 752 words) and a heap that can grow to 8192 words. In all of them the heap stays a coalesced chain, the ten lists hold exactly the free blocks, the client's blocks are its own and large enough, and its data survives every realloc. Every call is a step of the header comment's allocator (`AllocatorRefined`). About 244,000 distinct states in about 2 minutes. |
| `mm_realloc_left_merge` | violation | `AllocatorRefined`: the header comment's contract, with requests of 24, 104 and 392 bytes and both outcomes of an overlapping `memcpy`. TLC's trace: `malloc(24)` at payload 2; `malloc(392)` at payload 10; `realloc(2, 24)` moves the first block (8 words < 24 bytes), which leaves an 8-word free block on the left; `realloc(10, 104)` finds its right neighbour used and 100 words < 104, so it absorbs the left block. It then copies 104 bytes from payload 10 to payload 2 with `memcpy`, and the two regions overlap. Copied backward, the client's first word is lost. |
| `mm_fit_policy` | violation | `ExtendOnlyWithoutFit`. `find_fit` searches only the lists whose `list_size` is at least the request, so a free block that fits but sits on a lower list is skipped and the heap grows. TLC shows `mm_malloc` growing the heap while a large enough free block is on the lists. |
| `mm2_calls` | violation | `CallsComplete`. TLC's shortest counterexample is `mm_init` itself: `extend_heap` puts the block 16 bytes before the new memory, so `coalesce` reads the word before the heap as a footer and fails its assertion when it is zero (undefined when it is anything but an in-use tag). With an in-use tag there, the run also reaches: the first `malloc(24)` hangs (`extend_heap` inserts the new block and `coalesce` inserts it again, a one-block cycle, and `insert_free_block` loops for the split remainder); after `malloc(4090)` a second `malloc(4090)` or a `free` reads client data as a tag or pointer; `realloc` returns no value. Each of these was confirmed with an invariant for its status alone. |

The request sizes were chosen so that every path of `mm_realloc` except the
failure is reached within five calls:

* 8 and 100 words give splits, every `coalesce` case, left and right absorption, and a move through `mm_malloc`.
* 752 words exceeds what remains of the first chunk, so `extend_heap` runs with a free tail.

The failure paths need an exhausted heap, and there a failed `mem_sbrk` crashes the process (line 462) instead of returning NULL. The runs give the heap room (8192 words), so their properties are about calls that return. The crash is listed as a hazard. The 104-byte request is used only in
`mm_realloc_left_merge`. With it, `mm_safety` would take over 7 minutes.

The allocator mutants in `PROJECT.json` are:

* the epilogue written one word too far;
* `mm_free` calling `mark_block_used`;
* `coalesce` ignoring the next block;
* `place` leaving the used part on its list;
* the copy length left in words;
* `mm_realloc` absorbing its right neighbour without checking that it is free (`AllocatorRefined`).

TLC reports each mutant's property violated under `mm_safety.cfg`.

## Fairness

* The shell's own steps are weakly fair, except `Prompt`: the user need not type.
* `WaitStep` and `WaitDone` are weakly fair.
* `SigchldHandler` is strongly fair. The kernel delivers a pending SIGCHLD as soon as it is unblocked, and the handler is enabled only intermittently (at the prompt and between pipelines).
* The children and the user are not fair. A child may run for ever.
* `mm2.c`'s hang is part of a safety property (`CallsComplete`): the model marks the call `hung` when the list walk revisits a block, so no fairness is needed.
* The allocator has no liveness property: each call returns within the step that models it, and the client need not call again.

## Findings

`PROJECT.json` gives the source lines. In the shell:

* A setup error returns with SIGCHLD blocked, and the shell aborts at the next prompt (spec 7 says it continues) (`spawn_failure`).
* A setup error also returns without closing the pipeline's pipes (`spawn_failure`).
* Partially spawned pipelines leave orphans that crash the shell later (spec 4.2 requires cleanup) (`spawn_failure`).
* `bg` and `kill` dereference a missing job; `fg`, `bg` and `stop` without an argument call `atoi(NULL)` (`user_errors`).
* The ^Z notice dereferences a stale jid (`stale_stop_notice`).
* `bg` on a finished job hides it from `jobs` for ever (spec 8) (`bg_revives_finished`).
* Pid reuse charges reports to a finished job (`pid_reuse`).
* `wait_for_job` samples the terminal state when the foreground job merely stopped. The comment says it samples "when the job finishes" (`terminal_sample`).

In `mm.c`:

* `mm_realloc` moves data with `memcpy` between overlapping regions, even on a shrink, because it compares words with bytes (`mm_realloc_left_merge`).
* `extend_heap` tests `mem_sbrk`'s result against NULL, not `(void *)-1`, so an exhausted heap crashes the process instead of making `mm_malloc` return NULL (found while modelling; a hazard, no run slot left).
* `mm_realloc` absorbs the neighbours before it calls `mm_malloc`, so if that returns NULL the client's block has already been merged. The comment at line 399 says the original block is left. Only the `size_t` overflow of line 240 reaches this, and it is not modelled (a hazard).
* `find_fit` skips fitting blocks on lower lists, so the heap grows although a free block fits (`mm_fit_policy`). A segregated-fit allocator grows the heap only when no free block fits.

In `mm2.c` (`mm2_calls`), and found while modelling it:

* `extend_heap` inserts the new block twice, making the list a cycle; the next insertion never ends.
* `mm_init` writes its fences with `struct block *` arithmetic, 24 words apart.
* `coalesce` reads the word before the heap, which nothing wrote.
* `mm_malloc` uses the byte size `asize` as a word count; `mem_sbrk`'s `(void *)-1` is compared with NULL.
* `mm_free` passes the payload pointer to `coalesce` and never marks the block free, so freeing a block reads the client's data as a tag; `mm_realloc` has an empty body.

## Not modelled

* `history`, `readline`, history expansion and parsing. The model chooses a parsed command line instead.
* Redirections, and which descriptor each stage is wired to. These are data that no property distinguishes; only the number of pipe ends the shell holds is modelled.
* Output formatting.
* In `mm.c`:
  * the `size_t` overflow test of `mm_malloc` (line 240), which needs a request near `SIZE_MAX`;
  * `mm_checkheap`, which is empty;
  * byte contents other than the client's marks.
* In `mm2.c`: the failed `mem_sbrk` (`(void *)-1` compared with NULL) is modelled as a crash, but every behaviour fails in an earlier call before the heap needs a second extension. At most twelve runs are kept, so `mm2.c` has one run whose property covers every way a call can go wrong.
* In `mm.c`: no run exhausts the heap, so the crash in `extend_heap` is modelled but not checked.

## Plan

1. Add a run with `ALIGNMENT = 8` and odd request sizes, to reach the remainders `place` splits off at the minimum size. It needs a run slot; the twelve kept now each ask a different question.
