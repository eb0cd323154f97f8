# A verification project for ICS_lab

The repository holds the solutions of one student to the labs of a systems
course (CS:APP / ICS).  This directory models the programs among them that keep
state, in TLA+: TLC checks the models on small instances, and TLAPS proves the
results that matter most for every value of the constants.

All paths below are relative to the repository (`src/`).  Line numbers in the
comments of a module are lines of the program it models.

## 1. Inventory

| component | state | operations | what is hard | what makes it correct |
|---|---|---|---|---|
| `lab9/tsh.c`, a shell with job control | the job list, `nextjid`, the signal mask, the kernel's view of the children | `eval` (fork, `addjob`, `waitfg`), `do_bgfg`, `builtin_cmd`, the handlers of SIGCHLD, SIGINT, SIGTSTP, SIGQUIT | a handler runs between any two steps of the main loop and of other handlers; SIGCHLDs merge; pids are reused; the child races the parent | the list agrees with the processes; one foreground job; every child is reaped; the prompt comes back; ctrl-c reaches the foreground job and nothing else |
| `lab7/mm.c` + `memlib.c`, malloc | the heap's words (boundary tags, payloads), `last`, `brk` | `mm_init`, `mm_malloc`, `mm_free`, `mm_realloc` over `extend_heap`, `coalesce`, `find_fit`, `place` | long sequences of calls; a roving pointer into a heap whose blocks merge; block-size boundaries; a full heap | blocks tile the heap, header equals footer, no two free neighbours, live payloads are disjoint and keep their contents, a fit is found when there is one |
| `lab10/proxy.c`, a threaded web proxy | one connection per thread, a shared log and its mutex | the accept loop, `thread`, `doit` (request, connection, response, log) | threads, a peer that closes in the middle, partial reads and writes, lengths that are not initialised | a request is relayed once and in order, a thread's failure is its own, every thread ends and closes what it opened |
| `lab8/csim.c`, a cache simulator | sets of lines with valid bit, tag and age; three counters | `L`, `S`, `M` accesses | long access sequences; ageing; a full set | hits, misses and evictions are those of an LRU cache |
| `lab6/sim`: `isa.c`, the reference; the pipelined and the sequential processor (`pipe-full.hcl` in `psim.c`, `seq-full.hcl` in `ssim.c`) | architectural state; five pipeline registers with what is computed for them and what is to happen to them; pending writes | one step per cycle | data hazards, load/use, mispredicted branches, `ret`, exceptions in flight, and their combinations | the processors execute what the reference says, and a failing instruction leaves nothing of those behind it |
| `lab4/y64sim.c`, the same instruction set written a second time | memory, registers, condition codes, PC, status | one step per instruction | error paths half-way through an instruction, flags, addresses at the limit | it agrees with `isa.c` |
| `lab5/y64asm.c`, a two-pass assembler | symbol table, relocation table, address counter, lines | parse a line, relocate, write the `.bin` file | forward references, duplicate and undefined symbols, `.pos` and `.align`, errors in the middle of a line | the image is that of the other assembler |
| `lab6/sim/misc/yas.c` with its scanner, and `load_mem` of `isa.c` | symbol table, tokens of the line, `bytepos` | finish a line, in two passes; read a `.yo` file | the second pass starts from what the first has left | every reference gets its symbol's address |
| `lab7/mm_v1.c`, `mm_v3.c`, `mm_v4.c`, `mm_backup.c`, the other allocators | boundary tags, a doubly linked list through the free payloads, `flag`, `blk_headp` | the calls of `mm.c` | the list runs through words a client may have written; a restart on a heap that is not cleared | the list is the free blocks; what an allocator promises |
| `lab7/mdriver.c` | the trace, its blocks, the range list, the counts | read a trace, check the allocator on it, measure it twice more | what the checks see and what they miss; the same trace run again | a sound allocator passes; an overlap is found |
| `lab10/csapp.c`: the Rio package, `open_clientfd`, `open_listenfd` | a buffer with its place and count; a list of addresses, a descriptor | read a line, read and write n bytes; walk the addresses | short counts, interrupted calls, lines across two buffers, a reset; a failure in the middle of the walk | calls take lines and bytes from one stream; no descriptor is left |
| `lab8/trans.c`, `test-trans.c`, `tracegen.c` | two matrices, local variables, the cache | one access | blocks cut short at the edges; elements parked in the result | the transposed matrix, with few misses |

The shell, the proxy and the allocators are programs of their own.  Inside the
shell the main loop and the handlers share the job list and the signal mask;
the shell and the kernel exchange signals and wait results.  The allocators call
`memlib.c`'s `mem_sbrk`, and `mdriver.c` calls them.  The proxy's threads share
the log.  The processors of lab6 and lab4's simulator execute the same programs,
which either assembler produces.  `test-trans.c` runs the accesses of `trans.c`
through the cache simulator.

## 2. Modules, and how they are put together

Each line is a part of the project: the modules, what composes them, what is stated
abstractly and shown to be implemented, what is proved.

| part | modules | composed in | abstract specification | proofs |
|---|---|---|---|---|
| shell | `JobTable`, `Shell` | `Shell` (main loop, handlers, kernel) | `JobControl` | `ShellProofs` |
| malloc | `MM` | `MM` (calls, client) | `Allocator` | `MMProofs` |
| cache simulator | `CacheSim` | also in `TestTrans` | `LRU` | `CacheProofs` |
| proxy | `Proxy` | `Proxy` (threads, peers) | | `ProxyProofs` |
| processors | `Y86`, `Pipe`, `Seq`, `Y64Sim` | `Lockstep` | `step_state` of `Y86` | `LockstepProofs` |
| assemblers | `Source`, `Y64Asm`, `Yas` | `Assemble` | each is the other's | |
| allocator variants | `HeapWords`, `MmV1`, `MmV3`, `MmBackup`, `Allocators` | `FreeLists` | `Allocator` | `FreeListsProofs` |
| driver | `Driver` | `Driver` with `Allocators` | | `DriverProofs` |
| connection | `Rio`, `Sockets` | `Connection` | `Stream` | `ConnectionProofs` |
| transposition | `Trans`, `TestTrans` | `TestTrans` with `CacheSim` | | |

`MC...` modules hold the constants of an instance for TLC.  The order was that of
importance: the concurrent shell and the allocator that is handed in first, then
the cache, the proxy and the processors; then what surrounds them.


## 3. The shell: `JobTable`, `Shell`, `JobControl`

### What is modelled

`JobTable` has the job list (`tsh.c` 527-639) as operators from one table to the
next: a slot is a record `[pid, jid, state]`, a pointer to a slot is the slot's
index, `NULL` is 0.  `cmdline` is left out (it is only printed).

`Shell` has one variable per piece of state:

| variable | in the code |
|---|---|
| `jobs`, `nextjid` | the globals of lines 43-53 |
| `main` | where the main loop is, with `bg`, `pid` of `eval` or `do_bgfg`, and `slot` for do_bgfg's pointer `job` |
| `mask` | what `sigprocmask` has blocked (lines 203-219) |
| `active` | the handlers running, innermost first; `sa_mask` is empty (line 731), so a handler blocks only its own signal and may be interrupted by the others |
| `hpc`, `hpid` | each handler's place and its local `pid` |
| `shell` | running, `exit`ed, ended by `unix_error`, or crashed on a NULL pointer |
| `pending` | the kernel's set of pending signals: a set, since they do not queue |
| `pst`, `grp`, `unseen`, `intr` | the kernel: state of each pid, pids that lead a process group, stops `waitpid` has not reported, SIGINTs pending at a stopped process |

A step is what cannot be told apart by a handler: `EvalBlock`, `EvalFork`,
`EvalBlockAll`, `EvalAddJob`, `EvalRestore` and `WaitFgReturns` for `eval`;
`BgFgLookup`, `BgFgReadPid`, `BgFgKill`, `BgFgSetState` and `BgFgWait` for the
five places where `do_bgfg` reads or writes through its pointer or makes its
system call; `Chld*`, `Int*`, `Tstp*` for the handlers.  `deletejob` is one step
although its three assignments could be interrupted: it runs in the SIGCHLD
handler, and the handlers that can interrupt it read a slot's `state` and `pid`
only to find the foreground pid, for which a half-cleared slot gives what a
cleared one gives, or what the uncleared one gave.

The kernel is external and modelled by what the shell's calls rely on: a child is
`new` from fork to execve, then runs, stops, resumes and becomes a zombie;
each change sends SIGCHLD; `kill` of a group that does not exist fails, and
`Kill` then ends the shell (`unix_error`); `waitpid` reports any zombie or any
unreported stop.  Signals typed by the user reach the shell's own pid, as
`sdriver.pl` sends them.  Children are killed, stopped and exit at any time;
programs are single processes.  An outside SIGCONT is not modelled: `waitpid`
is called without `WCONTINUED`, and the shell cannot know of it.

`JobControl` is the state table of lines 29-36, one process at a time, plus the
transition the table leaves out (a background job that stops by itself goes from
BG to ST) and the end of a job.

### What the runs check

`shell_safety` (`MCShell.cfg`): two pids, `MAXJOBS` = 2, jids up to 2, ctrl-c and
ctrl-z at any time (`Keys`, the signals a user may type, is {INT, TSTP} here and
{INT, QUIT} in the liveness run, where SIGQUIT ends the shell).  Two pids are what the races need: one job that ends or stops
and another, or a reuse of the same pid, that takes its slot or its place.
`JidBound` keeps `eval` from starting a job when `nextjid` is above it; with two
slots and at most two live pids `deletejob` and the wrap bring `nextjid` back, so
pids, slots and jids are reused without end.  Symmetry on pids is sound: no pid
is compared but for equality.

* `AtMostOneFG`: the comment of line 36, which the code nowhere checks; it holds
  because a slot becomes FG only while the main loop is busy with it.
* `NoGhostJob`, `EveryChildListed`: the two directions of the fork/addjob race.
* `StoppedIsStopped`: what the list says of a stopped job, against what is true.
* `BackgroundUntouched`: a forwarded signal goes to a pid read two steps earlier.
* `ImplementsJobControl`: the refinement of `JobControl`.

`shell_live` (`MCShellLive.cfg`): `MAXJOBS` = 1 and two pids, so that the list
may be full.  `ZombiesReaped`, `EvalWaitEnds`, `CtrlCReachesJob`, under
`Fairness`: strong fairness for the next step of the main loop and of each
handler (they are interrupted again and again, but the scheduler runs the shell
and the user is not infinitely fast), weak fairness for the delivery of an
unblocked pending signal and for a forked child up to its `execve`.  Nothing is
assumed of the programs the jobs run nor of the user.

`shell_waits_forever` (`ShellWaitsForever.cfg`) finds what the comment of `waitfg`
promises and the code does not do; it is the finding in `PROJECT.json`.  `fg` of a
job that ends meanwhile calls `waitfg(0)`, which spins while there is no foreground
job, that is, for ever (`WaitsForSomeone`).  Section 12 has what else the model shows.

### What is proved

`ShellProofs` has lemmas on the operators of the list and proves,
for any set of pids, any `MAXJOBS`, any bound on jids and either set of keys:
`TypeCorrect`, `OneForeground`, `ListIsCurrent`, `ListIsInjective` (no pid is listed
twice, although the kernel reuses it as soon as a zombie is reaped),
`StoppedJobsAreStopped`, `BackgroundSafe`, `NoChildIsLost` and
`ShellImplementsJobControl`.

The invariant is `IInv` of `Shell`.  The properties are not inductive: that at
most one slot is FG needs to know that an FG slot is the one the main loop is
waiting for or about to wait for (`ForegroundWaits`); that the list names no dead
process needs that SIGCHLD stays blocked while a child is unlisted
(`CriticalInv`) and what the SIGCHLD handler holds between `waitpid` and the list
(`ReaperInv`); that a background job is left alone needs that the pid in a
forwarding handler's hands cannot become a background job's
(`ForwardInv`), which in turn rests on the main loop standing still while a
handler runs (`ActiveInv`).  `PointerInv` says what do_bgfg's stale pointer can
still be.  The proof has one lemma per group of actions and one step per action.
The refinement is proved from `IInv`: each step that writes the list maps to one
step of `JobControl` and every other step to a stutter.

The assumptions are those the modules declare: `NoPid` is no pid, `MAXJOBS` is
positive, the bound is a number, `Keys` are keys.  `NoChildIsLost` (`EveryChildListed`
for any list and any number of jids) also assumes `RoomForAll`, that there are at
most `MAXJOBS` processes: `eval` ignores `addjob`'s failure, and a child that
finds the list full is on no list.  From `RoomForAll` and the injectivity of the list
a slot is free whenever `eval` comes to `addjob`, by a count of the pids in it.
Liveness is only model-checked.

## 4. The allocator: `Allocator`, `MM`

### What is modelled

`MM` is `mm.c` on the words of the heap.  Addresses and sizes are in words of
`WSIZE` bytes from `mem_start_brk`; what the client asks for stays in bytes, and
`asize` is lines 88-92.

| variable | in the code |
|---|---|
| `mem` | the heap: a word is a tag (`PACK(size, alloc)`), or a word of a client's data |
| `brk` | `mem_brk` of `memlib.c` |
| `last` | the next-fit rover (line 42) |
| `pc`, `call` | where the running call is, and its arguments and locals: `ptr` (realloc's old block), `old` (the rover at the call, line 159), `bp` (realloc's new block) |
| `live` | what the client holds: `mdriver`'s pointer and size of each id |

`coalesce`, `place`, `extend_heap` and `mm_free` are operators from one heap to
the next that read and write tags one at a time, in the order of the code.
Nothing interrupts a call, so a step may be long; the two loops of `find_fit` take
a step per block (`SearchFits`, `SearchNext`, `SearchEnds`; `WrapFits`, `WrapNext`,
`WrapEnds`), because the rover is a global and because a loop may fail to end.
`mm_realloc` is a call of `mm_malloc` that ends in `pc = "copy"`, followed by
`ReallocMoves` (`memcpy`, `mm_free`); `mm_realloc(ptr, 0)` is `CallFree`.  The client
is `mdriver`: it fills a block as soon as it has it and never uses a pointer it
has freed.  A word of data reads as a tag of size 0; a rover that pointed into a
payload would take it for the epilogue, and `RoverOnBlock` says it never does.

`Allocator` knows no heap: each block is a region, regions of held blocks are
disjoint, the words in them change only when the client writes them, and a
realloc keeps those that fit.

### What the run checks

`malloc` (`MCMM.cfg`): two ids, requests of 8, 9 and 24 bytes (blocks of 4, 6 and 8
words), a chunk of 6 words and a heap of 20, in every order.  Two ids and a
realloc's second block give three allocated blocks with free blocks around
each; the chunk splits or not by request, the last size is more than a chunk,
and the heap fills up, so that extension, its failure and each of `coalesce`'s four
cases occur.  No search wraps more than once, and the heap's 20 words hold at
most four blocks, each of the sizes the split test tells apart.

* `HeapTiled`, `FreeBlocksMerged`, `NoneLost`, `RoverOnBlock`: there is a set of
  blocks that tiles the heap with equal headers and footers, has no two free
  neighbours, is allocated just where the client (or a realloc under way) holds
  a block, and contains the rover.
* `GrowsOnlyWhenFull`: the two loops together have seen every block.
* `ImplementsAllocator`: contents and disjointness.

### What is proved

For every chunk (even, at least 4 words), every heap with room for the first
chunk, any set of ids and of sizes: `TypeCorrect`, `BlocksTile`,
`NoFreeNeighbours`, `RoverSound`, `NoBlockLost`, `SearchComplete`, `BlocksFit`
(`SnugBlocks`: the split threshold wastes at most one pair of words) and `Implements`.

The properties each say "there is a set of blocks such that"; the invariant
`IInv` needs them of one and the same set, because coalescing is right only if
free neighbours were merged before, the rover is moved only if it was on a
block, and so on.  It adds what the search has seen (`Seen`: the blocks from the
old rover on, then those before it), and what the client and the running call
hold (`HeldInv`, `CallInv`).  The first part of `MMProofs` has the lemmas about a heap `m` that
ends at `e` and has the blocks `B`: `Join` (one pair of tags over a run of blocks
makes one block of them), `Split`, `Grow`, `CoalesceIs` (whatever its case,
`coalesce` writes one such pair), and from them `CoalesceEffect`, `FreeEffect`,
`ExtendEffect`, `PlaceEffect`, `FillEffect`: which blocks result, which are
allocated, and that the words of all others stay (`Keeps`).  The second part has one
lemma per action, and maps each step: a `mm_malloc` that returns to the client is
`Malloc`, `ReallocMoves` is `Realloc`, the client's write is `Write`, every
other step leaves the client's view as it was.

## 5. The cache simulator: `LRU`, `CacheSim`

### What is modelled

A step of `CacheSim` is the body of `cache_sim`'s loop for a load, a store or a
modify; instruction lines change nothing and are left out.

| variable | in the code |
|---|---|
| `cache` | the array of `long long int`: per set and line the words tag, age, valid |
| `hits`, `misses`, `evicts` | line 22 |
| `line` | the buffer of line 93, its address parsed |
| `read` | how many lines of the trace have been read, at most `TRACE_LENGTH` |
| `overrun` | an index has left the array; C says nothing of what follows, and the model stops |

`Hit`, `ColdMiss` and `Evict` are the loop's three outcomes.  Each of the code's
loops stops at the first line it looks for, which is `First`; `Aged`, `1 .. l` and
`Ways` are the ranges of the three loops that make lines older.

`LRU` keeps per set the tags it holds and the order of their last use.  The last
access is part of its state, so that an implementation must treat that very
access, not some access, as LRU does.

### What the runs check

`cache`: four sets of three lines, blocks of two bytes, every trace of six lines.
The addresses give set 0 four tags (0 among them, the tag an empty line shows)
and two addresses in one block, set 1 one tag.  Three accesses fill a set, a
fourth evicts, and the last two tell whether the order after a hit or an eviction
is right; three lines have a middle age.

* `LinesDiffer`: the code looks for the victim by its age and for a block by its
  tag, first match; both must be unique.
* `ImplementsLRU`: the refinement.

The instance has more sets than bytes in a block, for which the array, sized by
the block (line 73), is too short: an access to such a set sets `overrun`.

### What is proved

For every geometry, set of addresses and length of the trace (`CacheProofs`):
`TypeCorrect`, `LinesAreDistinct`, `CountersAgree` (`CountersAddUp`: the counters
against the lines in use) and `CacheImplementsLRU`.  The
invariant adds to the types and to `LinesDiffer` that the lines of a set are
filled from the first on (`FilledInOrder`): without it the loop of line 131, which
stops at the first age that is 0, could pass over a line in use.  The proof shows
that the three outcomes have one and the same effect, `Moves`: the accessed tag
is in a line of age 1, all other lines in use are one older.  The invariant, the
counters and the refinement each follow from `Moves` once.

## 6. The proxy: `Proxy`

### What is modelled

`main` accepts connections and starts a thread for each; `thread` calls `doit`
and closes the client's socket.  A step of the model is one read or write of
`doit` with what the code does with its result.  The threads share only the
process (`proxy`), the log and its semaphore.

| variable | in the code |
|---|---|
| `pc` | where in `thread` and `doit` a connection is |
| `open` | `connfd`, `serverfd` |
| `cread`, `sread` | the positions of `client_rio` and `server_rio` |
| `forwarded`, `relayed` | what has been written to the server and to the client |
| `server_buf` | the buffer, by the piece read into it last |
| `requset_body_size`, `response_body_size`, `response_tmp`, `i` | the locals of these names; none is initialised (lines 134-135) |
| `deaf` | a write to the server has failed; all later ones do |
| `mutex`, `log` | the semaphore and the lines printed |

A peer's stream is a sequence of pieces: a line of the head, then a byte of the
body (a line, if the body is chunked).  The model knows a piece by its place, so
that a piece left out, repeated or out of order shows.  A peer may be gone at
any moment: the next read gives the end of the file, the next write fails; the
wrappers of lines 29-67 turn read errors into the end of the file.  A variable
that was never assigned is read as any value of `Garbage`.

A request's URI is known by the delimiters `parse_uri` looks for (`Uri`): it is
refused unless one follows the host, so `http://host` is.

`Connect` and `ConnectFails` are the two outcomes of `Open_clientfd`, whose
wrapper exits on failure.  `RelayLastByte` is line 279: a missing byte is an
error only while more than one is owed, so the last one is written from the
buffer's old content.  Left out: the text of requests and log entries (the size
printed is the sum of a counter that is never initialised, line 247), lines of
more than `MAXLINE` bytes, requests without three words, and failures of
`accept`, `malloc` and `pthread_create`.

### What the runs check

`proxy`: two threads, four requests (a GET, a POST with a length, a chunked POST,
a URI that `parse_uri` refuses), two responses (with and without a length, the
first with a body of two bytes, so that one byte short and two bytes short
differ), unassigned variables 0 or 1.  Two threads are enough for the semaphore;
nothing else is shared.

* `RelaysInOrder`: each peer gets a beginning of what the other sent; the
  property names the one exception, the made-up last byte.
* `LogsWhole`: no entry twice, and none for a response cut short.
* `NoLeak`: each of `doit`'s returns has closed what was open by then.
* `ThreadsEnd`: under weak fairness of each thread, every connection is over at
  some time or the proxy has exited.  Fairness says that threads are scheduled
  and that a peer does not stay connected and silent for ever; the code has no
  timeout, and such a peer does hold its thread.  Each thread takes the semaphore
  once, so weak fairness is enough for it.

### What is proved

`ProxyProofs`, for any number of threads, all requests and responses, and any
values of unassigned variables: `TypeCorrect`, `RelayedInOrder`, `LoggedWhole` and
`NothingLeaks`.  The invariant says, per place a thread can be at, which sockets
are open (`SocketsOf`), how much has been passed on of what was read
(`ForwardedOf`, `RelayedOf`), that the blank line has not been read before the
body (`HeadOf`), and that what has been relayed plus `response_tmp` is the head and
the body (`BodyOf`).  A step touches one thread only (`OthersUntouched`), so that
each part is shown for that thread alone; the log and its semaphore are argued
over all threads (`MutexInv`, `LogInv`).  `ThreadsEnd` is model-checked only.


## 7. The processors: `Y86`, `Pipe`, `Seq`, `Y64Sim`, `Lockstep`

### What is modelled

`Y86` is `isa.c`: memory, registers, ALU, condition codes and `step_state`, one
instruction from a state to the next.  Words have `WORD` bytes, so that carries,
signs and overflow are those of the code at any width; addresses are words.

`Pipe` is `pipe-full.hcl` with the loop of `psim.c` around it.

| variable | in the code |
|---|---|
| `curr`, `next`, `op` | the pipeline registers: what is in them, what their stage has computed, and load, stall, bubble or error at the next edge |
| `reg`, `mem`, `cc` | the state a program sees |
| `cc_in`, `wb`, `store` | what `update_state` is to write |
| `status`, `icount`, `ccount`, `instructions`, `cycles` | `sim_run_pipe` and its limits |

A step is `sim_step_pipe`: the clock edge, then the five stages, which are functions
of what the edge has left.  The signals have their HCL names, and the order of the
stages in `psim.c` (write-back first, so that decode sees values forwarded within the
cycle) is kept by their dependence on each other.

`Seq` is `seq-full.hcl` with `ssim.c`: a step writes what the last one has computed
(`pending`), then computes.  `Y64Sim` is lab4's `nexti`, which refuses, fails and
sets flags in its own way.

`Lockstep` runs the three and the reference on one memory.  `isa` is the reference
before the instruction in W; an instruction that enters W is executed by SEQ and
y64sim, one that leaves it by the reference.

Programs are any bytes, and the machines may differ where the pipeline is not made
to agree.  `lawful` says of the program so far that no store has overtaken the fetch
of a byte it writes (`Overtaken`; the hardware has no interlock for it), and
that its instructions name registers as their format says and lie far
enough from the end of memory for PIPE's fetch, which wants to see `LOOKAHEAD`
bytes more.  `shared` adds what y64sim has in common with the reference: no `iaddq`,
and no flags on which the two rules of overflow and of the sign differ.
Both are history variables: they are checked as the program goes and switch the
properties off from the first instruction on that breaks them.

### What the run checks

`y86`: words of two bytes, 48 bytes of memory, all programs of three of eighteen
instructions with a stack, a subroutine and halts around them: 5,832 programs.  Two
neighbours and one instruction between them are what forwarding, load/use
and `ret` depend on: a value is on its way for three instructions.  The eighteen
have a store and a load of one address, a load that fails, pushes, pops into the stack
pointer, a branch taken by one condition and one not taken, an `iaddq` that names no
register, and an invalid code.

* `CommitsInOrder`: the instruction in W is the reference's next one, with its status.
* `StatePrecise`: registers, memory and flags are those of the reference, cycle by
  cycle, also when an instruction behind a failing one has been executed in part.
* `SeqPrecise`, `Y64Precise`: the same for SEQ and y64sim.

### What is proved

`LockstepProofs` starts with what the reference does to states (`StepType`: a step leaves
words in registers and bytes in memory) and what is needed of words and of the bytes
of a word.  It proves the four properties for every program, word size, memory
size and lookahead: `InOrder`, `PipeIsPrecise`, `SeqIsPrecise`, `Y64IsPrecise`.  The
assumptions are `SizesAssumption` (`Y86`: the memory holds a word, and less than half of
the words are addresses in it, so that an address one or two words beyond an end does not
come back at the other), `PipeAssumption` (`Pipe`: the images are memories, the limit is
a number) and `LimitsAssumption` (`Lockstep`: SEQ and y64sim may go as far as PIPE).

The invariant is `PipeInv`.  It takes the reference from `isa`, the state before the
instruction in W, over the one in W to `AtM`, over the one in M to `AtE`, and over
the one in E to `AtD`, and says of each stage that it holds what the data path
computes in that state from the bytes there (`InM`, `InE`, `InD`; `Raw` is the
fetch of the HCL, which refuses less than `isa.c`).  Its parts:

* `Structure`: where the bubbles are.  Behind a mispredicted branch in M there are two,
  behind a `ret` as many as it has moved on.
* `MatchW`, `MatchM`, `MatchE`, `MatchD`, `MatchF`: the stages and the address fetch
  goes on from.  D and fetch match only while no branch in E is mispredicted
  and no `ret` is on its way.
* `ClaimW` to `ClaimD`: how long.  The reference goes one instruction further for
  each stage, so that a claim about E is about instructions that may never be
  executed: it stands while nothing before it fails and the registers before it are
  registers (`Sane`), and the last two cycles before the limit write less.
* `Wires`: what the stages have left for the next edge.  `Stopped`: nothing
  follows a failing instruction into M, and it leaves the flags.

The step that carries the proof is decode: the five places a value is forwarded from
(`e_valE`, `m_valM`, `M.valE`, `W.valM`, `W.valE`) give it, in their order, the
register that the reference has in `AtD`, unless `LoadUse` holds D back.  Before the proof
TLC checked the invariant on `y86` with limits of 24, 12, 9 and 7 cycles.  SEQ and y64sim do one
instruction at a time, so their invariants only say that what is pending is that
instruction's (`SeqInv`, `Y64Inv`).

The attempt found what the run had not: an `iaddq` that names no register is refused
by `isa.c` and executed by PIPE, so `WellFormed` asks for one, and `MCLockstep` has that
instruction now.  The flags in `StatePrecise` run ahead of the
registers: they are those after the instruction in M, unless it or the one in W
fails.


## 8. The assemblers: `Source`, `Y64Asm`, `Yas`, `Assemble`

### What is modelled

A line of the source is a sequence of lexemes (`Source`): how a name or a number is
spelled is left out, blanks are not, since y64asm skips them in some places only.

| variable | in the code |
|---|---|
| `lines`, `vmaddr`, `symtab`, `reltab` | y64asm's lists and its counter |
| `phase`, `next` | `main`: assemble, relocate, binfile, with the line each is at |
| `file` | the `.bin` file, a partial function from addresses |
| `pass`, `lineno`, `bytepos`, `symbol_table`, `error_mode`, `hit_error`, `code` | yas's globals |
| `tokens` | the array `finish_line` looks at |
| `outfile` | the lines of the `.yo` file that have an address |

A step of y64asm is a line assembled (`parse_line` with every return), a relocation
or a line written; a step of yas is a token handed over by the scanner or a line
finished.  yas's second pass starts from the state the first has left.

### What the run checks

`assemblers`: every file of up to three of 29 lines, words of two bytes.  The lines
are labels (with an instruction, with a directive, before a blank, in a comment), jumps
and calls, every kind of operand, data, `.pos` and `.align` with legal and
illegal arguments, and one error of each kind lab5's tests have.  Three lines are a
reference, a label and something that moves the counter between them, in any order.

* `AssemblersAgree`: the two assemblers are each other's specification.  Where both
  accept a file, the simulators start on the same memory.
* `YasAcceptsToo`: y64asm is the stricter one.

`Plain` names the lines for which the two are known to differ; section 12 has them.

## 9. The other allocators and the driver: `HeapWords`, `MmV1`, `MmV3`, `MmBackup`, `Allocators`, `FreeLists`, `Driver`

### What is modelled

`HeapWords` has memlib's heap and the macros, `MmV1`, `MmV3` and `MmBackup` the
functions, as operators from heaps to heaps: nothing interrupts a call, and lab7 runs
one allocator at a time.  `MmV3` is `mm_v3.c` and `mm_v4.c`, which differ in the footer
`mm_realloc` writes (`GrownFooter`).  A word is a tag, a client's data or half an address
and can be read as either of the others, so that a link read from a payload shows.
Requests are of whole words, and of at least one: `asize` depends on no more.

v3 and v4 are made for the traces they were handed in with: once `flag` is set,
`mm_realloc` takes the next block to be free and the last of the list, and computes
in unsigned arithmetic by how much the block grows.  `SuitsMalloc` and
`SuitsRealloc` say which requests that allows, and the clients keep to them.

`FreeLists` is a client like `eval_mm_valid`: it fills what it is given, and at any
time starts over on the same words and globals (`Restart`: `mem_reset_brk`, `mm_init`).

`Driver` is `mdriver.c`.  `phase` is the function that runs; `ranges`, `blocks`,
`block_sizes`, `errors`, `total_size` and `max_total_size` are the program's.
A request is a step.  `returned` is a history of what the calls of `eval_mm_valid`
have returned.  A trace is read line by line (`ReadLine`), with ids that are allocated
before they are used and freed once, as the trace files are.  The allocator "any"
answers with any pointer and leaves the checks to find out.

### What the runs check

`free_lists`: any seven calls, four ids, sizes of 8 and 20 bytes, a heap of 44 words.
Three blocks in a row and the end of the heap are what `coalesce` tells apart, a
list of three what `remove_node` does; the heap holds that and a chunk more, and
grows once.

* `ListIsTheFreeBlocks`: the list, the tags and the client's pointers agree.
* `mm_checkSucceeds`: the checker that `mm_v3.c` has and never calls.
* `ImplementsAllocator`: `Allocator`, the specification `mm.c` is proved to implement.

`driver`: traces of up to four requests and then one of up to two, on the heap of the first.

* `DriverAccepts`: no allocator of lab7 is reported, or fails when it is measured, and
  its utilization is at most one.
* `RangesAreTheBlocks`: what the checks find, whatever the allocator answers.
  `add_range` says that a block "must not overlap any currently allocated block"; it
  misses one that encloses an older block, and the property says that this is all.
* `UtilizationIsPeak`: the numerator of the utilization, from the trace alone.
* `ReplayAgrees`: what is measured is what has been checked.

### What is proved

`FreeListsProofs` is about the four allocators, for every heap that has room for a first
chunk, every chunk that is even and at least 6 words (`HeapAssumption`; the code has
1024), any set of ids, any positive sizes (`ClientAssumption`: no trace asks for 0 bytes)
and any number of calls in any order.

* `ClientHoldsAlways`: the inductive invariant `ClientHolds`.  For v1, v3 and v4 it says
  that there is a set `B` of blocks that tiles the heap (`Tiled`), without free neighbours
  (`Merged`), those in use being the prologue and the client's, each as large as asked;
  in v3 and v4 each has room for the links, and the list runs through just the free ones
  (`ListOf`).  The four parts need each other: `coalesce` takes a neighbour out of the
  list, which is right only if it is in it; the node has its links where its neighbours
  in the list look only if no block in use reaches there.  v4's wrong footer is part of the
  invariant, as the set `X` of blocks that have one: at most the block that grew last,
  which stays in front of the last block, free, until it grows again or is freed
  (`Late`); no `coalesce` looks back at it, because `find_fit` never gives the last block
  away once `flag` is set.  For mm_backup: headers, and blocks that do not overlap.
* `ListIsTheFreeBlocksAlways`, `mm_checkAlwaysSucceeds`: from it, once it is shown
  that what the loops walk (`Walk`, a function defined by recursion) are these blocks
  and nodes, in their order and each once (`BlocksAre`, `FreeListIs`), and that the count of
  the nodes is that of the free blocks (`AsManyNodes`).
* `ImplementsAllocatorAlways`: each step of each allocator is a step of `Allocator`, or
  shows nothing, or is the start of a trace, on a heap full of what the last one has
  left.  `StartsAsAllocator` is the initial state.

The lemmas follow the code: what `PUT` does to a word, `add_node` and `remove_node` to a list,
tags to a tiling (`Retile`: blocks united or cut), then `coalesce`, `extend_heap`, `place`,
`mm_free`, `mm_malloc`, `mm_realloc` for v3 and v4 and again for v1 (`...Effect`), with the words
of all other blocks kept (`Kept`); then the client's blocks (`MallocHolds`, `ReallocHolds`,
`FreeHolds`, `FillHolds`, `InitHolds`).  A `Walk` is treated without induction: of the steps at
which a claim about the path fails there would be a first (`LeastElement`).

`DriverProofs` is about the driver alone.  `DriverAssumption` is that sizes are positive
whole words (`add_range` asserts the first), that pointers are numbers and the ids finite.

* `ChecksKeepBlocksApart`: `RangesAreTheBlocks` for the allocator "any", which may answer
  with any pointers at all, and for traces of any length and number.  For an allocator
  of lab7 it would take that its pointers are numbers, which is for heaps that are in
  order; `SameHeap` shows that none of them turns into another.  The invariant is
  `AnyInv`.  A trace is in order (`TraceInv`: only an id that has a block is reallocated
  or freed); the list has the blocks of those ids, no two with one address (`Lists`,
  `Apart`).  That addresses differ is what lets `remove_range`, which stops at the first
  that matches, take out the right one; it follows from `add_range`, as a block at the
  address of another has its low end in it.  `AddLists` and `RemoveLists` are the
  two halves.
* `UtilizationCountsTheTrace`: `UtilizationIsPeak` for any traces and any allocator.
  `UtilInv` says that the sizes left by `eval_mm_valid` do no harm: those of the ids
  that have a block are the trace's (`SizeNext`), and `total_size` is their sum.
  The community modules define a sum by an order that CHOOSE picks; `SumsExist` and
  `LiveBytesIs` show that the order does not matter.

`DriverAccepts` and `ReplayAgrees` are model-checked only: that no call fails is a matter of the
size of the heap, and that a second run gets the same blocks one of two heaps compared.

## 10. A connection: `Rio`, `Sockets`, `Connection`, `Stream`

### What is modelled

`Sockets` is `open_listenfd` and `open_clientfd`: `list` is what is left of the
addresses, `fds` the descriptors open, `held` whether the list is allocated.  Every
system call may fail, `close` too.  `Rio` is a process that calls `Rio_writen` and
one that calls `Rio_readlineb` and `Rio_readnb`, or `Rio_readn`: `rio` is the
buffer, `call` a call with the bytes it has, `ret` the one before.  `read` and `write`
transfer any number of bytes they can, are interrupted, or fail; the connection holds
`WIRE` bytes, the writer may close it or reset it.

`Stream` knows no buffer: a call takes a line, or n bytes, from the stream at once.

### What the run checks

`connection`: two addresses in lists of up to two; texts of seven bytes in two
writes, a connection of three and a buffer of two bytes.  So a line is longer
than the buffer, than the connection and than the room the caller has, or shorter
than each.  The bytes are all different, so one lost or twice shows.

* `OpensCleanly`: one descriptor on success, none on failure, and no list left,
  except that a `close` that fails returns without `freeaddrinfo`.
* `ImplementsStream`: the refinement, over short counts, interruptions, the end and
  a reset.
* `CallsReturn`: neither end waits for ever, under weak fairness of the writer's next
  step and of the reader's (`ReaderBegins`, `Reads`): two processes that go on running,
  and a kernel in which a call that may transfer bytes does so in the end.  A
  step the other end disables (a full or an empty connection) is not owed.

### What is proved

All of it is in `ConnectionProofs`.

`OpensWithoutLeak`: `OpensCleanly` for any addresses and lists of any length.
`OpenInv` adds to it how many descriptors a side has at each place of its walk.

`RioImplementsStream`: `ImplementsStream` for any texts of bytes, any capacity of the
connection, any `RIO_BUFSIZE` and any sizes the calls are asked for.  `RioAssumption`
says only that a byte is in 0..255, that capacities and the sizes of `Rio_readn` and
`Rio_readnb` are positive and that a line has room for a byte and its terminator.

* The invariant is `RioInv`, checked by TLC on the run before it was proved.  What is
  in the buffer lies within it (`Buffers`, `Filled`); a call that has not returned has
  room left and, if it reads a line, has met no newline (`Short`); a reader without a
  buffer has an empty one.  Without `Filled` the unread bytes are not the buffer's, and
  without `Short` a call could return more than `Stream` gives.
* A step of the code is seen as what it does to two sequences: `Text`, what is still
  to be sent, and `Streamed`, what is sent and no call has returned.  A `write` moves a
  piece from one to the other; `read` into the buffer and `rio_read` out of it move
  bytes within `Streamed`, a stutter; a call that returns takes its line from the head.
  One lemma for each step of `Stream` (`Sends`, `Closes`, `Resets`, `Takes`,
  `Stutters`) says when it is taken, and one for each way a call returns (`GetsSome`,
  `GetsEnd`, `GetsReset`) which step it is.
* What is left is sequences: the head of `FlattenSeq` (`FlattenHead`), pieces of a
  sequence put together again.

`CallsReturn` is liveness and model-checked only.

## 11. The transposition: `Trans`, `TestTrans`

`Trans` has the three functions of `trans.c`, each row of a block the sequence of its
loads and stores.  `TestTrans` executes them (`t` are the local variables, `B` the
matrix), gives every access to an instance of `CacheSim` at its address, and
validates at the end, as `tracegen -F`, the simulator and `eval_perf` do between
them.  The repository has a trace, `lab8/trace.tmp`, that such a run left: for `trans2` at
61 x 67 its accesses are those of the model, all 11,520, with the globals', and
the validation fails for `trans2` in both.

`transpose`: the three sizes `driver.py` grades and 16 x 24.

* `SubmissionGetsFullScore`: the limits 300, 1300 and 2000 of `driver.py` (lines 94-96);
  the model makes 287, 1163 and 1985 misses.
* `KeepsWhatIsRight`: elements wait for their turn in `B`; no store destroys a right one.

There is nothing to quantify over: the functions have their sizes built in.

## 12. Where the code does something else than it says

The model has each of these; the properties above are stated so that they hold
beside them, and name the exception where there is one.

* The shell: ctrl-c before the child's `setpgid`, or with the job reaped in between,
  makes `Kill` fail, and the shell ends.  `do_bgfg` overwrites the ST of a job that
  stopped right after its SIGCONT.  `eval` ignores `addjob`'s failure, so a
  foreground program runs unlisted beside the prompt.  The wrap of `nextjid` hands out
  jids in use.  `sigtstp_handler` may follow a NULL pointer.
* The proxy: `Open_clientfd` exits on a server that cannot be reached, before `doit`
  tests its result (`proxy.c:192`), and takes all threads with it; the grading
  script looks whether the proxy is alive.
* `csim.c` sizes its array by the block; on a hit in a full last set it reads one word
  behind it.
* `csapp.c`: `rio_readlineb` with room for nothing but the 0 returns 0, as at the end;
  an error in the middle of a call loses the bytes it has taken.
* y64sim has one rule of overflow for addition and subtraction (`y64sim.c:287`;
  `isa.c:494` has two) and takes the sign from the lower half (line 300).  The comment
  before `nexti` (384-392) gives a bad data or stack address STAT_INS; it returns
  STAT_ADR.  A `.bin` file
  as long as the memory is refused.
* PIPE: the counter printed as instructions counts cycles (`psim.c:751`); the last two
  cycles before the limit write less than the instructions do; a fetch near the end of memory
  fails though the instruction is there; a store into an instruction already
  fetched is not seen.
* y64asm: relocation writes eight bytes whatever the size of the data
  (`y64asm.c:976`), so a symbol in `.byte`, `.word` or `.long` overwrites the codes before
  it (`Short`); a line it does not understand is dropped without a message (`Dropped`);
  `.align 0` divides by zero; a label may have the name of an instruction (`OddLabel`).
* yas takes a label defined twice, and the first counts; it swallows the line after
  one that its scanner refuses (`Invalid`); an address beyond `CODE_LIMIT` does not fit the `.yo` format.
* `mm_v1.c` and `mm_v3.c` find the size to copy in the wrong word, so `mm_realloc` reads
  beyond a smaller old block; what it writes from there is never read.  v4 writes a
  wrong footer, which its discipline never reads.
* `mdriver.c` does not see a block that encloses another.

## 13. Not modelled

* `lab1`: pure bit expressions, compared with references by its own tests.
* `lab2`, `online`, `target16`, `target78`, `tut-*`: disassembly, notes, tutorials.
* `lab6`'s HCL translators, `yis` (a loop around `step_state`), the Tcl windows,
  SEQ+: they come with the simulator or hold no state of their own.
* `lab7`'s timing, which measures until two times are close; `mm_v2.c`, a draft that
  loses blocks from its list; the options and the printing of `mdriver.c`.
* `csapp.c`'s wrappers of single system calls, which exit on an error; threads,
  semaphores and signals behind them are in the models of the programs that use them.
* `lab10`'s grading script.
* Integers are as wide as the code has them where it matters (words of the processors,
  bytes of the assemblers); `mem_sbrk`'s `int` and the sum of two `size_t` are not:
  the models' sizes are small.

Model-checked only are liveness; what is defined by recursion over the lines of a source
(`AssemblersAgree`, `YasAcceptsToo`); what compares
runs of an allocator or depends on the size of its heap (`DriverAccepts`, `ReplayAgrees`);
and the transposition
(`SubmissionGetsFullScore`, `KeepsWhatIsRight`), which has nothing to quantify over.
