# A verification project for xv6-riscv-os

TLA+ models of the xv6 kernel in `os/kernel/` and of the user programs that
depend on it in subtle ways (`os/user/`), checked with TLC on small instances.
For the process table, the pipe, the disk driver, the buffer cache, the log, the
clock and the console, TLAPS checks proofs of the safety properties and refinements for
every value of the constants.
Line numbers below are lines of files in `os/kernel/` unless a path is given.

## The system and its parts

xv6 is a small Unix for RISC-V multiprocessors. Several CPUs run the same
kernel. Kernel threads (one per process) share memory protected by spin locks,
wait for each other with `sleep()`/`wakeup()`, and are switched by a scheduler
per CPU. The parts, from the bottom up, and where they are modelled:

| part | source | modules |
|---|---|---|
| spin locks, interrupts off, traps | `spinlock.c`, `trap.c`, `proc.c` | **Spinlock** |
| clock, `sys_sleep` | `trap.c`, `sysproc.c`, `kernelvec.S` | **Clock**, **ClockProofs** |
| page allocator, page tables, `exec` | `kalloc.c`, `vm.c`, `exec.c` | **Uvm** |
| process table and scheduler | `proc.c` | **Proc**, **ProcProofs** |
| virtio disk driver | `virtio_disk.c` | **Virtio**, **VirtioProofs** |
| buffer cache, sleep locks | `bio.c`, `sleeplock.c` | **Bcache**, **BlockStore**, **BcacheProofs** |
| redo log | `log.c` | **Log**, **AtomicDisk**, **LogProofs** |
| inodes | `fs.c` | **Inodes** |
| directories, paths, calls on names | `fs.c`, `sysfile.c` | **Namespace**, **Names** |
| blocks of files, the image of `mkfs` | `fs.c`, `mkfs/mkfs.c` | **Blocks** |
| open files, descriptors | `file.c`, `sysfile.c` | **Files** |
| pipes | `pipe.c` | **Pipe**, **ByteStream**, **PipeProofs** |
| console, UART | `console.c`, `uart.c` | **Console**, **LineInput**, **ConsoleProofs** |
| buddy allocator (no caller) | `buddy.c`, `list.c` | **Buddy**, **Allocator** |
| `malloc` | `user/umalloc.c` | **Umalloc**, **Allocator** |
| shells | `user/sh.c`, `user/nsh.c` | **Sh**, **Nsh**, **Userland**, **Programs** |
| `primes`, `pingpong`, `xargs` | `user/*.c` | **Tools**, **Userland**, **Programs** |
| `grep` | `user/grep.c` | **Grep** |
| boot, printing, other programs, tests | | not modelled |

The modules called MC... instantiate these for TLC: MCLog, MCProc, MCPipe and
MCVirtio one component each; MCTables (Proc, Bcache), MCFs (Namespace with
Inodes, Files, Blocks), MCSystem (Uvm, Buddy, Umalloc, Programs, Grep, Names)
and MCMachine (Spinlock, Clock, Console, Log) several. In these a variable
`part` says of which component a behaviour is; the others stay in an initial
state.

How they interact: `pipe.c`, `log.c`, `virtio_disk.c`, `console.c`,
`sys_sleep()` and `wait()` all rest on `sleep()`/`wakeup()` and on `kill()`
making a sleeper runnable; the file system calls reach the disk through the log,
the log through the buffer cache, the cache through the driver. Each model
contains what it needs of its neighbours: Log the contents, pins and recycling
of buffers and one disk write per step; Pipe, Virtio and Console the sleep
channels and `kill()`; Namespace the inodes of Inodes, whose operators return a
new table, so that a step of a call is a composition of them; Files one inode
as its reference count and size; Userland what Proc, Pipe and Files say of
processes, pipes and descriptors.

## Conventions

* A critical section under one spin lock that touches only what the lock
  protects is one step: other CPUs cannot see its middle. Where code holds a
  lock while it waits for another (exit, reparent, wait), holds one across
  `swtch()`, or is watched by something that takes no lock (the disk, `kill()`
  setting `p->killed`), the section is split.
* Data is reduced to what the properties tell apart: block contents and pipe
  bytes are members of small sets, a disk request is named by its process.
* Counters keep their width as a constant (`UINT`, `U16`), so that they wrap.
* A definition called `X_Something` is a mutated form of `X`, a plausible bug.
  It is used by nothing; putting it in the place of `X` makes TLC violate the
  property that it is listed with in `PROJECT.json`.

## The modules

### Log and AtomicDisk (`log.c`)

`AtomicDisk` is the promise: a disk with a current and a durable state;
running calls change the current one; one atomic step, taken while no call is
under way, makes it durable; a crash goes back to the durable one.

`Log` is the code. State: the home blocks, log blocks and header on disk; the
buffers' contents and pins; `log.lh`, `outstanding`, `committing`; one program
counter per process. `BeginSleep`/`BeginEnter` are `begin_op()`; `Modify` is a
caller's `bread()` and change; `LogCheck`/`LogAppend` are `log_write()`, in two
steps because it reads the header for its panics before it takes `log.lock`;
`EndOpEarly`/`EndOpLast` are `end_op()`; `WriteLog`, `WriteHead`,
`InstallTrans`, `ClearHead`, `EndCommit` are `commit()`, one disk write per
step. `Crash` can come between any two steps, also in recovery
(`RecoverInstall`, `RecoverClear`). `Recycle` is `bget()` taking an
unreferenced buffer. The refinement maps the durable state to the home blocks
overlaid with what the on-disk header names.

### Proc (`proc.c`)

State: the fields of `struct proc` that matter, each `p->lock` with the CPU
that holds it, what runs on each CPU, and the locals of `wait()` and `exit()`.
`Scheduler`, `Yield`, `Sched` switch processes, with the state change and the
`swtch()` in different steps; `Fork`, `ForkNoPage`, `ForkNoMemory` are `fork()`
with its failures; `Kill`; `WaitCall` to `WaitSleep` are `wait()`, one child's
lock at a time; `ExitCall` to `ExitZombie` with `Reparent` are `exit()`, one
step per acquire. A trap into the kernel, the killed check of `usertrap()`, a
fault, after which a process marks itself killed and exits (`Fault`), and a timer
interrupt at any time no lock is held are part of it.

`kill()` finds a slot by its pid alone, also a free one: by pid 0, or by the pid
that an `allocproc()` without a page left on it. The history variable `asked`
records under which pid `kill()` found a process, or that it found a slot free,
until `freeproc()` clears the slot; `KilledWasAsked` compares `p->killed` with it.

### Pipe and ByteStream (`pipe.c`)

`ByteStream` is a bounded FIFO of bytes that can be shut. `Pipe` is the code:
processes that may use both ends, the ring with wrapping `nread` and `nwrite`,
two sleep channels, failing `copyin`/`copyout`, `kill()` at any time, and the
last close freeing the page. Each iteration of a copy loop is a step.

### Virtio (`virtio_disk.c`)

Descriptors and their chains, both rings, `used_idx`, and processes in
`virtio_disk_rw()`: `NoDesc` (a failed `alloc3_desc()` and the sleep), `Fill`,
`Publish` (the increment that the device sees), `Wait`, `Finish`. `Intr` is
`virtio_disk_intr()`. The device (external) takes chains in ring order and
finishes them in any order. The device never reports an error status. `Kill`
is why the sleep in `virtio_disk_rw()` is in a loop.

### Bcache and BlockStore (`bio.c`, `sleeplock.c`)

`BlockStore` is the promise of the comment at the top of `bio.c`: blocks that
keep what the last caller left in them, used by one caller at a time. `Bcache`
is the code: `Hit`, `Miss` and `NoBuffers` are `bget()` under `bcache.lock`;
`Acquire`, `AcquireSleep` are `acquiresleep()`; `ReadValid`, `ReadDisk` the rest
of `bread()`; `Bwrite`; `LogWrite` and `Installed` the callers of `bpin()` and
`bunpin()`; `ReleaseSleep` and `DropRef` are `brelse()`, between whose locks
others run. The list order is kept, because `bget()` takes the last free
buffer, and because `binit()` leaves all buffers marked as block 0 of device 0,
which is ROOTDEV: only the order makes `bget()` find the same one each time.
The refinement maps a block to its valid buffer, or to the disk if there is
none.

### Spinlock (`spinlock.c`, with `proc.c` and `trap.c`)

A context is the kernel thread of a process or the scheduler thread of a hart;
`code[c]` is what it still has to execute. `PushOff`, `AcquireStep`, `Swap`,
`Own`, `Release`, `PopOff` are the instructions of `acquire()` and `release()`
that matter; an interrupt (`Timer`) puts its handler in front of what it
interrupts, on any hart whose interrupts are on; `Sched` and `Run` switch
contexts, so that a thread may go on on another hart with that hart's `noff` and
`intena`. `UserTrap`, `KernelTrap`, `Syscall` and `SchedulerLoop` give contexts
their code, taken line by line from `usertrap()`, `kerneltrap()`, `sleep()`,
`wakeup()`, `yield()` and `scheduler()`.

### Clock (`trap.c`, `sysproc.c`)

Timer interrupts set SSIP on each hart; `SoftwareInterrupt`, `ClockIntr` and
`Ack` are `devintr()`, which clears SSIP after it has handled it; `SysSleep` and
`Resume` are `sys_sleep()` with unsigned wrapping arithmetic and negative
arguments.

### Console and LineInput (`console.c`, `uart.c`)

`LineInput` is the promise: a queue of finished lines from which readers take
bytes in order, and an unfinished line that may be edited. `Console` is the
code: `Claim`, `Getc`, `ConsoleIntr` are the interrupt on either hart, between
the PLIC's claim and completion; `ReadCall` to `ReadDone` are `consoleread()`,
one byte per step with `cons.lock` held; `WriteByte` and `WriteBad` are
`consolewrite()`. The refinement maps the ring between `r` and `w` to the
finished lines and that between `w` and `e` to the line being edited.

### Inodes and Namespace (`fs.c`, `sysfile.c`)

`Inodes` holds the inodes on disk and the table of cached ones, with `iget`,
`idup`, `ilock`, `iput`, `ialloc`, `iupdate` as operators. `Namespace` runs
`open`, `mkdir`, `mknod`, `link`, `unlink`, `chdir`, `close` and `exit` by
several processes: each has a stack of the steps that remain, and a step ends
where the code may wait for a sleep lock or takes `icache.lock`. So every
interleaving of `namex()` (which drops a directory before it locks the entry),
`create()`, `sys_link()` with its undo, `sys_unlink()` and the three parts of
`iput()` is explored.

### Files (`file.c`, `sysfile.c`)

The file table with `filealloc`, `filedup`, `fileclose` (which works on a copy
of the file after `ftable.lock` is given up), the descriptors, and `open`,
`pipe`, `dup`, `close`, `read`, `write`, `fork`, `exit` as lists of steps, with
all their failures: no slot, no descriptor, no page, a bad address.

### Blocks (`fs.c`, `mkfs/mkfs.c`)

The bitmap, direct and indirect blocks and contents of the files of an image as
`mkfs` makes it; `Writei` and `WriteBlock` are a `writei()` block by block, with
`copyin()` failing part of the way, `Discard` is `itrunc()`. The blocks that a
call logs are collected, to compare them with what `filewrite()` reserved.

### Uvm (`kalloc.c`, `vm.c`, `exec.c`)

A page table is its pages, its leaves and its user bits. `fork`, `exec`, `sbrk`
and the `freeproc()` in `wait` are one step each, as they share only the free
list with others; each is given the set of its `kalloc()` calls that fail, so
all error paths run, also two failures in one call. `exec` gets programs with
overlapping, unaligned, unreadable and malformed segments. Sizes keep
`growproc()`'s mixture of `int` and `uint`. `hist` records the failures and the
pages of tables that `proc_freepagetable()` gives up because their size is 0, so
that `PagesAccounted` can say exactly which pages are lost and which failures end
in a panic.

### Buddy, Umalloc and Allocator (`buddy.c`, `user/umalloc.c`)

`Allocator` is the promise of both: a block handed out has at least the bytes
asked for and is disjoint from all others. `Buddy` has `bd_init()` with its
metadata at the front, an unavailable tail at the end and its check of the free
memory, the split and alloc bits (with what `bit_isset()` finds behind a vector,
where `bd_initfree()` asks for it), and the free lists; `Umalloc` the circular
list of headers, `morecore()` and programs that call `sbrk()` themselves.

### Userland, Sh, Nsh, Tools, Programs (`user/`)

`Userland` is a machine that runs programs given as instruction sequences (a
system call each, or a loop around one) with processes, descriptors and
bounded pipes. `Sh` has the parser of `sh.c`, from characters to trees whose
words are positions in the line, with `nulterminate()` at the end, and
`runcmd()` as a translation of such a tree to instructions. `Nsh` does the same
for `nsh.c`, `Tools` for `primes.c`, `pingpong.c` and `xargs.c`. `Programs`
starts one of them on one input and has their processes run interleaved. The
arguments of `xargs` live in an array that is never cleared: the strings of a
longer line are emptied and freed and stay in it for the shorter lines after it.

### Grep and Names (`user/grep.c`, `fs.c`, `string.c`)

`Grep`: `matchhere()`, `matchstar()`, `match()` against a definition of the
language of a pattern, and `grep()`'s buffer with reads of any length. `Names`:
`skipelem()` with its name buffer, which is unterminated for a long name;
`strncpy()` and `strncmp()` as `dirlink()` and `namecmp()` use them; and
`memmove()` on overlapping ranges.

## What TLC checks

Bounds are the constants in the `.cfg` files.

| run | instance | shows |
|---|---|---|
| log_crash | 2 processes, 2 blocks, up to 2 blocks per call, fair | Log implements AtomicDisk under crashes anywhere (`CrashAtomic`); sleepers of `begin_op()` are woken (`SleepersWoken`) |
| tables | 3 slots, 2 CPUs, failing allocations; 3 users, 3 blocks, 2 buffers, pins | `TableSound`: no process on two CPUs, the locks at `sched()`, live parents, no missed exit, unique pids. The mark of `kill()` or of a fault never passes to another process (`KilledWasAsked`), with `kill()` of pid 0, of a process and of the pid of a failed `fork()`. `BuffersSound`: one copy per block, exact reference counts, held buffers locked and valid, no lost wakeup, `bget()` panics only when all buffers are in demand. Bcache implements BlockStore (`Transparent`) |
| proc_live | 3 slots, 2 CPUs, one process killed and one that may fault, fair | killed processes exit (`KilledExits`); `wait()` returns when there is a zombie (`WaitReturns`) |
| pipe | 2 processes, ring of 2, counters modulo 4, failing copies, one process may be killed, fair | Pipe implements ByteStream (`Fifo`); no use after free and no lost wakeup while nobody is killed (`PipeInv`); reading 0 bytes means that writers are gone (`EofMeansClosed`); closing one end unblocks the other (`CloseUnblocks`) |
| virtio | 3 processes, 6 descriptors, counters modulo 12 | a buffer is returned only after the I/O (`DoneBeforeReturn`); nobody sleeps for nothing (`NoLostWakeup`); descriptors are never leaked, shared or freed twice and no completion is skipped (`RingsSound`) |
| fs | 2 processes, 4 inodes, 4 cache slots, 3 calls on names from several trees; 2 processes, 3 files, 2 descriptors, 1 pipe, 4 calls on descriptors; a disk of 14 blocks of 2 words, 4 calls | `InodesSound`: inode references are exactly those of directories in use, descriptors and running calls, one slot per inode, which agrees with the disk, panics only for the reasons listed. No cycle of inode locks (`NoLockCycle`). `TreeSound`: entries name allocated inodes, link counts are right, an inode is freed only when unused. File and pipe references are exact (`CountsExact`) and offsets move by what was transferred (`OffsetsMoveByTransfers`). The bitmap is exactly the blocks in use (`BlocksExact`); reads return what was written (`ReadsReturnWrites`); no chunk logs more than was reserved (`OpFitsLog`) |
| system | 18 pages, 2 processes, up to 2 failures per call; a heap of 8 leaves, 0 to 3 of them unavailable; a heap of 10 units; 6 processes running `sh`, `nsh`, `primes`, `pingpong`, `xargs`; all patterns of 3 characters; all paths of 6 characters | every page has one owner, none is lost but in a table given up at size 0, and only three failures end in a panic (`PagesAccounted`); copies reach the right bytes (`CopyRange`); a failed `exec`, `fork` or `sbrk` leaves the image as it was, and `sbrk` and `uvmcopy()` lose no page by failing (`FailureLeavesImage`); both allocators implement Allocator (`BuddyRefines`, `UmRefines`) and merge what is free (`BuddySound`, `RingSound`); the shells parse back every line and print its meaning (`MeaningKept`), never hang, wait for what they started and close what they opened (`NothingLeftBehind`); `grep` prints the matching lines however input is cut (`GrepRight`); paths, stored names and `memmove()` are exact (`NamesRight`) |
| machine | 2 harts, 2 threads, 3 traps; ticks modulo 4; 2 readers, 1 writer, 5 keys, a ring of 2 with indices modulo 4; a log of 4 with 4 blocks, every buffer recyclable, crashes that leave nothing to recover | mutual exclusion and no interrupt while a lock is held (`LocksExclude`), interrupts on again afterwards on whichever hart (`HartFitsThread`); `sleep(n)` lasts n ticks and not longer (`SleepsExactly`); the console implements LineInput (`ConsRefines`) and loses no key order, no end of file and no wakeup (`InputDelivered`); what is only in memory is pinned, no panic, and the unlocked size check never lets the log overflow (`LogSound`) |

Why the bounds are enough to be interesting: two calls share a transaction or
one waits for the other's commit; three users want two buffers, two of them
asleep on the same one; a slot is freed and used again by a relative; rings and
counters wrap; there are more processes than descriptors for them; an inode is
unlinked, freed and allocated again while another process walks to it; the disk
fills up in the middle of a write; files reach into their indirect block; both
allocators split, merge and run out; a line of two commands with a redirection
each has all its processes alive at once; a thread is interrupted inside an
interrupt's `yield()` and goes on on the other hart. Deadlock is checked in Log
and Virtio. In the others the system may rest: all processes asleep or closed, a
bound on pids, calls or keys reached, or a panic.

### Disagreements with the documentation

Each of these runs finds a behaviour of the code that contradicts a comment, an
assertion or the book (`book/`); `PROJECT.json` quotes the lines.

| run | shows |
|---|---|
| log_unpin | recovery unpins buffers nobody pinned (`log.c:78`), so a dirty buffer can be recycled after a reboot that recovered a transaction |
| proc_deadlock | `exit()` locks a stale parent pointer (`proc.c:363`), which may now be its own child: lock order reversed, two CPUs spin for ever |
| proc_orphan | a child copies its parent (`proc.c:358`); the parent exits and gives it to init, which scans, finds it alive and sleeps; the child's wakeup then goes to the old parent's slot (`proc.c:371`), not a "harmless spurious wakeup", and init never reaps it |
| fs_leak | an inode number that is taken again while `iput()` still holds the reference of its last use (`fs.c:338-357`) is freed by neither of its users |

The passing runs leave exactly these cases out: by constants (`CrashInstall`
and `Recyclable` in Log), or because the property is checked by the failing run
only (`NoLockDeadlock`, `OrphansReaped`, `UnlinkedFreed`). `proc_deadlock` uses
a state constraint (one line of descent) only to be found faster. init can also
miss the early wakeup at `proc.c:347`, as the comment there says; a zombie that
is left behind that way needs a fourth slot, and the run has three.

Other limits of the code that the models show and that have no run of their own:

* `kill(0)` matches a free slot (`proc.c:621`) and marks its next process as
  killed, and so does `kill()` of a pid that a failed `fork()` left on a free
  slot: `KilledWasAsked` names this as the one way to be killed without having
  been asked for. `kill(1)` sends init to the panic in `exit()`.
* A writer killed while the pipe is full leaves without waking the readers
  (`pipe.c:86`); `NoLostWakeup` of Pipe speaks of states in which nobody was
  killed. `pipewrite()` returns `n` also when `copyin()` failed.
* `log_write()` panics at `size - 1` blocks while `begin_op()` reserves up to
  `LOGSIZE`, so the log holds one block less than is reserved: the machine run
  lets a call write fewer blocks than `MAXOPBLOCKS`.
* A file created in a directory that has been removed, but is a current
  directory, keeps a link nobody can reach (`sysfile.c:278`); `..` of such a
  directory may name an inode that has been freed or used again. A crash loses
  inodes that are open but unlinked. `iget()` panics when all slots are in use.
* A `writei()` whose `copyin()` fails (`fs.c:500`) leaves part of a block changed
  in the cache and not in the log, and `filewrite()` moves the offset all the
  same.
* When `uvmalloc()` fails in `exec`, `sz` is 0 and `proc_freepagetable()` skips
  the pages mapped so far (`exec.c:52`): they are lost with the new table. A
  process that has shrunk to size 0 loses the pages of its page table, but no user
  page, when it exits or calls `exec` (`proc.c:182`). `PagesAccounted` says that
  nothing else is ever lost.
* A `uvmcopy()` that fails at its first page does not "free any allocated pages"
  and return -1, as `vm.c:317-318` has it, but panics in `uvmunmap()`, whose last
  page is the one before the first (`vm.c:345`). `uvmcreate()` panics without
  memory, and a failure of the two `mappages()` in `proc_pagetable()` is ignored
  until `uvmunmap()` meets the missing page. `PagesAccounted` says that these are
  the only failures with such an end.
* On a heap that is a power of two with nothing unavailable, `bd_initfree()` looks
  at the bits behind a vector, which are those of the next one (`buddy.c:243`); it
  may then take memory behind the heap for free, and `bd_init()` panics.
  `BuddySound` says that it does so on no other heap. The kernel's own image makes
  part of its heap unavailable.
* `xargs` passes an empty argument for each word by which an earlier line was
  longer (`user/xargs.c:46-52`), which `MeaningKept` states; more than `MAXARG`
  words on a line are not modelled.
* `mkfs` rounds a root directory that ends on a block up by a whole block
  (`mkfs.c:166-171`).
* `nsh` waits for a command before anybody reads its pipe, and hangs if the
  output is longer than the pipe; it drops the middle command of `a | b | c`,
  prints a blank line after each line it copies, and closes stale descriptor
  numbers. `sh` treats `>>` like `>` (`sh.c:391-393`).

### Fairness

* Log: commits, recovery and `log_write()` run on (weak fairness: they only
  wait for the disk), a call reaches its `end_op()` (strong: crashes and the
  call's own writes may come between). Nothing is assumed about new calls or
  crashes.
* Proc: the timer fires and `swtch()` completes (weak); a process that is
  runnable again and again is scheduled, and one that runs again and again gets
  its next kernel step done (strong). The scheduler scans the table round
  robin, and a spin lock that is free again and again is obtained: the code's
  test-and-set gives this with probability one rather than certainty. A process
  that spins for a lock is not preempted, because `acquire()` has turned
  interrupts off before it spins (`KeepsSpinning`, `spinlock.c:36`); without this
  the timer could take the CPU from an exiting process each time its parent's lock
  is held. In these runs `fork()` takes the first free slot, as `allocproc()`'s
  scan does unless a slot behind it is freed meanwhile (`TakesFirstFree`). init
  calls `wait()` for ever (`user/init.c:34`), no other user program must do
  anything.
* Pipe: a process inside a pipe call, awake, takes its next step (strong,
  because it competes for `pi->lock`).
* Bcache, Virtio, Console, Clock, Namespace and Files: no fairness and no
  liveness. They can starve a process that is woken and finds the buffer, the
  descriptors or the input taken again; `NoLostWakeup`, `InputDelivered` and
  `SleepsExactly` say that it is at least never left asleep for nothing, and
  `NoLockCycle` that nobody waits in a circle.
* Userland: no fairness; `NeverStuck` (part of `NothingLeftBehind`) says that somebody can go on until all
  have ended.

## What is proved

The theorems hold for every value of the constants that satisfies the named
assumption of the component's module (`ProcAssumption`, `PipeAssumption`,
`VirtioAssumption`, `CacheAssumption`, `LogAssumption`, `ClockAssumption`,
`ConsAssumption`; TLC evaluates each on the runs). They are safety properties, so they hold under any
scheduling. In every module the argument is the same: an inductive invariant,
one lemma per action (or per group of actions that leave the same things alone)
that the action preserves it, a lemma for `Next`, and a theorem per property.
Leaves that need no arithmetic name the prover `Zenon`.

### Process table (`ProcProofs`)

For every `NPROC`, set of CPUs and `KillPids`, with and without failing
allocations: `OneCpu`, `SchedLocksHeld`, `ParentsLive`, `NoExitMissed` and
`PidsAreUnique`, together `TableCorrect`: `TableSound`. None of them is
inductive. `IInv` adds:

* `LockInv`: each CPU holds exactly the locks that the location of its process
  says (`HeldBy`), and a process that is not on a CPU holds none. With it,
  `OneCpuPerProcess` follows: a runnable process still on a CPU has its lock
  held, and the scheduler needs the lock.
* `PcInv`, `InitInv`: which locations go with which states; init is never a
  zombie, so there is always somebody to reparent to.
* `OrigInv`: where `exit()` holds `original_parent`'s lock, that parent is
  either the real one or the process has been given to init. Together with the
  locks it means that a real parent cannot go to sleep, or exit, between the
  child's wakeup and its becoming a zombie.
* `ScanInv`: children that `wait()` has passed in its scan are not zombies,
  because becoming one needs the lock that `wait()` holds.

`KillHitsItsPid` proves `KilledWasAsked`, for all `KillPids`, 0 included, and all
failures. Its invariant `KilledInv` also speaks of free slots (one that is marked
was found free by `kill()`), and needs from `PidInv` that a pid is unique among
all slots, the free ones with the pid of a failed `fork()` included: what
`freeproc()` forgets of one slot then says nothing about another.

### Pipe (`PipeProofs`)

For any number of processes, ring size and counter width of which the ring size
is a divisor: `PipeInvariance`: `PipeInv` is inductive as it stands (who holds
`pi->lock`, which ends are open, what a sleeper waits for). From it
`WakeupsSuffice`, `FreedIsUnused` and `EofIsTheEnd`, and, with `RingInv` (the
bytes between the two wrapping counters), `PipeIsFifo`: the refinement `Fifo` of
ByteStream. That the counters' width is a multiple of the ring size is what
makes `nread % PIPESIZE` continuous over the wrap; 2^32 is one of 512.

### Disk driver (`VirtioProofs`)

For any number of processes and descriptors and any width of the ring counters
that is a multiple of `NUM`: `DiskDone`, `DiskWakes`, `RingsStaySound`. The
invariant `VirtioInv` says where the chain of each request is: not yet published
(`PublishInv`), in the avail ring (`AvailInv`), in the device (`BusyInv`), in
the used ring (`UsedInv`) or reported (`ServedInv`); chains are disjoint and
account for every descriptor that is not free (`ChainInv`). The rings are sets
of slots measured by their distance from the reader's index. That an index never
catches up with the other, so that `used_idx % NUM = used->id % NUM` really
means empty, is a counting argument: a full ring would name `NUM` different
chain heads, but each chain also has two descriptors that are no heads.

### Buffer cache (`BcacheProofs`)

For any number of buffers, users and blocks: `CacheIsSound`: `BuffersSound`, and
`CacheIsTransparent`: the refinement of BlockStore. `CacheInv` adds that the list
names every buffer (`LruOnto`); that of the buffers marked with one block the one
in use comes first in the list (`FirstCopy`: `binit()` marks all as block 0, so
without the order `bget()` could find an unused one and make a second copy); who
has a buffer locked (`HolderInv`); that logged blocks have a valid copy
(`PinInv`); and that a copy differs from the disk only if it is pinned or its
user has not finished (`CleanInv`), which is why recycling loses nothing. The
reference counts are compared with cardinalities of sets of users, by the
library's theorems on finite sets. `PanicNeedsDemand` maps each buffer to a user
or a logged block.

### Log (`LogProofs`)

For any number of processes, blocks and log blocks:

* `LogIsAtomic`: the refinement `CrashAtomic` of AtomicDisk: crashes between any
  two disk writes and during recovery. Hypothesis: if a crash can leave
  something to install (`CrashInstall`), no buffer is recycled. This is the case
  that the run log_unpin refutes: recovery drops a pin nobody took.
* `LogNeverPanics`: the panics of `log_write()` and `end_op()` are not reached,
  the log stays within its blocks on disk, and quiescent states are durable.
  Hypothesis `LogRoom`: a call writes fewer blocks than it reserves, as
  `log_write()` gives up one block before `LOGSIZE`; `LOGSIZE` holds more than
  one reservation, and the log on disk is as large as `LOGSIZE`.
* `LogStaysSound`: `LogSound`, with every buffer recyclable, when crashes leave
  nothing to install.

`LogInv` has the protocol of the commit (`CommitInv`: one process, no call under
way), what calls have written (`CallInv`), where the log, the home blocks and
the buffers agree in each phase (`PhaseInv`), pins (`PinInv`), and the
reservation: `SpaceInv` bounds the log by counting pairs of calls and blocks they
have written, so that absorbed writes and unused reservations both come out
right. The unlocked size check of `log_write()` needs one thing more,
`AloneInv`: a call that is alone now either was so from the start of the
transaction or entered when there was room for two.

### Clock (`ClockProofs`)

`SleepIsExact`: `SleepsExactly` for every width of `ticks`, any number of
sleepers and harts, and every argument, negative ones included. The invariant
relates the unsigned difference `ticks - ticks0` to the ticks that the sleeper
has really lived through (`SinceInv`), and `ticks` to the timer interrupts of
hart 0 (`CountInv`).

### Console (`ConsoleProofs`)

For any ring, any width of its indices that is a multiple of the ring and larger,
and any number of harts, readers and writers: `InputIsDelivered`:
`InputDelivered`, and `ConsoleIsLineInput`: the refinement `ConsRefines` of
LineInput. `ConsInv` adds who holds `cons.lock` (`LockInv`), that one hart at a
time is between claim and completion (`ClaimInv`), that what it has in hand is the
byte after the last one seen and the UART holds those after it (`OrderInv`), and
that no end of a line is ever edited (`EditInv`). The refinement rests on lemmas
about unsigned differences and about the sequence of bytes between two indices
when one of them moves.

### What is only model-checked

* Liveness (`SleepersWoken`, `KilledExits`, `WaitReturns`, `CloseUnblocks`) is
  out of the prover's reach.
* Uvm, Umalloc, Grep, Sh, Nsh and Programs use recursive operators, about which
  the prover cannot reason, and their properties speak of what recursion over
  data computes.
* Spinlock, Namespace, Inodes, Files, Blocks, Buddy and Names have no
  proof yet. Those of the file system sum over tables and stacks of steps; the
  invariants TLC checks there are far from inductive.

## What is not modelled

* The register handshake of `virtio_disk_init()`, assembly (register saving,
  `swtch`), formatting and printing, boot (`main.c`, `start.c`, `kvminit`), the
  system call table and its argument copies: sequential code without shared
  state.
* `find`, `ls`, `wc`, `uthread` and the one-call programs of `user/`; messages to
  descriptor 2; `cd`; the second shell that goes on when an `exec` of `nsh`
  fails.
* `usertests.c` and the other test programs and scripts.
* Memory is sequentially consistent: the barriers of `acquire`/`release` and
  `virtio_disk_rw` justify this for the data the locks protect, and unlocked
  reads (`np->parent` in `wait()`) are steps of their own.
* `user/init.c` also calls `exit()` when its `fork()` fails, which ends in the
  same panic as `kill(1)`; Proc leaves that out. `nextpid` does not wrap.
* Crashes are in Log only: the components above it run on a disk that is seen
  through it, and a call that stays within its reservation (`OpFitsLog`) is
  atomic by `CrashAtomic`.
