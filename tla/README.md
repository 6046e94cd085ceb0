# Jonix: TLA+ models and proofs

Jonix is a small 32-bit x86 kernel.  This directory holds TLA+ modules that
model its core, TLC configurations that check them on small instances, and
proofs that the TLA+ proof system checks for every instance.

## 1. The system

One CPU, no SMP.  `boot.asm` sets up a stack and calls `main()`, which
initialises each part with interrupts off, executes `sti`, and halts in a loop.
From then on everything is driven by interrupts: the 1000 Hz timer switches
threads, the keyboard handler prints characters, and threads enter the kernel
by `int 0x80`.  Before that, `main` scans the PCI bus and searches for disks by
polling, alone on the CPU.  Gates are installed with type `0x8E` (interrupt gates), so every
handler runs with interrupts off.  There is no `cli` in the repository: code
that is not a handler runs with interrupts on.

| part | source | state | operations | hard about it |
|---|---|---|---|---|
| threads | `lib/thr.c` | `thr_threads`, `thr_ready`, `thr_sleep`, `thr_current`, each `thread_t` | `thr_init`, `thr_new`, `thr_switch`, `thr_run` | context switches from three places; a saved stack pointer per thread |
| scheduler | `lib/sched.c` | none of its own | `resched`, `resched_no_int` | an imitation interrupt frame built by hand |
| time | `lib/time.c` | `time_ticks` | timer handler, sleep system call | wrap of the tick counter; a loop over an ordered list; out of memory in a handler |
| semaphores | `lib/sem.c` | count and wait list | `sem_wait`, `sem_release` | run with interrupts on; hand-over instead of counting |
| system calls | `lib/syscall.c`, `lib/user/unistd.c` | handler table | `syscall_handler`, `sleep` | entry from a thread, with the timer's handlers behind it |
| lists | `lib/util/list.c`, `sort.h` | nodes, first, last, size | add, ordered add, del, get, set, free | pointer surgery, 32-bit indices |
| ordered arrays | `lib/util/oarray.c` | array, size | add, del, find | sorted by a key that can change |
| heap | `lib/heap.c`, `kmalloc`/`kfree` of `lib/mem.c` | headers, footers, index | place, extend, alloc, free | splitting, merging, page alignment, failure half way |
| pages | `lib/mem.c` | two page stacks, page tables | `ppalloc`, `ppfree`, `pmap`, `psalloc_at_v`, `kpfree_at_v` | failure half way, two stacks |
| interrupts | `lib/irq.c`, `lib/isr.c`, `lib/idt.c`, `boot.asm` | handler table, IDT, frames on stacks | remap, stubs, dispatch, end of interrupt, exceptions | which vector, which controller, which word of the stack |
| descriptor tables | `lib/gdt.c`, `lib/idt.c` | GDT, IDT | set an entry, load | fields cut into pieces |
| screen and printing | `lib/devs/scrn.c`, `lib/c/printf.c`, `lib/c/string.c` | cursor, video memory | putc, scroll, printf, snprintf, string functions | called by threads and handlers, unlocked; ends of buffers |
| keyboard | `lib/devs/kb.c` | buffer, flags, error text | handler, init | a second byte polled for inside the handler |
| PCI | `lib/devs/pci.c`, `pci_dev_info.h` | lists of devices, tables of names | scan, look up | gaps, doubled rows |
| disks | `lib/devs/ata.c`, `ptbl.c` | controllers, devices, `sel_dev`, partitions | find, reset, identify, read, parse | bounded polls, a cache of what the hardware has selected |
| RAM disks, registry, identifiers | `lib/devs/ramdisk.c`, `hal.c`, `lib/util/id.c` | lists | new, open, read, write | 32-bit bounds |
| file system | `lib/filesystems/vfs.c` | the root | init, path, permissions | unfinished |

Interactions.  Every list node comes from `kmalloc`, so every list operation of
the scheduler can fail; some callers look at the result and some do not.  The
timer handler moves threads between the lists that semaphore calls and the
sleep call also change.

What makes each part correct, and what can go wrong in it, is listed line by
line under `hazards` in `PROJECT.json`, with the properties that watch it.

The repository is a snapshot of work in progress.  `id.c` and `id.h`, `initrd.c`,
`vfs.c`, `ramdisk.c` (whose header gives `ramdisk_new` one parameter less, and which
calls `strcpy` with three arguments, `ramdisk.c:48`) and the calls of `idarray_*` in
`thr.c` do not compile, and several files are not in the Makefile's list.  The
models describe the functions that are complete; thread identifiers, which
`thr_new` takes from the arrays of `id.c`, are left out.

## 2. Modules

| module | models | state in the code | actions |
|---|---|---|---|
| `Olist` | what `list.c` promises: `olist_add` and the vocabulary of lists | - | operators only |
| `Sched` | threads, scheduler, timer handler, sleep, semaphores | `thr_current`, `thr_ready`, `thr_sleep`, `thr_threads`, `time_ticks`, `thread_t.state`, `sem_t` | `NewThread`, `EnableInterrupts`, `TimerEnter`, `WakeOne`, `TimerExit`, `Sleep`, `SemTake`, `SemBlock`, `SemHandOver`, `SemPost` |
| `SleepClock` | true time beside `Sched`; what `time_init` makes a tick last | history variables `left`, `excused` | `ClockStep`, `ClockSleep`, `ClockSleepBadUnit` |
| `Preempt` | `Sched` with semaphore calls and `thr_switch` statement by statement | the context on the CPU, `kstack_ptr` of each thread; history variable `cuts` | `Wait...`, `Release...`, `Irq...`, `SleepCall` |
| `List` | the links of `list.c` | `first`, `last`, `size`, nodes | one per operation; `olist_add` by where it inserts |
| `ListSpec` | the sequence a list is | - | the abstract operations |
| `Heap` | `heap.c` and `oarray.c` behind `kmalloc` and `kfree` | headers, footers, index, `heap->end` | `Request`, `AllocFound`, `Extend`, `ExtendIndexFull`, `ExtendNoMemory`, `Free` |
| `Malloc` | what callers of `kmalloc` count on | - | a grant, a return |
| `Mem` | page stacks and page tables of `mem.c` | `memstack1`, `memstack2`, `vpage_dir`, the tables | `Psalloc`, `MapPage`, `MapNewTable`, `FailNoPage`, `FailNoTable`, `FailInUse`, `Kpfree` |
| `Irq` | `irq.c`, the two interrupt controllers | requested and in-service lines, the number pushed | `Raise`, `Accept`, `TimerHandler`, `OtherHandler`, `Syscall`, `SyscallEnd`, `Exception` |
| `Kb` | `kb.c` on `Irq`, a keyboard and its user | port, wire, `kb_flags`, `kb_buffer`, `kb_err` | `PressKey`, `ReleaseKey`, `Load`, `ReadPrefix`, `KbHandler`, `SetPrintToScreen`, `TogglePrintToScreen` |
| `Gdt` | `gdt.c` and `idt.c`, bit by bit, and the CPU's reading of them | - | operators only; words are sets of bits |
| `Frames` | stubs, `isr_stack_kernel_t`, `thr_new`'s and `resched_no_int`'s frames, `thr_switch`, `thr_run` | registers, stacks, `kstack_ptr` | `Work`, `Interrupt`, `Syscall`, `Block`, `Stops`, `Returns`, `Switch`, `Leave` |
| `Scrn` | `scrn.c` | video memory, `xpos`, `ypos` | `scrn_putc` |
| `Printf` | `printf.c` on `Scrn` | the call that is running | `printf`, `snprintf`, `Literal`, `Percent`, `Convert`, `SPRINT_S`, `Return` |
| `Str` | `string.c` | - | loops over a memory |
| `Vfs` | paths and permissions of `vfs.c` | - | operators only |
| `Pci` | `pci.c`, `pci_dev_info.h` | `pci_devs`, `pci_tree`, `ide_ctlrs`, loop indices | `PciAbsent`, `PciFound`, `PciPanics`, `PciDone` |
| `Ata` | the search for disks in `ata.c`, against hardware | `ata_ctlrs`, registers, polls | one per function between two polls, one per poll |
| `Ptbl` | `ptbl.c` | - | operators only |
| `Ramdisk` | `ramdisk.c`, the `idlist_*` of `id.c` | - | operators over a memory and a list |
| `Disks` | `main` before `sti`, `vfs_init`, composed of `Pci`, `Ata`, `Ptbl`, `Ramdisk` | the phase of `main`, the registry, `root_fs` | `InitTables`, `InitMemory`, those of `Pci` and `Ata`, `VfsInit`, `VfsPanics` |
| `OlistProofs`, `SchedProofs`, `ListProofs`, `HeapProofs` | lemmas and theorems about the module each is named after | | |
| `MachineProofs` | theorems about `Mem` and `Frames` | | |
| `PrintfProofs` | theorems about `Printf` and `Scrn` | | |
| `DeviceProofs` | theorems about `Irq`, `Kb` and `Disks` | | |
| `ThreadProofs` | theorems about `SleepClock` and `Preempt`, which extend `Sched` | | |

`Preempt` and `SleepClock` extend `Sched`; `Sched`, `List` and `Heap` use
`Olist`.  `List` implements `ListSpec`, whose operations are those of `Olist`, so
the sequences in the other modules stand for real linked lists.  `Heap`
implements `Malloc`.  `Preempt` implements `Sched`.  `Irq` discharges an
assumption of `Sched`: that timer interrupts keep coming.  `Kb` extends `Irq`: the
keyboard's handler takes part in all that `Irq` checks.  `Frames` discharges an
assumption of `Preempt`: that a context that was saved comes back as it was.
`Disks` checks what `Sched` and `Kb` start from: that `main` reaches `sti`, with
everything initialised that an interrupt needs.

The modules whose names end in `MC` give constants that a configuration cannot
spell: priorities, sleep arguments, requests, formats, machines.  In a module, an operator
whose comment says `Bug` is a wrong version of the definition it stands
next to.  None is part of a specification; each is listed in `PROJECT.json` with
a property that fails when it takes the definition's place, so that no property
holds for lack of anything to break it.

### Decisions in the models

* **Atomicity.**  A handler runs with interrupts off, so `syscall_sleep` is one
  step, and the timer handler is entered, wakes and leaves in steps nothing can
  interleave with.  Semaphore calls are one step in `Sched` and one step per
  statement in `Preempt`.
* **Ticks.**  `SleepClock` follows `time_init`'s three writes into the interval
  timer and assumes, by an `ASSUME` that TLC evaluates (`TicksKeepTime`), that the
  ticks `syscall_sleep` counts for a second last one, to a thousandth.
* **Interrupts around semaphore calls.**  Nothing in the repository turns
  interrupts off around them, so in `Preempt` a timer interrupt may come between
  any two statements of `sem_wait`, `sem_release`, `resched_no_int` and
  `thr_switch`.  Some of these places break something.  The history variable
  `cuts` collects the places where an interrupt has come, and each property
  says at which of them it is lost: the lock between the test of the count and its
  decrement (`sem.c:30`), which is the finding of run `PreemptLock`; a release
  between a test and what it decides (`sem.c:30-36`, `47-52`); a thread's stack
  inside `thr_switch` (`thr.c:291-330`).  After an interrupt inside `thr_switch` the
  code may write through a NULL pointer or resume a frame that has been
  overwritten; there the model goes no further.
* **Lists are atomic in `Preempt`.**  With interrupts on, `olist_add` can be
  interrupted too, half way through the links; no property could say what is left
  then, and a list operation is one step.
* **Unchecked memory.**  `pci.c:63`, `ata.c:296` and `thr.c:138-142` use what
  `kmalloc` returned without looking (the last adds to it first and then compares with 0).
  The first writes through NULL, into memory that is mapped (`mem.c:186`), as does the second;
  the models go on from there with what was lost.  A thread whose stack could not be allocated is not
  modelled: it would run on memory that belongs to others.
* **Memory in `Sched`.**  `Alloc` is `{TRUE}` or `{TRUE, FALSE}`: what each
  `kmalloc` may return.  Each caller checks or ignores the result as it does in
  the code.
* **The heap in words.**  Addresses count words of four bytes and a page is 32
  words.  Header (3 words) and footer (2) have their real sizes, the misplaced
  footer its real distance.  A header or footer that comes to lie inside a block
  is forgotten: reading it there is a wrong magic number.
* **The interrupt controllers** are modelled from the words `irq_remap` sends:
  fully nested, non-specific end of interrupt, the second on line 2 of the first.
* **The keyboard** sends its codes over a wire that does not wait for the
  handler; reading the port withdraws its request.  An empty port gives the last
  byte again, as the controller does.
* **Disk hardware.**  `Ata` does not model one drive.  Every read of the status
  register returns any status that a device could be in: busy, ready, with an
  error or a fault, with data, for as long as it likes.  Registers of a device
  that is not there may echo what was written when the other one of the
  controller is.  A reset selects device 0.
* **Tables of names.**  `Pci` has, of 7000 rows of `pci_dev_info.h`, those that
  tell cases apart: a device listed twice, class numbers listed twice, an empty
  name, and the chips of the machine the driver expects.  The search goes through
  them as the code does and is compared with the code of `pci_dev_info.c`, a
  sample of another such search that is not compiled.
* **Frames.**  A word on a stack is a pair of what it is and a number.  C
  functions may overwrite `eax`, `ecx`, `edx` and their argument.  A thread that blocks
  does so with interrupts as it has them: `resched_no_int` does not touch the flag.  The `asm` of
  `resched_no_int` overwrites `eax` without saying so; the model is of builds in
  which that does no harm.
* **Paging.**  `Mem` assumes that `mem_init` turns paging on.  The instruction at
  `mem.c:230` lacks the `$` of an immediate operand, so it reads memory instead.
* **Undefined calls.**  `vfs_init` is modelled although its file does not
  compile (`root_rs` for `root_fs`): it is what `main` calls.

## 3. Runs

Bounds are constants of the modules: `MaxCount` bounds a semaphore's count,
`MaxPuts` the calls of `scrn_putc`, `FreePages` the memory a heap grows into,
`TickMod` is the modulus of the tick counter, `MaxCuts` the number of
places inside calls at which interrupts come (at each of them any number of times).

| run | question | instance |
|---|---|---|
| `Sched` | Do the lists stay sound under any interleaving of timer, sleep and semaphores, is the right thread dispatched, do sleepers wake and equals take turns? | 4 threads (two equals on top, one between, the null thread), 2 semaphores, tick counter modulo 8, sleeps of 0, 2 and 10 ticks |
| `SleepClock` | Does a sleep end with the handler of the very tick it asked for, no earlier and no later, even when memory runs out at any point? | 3 threads, counter modulo 12, an unknown unit, failing `kmalloc` |
| `Preempt` | With interrupts on, and but for the places each property names: is a semaphore a lock, is every saved stack a thread's own, are the semaphore calls atomic, is the lock granted? | 3 client threads of one priority on one lock, sleeps of 1 tick; interrupts inside calls at any one place, repeatedly |
| `PreemptLock` | The same lock without exceptions | counterexample |
| `List` | Do the links stay sound and behave as a sequence? | 4 nodes, 3 values of which 2 compare equal |
| `Heap` | Do the blocks tile the heap, is memory the caller's alone, is the index sound, is every request answered? | 2 pages and 2 more, index of 2 places, three kinds of request |
| `Mem` | Is no page used twice or lost, does the kernel stay mapped, does the walk of `addr_v2p` find every page? | 10 or 11 pages, 8 entries a table, 2 tables |
| `MemFree` | Does `kpfree_at_v` free the page it was called for? | pages of a second table; counterexample |
| `Kb` | Does text come out as typed, is every key handled, are interrupts ended, is the timer served? | a letter, shift, the keypad's Enter; timer, disk, system calls, a page fault; a buffer of one |
| `Printf` | Does the screen show the last rows printed, is the text what the format asks for, are the string functions and permissions right, do the components of a path fit their buffer unless too long? | 3 rows of 4 columns, tab stops of 2, nine characters; 13 formats; `int` of ten bits, a kilo of 4; buffers of 0 and 2 |
| `Disks` | Are devices and partitions described as what they are, is DMA used only with the channel's own bus master and a usable table, do RAM disks keep their data, does boot end? | 4 machines, 3 controllers, 2 slots of 4 functions, timeouts of 2 polls, one failing allocation |
| `Frames` | Do threads go on as they were, does C read what was stopped, are segments usable? | two threads, two exceptions with and without error code and a reserved one, timer, keyboard, two system calls |

Why the bounds are enough.  Every ordering decision of the scheduler is between
two threads: higher, lower or equal priority, earlier, later or equal time; three
threads beside the null thread meet all of them, also with a third waiting.  A
tick counter modulo 8 with sleeps of up to ten ticks wraps both before and while
a thread sleeps.  Two places in the heap's index make it full, nearly empty and
overfull; two pages to grow into allow an extension that succeeds, one that is
too small for an aligned request, and one that fails.  Both machines of `Mem` use
up their memory, and the requests that fail include all three ways to.  Nine characters wrap
two rows of the screen and scroll, and three kilos make a number with every unit.
Two polls before a timeout make a wait succeed at once, succeed late, fail by an
error and run out; two devices on a controller are enough for its cache to be
wrong; of the machines one has no bus, one a bus master without an address (it reads 1), and one
two IDE controllers.  Two threads are enough for one to disturb the other's stack.
A buffer of one character and two keys fill it and overflow it.
One place for interrupts inside calls is enough to meet each of the eleven, in any number of calls
of any thread; larger instances were checked once beside the runs, with no other
place coming up: two clients with every place cut, three clients with three places.  The
theorems about `Preempt` have no such bound.  The run `Frames` gives `tss_kernel` an
address with ones in each byte, although the linker puts it low, since the code packs any.

Deadlock is not an error in `SleepClock` (after a panic nothing runs), in `Preempt`
(after an interrupt inside `thr_switch`, as said above), in `Mem`
(after a panic or fault), in `Kb` and `Frames` (after an exception), in `Disks`
(after a panic, and once booted) and in `Printf` (at its bound).

### Fairness

* `Sched`: weak fairness of the timer handler.  The interval timer keeps
  interrupting (`time_init` sets it to mode 3), and a handler that was entered
  cannot be stopped from going on.  That the interrupt gets through is what
  `TimerServed` of `Irq` says, whatever other devices do.  Threads are not
  assumed to do anything.
* `Preempt`: strong fairness of the interrupt, because the controller keeps a request
  pending until the CPU takes it, also when threads execute calls for ever, inside which
  `MaxCuts` may rule it out; strong fairness of a thread's steps, because in the time slices it gets it
  executes instructions.  No thread is obliged to ask for the lock.
* `Heap`: `heap_alloc` goes on.
* `Kb`: the CPU takes an interrupt it can take, handlers and system calls end, the
  keyboard puts its next code in an empty port.  Strong fairness of taking the
  keyboard's interrupt: it is refused whenever the timer's comes first, and
  `KeysHandled` is claimed only if timer interrupts leave gaps.  Nobody is obliged
  to press a key.
* `Disks`: the boot processor, alone and with interrupts off, takes its next
  instruction.  Devices are obliged to nothing.

### What the runs found

Each is an entry under `findings`, with the comment in the code it contradicts.

* `PreemptLock`: `sem_wait` tests the count (`sem.c:30`) and decrements it
  (`sem.c:31`) with interrupts on.  Two threads get into one lock.
  What interrupts at other places do is said by the exceptions of `LockHolds`,
  `LockIsGranted` and `SavedStackIsOwn`, and below.
* `MemFree`: a mask too wide by six bits (`mem.c:510`) makes `kpfree_at_v` look at
  the entry of another page.

Read in the code and kept in the models, without a run of their own:

* Time and memory: a sleep whose wake-up time wraps ends at once (`time.c:92`); the
  test for an aligned block is true of every address above the first page
  (`heap.c:148`), so a page is moved even when it need not be; a footer copied past
  a small piece lands 96 bytes too low, since headers are subtracted for bytes
  (`heap.c:222`); an extension is sized without regard to alignment (`heap.c:332`)
  and not merged with the hole in front of it; once one has failed half way, all
  later ones fail (`heap.c:83`); a page table begun for `memstack2` is not marked
  present (`mem.c:198`).
* Lists: `list_get` takes a negative index for a large one (`list.c:115`); deleting
  the last of several nodes leaves `last` behind (`list.c:88`); `FOREACH` ends at a
  slot that `list_set` has emptied (`list.h:31`).
* Semaphores and switches: an interrupt between a test and what it decides loses a
  release, and a thread waits although the count is 1 or nobody is inside
  (`sem.c:30-36`, `47-52`); one between the assignment of `thr_current` and the load
  of the new stack pointer saves the old thread's stack pointer in the new thread, and
  one before the assignment resumes a thread in the middle of switching away from it
  (`thr.c:291-330`).  `thr_new` adds to the address of a stack before it compares it
  with 0 (`thr.c:138-142`).
* Interrupts: the IDT entries of lines 8 to 15 are one too high (`irq.c:71`), so
  line 8 has none and each other line of the second controller runs the handler of
  the line before it; the second controller is never told that an
  interrupt ended, because `irq_end_of_interrupt` gets 0 to 15 and compares with 40
  (`irq.c:103`); the stub of vector 17 pushes a zero although the CPU pushes an
  error code, for an exception that ring 0 does not raise (`boot.asm:136`).
* Keyboard: a code with 128 added counts as a release, so the keypad's Enter prints
  when it is let go, or never (`kb.c:62`); two shift keys share a flag.
* Printing: after `%%` the second sign is looked at again (`printf.c:199`);
  `INT_MIN` prints what lies before the digits in memory; `snprintf` does not
  terminate a text that does not fit; `memmove` to an address at or behind its
  source does not end (`string.c:46`).
* Boot: a failed reset leaves its bit set or device 0 selected while `sel_dev` says
  otherwise (`ata.c:333`); only controllers without devices get a semaphore
  (`ata.c:79`); the scan looks at five of 32 slots (`pci.c:51`) and leaves a slot at its first gap
  (`pci.c:56`); the head of the list of devices and the buffer of a sector are used
  without a look at whether there was memory (`pci.c:63`, `ata.c:296`); a BAR without an
  address reads 1, which the test for 0 misses, and ports 0 to 15 are taken for the bus
  master's (`ata.c:107`); a descriptor table, of which two entries are checked and not the
  three it has (`ata.c:193`), is not aligned if `kmalloc` returned an odd address, since
  the remainder is added and not its complement (`ata.c:189`); `pci_init` copies
  from NULL when there is no device; a RAM disk whose identifier could not be
  added has number -1, which leads to the last disk (`ramdisk.c:47`), and
  `offset + bytes` wraps (`ramdisk.c:77`); a component longer than the maximum
  puts its terminator into the cell behind the caller's buffer (`vfs.c:116`, `initrd.c:57`)
  and loses the character at the cut; opening for reading is never refused,
  since `O_RDONLY` is 0 (`vfs.c:78`).

## 4. Proofs

| theorem | property | of | under |
|---|---|---|---|
| `OlistAddOrdered` | an ordered list stays ordered | `Olist` | - |
| `TypeCorrect`, `OnePlaceAlways`, `NoThreadLostEver`, `StateAgreesAlways`, `ListsOrderedAlways`, `NoLostWakeupEver` | invariants of the same names | `Sched` | - |
| `NoOvertakingEver`, `NoOneOversleepsEver` | action properties | `Sched` | - |
| `NeverWokenEarlyEver`, `NeverSleepsLateEver` | invariants | `SleepClock` | - |
| `SavedStackIsOwnAlways` | invariant, with its exception: no interrupt at `thr.c:293-330` yet | `Preempt` | - |
| `LockHoldsAlways`, `AtMostInitCountAlways` | invariants, with their exceptions: no interrupt at `sem.c:30-31` or `thr.c:291-330` yet | `Preempt` | finitely many threads |
| `ImplementsSchedAlways` | refinement: `Preempt` implements `Sched` until the first interrupt inside a call | `Preempt` | `PlainCase` |
| `PageUsedOnceEver` | invariant | `Mem` | `Roomy` |
| `LostOnlyByFailureEver` | action property | `Mem` | `Roomy` |
| `KernelMappedEver` | invariant | `Mem` | `Roomy`, `Windowed` |
| `ThreadsUndisturbedEver` | invariant | `Frames` | no exception 17 |
| `FrameIsReadEver` | invariant | `Frames` | no exception 17, `GatesLead` |
| `HandlersEndInterruptsAlways` | invariant | `Irq`, `Kb` | - |
| `TextAsTypedAlways` | invariant | `Kb` | `OneShift` |
| `DevicesAreThemselvesAlways` | invariant | `Disks` | `DisksAssumption` |
| `DmaHasBusmasterAlways` | invariant: an assigned bus master is the channel's own | `Disks` | `DisksAssumption` |
| `FunctionsFoundAlways` | invariant, the part of `BusScanned` about the lists: of the slots looked at, up to their gaps, if no allocation failed | `Disks` | `DisksAssumption` |
| `RootFoundAlways` | invariant, the part of `RamdisksKeepData` about the root | `Disks` | `DisksAssumption` |
| `WrittenIsRead` | a write and a read of a RAM disk | `Ramdisk` | the end of the request does not wrap |
| `TiledAlways`, `OwnedIntactAlways`, `IndexSoundAlways`, `HolesMergedAlways`, `NeverCorrupted` | invariants | `Heap` | `NoSmallPiece` |
| `HeapImplementsMalloc` | refinement: `Heap` implements `Malloc` | `Heap` | `NoSmallPiece` |
| `KmallocImplementsMalloc` | the same | `Heap` | no page requests |
| `ListImplementsSequence` | refinement: `List` implements `ListSpec` | `List` | `TailDeleted = FALSE` |
| `WellLinkedAlways` | invariant | `List` | `TailDeleted = FALSE` |
| `ShowsLastRowsAlways` | invariant of `Scrn` | `Printf` | `ScreenAssumption`, `PrintAssumption` |
| `PrintsAsAskedAlways` | invariant: of calls without `%%` and `INT_MIN` | `Printf` | `ScreenAssumption`, `PrintAssumption` |

Every theorem rests, beside what the last column names, on the named assumptions
of its module.  The theorems about `Sched` and `SleepClock` hold for every set of
threads, every assignment of priorities with the null thread's at 0, every set of
semaphores and initial counts, every tick modulus, all sleep arguments, and both
with memory that lasts and memory that runs out.  `HandlersEndInterruptsAlways`
holds for every set of lines that devices raise: any but line 2, where the second
controller is attached, and line 8, the real-time clock, which the code never
turns on and which has no entry in the IDT.

### Hypotheses, and why the code justifies them

* `PlainCase`: there are finitely many threads; memory lasts (`MemoryLasts`, which
  `PreemptMC` has TLC evaluate); the bound `MaxCount` of the model is not below a
  semaphore's initial count.  Nothing is assumed of interrupts: they are on in every
  call, and where one must not have come is part of each property, not a hypothesis.  The
  lock and the stacks need no memory that lasts.
* `Roomy`: the machine has memory for what `mem_init` puts in it: both stacks, the
  page tables, the heap's first pages.  With the code's constants and a kernel
  that ends at 1.2MB that is so for machines of 32MB to 3GB; `mem_init` does not test it.
* `Windowed`: the directory has one place fewer than it has entries, the last one
  being the directory's own (`mem.c:220`), and mapping `memstack2` starts no page
  table beyond those of the kernel and `memstack1`.  With the code's constants this
  holds up to 2GB.  Above, the table is started but not marked present
  (`mem.c:198`), and the theorem would be false.
* No exception 17: ring 0 does not raise it, and the stubs do not expect its error
  code; with it the frame is one word off.
* `NoSmallPiece`: `heap_alloc` never finds, for a request on a page boundary, a
  hole whose part in front of the page is too small for a block of its own.  There
  `heap.c:222` puts a footer 96 bytes too low, and the theorem is false.  A caller
  of `kmalloc` cannot bring it about, which is what `KmallocImplementsMalloc` says;
  with `kpalloc` it depends on the sizes asked for.  It is an invariant of run
  `Heap`, which does ask for pages.
* `TailDeleted = FALSE`: no caller deletes the last of several nodes, where
  `list.c:88` leaves `last` on the deleted node.  The kernel's callers take the head of
  a list, or free it.
* `OneShift`: the keyboard has one shift key, the left one, and no extended key
  shares its code.  With two, letting go of one of them ends the shift of the other
  (`kb.c:66`), and what is typed then comes out unshifted.
* `DisksAssumption`, the assumption of module `Disks` that says something of the
  hardware: the bus masters of IDE controllers to which the firmware has assigned an address have
  blocks of 16 ports to themselves.  Two controllers at
  one address would be two channels with one bus master.  A controller may have no address (its
  BAR reads 1) or a BAR that reads 0; `ata_ctlr_new` takes what it finds, and then the
  theorem says only that the ports are 0 or 8.  Of tables, devices, their answers and
  the bus nothing is assumed but that `NULL` is neither a number, nor a device, nor a list of them.  `DisksMC` has TLC evaluate it for its machines.
* `ScreenAssumption` and `PrintAssumption`, the assumptions of modules `Scrn` and
  `Printf`: the width of the screen is a multiple of the tab stops, as 80 is of 8
  (`scrn.c`), and there is more than one row; the letters of numbers are characters that print.  A
  call has an argument of the right kind for each conversion, and a sign does not end its format:
  what `printf`, whose arguments are not checked, leaves to its callers.  `int` has at most
  twelve digits, for which the model's numbers have room; 32 bits take ten.
  Nothing is assumed of which calls there are, in what order, how long strings are, or of the
  sizes of buffers.  The property says nothing (`Defined`) of a call whose format has
  `%%`, after which the second sign is looked at again, nor of one that prints `INT_MIN`,
  whose digits are read from in front of the table: there the code is wrong.  It asks for no
  terminator behind the text in a buffer, and none is written.
* `GatesLead`: every gate of the IDT turns interrupts off and leads to the stub of
  its own vector.  It has no parameter, and `FramesMC` has TLC evaluate it
  (`GatesChecked`); the provers cannot, because words are made with powers of two.

The runs `Mem`, `Preempt`, `Frames`, `Heap`, `List`, `Kb`, `Disks` and `Printf` satisfy these hypotheses, so
each theorem says of every instance what its run shows of a small one.

### Arguments

* `Olist`: what `OlistAdd` does to the items, to the absence of duplicates and to
  the order of any sequence under any integer key, and that an item is put behind
  its equals (`OlistAddBehindEquals`).  The position the walk stops at exists
  because a non-empty set of naturals has a least element (`LeastNat`); all else
  follows from where it lies.
* `TypeCorrect`.  `TypeInv` strengthens `TypeOK` by: unless the kernel has
  crashed, `thr_current` is a thread.  Without it a tick could not be said to
  put a thread on the ready list.
* `OnePlaceAlways` and `NoThreadLostEver` are proved together, by the invariant
  `Placement`.  It adds to the two properties that every thread on a list is a
  known one (`Known`), and that in the timer handler the interrupted thread is on
  the ready list if memory lasts (`Requeued`).  Neither property is inductive
  alone: that a thread is put on a list it is not yet on needs `OnePlace`, that
  the ready list is never empty at a dispatch needs `NoThreadLost`.
* `StateAgreesAlways` adds to the property what `state` is before the first tick
  (`BootStates`), and uses `Placement`: a step that sets a thread's state must find
  it on no other list.
* `NoOvertakingEver`: each step leaves the ready list alone, takes its head or adds
  one thread to it (`ReadyStep`), and the two lemmas on `OlistAdd` and `Tail` say
  what that does to the order among equals.
* `ListsOrderedAlways` and `NoLostWakeupEver` are inductive with `TypeInv`.
  `NoOneOversleepsEver`: when the handler's loop ends, the head of the sleep list is
  not due; because the list is ordered, nobody is.
* `SleepClock`.  The invariant `ClockInv` ties the two clocks together: what a
  sleeper is owed is the distance from now to its entry, at least one tick while a thread
  runs (`Owed`, with `Delay`), and whoever is on
  no sleep list is owed nothing (`NothingOwed`).  An entry that is not excused lies
  far enough below the modulus that the next tick does not wrap the counter past
  it; that is what makes `Owed` survive a tick.  In the handler, before its loop has come to
  it, a thread that is due is owed nothing and still asleep; that nobody is when the
  handler is done is `NoOneOversleepsEver`'s argument, the order of the list.
* `Preempt`, the stacks.  `StackInv`: until an interrupt comes at `thr.c:293-330` the
  context on the CPU is the current thread's, or, once `thr_current` is assigned, the one
  it switches from, and each saved context is on its owner's stack (`OwnStack`).  It needs that what waits
  in lists and contexts are threads (`QueuesTyped`, `CtxTyped`), which survives everything.
* `Preempt`, the lock.  `LockInv` counts turns.  `Counted`: a semaphore's count and the
  threads it has let in or is handing over to (`Holders`) add up to no more than it was made with.  That the sum holds when a
  blocked thread is resumed needs that nobody resumes it before a release has handed over, so
  the ways a thread can get to run are counted too: being on the CPU, on
  the ready or the sleep list, in the hands of one that took it off a list (`Turns`).  A
  thread has one turn, or is on a wait list, and has two of these only from queueing itself until it
  leaves the CPU (`OneTurn`).  The rest says that those on a wait list are inside the `sem_wait`
  that put them there (`WaitersInside`), that no saved context is at one of
  the places named (`FramesLeft`), and what boot starts from (`BootQuiet`).
* `Preempt`, the refinement.  As long as no interrupt has come inside a call (`UncutInv`), all contexts
  but the running one are outside of calls or behind `resched_no_int`; `CtxControl` says so, and for
  each place where the running one may be what it has already done.  The mapped state
  keeps the invariants of `Sched`, which are cited through an instance of
  `SchedProofs` on it, not proved again.  Then each action is shown to be a step of
  `Sched` or a stutter.
* `Mem`.  `PageUsedOnce` is not inductive: that a mapping does not overwrite another
  needs that tables are apart (`TablesApart`: no page table serves two places of
  the directory), and that the request stays behind the kernel (`RequestFits`).  `PagesInv` is the three.  The
  initial state is most of the work: that `mem_init`'s arithmetic lays the two
  stacks, the tables and the mapped pages side by side (`Layout`).
  `KernelMappedEver` adds that the kernel's entries are what `mem_init` set
  (`KernelPages`); that `kpfree_at_v`, which clears another page's entry, never
  clears a kernel's, is `FreeEntryBehind`: the entry is never before the page's own.
* `Heap`.  `HInv` says that the heap is in order (`InOrder`): the blocks lie end to
  end (`Laid`), each with a footer (`Footed`); those in use are the callers'
  (`Held`); the index has holes, once and by size (`Indexes`); holes meet only
  where extensions do (`Merged`).  None of these is inductive alone: that a block
  given out was a hole needs the index, that the index stays sorted needs that the
  only sizes to change are of holes not in it, that a merged hole has a footer
  needs the tiling.  The heap's end stays on a page boundary, which is why an extension may
  leave two holes there unmerged.  Three lemmas say what a step does to a layout:
  `Cut` a block in two, `Joined` two holes, `Lengthened` the last one.  Allocating is up to two
  cuts, freeing up to two joins.  For the refinement, what is given out lies within a
  block that nobody held, and two blocks do not overlap.
* `List`.  `ListInv` says that some sequence of different nodes is linked
  (`Linked`): the pointers, the nodes in use and `size` are what it makes them.  The
  sequence is not computed from the pointers, so nothing is proved by induction:
  `PutLinked` and `CutLinked` say how putting a node at a place and taking one away
  change it, and a walk of n steps visits its first n nodes (`WalkThrough`), since
  there is no first step at which it does not.  The walk of `olist_add` ends where `OlistAdd` of
  module `Olist` puts the item, and the two walks of `list_get` meet at the same node.
* `Frames`.  The property speaks of the thread that comes back; the invariant
  (`FInv`) must speak of all the stopped ones.  Each has on its own stack, and
  nothing else has written there, 18 words (`Frame`) that hold the registers it was
  stopped with, over the stack it had.  `FullFrame` says that the CPU, the
  stub and `interrupt_enter` together build such a frame, `NewFrame` that `thr_new`
  writes one by hand, and `LeaveFInv` that `interrupt_leave` and `iret` undo it.
  For `FrameIsReadEver` the words in between are followed too (`HandlerWords`),
  which C may overwrite only at its argument.
* `Irq`.  The property says nothing of states inside a handler, so it is
  strengthened by `OneInService`: there, exactly one line is in service in the
  first controller.  The end of interrupt, which names no line and clears the
  highest in service, then clears that one.

* `Kb`.  `TextAsTyped` compares what came out with what was typed, and says nothing
  of the shift key, whose state travels through the same port.  `TextInv` does: read
  one by one, the bytes not yet read lead from the state and text that the driver
  has to those of the user (`Leads`).  A key adds bytes at the end, the handler takes
  one in front, and the lemmas on `Leads` are about just these two.  The rest
  keeps bytes from being taken twice or for something else: there is a byte when
  the handler runs, and 128 is added to an extended key's code only (`PortInv`); each
  prefix is followed by such a code, also when the prefix is read and its
  place in the port is taken while the handler waits (`Framed`).
* `Disks`.  `DisksInv` has a part for the scan and one for the driver.  `ScanInv`: what
  was found lies before the place the scan is at, and the IDE controllers are listed in the
  order of the bus; so no controller is listed twice, and bus masters that differ on
  the bus differ on the list.  `SelectInv` compares the driver's cache, `sel_dev`, with the
  device that is selected.  They differ after a reset that failed, because a reset
  selects device 0 and an error leaves before it is put right.  The proof has to say
  why no data of the wrong device comes of it: either the reset bit is
  still set, and then no data ever comes, or the reset was let go, and then the
  read, whose selection is not skipped, has put the selection right.  Only
  what IDENTIFY says is the other device's if the reset failed, which is why the property asks for
  a successful one.  `DmaInv` says, of a controller under construction too, that it has the bus
  master of its channel and a table made by `ata_prdt_new` (`MadeTable`), or none and no device that would use it, and `DevsInv` that devices once
  found stay as they were.  The parsing of a table is four steps: `AddStep` says what
  one adds to the entries read so far (`Reading`), `ParseSpec` puts four of them together.
  `FoundInv` says of the scan that, as long as no memory was lacking, the list has just
  the functions that lie before its place and have no gap before them in their
  slot (`AllListed`).  `NextPlaces` is what a turn of the loops adds to these: the place itself if
  something answers there, and nothing, with the rest of the slot skipped, if not.
  The later parts of `main` leave the lists alone, and only the end of the scan leads to them
  (`PhasesBeforeBus`).
* `Printf` and `Scrn`.  `PrintInv` is `ScrnInv` and `CallInv`.  `ScrnInv` says what
  `ShowsLastRows` does, and that the roll is made of whole rows, so that one can be
  added.  `PutcScrnInv` goes through the kinds of character: one that prints changes one
  cell of the screen and of the roll; past the last column the next row is the
  screen's or, at the bottom, `scrn_scroll` moves each row to where the roll has it.
  The loops of `memmove` and `memset_w` are functions of the number of turns, given in closed form
  and shown to satisfy the definition of the loop.  `CallInv` says of a running call how far it has come: at
  some place `k` of the format, which is no place inside a conversion, what was printed
  and what is waiting in `tmp_str` are together the text up to `k` (`TextTo`), what is left of the
  arguments are those not yet asked for, and a buffer holds the front of what was
  printed.  `PrintsAsAsked` looks only at the two ends of this.  That a conversion makes the right text
  is `ConvertedIs`: the remainders of `int2str`, without leading zeros, are the
  numeral (`NumeralOfDigits`), and what `long2str_10h` puts together unit by unit is
  the sum of units (`LongIs`).  Numerals and texts are recursive functions; that they
  exist and what they are at each place follows from least counterexamples
  (`NumExists`, `TextExists`), not from the library's induction.

Each inductive invariant was checked by TLC on the instance of its run before it
was proved.  Each proof has a step for the initial state and one for each action.

### Model-checked only

* Liveness, which is beyond the proof system as installed: `SleepersWake`,
  `TopPriorityRuns`, `LockIsGranted`, `RequestAnswered`, `KeysHandled`,
  `TimerServed`, `BootEnds`.
* Properties of loops over whole tables and memories: `FunctionsRight` of `Str`;
  the part of `RamdisksKeepData` about sequences of writes and identifiers given back
  (`WrittenIsRead` is about one write, on disks of every size); and `Described`, the part
  of `BusScanned` about the search for names, two folds over whole tables.
* `SegmentsUsable` of `Frames` and `GatesLead` of `Gdt`: statements about powers of
  two without a parameter, which TLC evaluates in full.
* That `Preempt` implements `Sched` after an interrupt inside a call, and the lock
  and the stacks after one at the places named: false, as said above, like the
  theorems for vector 17, for memory above 2GB, for small pieces in front of a page and
  for deleting a list's last node.

## 5. Not modelled

* Arrays of identifiers and thread identifiers (`idarray_*`, `idlist_add_lowest`,
  `tid.c`) and the initial file system (`initrd.c`): unfinished code that does not
  compile and stops in the middle of functions.
* `ata_dma_lba28_read` and the choice of DMA modes: nothing calls the one, and
  nothing reads the other.  The function also would wait for ever, on a semaphore
  that controllers with devices never get.
* User mode: page directories, user stacks and the TSS's use, for threads of
  privilege 3, which nothing makes; flags of page table entries.
* The first instructions of `boot.asm`, before any state of these models exists.
* Functions that only print, the hardware cursor, error texts.
* Overlapping calls of the heap and the screen, which have no locks: such calls
  have no property to keep, as `hazards` says.

## 6. Plan

Done: scheduler, time, semaphores, preemption, frames; lists, heap, pages;
interrupts, keyboard; screen, printing, strings; PCI, disks, partitions, RAM
disks, boot.

Proved: every invariant and action property of `Sched`, `SleepClock`, `Preempt`
(the refinement too), `List` and `Heap` with the refinements, those of `Mem`, two of `Frames` and
those of `Irq` and `Kb`, those of `Scrn` and `Printf`, and two of `Disks`
with parts of two more.

Left: what section 4 lists as only model-checked.  `SegmentsUsable` and `GatesLead`
have no parameter, so the runs settle them; the others wait for a prover that can
do induction over data.
