# A TLA+ model of MAVMM (hv-sebek)

MAVMM is a small hypervisor for AMD SVM that runs one Linux guest and watches
it: system calls, software interrupts, task switches, single stepping and
writes (`unpack`). A program in the guest, `user/mavmm-u.c`, turns the features
on and off with `vmmcall`. The repository also holds a FAT32 driver for a log
disk (`hostfs`) and mkelfImage, the program that packs the guest's kernel and
ramdisk into the image the boot loader puts beside the VMM, with the converter
that runs in front of that kernel. This directory holds TLA+ modules for the
parts that have behaviour worth checking, TLC configurations for small
instances, and TLAPS proofs about the components of the hypervisor, the cache
under hostfs and both programs of mkelfImage.

## The system: inventory

| Component | State | Operations | What makes it correct |
|---|---|---|---|
| Trap handlers (`kernel/intercept.c`) | the vmcb's exit code, event to inject, TF; `itc_flag`, `itc_skip_flag`, `btrackcurrent` | `handle_vmexit` and one handler per exit | an interception that is skipped is off for one instruction and comes back; requests and interceptions agree; the VMM's single stepping never reaches the guest; returns of system calls are seen |
| Interception switches (`kernel/vm.c`) | the vmcb's interception bits, RW bits of the guest's page directory | `vm_enable_intercept`, `vm_disable_intercept` | pairs of calls restore what they changed |
| Tables of `vm_info` (`kernel/vm.c`) | `fmap`, `syscallmap`, `ptracked` | add, look up, remove | one entry for a thread, only while it is in a call |
| Page allocator (`kernel/alloc.c`, `e820.c`, `setup.c`) | memory map, bitmap, heap bounds | boot-time construction, `alloc_pages` | disjoint grants inside the heap, exact bitmap, no overrun |
| Nested page table (`kernel/vm.c`, `page.c`) | tables of three levels | `create_2mb_nested_pagetable`, `mmap_pml4`, walk | the guest cannot reach the VMM; identity elsewhere |
| Guest address translation (`kernel/page.c`, `segment.c`) | none; reads the guest's tables | `glogic_2_hphysic` and below | agrees with the processor's translation |
| SVM back end (`kernel/svm.c`, `svm_asm.S`, `vmcb.c`) | vmcb, host save area, `g_rbx`, ... | initialisation, world switch, consistency check | the guest is entered only when all is prepared; guest state survives a round trip |
| Boot (`kernel/setup.c`, `boot.S`) | layout of the VMM's memory | `start_vmm`: memory, `vm_create`, `vm_init`, `vm_boot` | what the VMM needs is allocated, out of the guest's reach, and set before the guest runs |
| Intel back end (`kernel/vmx.c`, `vmcs.c`) | vmcs, MSR lists | initialisation; no exit handling yet | stops where a feature is missing |
| hostfs (`hostfs/fat32.c`) | one-sector cache, four file handles, the disk | init, create, open, read, write, seek, flush, close, remove | the cache loses no write; directories list what exists, with the right sizes; handles are found and given back |
| mkelfImage (`tools/mkelfImage/main`, `linux-i386/mkelf-linux-i386.c`) | buffers for kernel and ramdisk, program headers, output file | options, reading, probing, parsing, `write_elf` | the image, once loaded, is the kernel and the ramdisk; its checksum is the one of what is in memory |
| Converter (`linux-i386/head.S`, `convert_params.c`) | the page of real-mode parameters, `param_info` | detection of boot loader and firmware, walks of their tables, `append_command_line` | memory as the best source reports it; command lines kept in order; it ends |
| The rest | – | serial port, `printf`, strings, test OS, scripts | – |

How they interact. `start_vmm` calls `setup_memory` (allocator), `vm_create`
(tables, nested page table, all on pages of the allocator), `vm_init` (SVM) and
`vm_boot`, an endless loop of `vm_run` and `vm_exit` = `handle_vmexit`. There
is no concurrency inside the VMM: it runs with the guest stopped. The hard part
is that between two handlers an arbitrary piece of guest runs: interrupts,
faults and context switches come between an instruction the VMM lets through
and the #DB that is to tell it so; the trap flag the VMM sets is saved and
restored with the guest's own flags; what a handler stored in one exit is used
in a later one, perhaps for another thread.

hostfs is sequential and shares one sector buffer between data, directories and
the FAT: the hard part is what a call leaves in the buffer, in the handles and
in the directory for the next one, and a disk that fails in between. mkelfImage
and its converter are two programs that share nothing but the bytes of the
image: one writes the parameters into the payload of the other, and computes
offsets and checksums of what a boot loader will put into memory.

## Modules

| Module | Models | Kind |
|---|---|---|
| `VmTables` | the tables of `vm_info` as operators on sequences | operators |
| `Intercept` | all handlers, the interception switches, `vm_boot`, and the guest they watch | state machine |
| `MCIntercept` | instances of it | TLC |
| `InterceptProofs` | the inductive invariant of `Intercept`: windows, requests and returns; the other invariants on top of it | TLAPS |
| `HostAlloc` | e820 map, bitmap, `alloc_pages` | state machine |
| `PageAllocator` | what an allocator promises: a pool, runs taken out of it for good | abstract specification |
| `HostAllocRefinement` | the refinement mapping from bitmap to pool | refinement |
| `MCHostAlloc` | memory maps and requests | TLC |
| `HostAllocProofs` | the bitmap, the grants, the refinement | TLAPS |
| `NestedMap`, `MCNestedMap` | construction and walk of the nested page table | state machine, TLC |
| `NestedMapProofs` | what the table maps, during construction and after | TLAPS |
| `GuestWalk`, `MCGuestWalk` | the software walk of guest segments and page tables, beside the processor's | algorithm with reference, TLC |
| `GuestWalkProofs` | that the two walks agree | TLAPS |
| `SectorCache` | `tf_fetch` and `tf_store` over an external disk, as functions on caches | operators |
| `SectorCacheProofs` | what the operations of the cache do to what a reader sees | TLAPS |
| `Fat32`, `MCFat32` | the FAT32 driver on `SectorCache`, and its caller | state machine, TLC |
| `Checksum` | the IP checksum of both mkelfImage programs, and its composition | operators |
| `ElfImage` | mkelfImage from its command line to the closed output file | state machine (part) |
| `ConvertParams` | the converter from its entry to the jump to Linux | state machine (part) |
| `LinuxImage`, `MCLinuxImage` | composes the two through the bytes of the image and a boot loader | state machine, TLC |
| `LinuxImageProofs` | checksums, the image in the file and in memory, memory map and command line of Linux | TLAPS |
| `Boot`, `MCBoot` | `start_vmm` from `vm_create` to the first VMRUN; composes `NestedMap`, `VmTables` and the allocator | state machine, TLC |
| `BootProofs` | the boot, with the theorems of `NestedMapProofs` | TLAPS |
| `NatLemmas` | division, remainder and products of naturals, induction over sets of naturals, and that a recursive function over the naturals exists, for the proofs | TLAPS |

### Intercept

State. The vmcb is `exitcode`, `pferr` (the two bits of exitinfo1 the code
reads), `eventinj`, `intercepts` (the set of interception bits that are on),
`tf`, `cr3`; `prot[d]` says that the VMM has taken the RW bits out of page
directory `d`. `itc_flag`, `itc_skip_flag`, `btrackcurrent`, `ptracked`,
`syscallmap` and `fmap` are the fields of `struct vm_info` (flags as sets of
names, tables as sequences).

Handlers. Each case of `handle_vmexit` is one action that clears `exitcode` and
does everything the C handler does, calls included: `__handle_vm_swint` (with
`__handle_syscall` and the system call it prints), `__handle_vm_iret`,
`__handle_db` and `__handle_pf` (the two live cases of
`__handle_vm_exception`), `__handle_cr3_write`, `__handle_popf`,
`__handle_vm_vmmcall`, `__handle_vm_npf`. Exit codes whose interception no code
turns on (MSR, #GP, #TS) have no action.

A system call matters only for what it does to `syscallmap`: `sys_read`,
`sys_open` (if the address of the name translates) and `sys_recvfrom` (one of
the calls of `sys_socketcall`) enter the thread; all others only print. When
nothing at all waits afterwards, the thread is entered with number 0. At the
return, `sys_open_iret` files the value rax holds then under the name that is
in memory then; both are chosen freely.

The guest is external and modelled from what the handlers assume: one
processor, threads with a kernel stack each, one instruction at a time. Event
delivery pushes a frame with TF and the instruction to return to, and clears
TF. The Linux context switch is `mov cr3` (if the page directory changes), the
change of stacks, `popf`, with interrupts off; so is the `iret`. An instruction
that starts with TF set ends in #DB, taken by the VMM if it intercepts #DB and
by the guest otherwise. A store may fault because the page is absent, because
the guest protects it, or because the VMM did. Not modelled: NMIs, TLB
staleness after the VMM rewrites RW bits, a guest that uses TF itself, and an
event whose delivery faults on a protected kernel stack.

`SaveGuestStates` says whether `save_guest_states` of `svm_asm.S` is compiled
in. In the repository its call is commented out and its body is under `#if 0`;
the handlers are written for the case that it is there, so the runs set it to
TRUE. With FALSE the handler of `vmmcall` reads zeroes and registers nothing.

### HostAlloc

`setup_memory_region` takes a memory map (or fails), `naive_memmap_init` places
and fills the bitmap, `init_host_alloc_bitmap` is one action per region of the
map, `alloc_pages` one per request; `die()` is the phase "failed". A word of the
bitmap is the set of its bits, so the masks of `map_alloc` and `map_free` are
the intervals of `Mask`. `PageAllocator` is the promise: `HostAllocRefinement`
maps the clear bits to its pool and the run checks that every step of the
bitmap is a step of the pool.

### NestedMap

One action per round of the loop of `create_2mb_nested_pagetable`. The tables
are a function from (table, index) to the table or page an entry holds;
`mmap_pml4` allocates missing levels on the way down, as `__mmap_2mb` does. The
properties are asked of the walk in every state, during construction too.

### GuestWalk

The guest changes page table entries and its paging mode (external actions); in
every state the software walk is compared with the processor's for all offsets
and selectors. The widths are kept: host addresses are `Wide`, an `int` shifted
into its sign bit is sign extended, the index of the 4 MB walk is not masked.
Selectors point into the GDT: the code ignores their TI bit (a TODO in
`segment.c`), and so do both walks of the model.
`Supported` names the cases the walk is written for; outside them it differs
from the processor: PAE (the VMM stops), a linear address past 4 GB without
4 KB paging, and an absent directory entry with PSE, which
`linear2physical_legacy4mb` follows to a page table at address 0 without a look
at the present bit (the 4 KB walk returns -1 there). The instance keeps the guest in the lower half of the
physical space, as the nested page table does.

### Boot

One action per function of the boot that allocates, decides or writes a
register: the tables of `vm_info`, every round of the loop that fills the
nested page table (the action of `NestedMap`, whose new tables are taken from
the allocator's pages), the identification of the processor and the dispatch on
its vendor, `enable_svm`, the vmcb, its control fields and its start state. The
allocator is seen from outside: the lowest run of free pages, taken for good,
or `fatal_failure`, which ends the boot (`pc = "dead"`). `set_control_params`
makes two allocations, so it has two actions. `vmcb_check_consistency` is what
the functions of `vmcb.c` test; its call in `vm_boot` is commented out, and
`EnteredPrepared` shows that it would succeed at the first VMRUN. What it does
not look at (`check_msr_ioio_intercept_tables` is an empty TODO) is in
`EnteredPrepared` too: the bases in the vmcb name the pages of the two intercept
maps, in their full length, and the root of the nested page table.

`vm_info` is a local variable of `start_vmm` and the allocator hands out pages
as they are. `vm` and `vmcb` therefore start with anything in `OldVms` and
`OldVmcbs`, the `memset` calls are part of the actions, and `clean` records the
pages that were cleared. `HandsOverToIntercept` says that the vmcb and the
`vm_info` which reach the first VMRUN are those `Intercept` starts with: `Boot`
instantiates `Intercept` as `Handlers`, mapping its variables to fields of the
two, and asks for `Handlers!VmmInit`, the conjunct of `Intercept!Init` that is
about the VMM. The other conjunct is about the guest and its threads, which do
not exist at the first VMRUN.

On an Intel processor the boot ends in "No EPT support!": `vmx_detect_capability`
keeps the low words of the control MSRs, the bits that must be 1, as if they
were the bits that may be 1, and no processor demands the secondary controls.
The code after that test is not reached, and not modelled.

### SectorCache and Fat32

A call of the driver is one action: the functions of `fat32.c` are operators
from driver states to driver states, one per function, and the loops that walk
a chain or a directory are recursive. The state `fs` is the cache (buffer,
`currentSector`, dirty flag), the disk, the handles, and how a call can fail to
return: `crash` (a NULL handle is used, or a division by zero) and `hang` (a
directory search that meets no terminator). `image` is history: the disk as the
driver's writes would have left it without a cache. `beyond` is history too: a
position left the first cluster of its file.

A position counts cells; a cell is a directory entry, a FAT entry or a byte of a
file, so entries that straddle two sectors do not occur. A name is known by its
13-character segments and its 8.3 spelling. The makefile does not ask the
compiler to pack the structures, so an entry has 36 bytes and the attribute of a
long-name entry is not where that of an 8.3 entry is; `Layouts` has both cases,
and with the unpacked one only names that are their own 8.3 spelling are ever
found (`Findable`). The disk is external: the stubs `read_sector` and
`write_sector` of the repository do nothing. A sector may stop answering and
answer again after it has refused a request. The caller keeps one handle to a
file at a time.

### Checksum, ElfImage, ConvertParams, LinuxImage

`ElfImage` has one action per system call or step of mkelfImage, because that is
where it can be interrupted: a `gzread` or `read` that stops short, is
interrupted or fails, a ramdisk file that shrinks after `fstat`, a `write` that
writes a part, an output file that exists. The program headers and the notes
are serialised into cells and read back by the boot loader of `LinuxImage`, so
offsets, sizes, paddings and the parameters hidden at the end of the payload
have to agree. `SumSegment` is one round of the checksum loop.

`ConvertParams` has one action per function that `convert_params` calls and one
per record of a table it walks. What it finds in the machine is a record with
the tables of LinuxBIOS, the answers of the BIOS and what the boot loader left:
multiboot, uniform boot, ELF boot or nothing known. Tables carry the cells over
which checksums are taken and their records with the sizes their own fields
give, so a damaged or short table is walked as the code walks it. The flags of
`param_info` start at 0 because the stack lies in the bss that `startup_32`
clears.

`LinuxImage` composes them: `Build` runs mkelfImage, `Load` is the boot loader,
which puts the segments into memory in the order of the headers and clears the
rest, or refuses an image that reaches past the end of memory (`Placed`), `Enter` is `startup_32`, which hands the parameters found in memory to
`ConvertParams`, `Convert` runs it. Options are in the `--name=value` form and
addresses are given as they are after the mask of `parse_elf32_kernel` and
`vmlinux_i386_probe` (modulo 256 MB); what `ImageAsLoaded` says of the kernel's
own addresses is to be read so.

## Runs

| Run | Shows |
|---|---|
| `intercept_syscalls` (275 thousand states) | two processes, system calls of all kinds, `int n`, preemption and switches, features turned on and off in any order: `WindowClosable`, `WindowIsOneInstruction` (the skip windows), `TaskSwitchExact`, `PopfPaired` (requests and interceptions agree), `TrapFlagOwned`, `ReturnWillBeSeen`, `WaitingIsCurrent`, `SwitchArms`, and `InterceptedCompletes` under fairness |
| `intercept_unpack` (2.7 million states) | with UNPACK and STEP the window of a store can be interrupted, but it closes, and a switch arms the new page directory |
| `host_alloc` | ten memory maps, any sequence of requests |
| `nested_map` | thirty layouts of the VMM |
| `guest_walk` (84 thousand states) | all table contents over seven entries in five slots, five modes |
| `boot` (17 thousand states) | 32 machines and 14 processors, memory that is zero before and memory that is not, the pool running out at every allocation: `EnteredPrepared`, `OwnPagesUnreachable` and `OwnPagesDistinct` (allocator and nested page table together), `HandsOverToIntercept` (the initial state of `Intercept`), and `CapableBoots` under fairness |
| `fat32` (237 thousand states) | five calls in any order on three paths in two directories, two layouts, one failing sector: `CacheCoherent` (no write is lost or hidden by the buffer), `DirtyOwned` (unsaved data belong to an open handle), `DirectoryExact` (directories list what exists, with its size), `NullMeansExhausted` (NULL is used only for want of handles) |
| `linux_image` (27 thousand states) | fourteen command lines over six kernels and two ramdisks, every short or interrupted call, then 66 machines with boot loaders: `ImageChecksum`, `ImageAsLoaded`, `MemoryAsReported`, `CommandLineKept`, and `Ends` under fairness |
| `unpack_window` | violated: with UNPACK the window is not one instruction |
| `injected_fault` | violated: after UNPACK is disabled the guest gets a fault the VMM caused |
| `open_result` | violated: the iret of an interrupt is taken for the return of an open |
| `fat32_clusters` | violated: two files have the same first cluster |

Each violated property is what a comment of the code says; PROJECT.json quotes
it under "findings". `WaitingIsCurrent` and the window properties hold or fail
depending on the instance: without thread death and without UNPACK they hold.

`CacheCoherent`, `DirectoryExact` and `NullMeansExhausted` are stated for a disk
that has not failed a request, because the driver ignores the return code of
`tf_fetch` everywhere and `tf_store` clears the dirty flag before it knows the
outcome. `DirectoryExact` stops at the first cluster (`beyond`), where positions
wrap, and in the packed layout at the first removal, which leaves the long name
behind. `ImageAsLoaded` is stated for kernels that were not cut by an
interrupted `gzread` and for segments that do not overlap, `CommandLineKept`
for lines that fit (`LineFits`), `Ends` for tables whose records have a size.

Some properties are narrower than the hazard they are listed under; the "note"
of the hazard in PROJECT.json says by how much. In short: that the directory
switched *away from* stays writable after a window that a switch interrupts is
not excluded by `WindowClosable` and `SwitchArms`; the guest writes `cr3` only
in a switch, so a reload of `cr3` alone (execve, TLB flush) is outside
`PopfPaired` and `TaskSwitchExact`; threads return from their calls; the walk is
compared only on `Supported` addresses below 2 GB; cut kernels, the fall-through
of `--ramdisk-base`, lines that do not fit, records of size 0 and a ramdisk that
shrinks are accepted as the code treats them.

Other differences between code and comments met on the way, visible in the
definitions: `vm_is_process_tracked` answers yes before it reads the list, so
nothing is ever added to it; disabling SYSCALL leaves INT n intercepted; TF set
by `__handle_popf` is overwritten by the very popf it lets through; `close`
removes nothing from `fmap` and a lookup finds the oldest name; the search of
`alloc_pages` stops before the last run of pages; `create_2mb_nested_pagetable`
makes 2^10 rounds of 2 MB under the comment "Map all 4GB except VMM region
(2^10 * 4MB)", so 2 GB are mapped; a thread that dies inside a system call
(`Kill` = TRUE) leaves its entry in `syscallmap` to the next thread with its id,
and `WaitingIsCurrent` is then violated; the 2 MB page below the VMM is hidden
with it (`OnlyVmmAndPageBelow` states what is); with STEP or UNPACK a
trap flag saved in a frame can reach the guest's debug handler (`TrapFlagOwned`
holds only without them).

In hostfs: `tf_get_fat_entry` returns the code of the fetch and not the entry;
`tf_set_fat_entry` does not mark the sector dirty; so chains are never followed,
every created file gets cluster `firstDataSector`, and what lies beyond the
first cluster of a file or directory wraps around. `tf_init`, every `tf_fopen`
of a file that exists and every `tf_remove` lose a handle, and after four the
next call uses NULL. A created file has size 1, and reading its last byte
returns -1. Long names are compared as prefixes.

In mkelfImage: `--ramdisk-base` falls through into `--ramdisk`, so the text of
the address is taken for the file name (the help says "Set the initrd load
address to <addr>"); `continue` in the do-while loop of `slurp_decompress_file`
leaves the loop, so an interrupted `gzread` cuts the kernel silently; a kernel
of more than 7 MB overlaps the ramdisk; a vmlinux with one segment elsewhere
than at 1 MB is accepted, although `head.S` jumps to 1 MB; `argv[0]` with a
slash never selects a type. In the converter: the test for "No room to append
anything" is never true, so a line can outgrow its 256 bytes; `memcmp` compares
only the first byte; `mem88` issues `int 0`; `get_meminfo` overwrites the sizes
that `add_e820_map` computed; a LinuxBIOS memory record without RAM suppresses
the boot loader's map; a LinuxBIOS or uniform boot record of size 0 is walked
for ever.

### Bounds

`MaxDepth` = 2 frames on a kernel stack allows a system call interrupted once,
and an interrupt inside an interrupt; a frame of a context switch comes on top.
`MaxWaiting` = 3 and `MaxFiles` = 4 allow more entries than threads, so
duplicates of a thread could appear. Two threads with page directories of their
own make a switch meet every combination of an open window and another
process. The allocator's machine has pages of 4 bytes and words of 4 bits, so
that runs start, end and cross words and the heap spans several; the maps have
regions off page boundaries, overlapping, with holes, and one entry too many.
The nested table has a radix of 3 and a loop of 13 pages, which crosses both
upper levels; 2 * 13 pages stand for the 4 GB. The boot uses the same table
with four small pages to a large one, and pools from none to 26 pages, some of
them with holes and some ending at `max_page`.

The FAT32 disk has sectors of five cells, clusters of two sectors, a root and
one subdirectory; `MaxCalls` = 5 is one more than the handles, enough to create,
write, close, reopen and remove, and to run out of handles; `MaxWrite` = 2 lets
a file grow by more than the byte it is created with; the failing sector is the
boot sector or one that holds the root directory. In the image cells have 16
values, numbers two cells and notes a padding of 4; the kernels have odd sizes
in memory, so that the ramdisk is summed at an odd offset; `FirstAllocated` = 4
makes the buffer of `slurp_decompress_file` grow; `MaxInterrupts` = 2
interruptions can hit one call twice or two calls. `E820MAX` = 2 is less than
the ranges some tables hold, and the limits of the size fields (`AltMax`,
`ExtMax`, `HighLimit`) lie between the sizes of the machines.

### Fairness

`FairSpec` assumes weak fairness of the guest's next instruction, of VMRUN and
of the handler: the processor does not stop between instructions and `vm_boot`
calls `vm_exit` whenever `vm_run` returns. Nothing is assumed of interrupts or
of which thread runs. `InterceptedCompletes` needs no more: the instructions it
is about run with interrupts off. In `Boot` the VMM is the only thread and runs
with interrupts off, so it takes its next step (weak fairness of `Next`). In
`LinuxImage` the process that builds the image is scheduled, and the converter
is alone on its processor with interrupts off; that calls are interrupted only
`MaxInterrupts` times stands for signals that do not come for ever. That
someone loads the image built, and starts it, is assumed too: `Ends` is about
the chain from a command line to Linux.

## Proofs

The theorems hold for every value of the constants that the named assumptions
of the modules allow. Each is stated of the definition that a run checks, so
the run shows it on an instance and TLC evaluates the assumptions there.

### Intercept: `InterceptProofs`

For every set of threads, page directories, requests, system calls and every
bound (`ThreadsAssumption`, `RequestsAssumption`, `OpsAssumption`,
`BoundsAssumption`):

| Theorem | States | Under |
|---|---|---|
| `OneInstruction`, `SwitchesSeen`, `PopfOnlyInSwitch`, `ReturnsSeen` | `WindowIsOneInstruction`, `TaskSwitchExact`, `PopfPaired`, `ReturnWillBeSeen` | |
| `WindowsClose` | `WindowClosable` | `Kill = FALSE` |
| `TypeCorrect` | `TypeOK` | |
| `SwitchEndsArmed` | the action property `SwitchArms` | `DistinctDirs` |
| `TrapFlagStaysOwned` | `TrapFlagOwned` | `NoStepping` |
| `WaitersAreInside` | `WaitingIsCurrent` | `Kill = FALSE` |

The conditions are those the code needs. A thread that dies in the kernel takes
its saved trap flag with it and leaves its entry in `syscallmap`. Threads with
one page directory (`DistinctDirs` excludes them) are switched without a write
to cr3, which is all the VMM sees of a switch. With STEP or UNPACK (`NoStepping`
excludes them) frames of other threads keep TF after the #DB interception is
turned off.

`IndInv` (theorem `Invariance`). That a window is one instruction is not
inductive: it needs that TF and the #DB interception are on when the instruction
starts and that its own interception is off (`OpenWindow`), that no event is
about to be injected in front of it and that an exit code belongs to the
instruction at rip (`ExitInsn`), and that frames return to interruptible
instructions only, with the running thread in the kernel when it returns or
switches (`StackShape` and the type `Frames`). `TaskSwitchExact` needs the list
of tracked names to stay empty, which it does because `vm_is_process_tracked` is
constantly true. There is one lemma per action, with one step per conjunct.
`WindowsClose` adds the lemma `TrapKept`: every push of a frame saves the trap
flag and every pop gives it back.

The second half of the module adds an invariant for each of its theorems. `ArmInv`: from the
`mov cr3` that trapped to the `popf` that traps, POPF is intercepted. `TfInv`:
TF is on only on the way into a system call or in a window, and a frame that
holds TF is popped by an `iret` the VMM sees. `CallInv` and `WaitInv`: a system
call starts on an empty stack, a thread has at most one entry, only while it is
inside a call, and none in the window of its return. The removal scan of
`vm_remove_waiting_thread` deletes while it counts, so after a match it skips an
entry. It is a recursive function; what it returns after any number of rounds is
shown by induction in the form `SetInduction` of `NatLemmas`, over the set of
round numbers of which the claim holds (`ScanExists`, `RemovalScans`). Because a thread has one entry, the scan removes
it and skips none it should remove (`RemovalRemoves`, `RemovalWorks`).

### HostAlloc: `HostAllocProofs`

For every page, byte and word size, every placement of the VMM, every memory map
and request (`SizesAssumption`, `LayoutAssumption`, `InputsAssumption`):
`TypeCorrect`, `GrantsNeverOverlap`, `GrantsStayInHeap`, `BitmapAlwaysExact`,
`BitmapNeverOverrun` state `TypeOK`, `GrantsDisjoint`, `GrantsInHeap`,
`BitmapExact`, `NoOverrun`; `AllocatorRefines` states `ImplementsPageAllocator`,
step by step: what the bitmap does is to take runs out of a pool for good.

The inductive invariant says what every bit means, in the middle of the loop of
`init_host_alloc_bitmap` too (`BitsMeaning`): a bit is clear if and only if one
of the regions freed so far holds the whole page, inside the heap, and no grant
holds it. It also bounds every region of RAM by `max_page`, from which
`NoOverrun` follows. The lemmas on `map_alloc` and `map_free` show that the
masks of the first and last word and the whole words between them set or clear
the bits of the run and no other, wherever the run starts and ends.

### NestedMap: `NestedMapProofs`

For every radix, page size, loop length and layout of the VMM
(`SizesAssumption`: 4 GB, twice what the loop maps, fit into the table's levels):
`TypeCorrect`, `GuestIsHost`, `VmmNeverReachable`, `TablesNeverLost`,
`OnlyVmmHidden` state `TypeOK`, `IdentityMapped`, `VmmUnreachable`,
`TablesOwned`, `OnlyVmmAndPageBelow`. A table is only a number to the model, so
the invariant says that there are functions `lev` and `base` giving each table
its level and the digits of the addresses it serves, no two tables alike, such
that an entry leads to the table or page of its digits (`WellFormed`), that the
pages are those the loop did not hide (`Open`), and that all of these are mapped
(`Mapped`). `__mmap_2mb` is followed down its three levels; at each, an entry
that exists is kept and a new one extends `lev` and `base`.

### Boot: `BootProofs`

For every processor and every pool of free pages, including pools that run out
at any allocation: `TypeCorrect`, `NeverEnteredUnprepared`,
`HandlersStartClean`, `PagesServeOneUse`, `OwnPagesOutOfReach` state `TypeOK`,
`EnteredPrepared`, `HandsOverToIntercept`, `OwnPagesDistinct`,
`OwnPagesUnreachable`. `PoolInv` separates free pages and the pages of each
use; `TablesInv` is the invariant of `NestedMapProofs`, instantiated for the
table the boot is building, and counts its tables; `PreparedInv`, `VmInv` and
`VmcbInv` say what each point of the boot has done of the processor, of
`vm_info` and of the vmcb; `CleanInv` that the pages read by the processor were
cleared. Nothing is assumed of `OldVms` and `OldVmcbs`: `VmInv` begins after the
`memset` of `vm_create`, `VmcbInv` when the vmcb has a page. `MachinesAssumption` (the pool is memory of the VMM)
is what `GrantsStayInHeap` gives; `CpusAssumption` is that no processor demands
the secondary controls, as the manual has it, which is why no Intel processor
gets past the test for EPT.

### GuestWalk: `GuestWalkProofs`

`WalksAgree` states `TranslatesLikeTheCpu` for tables of any size and contents,
any segments and any mode, under `LowMemory`: entries that are present point
into the lower half of the physical space, all that the nested page table maps;
above it the `int` arithmetic of the walk sign extends. The state invariant is
only the type; the content is arithmetic on indices and offsets (`Parts`,
`TableWalk`, `LargePage`, `Physical`).

### mkelfImage and its converter: `LinuxImageProofs`

For every set of files, command lines, sizes, placements and machines, and any
base and width of the cells:

| Theorem | States | From |
|---|---|---|
| `SumsCompose` | `add_ipchksums` of the sums of two parts is the sum of the parts in a row | |
| `ChecksumRight` | `ImageChecksum` | `BuildInv` |
| `LoadedRight` | `ImageAsLoaded` | `BuildInv`, `LoadInv` |
| `MemoryToldRight` | `MemoryAsReported` | `MemInv` |
| `LineKept` | `CommandLineKept` | `BuildInv`, `LoadInv`, `LineInv` |

`BuildInvHolds`, `MemInvHolds`, `LoadInvHolds` and `LineInvHolds` show that the
four invariants hold in every reachable state.

Checksums. The sum of a sequence is a recursive function over its words. It is
shown to be addition with the carry wrapped around, which is addition modulo
`Word - 1`; swapping the bytes of a word is multiplication by `Base` there, so a
part that starts at an odd offset contributes its swapped sum.

`BuildInv` says at each point of mkelfImage what the buffers hold: a prefix of
the kernel (all of it, unless an interrupted `gzread` cut it), a prefix of the
ramdisk, the headers that the options and the file decide, the sum of the
segments so far (`SummedUp`), and that what is written and what is still to be
written are together the whole file (`Writing`), wherever a `write` stops short.
`ImageChecksum` then needs that the headers read back from the file are those
that were serialised (`FilePhdrsAre`): numbers in cells, offsets with the sizes
of what precedes them, and the note at the end of the notes.

`LoadInv` says that memory is the file as the headers place it, but for what
`startup_32` clears, and that the parameters handed to the converter are those
found there. `ImageAsLoaded` follows segment by segment (`MemoryOf`,
`KernelSegmentIs`): no other segment covers an address, so the cell there is the
one the builder read, and the parameters in the last cells of the payload name
the ramdisk.

`MemInv` carries through all the steps of the converter which sources have been
seen and which ranges and sizes the page has from them; the walks of tables are
recursive functions, of which it is shown that a walk that ends has visited the
records inside the table, each once (`Walked`).

`LineInv` says that the page begins with the line of the image and has a
terminator behind it. The converter's test for a lack of room is never true, so
that nothing is written past the page is due to the sizes: two lines of `CommandLine` bytes fit in the page (`ConverterAssumption`), and a
multiboot line, which has no limit, has to fit by itself (`LineFits`).

The assumptions. `BuilderAssumption` types the files and options and says that
no ramdisk has the name that stands for none; `ConverterAssumption` gives the
sizes of the fields of the page, with room for two lines; `BootsAssumption`
types what a machine and its boot loader left, with tables that can be walked
and ELF notes that have a size, since each has a header; `TopAssumption` is
that memory has an end. The premises of the properties are met by the images of
the run: `Expressible` (offsets and sizes fit the fields of an ELF header),
`Fits` (no segment has more in the file than in memory; a loader would refuse
it), `Disjoint` (segments do not overlap; those of a kernel of more than 7 MB
and the ramdisk do).

### hostfs: `SectorCacheProofs`

For sectors of any size, disks of any length and any set of refused sectors.
`Coherent(c, image, S)` is the body of `CacheCoherent` for the sectors `S`.
`FetchKeepsViews`: a fetch that the disk does not refuse keeps it, has the
sector asked for in the buffer, and the return code tells whether the disk
refused. `StoreSaves`: a store that is not refused leaves all of `image` on the
disk. `WriteSeen`: a cell written and marked, as in `tf_fwrite`, changes that
cell of `image` and no other. `UnmarkedIsLost`: a cell written and not marked,
as in `tf_set_fat_entry`, harms no sector of `S` and does not reach the disk
when the next sector is fetched. The calls of the driver are sequences of these
steps; that the sequences are such, `Fat32` shows by model checking.

### Only model-checked

* Liveness under fairness: `InterceptedCompletes`, `CapableBoots`, `Ends`.
* `Fat32`: `TypeOK`, `CacheCoherent`, `DirtyOwned`, `DirectoryExact` and
  `NullMeansExhausted`. The loops of the driver go from one state of the driver
  to the next and call each other (a flush opens the parent directory, writes
  to it and closes it, which flushes), so they are RECURSIVE operators, of
  which the prover knows nothing.
* The violated properties are about instances, and stay with TLC.

## Not modelled

What the handlers print; the mode switch of `boot.S`; the Intel back end past
the test for EPT; `hide_memory`, the 4 MB nested page table, the guest page
allocator and `tf_free_clusterchain`, which nothing calls; the shell
`fat32_ui.c`, which only reads lines and calls the driver, and the real-mode
disk stubs of `mode.S`; the serial port, formatting and strings; the ia64 back
end of mkelfImage, which builds the same structure for another machine, and its
decompressor `kunzip`, third-party code the i386 image does not link; the test
OS and the scripts. Of the handlers, the name and buffer addresses that
`sys_open` and `sys_read` keep between two exits are free choices; what they
read is only printed.

## Plan

Done: all modules of the table above; theorems about every component that is
modelled, and about every invariant the runs check but those of `Fat32`. Left:

1. `Fat32` with its loops as recursive functions over a bound on their rounds,
   which could be proved about: `CacheCoherent` first, from the theorems of
   `SectorCacheProofs`. It needs an invariant on the cluster numbers in
   directory entries, because an entry with a wild number would let
   `tf_set_fat_entry` change a data sector.
2. `DirectoryExact` on top of it.
