# MioOS: a verification development

MioOS is a 32-bit x86 hobby kernel in C++: preemptive processes on one CPU, a
kernel heap, a page frame allocator, paging, PS/2 keyboard, PIT, ATA and AHCI
drivers, an ext2 file system behind a small VFS, and a command line. This
directory holds TLA+ specifications translated from its source, the TLC
configurations that check them, and proofs for the TLA+ proof system.

    tlc -config Interrupts.cfg MCInterrupts      # a run
    tlapm SchedulerProofs.tla                    # the proofs of a module

Paths below are relative to `src/src/kernel/` unless they begin with `docs/`.

## 1. Inventory

| component | state it keeps | operations | what is hard |
|---|---|---|---|
| scheduler and processes (`sched/`) | Process objects, `process_queue`, `zombie_queue`, `curr_process`, `process_log_list` | `create`, `start`, `yield`, `exit`, `schedule`, `zombie_reaper`, preemption by `onIrq0` | a tick interrupts `schedule()` and runs it again; an ended process executes on a stack that another process frees |
| interrupts (`arch/x86/interrupts/`, `ctx_switch`) | PIC registers, the interrupt flag, the flags of each context | dispatch, `send_eoi`, the stubs | a preempted process is left inside its handler with interrupts disabled, and its second EOI is sent when it executes again |
| run queue (`lib/data/queue.hpp`) | head, tail, nodes on the heap | `push`, `pop` | a voluntary `schedule()` walks the list with interrupts enabled, the handler walks it in between |
| PIT (`drivers/pit.cpp`) | tick counter | `onIrq0`, `delay`, `uptime` | 64-bit counter read in halves, 32-bit start of a delay |
| keyboard (`drivers/keyboard.cpp`) | prefix, shift and caps flags, event ring | `keyboardHandler`, `push_key_event`, `pop_key_event` | handler and reader share the ring without a lock; two-byte codes arrive in two interrupts |
| kernel heap (`mm/heap.cpp`) | block list inside the heap | `kmalloc`, `kfree`, `kcalloc` | called by processes with interrupts enabled and by the timer handler; a `kfree` inside `kfree` on an address that is no allocation |
| frame allocator (`mm/pmm.cpp`) | metadata slots that form a list, `total_used_ram` | `alloc_frame`, `free_frame` | the node of a split lies in the next slot, whatever is there; no lock |
| paging (`mm/vmm.cpp`) | page directory, page tables | `alloc_page`, `free_page`, `identity_map_region`, `is_mapped` | 4 KiB and 4 MiB entries share a record |
| ATA (`drivers/ata.cpp`) | `irq_received` flags, the device list | `identify`, `read_sector`, `write_sector`, IRQ handlers | a timeout races the late interrupt |
| AHCI (`drivers/ahci.cpp`) | ports, command lists, slots | port start and stop, `identify`, `read`, `write` | slots leak after an error, polling of a copy |
| ext2 (`fs/ext/`) | super block, group descriptors, bitmaps, inodes, directories | allocation of blocks and inodes, file and directory operations | several disk writes per operation, none of them atomic together |
| VFS and system disk (`fs/ext/vfs.cpp`, `lib/data/tree.hpp`, `fs/sysdisk.cpp`, directories in `fs/ext/ext2.cpp`, `apps/storage_cli.cpp`) | tree of nodes, mounts, `currentDir`, `curr_fs` | `get_node`, `add_node`, `mount_dev`, `find_sysdisk`, `read_dir`, `change_dir`, `make_dir`, `make_file`, `remove_entry`, the commands `ls`, `cd`, `mkdir`, `mkfile`, `rm` | a cached tree over changing disks; the disk of the last directory that was read is a global; entries of different lengths share a block |
| text console (`graphics/vga_print.cpp`) | the framebuffer, `row_num`, `col_num` | `kputchar`, `newline`, `clear_text_region`, `backspace`, `insert`, `clear_screen` | two notions of where a line ends; positions kept while the text moves up |
| RTC (`drivers/rtc.cpp`) | none, the clock's registers | `get_unix_timestamp`, `timestamp_to_string` | registers read one by one while the clock goes on |
| terminal (`apps/kterminal.cpp`) | the input line, the saved inputs and three indices | key handling, `save_cmd`, `cmd_up`, `cmd_down`, `run_cmd` | indices at the limit of the history |
| applications (`apps/*_cli.cpp`) | none of their own | commands | argument parsing only |
| PCI, device registry, graphics, CPUID, GDT, boot | tables written once, device registers | probing, printing | I/O; no protocol worth a model |

How they interact: the timer handler calls `schedule()`, which allocates and
frees run queue nodes on the heap; `Process::create` takes a frame for the stack
from the frame allocator, which maps pages; the keyboard handler fills the ring
that the terminal process empties; the terminal runs commands, which call the
VFS, ext2 and the disk drivers; disk drivers wait for a flag that their handler
sets, bounded by the tick counter. There is one CPU. A handler runs with
interrupts masked, so it is never interrupted; everything else is, except inside
`atomic_procedure`. A handler may end on another stack than it began on: `onIrq0` calls
`schedule()`, and the process it preempted comes back into the rest of the handler.

What makes each part correct:

* scheduler: an ended process never executes again, no stack is freed under the
  context that uses it, each ended process is released once, a queued process
  gets the CPU;
* interrupts: whoever gets the CPU can be interrupted, and no switch leaves a line in
  service;
* run queue: the list is one chain, and its operations are those of an atomic queue;
* keyboard: an accepted event reaches the terminal once, in order and unaltered;
* heap and frame allocator: nothing is handed out twice, the lists survive;
* ATA: a call that returns did what it says;
* terminal: the newest inputs are there to be recalled;
* timer and clock: a delay waits, and ends; a timestamp is the time of the call;
* text console: the screen shows the input that the program has, and keeps the output;
* file contents: a write replaces, an append adds, cat prints what is there;
* file system: a block has one owner, and the blocks of files are marked used, at
  every point where the machine may stop;
* VFS: the tree agrees with the directories it caches, commands work in the directory
  that is shown, an inode has one name.

## 2. Modules

| module | models | role |
|---|---|---|
| `Scheduler` | `sched/scheduler.cpp`, `sched/process.cpp`, `onIrq0`, the boot thread | the system |
| `SchedulerProperties` | | invariants, liveness, the inductive invariant, the refinement mapping |
| `ProcessLifecycle` | what multitasking promises, without a queue | abstract specification |
| `SchedulerProofs` | | theorems about `Scheduler` and `Interrupts` |
| `Interrupts` | `arch/x86/interrupts/`, `ctx_switch`'s flags, the EOIs of `onIrq0` | composes `Scheduler` with the PIC and the interrupt flag |
| `Keyboard`, `KeyboardProperties` | `drivers/keyboard.cpp` with the keyboard | the system and its properties |
| `BoundedFifo` | a bounded queue whose reader copies, then releases | abstract specification of the ring |
| `Heap` | `mm/heap.cpp` | system and properties |
| `RunQueue` | `lib/data/queue.hpp` under `schedule()`, `start`, `exit` and the timer | system and properties |
| `ReadyQueue` | a queue of processes with atomic operations | abstract specification of the run queue |
| `HeapQueue` | the two together | composes `RunQueue` with `Heap` |
| `HeapQueueProofs` | | theorems about `RunQueue`, `Heap` and `HeapQueue` |
| `FrameList` | `mm/pmm.cpp` | system and properties |
| `Console` | `graphics/vga_print.cpp`: what each function makes of a screen | operators for `Terminal` |
| `Terminal` | `apps/kterminal.cpp` on a `Console` | system and properties |
| `Paging` | `mm/vmm.cpp` with the frame allocator's part in it | system and properties |
| `PitDelay` | the counter and `delay` of `drivers/pit.cpp` | system and property; `AtaIrq` waits with it |
| `Rtc` | `drivers/rtc.cpp` with the clock | system and properties |
| `AtaIrq` | `drivers/ata.cpp` with one device, on `PitDelay` | system and properties |
| `AhciPort` | `drivers/ahci.cpp` with one port of an HBA and its disk | system and properties |
| `Ext2` | `fs/ext/block.cpp`, `inode.cpp`, `ext2.cpp` with the disk | system and properties |
| `Ext2File` | the contents of a file in `ext2.cpp` | system and properties |
| `DirBlock` | the entries of a directory's block: insertion, removal, reading | operators for `VfsTree` |
| `VfsTree` | `fs/ext/vfs.cpp`, `lib/data/tree.hpp`, `fs/sysdisk.cpp`, `apps/storage_cli.cpp` with two disks | system and properties |
| `FrameListProofs`, `PagingProofs`, `Ext2Proofs` | | theorems about the module of that name |
| `DeviceProofs` | | theorems about `PitDelay`, `AtaIrq` and `Rtc` |
| `TransferProofs` | | theorems about `AhciPort` and `Ext2File` |
| `InputProofs` | | theorems about `Keyboard` and `Terminal` |
| `MC...` | | values of the constants for TLC |

Definitions that begin with a comment `Mutant:` are altered forms of the
definition that follows them. No specification uses them: each is a plausible
bug, and each property of the passing runs was seen to fail when one of them
takes its definition's place.

### Scheduler

A Process object is an address of the heap (`Proc`), which `create` takes and the
reaper's `kfree` gives back, so that a stale pointer can meet a new process.
`pc[p]` and `held[p]` are the program counter and the one pointer that matter of
the context of `p`; they stay while another context executes, as the saved
registers do.

* `schedule()` called by `yield`, `exit`, the reaper or the boot thread runs with
  interrupts enabled: `Select` (pop, `scheduler.cpp:83-107`), `Requeue` (push to
  the run queue or the zombies, 109-119), `Switch` (121-129). Ticks come between.
* `schedule()` called by the timer handler is one step, `Tick`: the handler runs
  with interrupts disabled. `Preempt` keeps the place of the interrupted context,
  so a context may be preempted inside its own `schedule()`.
* `Switch` is one step although `next->set_state`, the slice and `ctx_switch` are
  several instructions: a tick between them only decrements the slice that was
  just set, since a slice is TIME_QUANTUM = 5 ticks of a millisecond, and these
  are a few dozen instructions.
* The queue operations are atomic here. In the code the pop and push of a
  voluntary `schedule()` are not: `RunQueue` has them store by store.
* The boot thread executes as the idle process (`scheduler.cpp:34`), which is
  why `boot` says how far it has come.
* `create` without a free frame leaves an object nobody has (`CreateFails`).
* Left out: arguments, identifiers, register contents, the layout of the frame
  that `ctx_switch` restores, the printing of the process list.

### Interrupts

`Interrupts` EXTENDS the scheduler and adds what decides when a tick can come: the lines
that wait (`requested`) and are at work (`inService`) in the two controllers, the
interrupt flag, the flag in each saved context (`eflags`) and the contexts left inside
`onIrq0` (`inHandler`). Each action of `Scheduler` is taken with the flags that
`ctx_switch` saves and loads; `TimerInterrupt` is `Tick` with the EOI that `onIrq0` sends
first, and `HandlerReturns` the rest of the handler, at once or when the preempted process
executes again: the second EOI of `irq_handler`, then `sti` and `iret`. The priorities of
the controllers are those of the 8259: timer, keyboard, the slave's lines, the rest of the
master. The handler of a device is one step with one EOI or two (`ata.cpp` sends its own).
Left out: the exceptions, which end in a panic; the descriptor tables; a spurious IRQ;
what happens between `idt_flush`, which enables interrupts, and the installation of the
default handlers (see *Where the code and its comments disagree*).

### RunQueue, Heap and HeapQueue

`RunQueue` is the list of `data::queue`, one load or store at a time, as a process walks
it in `schedule()`; the timer handler, `start` and `exit` walk it with interrupts
disabled, in one step. `head = tail = n` is two stores, whose order the compiler chooses
(`headFirst`). A tick between a load of head or tail and the store that relies on it
(`Gap`) tears the list; `torn` records it and the model goes no further. `line` is a
history variable: the nodes in the order in which they were linked in.

`HeapQueue` puts the nodes on `Heap`: `FreeNode` is a `kfree`, `NewNode` a `kmalloc`, and
the handler's exchange of a node is one of each. Processes allocate and free blocks of
their own beside it.

### Keyboard

The hardware (`Press`, `Release`, `Bytes`) is external: it knows which keys are
down and sends one byte, or 0xE0 and a byte, for each change; `wire` holds what no
interrupt has fetched yet. `keyboardHandler` is one interrupt. `pop_key_event` is
three steps, because an interrupt may come between its test, its copy and its
write of the tail. The tables of characters are cut to one key of each kind.

### Heap

Addresses and sizes are bytes, headers are `HeaderSize` bytes, and the heap is a
few dozen bytes long. Only the headers of the list are kept. Where the code reads
other memory the model takes any value: `kfree` frees `current->next`, the
*header* behind a merged pair, and takes a byte of user data for its `free` flag.
`Merge` is the set of the outcomes of that loop, whose calls of `kfree` interrupt each
other; one turn of whichever call is innermost is `Turn`. `kmalloc` is two steps, the search and the taking, and so is `kfree`, the
merging and the clearing of the first word, which comes last (`heap.cpp:111`); anything may
come in between. An interrupt inside the merging loop is not modelled. When somebody takes
or merges away the block that a process has found and not yet marked, or takes the block
that a process has freed and not yet cleared, `raced` records it, and the model goes no
further.

### FrameList

Addresses are counted in frames. The state begins after `vmm::init`: the first
block (the page directory and tables) is never freed, all page tables exist, and
the metadata slots behind the list are zero. `Split` writes slot `c + 1` exactly
as `(MetadataNode*)((uint8_t*)current + sizeof(MetadataNode))` does; `Taken`
computes the address anew from `prev`, as the code does. The walk of the list is `Listed`, a
merging pass of `free_frame` goes block by block (`Turn`), and `Turns` is more turns than any
number of passes over a list of `LastSlot + 1` blocks takes. `reverse`, chosen in
`Init`, says whether callers free in the reverse order of their allocations.
`found` is the block of a caller that is interrupted between its search and its writes
(`Resume`), while others allocate and free. `status = "hung"` is a walk of a cyclic list,
`"wild"` the write through the uninitialised `block` of `free_frame` for an address in no
node, `"stale"` the taking of a block that was no longer free; nothing is modelled after
any of them.

### Paging

`todo` is the stack of the calls of `identity_map_region` that wait for each other:
`alloc_frame` maps what it hands out, `alloc_page` takes the frame of a missing table
from `alloc_frame`, and so on. `MapPage` is one turn of the loop, `MapTable` the call
for a table, `Return` the end of `alloc_frame` with its `memset`. `vmm::init` is the
first content of the stack, with paging still off. The allocator's list is the set of
frames taken and a first fit, as `FrameList` has it while it is sound. `tlb` holds every
translation that was in the tables since the last `invlpg` of its page, which is all that
a TLB may hold. A frame that a caller has used holds data that would read as present
pages. `status` says how the kernel ends: a page fault on one of its own structures
(`"fault"`), recursion that fills the stack (`"overflow"`), a table at address 0 because
no frame was left (`"wild"`). `free_frame` unmaps pages from 0 on (`pmm.cpp:311`); here
as many as `Low`, since the kernel is behind them. `Separate` says that the framebuffer and
the device lie in regions behind those of the frames, as they do in
the run; the properties say where they need it.
Left out: 4 MiB pages, which only `tests/vmm_u_test.cpp` asks for (its page stays in the
directory, see below); flags; a tick between the steps.

### Console and Terminal

The operators `newline`, `kputchar`, `clear_text_region`, `backspace`, `insert` and
`clear_screen` of `Console` map a screen to a screen as the functions of these names do. A cell
is the set of characters drawn on it, since `draw_char` sets pixels and clears none. `up` counts
how often the text has moved up since the prompt.
Left out: sections, colours, the drawn cursor, log prefixes, the formatting of arguments (an input
that is recalled is used as a format; here it has no `%`), the old text mode.

`Terminal` is one action for each key: what it does to the input line, to the history and to the
screen. Keys are a letter and the blank; a place of the history that was never written holds what
`kmalloc` left there (`Unwritten`). `entered` is a history variable: the inputs `save_cmd` has
saved. `prompted`, the screen when the prompt was printed, and `wrapped`, whether the cursor has
left its row since, are history variables too. Of a command only its output is here, which may
begin with a blank screen (`clear`).

### PitDelay and AtaIrq

`ticks` has 64 bits and is read in two halves of `Word` values, in an order that the compiler
chooses (`lowFirst`): `ReadFirst` and `ReadSecond` are one turn of the loop of `delay`, and
`onIrq0` may come between them. `Target` keeps the low half only, as `uint32_t start` does. The
counter goes round in its third word, which no delay can tell from the ones behind it.

`AtaIrq` is one channel with one device. The device is external: it accepts a command unless
busy, reads, asks for data, writes and raises its interrupt. `late` and `faulty`,
chosen in `Init`, say whether it may outlast the timeout of `ata_irq_wait` or end
a command with an error. `ata_irq_wait` is a loop of delays of one tick, each a `delay` of
`PitDelay` (`IrqDelay`, `Delaying`, `Ticks`), and ends by the flag (`IrqSeen`) or by the
timeout (`IrqTimeout`), which leaves the flag to be set later. `Answer` is the time within
which a device that is not late answers. `hasty` is a history variable: a wait timed out,
by a late device or because its delays returned at once. Loops on the status
register are guards. Registers, the second channel, and `flush_cache`, which
nothing calls, are left out.

### Rtc

`clock`, `Second` and the calendar are the CMOS clock, which is external. `get_unix_timestamp` reads
one register in each step, in the order of the code. `unix_timestamp` is its arithmetic and
`timestamp_to_date` what the loops of `timestamp_to_string` find, by the year and the month
at which they stop. `Dates` are all dates and times from 1970 to 2069; the calendar counts days
month by month, from the length of each, and not as the kernel does. Seconds, minutes and hours are counted to 2; `since` and `carry` are history
variables. The clock's own update of a second is one step: a register that is read while
the hardware changes it is not modelled.

### AhciPort

The HBA and the disk are external: CR and FR follow ST and FRE, an issued slot is fetched
while both run, and a command completes (its bit in ci is cleared) or fails (PxIS.TFES is
set, the bit stays). `Init` is the port after the reset of the HBA; `stuck` is a bit that
does not clear, and whether the COMRESET of `port_reset` clears it. `faulty` and `halts`
say whether commands fail, and whether the HBA then executes nothing more until ST is
cleared, as its specification says; other implementations go on. `wait_bit_clear` is
given the value of the register, so it waits its time out and a later look decides: the
guards of `Stopped` and `Deaf` say that an engine which is not stuck has stopped by then.
`Setup` is the common part of identify, read and write, up to the wait for the port.
Left out: other ports, `hba_reset` and `stop_cmd`, which nothing calls, the layout of
headers, tables and FIS, the model and serial numbers, signatures.

### Ext2

One directory, its files and empty directories, on a disk of one block group.
`disk` is what is on the disk, in the parts that are written one at a time: the
two bitmaps, the group descriptor's counts, the inode table, the directory and the
blocks that serve as tables of pointers. An operation builds a plan: each operator
(`alloc_block`, `free_blocks`, `write_inode`, ...) adds the disk writes of the
function of its name, in the order of the code. `todo` has, one after another, the disks
that the writes still to make turn the disk into; `DiskWrite` makes one write at
a time and `Restart` drops what is left, so a stop may come between any two writes;
the writes of several sectors of one block are taken as one. The command line is the
only caller, so operations do not overlap, and what the kernel keeps in memory is what
the disk has whenever no write is left. An allocation that finds nothing ends in a
panic after the writes made so far. An insertion into a directory without room never
succeeds (`insert_into_block` finds no entry to split in a block of zeros), so it
takes blocks until the panic.
The reader of the directory is taken to list every entry; `VfsTree` shows when it does not.
Left out: other block groups, doubly and triply indirect blocks, the contents of
subdirectories, entries of different lengths, permissions, times, sizes, the links of
the parent, the data of files (module `Ext2File`); and the super block, whose counts decide
nothing.

### Ext2File

One file: its length and the contents of its blocks, the direct ones and those behind the
indirect block. A file that was on the disk may miss blocks that hold zeros only.
`write_file_content` is one step, for the command line is the only caller; it goes through
all blocks from the first one on, as the code does, with `bytes_written` set to 0 or to the
old length. What lies behind the input is its terminating zero, then any byte (`Junk`). `cat`
leaves out bytes that are zero, as `large_string::append` does. Once `read_indirect_block`
has lost its table, `printed.more` says that what follows is not known.
Left out: doubly and triply indirect blocks, full disks (`Ext2`), failing reads.

### DirBlock and VfsTree

`DirBlock` is the chain of entries of one directory block, in bytes. `insert_into_block`
takes the first unused entry that is long enough or the first one with room behind its
name; what it does not need becomes an entry without an inode (`WithRemainder`). The
header of such an entry is eight bytes long, so a remainder of four lies over the inode
number of the next entry, which then reads as 4; at the end of the block it lies behind
the buffer, which is not modelled. `remove_dir_entry` gives the bytes to the entry
before. `parse_directory_block` stops at the first entry without an inode.

`VfsTree` has two disks, of which `"sys"` is the system disk or, with `root_fs` none, no
disk is, and `"other"` is mounted under `mnt`. A node is identified by its path, a
sequence of names; `tree` has the children of each directory node in order. A command
works on a record of the disks, the tree and `curr_fs`: each operator (`read_dir`,
`add_node`, `make`, `remove`, ...) gives the record after the function of its name, so a
command is one step: the command line is the only caller. `remove` is `tree.hpp`'s
`traverse` with `remove_entry` for each node and `delete_subtree`: a directory is read
when it is visited, but its first child was taken before that, so what was not in the
tree is not visited (`Opened`). A directory that is removed keeps the link of its own
`"."`, so its inode stays in use; a file's inode is given back.
`regular` is a history variable: no directory has hidden an entry, or held a file and a
directory of one name, of which `get_node` finds the first only. The model goes no further
than the first state that is not regular.
Left out: `rm -r .` and `rm -r ..`; directories of several blocks and full disks (module
`Ext2`); the directory `home`, which is made like `mnt`; paths of more than 16 tokens, which
`path_util.cpp:39` cuts off; mounts of disks without a file system; permissions (`currUid` is
never other than 0); `cat`, `write` and `append`, which follow the tree and `curr_fs` and
change neither; a stop between two writes of a command, which `Ext2` has.

## 3. Runs

| run | configuration | question | bounds | size |
|---|---|---|---|---|
| `scheduler` | `Interrupts.cfg` | is any ended process dispatched, any stack freed in use, anything reaped twice; where is a process lost; does it implement `ProcessLifecycle`; does a queued process get the CPU, is a zombie released, an interrupt handled | idle, reaper, 2 more addresses, 2 priorities, TIME_QUANTUM 1, one line of the slave | 46,434 states |
| `keyboard` | `Keyboard.cfg` | is the ring a bounded FIFO, does the decoder keep in step | ring of 3 slots, 4 keys, 2 bytes on the wire | 964,676 states |
| `heap_queue` | `HeapQueue.cfg` | is a byte handed out twice, a header overwritten; does the run queue stay one chain, and is it an atomic queue | idle and 3 processes, heap of 64 bytes, headers of 12, nodes of 8, sizes 2 and 20, 2 blocks of processes | 1,714,584 states |
| `frames` | `FrameList.cfg` | how can the list of frames go wrong, and is it right for callers that free in reverse | 5 frames, 5 slots, blocks of 1 and 2 | 615,757 states |
| `paging` | `Paging.cfg` | are held frames mapped, is the TLB fresh, when does the kernel fault or recurse without end | tables of 8 pages, 7 regions, 12 frames, framebuffers of 0, 4 and 12 pages, blocks of 1 and 2, stack of 4 calls | 1,064,577 states |
| `terminal` | `Terminal.cfg` | are the newest inputs held and the indices in bounds, is the cursor on the screen, does the screen show the input and keep what stands before it | 3 places, lines of 2 characters, 4 saves, 2 rows of 4 columns | 1,010,213 states |
| `ata` | `AtaIrq.cfg` | does a call do what it says, and return; does a delay wait | 2 sectors, 2 values, calls of 2 sectors, timeout of 3 delays, words of 2 values | 937,676 states |
| `ahci` | `AhciPort.cfg` | does a call that succeeds do what it says, is a table in use rewritten, do calls return | 2 slots, 2 sectors, 2 values | 114,064 states |
| `ext2` | `Ext2.cfg` | what is on the disk when an operation is cut off between two writes, and what leaks when none is | 6 blocks, 3 inodes, 2 names, room for 2 entries, 1 direct and 1 indirect pointer, 1 restart | 8,647,079 states |
| `ext2_file` | `Ext2File.cfg` | do overwriting, appending and printing do what they say, and up to where | blocks of 2 bytes, 2 direct and 2 behind the indirect block, files of every length, 3 writes of 1 to 7 bytes | 6,067 states |
| `vfs` | `VfsTree.cfg` | does the tree agree with the directories, do two names share an inode, do commands work where they seem to, what does `rm -r` leave behind | 2 disks with 1 and 2 inodes to give, blocks of 52 bytes, 3 names of users, of entries of 12 and 16 bytes | 29,877 states |
| `rtc` | `Rtc.cfg` | is a timestamp the time of the call, a date the clock's | every end of a month from 1970 to 2069, 3 seconds, minutes, hours and days of 2 | 467,426 states |

Why the bounds are enough (where section 5 has a theorem the bounds limit nothing, and the run
adds liveness and shows that what the theorem is about does happen):

* Scheduler. Two ordinary addresses give a process that yields or ends while another one
  is created or reaped, and an address that is taken again, with the reaper and the idle
  process beside them. Two priorities make slices differ. TIME_QUANTUM 1 lets a tick end
  a slice at every step; a larger quantum removes behaviours. One device
  line, of the slave, needs an EOI of both controllers; with two the search for fair cycles
  takes longer than a run should.
* Keyboard. A ring of three slots holds two events, so it fills, wraps, and has
  an order to keep. The keys are a letter, a shift key with the extended code that
  some keyboards send for it, and caps lock. Two bytes on the wire are one extended
  key or two plain ones in flight.
* Heap and run queue. Three nodes, or two and a block of a process, nearly fill the heap, so
  freed blocks are merged, split and taken again by somebody else; size 2 is shorter than
  the word that `kfree` zeroes. Three processes and the idle process give lists of every
  length from none to three, and a process that waits in each place of `schedule()` while
  two others go on.
* Frames. Five frames and blocks of one and two are the least that split a merged
  block in front of a used one.
* Paging. Memory covers two regions, so the allocator goes from one with a table to one
  without, with and without holes behind it. `Depth`, the bound on the stack, is 4: the
  longest recursion that returns has three calls. A framebuffer of 12 pages takes two
  tables, one of 4 a single one.
* AHCI. Two slots: one stays taken after an error and the other is used. Transfers of two
  sectors reach the end of the disk.
* Terminal. Three places fill and are moved up twice within four saves; `Saves`
  bounds the behaviour and is the only bound in a guard. The fourth column is the one that is
  never written: an input of two characters wraps behind the prompt. With two rows the
  text moves up within an input and between inputs; the kernel has 96, and the longest input
  takes three.
* Ext2File. Four blocks make a file end in the first block, in another direct one, in the first
  one behind the indirect block and in a later one; three writes are a long one, a shorter one and
  an append.
* RTC. Three seconds carry once through all fields on either side of each end of a month; the
  lengths of a minute, an hour and a day are factors of the arithmetic only.
* ATA. A word of two values runs over within a call, and a timeout of three delays is longer than
  the answer of a device that is in time. Two sectors show the loop of a call and the interrupt of one sector met by
  the wait for the next.
* Ext2. A file takes three blocks, so two files and a directory compete for five, and
  allocation fails at each point of an operation; three inodes overfill a directory
  of two entries. Everything may happen again after the restart; one was enough to meet
  every disagreement between bitmap, count and inode that the order of the writes allows.
  BLK_SIZE is 2, blocks of 4096 bytes.
* VFS. The system disk has the directory of mounts only, the mounted one takes a directory
  in a directory, or two entries that compete for the room of a removed one; a remainder of
  four bytes occurs between entries and at the end of the block. A path has up to four
  names.

Deadlock is checked but for six models: `HeapQueue` stops after a race, a torn list or with
the heap full, `FrameList` with any status but "ok" and when no slot is left, `Paging` with
any status but "ok", `AhciPort` when the HBA has
halted on an error or the disk could not be identified, `Ext2` in a panic once its
restart is used up, and `VfsTree` when a directory is no longer regular. (In `AtaIrq` the timer ticks for ever, so
a driver that is stuck is found by `EveryCallReturns` and not as a deadlock.)

### What is assumed for liveness

* Scheduler: `WF(TimerInterrupt \/ HandlerReturns)`, the PIT never stops, and a process in
  its handler goes on when it has the CPU. `SF` for each step of the kernel's
  own code: a context that gets the CPU again and again gets an instruction
  further each time, since a slice is milliseconds. `SF` for the interrupt of a device: it is
  let through between two ticks. Nothing is assumed of processes: one may compute for ever.
* ATA: the driver executes, the PIT ticks, interrupts are delivered, and the device answers. Late
  and failing devices have no such promise, so `EveryCallReturns` excludes them.
* AHCI: the driver executes, and an HBA that has something to do does it. A stuck port and
  a disk with errors are excluded.

## 4. What the runs show

Scheduler. `OnlyLiveAreSchedulable`, `ExecutesOnOwnedStack`, `ReapedOnce` and
`OnePlaceInTheRound` hold although ticks run `schedule()` inside `schedule()`.
The reasons are in the invariant: a process that ends is not preempted
(`pit.cpp:31` tests for RUNNING), so it is in the zombie queue only while
interrupted code cannot reach the reaper before its own `ctx_switch`.
A process is lost, running but in no queue, at one place: a tick between its own push and its
`ctx_switch` pops the entry and schedules it, and when it goes on, that `ctx_switch`
takes it off the CPU with no entry left. `OnlyItsSwitchLoses` says that no other step
loses one, and `ZombieIsReaped` holds up to the loss of the reaper itself.

Interrupts. `EveryInterruptIsHandled` is not obvious, for the first switch to a process that was
preempted in its handler happens with interrupts disabled and a second EOI to come. It holds
because `onIrq0` sends its first EOI before `schedule()`, every handler ends in `sti`, and
what is switched to gets its own flag. The second EOI finds no line in service, or would end
another one's early; with interrupts disabled in handlers there is none to end.

Run queue. A tick inside a voluntary `pop` or `push` is harmless at most places, since the list
is one chain between any two stores but three pairs: from the load of head to its store, and
from the load of tail to the second store of a push. `QueueIsWhole`, `NodesHaveOneOwner` and
`ImplementsReadyQueue` hold up to such a tick. Nothing in the code prevents it.

Keyboard. The ring is a single-producer, single-consumer queue that is right
without a lock because the handler writes only the head and the reader only the
tail, and one slot stays empty.

Heap. No byte is handed out twice and no header is overwritten (`HeapIsSound`), whatever the
nested `kfree` reads and wherever others allocate and free around a process in `kmalloc` or
`kfree`, with two exceptions: `kmalloc` tests `free` at line 50 and writes it at line 66 with
interrupts enabled, so whoever takes or merges the same block in between shares it with the
process; and `kfree` clears the first word of a block (line 111) that is already free and may be
another's by then. Nothing in the code prevents either; the property says that these are the
only ways.

Frames. Callers that free in reverse order never meet a wrong list. Any other
order may, in the two ways `OnlyTakesBreakTheList` names first, and callers that interrupt each
other behind the search of `alloc_frame` in the third: a block is taken that somebody else has
taken or merged. Processes do allocate frames with interrupts enabled (`Process::create`).

Paging. The two managers call each other, and it works as long as the next free frame lies in a
region that has a table. The first frame of a new region does not: `alloc_page` asks
`alloc_frame` for a table, which takes the next frame, in the same region, and maps it, for
which a table is missing. `StopsForAReason` says that only a free frame elsewhere,
below, ends this. In the kernel the frames begin at 31 MiB (METADATA_ADDR and 2^20 nodes of 25
bytes), so 256 frames have a table. Its other part needs the framebuffer in one region:
`vmm::init` maps the directory and four tables (`vmm.cpp:46`), two for the kernel and the
metadata, one for the frames and one for the framebuffer, which 1024x768x32 of `boot.asm` just
needs.

ATA. Reads are right for every device, since the transfer waits for the device's
own status. Writes rely on the flag alone (`CallsDoWhatTheyReturn`). `EveryCallReturns` holds as
long as no wait was cut short. A wait is cut short by a late device, and, however good the
device, once the counter has left its low word, some 49 days after the start: each delay then
returns at once, the timeout passes in no time, the next command is given to a busy device, which
ignores it, and the poll for its DRQ never ends.

Time. A reading of the counter that is torn by a tick cannot end a delay early before the low
word is full; `DelayWaitsBeforeWrap` says so, and is proved. A timestamp is exact unless a minute
ends during the call, and then it may be up to a year ahead but is never behind, since the
registers are read from the seconds up (`ReadingIsExactOrAhead`).

AHCI. A slot whose command failed stays in ci, and that is what keeps `read` right: its
table is not taken for another command, and a call does not take the end of one command
for the end of another. The price is a slot for each error. After an error on an HBA that
halts, the next call waits for ever, since nothing clears ST.

Ext2. The order of the writes keeps the disk safe wherever it is cut off: bits are set
before an inode or an entry names them, and cleared after the entry is gone, so a
stop leaks blocks and inodes but never gives one to two owners. `PoolIsWhole` says
what leaks without a stop: only the blocks behind an indirect block
(`block.cpp:171` loops to the logarithm of the block size, divided by 4) and what a
removed directory had (`ext2.cpp:934` leaves the link of its own "."), which is why
its history variable `intact` excludes just these.

File contents. Overwriting is right from every state of the file. An append starts its loop at
the first block with the position of the last, so it is right only for an empty file, and keeps
the old bytes only when the file ends in its first block (`WritesKeepOrReplace`); in general it
overwrites the beginning. `cat` prints up to the first block behind the indirect block, whose
contents then lie over the table that named it (`CatPrintsUpToIndirect` has its limit there).

Terminal. The arrow keys stay inside what was saved, and the newest inputs are held. While an
input stays on its line, the screen shows it whatever was typed, deleted and recalled
(`InputIsShown`). Once it has wrapped, backspace clears the column that is never written first, so
the screen lags one character behind the input and a recall leaves one standing; what stands
before the input is never touched (`OutputIsKept`), though `input_row` is out of date once the text
has moved up. A recall clears as many columns as the input has characters, counting the last column
of each row, in which nothing is ever written, so of an input of three rows (with the prompt more
than 254 characters on a screen of 128 columns) it leaves the end. The next prompt may come to stand
above that end, and what is typed there is drawn over it. The proof brought this out: at first the
property said that the screen shows the input on top of what stood there, and a recall that clears
the leftover made it false for such lines. The property therefore says of each cell that it shows
the input on top of what stood there at the prompt or on top of nothing.

VFS. The tree and the directories stay in agreement, since every command that changes a
directory reads it first. Three limits show. An insertion into a gap wider than the new
entry hides what is behind it, after which inode and name part; all
else holds up to there. `rm -r` of a directory that was never listed removes its entry and
leaves its files without a name, and their inodes in use (`OnlyUnlistedLeave`;
`storage_cli.cpp:307` says "recursively deletes contents"). And since removal reads the
directories it visits, `curr_fs` is the mounted disk after `rm -r` of the mount, so `cat` and
`write` then use inode numbers of the one disk on the other (`OnlyRemovedMountsMislead`).

### Where the code and its comments disagree

Met while modelling; the models have the behaviour, and the properties hold up to it:

* `scheduler.cpp:113-127`: the lost process, above (`docs/Multitasking.md:56`, "moved to the
  back of the `process_queue` (if still running)").
* `idt.cpp:103-108`: `idt_flush` enables interrupts before the default handlers are installed; a
  key that is pressed in between gets its EOI, but its byte is never read, and the keyboard
  raises no interrupt until it is.
* `zombie_reaper` frees the Process object (`scheduler.cpp:66`) and never removes
  its address from `process_log_list`, which `apps/sys_cli.cpp:71` follows.
* `scheduler.cpp:112`: the idle process, as which the boot thread executes, is never queued
  again; if its slice ends after the reaper was started, the command line is not created.
* `pmm.cpp:212` writes the node of a split over the next slot, used or not.
* `vmm.cpp:170`: `free_page` of a 4 MiB page whose region has no table returns false and
  unmaps nothing; `vmm.cpp:226` follows the missing table; `vmm.cpp:147` keeps the number
  of a 4 MiB frame where the processor expects its address.
* `ahci.cpp:61`: a stuck port is removed from a copy of PI ("so we don't try to use it
  later") and `probe_ports` reads the register again. After FRE is cleared, a retry no
  longer looks whether FR has stopped.
* `pmm.cpp:227` takes the address of a block from a `prev` that a split leaves
  behind, so a held frame can be handed out; `pmm.cpp:311-319` clears `ptr` before
  the loop that unmaps takes its first address from it.
* `heap.cpp:103`: the nested `kfree` can zero the size of the block behind a merged
  pair, whose bytes are lost; `heap.cpp:106` steps over the merged block, so three
  free neighbours do not become one (`docs/Memory.md:65`).
* `keyboard.cpp:92`: one flag for both shift keys (comment at 23);
  `keyboard.cpp:33`: caps lock turns digits into their shifted characters (comment
  at 32, "alphabetic").
* `kterminal.cpp:198`: once the history is full a repeated input is compared with
  the one before the last (comment at 197); `kterminal.cpp:214` never counts the last
  place (comment at 55); `kterminal.cpp:242` copies a place nobody has written;
  `kterminal.cpp:97` admits 256 characters into a buffer of 256, so the zero lies
  behind it.
* `heap.cpp:111`: `kfree` clears the first word of the block after marking it free, above.
* `queue.hpp:77`: the run queue is popped and pushed with interrupts enabled, above.
* `ata.cpp:44`: `ata_irq_wait` returns after its timeout as after the interrupt, so
  `write_sector` returns true for a sector that is not yet written, and the late
  flag ends the wait of a later command.
* `ext2.cpp:1192`: an append to a file of one block or more goes into its first block and takes
  what lies behind the input for the input (`docs/FileSystem.md:52`, "Adds to the end").
* `ext2.cpp:988`: `read_indirect_block` reads the file's block over the table that names it
  (`docs/FileSystem.md:51`, "Automatically handles traversing the indirect block tree").
* `vga_print.cpp:320` begins a new line one column early and `vga_print.cpp:238` goes back to the
  column that is never written (`docs/VgaPrinting.md:107`, "clears the character").
* `pit.cpp:62`: `uint32_t start` keeps half of the counter, so after 2^32 milliseconds every delay
  ends at once (comment at 61), and with it the waits of `ata_irq_wait` and of the AHCI driver.
* `rtc.cpp` reads the clock's registers without a look at the update flag: a timestamp taken while
  a minute ends may be far ahead.
* `ext2.cpp:51`: `rewrite_sb` reads the super block where the comment says "Write back".
* `ext2.cpp:1170`: `write` on a directory frees the inode that the tree still holds.
* `heap.cpp:50`: the race of `kmalloc` with the timer handler, above.
* `ext2.cpp:606`: the unused entry that an insertion leaves in a gap hides the entries behind it
  from `read_dir` (`ext2.cpp:64`; `docs/FileSystem.md:65`, "returns a list of files/folders");
  the header of a remainder of four bytes overwrites the inode number of
  the next entry, or four bytes behind the buffer.
* `tree.hpp:203`: `traverse` takes the first child before `remove_entry` adds "any missing
  entries of current dir to the VFS tree" (`ext2.cpp:917`), so these are not visited.

## 5. Proofs

Each theorem is about the specification of its module for every value of the constants that
satisfies the module's named assumption; what a run shows of one small instance, it shows of all.

| module | theorem | statement |
|---|---|---|
| `SchedulerProofs` | `SchedulerInvariantHolds` | `Spec => []SchedulerInvariant` |
| | `OnlyLiveHolds`, `ExecutesOnOwnedStackHolds`, `ReapedOnceHolds`, `OnePlaceHolds` | the safety invariants of the scheduler |
| | `OnlyItsSwitchLosesHolds` | where a process can be lost |
| | `SchedulerImplementsLifecycle` | `Spec => ImplementsLifecycle`, the refinement |
| | `InterruptsImplementScheduler` | the kernel with its controllers and flags implements `Scheduler` |
| | `OnlyLiveInTheKernel`, `OnlyItsSwitchLosesInTheKernel` | so what is proved of `Scheduler` holds in it |
| `HeapQueueProofs` | `TheQueueStaysWhole`, `EveryNodeHasOneOwner` | the list between any two stores |
| | `TheQueueIsAtomic` | `Spec => ImplementsReadyQueue`, the refinement |
| | `TheHeapStaysSound` | `KernelSpec => []HeapIsSound`, whatever a nested `kfree` reads |
| | `TheKernelHasTheQueue` | `HeapQueue` implements `RunQueue`, so what is proved of it holds on the heap |
| | `NodesStayAllocated` | the nodes of the queue are allocations, and `kmalloc` returns none of them |
| `FrameListProofs` | `ReverseOrderIsSound` | `Spec => []SoundAndCounted`, for callers that free in reverse order |
| | `TheListBreaksInThreeWays` | `Spec => OnlyTakesBreakTheList`, for all callers |
| | `NothingIsForgotten` | the first block and the pointers of the list, sound or not |
| `InputProofs` | `TheRingIsAFifo` | `Spec => ImplementsFifo`, the refinement, for every size of the ring |
| | `TheDecoderFollows` | prefix, shift and caps flags, for a keyboard with one shift key |
| | `NewestInputsAreHeldAlways` | the places of the history as a window of what was entered |
| | `OutputIsKeptAlways`, `InputIsShownAlways` | what stands before the input, and the input itself, on a screen of any size |
| `PagingProofs` | `HeldStayMapped`, `TlbStaysFresh`, `NothingElseChanges` | what is mapped, in the tables and the TLB |
| | `StopsOnlyForAReason` | the only ways in which the two managers stop each other |
| `DeviceProofs` | `WaitsBeforeWrap`, `DriverDelaysWait` | `delay`, alone and as the driver uses it |
| | `CallsKeepTheirWord` | what a call that returns true has done |
| | `DateIsTheClocksAlways` | the date of a time, for every second of a hundred years |
| | `ReadingIsExactOrAheadAlways` | what a timestamp read during a carry can be |
| `TransferProofs` | `TrueMeansDoneAlways`, `IssuedTablesAlwaysRest` | calls that succeed, tables that the HBA may read |
| | `WritesKeepOrReplaceAlways` | what an overwrite and an append leave in a file |
| | `CatPrintsUpToIndirectAlways` | what `cat` prints of one |
| `Ext2Proofs` | `DiskStaysSafe`, `PoolStaysWhole`, `FilesKeepBlocks` | the disk after each write, the pool after each operation |

### Assumptions

The assumptions on constants are stated in the modules and evaluated by TLC in the runs:
`ProcAssumption` and `QuantumAssumption`, `LineAssumption`, `RunQueueAssumption`,
`HeapAssumption` and `HeapQueueAssumption` (requests are for a byte or more, as `kmalloc`
returns null for none),
`FrameAssumption`, `SizeAssumption` and `KeyAssumption`, `PagingAssumption`, `PitAssumption` and `AtaAssumption`,
`AhciAssumption`, `Ext2Assumption`, `Ext2FileAssumption`, `ConsoleAssumption`, `TerminalAssumption` and `RtcAssumption` (at most 60 of
each unit, and behaviours begin at dates that exist). They say that sizes are positive and names distinct; those
of `Paging` also that the regions follow each other in memory, and those of `AtaIrq` that a device
that is in time answers before the timeout, and `TerminalAssumption` that the prompt and the longest line
fit on all rows but one, as 256 characters do on the kernel's 96 rows of 128 columns. Two theorems have a hypothesis that the code does not
guarantee, and it is part of what they say:

* `TheDecoderFollows` has `OneShiftKey`, at most one shift key in the table of keys. The driver has
  one flag for two shift keys (`keyboard.cpp:92`), so with both the claim is false; the run has one.
* `TlbIsFresh`, `OnlyRequestedPagesChange` and `StopsForAReason` have `Separate`, and `NoPageFault`
  has at most four regions at boot. In a region that frames share with the framebuffer or the
  device, `alloc_page` can create the table of a region twice: the call for the first
  one waits while the innermost call ends in the region of the device and returns.

### The inductive invariants

Hardly any of the invariants that the runs check is inductive alone. What each had to be
joined with says why the code works.

* `SchedulerInvariant`, which the run checks too, adds `PlaceAndState`, what the place of a context
  says of its process: only what executes can be TERMINATED inside `schedule()`; `CpuIsLive` and
  `IdleAtBoot`, the processor is never in a released context, and the boot thread is READY exactly
  until it starts itself; `LaunchIsPrivate`, an object being created is known to its creator only,
  which is why a queue never names an object that was not started; `SchedulableRuns` and
  `ZombiesAreEnded`, the two queues are disjoint in state, and the reaper's own pointer is off both;
  `TwoPlaces` and `NotThreePlaces`: a process interrupted between its push and its
  `ctx_switch` has two places in the round, and a third would break
  `OnePlaceInTheRound` a step later.
* `RunQueueInv` says what the registers of a context hold at each place of `pop` and `push`
  (`Popping`, `Pushing`, `InHand`), that a context which was switched away from is in no gap
  (`OnlyTheRunningInGap`), where the tail may be behind the list (`TailIsEnd`), and that each
  allocated node is in the list or in one hand (`NoNodeShared`, `NoNodeLost`). All of it
  holds until `torn`.
* `HeapInv` has the existence of a set of headers that is the list (`Good`): they lead to each
  other upwards and no block reaches into the next (`List`, `Apart`), and each allocation has a
  block that is not free and stays within what the block cannot reach beyond, not within its
  size (`Owned`, `Behind`): the nested `kfree` sets sizes to zero, and the bytes behind are then
  lost, but never given to two. In the merging loop a call of `kfree` that waits may stand at
  a header which an inner call has merged away, and goes on to write to it; `Merging` therefore
  keeps the headers of before the loop apart too, whether in the list or not. `FoundInHeap`
  is what lets a process that has lost its block to another still be followed to its write.
  `Finding` says that a process has found a block of the size of a node where
  `push` needs one.
* `BaseInv` holds of the frames' list in whatever order it is: the first block is never given away,
  no other begins where it does, and a pointer leads to a slot that has been a block. It is what a
  sound list needs for one more step: that step is shown on `Tiles`, the blocks of the list without
  their order, and so is each turn of the merging passes (`SoundPass`). `StackInv`, for a caller that
  frees in the reverse order, is much stronger: its blocks lie in the slots in the order in which it
  got them, each slot's pointers are to its neighbours, and the one free block is in the slot behind
  them. So a split never meets a slot in use and no prev pointer is left behind, and what an
  interrupted caller has found is still that block.
* `KeyboardInv` says that the event a reader has copied is the one in the slot at the tail
  (`ReadsWhatIsThere`), whatever the handler has pushed since, and that the bytes on the wire are
  whole codes once the prefix flag is counted in (`WireIsFramed`). `ShiftFollows` adds what the shift
  bytes in flight say of the key.
* `TerminalInv` has three parts. `HistoryInv` gives the write index as the number of inputs entered, up
  to the last place, and relates the places to `entered` on both sides of that limit. `ScreenInv`
  says that the cursor is at least as many cells behind the prompt as the input has characters
  (`Behind`, where the rows that have moved up count as rows of the screen), so that neither
  backspace, which takes a cell from the cursor, nor a recall, which goes back to where the prompt
  ended, reaches what stands before; and that what a row shows is the one of two texts, the input
  printed on the screen at the prompt, and the input printed on that screen with everything behind the cursor
  cleared (`ShowsInput`). An input with the prompt fits on all rows but one, hence the text moves
  up by less than a screen before a recall has to be right. `LineInv` has the bounds.
* `PagingInv` says that all mappings but those of callers are identical (`AllIdentical`), that the
  calls on the stack are for the frames of the calls below them (`Nested`), and that a page is mapped
  or still to be mapped by one of these (`Covered`, `KeptMapped`). `OrderInv` is the reason why the
  recursion ends: tables are given to the regions of frames in ascending order, a nested call is for
  the first free frame (`InnermostIsLast`), and one that is nested twice never returns
  (`Endless`). `BootInv` follows the four calls of `vmm::init`, and `StopInv` draws the conclusion.
* `PitInv` bounds what the first half of a torn reading can be (`InLowWord`). `DeviceInv` relates
  each place of the driver to the command, the status and the flag of the device; `GoodInv`, for
  devices that are in time, counts the delays of a wait against the work of the device
  (`InTime`), which keeps command and flag in step and every sector written.
* `ReadInv` completes what a call has read of the clock with the clock itself (`MixedOf`): that date is
  not before the call began, for the units that are not yet read go on with the clock and those
  that were read stay, the day of the month included, since a month or a year that begins
  later in the calendar begins later with every day (`NotBefore`). While only the seconds
  change, what was read is still what the clock shows (`StillSo`). With the mutant's order, from the year down, a
  carry behind what was read takes time away. The arithmetic of the kernel and the counts of the
  calendar are both shown to be the closed forms `YearStart` and `MonthStart`, the leap year of 2000
  included, and the loops that take a timestamp apart to stop at its date's year and month because
  these go up.
* `SlotInv` says that a slot whose command failed stays issued, that only a driver that waits has a
  command under way, and what such a driver can conclude from its slot and the error bit
  (`SlotTells`).
* `FileInv` adds to the two properties of files only that the length fits the blocks and that these
  hold bytes; the work is inside a call. After `k` blocks of an overwrite, those have the input
  (`HasInput`) whatever they held before; after an append to a file that ends in its first block, that
  block still begins with what it held (`Kept`); after `k` blocks of `cat`, what was copied is the
  contents up to there (`HasRead`), which needs that bytes appended in pieces are those appended at
  once (`AppendedJoin`). The first block that `read_indirect_block` copies is the right one because it
  is the lowest that is named; the next would come from the overwritten table, hence the
  limit.
* `DiskInv` says that not only the disk but each of the disks that the writes still to make turn it into
  is `Safe`, and keeps the blocks of the one before (`Chain`); and, while nothing is cut off, that
  the last of them is `Whole`. `Good(d, R, I)` is the notion the operations are proved with: disk `d` is
  safe although its plan has taken blocks `R` and inodes `I` that no entry reaches yet.
  Each operator of the model gets a lemma that says what it adds to a plan, and each
  operation is a sequence of these. That an insertion into a full directory ends in a panic,
  and so owes nothing, is proved by counting the blocks.

### How the proofs are laid out

Each module begins with the parts of its invariant, has lemmas on the operators, one lemma for each
action (`TickKeeps`, `MapTableKeeps`, ...), one that joins them, and a temporal step for each
theorem. A refinement uses the invariant to show that each step is a step of
the abstract specification or leaves its variables alone. Loops over blocks in `Ext2` and `Ext2File` and
walks over the lists of `Heap` and `FrameList`, and the counts of the calendar, are recursive functions: that the function exists, and what holds after each turn, is shown by
the least number for which it would fail (`NatSetInduction`, `Induction`), since the library's theorem of
induction takes an operator.

The SMT encoding of tlapm 1.4.5 equates `Len(f) = n` with `DOMAIN f = 1..n` for every function
`f`, sequence or not, which is too strong: from a function over another set FALSE may follow.
All proofs were therefore checked a second time with a solver for which this is an
implication, from the domain to the length; none needs more.

### Only model-checked

* Liveness under fairness, which the provers cannot do: `QueuedGetsTheCpu`, `ZombieIsReaped`,
  `EveryInterruptIsHandled`, and `EveryCallReturns` of `AtaIrq` and `AhciPort`.
* The properties of `VfsTree`, which changes byte sequences by functions whose results would need
  induction over data.

## 6. Not modelled, and why

Boot, the descriptor tables, PCI, the device registry, CPUID and shapes on the screen: written
once or I/O only. Exceptions end in a panic. Command line applications: parsing and printing; their
commands that change directories are in `VfsTree`. The other containers and the string
functions: sequential data handling. The tests under `tests/` run at boot and were read for what
they expect. The sections and colours of the text console and the formatting of numbers: layout.
4 MiB pages: only a test asks for one. The high memory region of the frame allocator: nothing
sets it up. Doubly and triply indirect blocks and several block groups of ext2: the same code
again on more levels, which multiply the states.

A run shows what it is asked up to the first race where the code has no lock (`torn`, `raced`,
"stale"); what the kernel does after one is not modelled, since it is whatever the memory
holds.

## 7. Plan

Written: `Scheduler` with `Interrupts`, `RunQueue` and `Heap` with `HeapQueue`, `Keyboard`,
`FrameList`, `Paging`, `PitDelay` with `AtaIrq`, `AhciPort`, `Ext2`, `DirBlock`, `VfsTree`,
`Ext2File`, `Console` with `Terminal`, and `Rtc`, in the order of how much of the system rests on
them.

Proved, in the order of what rests on them: the scheduler and the kernel around it, the run queue,
the heap, the list of frames, the keyboard's ring and decoder, paging, delays and ATA, AHCI, the
disk of ext2, the terminal on its screen, the contents of files, and the clock.

Theorems to come, in this order:

1. The tree of `VfsTree` while no command changes a disk.
