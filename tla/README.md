# A verification of test_programs

This directory holds TLA+ models of the programs in this repository, the TLC
runs that check them on small instances, and TLAPS proofs of the most important
results for all instances. `PROJECT.json` is the index: components, runs, the
source lines behind every definition, findings, hazards and theorems.

To check everything by hand: `tlc -config X.cfg M` for each run listed below,
and `tlapm M_proofs.tla` for each of the `_proofs` modules.

## 1. Inventory

The repository is a collection of tools. Three of them work together: the
memory editor opens `/dev/pmem` or `/dev/kmem` and seeks, reads and writes one
byte at a time; the two drivers give access to memory by redirecting a page of
their own. The `genpipe` driver is a system of its own with real concurrency
(receiving CPUs, writers, module load and unload). The rest are sequential
programs.

| component | state | operations | interacts with | what makes it hard |
|---|---|---|---|---|
| `pmem` driver | one `paged_buf`, its page-table entry, `f_pos` of each file | open, release, llseek, read, write, mmap, ioctl, init, exit | VFS, page tables, TLBs, user memory | no lock on the window, no TLB flush, early returns that skip the restore, several loads of `f_pos` |
| `kmem` driver | the same | the same, with an address translation in front | the same, and the kernel's page tables | masked and re-extended addresses, three translation ranges, walks that go astray, null results |
| memory editor | `top_addr`, cursor, half-typed byte, screen | keys, timeout, redraw | a memory device by lseek/read/write | long key sequences, ignored results of `read` |
| `genpipe` transmit | linear buffer with two pointers, `tmp_pkt` | write | many writers, `dev_queue_xmit` | lines split over writes, full buffer, unlocked sharing |
| `genpipe` symbol search | a buffer of two halves, the addresses found | `get_table_entry` | `/proc/kallsyms` | lines cut by two reads, a buffer searched before it is filled |
| `genpipe` hooks | patched call sites of ixgbe, packet-type lists, `backup_func`, parameters | init, exit, the replacement functions | ixgbe, the kernel's receive path, a second instance | undoing half-done work, unload while CPUs receive, two instances |
| `genpipe` statistics, `count` | per-CPU counters, poll queue | count, clear, read, poll | receiving CPUs | clearing and summing moving counters, int arithmetic, a queue nobody wakes |
| `genpipe` allocation | the global `genpipe_skb` | `genpipe__netdev_alloc_skb` | CPUs that refill their rings | a result returned through a global |
| page-table walks | `paging_level` | `get_pte` of pmem, kmem and genpipe, `any_v2p` | page tables in use | other threads remap meanwhile, large and absent entries |
| `cuda_iplookup` | FIB, table of /24 entries, results | load_fib, mapping_fib, lookup on host and GPU | input file, threads | longest match by order of writing, partition of indices, lines `fscanf` cannot match |
| `crc32`, `ip_fast_checksum`, `ipsum` | registers | one pass over the input | - | carries, bit order |
| `rdtsc` | start and end counters | calibration | clock, scheduler | nanosecond roll-over |
| `player575`, `encode` | one byte | decode, encode | a connection, the terminal | one register with three meanings, end of file, failed reads and writes |
| `pci_enabler` | PCI resources | probe, remove | PCI core, other owners of the addresses | one error path for every failure |
| `membench`, `mmap`, scripts | - | timing loops, machine configuration | - | nothing a model would show |

What correctness means for each of them:

* drivers: a transfer reaches exactly the bytes asked for; whatever goes wrong,
  no byte is touched that nobody asked for; the window comes home.
* memory editor: the screen shows the device; the cursor moves by what was
  pressed; a byte goes where its digits were typed.
* genpipe transmit: each line becomes one frame, once and in order; every write
  returns; the pointers stay inside the buffer, or, where writers overlap, at
  least no character is counted twice.
* genpipe hooks: no call ever leads into freed memory; what was hooked is given
  back; loading and unloading end.
* genpipe's other parts: no packet is missing from the counters or from what
  `count` prints; no buffer goes to two CPUs; every symbol is found.
* page-table walks: they go through the levels there are and never read what is
  not a table; what is mapped is found.
* `pci_enabler`: it holds what it has obtained and gives it back.
* the calibration waits as long as it should, wherever in a second it begins.
* the algorithms: equality with a reference definition.

## 2. Modules

| module | models | notes |
|---|---|---|
| `PageWindow` | the part of `pmem.c` and `kmem.c` that is the same | state, shared steps, VFS, loader, TLBs |
| `Pmem` | read, write, llseek, open, release of `pmem.c` | extends `PageWindow`; properties, inductive invariants, refinement mapping |
| `PhysAccess` | abstract | what a physical-memory device promises; `Pmem` implements it |
| `Kmem` | the same of `kmem.c`, with the translation | extends `PageWindow` |
| `PageWalk` | `get_pte.c` of pmem, kmem and genpipe, `virt2phys.h`, `pmem_ioctl` | walks against remapping |
| `DevMmap` | `pmem_mmap`, `kmem_mmap` | mapping against vmalloc and vfree |
| `MemoryEditor` | `memory.c` | one action per key |
| `LinePipe` | abstract | what a line-oriented packet pipe promises; `GenpipeTx` implements it |
| `Subsequences` | the parsing loop of `genpipe_write` | picking the digits of a line, for both |
| `GenpipeTx` | `genpipe_write` | characters and frames, for writers that take turns |
| `GenpipePointers` | `genpipe_write` | every load and store of its pointers, for writers that overlap |
| `GenpipeHooks` | `genpipe_init`, `hook_ixgbe`, `genpipe_cleanup`, replacements | load and unload against receiving CPUs |
| `KallsymsScan` | `get_table_entry`, `file_open`, `file_read`, `file_close` | the search for symbols |
| `GenpipeStats` | the counters, `genpipe_read`, `count.c` | counting against clearing and reading |
| `GenpipeAlloc` | `genpipe__netdev_alloc_skb` | calls on several CPUs |
| `PciEnabler` | `pci_enabler.c` | a ledger of what it holds of each device |
| `FibLookup` | `cuda_iplookup.cu` | loading, mapping, lookups by threads |
| `OnesSum` | abstract | the ones-complement sum of a header; `IpChecksum` implements it |
| `IpChecksum` | `ip_fast_csum` | instruction by instruction |
| `ReflectedCrc` | abstract | the frame check sequence of IEEE 802.3; `Crc32` implements it |
| `Crc32` | `crc32.c` | bit by bit |
| `RdtscCalib` | `rdtsc.h`, both `rtdsc.h`, `main` of `ip_fast_checksum.c` | busy waits against a running clock |
| `Player575` | `encode.c`, `player575.s` | a movie over a connection |
| `PageWindow_proofs` | - | lemmas about the window, for both drivers |
| `Pmem_proofs`, `Kmem_proofs`, `GenpipeTx_proofs`, `GenpipeHooks_proofs`, `MemoryEditor_proofs` | - | theorems about one component (section 4) |
| `Kernel_proofs` | - | theorems about `GenpipeStats`, `GenpipeAlloc`, `DevMmap`, `PciEnabler`, `PageWalk`, `KallsymsScan`, `GenpipePointers` |
| `Programs_proofs` | - | theorems about the stand-alone programs of `MCPrograms` |
| `MCPmem`, `MCKmem`, `MCGenpipeTx`, `MCGenpipePointers`, `MCGenpipeHooks` | - | constants for TLC |
| `MCPrograms`, `MCKernel` | - | several components with one run: a behaviour exercises one of them |

`MCPrograms` and `MCKernel` put together components that share no state. The
first step of a behaviour chooses one, so the reachable states are those of
each component with the others at rest, and each property speaks of one of
them. The components that do interact are in one module, or are connected by
what one takes from the other: `Pmem` and `Kmem` take from `PageWalk` that a
walk finds the window's entry or does not, and in `Kmem` that a walk which goes
astray returns anything, the number of a frame beyond memory included;
`GenpipeHooks` takes from `KallsymsScan` the symbol tables it may
yield; `MemoryEditor` sees a device by seek, read and write.

A definition that begins with the comment "Faulty variant" is a wrong version
of the definition after it, with a mistake a programmer might make. No
specification uses one; each serves to see that a property notices the mistake.

### PageWindow, Pmem, Kmem

A call of `read` or `write` is split where another thread or CPU can get in
between:

| step (`pc`) | code |
|---|---|
| `clip` | `left_len`, `copy_len` from the first load of `f_pos` (kmem: the address and its translation too) |
| `save` | `get_pte(paged_buf)`, `pte_save = pte->pte` |
| `map` | `pte->pte = ...` from the second load of `f_pos` (kmem: from `phy_addr`) |
| `aim` | `paged_buf + (f_pos & 0xfff)`, the third load |
| `stage` | kmem_write only: `copy_from_user(tbuf, ...)` |
| `copy` | one byte of the copy at a time |
| `pad` | pmem_write only: `copy_from_user` failed and clears the rest of its destination |

The VFS loads the file's position on entry, refuses a negative one, and stores
that position back on success (the drivers never change `*ppos`). Positions
have a fixed width and wrap; the last page of them stands for the negative
ones, and the `Beyond` pages before it for the positions that are not negative
and still name no frame: mapped into the window, they make the copy itself
fault. A TLB may cache the translation of the window at any time and keeps it
until it is evicted. Loading the module gives a fresh, zeroed `paged_buf`.

A page-table entry is modelled by its frame. The flags in its low twelve bits
are carried over by the code and play no part in where an access goes.

In `Kmem`, an address has two scaled digits above a block of pages, for bits
60-63 and 56-59. Canonical addresses are in the lowest or the highest block.
The page tables are a constant function. On `AstrayPages` `get_pte` takes data
for a table (below a large page, or, with four levels, below an empty top-level
entry) and may return any number, that of a frame beyond memory included: the
copy then faults. A read returns -EFAULT, but the `memcpy` of a write kills its
caller (`WriteOops`), possibly half-way, if the CPU still had an older
translation for the first bytes. `virt_to_phys` is right about a page of the
text's range only if the page tables map it in one piece with the rest, which
`AccessHitsTarget` asks of that page (`TextLinear`).

### MemoryEditor

One action per key, since each is handled completely before the next. The
screen is a variable of its own, so that a forgotten redraw would show. Sixteen
columns become `Cols`, sixteen digit values `Base`, `LINES-5` rows `Rows`; the
device is a ring of `Lines` lines. A byte of the device may be unreadable, and
`read`'s result is ignored by the code.

### GenpipeTx, GenpipePointers

`genpipe_write` locks nothing, and its two models answer different questions.

`GenpipeTx` is for writers that take turns: a call begins when no other is
under way, and then its steps are the ones of the code: fit, copy, advance,
and, line by line, scan, parse, send, compact. Nothing else touches the pointers
during such a call, so a step may contain several accesses to them. Pointers are
offsets from `tx_start_ptr`. Folding to upper case changes the buffer but not
the value of any digit, and is left out: a digit's two cases have one value.
`DigitVal` gives the value the code gives a character (also to letters above F),
`HexVal` the value of the hexadecimal digits. The digits of a line are its
elements at the positions that hold a digit (`ElementsAt`); `SelectSeq` would be
the same sequence, but it is recursive and could not be reasoned about.

`GenpipePointers` is for writers that overlap. Every load and every store of
`tx_read_ptr` and `tx_write_ptr` is a step of its own: the test of the room and
the reset that follows it, the load and the store of `tx_write_ptr += count`,
each `++tx_read_ptr`, and both subtractions after the line has been moved. Where
the compiler may use a value that it has just stored instead of loading it
again, both are possible. Pointers are integers and may leave the buffer on
either side. What memory holds is left open: a writer may find a newline at any
place it looks at. A `memcpy` with a negative length, which is a huge one, kills
its caller (lines 572 and 671), as does a failed allocation.

### GenpipeHooks

Call sites and list entries hold targets: a kernel function or a replacement
in an instance's memory. Init and exit visit them one after the other, and
between any two visits the CPUs load and run targets. The loader frees a module
after a grace period, as `free_module` does; this is what makes the list hooks
safe in run `hooks_lists`, since `genpipe_cleanup` itself waits for nobody. What
the replacements count, and how init clears it, is in `GenpipeStats`.

### PageWalk, DevMmap

An entry is `none`, `absent`, a `table`, a `large` page or a `page`, which is
what the five walks tell apart; an address selects one entry at each level, its
`path`. A walk reads one entry per step, and between two steps another thread
of the process may change the lower three levels of the path. The walk goes
`astray` when it takes something for a table that is none, or one that has been
taken away; it then reads anything, or faults. `get_cr34` stores 32 of 64 bits,
and the rest of its variable is what the stack held. `WalkSound` states what
the walks guarantee, and its exceptions are what they do not: `get_pte4` and
`get_pte5` of pmem and kmem follow large and swapped-out entries, and with four
levels an empty top-level entry is followed, because the kernel's tests of a
`pgd` are constant where the `p4d` is folded into it. The walks cast a `pgd_t *`
to a `p4d_t *`, so they test nothing there at all; the walks other than
`get_pte4` may also be built for a kernel whose `pgd_none` is a real test, and
`Tested` leaves that open.

In `DevMmap` an offset is a page of the kernel's virtual address space, since
`vmalloc_to_pfn` takes it for one, also in pmem. Kernel pages may be freed and
reused between two turns of the loop; `had` remembers which frames each had.

### KallsymsScan, GenpipeStats, GenpipeAlloc

A character of `/proc/kallsyms` is its position; a line has a length and ends
with its symbol's pattern. The half buffers, the distance to the newline before
the address (`ptr-19`) and the lengths are scaled down, so that reads cut lines
everywhere, patterns included. The lower half holds anything at first: the stale
bytes may name any of the symbols, and may hold a line of the driver too, which
then makes its bounds garbage (`junk`).

An increment of a counter is a load and a store. A packet that is dropped counts
in `free_count` first and then in `rx_count`. `genpipe_init` clears the elements
one after the other when the hooks are in place, each of an element's counters
in a step of its own. A clear between the load and the store of an increment is
undone by it; `stale_rx` and `stale_free` remember the CPUs this happened to, and
`revived` those that have brought the old `rx_count` back. The properties name
these CPUs, so that a clear that does nothing, or one packet too many, shows.
`genpipe_read` adds the elements up one by one, and the sum is an int:
`DiffIsTraffic` is about the difference of two sums, which is what `count` prints.

`GenpipeAlloc` has one step for each access to the global. Each buffer has a
number, so that the same buffer in two hands shows.

### PciEnabler

The PCI core is modelled by what its calls do: an enable count that may become
negative and switches the device off when it comes down to zero, and regions
that are released without asking whose they are. Probes of several devices
interleave, each call of a probe may fail, and another driver may claim the
addresses. `PciLedger` keeps the books and makes the error path's mistakes
explicit: after a failed `pci_enable_device` the count is one too low, and the
driver may have released another owner's addresses.

### The programs

`FibLookup` scales addresses to four bits, three of them the table's index, and
keeps the file's order of lines, malformed ones included. A length is stored in
an unsigned char, so that a negative one, which the test `subnet > 24` lets
pass, becomes a large one (`ByteSize`). `load_fib` does not count the lines: with
more routes than `fib` has room for the program overruns it, and the model ends
there (`fibPc = "overrun"`). `IpChecksum` has a
step for each instruction that touches the register or the carry flag, for any
words. `Crc32` has the real width and polynomial. `RdtscCalib` lets the clock
run on between any two steps of the thread. `Player575` keeps the register that
is the result of `read`, the number of the next system call and its file
descriptor. Reads and writes may fail at any time; the screen records a failed
write as `Gone`, since the player does not look at its result.

## 3. Runs

| run | instance | shows |
|---|---|---|
| `pmem_serial` | 2 threads on one file, 3 frames of 2 bytes, 2 values, counts up to 3 | exact access, window home, refinement of `PhysAccess`, after any failed copies |
| `pmem_overlap` | 2 threads with own files, overlapping, TLBs, pages of 1 byte | no access outside the driver's frame and those that some file was positioned on |
| `pmem_race` | 2 overlapping threads with own files | *violation*: access to a wrong page |
| `kmem` | 12 pages, 6 frames of 2 bytes, counts up to 2, two callers in turn, TLBs, `get_pte` may fail, an unmapped page and one whose walk goes astray | exact access for canonical addresses in all ranges where `get_pte` and the TLB are right, window home, writes that are all or nothing unless they die in the `memcpy` |
| `memory_editor` | 2 columns, 3 rows, 8 lines, base 2, 3 digits, 1 unreadable byte | screen, cursor, paging |
| `genpipe_tx` | 1 writer, buffer of 5, chunks up to 3, 7 characters, frames of 1 byte | lines become frames, pointers |
| `genpipe_overlap` | 2 writers that overlap, `tx_end_ptr` 1, counts up to 1, 3 calls | the write pointer is never ahead of what was stored, termination |
| `hooks_lists` | 1 instance, 2 CPUs, 4 + 2 list entries, 2 loads, 5 symbol tables | nothing dangles, bypass, restoration |
| `hooks_sites` | 1 instance, level 2, 4 call sites, parameter changes | termination |
| `hooks_rmmod` | 1 instance, default parameters | *violation*: unload leaves patched calls behind |
| `programs` | room for 2 routes, 3 GPU threads, 5 addresses; words of 16 values, up to 7 of them; 5 characters of input for crc32; 4 of a movie with 4 different ones; seconds of 20 units | each program implements its definition, nothing of the movie is lost but in a failed write, the player and the calibration end |
| `kernel` | 2 CPUs with 2 packets each, ints of 3 values; 4 allocations; 4 lines of symbols; five and four levels with 2 changes; 3 kernel pages, 4 of the process; 2 devices probed twice | counters, freed against received packets, what `count` prints, buffers, symbols, walks, mmap, the books of pci_enabler |

Why the bounds are enough. Two threads suffice for every interference: the
window is one variable, and a third thread can only do to it what a second
does. Three frames are the driver's own, the one asked for and a wrong one.
Pages of two bytes have an inside and an edge; counts up to three cross it.
`pmem_overlap` uses pages of one byte, which keeps two overlapping calls with
TLBs within reach; the offset inside a page is covered by the other runs and by
the proofs, which hold for all sizes. Twelve virtual pages give each of the
three translation ranges and each block a page. In the editor a device longer
than two screens makes wrapping visible, and three digits are a byte and a
half. A transmit buffer of five with chunks of three can be full, exactly full
and overfull, and hold two lines at once. Where writers overlap, three calls of two
writers are enough for each kind of harm: lost and revived values of both
pointers, pointers before the buffer and behind it. Two loads of a module show what the
first leaves for the second.

Three GPU threads do not divide five addresses evenly, and two routes may
be nested, equal, or refused. A header of up to seven words is below, at and
above the four that `ip_fast_csum` treats differently; `Half = 4` makes carries
frequent. Five characters are two bytes and half of a third. An int of three
values wraps around with four packets. Four lines over half buffers of eight
characters are cut at every place. Two changes during a walk can take a table
away and put it back. Three kernel pages wrap around with an area of four.

Deadlock checking is off where a system may stop: the editor exits, writers run
out of the bounded input or die, a crashed or fully loaded machine rests, and
the programs end.

Fairness is assumed in four modules. In `GenpipePointers`, a thread inside
`genpipe_write` keeps running: the code has no sleep except page faults in
`copy_from_user`. In `GenpipeHooks`, insmod and rmmod keep running, and a CPU
finishes the packet it has begun (softirq context). In `Player575` the player is
scheduled whenever it can run, and `read` does not fail for ever: strong fairness
of its successful outcomes says that among infinitely many reads that could
return a character, or the end of the movie, one does. The code needs this: while
`read` fails (EBADF, EIO) the player stays in its loop. Nothing is assumed about
writes, and nobody is assumed to send. In `RdtscCalib` time passes and the thread
that waits is scheduled, and never stays off the CPU for longer than `Gap`, less
than half a second: a wait that reads `tv_nsec` alone cannot tell two roll-overs
from none. Nobody is assumed to call, to receive, to load or to unload.
`WriteReturns` promises the end of a write only once no more calls begin: with
others calling for ever, each call may bring back the pointer behind a line that
was sent already.

Symmetry is used only in runs without temporal properties other than action
properties and step refinement; the permuted sets are threads with equal rights
(and in `pmem_overlap` pairs of a thread and its file).

### Findings

Two runs end in a violation, and `PROJECT.json` quotes what they contradict:
the pmem window is shared without a lock, so that overlapping calls reach each
other's pages (`pmem_race`), and unloading genpipe with its default parameters
leaves ixgbe calling freed memory (`hooks_rmmod`).

The models contain further places where the code does not do what the
repository says. No run is spent on them; the instance named shows each of
them, and the passing runs state what still holds.

| place | what the code does | to see it |
|---|---|---|
| `pmem.c:137` | no TLB flush: a translation cached during one call serves the next one | `AccessHitsTarget` with `TlbCaches = TRUE` and one thread |
| `kmem.c:135` | `get_pte` walks through a large page and the transfer goes to an arbitrary frame | `AccessHitsTarget` without `v \notin AstrayPages` |
| `memory.c:193-201` | "skip a byte" goes back to the beginning of the row in the last cell of the screen | the action of the skip key there |
| `memory.c:116, 127, 149, 154` | scrolling and paging keep a half-typed byte and change its address | `n = 1 /\ n' = 1` does not imply `Cursor' = Cursor` |
| `genpipe.c:573` | a write that does not fit throws the pending half line away | `LinePipe` without `Lose` |
| `genpipe.c:622` | letters above F count as digits and spill over | `LinesBecomeFrames` with such a letter in `Chars` and `DigitVal` |
| `genpipe.c:571-591` | two writers that fit alone overrun the buffer together; behind its end nothing is cut any more | `tx_write_ptr <= TxCap` in run `genpipe_overlap` |
| `genpipe.c:591, 671-673` | interleaved updates leave a pointer before the buffer, or make the length of a `memcpy` negative | `tx_read_ptr >= 0`, or `txPc[w] # "dead"` without `SendOops`, there |
| `genpipe.c:818` | a second instance recognises no handler and hooks none | `Bypassed` with two instances |
| `pmem.c:98` | mmap takes a physical offset for a kernel virtual address and maps other frames than the ones named | `DevMmap` |
| `pmem.c:201-216` | the ioctl logs "PA" and returns the address of the page-table entry | `WalkStart`, `Pte4` |
| `get_pte.c:91-117` | the walks follow large and swapped-out entries, and with four levels an empty top-level one | `WalkSound` without `Misleading` |
| `virt2phys.h:80` | `any_v2p` returns an uninitialised address when nothing is mapped | the answer `junk` in `PageWalk` |
| `genpipe.c:195-203` | only the first `[ixgbe]` line of each window is looked at: `driver_bottom` may miss the last one | `driver_bottom = Max(LinesOf("tag"))` in `SymbolsFound` |
| `genpipe.c:301` | overlapping allocations may return one buffer twice | `SharedOnlyByOverlap` without `alone` |
| `genpipe.c:704` | poll waits for pointers that nothing moves | - |
| `genpipe.c:753` | the reference that `dev_get_by_name` took is never returned | - |
| `genpipe.c:839` | a clear between the load and the store of an increment is undone by it | `CountsSinceClear` without `revived` |
| `genpipe.c:323, 839-843` | a packet counts as freed before it counts as received, and init clears `rx_count` before `free_count` | `free_count[c] <= rx_count[c]` |
| `pci_enabler.c:95` | the error path releases and disables what was never obtained; mappings are never undone | `PciLedger` without `refused` and `robbed` |
| `cuda_iplookup.cu:49` | a line `fscanf` cannot match is read again for ever | `fibPc = "spin"` is reached |
| `cuda_iplookup.cu:52` | more routes than `fib` has room for overrun it | `fibPc = "overrun"` is reached |
| `cuda_iplookup.cu:50` | a negative length passes the test and is stored as a large one | a route in `fib` with `subnet > TableBits` |
| `cuda_iplookup.cu:73` | routes of length 0 and 1 are loaded and never mapped | `Mapped` without its first condition |
| `ip_fast_checksum.c:120` | main passes the size of its buffer in bytes where the header's length in words is wanted | - |
| `genpipe.c:829, 883` | with several entries in `ptype_all` unload gives each the handler of the last one | `Restored` without its `Last` |
| `player575.s:38` | a write that fails loses its character | `NothingLost` without `Gone` |
| `genpipe.c:870, 883` | `hook_dev_add_pack` set after loading makes unload install a null handler | `NoDanglingCall` with `ParamWrites = TRUE` and `Level = 0` |

## 4. Proofs

Each theorem is proved from the named assumptions on the constants alone, for
all their values: any number of threads, CPUs, devices, pages or packets and
any word, page or screen size. Two of the assumptions, `PowerAssumption` and
`WalkPowers`, are facts about powers of two that the provers do not know; they
assume nothing about the program, and TLC evaluates them. `WritersAssumption`
says that there are finitely many writers, at least one. A theorem that needs
more names it as its hypothesis.

| theorem | statement |
|---|---|
| `Pmem_proofs!TypeCorrect` | `Spec => []TypeOK` |
| `Pmem_proofs!Confinement` | `Spec => []AccessConfined` |
| `Pmem_proofs!Damage` | `Spec => DamageConfined` |
| `Pmem_proofs!AccessCorrect` | `Undisturbed` gives `Spec => []AccessHitsTarget` |
| `Pmem_proofs!WindowRestored` | `Undisturbed` gives `Spec => []WindowHome` |
| `Pmem_proofs!Refinement` | `Undisturbed` gives `Spec => PhysAccessSpec` |
| `Kmem_proofs!TypeCorrect` | `Spec => []TypeOK` |
| `Kmem_proofs!WriteAtomic` | `Spec => WriteAllOrNothing` |
| `Kmem_proofs!AccessCorrect` | `~Overlap` gives `Spec => []AccessHitsTarget` |
| `Kmem_proofs!WindowRestored` | `~Overlap` gives `Spec => []WindowHome` |
| `MemoryEditor_proofs!TypeCorrect` | `Spec => []TypeOK` |
| `MemoryEditor_proofs!ScreenCorrect` | `Spec => []ScreenFresh` |
| `MemoryEditor_proofs!MotionCorrect` | `Spec => LineMotion` |
| `MemoryEditor_proofs!PagesOverlap` | `Rows >= 2` gives `Spec => NoLineSkipped` |
| `GenpipeTx_proofs!TypeCorrect` | `Spec => []TypeOK` |
| `GenpipeTx_proofs!PointersCorrect` | `Spec => []PointersInBuffer` |
| `GenpipeTx_proofs!LinesSent` | `DigitsAreHex` gives `Spec /\ []DiesAlone => LinesBecomeFrames` |
| `GenpipeTx_proofs!LinesSentAlone` | `DigitsAreHex` and one writer give `Spec => LinesBecomeFrames` |
| `GenpipeHooks_proofs!TypeCorrect` | `Spec => []TypeOK` |
| `GenpipeHooks_proofs!NothingDangles` | `Alone` gives `Spec => []NoDanglingCall` |
| `GenpipeHooks_proofs!StackBypassed` | `Alone` gives `Spec => []Bypassed` |
| `GenpipeHooks_proofs!ListsComeBack` | `Alone` gives `Spec => []Restored` |
| `Kernel_proofs!MmapCorrect` | `MmapSpec => []AreaMapped` |
| `Kernel_proofs!NoPacketLost` | `StatSpec => []CountsSinceClear` |
| `Kernel_proofs!FreesCounted` | `StatSpec => []FreedWereReceived` |
| `Kernel_proofs!OverrunIsBounded` | `TxSpec => []OverrunBounded` |
| `Kernel_proofs!CountPrintsTraffic` | `StatSpec => []DiffIsTraffic` |
| `Kernel_proofs!KallsymsScanned` | `ScanSpec => []SymbolsFound` |
| `Kernel_proofs!BuffersNotShared` | `AllocSpec => []SharedOnlyByOverlap` |
| `Kernel_proofs!LedgerBalanced` | `PciSpec => []PciLedger` |
| `Kernel_proofs!WalksCorrect` | `WalkSpec => []WalkSound` |
| `Programs_proofs!LongestMatchTable` | `FibSpec => [](FibTypeOK /\ TableIsLongestMatch)` |
| `Programs_proofs!EveryLookupDone` | `FibSpec => []LookupsComplete` |
| `Programs_proofs!CarryNeverLost` | `CsumSpec => [](CsumTypeOK /\ CarryFits)` |
| `Programs_proofs!ChecksumCorrect` | `CsumSpec => ChecksumSpec` |
| `Programs_proofs!FcsCorrect` | `CrcSpec => PrintsFcs` |
| `Programs_proofs!MovieIntact` | `PlayerSpec => [](PlayerTypeOK /\ NothingLost)` |
| `Programs_proofs!WaitExact` | `CalSpec => [](CalTypeOK /\ WaitIsExact)` |
| `Programs_proofs!TypeCorrect` | `Spec => []TypeOK`, of all the programs together |

`Undisturbed` says that calls do not overlap, no TLB caches the window and
`get_pte` finds the entry. The findings above show that the first two
conditions are needed. Without them `Confinement` and `Damage` still hold. A
thread that shares its file with another may run past `paged_buf`, because the
length and the start of its copy come from different loads of `f_pos`; `Exposed`
adds the page behind for such a thread, and for no other (`OwnFile`).

*Confinement.* `AccessConfined` speaks of the access at hand, which depends on
the entry, on what TLBs have cached of it, on every thread's saved copy and on
every position. `ConfinedInv` says of each of them that it is the driver's own
page or one that some file was positioned on, and that lengths are at most a
page (so that a copy that overshoots ends in the next page). It is inductive:
each step only moves such a page from one place to another. `OwnFileInv` says
that nobody else moves the position of a file of one's own, so that start and
length together stay in the page. `Damage` follows,
since memory changes only through an access (or when loading clears `Home`).

*Exact access.* `SerialInv` is what a call knows at each step while it is
alone: the position has not moved since entry, the length fits in the page, the
entry is the page of the position, the offset is that of the position. The
arithmetic is in the lemmas `DivMod`, `DivUnique`, `PositionPage` and
`AddressPage`. That a failed copy leaves the window on a foreign page does no
harm to later accesses, because each call maps its own page before it copies;
`HomeInv`, the part about `Home`, therefore holds only before the first fault.

*Refinement.* The mapping hides a request until its length is clipped and keeps
memory and transferred bytes as they are. `RefinementNext` maps each action to
a step of `PhysAccess` or to a stutter.

*kmem.* `StagedInv` holds however calls overlap: before the copying step nothing
has been transferred, and no call leaves that step before its length is reached.
`WriteAllOrNothing` follows for every way a call may end but the one that it
excepts, death in the `memcpy`. `SerialInv` follows an
address on its way when calls do not overlap: `AimInv` says that a position is
the address asked for without its top digit, `CallInv` that the frame found is
the one the page tables give that address (`Masked` and `SignExtended` cancel
on canonical addresses, and the text offset agrees with the tables on the pages
that the property speaks of, `TextLinear`), that the length fits into the page, and that the entry
is that frame once it is written. No assumption about TLBs or failing walks is
made: the property itself excludes a transfer whose own walk failed or whose
own CPU caches an older entry, and the proof shows that nothing else matters.

*Editor.* `EditorInv` adds to type and screen that a half-typed byte is one
digit. Most of the work is in the arithmetic of the ring: `AddressOf` is
injective on the cells of a screen that is not larger than the device, so
storing a byte makes no other cell stale. `PagesOverlap` needs two rows, since
with one row scrolling replaces the whole screen by the next line.

*Transmit.* `OverrunBounded` speaks of the pointer alone and is not inductive.
`OverrunInv` adds that a value on its way back to the pointer, loaded by one
writer before others stored theirs, is no larger than what has been stored, and
that what is taken off after a line is positive: `genpipe_write` moves nothing
when it is not (line 670). What is stored only grows, so neither lost increments
nor stale stores can break it.
In `GenpipeTx`, `SerialInv` says where the end of a line lies between the pointers, and that
the read pointer is at the start whenever a chunk is tested for room.

*Lines.* `LinesSent` shows the refinement of `LinePipe`. Its mapping says that a
line stays pending until it is sent although parsing moves the read pointer.
`LineInv` says that the line found is the first one, that between calls no
complete line is left in the buffer, and that what lies in `tmp_pkt` when it is
sent is the line decoded. The last part is `ParseDecodes`: the digits the code
takes are those of the line (`ElementsAt`, with `NthExists`), each pair makes a
byte (`PacketByteOf`), and a line too long is cut at the same byte. Advancing
the write pointer accepts characters, sending emits a line, a write that does
not fit loses an incomplete one, and every other step stutters. `DigitsAreHex`
says that no letter above F is written, `DiesAlone` that no writer goes on when
another has died in `netdev_alloc_skb`: it would find the end of the dead one's
line behind the moved read pointer, and send an empty frame in its place.

*Hooks.* `Alone` says that there is one instance, that it does not patch ixgbe
(`hook_driver` 0) and that nobody writes its parameter; run `hooks_rmmod` and
the findings show what happens otherwise. `BaseInv` and `AllInv` say how far
each walk over a list has come, in terms of `stage` and `at`: entries behind
the walk are replaced, or given back, and the saved handler is the kernel's.
`GraceInv` says that a CPU that has loaded a replacement is waited for.
`genpipe_init` overwrites its one saved handler at every entry of `ptype_all`, and
`genpipe_cleanup` puts it into all of them. `LastInv` follows this: the list is
as the kernel had it, or holds the last entry's handler from an earlier
unloading, or a walk is at work, which has saved the handler of the entry behind
it. `ListsComeBack` rests on it. `TypeCorrect` holds for any instances and
parameters.

*Walks.* `WalkTrack` says that all entries above the present level were tables
while nothing changed, and that the walk is off the path only if it followed a
misleading entry, an untested empty top-level entry among them, or one that was
changed under it. `paging_level` is right
although half of the variable is junk, because bit 12 lies in the other half;
this is arithmetic on `2^LA57` and `2^HalfReg`.

*Routing table.* `TableInv` says of each entry which routes have reached it at
the present turn of the three loops. That an entry lies between `ip_start >> 8`
and `ip_end >> 8` exactly when the prefix matches is shown by division by powers
of two; that the longest match is kept, from the order of the loops.
`GpuInv` says which part of its share each thread has done; the shares cover all
positions, by a least position that none would cover.

*Movie, calibration.* `PlayerInv` is `NothingLost` with types; decoding undoes
encoding character by character, and a failed write replaces the character that
was pending by `Gone` (`Lossy`). `CalInv` bounds the time since the last look by
the gaps between steps, so that a roll-over is seen before a second one.

*Frame check sequence.* The mapping turns the register upside down. `CrcInv`
says that what is left of a byte is what was not shifted out. Registers are sets
of bits, so shifting, adding and reversing are shown bit by bit, for every width
that is a number of bytes and every generator.

Where an argument goes by induction on numbers, the proof takes a least
counterexample (`LeastNumber`, from the well-foundedness of `<`), since the
library's induction theorems cannot be instantiated by the provers. That the
recursive functions which sum counters and lengths of lines exist is shown in the
same way (`PrefixSumsExist`): a shortest array without partial sums could be
shortened by its last element.

*mmap.* `MmapInv` ties the loop's three variables to the number of pages mapped
so far and says of each of those pages what `AreaMapped` says of all. `pos`
wraps around at every turn where the property wraps around once; `ModSucc`
shows that this is the same.

*Counters.* `CountsSinceClear` and `FreedWereReceived` are not inductive: the next
store writes what was loaded earlier. `Counter` says of a loaded `rx_count` what
the property says of the element, or, where the clear fell into the increment,
what it was before it; `Frees` does the same for `free_count` and compares the
two at each place of a packet's way. `before` is zero until the element is
cleared. It is cleared once, which is why a stale value brings back all earlier
packets.

*Sums of the counters.* `DiffInv` says of a finished sum that it is a number
between the totals at its start and at its end, wrapped around
(`SumBetween`). `SumSoFar` makes this inductive while a sum is under way: the
elements already added have not fallen below what was added, and adding the rest
as they are now would reach the total at the start. Both need that a store only
increases its element (`LoadedAhead`), and a clear
of a counter, or the store of a stale value, after the first read has begun is
what `disturbed` records. `ModAdd` and `ModSub` carry the bounds through the
wrapped sums and their difference.

*Symbols.* `ScanInv` says that a symbol is not found as long as no line of it
was read to its end, and is then the first of them; of the driver's bounds, that
they are addresses of its lines unless the stale half named one. `LineInBuffer` is the reason
why half of the buffer is kept: the read that reaches a line's end has all of
the line's pattern, and the newline before it, in the buffer.

*Allocation.* `AloneCalls` says that a call that has been alone so far is the
only one inside, and that the global holds its buffer after the store;
`OwnBuffers` that no two CPUs were given one number.

*Books.* `Account` extends `PciLedger` to probes that are under way. `GivenBack`
is the one lemma about the error path and remove: it settles an account whether
the device was in use or its probe failed before.

*Checksum.* A carry is set only by an addition that wrapped around, which leaves
the register below its maximum, so adding the carry cannot wrap around again:
`CarryFits`. With it, register plus carry is the ones-complement sum at every
instruction, and each instruction is a step of `OnesSum` or a stutter.

Only model-checked:

* `WriteReturns`, `InsmodRmmodEnd`, `MovieShown`, `CalibrationEnds`: the prover
  has no reasoning about fairness and ENABLED.
* The two violations, which are counterexamples.

## 5. Plan

The components come first, in the order of what depends on them: the memory
drivers, the editor, genpipe, then the programs. All of these are modelled. What
is worth adding is `GenpipeHooks` with two instances, stating what is restored in
which order of unloading, and its proof.

## 6. Not modelled

* `membench` and `mmap`: timing loops whose only result is a measured time.
* `ipsum`: one literal packet, one result. (It folds the carries once, which is
  enough for its ten words.)
* The scripts: they configure a machine.
* `genpipe_poll`: it changes nothing and looks at pointers that nothing moves.
* Of the modelled parts: curses layout and terminal resizing, log output,
  page-table flags, changes of the kernel's page tables while kmem uses a
  translation, the value that receive functions return after freeing the
  packet, and allocation, timing and printing in the benchmarks.
