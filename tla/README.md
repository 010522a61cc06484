# Formal models of BlackMatrixOS

TLA+ modules for the C kernel of this repository (`kernel/`, `mm/`, `drivers/`,
`fs/`, `shell/`, `net/`, `gui/`), TLC configurations that check them on small
instances, and machine-checked proofs about the heap, the frame allocator and
paging, the scheduler, the keyboard, the file system, the network stack, the
windows, and of the shell the script engine, the files it executes, its `at` jobs
and the editor.  Line numbers below are those of the source files at this commit.

## 1. The system

BlackMatrixOS (CosmosOS in the source) is a single-address-space i386 kernel.
`kernel/main.c` brings up the devices, the frame allocator, the heap, the
scheduler, the file system, the network stack and the windowing code and then
runs the shell for ever, on the boot stack, with interrupts enabled.  Two
things run concurrently with it: the keyboard and the timer interrupt handlers.
`process.c` provides cooperative processes; nothing in the shipped kernel
creates one yet, and the timer does not call `schedule()`.

| Part | State | Operations | Talks to | Hard because | Correct when |
|---|---|---|---|---|---|
| Heap, `mm/memory.c:183-287` | the doubly linked list of block headers in 4..8 MB, `heap_used` | `kmalloc`, `kmalloc_aligned`, `kmalloc_phys`, `krealloc`, `kfree` | everyone who allocates | order of releases, splits at the boundary, alignment inside a block | blocks tile the arena, the list is linked both ways, coalesced, and grants stay disjoint |
| Frame allocator, `mm/memory.c:9-100` | bitmap, total and used counts | `pmm_init`, `pmm_init_from_mmap`, `pmm_alloc_frame`, `pmm_free_frame` | paging | word-wise search, partial last word, a masked word cut to a byte | what is handed out exists, the free count is what can be had and what the search never reaches |
| Paging, `mm/memory.c:102-181` | page directory and tables | `paging_init`, `map`, `unmap`, `get_physical`, `switch_directory` | frame allocator, CPU | 4 tables written over one allocated frame, stale translations | a page is where it was put last |
| Processes, `kernel/process.c` | `process_table`, `current_process`, `next_pid`, `process_count` | create, exit, yield, sleep, wake, kill, `schedule` | heap (stacks), timer, `context_switch` | slots are used again, PIDs outlive processes, failing allocation | one process runs, the saved registers and the stack of each are its own, equals take turns |
| Context switch, `kernel/context.asm` | the register file, the saved context | `context_switch` | processes | DS is saved in the place of CS, which `iret` loads | a process resumes where it left off |
| Keyboard, `drivers/keyboard.c` | a 256-slot ring with `head`, `tail`, `count`, modifier flags | interrupt handler, `keyboard_getchar`, `keyboard_read_nonblocking` | shell, editor, games, GUI | handler and reader share `count` without protection | what is read was typed, in order; no modifier sticks |
| Timer, PIC, IDT | tick count, handler table, masks | tick, dispatch, end of interrupt | keyboard, processes | order of dispatch and end of interrupt | every interrupt is acknowledged once |
| File system, `fs/fs.c` | inode pool (a tree), descriptor table, block pool, working directory | open, close, read, write, seek, mkdir, unlink, rmdir, chdir, opendir | shell | removal while open, pools running out half way, block 0 | a file holds what was written to it, blocks belong to one file, counts of references are right |
| Network, `net/net.c` | ARP cache, TCP sockets | `net_process_packet`, `arp_resolve`, `tcp_connect/listen/close/send/recv` | a NIC (none is attached) | shadowed ports, stale handles, full cache | a connection's peer does not change, the newest address wins |
| Windows, `gui/gui.c` | window table, focus, widgets | create, close, focus, show, add widgets, run | heap, keyboard | slots are used again, double close | counts agree, widgets are their window's |
| Console, `drivers/vga.c`, `shell.c:2670-2711` | screen, cursor, the line being typed | print, scroll, clear, read a line, capture for `\|` and `>` | keyboard, file system | output is captured off the screen, which may have moved | the screen shows the line, a capture holds the command's output |
| Shell, `shell/shell.c` | history, environment, `at` jobs, block stack of the script engine | `shell_run`, `shell_handle_line`, ~200 commands | everything above | nested blocks, fixed-size tables, jobs that make jobs | blocks match, names keep their values, jobs run once and on time |
| Editor and games, in `shell/shell.c` | buffer and lines; boards, snake, word | `cmd_edit`, `cmd_game_2048`, `cmd_tictactoe`, `cmd_snake`, `cmd_hangman` | keyboard, console, file system | index arithmetic at the ends, state left by the last game | edits are what was typed, the games keep their rules |
| Working directory, `fs.c:134-158`, 436-460, 510-515 | the path as a text | chdir, relative paths, directory streams | inode tree, `tree` | the text is copied without its NUL, what it names may be removed | a relative path begins where it was changed to, `tree` prints each entry once |
| Executed files, `shell.c:2061-2100`, 2745-2800 | files being executed, one in another | `source`, `shell_handle_line` | file system, engine | files source and overwrite each other | the shell comes back |
| Line parsers, `shell.c:2745-3080` | none | cut into segments, commands, pipes, redirections, words | engine, every command | four loops with a rule each for quotes | marks in quotes are words |
| Text commands, ciphers, calculators, in `shell/shell.c` | line buffers, rings, tables | `grep` .. `shuf`, `rot13` .. `base64`, `sci`, `stats` and others | file system | last place of a buffer, errors in nested expressions, fixed point that wraps | sorted lines are the same lines, what is encoded comes back, values obey precedence |
| Library, `lib/*.c` | none | strings, memory, numbers, formatted text, 64-bit division | all of the kernel | overlaps, least numbers, strings without room | what the C library's functions do |
| Boot | descriptor tables | - | - | - | - |

The shell is the only caller of most of the rest.  `shell_run` reads a line off
the keyboard, before which it runs the `at` jobs that are due; the line is
expanded, split at semicolons and given, segment by segment, to the script
engine, which executes it, skips it, or opens and closes a block.  A command
that is executed may take the keyboard until it returns: the editor, a game, or
the windowing loop.

## 2. Modules

| Module | Models | Checked by |
|---|---|---|
| `Allocator` | what a caller of the heap may rely on (abstract) | `Heap_small` |
| `Heap` | `mm/memory.c` heap, pointer by pointer | `Heap_small` |
| `HeapProofs` | TLAPS proofs about `Heap` | - |
| `Frames`, `Paging`, `MCPaging` | `mm/memory.c` frame allocator, and paging on top of it | `Paging_maps` |
| `PagingProofs` | TLAPS proofs about `Frames` and `Paging` | - |
| `Scheduler`, `MCScheduler` | `kernel/process.c`, and what `kernel/context.asm` saves and loads | `Scheduler_any`, `Scheduler_resume` |
| `SchedulerProofs` | TLAPS proofs about `Scheduler` | - |
| `Keyboard` | `drivers/keyboard.c` | `Keyboard_race`, `Keyboard_lost` |
| `RamFS` | `fs/fs.c` | `RamFS_tree`, `RamFS_data`, `RamFS_short` |
| `Cwd`, `MCCwd` | the working directory, directory streams and `tree`, on top of `RamFS` | `RamFS_tree` |
| `FileCommands`, `MCRamFS` | `cp` as the calls that it makes, on top of `RamFS` | `RamFS_data`, `RamFS_short` |
| `RamFSProofs` | TLAPS proofs about `RamFS` | - |
| `FileProofs` | TLAPS proofs about `FileCommands` and `Cwd` | - |
| `Arp`, `Tcp`, `Net`, `MCNet` | `net/net.c`: cache, sockets, and the packets that join them | `Net_any` |
| `NetProofs` | TLAPS proofs about `Net` | - |
| `Console` | `drivers/vga.c`, the line reader and captures | `Shell_any` |
| `DriverProofs` | TLAPS proofs about `Keyboard` and `Console` | - |
| `Engine` | the block stack of the script engine | `Shell_any` |
| `Environment`, `AtJobs` | names and their expansion; the jobs of `at` | `Shell_any` |
| `Editor`, `MCEditor` | `cmd_edit` | `Shell_any`, `Editor_replace` |
| `Tiles`, `TicTacToe`, `Snake`, `Hangman` | the games | `Shell_any` |
| `Windows` | `gui/gui.c` | `Shell_any` |
| `Words` | how a line is cut into segments, commands and words | `Shell_any` |
| `Sources` | files that are executed, in one another | `Shell_any` |
| `ProgramProofs` | TLAPS proofs about `Windows`, `Engine`, `AtJobs`, `Sources`, `Editor`, `Environment`, `Hangman` and `Snake` | - |
| `Library` | `lib/string.c`, `lib/stdio.c`, `lib/div64.c` | `Shell_any` |
| `Filters`, `Ciphers`, `Numbers` | the commands that compute: of files, of texts, of numbers | `Shell_any` |
| `Commands` | what those commands, the library and `Words` are for: reference definitions | `Shell_any` |
| `Shell`, `MCShell` | who has the keyboard: the composition of all rows from `Console` on, with every kind of command | `Shell_any` |

Each module keeps deliberately wrong variants of a few definitions next to the
right ones, marked "Mutant".  They are used by nothing: replacing the definition
by its variant must make TLC find the property violated, which shows that the
property can tell right code from wrong.

### Heap

`heap` maps the address of a header to its fields, so that the domain of `heap`
is the set of headers in memory.  One call is in progress at a time (`pc`), as
in the kernel, and each turn of the search loop (`ScanNext`, `ScanTake`,
`ScanFail`) and of the two merging loops (`MergeNext`, `MergePrev` and their
`...Done`) is a step.  `kmalloc`, `kmalloc_aligned` and the moving case of
`krealloc` share `Search`; `kfree` and the end of `krealloc` share `Release`.
`held` is what callers have: it is not in the code, and is what `Owned` relates
the list to.  A request is a member of `Requests`; sizes are computed modulo
`Word` as `size_t` is.  `RequestsFit` assumes that no caller asks for sizes near
2^32, where `ALIGN_UP` wraps to 0: the kernel's callers ask for its structures
and buffers.  Callers release what they hold and nothing else; pointers from
`kmalloc_aligned` are released by their raw pointer, which the code saves for
that purpose.

`Allocator` says the same without a list: extents that are out do not overlap,
are at most `Slack` bytes longer than asked, and a request is refused only when
no gap between them would hold it.  The refinement mapping reads the grants off
the blocks that are held.

### Frames and Paging

`bitmap` is the set of frames that are marked.  The search goes by words of
`WordBits` frames up to `total_frames`, as in the code, so that an incomplete
last word, and usable frames behind a hole in a memory map, are never reached.
`frame_test` returns a masked word as an 8-bit `bool`, and sees only the first
`BoolBits` frames of each word (8 of 32 in the code, 1 of 2 in the run).
`usable`, `held` and `promise` are not in the code: the frames that are memory,
those callers have, and where each page was last put.

The free count is total less used, and the search does not reach all of what it
counts.  `FreeCount` says what it is made of: the frames that the search can find,
and the usable ones that it never looks at.  It is at most both together, and
exactly that when the first 4 MB are memory; in memory of one piece at most an
incomplete word cannot be had, but behind a hole it is every frame that
`total_frames` falls short of, so that a caller may be promised frames and get
none.  What both ways of setting up reserve is the first 4 MB (`LowMemory`).  The
kernel heap lies in the 4 MB behind them (`HEAP_START`, memory.h:17) and is memory
like any other to the allocator: the first frame handed out is the heap's first.
`HeldExists` speaks of the first 4 MB only.

A frame that serves as directory or table is a function in `mem`, so that a
table in a frame that is handed out again is overwritten by what its new owner
does.  `paging_init` writes four tables from the address of one allocated frame
on, and `Lasts` excludes the pages of the other three once their frame was
handed out.  `tlb` is what the processor may have kept of translations it used.

### Scheduler

The fields of `process_table` are functions of the slot.  A context is the thread
whose registers it has and the code segment that `context_switch` will load for
it, and `cpu` is the thread that is really executing.  `process_create` writes the
kernel's code segment into a new context.  `context_switch` writes DS where CS
belongs (context.asm:33-35), so that a thread that was `Saved` has the data segment
there, and the `iret` that is to resume it (line 74, `Iret`) raises a general
protection fault; no handler is registered for it, and `isr_handler` stops the
system with interrupts off (`Halted`).  A process can so be entered once and never
resumed: the first `schedule()` that finds one which has run before, the idle
process included, is the last.  The stack pointer that is saved has the return
address still on it, and `iret` would leave two words of it behind; as no saved
context gets past its code segment, neither is in the model.

The processor may also be lost to a context that was never set up (`Nowhere`):
`process_create` leaves a slot READY when the stack cannot be allocated.  The
kernel heap is abstracted to the set of stacks that are allocated; an allocation
may fail at any time.

`orderly` remembers that no process killed itself or the idle process, and
`single` that none was killed after it was gone.  What the code keeps whatever
callers do (one process marked RUNNING, `HighestReady`, `TurnsInOrder`, the first
half of `StaysOff`, `SleepersRun`) mentions neither; the rest does, because the
`kill` command passes on any number it is given.

### Keyboard

The interrupt handler is atomic, because interrupt gates clear IF.  Readers are
not: in the repository's build (`drivers/keyboard.o`, -O2) `count` is loaded
once, tested, decremented in a register and stored back before the character is
read, and each of those accesses is a step (`Load`, `StoreCount`, `Take`), so that
the handler may run between them.  The ring holds positions in the history
`typed`, so that what is read can be compared with what was typed.  The scancode
tables are abstracted to a key and its form (plain, shifted, control).

### RamFS

Inodes, descriptors and blocks are the arrays of the code; the list `child`,
`sibling`, `sibling`, ... is a sequence.  Paths are absolute and given as the
sequence of components between slashes, with an empty last component for a
trailing slash.  A call is one step, since only one thread calls the file
system; a call that fails before it changes anything is a stutter.  The initial
state is that of `fs_init` just before its first `fs_write`, with one directory
and one file of those it creates, so that the first block is not yet used.
`content` is what each file should hold by the promise of the calls, and
`stale` remembers that a directory was removed while a descriptor was open on
it, which `fs_rmdir` does not check; only `BlocksExclusive` survives that.

`Cwd` extends it by the working directory, which the code keeps as a text and
resolves anew for each relative path.  `get_path` builds a path from the end of a
buffer and copies as many characters as it has, without the NUL: `Copied` keeps
what the text had behind them, and a path that the buffer has no room for is
`Junk`, which may name anything.  `home` is the directory that was changed to and
`shrunk` that its path was shorter than the text before.  `walk` is the streams
that `tree_recursive` has open; each of its turns is a step.

`FileCommands` extends `RamFS` by `cp`, one call of the file system after the
other, with the other descriptors, inodes and blocks in any state: what it does
when the second file cannot be opened, or when the blocks run out, is decided by
what the calls return and by what it does not look at.  `short` remembers that a
write stored less than it was given.

### Net

A packet is what the handlers look at: the kind, the addresses, the ports.  Any
packet may arrive at any time, so that losses, repetitions and every order are
included.  `Arp` keeps the cache and `told`, what each host last said of itself;
`Tcp` keeps the sockets and the callers that hold their handles; `Net` joins
them by what is sent for each packet.  A socket never becomes ESTABLISHED: the
answer to a SYN sets SYN_RECEIVED and nothing leaves that state but a close, so
that `tcp_send` and `tcp_recv` change nothing.

### Shell and what it runs

`Shell` has one variable of its own that is in the code's behaviour, `program`:
who reads the keyboard.  The other, `used`, is a bound: in one behaviour one kind
of line is typed, over and over, which keeps the product of unrelated tables out
of the state space.  `Starts` is a line that comes to a command which keeps the
keyboard, and `Stays` its return.

`Console` numbers the characters that are printed, so that what a capture writes
can be compared with what was printed since it began.  `Placed`, `Wrapped` and
`Fitted` are the three parts of `vga_putchar`.  A capture remembers the place of
the cursor; at its end the region between that place and the cursor is written
and erased.  Captures nest, since a script that is captured may redirect.

`Engine` has the stack of blocks and the target of a break or continue; `frames`
is what a script means (a stack of its own kind), and `orderly` that the script is
one for which the code follows it.  A segment's words are inputs, and a condition
is met or not.  A loop keeps no body and nothing repeats it: its `done` only sets
the variable or runs the condition, and the next turn is what is given after it,
up to another `done`.  A "turn" in this module is such a turn.  `src/README.md`
shows loops that are given once (lines 74 and 781); the engine executes their body
once and leaves the block open, and no property here says that a body is repeated.

`ScriptRuns` says that an orderly script executes in every turn the commands it
should and no others.  It is orderly as long as each `fi` ends an `if` and each
`done` a loop and the stack has room; no `elif` follows a part that was taken; no
loop begins where commands do not run, nor a `while` or `until` whose condition is
not met; no block begins in what is skipped; and no `break` from a part that does
not run has ended a loop that should have gone on.  `break` and `continue` are
taken without a look at `block_active()` (2953-2963), so also in the part of an
`if` that does not run.  `astray` marks such a one: from there to the `done` of its
loop nothing is executed, whatever the script means, and `ScriptRuns` says so;
behind that `done` the engine is with the script again.

`Environment` holds strings character by character, because what it must get
right is where names end and what is cut.  `Expand` is the expansion of a line that
ends in a NUL (`EndMark`), with what the memory holds behind it: after `${NAME}` one
character is passed over (2724, 2716), and where that is the NUL, the expansion
goes on in `Behind`.  `Expansions` are the results of the two passes that a line
goes through.  `meant` is what each name was last given.  `EnvKept` says that a
reference leaves what follows it, but for the one character that a reference in
braces takes with it.

`AtJobs` takes `at_run_due` slot by slot, with the time at which it began, since
jobs take time and may make jobs.  `made` has each job's true due time, which its
field keeps modulo 2^32.

`Editor` has the buffer with the characters behind its NUL, which deletions leave
there, and `text`, the lines that the user means; `spoilt` is set by an insertion
that ends at such characters.  Two steps write behind the heap buffer: opening a
file that fills it and lacks its last newline, and a substitution whose result is
too long, which nothing asks about.  `overrun` names the command that first did so;
from then on the model only leaves the editor, since what is in the memory behind
is not the editor's, and `EditsKept` says that no insertion and no deletion ever
is that command.  The comparison of a substitution may look past the copied text,
and finds there whatever the heap holds.  `Tiles` counts the tiles that were put on
the board; `Snake` has the array of cells, `drawn`, the cells that show a snake, and
`over`, what the last game ended at: `q`, a wall, the snake itself, or the cell of
an older snake that the array has after a meal.
`Windows` has the table, the lists of widgets and the set of heap blocks they
take; `madeFor` and `uses` tell one window of a slot from the next.

`Sources` has the calls of `shell_handle_line` that are in progress, one in
another: for each, the segments that are left of its line and the lines that are
left of the file that the line is from.  A file is read before its first line is
executed, so `CopyFile` changes what the next call will read and not what is being
executed.  The depth is counted in `shell_script_file`, hence `Len(scripts) - 1`.

`Words` are the scanners that take a line apart, over sequences of characters.
`InQuotes` is the state that `split_semicolons`, `find_unquoted` and
`find_redirect` each keep in a variable of their own; `ParseArgs` has the fourth
rule, by which a quote counts only where a word begins.

`Filters`, `Ciphers`, `Numbers` and `Library` are the functions of the code as
operators: a loop over a file or a text is a fold over it with the loop's
variables as its state, and a buffer that ends is a test of the fold.  `Numbers`
computes in fixed point with `FpOne` for 65536 and wraps at `IntWord`; its parser
of `sci` is four recursive operators, as in the code, and `FpNamed` gives its named
constants (pi, e, phi, sqrt2, tau) at that scale.  `tr` takes its second set with
the memory behind it, which it reads when the first set is longer.  `Commands` says
what they are for without them: sorting keeps the lines, an inverse brings back the
text, `cmp`, `cksum` and `sum` see the changes that they can, `diff` prints a line
for each pair that differs and none for a pair that does not, up to the first pair
of empty lines, where it and `paste` stop; `grep` prints the lines that have the
word, `cut` the field of each line but of a last one without a newline, `uniq` each
run of equal lines once but for empty ones at the beginning; the value of an
expression is that of the expression in postfix form, division gives quotient and
remainder.  Where the code's result is less than the command's name says, the clause
says what is missing rather than leaving it open.  A text is
entered piece by piece (`Enter`), so that a run goes through all texts up to a
length.

## 3. What is checked

A dagger marks a violation run.  All the others find no error.

| Run | Question | Properties | Bounds |
|---|---|---|---|
| `Heap_small` | do all sequences of calls keep the list and the callers' memory right, and implement `Allocator`? | `ListSound`, `Owned`, `Accounted`, `CallsReturn`, `ImplementsAllocator` | an arena of 128 bytes; requests of 1, 22 and 40 bytes and an alignment of 8, chosen so that blocks are split, taken whole for want of room to split, rounded up, and that up to five blocks coexist and merge on both sides |
| `Paging_maps` | frames and pages under any callers, both ways of setting up, memory that runs out | `FramesSound`, `TablesOwn`, `TranslationKept`, `OnlyUnseenLost` | 12 frames in words of 2, 3 of them reserved; sizes of 12 and 14 frames and a map with holes in the reserved part and behind it; tables of 4 entries, 5 pages in 4 tables |
| `Scheduler_any` | the process table under any callers, and under orderly ones | `CpuIsCurrent`, `StacksExclusive`, `HighestReady`, `StaysOff`, `SleepersRun`, `TurnsInOrder` | 3 slots, priorities -1, 0, 1, PIDs up to 3, so that a slot is used again, 2 ticks; an allocation may fail |
| `Scheduler_resume` † | does a process go on where it left off? | `SwitchResumes` | 4 slots, PIDs up to 4, one priority |
| `Keyboard_race` | interrupts at every point of a read | `NeverAhead`, `InOrder`, `NoStuckModifier`, `ReaderWakes` | a ring of 2, 3 characters: it fills, wraps, and is lapped after a lost update; all modifiers |
| `Keyboard_lost` † | is every key read? | `EveryKeyRead` | a ring of 2, 2 characters |
| `RamFS_tree` | the tree, the reference counts and the ownership of blocks; the working directory and `tree` while directories are made and removed | `TreeSound`, `BlocksExclusive`, `CwdFound`, `TreeListed` | 5 inodes, 2 descriptors, 3 blocks of a byte; nested, nameless and open directories; paths of 5 characters, so that one is too long |
| `RamFS_data` | contents of files, and of copies | `ContentsKept`, `CopyKept` | 2 files, 2 descriptors, blocks of 2 bytes, files of 2 blocks, 3 blocks in all (2 usable), so that writes run out half way; `cp` copies byte by byte |
| `RamFS_short` † | does a write store what fits? | `WritesWhatFits` | as small as the tree run |
| `Net_any` | any packets in any order, with callers that connect, listen and close | `CacheNewest`, `SocketsOwned`, `WellAddressed`, `PeerFixed` | a cache of 2 for 3 hosts, so that it fills; 2 sockets, 2 callers, 2 peers, a listening port that may also be an ephemeral one |
| `Shell_any` | every program that takes the keyboard, from start to end and again; lines, scripts, names, jobs and captures; every text up to a length that a command, a parser or the library is given | `EditsKept`, `ScriptRuns`, `GamesFair`, `PrintedShown`, `EnvKept`, `JobsOnTime`, `WidgetsOwned`, `CommandsExact`, `LibraryExact`, `QuotesRespected`, `ScriptsEnd` | below |
| `Editor_replace` † | does `r` leave the other lines? | `LinesAsTyped` | one change to a file of two lines |

Bounds of `Shell_any`, program by program:

- lines and captures: a screen of 2 by 3 with tabs at every second column, 3
  numbered characters, lines of up to 4, captures two deep.  A line wraps, the
  screen scrolls within it and within a capture, and a capture may end without a
  file;
- scripts: blocks 3 deep, items lists of 0 or 2, any words in any order, so that
  an inner loop is left for an outer one through an `if`;
- names: a table of 3 entries for names of up to 2 characters and one that is a
  character too long, so that it fills with duplicates; values that refer to
  themselves, are cut, end at a space, or end in a reference in braces, with and
  without text behind the line;
- jobs: 2 slots, 3 jobs, delays of 0, 1 and 3 seconds at 2 ticks a second, 5
  ticks in a clock that wraps at 8: a job is due at once, in the same tick, after
  the wrap, and jobs make jobs in slots before and behind them;
- editor: 8 characters, 4 lines, 3 changes: the buffer and the table fill, a file
  fills the buffer and lacks its last newline, and a substitution is too long for
  it;
- 2048 on 2 by 3 with up to 8 tiles; all games of tic-tac-toe; a snake in a field
  of 4 by 2 that grows from 2 to 4; hangman with 4 letters, one word that has a
  letter twice, and 2 wrong guesses;
- windows: 2 slots used twice, 3 widgets, 3 blocks of memory;
- executed files: 3 calls in one another, two files, one of which runs itself and
  the other one, and copies itself over the other while both are executed; lines
  of 4 segments where there is room for 3;
- texts of files: 5 of the characters newline, tab, blank, `/` and `a`, with line
  buffers of 3, a ring of 2 lines, tables of 3 lines and tabs at every second
  column, so that each of them is exactly full, and one over;
- ciphers: 3 of 8 bytes, letters of both cases, what `urlencode` escapes, and a
  byte above 127; roman numerals up to 400;
- expressions: 5 pieces with every operator, a named constant and a function of two
  arguments, in
  fixed point with 4 binary places and words of 15 bits;
- statistics: 4 of the values -5, 0, 3 and 16 (which is one);
- memories of 5 bytes, each a zero, a sign or a digit, with all addresses and
  lengths; all divisions of numbers of 4 bits; numbers printed in 5 bases;
- lines: 4 pieces, among them each mark alone and in quotes, with room for 3
  segments and 3 words.

`GamesFair` is what each of the four games promises (`ScoreAccounts`,
`NeverLoses`, `SnakeWhole`, `HangmanFair`), and `PrintedShown` is `LineShown` and
`CaptureExact`.  The reference definitions behind `CommandsExact`, `LibraryExact`
and `QuotesRespected` are in `Commands`.

`Net_any` uses the symmetry of hosts, hardware addresses, peers, callers and own
addresses, and `Shell_any` that of heap blocks; none of them appears in a cfg by
name, and neither run has a liveness property.  `Paging_maps` ends at the first step
that is not orderly and `RamFS_data` at the first state in which `stale` holds
(`CONSTRAINT`): the properties say nothing after it.  Deadlock is checked except in
`Scheduler_any` and `Scheduler_resume`, where the processor is lost to a context
that was never set up, or halted, and `RamFS_tree`, where every inode may be lost to
removals of open directories, after which every call fails.

### Fairness

- `Heap`: a call that was begun goes on (`WF(Step)`); the kernel has one thread
  and interrupt handlers return.
- `Scheduler`: the thread that has the processor, as long as there is one, yields
  again and again, and the timer ticks (up to the bound).  Processes are
  cooperative, so that nothing less lets any other process run.
- `Keyboard`: the timer interrupt recurs at 100 Hz, a read that was begun goes
  on, and the shell reads again (`shell_run` calls `keyboard_getchar` in a loop).
- The other modules state safety only, and assume none.

### Disagreements found

- `Scheduler_resume`: `context_switch` saves DS as the code segment
  (context.asm:33-35), and the `iret` that is to resume the thread faults; the
  system halts at the first switch to a process that has run before (README.md:707
  "Context switching via assembly stubs", context.asm:6).  `CpuIsCurrent` says what
  holds until then.
- `Keyboard_lost`: a key typed while a reader decrements `count` stays in the
  ring, and `count` says the ring is empty (README.md:660).  `NeverAhead` and
  `InOrder` say what still holds.
- `RamFS_short`: block 0 is taken for "no block", so that the first write of all,
  of `/etc/passwd` in `fs_init`, stores nothing.
- `Editor_replace`: `r` deletes a line, which leaves its characters behind the
  NUL, and inserts one, which moves the text without the NUL; the text then goes
  on into them (help line of the editor, shell.c:3173).  `EditsKept` is what holds
  of all the other changes.

Seen while modelling and not checked by a run of its own:

- editor: a substitution writes behind the 32 KB heap buffer when its result is
  longer (shell.c:3267-3277), and so does the newline for a file of 32767 bytes or
  more that lacks one (shell.c:3164); `EditsKept` names these two as the only ones;
- memory: the search of the heap is first-fit (memory.c:206) and README.md:694
  says best-fit; `frame_test` sees 8 of 32 frames, and the others are not given
  back by `pmm_free_frame` (memory.c:25; `OnlyUnseenLost` says that nothing else
  is lost); `pmm_get_free_frames` counts frames that the search never reaches
  (memory.c:70, 93-95; `FreeCount`), and the memory of the kernel heap is not
  reserved (memory.c:34-38); `paging_init` allocates one frame for four tables
  (memory.c:116);
  `paging_map` does not look for a failed allocation and uses frame 0;
- processes: `schedule()` takes a PID for a table slot (process.c:134), so that
  after a slot was used again turns are no longer in order (README.md:706
  "Round-robin"; `TurnsInOrder` is what holds); `process_exit` and `process_kill`
  both lower `process_count`, so that the total under the process list
  (process.c:222) need not be its number of rows; the idle process competes with
  processes of its own priority although process.c:14 says it runs when no other is
  ready;
- working directory: after `cd /home`, `cd /etc` leaves the text `/etce`, since the
  shorter path is copied without a NUL (fs.c:157; `CwdFound` is what holds of the
  others); a path that is longer than the buffer is copied from beside it; `tree`
  goes on for ever in a directory without a name (shell.c:876);
- copies: `cp a a` empties the file; `cp` does not look at what a write returns,
  and cuts the destination although no descriptor is left to write to it
  (`CopyKept`); `cmp`, `paste` and `diff` do not close the first file when the
  second cannot be opened;
- files: `fs_unlink` refuses while `ref_count > 0`, which is always, so that `rm`
  (README.md:225) removes nothing; `mkdir a/` makes a directory without a name in
  `a`;
- network: a cache that is full learns no new host; a listener whose port another
  socket in a lower slot has is not heard; two connections of one tick have the
  same port;
- windows: a window made in the slot that had the focus last ends without it
  (gui.c:216); the slot of a hidden window counts as free, and its widgets are
  lost;
- scripts: the part behind an `elif` runs although a part before it was taken
  (shell.c:2933); a loop's `done` only advances the variable or tests the condition
  again, and the body is not repeated (README.md:74, 781); `break` and `continue`
  are taken in parts that do not run (shell.c:2953-2963); blocks that begin in a
  skipped part are not counted, and their `fi` or `done` closes another;
- lines: backspace at the left edge of the screen deletes a character of the line
  and not of the screen; after a capture only the cursor that is shown returns;
  what scrolled away during a capture is not in the file, each captured row but
  the last is as wide as the screen, and there is one cell more than was printed;
  a redirection behind a pipe is passed on as arguments (shell.c:3064); when the
  file cannot be opened the output is erased;
- names: a name of 32 characters or more makes a new entry each time it is set;
  after `${NAME}` one character is passed over (shell.c:2724), at the end of a line
  the NUL; `$?` is never
  expanded, since `?` is not a character of a name;
- lines and words: an apostrophe inside double quotes counts as a quote for the
  scanners, so that semicolons behind the quotation are hidden; `parse_args` knows no
  quotes inside a word, and a quoted name behind `>` keeps its quotes; the third
  command of a pipe is passed to the second as words; segments above eight are
  dropped;
- text commands: a line that is longer than its buffer loses a character at each
  cut (`Gather`); `paste` and `diff` stop at the first pair of empty lines; `cut`
  does not print a last line without newline, `uniq` leaves out empty lines at the
  beginning (README.md:246); `tr` reads behind its second set (shell.c:1512);
  `unexpand` makes one tab of all the blanks before a stop; `tail` has
  the last 256 lines only; `dirname a` is `/`;
- numbers: `sci` looks at one word, so that `sci 2 + 3` is 2; its table of sines
  holds values near 0, so that `sin` is 0 and `tan` an error; `printf` pads behind
  the sign and outside the width (`Signed`); `numfmt` prints `%.1f` as it is;
  `udiv64` is wrong for divisors above 2^63 only, where the remainder overflows
  (no signed quotient uses them);
- jobs: `at` jobs wait for the prompt, and `when_ticks` wraps after 497 days;
- editor: a file of more lines than its table has room for is cut on save, and a
  `w` that cannot open its file leaves the editor;
- games: after a meal a cell of an older snake counts as in the way, and can end
  the game, though the screen does not show it (shell.c:3476, 3491);
  a guess of `q` ends hangman.

## 4. What is proved

| Module | Theorem | Statement |
|---|---|---|
| `HeapProofs` | `Inductive` | `Spec => []IInv` |
| | `TypeCorrect`, `TiledAlways`, `LinkedAlways`, `CoalescedAlways`, `ListSoundAlways`, `OwnedAlways` | the invariants of `Heap_small` and their parts |
| | `FirstFitAlways` | the search takes the lowest block that fits, and fails only if there is none (not in the run) |
| | `AccountedAlways` | `heap_used` is the sum of the sizes of the blocks in use |
| | `Implements` | `Spec => ImplementsAllocator` |
| `PagingProofs` | `FramesInductive` | `Spec => []FInv`, over all of paging's steps |
| | `FreeCountAlways`, `HeldExistsAlways`, `FramesSoundAlways` | the free count is what can be had and what is never reached; what callers have is memory, marked, and above the first 4 MB |
| | `TablesOwnAlways` | page tables are apart from each other and from what callers have |
| | `OnlyUnseenLostAlways` | the only frames lost are those whose bit `frame_test` does not see |
| | `TranslationKeptAlways` | pages stay where they were put, and no translation is stale |
| `SchedulerProofs` | `SchedulerInductive` | `Spec => []SInv` |
| | `CpuIsCurrentAlways`, `StacksExclusiveAlways`, `HighestReadyAlways`, `StaysOffAlways` | the safety properties of `Scheduler_any` |
| `DriverProofs` | `KInductive` | `Spec => []KInv` |
| | `NeverAheadAlways`, `InOrderAlways`, `NoStuckModifierAlways` | the invariants of `Keyboard_race` |
| | `ConsoleInductive`, `PrintedShownAlways` | the screen shows the line, a capture has what was printed |
| `NetProofs` | `NetInductive` | `Spec => []NetInv` |
| | `CacheNewestAlways`, `SocketsOwnedAlways`, `WellAddressedAlways`, `PeerFixedAlways` | the properties of `Net_any` |
| `RamFSProofs` | `BlocksStayExclusive` | `Spec => [](TypeOK /\ BlocksExclusive)` |
| | `TreeStaysSound`, `ContentsStayKept` | the tree and the reference counts; what files hold |
| `FileProofs` | `CopiesStayKept` | the same of the commands' `FileSpec`, and `CopyKept` |
| | `CwdInductive`, `CwdFoundAlways` | relative paths begin where the directory was changed to |
| | `TreeListedAlways` | `tree` prints each inode below the working directory once |
| `ProgramProofs` | `WidgetsOwnedAlways` | `WindowsSpec => []WidgetsOwned` |
| | `EngineInductive`, `ScriptRunsAlways` | an orderly script executes what it should, and nothing while a break or continue from a part that does not run is under way |
| | `AtInductive`, `JobsOnTimeAlways` | each job runs once, and on time |
| | `EditorInductive`, `EditsKeptAlways` | the lines on the screen are those the user made, until a file or a substitution overruns the buffer, and nothing else does |
| | `EnvInductive`, `EnvKeptAlways` | `$NAME` is what NAME was last given |
| | `HangInductive`, `HangmanFairAlways` | hangman shows what was guessed and ends when it should |
| | `SnakeInductive`, `SnakeWholeAlways` | the snake is whole, the screen shows it, and its game ends at one of four things |
| | `SourcesInductive`, `ScriptsEndAlways` | every step leaves less to do: files that execute each other end |

### The heap

`HeapProofs` holds for every arena, word size and set of requests that satisfy
`HeapAssumption` and `RequestsFit`.  The inductive invariant `IInv` adds to the
properties what a call in progress relies on.  `Coalesced` speaks only of moments
outside `kfree`; `Merging` says which pair of neighbours may both be free while a
merging loop is at work: the block being merged with its next, then with its
previous, and no other.  `FirstFit` needs to know that no block already passed
fits (`Searching`).  `Owned` needs that the search was asked for enough to hold
the caller's bytes after alignment (`Roomy`), and the refinement that it was asked
for something (`Wanted`).  `Tiled` and `Linked` depend on each other: `PrevIs`
shows from the tiling that each block's `prev` ends where the block begins, which
is what makes joining two blocks keep both; the lemmas `SplitTiled`,
`SplitLinked`, `JoinedTiled` and `JoinedLinked` are the two changes of the list,
and `AllocatedIs` and `AbsorbIs` relate them to the code.  The refinement step by
step is `RefinesGrant`, `RefinesRefuse`, `RefinesFree`; a refusal is justified
because any gap between held blocks lies inside a single free block, by
coalescing.

`Accounted` speaks of a sum over a finite set.  `Adds` is the running sum of the
weights of all addresses below one (the size of the block in use there, or nothing):
it exists for every state (`AddsExists`), does not depend on addresses that have no
weight (`AddsSame`), and changes by what one address changes by (`AddsChange`).
`SumIs` shows that the model's sum over the blocks in use, in whatever order the
elements are chosen, is the running sum at the end of the arena.  A step is then
judged by the one weight it changes: a block taken (`TakeAdded`), given back
(`ReleaseAdded`), or joined to another while both are free (`JoinAdded`).

### Frames and tables

`PagingProofs` holds for every memory size, memory map and table size that satisfy
the modules' assumptions.  `FInv` is `FTypes`, `Counted` (the used count is at
least the number of usable frames that are marked, and equal to it when the
first 4 MB are memory), `Marked` (a frame the search can reach and that is not
memory is marked, and the first 4 MB are) and `HeldExists`.  `FreeCount` follows from
`Counted` by splitting the usable frames into those that are marked and those
that are not (`SplitCount`), and these into those that the search finds and those
that it never looks at.  The two ways of setting up are `SizeInv` and
`MapInv`; marking and clearing a frame are `MarkOne` and `ClearOne`.  `TablesOwn`
needs `PInv`, which adds the types of `Paging`; each of its step lemmas
(`PagingInitOwn`, `EntryOwn`, `LinkOwn`, `CallerOwn`) is one way in which memory or
the bitmap changes.  That identity mappings are frames (`Identity`) needs the
identity map to be within what the bitmap has bits for, 4096 of 65536 frames in the
code, which `PagingAssumption` says.

`UInv` adds `DirSafe`: the directory is marked, is not a caller's or in the first 4
MB, and is not a table of its own.  Its entries are then never replaced, even by a
frame at address 0 that `paging_map` takes for a table when memory runs out, and
tables are not lost; `OnlyUnseenLost` follows for all steps, the disorderly ones
that the run leaves out included.  `KInv` adds what `TranslationKept` needs: while
steps are orderly no entry of the directory is a caller's frame (`EntriesUnheld`),
so that a table which was never allocated stays clear, and its pages good, until its
frame is taken; and the processor keeps nothing before there is a directory
(`NoneEarly`).  `LastingTable` says that the table of a page that is still good is
no other's, and with `IndexApart` (two pages differ in one of their indices) that
writing one entry moves one page only.

### The processes

`SchedulerProofs` holds for every number of slots, set of priorities, stacks and
delays.  `SInv` adds to the properties what `schedule()` relies on.  `Table` says
that PIDs are used once, that the idle process keeps slot, PID and priority 0, and
that the current process is not asleep; it holds whatever callers do.  `Follows`
holds while callers are orderly: each process other than the current one that is to
run again has its own thread in its context, or no stack and a context of zeros, so
that a switch to whichever is chosen puts its thread on the processor, halts it, or
loses it, and never puts another's there (`OnProcessor`).  Nothing is taken on trust
of `context_switch`: the code segment that it saves is in the context.  `Entered`
says what a caller of `schedule()` may have changed before the call and `Scheduled`
what the call does; `CallsEnter` shows that exit, yield and sleep are such callers,
and `ScheduleKeeps` is then the one proof for the three.  That `CHOOSE` finds a
process at all is `PreferredExists`: preference is total and transitive, and a
smallest set of slots without a most preferred one would contradict that.
`HighestReady` needs the idle process's priority to be 0, above those that
`schedule()` never considers.

### The keyboard

The first part of `DriverProofs` holds for every size of the ring, every set of keys
and any number of characters.  `KInv` is `CountBelow`, `InRing` and the three
properties.  `CountBelow` is what makes the unprotected `count` harmless on one
side: it is at most the number of characters that are unread, and at most one less
while a reader is between its store of `count` and its store of `tail`; what a
reader has loaded was right for the characters there were, and interrupts only add
to them.  `NeverAhead` follows.  `InRing` says that, until the handler laps the
reader, the k-th slot from the tail has the k-th unread character and the head is
behind the last; `InOrder` needs it for the slot at the tail.  `PutKeeps` and
`TakeKeeps` are the two steps that move it, `NextSlot` the wrap at the end of the
ring.

### The screen

The second part of `DriverProofs` holds for screens of any height and width, any
distance of tabs, lines of any length and captures nested to any depth.  Places are
counted through the rows (`Index`), and everything is said in terms of that order.
`Drawn` is what is on the screen: up to the cursor characters whose numbers rise, and
behind it nothing.  `Captured` is what a capture under way relies on: from its
beginning on there is nothing older than it, and as long as nothing was scrolled all
that was printed since, less what captures inside it took, is there.  `Sound` puts
them together with `taken`, and `ConsoleInv` adds the line: its last characters are
those before the cursor (`Lined`), and its numbers rise (`Counted`), which is what
lets Ctrl+L print it again on an empty screen.

`PutIs` describes a character that is printed once and for all: everything moves up
by a number of places `d`, a row when the screen scrolls and otherwise none, and the
cursor goes on (`Puts`).  `DrawnPut`, `CapturedPut` and `LinedPut` follow from
`Puts` alone, so that no later proof looks at wrapping, tabs or scrolling again.  A
backspace is described apart (`BackIs`), and `Rubs` puts together the three
characters that delete one.  A text is printed by a recursive function;
`AfterExists` shows by counting up that it exists, and `TypedLine` follows it along
a line.  `RowsAre` says that a capture writes the cells of its region and no others,
row by row; `RegionFrom` and `RegionWhole` that the region is what lies between the
capture's beginning and the cursor, with the cells to the edge that nobody printed;
and `CaptureIs` then reads `CaptureExact` off `Drawn` and `Captured`.  What
`restore_screen` erases stays right for the captures around it because it is counted
as taken (`SoundRestored`).

### The file system

`RamFSProofs` holds for every number of inodes (three at least, those of
`fs_init`), descriptors and blocks, every block size and number of direct blocks,
all paths over a set of names and all byte strings; `Word > MaxOpen + 1` says that
a `uint32_t` counts the references of all descriptors.  First the calls are
described field by field (`Opens`, `Adds`, `Removes`, `Closes`, `WritesTo`,
`Moves`): `OpenIs`, `MkdirIs`, `RemovedIs`, `CloseIs` and `WriteIs` show that every
outcome of a call, running out of descriptors half way included, is one of these.

- *Blocks.* `TypeOK` and `BlocksExclusive` are inductive together, whatever is
  removed while it is open.  `ChunkAllocates` is one turn of the loop of
  `fs_write`, and `WriteTurns` the induction over the turns.
- *The tree.* `Standing` is the inductive part of `TreeSound`; it holds as long as
  no open directory was removed (`~stale`).  Each inode in use has one reference
  for its name and one for each descriptor (`Refs`), so `fs_unlink` never finds
  one without a reference, and a removal of a directory that is not open is the
  only one there is.  `Booted` keeps the directory and the file that `fs_init`
  makes: as they cannot be removed, the root and `/etc` never are empty.  `Once`
  and `Distinct` speak also of inodes that are not in use, and `Empty` says that
  those list nothing: `alloc_inode` finds them so.  `Reached` bounds the depth by
  some number; that `MaxFiles` is enough (`Up[MaxFiles]`) is `Levels`: a level that
  adds no inode is the last one.
- *Contents.* `Held` is stronger than `ContentsKept`: a file reads as zeros beyond
  its end, since a later write makes what lies before it part of the file.  Of a
  write, `ChunkStores` says that a turn stores its bytes where the promise has
  them and changes no others; that the block is in no other file is
  `BlocksExclusive`.

`FileProofs` goes on from there, to those that call the file system.

- *Copies.* `Copies` says where `cp` stands: what it wrote is the beginning of the
  old file, and with what is in the buffer it is what was read, unless a write
  fell short.  Then either nothing can be stored at that position ever after
  (`StuckWrites`), so that the copy remains a beginning; or block 0 was taken for a
  failure, which happens only while no block is marked at all (`ZeroFirst`), and
  then every file holds nothing but zeros (`OnlyZeros`) and the writes that succeed
  after it are right in spite of what is missing.
- *The working directory.* `CwdFound` says that a text, read as a path, leads to the
  directory that it was made of.  `Settled` is its invariant.  It names the inodes
  that a caller can be in (`Proper`: the root, and those whose name is not empty,
  `.` or `..`), and says that the others list nothing (`Leaves`: `fs_mkdir` can make
  them, but no path enters them, since `lookup` takes those names for something
  else), that names are spelt, and that the text is the path of `home` until that
  directory is removed.  `PathTextIs` shows that `get_path` climbs to the root;
  `SplitPrepends` and `ComponentsPrepend` that a name put in front of a text is a
  component in front of its components; and with both `PathTextLeads`, by induction
  over the climb: the components of the text, looked up from the root, lead to the
  inode.  `PathTextKept` says that what is made and removed elsewhere changes no
  text, as a directory that is removed is empty and so is above nobody.
  `SpellingAssumption` is what the proof needs of names: different ones have
  different characters, and none has a slash.
- *The tree command.* `Below` is the model's fold of `MaxFiles` turns that add the
  children of what was found; `BelowLeast` shows that the result is closed under
  children, since a turn that adds nothing is the last one that could, and
  `BelowKids` that an inode's is itself and those of its children, which
  have nothing in common (`KidsApart`) and do not lead back to it (`NotBelowKid`).
  The open streams are a path down the tree (`Chain`), and `WalkKept` says that what
  was printed is what they have passed.  A turn of the walk is one of three: an entry
  that is a file is passed (`PassesMark`), one that is a directory is opened
  (`OpensMark`), or a list ends and the walk goes back to the stream above
  (`ReturnMarks`), which has by then passed all of that entry.  The premise of
  `TreeListed`, that every inode has a name, once false stays false: an inode without
  one is never removed (`NamelessStay`), as no path leads to it.

### The network stack

`NetProofs` holds for every size of the cache, number of sockets and set of hosts.
`NetInv` adds to the properties that the entries of the cache come first and the
free ones after them (`Packed`), that each entry has what its host said last
(`EntryTold`), and that a host that spoke has an entry as long as there is a free
one (`Heard`); without `Packed` the first match of `arp_process` could be a free
entry in front of the host's.  `LearnKeeps` is the one step that changes the
cache.  `WellAddressed` speaks of what was sent in the last step and follows from
`ResolveTold`.  `PeerFixed` is an action property, shown for each of the steps
that change a socket.

### Executed files

The part of `ProgramProofs` about `Sources` holds for every content of the files,
also if they are overwritten, and every bound of depth and segments.  `ScriptsEnd`
compares two states by what is left of their calls, outermost first: each step
leaves less of one call (a segment, a line, or the call itself) and changes none of
the calls around it.  As the calls nest at most `MaxDepth + 1` deep, which is the
invariant, and a line has only so many segments and a file only so many lines, the
order is well-founded and the shell returns to its prompt; that last conclusion,
about well-founded orders, is not part of the proof.

### Windows, blocks, jobs, the editor, the environment and two games

`ProgramProofs` has seven more parts, each about the specification of its module
alone.  `Shell` interleaves them with the rest, and no theorem is stated of the
composition.

- *Windows*, for any number of slots, heap blocks, widgets and openings.
  `WidgetsOwned` becomes inductive with `ListsKept` (the numbers on the lists are
  below the next one, so a new widget's number is nobody's) and `HiddenEmpty`:
  while windows are used in turn, a slot that is not on the screen lists nothing,
  so that `gui_create_window`, which clears the list without a look, and
  `gui_shutdown`, which closes what is on the screen only, lose no widget.
- *Blocks*, for any depth of nesting.  `Mirror` says that while a script is orderly
  the stack of the code and the script's own have the same height and agree level by
  level (`Matched`), and that what a break or continue left is the loop it skips to,
  with nothing but ifs above it, unless it was taken in a part that does not run
  (`astray`), which leaves the script's own stack as it is; that is why `fi` and
  `done`, which count downwards while commands are skipped, find it again.  Each
  word of a script changes the top of both stacks or takes it off (`BothTopped`,
  `BothPopped`).
- *Jobs*, for any table, clock width and delays.  `RanOnce` says that the jobs that
  ran are those made and no longer waiting.  `LaterThan` is what a pass knows: in
  the slots behind it no job that is older than the pass is due; a job that is made
  by one that runs may take a slot there, and is new.  `TakenOut` gives the slot
  back before the command runs, `Adding` is `at_add` to whatever table is left.
- *The editor*, for any size of the buffer and of the table, any files and texts.
  The table is made again from the characters after each change, so nothing in the
  state says where a line is.  `Layout` says it: places, the first one 0, such that
  each line of the user's text lies at its place and its newline just before the
  next, up to a NUL or the end of the table.  `LayoutLines` shows that what
  `editor_rebuild` finds is then the text (the recursive table exists by
  `StartsExist` and is the only one by `StartsSame`), and `LinesLaid` that every
  buffer that ends in a newline has a layout.  A change is judged by the characters
  that it moves: those before it keep their places and those behind it go on by as
  many (`Carried`), which is `OneMoreLaid` and `OneLessLaid`; that a NUL follows the
  text after an insertion is what `spoilt` is about.  `RoomFits` and
  `DeletedTopFits` show that an insertion and a deletion never write behind the
  buffer; opening and substitution have no such lemma, as they do (`overrun`).  A
  substitution is a concatenation of what each character becomes; `SubstitutedLaid`
  cuts it at the newlines, which it keeps.
- *The environment*, for any table, any room for names and values, and any texts.
  `TableInv` says that the entries come first and the free slots after them: a new
  entry, which may have the name of an old one when its own was cut, is then never
  found before it.  `StandsFor` is the property for one name, with what makes it
  inductive: a name that was set is found, also when its value is empty.  `SetsFound`
  and `SetsNew` are the two things `env_set` does.  The expansion is a recursive
  function that takes a turn of the loop at a time; `TurnsExist` shows that it exists,
  `ExpandTyped` that it makes a text whatever the line and the memory behind it are,
  and `ReferenceIs` and `BracesIs` follow it along a reference, whose end is found by
  `RunOnly`, up to the NUL (`EndTurns`).
- *Hangman*, for any words, letters and number of tries.  `HangInv` adds that only
  so many letters were guessed, without which counting the wrong ones means nothing.
  `WholeWord` is why the game is won at the right moment: the code looks for a hidden
  place, the property for a letter that was not guessed, and no letter is the mark
  of a hidden place (`HangmanAssumption`).
- *The snake*, for any field and any sizes.  `SnakeInv` adds that the score is ten
  times the meals, and that the last place is fresh only after one.  `CrawlWhole`
  shows that the cell of an older snake in the last place, which can end the game,
  does no harm to the snake: a tick moves the places down, so that the body after it
  (`BodyPlaces`) has only cells that were the snake's and the one its head went to,
  and what is erased is the last of the places that were looked at.  `gaps` are the
  cells of the snake that the screen does not show, and `ObstacleKnown` says that
  what ends a game is a wall, the snake or that last place.  With `SnakeStartWhole`
  this holds over any cells left there.

Only model-checked: `CallsReturn` and every other liveness property (under
fairness, out of the provers' reach), and what is said of 2048, of tic-tac-toe, of
the text commands, the library and the line parsers.  Of `GamesFair` the parts
`HangmanFair` and `SnakeWhole` are theorems; that tic-tac-toe is never lost is a
fact about a tree of some hundred thousand boards, and the score of 2048 needs
inductions over lines of tiles.
`Tiles`, `TicTacToe` and `Numbers` define recursive operators, and no
theorem is stated in them or in `Commands` or `Shell`, which extend them.  What the
commands and the library compute, by folds, would need inductions over texts; it
is checked for all texts up to the bounds.

## 5. Not modelled, and the plan

Not modelled because it is not part of the build or has no state: `kernel.asm`,
`blackmatrix.asm`, `gen_kernel.py`, `main.c.current` (earlier kernels not among
the Makefile's sources), boot code and descriptor tables (straight-line set-up),
drawing and the graphics mode.  Of the shell's commands those are left out that
only print what the machine or a table holds (`date`, `ps`, `mem`, `cpuinfo`, ...),
draw, beep or wait, and of `sci` the names of angles.  Also left out: that expanded
lines are cut at 511 characters, colours, the texts of `for` items, history and
aliases, the end of `printf`'s buffer of 1024, and commands that read a line while
they are captured.

Of `context.asm` the model has whose registers are saved and loaded and the code
segment, not the stack pointer (section 2, Scheduler).  The interrupt dispatch
(`idt.c`, `pic.c`, `isr.asm`) is used as an assumption: `Keyboard` takes a handler
to be atomic.  What the heap holds after the editor has written behind its buffer,
and that the frames of the kernel heap are not reserved, is in no module: nothing in
the kernel calls `paging_init` or hands out frames.

Next, in this order:

1. `Interrupts`: the masks and in-service bits of the PIC, dispatch and end of
   interrupt, with spurious and nested ones.
2. Proofs by induction over texts, about the line parsers, the text commands and
   the library, should the provers come to allow them.
