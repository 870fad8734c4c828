# A TLA+ model of 114514OS

114514OS is a small teaching kernel for one x86 CPU: up to six user processes
on three text terminals, a round-robin scheduler driven by the timer interrupt,
a read-only file system, a keyboard with line editing, and the real-time clock
as a device. All paths below are under `src/student-distrib/` unless they say
otherwise.

Everything runs on one CPU. What is concurrent are the interrupts (timer,
keyboard, RTC), which enter through interrupt gates with interrupts off, and the
system calls, which enter through a trap gate with interrupts ON. Several
handlers execute `sti` before they have finished. The build has no optimisation
flag, so a flag polled in a loop is read again in each round. Nothing is
persistent and nothing is sent over a wire, so there are no crashes to recover
from and no messages to lose.

## Inventory

| component | state | operations | interacts with | what makes it correct |
|---|---|---|---|---|
| processes (`syscall.c`) | `proc_state`, `t_curr`, `curr`, PCB (`p_pid`, `parent_*`, `current_*`, `terminal`), `tss.esp0` | `execute`, `halt`, `pcb_init`, `get_pid` | called by user programs, by boot, by the keyboard and by the timer | the tables agree; a parent waits in the frame its child's halt loads; no slot is given away twice |
| scheduler (`timer.c`) | the saved `current_ebp/esp`, the page map, the active terminal | `pit_int_handler` | interrupts everything, itself included after its `sti` | resumes a process where it was suspended; no terminal starves |
| file descriptors (`syscall.c`) | `file_array[fd].flag`, `bitmap[fd]` per slot | `open`, `close`, the checks of `read` and `write`, `pcb_init`, `halt` | shares the slot's PCB with the process before it | the two marks agree with what the program holds; a reused slot is clean |
| regular files (`filesys_read.c`) | `file_pos`, the read loop's block and offset | `read`, `read_data`, `read_f` | called by `read` and by `execute`'s loader | every byte once, in order, none past the end |
| directory (`filesys_read.c`) | `read_dir_index`, global; the boot block's names | `open_dir`, `read_dir`, `read_dentry_by_name`, `read_dentry_by_index` | one index shared by all programs; names looked up by `open` and `execute` | an `ls` sees every entry once; a name finds its own entry |
| terminal lines (`keyboard.c`) | `keyboard_buffer`, `cursor_ind`, `print_buffer`, `terminal_read_ready` per terminal | the key handler, `terminal_read`, `terminal_write` | keyboard interrupt against the reading program | a line reaches its own terminal's program, whole and once |
| screen (`lib.c`) | `video_mem`, `terminal_mem`, cursors, `display_terminal`, `active_terminal` | `putc_scroll`, `putc_scroll_display`, `delete_c`, `clear`, `set_disiplay_terminal`, `set_active_terminal` | programs print for the active terminal, keys for the one on display | terminals are independent; nothing is stored outside of the screen |
| RTC (`rtc.c`) | `RTC_flag`, the rate in register A | interrupt, `rtc_read`, `rtc_write`, `rtc_open` | one flag for all programs | the rate written; one interrupt per read |
| paging, vidmap (`paging.c`) | page directory and tables | `pid_page_map`, `vidMem_page_map`, `vidmap` | scheduler, `execute`, `halt` | a program reaches its own frame only; its video page is the screen exactly while its terminal is on display |
| arguments (`syscall.c`) | `argBuf`, `argSize`, global | `verify_file`, `getargs` | filled by every `execute`, read by the program with interrupts on | a program gets the arguments of its own command; the copy ends |
| keys (`keyboard.c`, `scan_code.c`) | `pressed_key`, `cap_status`, two constant tables | the key handler's marks, `char_match` | feeds the terminal lines | what is typed depends on the keys really held |
| interrupt controllers and vectors (`i8259.c`, `idt.c`, wrappers, `kernel.c`) | `master_mask`, `slave_mask`; in the chips: requests, lines in service | `i8259_init`, `enable_irq`, `send_eoi`, `idt_init`, the order of the boot | between every device and its handler | a request that is taken has a handler and is ended; none is lost for ever |
| C library (`lib.c`) | none | `memcpy`, `memset`, `strlen`, `strrev`, `itoa` | everything | every alignment, length and number |
| fish (`src/fish/`) | the pool and list of blinks, two files | `add_frames`, the ioctls, the tasklet | uses `vidmap`, the RTC and files | list and pool agree; whole pictures alternate; it ends |
| error tests (`src/syscalls/ece391syserr.c`) | none | eight tests | the descriptor tables and the system call entry | pass whenever the program starts with a clean table |
| GDT, boot information, `printf` | constant | set-up, messages | | not modelled |

Hard behaviours: the windows that `sti` opens inside `pit_int_handler`
(`timer.c:92`), `execute` (`syscall.c:270`), `halt` (`syscall.c:165`) and `entry`
(`kernel.c:164`); a launch of a shell from inside the keyboard interrupt;
slots that are reused without being reset; globals shared by programs of
different terminals; polling loops against interrupts; and off-by-one
arithmetic at the end of blocks, files, tables, lines and screens.
`PROJECT.json` lists them one by one with the properties that cover them.

## Modules

| module | models |
|---|---|
| `Processes` | execute, halt, boot, the timer, Alt+Fn launches, exceptions |
| `FileRead` | one open descriptor of a regular file, and the program loader |
| `FileDesc` | the descriptor tables of all slots |
| `Terminal` | line discipline between keyboard and programs |
| `SysErr` | the error tests of `ece391syserr.c` over `FileDesc` |
| `Rtc` | the RTC driver |
| `Interrupts` | the machine around `Rtc`: controllers, vectors, boot, timer and keyboard |
| `Keys` | scan codes, modifiers, characters |
| `CLib` | loops of the C library: operators |
| `Console`, `MCConsole` | from the keys over the shell and `verify_file` to `getargs`; composes `Keys` and uses `CLib` |
| `Blink`, `Fish` | the blink library; the fish program and an arbitrary client of the library |
| `Directory` | several listings through the one directory index; look-up by name |
| `Video` | the page directory, the user's video page, and all that change them |
| `Grid` | cells, cursor, scrolling: operators for the two below |
| `Screens` | abstract: independent screens |
| `Stacks` | abstract: a stack of programs per terminal |
| `Screen` | the code's exchange of memories, which implements `Screens` |
| `Files_proofs` | theorems about `FileDesc`, `SysErr` and `Directory` |
| `Interrupts_proofs` | theorems about `Interrupts` and `Rtc` |
| `Programs_proofs` | theorems about `Blink`, `Fish`, `Keys`, `Console` and `CLib` |
| other `*_proofs` | theorems about the module they are named after |

Definitions keep the source's names. Operators named `X_Something`, commented
"Mutant", are variants of `X` as a plausible bug would have it; no specification
uses them, they show that a property would notice the bug.

### Processes

An action is a stretch of code no interrupt can enter. A handler that executes
`sti` before it has left its stack is split there: `PitSelect` / `PitSwitch...`,
`execute` / `ExecuteIret`, `HaltChild` / `HaltReturn`.

A saved `ebp` is abstracted to a *place*: whose kernel stack, how many `execute`
frames under its top, and what the code there is doing. This suffices because
all interrupt frames have the same layout (`interrupt_service_wrapper.S`). Two
ghost variables say what the code cannot see: `me`, the process the CPU is
executing for, and `susp`, where each process really is suspended. A tick or a
halt that loads a place different from `susp` has left the C program's meaning;
the model stops there with `stop = "tick"` or `"halt"`, and the invariants speak
of the states before. A context left on a stack that another process
goes on to use may or may not be overwritten: `Clobber` chooses.

What is left out: program text, return values, `printf`. `execute` of a command
that `verify_file` rejects and of one for which there is no slot changes nothing
here. If the table is full while terminal 0 has no shell (five programs
started in terminals 1 and 2 within the boot window), `execute`'s error message
enables interrupts inside the timer handler; the model goes on to `PitSelect`
without that window.

### FileRead

A byte is named by the data block and the offset `read_data` takes it from, so
that a property can compare it with its position in the file. The file system
is read-only: a reader cannot be disturbed, and one descriptor is enough.
`PROGRAM_MAX_SIZE`, the loader's count, is taken as the bound on file lengths
(in the code it is the largest length of a file, 4 MB, too).

### FileDesc

Two marks per descriptor, as in the code, plus the ghosts `held`, what the program
believes, and `beyond`, that it closed descriptor `FDESC_SIZE`. `FLAG_WORD` is the word of the bitmap that lies at
`file_array[FDESC_SIZE].flag`: in the code `flag` is the seventh word of a
descriptor, so it is word 6. `BOOT_WORDS` is what memory may hold at boot.
Which process calls next is arbitrary among those that do not wait in
`execute`. A halt into a parent that does not wait is outside this module
(`HaltReturn` of `Processes`).

### Terminal

A byte is named by its source: a key or a program of terminal `t`, the terminating
0, or memory behind the buffers. The line being typed is a sequence, so
`cursor_ind` is its length; `print_buffer` has all its `PRINT_LIM` (2050 in the
code) bytes, and the buffers of the terminals follow each other in memory:
`terminal_write`'s 0 behind `PRINT_LIM` bytes (`Put`) and a read of more than
`PRINT_LIM` bytes (`ByteAt`) reach the next one. `terminal_read` is its call, the end
of its loop, a step per byte of the copy and the reset of the flag, since it runs
with interrupts on; the handler and `terminal_write` are one step each (`cli`).
`WriteCounts` and `ReadCounts` are the counts programs pass. The value
`terminal_read` returns, `strlen` of the caller's buffer, depends on the caller's
memory and is left out.

### Rtc

The firmware leaves any rate, `rtc_init` sets 2 Hz as a step of the boot.
`hz` and `ticked` are history variables for the properties. `Hz`
is the data sheet of the clock chip and not code of this repository: rates 1 and
2 mean 256 and 128 Hz, which the macros of `rtc.h` use.

### SysErr

A test of `ece391syserr.c` is an operator on the table of the process that would run
it: what `read`, `write`, `close`, `vidmap` and the check of the call number answer.
`SysErrPasses` is evaluated in every reachable state of `FileDesc`, for every
process that holds nothing: there the tests, one after the other, must pass.
`err_open`, which is about names that are not there, the empty one included, is what
`LookupExact` of `Directory` covers.

### Interrupts

Every device may raise its line at any time, from the firmware's state on; the
controllers latch requests, mask them, and grant by fixed priority through the
cascade (external: the 8259's data sheet, as far as `i8259.c` uses it).
`BootStep` takes the steps of `entry` in their order. A handler is split where a
device may matter: the keyboard's after its EOI and at each byte, the clock's
between register C and the EOI. `send_eoi` is modelled as it is: for a line of the
slave it also ends line 0 of the master, for want of an `else`. Left out: bytes of the
keyboard from before `i8259_init` (the boot loader's), and the spurious
interrupts 7 and 15, for which `idt.c` has only the endless loop. What
the handlers do to processes and lines is in `Processes` and `Terminal`.

### Keys, CLib, Console

Characters are ASCII codes, the tables are written row by row of the keyboard.
`held` is what the fingers do, `pressed_key` what the handler believes. The right
Alt key sends a prefix and left Alt's code, so letting one go unmarks both; the
property is therefore that a mark implies a held key. Shift with the space bar types
a 0 (there is no entry for it), which ends the command there; shift with the
keypad's 2, 3, 0 and Enter reads behind `shift_convert`, any byte. Ctrl+L and
Alt+Fn are in `Terminal`, `Screen` and `Processes`.

`Console` follows a line from the keys to `getargs`. `verify_file` overwrites `argBuf`
before it looks the name up, so a failing command disturbs too; arguments are
everything behind the name without the spaces. `getargs` is a call, and a test
and a copy per byte; `nbytes` is kept, and nothing in the code looks at it. The
history variables `own` and `quiet` say which command
started a program and whether another `execute` has come since. When one has,
`getargs` may return the other command's arguments or a mixture: one buffer
serves all terminals. `exit` and the process table are in `Processes`: here
`execute` may find the table full at any time.

`LibraryRight` compares the loops of `memcpy` and `memset`, with their change from
bytes to words and back, and `strrev` and `itoa`, with reference definitions (`NumberOf`
reads a number from its digits); it is evaluated when the console starts.

### Blink, Fish

The structures of the pool are numbered, the list is walked along `next` (`Walk`,
`List`) for as many steps as there are structures. A call
of the library is one step: it runs in one process, and nothing else has its
memory. Fields of 16 bits are words of `WORD` values, compared as signed where
`blink.S` does. As the code has it, `mp1_ioctl_sync` always shows the off
character (`testb` leaves the flags `cmovl` looks at cleared) until the
next flip. Location 0 marks a free structure for `mp1_malloc`, and
`mp1_ioctl_add` accepts it: such a structure is linked and given out again, after
which the list may go round and a walk along it never ends (`Cyclic`, `Endless`,
stage `"hung"`). The ghost `zero` says that a blink has come to location 0.
`fish.c:125` truncates a place to 16 bits, so fish itself gets there with a
character at row 818 and column 56, and rows from 819 on are drawn over the picture
(`Location`). A file with inode 0 cannot be read; `add_frames` does not look for the -1
and never leaves its inner loop (`refused`, `Stays`); the column is cut off at `MAX_COLS`.
The other client is the whole library's user: every location up to `Cells`, any
lengths, any order.

### Directory

A system call runs with interrupts on, so a tick can pass the CPU to another
reader between any two uses of `read_dir_index`; `read_dir_index += 1` is a load
and a store in the unoptimised build and two steps here. A listing is what
`src/syscalls/ece391ls.c` does: open, and read until 0 or -1. Two
overlapping listings share the index: they can skip entries, repeat them, push
the index past `num_dentry` and so end with -1. The properties say what remains:
no entry outside the table, an exact listing when no other overlaps it (`alone`),
and an end to a program's listings once the others have stopped opening the
directory: every open sets the one index back to 0, so a program that opens it for
ever can keep another one reading. Opens are not bounded; the index is a word of
`-INT_MAX - 1 .. INT_MAX` that wraps. `LookupExact` is about an operator,
`read_dentry_by_name`, and is checked in all tables of distinct names the run
starts with; a name is a sequence of `FNAME_SIZE` bytes, 0 at the end if shorter.

### Video

The page directory has four entries that are ever present; the model keeps
those, with the present and user bits, the page size and the base. Processes are
what decides the mapping (table, parents, terminals) without stacks. The video
page at 132 MB is set by a tick and by `vidmap` only. After Alt+Fn, after a
`vidmap` called from the background, or when a tick starts terminal 0's
shell while another terminal ran, it shows the screen to a terminal in the
background, or hides it from the one on display, until the next tick
(`Mismatch`). `vidmap` reads `display_terminal` twice with interrupts on, so the
two values may be any. Halts of a shell whose parent is dead are left to
`Processes`.

### Screen, Screens, Grid

`video_mem` holds the terminal on display, `terminal_mem[t]` the others. Printing
is one step per character (callers have interrupts off). The model starts at the
`sti` of `entry` (`kernel.c:164`), with anything on the screens (`Leftover`): keys and
ticks come before, between and after the stores of the boot's `clear()`, which goes on a cell
at a time until a shell has been launched over it (`boot`). A tick while
terminal 0 has no shell clears whatever is on display (`TickClear`). Neither of
the two resets `cursor_ind`; the ghost `wiped` says that one of them came in the
middle of a line. A backspace at the top of the screen stores below the video memory, in a page that is
not present, and stops the machine (`stopped`). The prompt that Ctrl+L prints is one character
and every printable character is taken from `Char`. `Screens` has a
screen per terminal and no memories to exchange; under the mapping `Image` each
step of `Screen` is a step of `Screens`, and `set_active_terminal` a stutter.

## Runs

| run | instance | shows |
|---|---|---|
| `Processes` | 3 slots, 2 terminals, depth 1, a tick nested in a tick | the tables agree in every order of execute, halt, ticks and launches; until the first launch from the keyboard no wrong stack pointer is loaded; `Stacks` is implemented |
| `Processes_live` | 3 slots, 3 terminals, no nested execute or tick | round robin |
| `Processes_wildtick` | 3 slots, 2 terminals, no nested tick | a tick loads a stale stack pointer after a launch from the keyboard |
| `FileRead` | blocks of 3, files up to 7, reads up to 4 | order, loader, progress |
| `SysErr` | 3 slots, 5 descriptors, close up to 5 | clean reuse of slots; marks agree with the program's view, but for a program that closed out of range itself; the error tests pass |
| `Terminal` | 2 terminals, lines of 1 byte, buffers of 2, writes of 1 and 2, reads of 1 and 3 | separation, the line waited for is kept, progress |
| `Interrupts` | 2 readers, 3 frequencies, lines 6 and 14 without a driver, 2 bytes in the keyboard controller | handlers and EOIs for all interrupts, no lost clock tick or key, frequency, one read per interrupt |
| `Screen` | 2 terminals, 2 by 2 cells, lines of 1, from the `sti` of the boot on | refinement of `Screens`, room to erase |
| `Directory` | 2 readers, 2 entries, names of 2 bytes over 2 characters, `INT_MAX` 3, opens without bound | exact lone listings, end of listings, exact look-up |
| `Video` | 4 slots, 3 terminals | isolation of frames, video page right between a tick and the next upset, and repaired by the next tick |
| `Fish` | 2 rows of 3 cells, words of 8 values; texts up to 3 characters, files that cannot be read; 4 calls of the other client | list and pool, lengths of phases, whole pictures, synchronisation, end |
| `Console` | 2 character keys, 4 modifiers (2 held at once), lines of 3, one executable, 2 commands at the other terminal | characters typed, arguments, end of `getargs`, the library's loops |

Why the bounds are enough: three slots allow a parent with a child beside another
terminal's shell, and a full table; depth and nesting of 1 already open every
window. `Processes_live` uses three terminals because with two the search for the
next one is trivial. Blocks of 3 and files of 7 put reads before, on and after
two block ends and the file's end. Terminal buffers of two bytes hold a line and its 0, are
filled by a write of 2, and a read of 3 goes on behind them, for terminal 1 behind
all. A 2 by 2 screen scrolls, wraps and erases over a row end; its lines have 1
character to keep the run short, and the theorems are about every length. An
index of 3 is past two entries by one, and the next store wraps; names of 2 bytes over 2 characters include prefixes of each
other and names without a terminating 0. Four slots let every terminal run a
shell and one of them a child, and fill the table. Lines 6 and 14 stand for
all lines without a driver, one at each controller; with two bytes one can
come while the handler deals with the other. Texts of 3 characters have up to four rows, rows of
different lengths, and no last newline; the third row's first place is location 0 in a word of 8
values, which is more than twice the picture's length of a phase, and in which the other client's length
of 4 is negative; its four calls add, remove from the middle, synchronise and use a structure again.
`EXTRA_ON` and `EXTRA_OFF` are such that the extra blink is out of step before it is synchronised. Lines of 3 are a name, a
space and an argument without a newline, or shorter with one; the other terminal's
commands make the arguments longer and empty. `Callers` leaves `getargs` to the
program of terminal 0: terminals are alike to it. `MAX_TEXT`, `MAX_CALLS`,
`MAX_ROWS`, `MAX_COLS`, `MAX_BYTES`, `MAX_HELD`, `MEM`, `VALUES`, `MAX_DEPTH`, `MAX_NEST`, `MAX_LEN`,
`MAX_READ`, `MAX_FD` are bounds of the model; the theorems hold for every value of
them. Deadlock is not checked for `Processes`, which stops at an exception or a
wrong stack pointer, for `Screen`, which stops at a backspace above the screen, and for
`Fish`, which ends or hangs; it is checked for all others. Round robin needs
`MAX_NEST = 0`: a tick that comes within the few instructions of every other
tick's window would keep the CPU from the programs for ever.

One run ends in a violation and records where the code does not do what a
comment says: `Processes_wildtick`, in which a shell launched by Alt+F2 leaves the
interrupted process with a stale saved stack pointer, which a tick then loads ("Load
in next process's ebp and esp to start running it", `timer.c:101`).
`SoundUntilLaunch` is the weaker form that does hold.

Three more properties that a comment or a test claims are defined and do not hold;
put in the place of the INVARIANTS of their module's configuration, each gives a trace
of a few steps:

- `Screen!DeletesOnScreen`: a key typed before the boot's `clear()` (`kernel.c:171`, with interrupts
  on since line 164), or before that of a tick (`timer.c:68`), can be erased after it, from a cursor
  at the top: `delete_c`, "backspace, delete a char in displaying terminal" (`lib.c:59`), then stores
  in row -1, since `clear()` (`lib.c:80`) does not reset `cursor_ind`. `RoomToErase` says that nothing
  else leads there.
- `Fish!WalksEnd`: a blink at location 0 passes the check "that the location is valid"
  (`src/fish/blink.S:131`), and a later walk along the list never ends. `ListSound` says that
  the list is sound as long as there is none.
- `Console!MoreThanAvailableFails`: `getargs` looks at no `nbytes`, while `insufficient_bytes_test`
  "Makes sure getargs will return -1 when we request more bytes than available" (`tests.c:859`;
  the test is not run), and `some_args_test` wants "only some of the arguments"; the program gets them all. `ArgsOwn` says what
  `getargs` does return.

Other places where text and code differ, seen while modelling and written into
the models as the code has them: an exception stops the machine
(`idt.c:26`), although `src/syscalls/ece391shell.c:31` has a message for a program
"terminated by exception"; `pcb_init` relies on memory being zero at boot for the
bitmap (`BOOT_WORDS`); a write of 2050 bytes or more stores its terminating 0 in
the next terminal's buffer, and a read of more than 2050
bytes goes on there (`Put`, `ByteAt`; `keyboard.c:199`, `225`); `rtc_read` can return for an
interrupt from before its call, although it "Blocks until next interrupt"
(`rtc.c:126`); `close` lets descriptor 8 pass its range check (`syscall.c:505`), whose
flag is the bitmap word of descriptor 6, so that `open` may give out a descriptor
twice (`closeBeyond`; `HeldIsOpen` therefore excludes such a program); a line
typed before the program reads it is overwritten by the program's own
output (`keyboard.c:198`; `WaitedLineKept` is about the lines a program waits
for); `rtc_open`, which "Initializes RTC frequendy to 2 Hz" (`rtc.c:90`), is
never called; a shell that `halt` restarts in another slot gets the dead slot as
parent, so that its own halt is not recognised as "the bottom-most process"
(`syscall.c:154`; the model stops there with `stop = "halt"`, which
`SoundUntilLaunch` excludes before the first launch from the keyboard); a
read that starts inside a file may pass its end, because `read_data` compares the
bytes of this call, not the position, with the length (`filesys_read.c:123`;
`LoadExact` is about the loader, which starts at 0); `terminal_read` returns the
length of what is in the caller's buffer, which passes `count` if the caller asks for less
than the line (`keyboard.c:227`; `sigtest` asks for one byte); a location of fish's picture is cut to 16 bits
(`src/fish/fish.c:125`; `WholeFrame` is about texts that fit), and a file that cannot
be read keeps fish in its loop (`src/fish/fish.c:103`; `FishEnds` is about files that can); the EOI for a master line, "so only send EOI to master PIC" (`i8259.c:170`), is sent
after those for a slave line as well (`OwnService` shows that it does no harm).

## Fairness

- `Processes!FairSpec`: the timer ticks for ever while interrupts are enabled, and
  the few instructions after the handler's `sti` are executed. Nothing is assumed
  of programs, halts or keys.
- `FileRead!FairSpec`: a call that runs goes on (the scheduler is fair by
  `RoundRobin`), and the program asks for at least one byte again and again, like
  `cat`; strong fairness because a program may also make other calls.
- `Directory!FairDirSpec`: a reader gets the CPU again and again and reads until 0 or -1,
  as `ls` does. `ListingEnds` adds, as a premise, that from some time on no other
  program opens the directory.
- `Video!FairSpec`: the timer ticks for ever.
- `Terminal!FairSpec`: a program whose loop can end gets the CPU. Nobody has to type.
- `Interrupts!IntSpec`: the processor goes on with the boot and with handlers, the RTC
  ticks for ever, a request that is granted again and again is taken, and a
  reader whose loop can go on again and again gets the CPU. The latter two are strong
  fairness because other interrupts come in between. `RtcServed` and
  `KeysFetched` add, as a premise, that the interrupts of higher priority leave
  time: a timer that ticks within its own handler for ever would not. `RtcServed`
  says that some reader gets on: two readers of the one flag can starve each other.
- `Console!ConsoleSpec`: a program inside `getargs` or `execute` gets the CPU. Nobody has
  to type and no program has to end.
- `Fish!FairSpec`: fish gets the CPU. `FishEnds` adds, as premises, that its reads of the
  RTC return (`RtcReturns`; with a second reader of the RTC the code does not
  guarantee it) and that its files can be read.

## Proofs

Each `*_proofs` module has the shape: lemmas about the operators; `InvInit` and
`InvStep` (one step per action); the theorem by PTL.

- `Processes`: `IInv` adds to the four safety properties who the CPU works for
  and how nested ticks chain (`WinInv`), that before boot nothing lives
  (`BootInv`), that a terminal not launched is empty (`UnusedInv`), and on whose
  stack contexts lie (`PlaceInv`). They are needed because `TopOfTerminal` is
  kept by a tick only if the process it selects is still on top when the tick
  finishes, and `WaitingChain` only if a process that calls `execute` is on its own
  stack. From it: `TypeCorrect`, `TopCorrect`, `ChainCorrect`,
  `MachineCorrect`, `BottomCorrect`, `SlotsCorrect`. `NoneStranded` says of every
  set that has the tops of the terminals and is closed under `p_pid` that it has
  all live processes; so it needs no recursion, and each step is shown by going
  from such a set after the step to one before it (`StrandedCorrect`).
  `SoundCorrect` needs `OneStack`: while terminal 0 is the only one in use its
  processes fill the lowest slots in order, each the parent of the next, so a
  tick can only select the process it interrupted.
- `Stacks` by `Processes` (`StacksCorrect`): `under` is the parent of every live process
  whose halt loads an `execute` frame and `None` for a bottom shell (`Under`), `run` is
  the process the CPU works for. `BootExecute`, the tick that starts a first shell
  and Alt+Fn are `Launch`, `ExecuteSyscall` is `Begin`, the two halts are `Return` and
  `Replace`; a tick is `Switch` where it loads the other stack pointer, and stutters
  where it only selects. The abstract guards come from `IInv`: that the slot
  `get_pid` gives out is not on a stack, that the program halting is on top, that its
  parent lives and is the next one down. What the abstract specification gives up is
  named there: a switch between two terminals may stop the machine (`WildSwitch`,
  the finding), and nothing is said of the halt of a *stray*, a shell restarted in
  another slot than the one its `p_pid` names (`WildHalt`).
- `FileRead`: `LoopInv` ties block and offset to the position,
  `blk * DATABLK_SIZE + boff = offset + Len(buf)`; from it the order of all bytes
  for every block size.
- `FileDesc`: `WriteNeedsOpen` and `CleanSlot` are inductive together, under
  `BOOT_WORDS = {0}`, and `HeldIsOpen` follows with them. A program that closed
  out of range is excluded by the ghost `beyond`, and only it. `SysErrCorrect`
  follows: a process that holds nothing has a clean table, and on such a table each
  test's calls fail as the test demands; a program that opens descriptors until
  none is left gets `FDESC_SIZE - 2` of them.
- `Terminal`: `TerminalsApart` needs that `line` and the first `PRINT_LIM` bytes of `buf` are
  the terminal's own; `WaitedLineKept` needs that a line entered in a wait belongs to the read that
  is still under way, whose terminal writes nothing until then.
- `Directory`: `AloneInv`, the index of a lone listing is the number of entries it
  has delivered (one less between the copy and the store) and no other
  listing is under way. `LookupCorrect` needs no induction: names that differ differ
  at a position up to the length of the shorter one, or the first 0 behind it,
  and `strncmp` looks at all of these.
- `Video`: `MapInv` gives every entry of the page directory as a function of `curr`;
  `OwnFrameOnly` follows, since frames of different slots differ and lie
  above the kernel's.
- `Rtc`: the flag implies that every reader has been ticked since its last read.
- `Interrupts`: `MachineImplementsRtc` shows the machine to implement `Rtc` (the variables of
  `Rtc` are its own, so the mapping is the identity), which carries the two
  theorems over. `MaskInv`, that from `i8259_init` on only lines with a handler are
  unmasked, is what `OwnHandler` and `OwnService` need to be inductive.
- `Screen`: the cursor's depth (cells from the top left) is at least the length of
  the line being typed, unless `wiped`; scrolling keeps this because a line fits above the last
  row (`LINE_MAX <= (NUM_ROWS - 1) * NUM_COLS`; 128 and 24 * 80), and `stopped` needs a cursor at the
  top with something typed. `ScreensRefined` is the refinement, for every size of screen and
  number of terminals; the boot's `clear()` is `Clear` in parts (`ClearPart`) there.

- `Blink`, `Fish`: `LibraryInv` says, of a library to which no blink at location 0 has come, that there is a sequence of different slots that
  starts at the head, follows `next` to the NULL pointer and has exactly the slots
  in use (`Linked`), and that each of these waits no longer than its phase
  (`OnTime`, which holds with a blink at location 0 too). Adding puts a slot in front of the sequence, removal takes one out
  of it, the other calls leave `next` alone. `WalkIsList` shows that the walk the
  model makes is this sequence: a list without repetition is not longer than the
  pool, so it is not cut off. From it: `ListCorrect`, `TimelyCorrect`. `InStepCorrect`
  needs `Together`: the synchronised blinks also have equal lengths, and the tasklet
  then does the same to both.
  `WholeFrameCorrect` has two invariants, both for files that can be read and texts that fit
  (`Proper`): in a file that cannot be read a row never ends. `ReadInv`: what `add_frames` has read of
  each file ends at the row it is in, and the characters of the row it has taken are
  those of the columns so far; rows and columns are numbers of elements of sets
  (`RowFacts`, `ColFacts`), so a place of the picture has one character (`OnePlace`). `PictureInv`:
  the cell of every place read has a blink with the two characters of the place,
  and status, countdown and screen are those of the number of ticks (`CellInv`);
  different places are different cells (`PlaceInjective`), so the pool always has a slot
  left (`RoomLeft`), and a tick changes quotient and remainder of the ticks as the
  tasklet changes status and countdown (`TickedPhase`). The invariants ask for
  `2 * LENGTH < WORD`, a length that is positive as a signed word: 15 in the code.
- `Keys`: `KeysInv`, a mark implies a key that is down and has this mark; letting go of
  one of two keys with the same mark unmarks both, which keeps it. `TablesPair`
  compares the two tables entry by entry. From it: `TypedCorrect`.
- `Console`: `ConsoleInv`, as long as no other `execute` has come, `argBuf` holds the
  arguments of the program's command and what `getargs` has copied is the beginning
  of it (`Mine`). `SplitFacts` shows for every command that name and arguments
  together are the command without its spaces. From it: `ArgsCorrect`.
- `CLib`: `Moved` is what moving bytes is to do; the loop of bytes moves them one more at
  a time, the loop of words four more, and two adjoining moves are one
  (`MovedTwice`), which gives `memcpy` for every alignment, also with overlapping areas
  when the destination is the lower one. `Swapped` is the string after some of
  `strrev`'s swaps. `DigitsExist` shows that `itoa`'s digits are well defined, because a
  quotient is smaller than its number, and `DigitsRight` that they are the number's.
  Together: `LibraryCorrect`.

Induction over numbers is stated with sets (`LeastOf`, `Induction` in
`Programs_proofs`: a set with 0 and all successors of its numbers has all
numbers), and `Iterates` shows that a function defined by recursion on a number
exists; a theorem about such a function `f` then speaks of the set of the `n` for
which `f[n]` is as claimed.

The assumptions are those on the constants (`...Assumption`, evaluated by TLC
in each run) and the hypotheses named in the theorems. Every invariant and every
action property of the runs, and both refinements, are theorems. Checked by TLC
only is liveness, for which the prover has no rules (`RoundRobin`, `ReachesEnd`,
`WaitEnds`, `RtcServed`, `KeysFetched`, `ListingEnds`, `MismatchEnds`, `FishEnds`,
`GetargsEnds`). The type invariants are proved for every value of the constants and are not
part of the runs, nor is `SlotsNotReused`: the run of `Processes` checks `Stacks` instead,
where a slot on a stack cannot be given out.

## Not modelled

- Boot information, GDT, LDT and TSS descriptors (`kernel.c`, `x86_desc.S`): constants.
- `printf`, `puts` and what the exception handlers print: wording.
- `memmove`, `strcpy`, `strncpy`, `memset_word`, `memset_dword`, `disable_irq`: not used by
  the modelled code.
- The order in which the wrappers save registers: below the level of the places
  on a stack.
- `ece391emulate.c`: runs the user programs under Linux.
- `tests.c`: `RUN_TESTS` is defined (`kernel.c:15`), but every call in the body of `launch_tests` is commented
  out, so no test runs. The demand of one, `insufficient_bytes_test`, is
  `MoreThanAvailableFails`.
- `cat`, `grep`, `counter`, `pingpong`, `hello`, `sigtest`: arbitrary callers of the system calls in every
  module.
