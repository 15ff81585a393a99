# GobyOS: a TLA+ verification project

GobyOS is a 32-bit teaching kernel: a FAT32-like file system on one disk, user
processes with a page directory each, a keyboard driver with a text screen, and
a shell that is itself a user process. The modules in this directory model the
parts of it that keep state over several steps, check them with TLC on small
instances, and prove what matters most of the file system, the shell, the
processes, the keyboard and the clock with TLAPS for every size. Paths below are relative to
`src/` in the repository.

## Inventory

| Part | Files | State | Operations |
|---|---|---|---|
| FAT32 driver | `fat32.c` | boot sector, FAT and clusters on disk; cached FAT, table buffer | initialize, read_directory, read, write, delete |
| Process manager | `process.c` | list of 256 slots, last pid, count of active processes, index of the running one | process_create_user_process, process_destroy, metadata |
| Paging | `paging.c` | map of 32 page frames and a count, 32 page directories, cr3 | allocate frame, create, free and use a directory |
| Scheduler | `scheduler.c` | states in the process list | scheduler_init, scheduler_switch_to_next_process |
| Kernel start | `kernel.c` | none of its own | kernel_setup: frame, shell, first switch |
| Interrupts, system calls | `interrupt.c`, `idt.c`, `intsetup.s` | mask and in-service state of the interrupt controller | system calls 0 to 11, timer, keyboard, page fault |
| Keyboard, cursor | `keyboard.c` | shift, capslock, input flag, buffer and index, cursor | keyboard_isr, activate, copy of the buffer, puts_char |
| Frame buffer | `framebuffer.c` | video memory | write, clear, set cursor |
| Shell | `user-shell.c`, `command.c` | current directory, copy of its table | cd, ls, mkdir, cat, cp, rm, mv, find, exec, ps, kill, clock |
| Clock | `clock.c`, `cmos.c` | none that lasts; the chip goes on by itself | read_rtc, get_timestamp, the clock program, system call 11 |
| Disk | `disk.c` | controller registers | read and write blocks by port I/O |
| Inserter | `external-inserter.c` | a host program | writes files into the image with the driver's `write` |

How they interact. Every system call enters through an interrupt gate, so it
runs with interrupts disabled from its first instruction to its return, and
user processes also run with interrupts disabled. Two calls therefore never
overlap, and the timer cannot preempt. The one exception is system call 4
(read a line): it executes `sti` and spins on a flag that `keyboard_isr` clears.
Only there does an interrupt handler interleave with other code. `exec`
(system call 9) reads the program with the file system's `read`, creates the
process, and calls the scheduler, which switches to a process and does not come
back. The disk survives a loss of power, everything else does not.

What is hard here, and cannot be seen in a test of one call:

* a loss of power after any single cluster write of a call that makes several;
* the cached FAT, which `delete` trusts without reading it back;
* long sequences of creations and deletions, fragmented chains, full tables;
* failed and refused `exec` calls, which stop half-way through taking a slot, a
  pid, a page directory and a page frame, in any order with destroyed processes;
* unchecked results and unbounded searches that are safe only because another
  resource runs out first;
* scancodes that arrive between two reads of the keyboard port, and between a
  newline and the copy of the line;
* commands of the shell that make several calls of the file system, look at
  return codes in integers that were never set, and leave a copy of some table
  and a current directory to the next command;
* a clock chip that goes on while its registers are read one by one.

`PROJECT.json` lists these hazards line by line with the property that covers
each.

## Modules

| Module | Models | Kind |
|---|---|---|
| `Fat32` | `fat32.c` with system calls 0 to 3 | component |
| `FileStore` | what the file system calls promise | abstract specification |
| `Fat32Store` | the mapping from `Fat32` to `FileStore` | refinement |
| `ProcessManager` | `process.c`, `paging.c`, `scheduler.c`, `kernel_setup`, system calls 4, 8, 9 | components composed by `exec` |
| `LineInput` | what system call 4 promises a process | abstract specification |
| `Keyboard` | `keyboard.c`, system calls 4, 5, 7, the keyboard interrupt | component; implements `LineInput` |
| `Shell` | `cd`, `ls`, `mkdir`, `cat`, `rm`, `cp`, `mv`, `find` of `command.c`, the start of `user-shell.c`, the inserter's write | composed with `Fat32` |
| `ShellFind` | what `find` prints, `processDFS` | pure operators over the shell's disk |
| `Clock` | `cmos.c`, `clock.c`, system call 11, with the chip outside | component |
| `MCFat32`, `MCProcessManager`, `MCKeyboard`, `MCShell`, `MCClock` | values for constants | model checking |
| `Fat32Proofs`, `Fat32ContentsProofs`, `Fat32StoreProofs`, `ShellProofs`, `ProcessManagerProofs`, `KeyboardProofs`, `ClockProofs` | theorems about the components | proofs |
| `MinMaxLemmas` | extrema of sets of numbers | lemmas |

An operator whose comment begins with "Mutant:" is not part of a model. It is a
version of the definition after it with a plausible mistake, kept to show that
a property notices the mistake.

### Fat32

`diskFat`, `dirs` and `data` are the disk: the FAT in cluster 1, the bytes of
each cluster read as a directory table, and the part of a file those bytes are.
`fat` is the cached table `driverState.fat_table`. `op` is the call in flight:
which disk write comes next and what the call still needs. A call does its
checks and its first `write_clusters` in one step and each later one in a step of
its own, because `PowerLoss` may come between any two; the write of one cluster
is taken to be atomic. A reading call is one step.

The data are abstracted, the control is not. Names are records of a base and an
extension (both compared as the code compares them, with the all-zero name as a
value); contents are a buffer and the number of a part; the loops over chains
are the sets `Chain`, `LinkUp` and `Release`. `dirs` and `data` are two readings
of the same bytes: a file written into a cluster also becomes the table
`Image[b]` there, and a folder created over old bytes keeps all its rows but the
first, as in the code (`fat32.c:266`). Peculiarities kept as they are:

* the scan in `write` takes the *last* unused row and never reaches row 63;
  with none unused it takes row 0, the folder's own entry;
* `write` marks row `parent_cluster_number` of the table as in use
  (`MarkRow`, `fat32.c:233`). Rows from 64 to 127 lie in a buffer nobody reads;
  behind that the step ends in `wild`;
* the scan for an empty FAT word goes on to 0x800 behind the 512 words.
  `AliasWords` says how many empty words it may meet there; taking one ends in
  `wild`;
* `read_directory` and `read` test `attribute == 1` for a folder where `write`
  stores 16, so `read_directory` never accepts a folder and `read` copies one;
* a duplicate is looked for in unused rows and in row 0 too;
* `delete` walks the cached FAT; a walk that leaves the map ends in `wild`.

`wild` means that the call left the driver's own data. Nothing is claimed about
what happens then: invariants say `Defined =>`.

Callers pass parents from cluster 2 on, since 0 and 1 are not directories.
`PlainFiles` states two more facts about callers, on which everything said of
entries rests: they pass no empty name, and files hold text, so that the bytes of
a file read as a table have no row in use (no 0xAA at a row's `user_attribute`)
and no name that is passed to a call. `MCFat32` assumes it of its instances, and
the theorems have it as a premise. It is needed: a delete of the empty name finds
the row that `MarkRow` marked, and a file that looks like a table makes `write`
accept its cluster as a folder. `Shell` does pass the empty name, as the code
does, and leaves the driver's data where the code does.

### FileStore and Fat32Store

`FileStore` is the file system a caller has in mind: `files` with a folder, a
name, a size and a text, `folders` that lead from an entry to a number, and
`tables`, the numbers that calls take for a parent. A call that changes nothing
is one step, with the answers that are right for what is there. One that changes
something begins, which is when a delete takes effect, and ends, which is when
what was written appears, whole. Nothing else changes the store but `PowerLost`:
what the call under way was making has appeared or not, and a file whose write
was cut off may hold anything of the right length. Folders need two variables
because power can be lost between the two disk writes that make or remove one;
`FileStore` says that this may leave an entry without a table or a table without
an entry, and nothing else.

`Fat32Store` reads a store off the disk after every disk write. `Complete` are
the entries but for the one whose call is not at its end; a file's text is what
its chain holds; tables are the clusters that `write` accepts as a parent.
`StorePending` is what the call in flight was asked for. Two properties say that
the driver implements it:

* `ImplementsStore`: its steps are steps of `FileStore` or leave the store alone;
* `CallsAsAsked`: each call is the step of `FileStore` with the *same* folder,
  name, size and buffer. The first alone would let a read answer for another
  size, or a delete take another file than the one named.

`FileStore` leaves open what the code does to be unlike any file system:
`read_directory` answers 0 or 1 for whatever it finds, `read` copies a folder,
`delete` may refuse an empty folder (the row that `MarkRow` marks), and a call
may leave the driver's data (`LeavesDisk`). It does not allow what
happens to a full folder, where `write` returns 0 with the entry in row 0, which
no call looks at: `HasRoom` excludes full folders, and `FewNames` is a condition
on callers that keeps it: fewer names than a table has rows for.

### Shell

`Shell` extends `Fat32`. A command that begins one call of the file system is one
step, its lookups included, and the disk writes of that call follow as `Fat32`'s
own actions. The shell keeps `current_directory` and `dir_table`, a copy of some
directory's table. Most commands begin with a fresh copy of the current
directory's table; `cat` uses the copy as it is. Kept from the code: every
command that finds a folder of its argument's base name goes into it, `rm` and
`cp` stay there; `cd ..` replaces the copy and not the directory; an argument
without a dot makes `rm` delete the empty name, and that call ends in `wild` when
it finds the row `MarkRow` marked. `rm` never deletes a folder it can see, since
it goes into the folder first.

`cp` and `mv` are a step for each of their calls, with what they remember in
`job`. Both read the source, delete the destination and write it; `mv` then
deletes the source, and for a destination without a dot writes twice, first under
the empty name and then under the old one (`again`). What the code leaves
unspecified is a choice:

* return codes are bytes stored into integers that were never set. `garbage`
  says whether the rest of the integer is zero or hides every code from the
  comparisons; `overlooked` counts how often it did, up to `MaxOverlooked`.
  `cp` is not exposed: it asks for equality with 0 and stops otherwise;
* a buffer of zeros that a text fills to its last byte has no end for `strcpy`,
  and a source of more than one cluster is read over the stack (`Overrun`): both
  end in `wild`;
* the source of `cp` and `mv` is read up to the second word, so a name with an
  extension shorter than three characters keeps the space behind it
  (`SourceName`); `mv` of a source without a dot looks for the first eight
  characters of both words together (`PairName`), and with hidden return codes
  writes whatever lies at address 0 under that name.

Where a destination is not found `mv` looks at row -1 of its table copy. The
bytes before it are zero in the build's layout, so the row is no folder.

`find` changes nothing but the copy, and what it prints is a function of the
disk, in a module of its own (`ShellFind`): `FindFrom` are its rounds over the rows of the root, `processDFS` the
recursive walk, `found` what it printed, `skip` and `marks` the arrays of visited
rows, which a file's row spoils in the level above. The mark the first round asks
for lies before the array; both values are tried.

The disk is filled before by the inserter's calls of `write` into the root. In
this module `ReqNames` holds the arguments, and `RoomAssumption` says that a
folder has a row for all of them: what `write` does to a full folder is checked
with `Fat32`. Power stays on.

### ProcessManager

`list` is `_process_list` with the fields that decide anything, `frame_map` and
`free_frames` are `page_manager_state`, `dir_used` and `dir_map` the page
directories, `mem` what is loaded in a frame, `cr3` the active directory, `slot`
the slot switched to last. `cpu` says where control is; `spin`, `dead` and `wild`
are the ways it can be lost. Each system call is one step, by the argument
above. Whether the file system finds the program is a choice (`found`).

`Exec` contains the whole path: the early load over the caller's page 0
(`process.c:13`), the checks, slot, pid, directory, frame, the second load, the
failure path through `process_destroy`, and the scheduler with its
`scheduler_init`. Kept as they are: the "physical address" of a frame is the
count of free frames, so all processes get frame 0 (`MappedFrame`); frames are
never given back, since `process_destroy` returns 0 and the caller takes that for
failure; `current_running_process_index` is pid - 1; the search looks at the
first `SCHED_SLOTS` slots; the active process count is decremented by a failed
creation that never incremented it. Destroying the running process clears the
active directory; the processor goes on from its translation cache until the
next load of cr3.

### Keyboard and LineInput

`queue`, `last` and `irq` are the keyboard controller, an external component
modelled from how the code uses it: scancodes wait in a queue, a read with
nothing there returns the last one again, and a request is raised for the next
one. Whether the read of a scancode withdraws a request that is already pending
depends on the controller, so both happen (`InAgain`). `inservice` is the
interrupt controller waiting for `pic_ack`. The handler is one step on its early
returns. On the path that reads the port a second time it is two, `IsrOn` and
then the case for the character, because scancodes arrive in between.

Scancodes are classes of keys: a letter (no shifted character in the table), a
digit (with one), enter, backspace, tab, the modifiers, and codes without an
entry. Printed text is newlines and other characters. The cursor variables keep
their uint8_t arithmetic with `BYTE` for 256. Characters in video memory are left
out. A store behind `keyboard_buffer` ends in `wild`.

`LineInput` has three phases (off, typing, ready) and says that a line grows at
its end, shrinks at its end, and is delivered as it was when entered, cut to the
length asked for. The refinement mapping takes the phase from `pc` and
`keyboard_input_on`, and the line from the buffer up to `buffer_index` while
typing, up to the terminator afterwards. It allows keys to be lost: they are
(see `ScancodesProcessed`).

### Clock

The chip is external and modelled as the emulator the makefile starts has it:
`BeginUpdate` sets the flag, `Tick` clears it and moves all registers at once;
`Register` is what a register shows in each of the four formats (BCD or binary,
12 or 24 hours). `read_rtc` is a step for the wait, one for each register and one
for the conversion, so an update may fall between any two register reads and the
reading may mix two times. `Show` is the clock program, which adds 7 to the hour
without a carry, `Answer` system call 11, which stores the timestamp as a truth
value. The timestamp is kept as days and seconds of the day, because the product
goes beyond TLC's integers. `HourUnderstood` takes noon and midnight of a
12-hour chip out of what is claimed: the conversion exchanges them
(`cmos.c:46`), and nothing in the repository says otherwise.

## Runs

| Run | Instance | Shows |
|---|---|---|
| `fat32_store` | map of 5 words, 6 rows, two names, folders in folders, files of one and two clusters | `ImplementsStore`, `CallsAsAsked`, `HasRoom`, and `LinksSound`, `NoDangling`, `NoCrossLink`, `FoldersOwnTheirCluster`, at every disk write, with power lost at any |
| `fat32_flat` | map of 6 words, 4 rows, three names, two contents, a size no map can hold | `EntriesKept`, `FilesUntouched`, `WriteComplete`, `CacheCoherent`, `LinksSound`, `NoCrossLink`, over fragmented files, in full folders and with failed writes |
| `process_manager` | 8 slots, directories and frames, 4 slots searched, two programs | every sequence of creations, failures and destructions until frames are used up |
| `shell` | map of 6 words, 12 rows, names with and without a dot and the empty one, files and folders, texts of one and two clusters | `InsideAFolder`, `ParentsKnown`, `CopyNeverDangles`, `CopyComplete`, `MoveKeepsText`, `FindComesBack` after every sequence of commands |
| `keyboard` | buffer of 3, queue of 2, 2 by 2 screen, 7 classes of keys | `KeyboardNeverStalls`, `DeliversLines` |
| `clock` | starts around every carry of the calendar, four formats, three updates | `NeverBehind`, `ExactWithinAMinute`, `TimestampFollows`, `ReadingEnds` |

Bounds. A map of five or six words leaves clusters 3 to 4 or 5 for data: enough
for a folder with a file in it, for two files of which one is fragmented around
the other, and for a full map; the proofs cover every larger one. Four rows are
full after two entries; six are what `FewNames` asks for two names. Eight frames
allow six processes after the first frame and the stack frame, more than the four slots
searched, so both sides of that limit are reached. A buffer of three holds a line
of two with its terminator and overflows. Two queued scancodes are what the
second read needs: one it takes and one behind it. Three data clusters give the
shell a folder in a folder and a file beside them, or a file, its copy and a
folder; twelve rows are what `RoomAssumption` asks for eight names. One
overlooked return code (`MaxOverlooked`) shows every branch of `mv`, and bounds
how often it fills the disk with files nobody asked for. Three updates
(`MaxTicks`) reach every carry from starts one or two seconds before it, with
another update while the reading goes on. Apart from these two, no bound is put
on a model: they are finite by themselves. Names and contents are symmetric in
the file system and shell runs.

Disagreements. Six runs check a sentence of a comment or of the repository's
README that the code does not keep; `findings` in `PROJECT.json` quotes it.

| Run | What TLC shows |
|---|---|
| `v_EmptyFolderDeletable` | a folder in which a file was created and deleted is refused as not empty, because of the row `MarkRow` left |
| `v_SignatureMeansFormatted` | power lost after the boot sector was written: the next boot takes an unformatted disk for a file system |
| `v_FramesPrivate` | two processes have page 0 in the same frame |
| `v_ReadyProcessRuns` | a process that was switched away from never runs again |
| `v_ScancodesProcessed` | a scancode is lost at the second read of the port |
| `v_FindFindsAll` | `find` does not go into a folder whose row number is that of a file in a folder it went through before |

Fairness. Two runs need it. `FairSpec` of `ProcessManager` says that a running
process asks for a line again and that lines get typed: the shell is a loop
around system call 4, and without a user nothing happens in this system. It does
not assume that anyone calls `exec`. The counterexample is a shell that waits
for lines for ever while another process is READY. `FairSpec` of `Clock` says
that the program and the chip's update go on (weak fairness), and that the wait,
which polls a flag that is set for two thousandths of a second in each second,
finds it clear at some time (strong fairness). It does not say that the chip
starts another update.

## Proofs

Thirty-five theorems, every leaf checked by TLAPS for all values of the constants
that satisfy the named assumptions of their module. `theorems` in `PROJECT.json`
says of each which property of a run it generalises.

### Fat32Proofs

`PlainFiles /\ Spec => []...` of `TypeOK` (`TypeCorrect`), `LinksSound`
(`ChainsSound`), `CacheCoherent` (`CacheKept`), `NoDangling` (`NothingDangles`),
`NoCrossLink` (`NothingShared`) and `FoldersOwnTheirCluster` (`FoldersApart`), for
maps, tables, files and requests of every size and power lost after any disk
write. Assumptions: `SizeAssumption`, `RequestAssumption`, `PlainFiles`.

None of the properties is inductive alone: that a chain is disjoint from the
others says nothing about a cluster that is allocated and not yet entered, or
removed from its folder and not yet released. The invariant `IInv` rests on
`DiskInv`, which says of the disk (`Links`, `Sound`):

* the words of the map are ascending links without common successor, and the
  reserved words are intact or the map was never written;
* a cluster whose table has a row in use is a whole chain of its own
  (`TablesOwned`) and no cluster links to it (`Leads`);
* the target of an entry leads its chain, a folder's is one cluster, a file's is
  no table (`EntriesOwn`), and no two entries have one target (`OneOwner`);
* a name stands only in rows in use (`NamesUsed`), since a row is taken and
  marked without its name being looked at;
* the row `MarkRow` marks never holds an entry (`MarkRows`): the first entry of
  a table marks it before the scan for an unused row comes down to it;

and of the call in flight (`CallSound`), for each disk write that is to come,
what it relies on: the chain it will enter or release is `Fresh`, which means
allocated, led by its cluster, no table, and the target of no entry. The FAT's
part rests on lemmas about chains as least closed sets: the chains of two leading
clusters are disjoint (`ChainsDisjoint`), allocation adds one chain
(`Allocation`), release takes one away (`Releasing`), and the failed write puts
back exactly what it took (`Undone`). The tables' part rests on one lemma for each
kind of disk write: `NewEntry`, `EntryRemoved`, `TableWritten`, `NewFat`. Then
there is one lemma per action.

The lemmas are stated so that the shell, which breaks `PlainFiles`, can use
them. An entry is a row in use whose name no text has (`Visible`), or one of the
empty name with a cluster, if the nameless rows of texts have none
(`PlainBlanks`). A delete of the empty name that hits the marked row starts its
walk at cluster 0 and leaves the map: `Known` ends there (`Stuck`), and no later
call runs.

### Fat32ContentsProofs

* `RowsKept`: `EntriesKept` (an action property): the mark never falls on an
  entry (`MarkRows`), nor does a new entry;
* `ContentsUntouched`: `FilesUntouched`. A file keeps its contents when the words
  and the bytes of its clusters are kept (`ContentsKept`), and every step keeps
  them: what is written is a table, a fresh chain, or another file's chain
  (`GoingOnAlike`, `DeleteLeavesFiles`, `WriteTakesWords`);
* `WholeFileStored`: `WriteComplete`. The invariant `CInv` adds to `IInv` how far
  the write has come: the allocated chain has as many clusters as the size needs
  (`Measured`); the cluster that is next is the rest of the new entry's chain
  (`OfItsEntry`), the parts before it are in the clusters before it
  (`PartsWritten`), a part's number being what the chain is long less what is
  left of it. That a chain is its first cluster and the shorter chain behind it
  (`ChainStep`) makes `ChainAt` the walk.

Premise and assumptions are those of `Fat32Proofs`.

### Fat32StoreProofs

* `StoreImplemented`: `PlainFiles /\ Spec /\ []HasRoom => ImplementsStore`;
* `CallsKept`: the same for `CallsAsAsked`;
* `RoomKept`: `PlainFiles /\ FewNames /\ Spec => []HasRoom`, and from the three
  `FewNamesImplemented`, which has no premise about states.

The invariant is `SInv` (`StoredInvariance`): that of `Fat32ContentsProofs` with

* `TablesTidy`: in every table, also one of a deleted folder that a later one is
  built over, the last row never has a name, a row in use has a caller's name or
  is the one that `MarkRow` marks, names differ, and a table with a row in use is
  a folder. Names differ because `write` looks for a duplicate in all rows but
  the last, used or not, and puts no entry into the last one;
* `CallStored`: between its first disk write and its last, a call knows that its
  name was free, and its entry stands in the row it chose;
* `Unanswered`: no call has answered before its end.

The mapping is then a matter of which rows are `Entries`. A lemma for each kind
of disk write says how that set and the rows in it change (`RowGone`,
`ParentKeepsStore`, `FolderMade`, `FilePartStored`, `DirsKeepStore`), and
`StoreSame`, `StoreGrows` and `StoreShrinks` carry it over to files and folders,
with the texts kept by `ContentsUntouched` and made whole by `WholeFileStored`.
`NameFound` and `NameMissing` tie what a scan for a name finds to what the store
has of that name. A write's entry is on disk before its data: it is outside
`Complete` until the call ends, and a loss of power in between is the case
`LossInFileStored`, where `PartsWritten` gives the length of what is there.

`RoomKept` is a count. Rows in use have different names, the marked row apart,
so a full folder would need a name for each row that `write` looks at
(`TidyRoom`, by the pigeonhole principle). For the code's 64 rows that is
fewer than 61 names. Nothing in the code bounds the names of a folder, so
without `FewNames` the theorems say what holds as long as no folder is full.

### ShellProofs

`PlainTexts /\ ShellSpec => []...` of `ShellTypeOK` (`ShellTypeCorrect`),
`InsideAFolder` (`NeverOutside`) and `ParentsKnown` (`WayUp`), and the action
property `CopyNeverDangles` (`CopyHolds`), for disks, sets of names and texts of
every size. Assumptions: those of `Fat32`, `ShellAssumption`, `RoomAssumption`.
`PlainTexts` says that files hold text; `MCShell` assumes it of its instance, so
TLC evaluates it there.

The invariant `ShellInv` has the file system's `CountInv`, the tree and the place
of the shell in it, the last two as long as the call in flight is `Known`:

* `Tree`: rows tell what was created (`RowsCreated`), names in a table differ
  from each other and from the folder's own (`NamesDiffer`), tables are folders,
  an entry of a folder leads to a table that names the entry and the folder it
  is in (`DownSound`), and back (`UpSound`), but for the folder being made or
  deleted;
* `CallTree`: what the folder or file about to be entered has been checked for;
* `Place`: the current directory and the one `mv` goes back to are folders and
  not the one being deleted; while `mv` works they are at most one level apart
  (`Above`); the source has no folder's name; and when `rm` deletes a folder, the
  copy's first entry of that base name is not a folder.

`RoomAssumption` enters through a count: fewer names than rows leave one unused,
so the new entry never takes row 0, the folder's own. That no command deletes
the folder the shell is in has three reasons, which the proof of `Place` takes
apart: a folder's own row carries its name, so a call made inside it does not
find the folder under that name; `delete` refuses a folder with a row in use,
so none above the current directory goes; and `cp` and `mv` delete only names in
the folder they are in, or in the one the source was read from.

The texts. `PlainTexts /\ ShellSpec => []...` of `CopyComplete` (`CopyIsComplete`) and
`MoveKeepsText` (`MoveLosesNothing`), from the same assumptions. The invariant is
`ShellInv /\ TextsKnown` (`TextsInvariance`); as long as the call in flight is
`Known`, `TextsKnown` says:

* `FilesWhole`: a file that no write is filling holds the parts of one text, in
  order. What `read` returns 0 for is therefore the whole text of its file, and
  one cluster of it is all `cp` and `mv` keep (`TextOfSource`);
* `JobText`: from its read on, the source of `cp` holds the text, unless it is the
  destination too; behind the write of `cp`, or of a `mv` that sees what its calls
  return, the destination holds the text (`Delivered`), is being filled with it
  (`Filled`), or the write was refused (`Refused`); a `mv` that has gone on is
  `Delivered`.

A step keeps a file when it keeps its row and the words and bytes of its chain
(`Stays`, `FileStays`); the steps of the calls do so for every file but the one
deleted (`OthersStand`) and the one being filled (`FilesGoOn`, `FilledDelivers`).
`WriteLeads` needs `RoomAssumption`: a write in a folder begins or finds the name
taken, and the row it takes is not the folder's own. `mv` stops on the code 1 if
it sees it, which is why `MoveKeepsText` is about an integer that hides nothing.

### ProcessManagerProofs

* `TypeCorrect`: `Spec => []TypeOK`;
* `TablesSuffice`, `SearchEnds`: the unchecked searches for a slot and a page
  directory never fail, and the scheduler's search ends;
* `PidsDiffer`, `ProcessesDistinct`: pids are distinct, directories and live
  processes correspond one to one;
* `FrameMapCorrect`: map and count of frames agree;
* `ExecSwitches`: a successful `exec` into a searched slot runs the new program
  under its own directory (an action property).

Assumptions. `ConstantAssumption`: sizes are natural numbers, a program
and its stack need at least one frame and fewer than there are, the number of
frames is smaller than the size of one (so that the mapped frame is 0).
`FramesAreScarcest`: there are at most as many frames as slots and as page
directories. In the code these are 32, 256 and 32, and the second theorem is
false without it: nothing else keeps the tables from overflowing.

The argument. None of the properties is inductive alone. `IInv` adds three facts.
`Budget` says that live processes and free frames together are less than all
frames: every creation spends at least one frame, failed ones too, none comes
back, and the kernel spends one before the first process. After the check for
enough frames there is thus a free slot and, by `DirsMatch`, a free directory.
`SearchedSlotsRan` says that among the searched slots only slot 0 is ever left
READY; so after `scheduler_init` and the demotion of the running slot, the new
process or slot 0 is found. `DirsMatch` and `PidsDistinct` are the one-to-one
facts without the premise that the kernel is up. `ExecSwitches` needs
`MapsFrameZero` besides: since every directory maps page 0 to frame 0, what was
loaded there last is what the chosen process sees. The proof has one lemma per
action and one per search (`MinMaxLemmas` for the extrema of sets of numbers).

### KeyboardProofs

`TypeCorrect` and `NeverStalls` need each other (`Inv`): the handler's later
steps find the port as its first step left it. `LinesDelivered` is the
refinement: every step of `Keyboard` is a step of `LineInput` or leaves its
variables alone, for every buffer, screen and set of keys. Its invariant
`LineInv` says that the buffer has no terminator before `buffer_index` while a
line is typed, and one somewhere behind it when input is off, so that the line
the mapping reads is the line that was typed. `EndIsLength` and `LineStored` are
the facts about that mapping. Assumption: `KeyboardAssumption`.

### ClockProofs

`ReadingsNeverBehind`: the invariant `ReadingInv` compares `began` with the time
`Mix` made of the fields read so far and, for the others, the chip's present
ones. Each tick only moves `Mix` up, because fields are read from the least to
the most significant one and a carry into an unread field outweighs what the
read ones miss. `DecodeRegister` shows that the conversion undoes the register
coding in every format, apart from `HourUnderstood`. `TimestampCounts` proves
that `get_timestamp` steps with the calendar for all of 2023 to February 2100;
`TypeCorrect` is its base. Assumption: `ClockAssumption`.

`ExactWithin` proves `ExactWithinAMinute`. Its invariant `ExactInv` carries, as
long as the chip is still in the minute, hour, day, month and year in which the
reading began (`SameMinute`), that each field above the seconds was read as it
was at the start and that the seconds lie between the start and now. A tick that
leaves the minute ends the premise for good, since the fields never come back
to where they were (`SameMinuteBefore`).

### Only model-checked

`FindComesBack` of `ShellFind`, whose walks are recursive operators, which the
provers do not take; and everything about fairness (`ReadingEnds`,
`ReadyProcessRuns`), which the proof system does not handle.

## Not modelled

Video memory and register programming of the controllers (no property depends on
them), GDT, IDT and TSS contents, port I/O of the disk (the write of a cluster is
one step), byte loops in `stdmem.c` and `string.c`, the splitting of the command
line into words with its fixed buffers, decimal formatting, the reading of host
files by `external-inserter.c`, and code without a caller (`put_char`,
`init_directory_table`, `scheduler_save_context_to_current_running_pcb`). `ps`,
`kill` and `exec` of the shell are single system calls of `ProcessManager` and
have no model of their own beside it.

## Plan

What is left, in this order:

1. `FatLoops`: the loops of `write` and `delete` as recursive functions, checked
   against `LinkUp`, `Release` and `Chain` for every small map.
2. The splitting of the command line, at the limits of its buffers.
