--------------------------- MODULE ProcessManager ---------------------------
(***************************************************************************)
(* Processes of the kernel: the process list (process.c), page directories *)
(* and page frames (paging.c), the choice of the next process              *)
(* (scheduler.c) and the start of the first one (kernel.c), as driven by   *)
(* the system calls exec (9), process_destroy (8), keyboard wait (4) and   *)
(* get_process_metadata (10) of interrupt.c.                               *)
(*                                                                         *)
(* A system call runs with interrupts disabled until it returns to a       *)
(* process, so each is one step.  Whether the file system finds the        *)
(* program is a choice of the environment.                                 *)
(***************************************************************************)
EXTENDS Integers, FiniteSets, FiniteSetsExt

CONSTANTS
  PROCESS_COUNT_MAX,                 \* slots of _process_list (256)
  PROCESS_PAGE_FRAME_COUNT_MAX,      \* 1024
  PAGING_DIRECTORY_TABLE_MAX_COUNT,  \* page directories (32)
  PAGE_FRAME_MAX_COUNT,              \* page frames (32)
  PAGE_FRAME_SIZE,                   \* bytes of a frame (1 << 22)
  EXEC_SIZE,                         \* buffer_size of every load (0x100000)
  SCHED_SLOTS,                       \* slots the scheduler searches (16)
  Programs,                          \* names passed to exec
  Shell                              \* the program kernel_setup starts

Slots  == 0 .. PROCESS_COUNT_MAX - 1
Dirs   == 0 .. PAGING_DIRECTORY_TABLE_MAX_COUNT - 1
Frames == 0 .. PAGE_FRAME_MAX_COUNT - 1

NULL      == -1   \* no page directory
KERNEL_PD == -2   \* _paging_kernel_page_directory
NoProgram == ""   \* the zeroed name

ceil_div(m, n) == (m + n - 1) \div n
FramesNeeded == ceil_div(EXEC_SIZE + PAGE_FRAME_SIZE, PAGE_FRAME_SIZE)

ASSUME ConstantAssumption ==
  /\ PROCESS_COUNT_MAX \in Nat
  /\ PROCESS_PAGE_FRAME_COUNT_MAX \in Nat
  /\ PAGING_DIRECTORY_TABLE_MAX_COUNT \in Nat
  /\ PAGE_FRAME_MAX_COUNT \in Nat
  /\ PAGE_FRAME_SIZE \in Nat /\ PAGE_FRAME_MAX_COUNT < PAGE_FRAME_SIZE
  /\ EXEC_SIZE \in Nat
  /\ FramesNeeded \in 1 .. PAGE_FRAME_MAX_COUNT - 1
  /\ FramesNeeded <= PROCESS_PAGE_FRAME_COUNT_MAX
  /\ SCHED_SLOTS \in Nat \ {0} /\ SCHED_SLOTS <= PROCESS_COUNT_MAX
  /\ Shell \in Programs

\* There are no more frames than slots and than page directories (32, 256
\* and 32): frames run out first.
ASSUME FramesAreScarcest ==
  /\ PAGE_FRAME_MAX_COUNT <= PROCESS_COUNT_MAX
  /\ PAGE_FRAME_MAX_COUNT <= PAGING_DIRECTORY_TABLE_MAX_COUNT

VARIABLES
  list,        \* _process_list: pid, state, program, page directory
  last_pid, active_process_count, current_running_process_index,
  frame_map, free_frames,  \* page_manager_state
  dir_used,    \* page_directory_used
  dir_map,     \* dir_map[d]: the frame virtual page 0 of d is mapped to
  mem,         \* mem[f]: the program loaded in frame f
  cr3,         \* the active page directory
  cpu,         \* where control is: see Places
  slot,        \* the slot whose context was switched to last
  ret          \* what the last exec returned

procs  == <<list, last_pid, active_process_count, current_running_process_index>>
frames == <<frame_map, free_frames>>
pages  == <<dir_used, dir_map>>
vars   == <<procs, frames, pages, mem, cr3, cpu, slot, ret>>

(***************************************************************************)
(* boot  kernel_setup has not started a process                            *)
(* user  a process runs, with interrupts disabled                          *)
(* wait  a process waits for a line in system call 4, interrupts enabled   *)
(* spin  scheduler_switch_to_next_process searches forever                 *)
(* dead  the active page directory maps no kernel: the processor stops     *)
(* wild  the kernel wrote outside its tables                               *)
(***************************************************************************)
Places == {"boot", "user", "wait", "spin", "dead", "wild"}

PCBs == [pid : Nat, state : {"TERMINATED", "READY", "RUNNING"},
         name : Programs \union {NoProgram}, pd : Dirs \union {NULL}]
ZeroPCB == [pid |-> 0, state |-> "TERMINATED", name |-> NoProgram, pd |-> NULL]

Alive(l)   == {i \in Slots : l[i].state # "TERMINATED"}
HasPid(l, pid) == {i \in Alive(l) : l[i].pid = pid}

Init ==
  /\ list = [i \in Slots |-> ZeroPCB]
  /\ last_pid = 0 /\ active_process_count = 0
  /\ current_running_process_index = -1
  /\ frame_map = [f \in Frames |-> f = 0]
  /\ free_frames = PAGE_FRAME_MAX_COUNT
  /\ dir_used = [d \in Dirs |-> FALSE]
  /\ dir_map = [d \in Dirs |-> NULL]
  /\ mem = [f \in Frames |-> NoProgram]
  /\ cr3 = KERNEL_PD /\ cpu = "boot" /\ slot = 0 /\ ret = 0

-----------------------------------------------------------------------------
(* paging.c *)

paging_allocate_check(n, free) == n <= free

\* The mapped "physical address" is the number of free frames, so the frame
\* it lies in is bits 22 to 31 of that number.
MappedFrame(free) == (free \div PAGE_FRAME_SIZE) % 1024

\* The frame of virtual page 0 under a directory.  A cleared directory that
\* is still active works from the translation cache.
FrameOf(d) == IF d \in Dirs /\ dir_map[d] # NULL THEN dir_map[d] ELSE 0

\* Mutant: one frame too far.
TakeFrameNext(map, free) == [map EXCEPT ![PAGE_FRAME_MAX_COUNT - free + 1] = TRUE]
\* The frame that is marked: the next one by the count.
TakeFrame(map, free) == [map EXCEPT ![PAGE_FRAME_MAX_COUNT - free] = TRUE]

UnusedDirs == {d \in Dirs : ~dir_used[d]}
\* paging_create_new_page_directory
NewDir == IF UnusedDirs = {} THEN NULL ELSE Min(UnusedDirs)

\* Mutant: the directory is cleared and stays marked as used.
ClearedNotFreed(d) ==
  /\ dir_map' = [x \in Dirs |-> IF x = d THEN NULL ELSE dir_map[x]]
  /\ UNCHANGED dir_used
paging_free_page_directory(d) ==
  /\ dir_used' = [x \in Dirs |-> dir_used[x] /\ x # d]
  /\ dir_map' = [x \in Dirs |-> IF x = d THEN NULL ELSE dir_map[x]]

-----------------------------------------------------------------------------
(* process.c *)

\* Mutant: only the slots the scheduler searches are considered.
InactiveSearched(l) ==
  LET S == {i \in 0 .. SCHED_SLOTS - 1 : i \notin Alive(l)}
  IN  IF S = {} THEN -1 ELSE Min(S)
\* process_list_get_inactive_index
InactiveIndex(l) == IF Alive(l) = Slots THEN -1 ELSE Min(Slots \ Alive(l))

\* Mutant: pids are numbered by the processes alive.
NewPidByCount(l, last) == Cardinality(Alive(l)) + 1
\* process_generate_new_pid: the next number no live process has.
NewPid(l, last) ==
  Min({p \in last + 1 .. last + PROCESS_COUNT_MAX + 1 : HasPid(l, p) = {}})

\* The effect of process_destroy on the list: the first live slot of the pid.
DestroySlot(l, pid) == Min(HasPid(l, pid))
Erase(l, i) == [l EXCEPT ![i] = ZeroPCB]

-----------------------------------------------------------------------------
(* scheduler.c *)

\* scheduler_init marks slot 0 RUNNING.
SchedulerInit(l) == [l EXCEPT ![0].state = "RUNNING"]

\* The first RUNNING slot becomes READY.
RunningSlots(l) == {i \in Slots : l[i].state = "RUNNING"}
Preempted(l) ==
  IF RunningSlots(l) = {} THEN PROCESS_COUNT_MAX ELSE Min(RunningSlots(l))
\* Mutant: the process that ran stays RUNNING.
DemoteNone(l) == l
Demote(l) ==
  [i \in Slots |-> IF i = Preempted(l) THEN [l[i] EXCEPT !.state = "READY"] ELSE l[i]]

\* The search starts behind that slot and goes round the first SCHED_SLOTS.
\* Mutant: ... or at that slot.
SearchFromSame(i, k) == (i + k - 1) % SCHED_SLOTS
SearchOrder(i, k) == (i + k) % SCHED_SLOTS
Candidates(l, i) ==
  {k \in 1 .. SCHED_SLOTS : l[SearchOrder(i, k)].state = "READY"}
NextSlot(l, i) == SearchOrder(i, Min(Candidates(l, i)))

\* scheduler_init and scheduler_switch_to_next_process, from list l on.
Switch(l) ==
  LET l0 == SchedulerInit(l)
      l1 == Demote(l0)
      i  == Preempted(l0)
      n  == NextSlot(l1, i)
  IN  IF Candidates(l1, i) = {}
      THEN list' = l1 /\ cpu' = "spin" /\ cr3' = l[0].pd /\ UNCHANGED slot
      ELSE /\ list' = [l1 EXCEPT ![n].state = "RUNNING"]
           /\ cr3' = l1[n].pd
           /\ cpu' = IF l[0].pd = NULL \/ l1[n].pd = NULL THEN "dead" ELSE "user"
           /\ slot' = n

-----------------------------------------------------------------------------
(* process_create_user_process *)

\* read comes first, through the page directory that is active.
Loaded(found, name) == IF found THEN [mem EXCEPT ![FrameOf(cr3)] = name] ELSE mem

\* Mutant: memory is not checked.
RefusalByCount == IF active_process_count >= PROCESS_COUNT_MAX THEN -1 ELSE 0
\* The checks before anything is allocated; 0 when they pass.
RefusalCode ==
  IF active_process_count >= PROCESS_COUNT_MAX THEN -1
  ELSE IF \/ ~paging_allocate_check(FramesNeeded, free_frames)
          \/ FramesNeeded > PROCESS_PAGE_FRAME_COUNT_MAX THEN -3
  ELSE 0

NewPCB(name) == [pid |-> NewPid(list, last_pid), state |-> "READY",
                 name |-> name, pd |-> NewDir]

\* The frame taken from the map is not the frame that is mapped.
AllocateFrame ==
  /\ frame_map' = TakeFrame(frame_map, free_frames)
  /\ free_frames' = free_frames - 1

\* The program was read: the new process is counted and a process is chosen.
CreateRuns(p, name) ==
  /\ AllocateFrame
  /\ dir_used' = [dir_used EXCEPT ![NewDir] = TRUE]
  /\ dir_map' = [dir_map EXCEPT ![NewDir] = MappedFrame(free_frames)]
  /\ last_pid' = NewPid(list, last_pid)
  /\ active_process_count' = active_process_count + 1
  /\ current_running_process_index' = NewPid(list, last_pid) - 1
  /\ Switch([list EXCEPT ![p] = NewPCB(name)])
  /\ ret' = 0

\* The program was not read: the slot and the page directory are given back
\* by process_destroy, which counts an active process less.  It returns 0,
\* which the caller takes for failure: the frame is not given back.
CreateUnread(p) ==
  /\ AllocateFrame
  /\ paging_free_page_directory(NewDir)
  /\ last_pid' = NewPid(list, last_pid)
  /\ active_process_count' = active_process_count - 1
  /\ current_running_process_index' =
       IF current_running_process_index = p THEN -1
       ELSE current_running_process_index
  /\ ret' = -4

\* Without a slot or a page directory the kernel writes outside its tables.
NoRoom == InactiveIndex(list) = -1 \/ NewDir = NULL
Overflow == cpu' = "wild" /\ UNCHANGED <<procs, frames, pages, cr3, slot, ret>>

-----------------------------------------------------------------------------
(* kernel_setup *)

\* A frame is taken for virtual page 0 of the kernel's directory.
SetupFrame ==
  /\ cpu = "boot" /\ free_frames = PAGE_FRAME_MAX_COUNT
  /\ AllocateFrame
  /\ UNCHANGED <<procs, pages, mem, cr3, cpu, slot, ret>>

\* The shell is read and started.  Without a shell kernel_setup goes on to
\* scheduler_init with a slot 0 that has no page directory.
SetupShell(found) ==
  LET p == InactiveIndex(list)
  IN  /\ cpu = "boot" /\ free_frames < PAGE_FRAME_MAX_COUNT /\ RefusalCode = 0
      /\ mem' = Loaded(found, Shell)
      /\ IF NoRoom THEN Overflow
         ELSE IF found THEN CreateRuns(p, Shell)
         ELSE CreateUnread(p) /\ Switch(Erase(list, p))

-----------------------------------------------------------------------------
(* System calls of the running process *)

\* System call 9.
Exec(found, name) ==
  LET p == InactiveIndex(list)
  IN  /\ cpu = "user" /\ RefusalCode = 0
      /\ mem' = Loaded(found, name)
      /\ IF NoRoom THEN Overflow
         ELSE IF found THEN CreateRuns(p, name)
         ELSE CreateUnread(p) /\ list' = Erase(list, p) /\ UNCHANGED <<cr3, cpu, slot>>

ExecRefused(found, name) ==
  /\ cpu = "user" /\ RefusalCode # 0
  /\ mem' = Loaded(found, name)
  /\ ret' = RefusalCode
  /\ UNCHANGED <<procs, frames, pages, cr3, cpu, slot>>

\* System call 8.  Whose directory it was does not matter: the active one
\* stays active, and the processor may go on from its translation cache or
\* stop at the next kernel address it has to translate.
process_destroy(pid) ==
  LET i == DestroySlot(list, pid)
  IN  /\ cpu = "user" /\ HasPid(list, pid) # {}
      /\ list' = Erase(list, i)
      /\ paging_free_page_directory(list[i].pd)
      /\ active_process_count' = active_process_count - 1
      /\ current_running_process_index' =
           IF current_running_process_index = i THEN -1
           ELSE current_running_process_index
      /\ cpu' \in IF cr3 = list[i].pd THEN {"user", "dead"} ELSE {"user"}
      /\ UNCHANGED <<last_pid, frames, mem, cr3, slot, ret>>

\* System call 4: interrupts are enabled until a line was typed.  A timer
\* interrupt is acknowledged and nothing else is done for it.
KeyboardWait ==
  cpu = "user" /\ cpu' = "wait" /\ UNCHANGED <<procs, frames, pages, mem, cr3, slot, ret>>
LineTyped ==
  cpu = "wait" /\ cpu' = "user" /\ UNCHANGED <<procs, frames, pages, mem, cr3, slot, ret>>

\* The processor does nothing any more.
Stopped == cpu \in {"spin", "dead", "wild"} /\ UNCHANGED vars

Next ==
  \/ SetupFrame
  \/ \E found \in BOOLEAN :
       SetupShell(found) \/ \E n \in Programs : Exec(found, n) \/ ExecRefused(found, n)
  \/ \E pid \in 1 .. last_pid : process_destroy(pid)
  \/ KeyboardWait \/ LineTyped
  \/ Stopped

Spec == Init /\ [][Next]_vars

\* A process that runs goes on calling the kernel, and lines get typed.
FairSpec == Spec /\ WF_vars(KeyboardWait) /\ WF_vars(LineTyped)

-----------------------------------------------------------------------------
(* Properties *)

\* The values the variables take.
TypeOK ==
  /\ list \in [Slots -> PCBs]
  /\ last_pid \in Nat /\ active_process_count \in Int
  /\ current_running_process_index \in Int
  /\ frame_map \in [Frames -> BOOLEAN] /\ free_frames \in 0 .. PAGE_FRAME_MAX_COUNT
  /\ dir_used \in [Dirs -> BOOLEAN] /\ dir_map \in [Dirs -> Frames \union {NULL}]
  /\ mem \in [Frames -> Programs \union {NoProgram}]
  /\ cr3 \in Dirs \union {NULL, KERNEL_PD}
  /\ cpu \in Places /\ slot \in Slots /\ ret \in {0, -1, -3, -4}

\* Once kernel_setup has started the shell.
Up == cpu \in {"user", "wait"}

\* No two live processes have the same pid, whatever was destroyed and
\* created in between; a pid given once is never given again.
PidsUnique ==
  Up => \A i, j \in Alive(list) :
          /\ list[i].pid \in 1 .. last_pid
          /\ i # j => list[i].pid # list[j].pid

\* Page directories and live processes correspond one to one: no directory
\* is leaked, shared, or in use without an owner, after failed creations and
\* destroyed processes too.
DirectoriesOwned ==
  Up => /\ \A i \in Alive(list) : list[i].pd \in Dirs /\ dir_used[list[i].pd]
        /\ \A i, j \in Alive(list) : i # j => list[i].pd # list[j].pd
        /\ \A d \in Dirs : dir_used[d] => \E i \in Alive(list) : list[i].pd = d

\* process_list_get_inactive_index never returns -1 and
\* paging_create_new_page_directory never returns NULL where
\* process_create_user_process uses the result unchecked: page frames, which
\* are never given back, run out before slots and directories do.
TablesNeverOverflow == cpu # "wild"

\* scheduler_switch_to_next_process always finds a READY process in the slots
\* it searches.
SchedulerTerminates == cpu # "spin"

\* The map of used frames agrees with the count of free frames.
FrameMapMatchesCount ==
  \A f \in Frames : frame_map[f] <=> f < PAGE_FRAME_MAX_COUNT - free_frames \/ f = 0

ExecStep ==
  last_pid' # last_pid /\ ret' = 0 /\ cpu' = "user" /\ InactiveIndex(list) < SCHED_SLOTS
  => /\ slot' = InactiveIndex(list)
     /\ list'[slot'].pid = last_pid'
     /\ cr3' = list'[slot'].pd
     /\ mem'[FrameOf(cr3)'] = list'[slot'].name

\* After a successful exec the program runs as a process of its own, under
\* its own page directory, when its slot is one the scheduler searches.
ExecRunsProgram == [][ExecStep]_vars

-----------------------------------------------------------------------------
(* What comments of the kernel and its README say and the code does not do: *)
(* each of these is violated.                                               *)

\* A user frame is a "free physical frame": no two live processes have their
\* page 0 in the same frame.
FramesPrivate ==
  Up => \A i, j \in Alive(list) : i # j => FrameOf(list[i].pd) # FrameOf(list[j].pd)

\* Several processes run at the same time: a process that is ready gets the
\* processor, unless it is destroyed or the processor stops.
ReadyProcessRuns ==
  \A i \in Slots :
    list[i].state = "READY" ~>
      (slot = i \/ list[i].state = "TERMINATED" \/ cpu = "dead")
=============================================================================
