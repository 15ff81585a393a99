------------------------ MODULE ProcessManagerProofs ------------------------
(***************************************************************************)
(* Proofs about the process manager, for every number of slots, frames,    *)
(* page directories and searched slots that the assumptions allow.         *)
(*                                                                         *)
(* The heart of the argument is Budget: every creation takes a frame for   *)
(* good, so live processes and free frames together stay below the number  *)
(* of frames, and the unchecked searches for a slot and a page directory   *)
(* cannot fail.                                                            *)
(***************************************************************************)
EXTENDS ProcessManager, FiniteSetTheorems, MinMaxLemmas, TLAPS

\* Nothing was created before kernel_setup starts the shell.
BootState ==
  /\ list = [i \in Slots |-> ZeroPCB]
  /\ dir_used = [d \in Dirs |-> FALSE]
  /\ last_pid = 0

\* Live processes and free frames share the frames the kernel left.
Budget == Cardinality(Alive(list)) + free_frames <= PAGE_FRAME_MAX_COUNT - 1

\* Of the slots the scheduler searches only slot 0 is ever left READY.
SearchedSlotsRan == \A i \in 1 .. SCHED_SLOTS - 1 : list[i].state # "READY"

\* PidsUnique and DirectoriesOwned without their premise.
PidsDistinct ==
  \A i, j \in Alive(list) :
    list[i].pid \in 1 .. last_pid /\ (i # j => list[i].pid # list[j].pid)
DirsMatch ==
  /\ \A i \in Alive(list) : list[i].pd \in Dirs /\ dir_used[list[i].pd]
  /\ \A i, j \in Alive(list) : i # j => list[i].pd # list[j].pd
  /\ \A d \in Dirs : dir_used[d] => \E i \in Alive(list) : list[i].pd = d
Core == Budget /\ SearchedSlotsRan /\ PidsDistinct /\ DirsMatch

IInv ==
  /\ TypeOK
  /\ FrameMapMatchesCount
  /\ TablesNeverOverflow
  /\ SchedulerTerminates
  /\ cpu = "boot" => BootState
  /\ Up => Core
-----------------------------------------------------------------------------
(* The searches of process.c, paging.c and scheduler.c *)

\* A division by something larger is 0.
LEMMA DivSmall ==
  ASSUME NEW a \in Nat, NEW b \in Nat, a < b
  PROVE  a \div b = 0
OBVIOUS

\* The slots a search of the scheduler that starts behind slot 0 goes through.
LEMMA SearchOrderFromZero ==
  ASSUME NEW k \in 1 .. SCHED_SLOTS
  PROVE  SearchOrder(0, k) = IF k = SCHED_SLOTS THEN 0 ELSE k
<1>1. SCHED_SLOTS \in Nat /\ SCHED_SLOTS > 0
  BY ConstantAssumption
<1>2. CASE k = SCHED_SLOTS
  BY <1>1, <1>2 DEF SearchOrder
<1>3. CASE k < SCHED_SLOTS
  BY <1>1, <1>3 DEF SearchOrder
<1> QED
  BY <1>1, <1>2, <1>3

\* MappedFrame: as long as there are fewer frames than bytes in a frame, the
\* frame that is mapped is frame 0.
LEMMA MappedFrameIsZero ==
  ASSUME NEW f \in 0 .. PAGE_FRAME_MAX_COUNT
  PROVE  MappedFrame(f) = 0
<1>1. f \div PAGE_FRAME_SIZE = 0
  BY DivSmall, ConstantAssumption
<1> QED
  BY <1>1 DEF MappedFrame

\* There are finitely many live processes.
LEMMA AliveFinite ==
  ASSUME NEW l
  PROVE  IsFiniteSet(Alive(l))
<1>1. IsFiniteSet(Slots)
  BY FS_Interval, ConstantAssumption DEF Slots
<1> QED
  BY <1>1, FS_Subset DEF Alive

\* paging_create_new_page_directory returns a directory that is not in use.
LEMMA NewDirProperty ==
  ASSUME NewDir # NULL
  PROVE  NewDir \in Dirs /\ ~dir_used[NewDir]
<1>1. UnusedDirs # {} /\ NewDir = Min(UnusedDirs)
  BY DEF NewDir
<1>2. UnusedDirs \in SUBSET Nat
  BY ConstantAssumption DEF UnusedDirs, Dirs
<1> QED
  BY <1>1, <1>2, MinProperty DEF UnusedDirs

\* process_list_get_inactive_index returns a terminated slot.
LEMMA InactiveProperty ==
  ASSUME InactiveIndex(list) # -1
  PROVE  /\ InactiveIndex(list) \in Slots
         /\ list[InactiveIndex(list)].state = "TERMINATED"
         /\ 0 \in Slots \ Alive(list) => InactiveIndex(list) = 0
<1>1. Slots \ Alive(list) # {} /\ InactiveIndex(list) = Min(Slots \ Alive(list))
  BY DEF InactiveIndex, Alive
<1>2. Slots \ Alive(list) \in SUBSET Nat
  BY ConstantAssumption DEF Slots
<1> QED
  BY <1>1, <1>2, MinProperty DEF Alive

\* process_generate_new_pid returns the next number.
LEMMA NewPidProperty ==
  ASSUME last_pid \in Nat, \A i \in Alive(list) : list[i].pid <= last_pid,
         \A i \in Alive(list) : list[i].pid \in Nat
  PROVE  NewPid(list, last_pid) = last_pid + 1
<1> DEFINE S == {p \in last_pid + 1 .. last_pid + PROCESS_COUNT_MAX + 1 : HasPid(list, p) = {}}
<1>1. HasPid(list, last_pid + 1) = {}
  BY DEF HasPid
<1>2. last_pid + 1 \in S
  BY <1>1, ConstantAssumption
<1>3. S \in SUBSET Nat
  BY ConstantAssumption
<1>4. Min(S) \in S /\ \A y \in S : Min(S) <= y
  BY <1>2, <1>3, MinProperty
<1>5. Min(S) <= last_pid + 1 /\ Min(S) >= last_pid + 1 /\ Min(S) \in Nat
  BY <1>2, <1>4, ConstantAssumption
<1> QED
  BY <1>5 DEF NewPid

\* Where process_create_user_process passes its checks there is a terminated
\* slot and an unused page directory: more live processes than that would
\* have taken all frames.
LEMMA RoomForOneMore ==
  ASSUME TypeOK, Budget, RefusalCode = 0,
         \A d \in Dirs : dir_used[d] => \E i \in Alive(list) : list[i].pd = d
  PROVE  ~NoRoom
<1>1. free_frames >= 1 /\ free_frames \in Nat
  BY ConstantAssumption DEF TypeOK, RefusalCode, paging_allocate_check
<1>2. Cardinality(Alive(list)) \in Nat /\ Cardinality(Alive(list)) < PAGE_FRAME_MAX_COUNT - 1
  BY <1>1, AliveFinite, FS_CardinalityType, ConstantAssumption DEF Budget
<1>3. InactiveIndex(list) # -1
  <2>1. Cardinality(Slots) = PROCESS_COUNT_MAX
    BY FS_Interval, ConstantAssumption DEF Slots
  <2>2. Alive(list) # Slots
    BY <2>1, <1>2, ConstantAssumption, FramesAreScarcest
  <2>3. Slots \ Alive(list) # {} /\ Slots \ Alive(list) \in SUBSET Nat
    BY <2>2, ConstantAssumption DEF Slots, Alive
  <2>4. Min(Slots \ Alive(list)) \in Nat
    BY <2>3, MinProperty
  <2> QED
    BY <2>2, <2>4 DEF InactiveIndex
<1>4. NewDir # NULL
  <2>1. SUFFICES ASSUME UnusedDirs = {} PROVE FALSE
    <3>1. ASSUME UnusedDirs # {} PROVE NewDir # NULL
      <4>1. UnusedDirs \in SUBSET Nat
        BY ConstantAssumption DEF UnusedDirs, Dirs
      <4>2. Min(UnusedDirs) \in Nat
        BY <3>1, <4>1, MinProperty
      <4> QED
        BY <3>1, <4>2 DEF NewDir, NULL
    <3> QED
      BY <3>1
  <2>2. \A d \in Dirs : \E i \in Alive(list) : list[i].pd = d
    BY <2>1 DEF UnusedDirs
  <2> DEFINE owner == [d \in Dirs |-> CHOOSE i \in Alive(list) : list[i].pd = d]
  <2>3. owner \in [Dirs -> Alive(list)]
    BY <2>2
  <2>4. \A d \in Dirs : list[owner[d]].pd = d
    BY <2>2
  <2>5. IsFiniteSet(Dirs) /\ Cardinality(Dirs) = PAGING_DIRECTORY_TABLE_MAX_COUNT
    BY FS_Interval, ConstantAssumption DEF Dirs
  <2>6. Cardinality(Alive(list)) < Cardinality(Dirs)
    BY <1>2, <2>5, ConstantAssumption, FramesAreScarcest
  <2> HIDE DEF owner
  <2>7. PICK d, e \in Dirs : d # e /\ owner[d] = owner[e]
    BY <2>3, <2>5, <2>6, AliveFinite, FS_PigeonHole
  <2> QED
    BY <2>4, <2>7
<1> QED
  BY <1>3, <1>4 DEF NoRoom

\* scheduler_init and scheduler_switch_to_next_process: slot 0 is the slot
\* that is taken off, the search finds a process, and only slot 0 and the
\* process found change their state.
LEMMA SwitchProperty ==
  ASSUME NEW l \in [Slots -> PCBs], Switch(l)
  PROVE  /\ slot' \in 0 .. SCHED_SLOTS - 1 /\ slot' \in Slots
         /\ cr3' = l[slot'].pd
         /\ cpu' \in {"user", "dead"}
         /\ list' \in [Slots -> PCBs]
         /\ \A i \in Slots : /\ list'[i].pid = l[i].pid /\ list'[i].pd = l[i].pd
                              /\ list'[i].name = l[i].name
         /\ \A i \in Slots \ {0} : i # slot' => list'[i].state = l[i].state
         /\ list'[0].state # "TERMINATED" /\ list'[slot'].state = "RUNNING"
         /\ slot' # 0 => l[slot'].state = "READY"
         /\ \A k \in 1 .. SCHED_SLOTS - 1 :
              l[k].state = "READY" => slot' # 0 /\ slot' <= k
         /\ cpu' = "user" => l[0].pd # NULL
<1> DEFINE l0 == SchedulerInit(l)
           l1 == Demote(l0)
           C  == Candidates(l1, 0)
<1>1. /\ SCHED_SLOTS \in Nat /\ SCHED_SLOTS > 0 /\ PROCESS_COUNT_MAX \in Nat
      /\ SCHED_SLOTS <= PROCESS_COUNT_MAX /\ 0 \in Slots /\ Slots \in SUBSET Nat
  BY ConstantAssumption DEF Slots
<1>2. l0 \in [Slots -> PCBs] /\ l0 = [l EXCEPT ![0].state = "RUNNING"]
  BY <1>1 DEF SchedulerInit, PCBs
<1>3. Preempted(l0) = 0
  <2>1. 0 \in RunningSlots(l0) /\ RunningSlots(l0) \in SUBSET Nat
    BY <1>1, <1>2 DEF RunningSlots, PCBs
  <2>2. Min(RunningSlots(l0)) <= 0 /\ Min(RunningSlots(l0)) \in Nat
    BY <2>1, MinProperty
  <2> QED
    BY <2>1, <2>2 DEF Preempted
<1>4. /\ l1 \in [Slots -> PCBs]
      /\ l1 = [l EXCEPT ![0].state = "READY"]
  <2>1. l1 = [i \in Slots |-> IF i = 0 THEN [l0[i] EXCEPT !.state = "READY"] ELSE l0[i]]
    BY <1>3 DEF Demote
  <2> HIDE DEF l0, l1
  <2>2. l[0] \in PCBs /\ l0[0] = [l[0] EXCEPT !.state = "RUNNING"]
    BY <1>1, <1>2
  <2>3. l1[0] = [l[0] EXCEPT !.state = "READY"]
    <3>1. l1[0] = [l0[0] EXCEPT !.state = "READY"]
      BY <1>1, <2>1
    <3> QED
      BY <2>2, <3>1 DEF PCBs
  <2>4. \A i \in Slots \ {0} : l1[i] = l[i]
    BY <1>2, <2>1
  <2>5. [l[0] EXCEPT !.state = "READY"] \in PCBs
    BY <2>2 DEF PCBs
  <2>6. l1 = [i \in Slots |-> l1[i]]
    BY <2>1
  <2>7. \A i \in Slots : l1[i] \in PCBs
    BY <1>1, <2>3, <2>4, <2>5
  <2>8. l1 \in [Slots -> PCBs]
    BY <2>6, <2>7
  <2> DEFINE r == [l EXCEPT ![0].state = "READY"]
  <2>9. r = [i \in Slots |-> r[i]] /\ r[0] = [l[0] EXCEPT !.state = "READY"]
        /\ \A i \in Slots \ {0} : r[i] = l[i]
    BY <1>1
  <2> HIDE DEF r
  <2>10. \A i \in Slots : l1[i] = r[i]
    BY <2>3, <2>4, <2>9
  <2>11. l1 = r
    BY <2>6, <2>9, <2>10
  <2> QED
    BY <2>8, <2>11 DEF r
<1> HIDE DEF l0, l1
<1>5. \A k \in 1 .. SCHED_SLOTS :
        k \in C <=> (k = SCHED_SLOTS \/ l[k].state = "READY")
  <2> TAKE k \in 1 .. SCHED_SLOTS
  <2>1. k \in C <=> l1[SearchOrder(0, k)].state = "READY"
    BY DEF Candidates
  <2>2. CASE k = SCHED_SLOTS
    BY <1>1, <1>4, <2>1, <2>2, SearchOrderFromZero DEF PCBs
  <2>3. CASE k # SCHED_SLOTS
    <3>1. SearchOrder(0, k) = k /\ k \in Slots /\ k # 0
      BY <1>1, <2>3, SearchOrderFromZero DEF Slots
    <3> QED
      BY <1>4, <2>1, <2>3, <3>1 DEF PCBs
  <2> QED
    BY <2>2, <2>3
<1>6. SCHED_SLOTS \in C /\ C \in SUBSET (1 .. SCHED_SLOTS) /\ C \in SUBSET Nat
  BY <1>1, <1>5 DEF Candidates
<1>7. Min(C) \in C /\ \A y \in C : Min(C) <= y
  BY <1>6, MinProperty
<1> DEFINE n == NextSlot(l1, 0)
<1>8. n = IF Min(C) = SCHED_SLOTS THEN 0 ELSE Min(C)
  BY <1>6, <1>7, SearchOrderFromZero DEF NextSlot
<1>9. n \in 0 .. SCHED_SLOTS - 1 /\ n \in Slots
  BY <1>1, <1>6, <1>7, <1>8 DEF Slots
<1>10. /\ list' = [l1 EXCEPT ![n].state = "RUNNING"] /\ cr3' = l1[n].pd /\ slot' = n
       /\ cpu' = IF l[0].pd = NULL \/ l1[n].pd = NULL THEN "dead" ELSE "user"
  BY <1>3, <1>6 DEF Switch, l0, l1
<1> HIDE DEF C, n
<1>11. cr3' = l[slot'].pd /\ cpu' \in {"user", "dead"} /\ (cpu' = "user" => l[0].pd # NULL)
  BY <1>1, <1>4, <1>9, <1>10 DEF PCBs
<1>12. list' \in [Slots -> PCBs]
  BY <1>4, <1>9, <1>10 DEF PCBs
<1>13. \A i \in Slots : /\ list'[i].pid = l[i].pid /\ list'[i].pd = l[i].pd
                        /\ list'[i].name = l[i].name
  BY <1>4, <1>9, <1>10 DEF PCBs
<1>14. \A i \in Slots \ {0} : i # slot' => list'[i].state = l[i].state
  BY <1>4, <1>9, <1>10 DEF PCBs
<1>15. list'[0].state # "TERMINATED" /\ list'[slot'].state = "RUNNING"
  BY <1>1, <1>4, <1>9, <1>10 DEF PCBs
<1>16. slot' # 0 => l[slot'].state = "READY"
  BY <1>1, <1>5, <1>6, <1>7, <1>8, <1>10
<1>17. \A k \in 1 .. SCHED_SLOTS - 1 : l[k].state = "READY" => slot' # 0 /\ slot' <= k
  BY <1>1, <1>5, <1>6, <1>7, <1>8, <1>10
<1> QED
  BY <1>9, <1>10, <1>11, <1>12, <1>13, <1>14, <1>15, <1>16, <1>17
-----------------------------------------------------------------------------
(* The steps of process_create_user_process *)

\* read puts the program into a frame, or leaves memory as it is.
LEMMA LoadedType ==
  ASSUME TypeOK, NEW found \in BOOLEAN, NEW name \in Programs
  PROVE  Loaded(found, name) \in [Frames -> Programs \union {NoProgram}]
BY ConstantAssumption DEF TypeOK, Loaded, FrameOf, Frames, NULL

\* paging_allocate_user_page_frame marks the frame its count points to, so map
\* and count go on agreeing.
LEMMA AllocateFrameProperty ==
  ASSUME TypeOK, FrameMapMatchesCount, free_frames >= 1, AllocateFrame
  PROVE  /\ frame_map' \in [Frames -> BOOLEAN]
         /\ free_frames' \in 0 .. PAGE_FRAME_MAX_COUNT /\ free_frames' = free_frames - 1
         /\ FrameMapMatchesCount'
<1>1. /\ free_frames \in 1 .. PAGE_FRAME_MAX_COUNT /\ PAGE_FRAME_MAX_COUNT \in Nat
      /\ frame_map \in [Frames -> BOOLEAN]
  BY ConstantAssumption DEF TypeOK
<1> DEFINE g == PAGE_FRAME_MAX_COUNT - free_frames
<1>2. g \in Frames /\ frame_map' = [frame_map EXCEPT ![g] = TRUE]
  BY <1>1 DEF AllocateFrame, TakeFrame, Frames
<1>3. free_frames' = free_frames - 1
  BY DEF AllocateFrame
<1>4. frame_map' \in [Frames -> BOOLEAN]
  BY <1>1, <1>2
<1>5. ASSUME NEW f \in Frames
      PROVE  frame_map'[f] <=> f < PAGE_FRAME_MAX_COUNT - free_frames' \/ f = 0
  <2>1. frame_map[f] <=> f < g \/ f = 0
    BY <1>5 DEF FrameMapMatchesCount
  <2>2. f < PAGE_FRAME_MAX_COUNT - free_frames' <=> f < g \/ f = g
    BY <1>1, <1>3, <1>5 DEF Frames
  <2>3. CASE f = g
    BY <1>1, <1>2, <2>2, <2>3
  <2>4. CASE f # g
    <3>1. frame_map'[f] = frame_map[f]
      BY <1>1, <1>2, <1>5, <2>4
    <3> QED
      BY <2>1, <2>2, <2>4, <3>1
  <2> QED
    BY <2>3, <2>4
<1> QED
  BY <1>1, <1>3, <1>4, <1>5 DEF FrameMapMatchesCount

\* Core holds of the tables kernel_setup finds.
LEMMA BootCore ==
  ASSUME TypeOK, BootState, free_frames < PAGE_FRAME_MAX_COUNT
  PROVE  Core /\ Alive(list) = {}
<1>1. Alive(list) = {}
  BY DEF BootState, Alive, ZeroPCB
<1>2. Budget
  BY <1>1, FS_EmptySet, ConstantAssumption DEF Budget, TypeOK
<1>3. SearchedSlotsRan
  BY ConstantAssumption DEF SearchedSlotsRan, BootState, ZeroPCB, Slots
<1>4. DirsMatch
  BY <1>1 DEF DirsMatch, BootState
<1> QED
  BY <1>1, <1>2, <1>3, <1>4 DEF Core, PidsDistinct

\* A creation whose program was read.
LEMMA CreateRunsKeeps ==
  ASSUME TypeOK, FrameMapMatchesCount, Core, RefusalCode = 0, ~NoRoom,
         NEW name \in Programs, mem' = Loaded(TRUE, name),
         CreateRuns(InactiveIndex(list), name)
  PROVE  IInv'
<1> DEFINE p == InactiveIndex(list)
           l == [list EXCEPT ![p] = NewPCB(name)]
<1>1. /\ p \in Slots /\ list[p].state = "TERMINATED" /\ p \notin Alive(list)
      /\ 0 \in Slots \ Alive(list) => p = 0
  BY InactiveProperty DEF NoRoom, Alive
<1>2. NewDir \in Dirs /\ ~dir_used[NewDir]
  BY NewDirProperty DEF NoRoom
<1>3. NewPid(list, last_pid) = last_pid + 1 /\ last_pid \in Nat
  BY NewPidProperty DEF TypeOK, Core, PidsDistinct
<1>4. free_frames >= 1
  BY ConstantAssumption DEF TypeOK, RefusalCode, paging_allocate_check
<1>5. AllocateFrame /\ Switch(l) /\ ret' = 0
      /\ dir_used' = [dir_used EXCEPT ![NewDir] = TRUE]
      /\ dir_map' = [dir_map EXCEPT ![NewDir] = MappedFrame(free_frames)]
      /\ last_pid' = last_pid + 1
      /\ active_process_count' = active_process_count + 1
      /\ current_running_process_index' = last_pid
  BY <1>3 DEF CreateRuns
<1> DEFINE e == NewPCB(name)
<1>6. /\ e = [pid |-> last_pid + 1, state |-> "READY", name |-> name, pd |-> NewDir]
      /\ e \in PCBs
  BY <1>2, <1>3 DEF NewPCB, PCBs
<1>7. /\ list \in [Slots -> PCBs] /\ l \in [Slots -> PCBs] /\ l[p] = e
      /\ \A i \in Slots : i # p => l[i] = list[i]
  BY <1>1, <1>6 DEF TypeOK
<1> HIDE DEF l, p, e
<1>8. /\ slot' \in 0 .. SCHED_SLOTS - 1 /\ slot' \in Slots
      /\ cr3' = l[slot'].pd
      /\ cpu' \in {"user", "dead"}
      /\ list' \in [Slots -> PCBs]
      /\ \A i \in Slots : list'[i].pid = l[i].pid /\ list'[i].pd = l[i].pd
      /\ \A i \in Slots \ {0} : i # slot' => list'[i].state = l[i].state
      /\ list'[0].state # "TERMINATED" /\ list'[slot'].state = "RUNNING"
      /\ slot' # 0 => l[slot'].state = "READY"
      /\ \A k \in 1 .. SCHED_SLOTS - 1 : l[k].state = "READY" => slot' # 0 /\ slot' <= k
  BY <1>5, <1>7, SwitchProperty
<1>9. TypeOK'
  <2>1. frame_map' \in [Frames -> BOOLEAN] /\ free_frames' \in 0 .. PAGE_FRAME_MAX_COUNT
    BY <1>4, <1>5, AllocateFrameProperty
  <2>2. mem' \in [Frames -> Programs \union {NoProgram}]
    BY LoadedType
  <2>3. dir_map' \in [Dirs -> Frames \union {NULL}]
    <3>1. MappedFrame(free_frames) = 0 /\ 0 \in Frames
      BY MappedFrameIsZero, ConstantAssumption DEF TypeOK, Frames
    <3> QED
      BY <1>2, <1>5, <3>1 DEF TypeOK
  <2>4. dir_used' \in [Dirs -> BOOLEAN]
    BY <1>5 DEF TypeOK
  <2>5. cr3' \in Dirs \union {NULL, KERNEL_PD}
    BY <1>7, <1>8 DEF PCBs
  <2>6. last_pid' \in Nat /\ active_process_count' \in Int /\ current_running_process_index' \in Int
    BY <1>3, <1>5 DEF TypeOK
  <2> QED
    BY <1>5, <1>8, <2>1, <2>2, <2>3, <2>4, <2>5, <2>6 DEF TypeOK, Places
<1>10. FrameMapMatchesCount'
  BY <1>4, <1>5, AllocateFrameProperty
<1>11. Alive(list') = Alive(list) \union {p}
  <2>1. \A i \in Slots : list'[i].state # "TERMINATED" <=> i \in Alive(list) \union {p}
    <3> TAKE i \in Slots
    <3>1. CASE i = 0
      BY <1>1, <1>8, <3>1
    <3>2. CASE i # 0 /\ i = slot'
      <4>1. l[i].state = "READY"
        BY <1>8, <3>2
      <4> QED
        BY <1>7, <1>8, <3>2, <4>1 DEF Alive
    <3>3. CASE i # 0 /\ i # slot'
      <4>1. list'[i].state = l[i].state
        BY <1>8, <3>3
      <4> QED
        BY <1>6, <1>7, <4>1 DEF Alive
    <3> QED
      BY <3>1, <3>2, <3>3
  <2> QED
    BY <1>1, <2>1 DEF Alive
<1>12. Budget'
  <2>1. Cardinality(Alive(list')) = Cardinality(Alive(list)) + 1
    BY <1>1, <1>11, AliveFinite, FS_AddElement
  <2>2. Cardinality(Alive(list)) \in Nat /\ free_frames \in Nat
    BY AliveFinite, FS_CardinalityType DEF TypeOK
  <2> QED
    BY <1>4, <1>5, <2>1, <2>2, ConstantAssumption DEF Budget, AllocateFrame, Core
<1>13. SearchedSlotsRan'
  <2> SUFFICES ASSUME NEW i \in 1 .. SCHED_SLOTS - 1 PROVE list'[i].state # "READY"
    BY DEF SearchedSlotsRan
  <2>1. i \in Slots /\ i # 0
    BY ConstantAssumption DEF Slots
  <2>2. CASE i = slot'
    BY <1>8, <2>2
  <2>3. CASE i # slot' /\ i # p
    BY <1>7, <1>8, <2>1, <2>3 DEF Core, SearchedSlotsRan
  <2>4. CASE i # slot' /\ i = p
    <3>1. l[i].state = "READY"
      BY <1>6, <1>7, <2>4
    <3>2. slot' # 0 /\ slot' \in 1 .. SCHED_SLOTS - 1 /\ l[slot'].state = "READY"
      BY <1>8, <3>1
    <3>3. list[slot'].state = "READY"
      BY <1>7, <1>8, <2>4, <3>2
    <3> QED
      BY <3>2, <3>3 DEF Core, SearchedSlotsRan
  <2> QED
    BY <2>2, <2>3, <2>4
<1>14. \A i \in Alive(list) : i \in Slots /\ i # p /\ list'[i].pid = list[i].pid
                             /\ list'[i].pd = list[i].pd
  BY <1>1, <1>7, <1>8 DEF Alive
<1>15. list'[p].pid = last_pid + 1 /\ list'[p].pd = NewDir
  BY <1>1, <1>6, <1>7, <1>8
<1>16. PidsDistinct'
  <2>1. \A i \in Alive(list) : list[i].pid \in 1 .. last_pid
    BY DEF Core, PidsDistinct
  <2>2. \A i \in Alive(list') : list'[i].pid \in 1 .. last_pid'
    BY <1>3, <1>5, <1>11, <1>14, <1>15, <2>1
  <2>3. \A i, j \in Alive(list') : i # j => list'[i].pid # list'[j].pid
    <3>1. \A i, j \in Alive(list) : i # j => list[i].pid # list[j].pid
      BY DEF Core, PidsDistinct
    <3>2. \A i \in Alive(list) : list[i].pid # last_pid + 1
      BY <1>3, <2>1
    <3> QED
      BY <1>11, <1>14, <1>15, <3>1, <3>2
  <2> QED
    BY <2>2, <2>3 DEF PidsDistinct
<1>17. DirsMatch'
  <2>1. DirsMatch
    BY DEF Core
  <2>2. \A i \in Alive(list') : list'[i].pd \in Dirs /\ dir_used'[list'[i].pd]
    BY <1>2, <1>5, <1>11, <1>14, <1>15, <2>1 DEF DirsMatch, TypeOK
  <2>3. \A i, j \in Alive(list') : i # j => list'[i].pd # list'[j].pd
    BY <1>2, <1>11, <1>14, <1>15, <2>1 DEF DirsMatch
  <2>4. \A d \in Dirs : dir_used'[d] => \E i \in Alive(list') : list'[i].pd = d
    BY <1>2, <1>5, <1>11, <1>14, <1>15, <2>1 DEF DirsMatch, TypeOK
  <2> QED
    BY <2>2, <2>3, <2>4 DEF DirsMatch
<1> QED
  BY <1>8, <1>9, <1>10, <1>12, <1>13, <1>16, <1>17
     DEF IInv, Core, TablesNeverOverflow, SchedulerTerminates

\* A creation whose program was not read, apart from list and control.
LEMMA CreateUnreadKeeps ==
  ASSUME TypeOK, FrameMapMatchesCount, Core, RefusalCode = 0, ~NoRoom,
         NEW name \in Programs, mem' = Loaded(FALSE, name),
         CreateUnread(InactiveIndex(list))
  PROVE  /\ frame_map' \in [Frames -> BOOLEAN] /\ FrameMapMatchesCount'
         /\ free_frames' \in 0 .. PAGE_FRAME_MAX_COUNT /\ free_frames' = free_frames - 1
         /\ mem' \in [Frames -> Programs \union {NoProgram}]
         /\ dir_map' \in [Dirs -> Frames \union {NULL}]
         /\ dir_used' \in [Dirs -> BOOLEAN]
         /\ \A d \in Dirs : dir_used'[d] = dir_used[d]
         /\ last_pid' \in Nat /\ last_pid' = last_pid + 1
         /\ active_process_count' \in Int /\ current_running_process_index' \in Int
         /\ ret' = -4
<1>1. NewDir \in Dirs /\ ~dir_used[NewDir]
  BY NewDirProperty DEF NoRoom
<1>2. NewPid(list, last_pid) = last_pid + 1 /\ last_pid \in Nat
  BY NewPidProperty DEF TypeOK, Core, PidsDistinct
<1>3. free_frames >= 1
  BY ConstantAssumption DEF TypeOK, RefusalCode, paging_allocate_check
<1>4. AllocateFrame
  BY DEF CreateUnread
<1>5. /\ dir_used' = [d \in Dirs |-> dir_used[d] /\ d # NewDir]
      /\ dir_map' = [d \in Dirs |-> IF d = NewDir THEN NULL ELSE dir_map[d]]
  BY DEF CreateUnread, paging_free_page_directory
<1>6. \A d \in Dirs : dir_used'[d] = dir_used[d]
  <2> TAKE d \in Dirs
  <2>1. CASE d = NewDir
    <3>1. dir_used'[d] = FALSE
      BY <1>5, <2>1 DEF TypeOK
    <3>2. dir_used[d] = FALSE
      BY <1>1, <2>1 DEF TypeOK
    <3> QED
      BY <3>1, <3>2
  <2>2. CASE d # NewDir
    BY <1>5, <2>2 DEF TypeOK
  <2> QED
    BY <2>1, <2>2
<1>7. mem' \in [Frames -> Programs \union {NoProgram}]
  BY LoadedType
<1>8. dir_map' \in [Dirs -> Frames \union {NULL}] /\ dir_used' \in [Dirs -> BOOLEAN]
  BY <1>5 DEF TypeOK
<1>9. /\ last_pid' \in Nat /\ last_pid' = last_pid + 1 /\ ret' = -4
      /\ active_process_count' \in Int /\ current_running_process_index' \in Int
  BY <1>2 DEF CreateUnread, TypeOK
<1> QED
  BY <1>3, <1>4, <1>6, <1>7, <1>8, <1>9, AllocateFrameProperty

-----------------------------------------------------------------------------
(* Invariance *)

\* The tables as they are at the start satisfy the inductive invariant.
LEMMA InitIInv == Init => IInv
<1> SUFFICES ASSUME Init PROVE IInv
  OBVIOUS
<1>1. TypeOK
  BY ConstantAssumption DEF Init, TypeOK, PCBs, ZeroPCB, Places, Slots
<1>2. FrameMapMatchesCount
  <2> SUFFICES ASSUME NEW f \in Frames
               PROVE  frame_map[f] <=> f < PAGE_FRAME_MAX_COUNT - free_frames \/ f = 0
    BY DEF FrameMapMatchesCount
  <2>1. ~(f < PAGE_FRAME_MAX_COUNT - free_frames)
    BY ConstantAssumption DEF Init, Frames
  <2>2. frame_map[f] <=> f = 0
    BY Zenon DEF Init
  <2> QED
    BY <2>1, <2>2
<1>3. BootState
  BY DEF Init, BootState
<1> QED
  BY <1>1, <1>2, <1>3 DEF Init, IInv, TablesNeverOverflow, SchedulerTerminates, Up

\* Every step keeps the inductive invariant: kernel_setup, exec, refused exec,
\* process_destroy and the keyboard wait.
LEMMA NextIInv == IInv /\ [Next]_vars => IInv'
<1> SUFFICES ASSUME IInv, [Next]_vars PROVE IInv'
  OBVIOUS
<1>0. TypeOK /\ FrameMapMatchesCount
  BY DEF IInv
<1>1. CASE SetupFrame
  <2>1. AllocateFrame /\ cpu = "boot" /\ free_frames >= 1 /\ BootState
    BY <1>1, ConstantAssumption DEF SetupFrame, IInv
  <2>2. /\ frame_map' \in [Frames -> BOOLEAN] /\ FrameMapMatchesCount'
        /\ free_frames' \in 0 .. PAGE_FRAME_MAX_COUNT
    BY <1>0, <2>1, AllocateFrameProperty
  <2>3. UNCHANGED <<procs, pages, mem, cr3, cpu, slot, ret>>
    BY <1>1 DEF SetupFrame
  <2>4. TypeOK'
    BY <1>0, <2>2, <2>3 DEF TypeOK, procs, pages
  <2> QED
    BY <2>1, <2>2, <2>3, <2>4
       DEF IInv, BootState, TablesNeverOverflow, SchedulerTerminates, Up, procs, pages
<1>2. ASSUME NEW found \in BOOLEAN, SetupShell(found) PROVE IInv'
  <2> DEFINE p == InactiveIndex(list)
  <2>1. /\ cpu = "boot" /\ free_frames < PAGE_FRAME_MAX_COUNT /\ RefusalCode = 0
        /\ BootState /\ mem' = Loaded(found, Shell) /\ Shell \in Programs
    BY <1>2, ConstantAssumption DEF SetupShell, IInv
  <2>2. Core /\ Alive(list) = {}
    BY <1>0, <2>1, BootCore
  <2>3. ~NoRoom
    BY <1>0, <2>1, <2>2, RoomForOneMore DEF Core, DirsMatch
  <2>4. CASE found = TRUE
    BY <1>0, <1>2, <2>1, <2>2, <2>3, <2>4, CreateRunsKeeps DEF SetupShell
  <2>5. CASE found = FALSE
    <3>1. CreateUnread(p) /\ Switch(Erase(list, p))
      BY <1>2, <2>3, <2>5 DEF SetupShell
    <3>2. p \in Slots
      BY <2>3, InactiveProperty DEF NoRoom
    <3>3. Erase(list, p) \in [Slots -> PCBs]
      BY <1>0, <3>2 DEF TypeOK, Erase, PCBs, ZeroPCB
    <3>4. /\ slot' \in Slots /\ cr3' = Erase(list, p)[slot'].pd
          /\ cpu' \in {"user", "dead"} /\ list' \in [Slots -> PCBs]
          /\ cpu' = "user" => Erase(list, p)[0].pd # NULL
      BY <3>1, <3>3, SwitchProperty
    <3>5. Erase(list, p)[0].pd = NULL
      BY <2>1, <3>2, ConstantAssumption DEF BootState, Erase, ZeroPCB, Slots
    <3>6. cpu' = "dead"
      BY <3>4, <3>5
    <3>7. cr3' \in Dirs \union {NULL, KERNEL_PD}
      BY <3>3, <3>4 DEF PCBs
    <3>8. TypeOK' /\ FrameMapMatchesCount'
      BY <1>0, <2>1, <2>2, <2>3, <2>5, <3>1, <3>4, <3>6, <3>7, CreateUnreadKeeps
         DEF TypeOK, Places
    <3> QED
      BY <3>6, <3>8 DEF IInv, TablesNeverOverflow, SchedulerTerminates, Up
  <2> QED
    BY <2>4, <2>5
<1>3. ASSUME NEW found \in BOOLEAN, NEW n \in Programs, Exec(found, n) PROVE IInv'
  <2> DEFINE p == InactiveIndex(list)
  <2>1. /\ cpu = "user" /\ Core /\ RefusalCode = 0 /\ mem' = Loaded(found, n)
    BY <1>3 DEF Exec, IInv, Up
  <2>3. ~NoRoom
    BY <1>0, <2>1, RoomForOneMore DEF Core, DirsMatch
  <2>4. CASE found = TRUE
    BY <1>0, <1>3, <2>1, <2>3, <2>4, CreateRunsKeeps DEF Exec
  <2>5. CASE found = FALSE
    <3>1. CreateUnread(p) /\ list' = Erase(list, p) /\ UNCHANGED <<cr3, cpu, slot>>
      BY <1>3, <2>3, <2>5 DEF Exec
    <3>2. p \in Slots /\ list[p].state = "TERMINATED"
      BY <2>3, InactiveProperty DEF NoRoom
    <3>3. /\ list' \in [Slots -> PCBs] /\ list'[p].state = "TERMINATED"
          /\ \A i \in Slots : i # p => list'[i] = list[i]
      BY <1>0, <3>1, <3>2 DEF TypeOK, Erase, PCBs, ZeroPCB
    <3>4. /\ frame_map' \in [Frames -> BOOLEAN] /\ FrameMapMatchesCount'
          /\ free_frames' \in 0 .. PAGE_FRAME_MAX_COUNT /\ free_frames' = free_frames - 1
          /\ mem' \in [Frames -> Programs \union {NoProgram}]
          /\ dir_map' \in [Dirs -> Frames \union {NULL}]
          /\ dir_used' \in [Dirs -> BOOLEAN]
          /\ \A d \in Dirs : dir_used'[d] = dir_used[d]
          /\ last_pid' \in Nat /\ last_pid' = last_pid + 1
          /\ active_process_count' \in Int /\ current_running_process_index' \in Int
          /\ ret' = -4
      BY <1>0, <2>1, <2>3, <2>5, <3>1, CreateUnreadKeeps
    <3>5. TypeOK'
      BY <1>0, <3>1, <3>3, <3>4 DEF TypeOK
    <3>6. Alive(list') = Alive(list) /\ p \notin Alive(list)
      BY <3>2, <3>3 DEF Alive
    <3>7. \A i \in Alive(list) : list'[i] = list[i]
      BY <3>3, <3>6 DEF Alive
    <3>8. Budget'
      <4>1. Cardinality(Alive(list)) \in Nat /\ free_frames \in Nat
        BY <1>0, AliveFinite, FS_CardinalityType DEF TypeOK
      <4> QED
        BY <2>1, <3>4, <3>6, <4>1, ConstantAssumption DEF Core, Budget
    <3>9. SearchedSlotsRan'
      BY <2>1, <3>3, ConstantAssumption DEF Core, SearchedSlotsRan, Slots
    <3>10. PidsDistinct'
      <4>1. last_pid \in Nat
        BY <1>0 DEF TypeOK
      <4> QED
        BY <2>1, <3>4, <3>6, <3>7, <4>1 DEF Core, PidsDistinct
    <3>11. DirsMatch'
      BY <2>1, <3>4, <3>6, <3>7 DEF Core, DirsMatch
    <3> QED
      BY <2>1, <3>1, <3>4, <3>5, <3>8, <3>9, <3>10, <3>11
         DEF IInv, Core, TablesNeverOverflow, SchedulerTerminates
  <2> QED
    BY <2>4, <2>5
<1>4. ASSUME NEW found \in BOOLEAN, NEW n \in Programs, ExecRefused(found, n) PROVE IInv'
  <2>1. /\ cpu = "user" /\ UNCHANGED <<procs, frames, pages, cr3, cpu, slot>>
        /\ mem' = Loaded(found, n) /\ ret' = RefusalCode
    BY <1>4 DEF ExecRefused
  <2>2. mem' \in [Frames -> Programs \union {NoProgram}]
    BY <1>0, <2>1, LoadedType
  <2>3. RefusalCode \in {0, -1, -3}
    BY DEF RefusalCode
  <2>4. TypeOK'
    BY <1>0, <2>1, <2>2, <2>3 DEF TypeOK, procs, frames, pages
  <2> QED
    BY <2>1, <2>4 DEF IInv, Core, Budget, SearchedSlotsRan, PidsDistinct, DirsMatch, Alive, Up,
       BootState, FrameMapMatchesCount, TablesNeverOverflow, SchedulerTerminates,
       procs, frames, pages
<1>5. ASSUME NEW pid \in 1 .. last_pid, process_destroy(pid) PROVE IInv'
  <2> DEFINE s == DestroySlot(list, pid)
             d0 == list[s].pd
  <2>1. cpu = "user" /\ HasPid(list, pid) # {} /\ Core
    BY <1>5 DEF process_destroy, IInv, Up
  <2>2. s \in Alive(list) /\ s \in Slots
    <3>1. HasPid(list, pid) \in SUBSET Nat
      BY ConstantAssumption DEF HasPid, Alive, Slots
    <3> QED
      BY <2>1, <3>1, MinProperty DEF DestroySlot, HasPid, Alive
  <2>3. /\ list' = Erase(list, s)
        /\ dir_used' = [d \in Dirs |-> dir_used[d] /\ d # d0]
        /\ dir_map' = [d \in Dirs |-> IF d = d0 THEN NULL ELSE dir_map[d]]
        /\ active_process_count' = active_process_count - 1
        /\ current_running_process_index' \in {-1, current_running_process_index}
        /\ cpu' \in {"user", "dead"}
        /\ UNCHANGED <<last_pid, frames, mem, cr3, slot, ret>>
    BY <1>5 DEF process_destroy, paging_free_page_directory
  <2>4. /\ list' \in [Slots -> PCBs] /\ list'[s].state = "TERMINATED"
        /\ \A i \in Slots : i # s => list'[i] = list[i]
    BY <1>0, <2>2, <2>3 DEF TypeOK, Erase, PCBs, ZeroPCB
  <2> HIDE DEF s, d0
  <2>5. TypeOK'
    BY <1>0, <2>3, <2>4 DEF TypeOK, frames, Places
  <2>6. FrameMapMatchesCount'
    BY <1>0, <2>3 DEF FrameMapMatchesCount, frames
  <2>7. Alive(list') = Alive(list) \ {s}
    BY <2>4 DEF Alive
  <2>8. \A i \in Alive(list') : i \in Alive(list) /\ i # s /\ list'[i] = list[i]
    BY <2>4, <2>7 DEF Alive
  <2>9. Budget'
    <3>1. Cardinality(Alive(list')) = Cardinality(Alive(list)) - 1
      BY <2>2, <2>7, AliveFinite, FS_RemoveElement
    <3>2. Cardinality(Alive(list)) \in Nat /\ free_frames \in Nat
      BY <1>0, AliveFinite, FS_CardinalityType DEF TypeOK
    <3> QED
      BY <2>1, <2>3, <3>1, <3>2, ConstantAssumption DEF Core, Budget, frames
  <2>10. SearchedSlotsRan'
    BY <2>1, <2>4, ConstantAssumption DEF Core, SearchedSlotsRan, Slots
  <2>11. PidsDistinct'
    BY <2>1, <2>3, <2>8 DEF Core, PidsDistinct
  <2>12. DirsMatch'
    <3>1. DirsMatch
      BY <2>1 DEF Core
    <3>2. \A i \in Alive(list') : list'[i].pd \in Dirs /\ list'[i].pd # d0
      BY <2>2, <2>8, <3>1 DEF DirsMatch, d0
    <3>3. \A i \in Alive(list') : dir_used'[list'[i].pd]
      BY <2>3, <2>8, <3>1, <3>2 DEF DirsMatch
    <3>4. \A i, j \in Alive(list') : i # j => list'[i].pd # list'[j].pd
      BY <2>8, <3>1 DEF DirsMatch
    <3>5. ASSUME NEW d \in Dirs, dir_used'[d] PROVE \E i \in Alive(list') : list'[i].pd = d
      <4>1. dir_used[d] /\ d # d0
        BY <2>3, <3>5
      <4>2. PICK i \in Alive(list) : list[i].pd = d
        BY <3>1, <4>1 DEF DirsMatch
      <4>3. i # s
        BY <4>1, <4>2 DEF d0
      <4> QED
        BY <2>7, <2>8, <4>2, <4>3
    <3> QED
      BY <3>2, <3>3, <3>4, <3>5 DEF DirsMatch
  <2> QED
    BY <2>3, <2>5, <2>6, <2>9, <2>10, <2>11, <2>12
       DEF IInv, Core, TablesNeverOverflow, SchedulerTerminates
<1>6. CASE KeyboardWait \/ LineTyped \/ Stopped \/ UNCHANGED vars
  <2>1. UNCHANGED <<procs, frames, pages, mem, cr3, slot, ret>>
    BY <1>6 DEF KeyboardWait, LineTyped, Stopped, vars
  <2>2. (cpu' \in {"user", "wait"} /\ Up) \/ cpu' = cpu
    BY <1>6 DEF KeyboardWait, LineTyped, Stopped, vars, Up
  <2>3. TypeOK'
    BY <1>0, <2>1, <2>2 DEF TypeOK, procs, frames, pages, Places
  <2> QED
    BY <2>1, <2>2, <2>3 DEF IInv, Core, Budget, SearchedSlotsRan, PidsDistinct, DirsMatch,
       Alive, Up, BootState, FrameMapMatchesCount, TablesNeverOverflow, SchedulerTerminates,
       procs, frames, pages
<1> QED
  BY <1>1, <1>2, <1>3, <1>4, <1>5, <1>6 DEF Next

\* The inductive invariant holds in every reachable state.
THEOREM Invariance == Spec => []IInv
BY InitIInv, NextIInv, PTL DEF Spec

\* Type correctness of the process manager.
THEOREM TypeCorrect == Spec => []TypeOK
<1>1. IInv => TypeOK
  BY DEF IInv
<1> QED
  BY Invariance, <1>1, PTL

\* process_create_user_process never runs out of slots or page directories
\* after its checks.
THEOREM TablesSuffice == Spec => []TablesNeverOverflow
<1>1. IInv => TablesNeverOverflow
  BY DEF IInv
<1> QED
  BY Invariance, <1>1, PTL

\* The scheduler's search for a READY process always ends.
THEOREM SearchEnds == Spec => []SchedulerTerminates
<1>1. IInv => SchedulerTerminates
  BY DEF IInv
<1> QED
  BY Invariance, <1>1, PTL

\* process_generate_new_pid gives no pid to two live processes.
THEOREM PidsDiffer == Spec => []PidsUnique
<1>1. IInv => PidsUnique
  BY DEF IInv, Core, PidsDistinct, PidsUnique
<1> QED
  BY Invariance, <1>1, PTL

\* Page directories and live processes correspond one to one.
THEOREM ProcessesDistinct == Spec => []DirectoriesOwned
<1>1. IInv => DirectoriesOwned
  BY DEF IInv, Core, DirsMatch, DirectoriesOwned
<1> QED
  BY Invariance, <1>1, PTL

\* The frame map agrees with the count of free frames.
THEOREM FrameMapCorrect == Spec => []FrameMapMatchesCount
<1>1. IInv => FrameMapMatchesCount
  BY DEF IInv
<1> QED
  BY Invariance, <1>1, PTL

-----------------------------------------------------------------------------
(* What a successful exec does *)

\* Every page directory maps page 0 to frame 0 or to nothing, since the
\* "physical address" of a new frame is a small number.
MapsFrameZero == \A d \in Dirs : dir_map[d] \in {0, NULL}

\* MapsFrameZero holds in every reachable state.
LEMMA FrameZeroInvariant == Spec => []MapsFrameZero
<1>1. Init => MapsFrameZero
  BY DEF Init, MapsFrameZero
<1>2. TypeOK /\ MapsFrameZero /\ [Next]_vars => MapsFrameZero'
  <2> SUFFICES ASSUME TypeOK, MapsFrameZero, [Next]_vars PROVE MapsFrameZero'
    OBVIOUS
  <2>0. MappedFrame(free_frames) = 0 /\ dir_map \in [Dirs -> Frames \union {NULL}]
    BY MappedFrameIsZero DEF TypeOK
  <2>1. ASSUME NEW p, NEW name, CreateRuns(p, name) PROVE MapsFrameZero'
    BY <2>0, <2>1 DEF CreateRuns, MapsFrameZero
  <2>2. ASSUME NEW p, CreateUnread(p) PROVE MapsFrameZero'
    BY <2>0, <2>2 DEF CreateUnread, paging_free_page_directory, MapsFrameZero
  <2>3. CASE UNCHANGED pages
    BY <2>3 DEF pages, MapsFrameZero
  <2>4. ASSUME NEW found \in BOOLEAN, SetupShell(found) PROVE MapsFrameZero'
    BY <2>1, <2>2, <2>3, <2>4 DEF SetupShell, Overflow
  <2>5. ASSUME NEW found \in BOOLEAN, NEW n \in Programs, Exec(found, n) PROVE MapsFrameZero'
    BY <2>1, <2>2, <2>3, <2>5 DEF Exec, Overflow
  <2>6. ASSUME NEW pid \in 1 .. last_pid, process_destroy(pid) PROVE MapsFrameZero'
    BY <2>6 DEF process_destroy, paging_free_page_directory, MapsFrameZero
  <2> QED
    BY <2>3, <2>4, <2>5, <2>6
       DEF Next, SetupFrame, ExecRefused, KeyboardWait, LineTyped, Stopped, vars
<1> QED
  BY <1>1, <1>2, TypeCorrect, PTL DEF Spec

\* The step that creates a process whose program was read.
LEMMA CreateRunsStarts ==
  ASSUME TypeOK, Core, MapsFrameZero, ~NoRoom, NEW name \in Programs,
         mem' = Loaded(TRUE, name), CreateRuns(InactiveIndex(list), name),
         InactiveIndex(list) < SCHED_SLOTS
  PROVE  /\ slot' = InactiveIndex(list)
         /\ list'[slot'].pid = last_pid'
         /\ cr3' = list'[slot'].pd
         /\ mem'[FrameOf(cr3)'] = list'[slot'].name
<1> DEFINE p == InactiveIndex(list)
           e == NewPCB(name)
           l == [list EXCEPT ![p] = e]
<1>1. p \in Slots /\ p \in 0 .. SCHED_SLOTS - 1
  BY InactiveProperty, ConstantAssumption DEF NoRoom, Slots
<1>2. NewDir \in Dirs
  BY NewDirProperty DEF NoRoom
<1>3. NewPid(list, last_pid) = last_pid + 1 /\ last_pid \in Nat
  BY NewPidProperty DEF TypeOK, Core, PidsDistinct
<1>4. /\ e = [pid |-> last_pid + 1, state |-> "READY", name |-> name, pd |-> NewDir]
      /\ e \in PCBs
  BY <1>2, <1>3 DEF NewPCB, PCBs
<1>5. /\ l \in [Slots -> PCBs] /\ l[p] = e
      /\ \A i \in Slots : i # p => l[i] = list[i]
  BY <1>1, <1>4 DEF TypeOK
<1>6. Switch(l) /\ last_pid' = last_pid + 1
      /\ dir_map' = [dir_map EXCEPT ![NewDir] = MappedFrame(free_frames)]
  BY <1>3 DEF CreateRuns
<1> HIDE DEF e, l, p
<1>7. /\ slot' \in 0 .. SCHED_SLOTS - 1 /\ slot' \in Slots
      /\ cr3' = l[slot'].pd
      /\ \A i \in Slots : /\ list'[i].pid = l[i].pid /\ list'[i].pd = l[i].pd
                           /\ list'[i].name = l[i].name
      /\ slot' # 0 => l[slot'].state = "READY"
      /\ \A k \in 1 .. SCHED_SLOTS - 1 : l[k].state = "READY" => slot' # 0 /\ slot' <= k
  BY <1>5, <1>6, SwitchProperty
<1>8. slot' = p
  <2>1. CASE slot' = 0
    <3>1. p \in 1 .. SCHED_SLOTS - 1 => FALSE
      BY <1>4, <1>5, <1>7, <2>1
    <3> QED
      BY <1>1, <2>1, <3>1, ConstantAssumption
  <2>2. CASE slot' # 0
    <3>1. slot' \in 1 .. SCHED_SLOTS - 1 /\ l[slot'].state = "READY"
      BY <1>7, <2>2, ConstantAssumption
    <3>2. list[slot'].state # "READY"
      BY <3>1 DEF Core, SearchedSlotsRan
    <3> QED
      BY <1>5, <1>7, <3>1, <3>2
  <2> QED
    BY <2>1, <2>2
<1>9. list'[slot'].pid = last_pid' /\ list'[slot'].name = name /\ cr3' = NewDir
      /\ cr3' = list'[slot'].pd
  BY <1>1, <1>4, <1>5, <1>6, <1>7, <1>8
<1>10. 0 \in Frames /\ 0 # NULL
  BY ConstantAssumption DEF Frames, NULL
<1>11. FrameOf(cr3)' = 0
  <2>1. dir_map'[NewDir] = 0
    BY <1>2, <1>6, MappedFrameIsZero DEF TypeOK
  <2> QED
    BY <1>2, <1>9, <1>10, <2>1 DEF FrameOf
<1>12. FrameOf(cr3) = 0
  BY <1>10 DEF FrameOf, MapsFrameZero
<1>13. mem'[0] = name
  BY <1>10, <1>12 DEF Loaded, TypeOK
<1> QED
  BY <1>8, <1>9, <1>11, <1>13 DEF p

\* A successful exec switches to the program it loaded, in the slot and under
\* the page directory it was given.
THEOREM ExecSwitches == Spec => ExecRunsProgram
<1>1. IInv /\ MapsFrameZero /\ [Next]_vars => [ExecStep]_vars
  <2> SUFFICES ASSUME IInv, MapsFrameZero, Next,
                      last_pid' # last_pid, ret' = 0, InactiveIndex(list) < SCHED_SLOTS
               PROVE  /\ slot' = InactiveIndex(list)
                      /\ list'[slot'].pid = last_pid'
                      /\ cr3' = list'[slot'].pd
                      /\ mem'[FrameOf(cr3)'] = list'[slot'].name
    BY DEF ExecStep, vars
  <2>0. TypeOK
    BY DEF IInv
  <2>1. ASSUME NEW p, CreateUnread(p) PROVE FALSE
    BY <2>1 DEF CreateUnread
  <2>2. CASE UNCHANGED last_pid
    BY <2>2
  <2>3. ASSUME NEW found \in BOOLEAN, SetupShell(found)
        PROVE  /\ slot' = InactiveIndex(list)
               /\ list'[slot'].pid = last_pid'
               /\ cr3' = list'[slot'].pd
               /\ mem'[FrameOf(cr3)'] = list'[slot'].name
    <3>1. Core /\ Shell \in Programs
      BY <2>0, <2>3, BootCore, ConstantAssumption DEF SetupShell, IInv
    <3>2. CASE NoRoom
      BY <2>2, <2>3, <3>2 DEF SetupShell, Overflow, procs
    <3>3. CASE ~NoRoom /\ found
      BY <2>0, <2>3, <3>1, <3>3, CreateRunsStarts DEF SetupShell
    <3>4. CASE ~NoRoom /\ ~found
      BY <2>1, <2>3, <3>4 DEF SetupShell
    <3> QED
      BY <3>2, <3>3, <3>4
  <2>4. ASSUME NEW found \in BOOLEAN, NEW n \in Programs, Exec(found, n)
        PROVE  /\ slot' = InactiveIndex(list)
               /\ list'[slot'].pid = last_pid'
               /\ cr3' = list'[slot'].pd
               /\ mem'[FrameOf(cr3)'] = list'[slot'].name
    <3>1. Core
      BY <2>4 DEF Exec, IInv, Up
    <3>2. CASE NoRoom
      BY <2>2, <2>4, <3>2 DEF Exec, Overflow, procs
    <3>3. CASE ~NoRoom /\ found
      BY <2>0, <2>4, <3>1, <3>3, CreateRunsStarts DEF Exec
    <3>4. CASE ~NoRoom /\ ~found
      BY <2>1, <2>4, <3>4 DEF Exec
    <3> QED
      BY <3>2, <3>3, <3>4
  <2> QED
    BY <2>2, <2>3, <2>4
       DEF Next, SetupFrame, ExecRefused, process_destroy, KeyboardWait, LineTyped, Stopped,
           vars, procs
<1> QED
  BY <1>1, Invariance, FrameZeroInvariant, PTL DEF Spec, ExecRunsProgram
=============================================================================
