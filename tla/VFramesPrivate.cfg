SPECIFICATION Spec
CONSTANTS
  PROCESS_COUNT_MAX = 6
  PROCESS_PAGE_FRAME_COUNT_MAX = 1024
  PAGING_DIRECTORY_TABLE_MAX_COUNT = 6
  PAGE_FRAME_MAX_COUNT = 6
  PAGE_FRAME_SIZE = 4194304
  EXEC_SIZE = 1048576
  SCHED_SLOTS = 3
  Programs <- McPrograms
  Shell = "shell"
INVARIANTS
  FramesPrivate
