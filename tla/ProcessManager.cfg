SPECIFICATION Spec
CONSTANTS
  PROCESS_COUNT_MAX = 8
  PROCESS_PAGE_FRAME_COUNT_MAX = 1024
  PAGING_DIRECTORY_TABLE_MAX_COUNT = 8
  PAGE_FRAME_MAX_COUNT = 8
  PAGE_FRAME_SIZE = 4194304
  EXEC_SIZE = 1048576
  SCHED_SLOTS = 4
  Programs <- McPrograms
  Shell = "shell"
INVARIANTS
  TypeOK
  PidsUnique
  DirectoriesOwned
  TablesNeverOverflow
  SchedulerTerminates
  FrameMapMatchesCount
PROPERTIES
  ExecRunsProgram
