SPECIFICATION Spec
CONSTANTS
  WORD_SIZE = 4
  REG_LOG_FILE_SIZE = 3
  REG_PHY_FILE_SIZE = 6
  INSTRUCTIONS_PER_CYCLE = 2
  NUM_ALUS = 2
  ALU_STAGES = 2
  IQ_CAPACITY = 3
  PC_EXCEPTION = 16
  MAX_PROGRAM = 4
  Programs <- MCPrograms
  UninitRegIdx = {0}
INVARIANTS
  TypeOK
  RegisterPartition
  RenameChain
  BusyBits
  InFlightInv
  NoFreeSource
  NoStageError
  CompleteAtEnd
PROPERTIES
  OldestReadyIssue
  ImplementsInOrder
  Termination
  LastDumpFinal
