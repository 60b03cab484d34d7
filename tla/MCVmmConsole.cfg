CONSTANTS
  Threads = {t1, t2}
  Cpus = {c1, c2}
  None = None
  MaxCalls = 4
  PAGE_SIZE = 2
  StartPage = 1
  EndPage = 3
  NumberOfFrames = 2
  STACK_GUARD_PAGES = 1
  Calls <- MCCalls
  KbdCpus = {c1, c2}
  Codes = {"up", "sh"}
  ScancodeStd <- MCScancodeStd
  ScancodeExt <- MCScancodeExt
  MaxCodes = 3
  Chars = {"a", "space"}
  CHARS_PER_LINE = 5
  CMD_SHELL_SIZE = 3
  CMD_HISTORY_MAX_SIZE = 2
  MAX_DWORD = 9
  Devices = {"lapic", "clock", "ata", "slave", "eth", "msi"}
  BootOrder <- MCBootOrder
  IoInterrupt <- MCInterrupt
  ApicCpus = {1, 2}
  Pins = {1, 2, 3, 4}
  Overrides <- MCOverrides
  PrtCounts = {1, 2}
  NO_OF_RESERVED_EXCEPTIONS = 1
  VECTORS_PER_IRQL = 2
  NO_OF_TOTAL_INTERRUPTS = 6
  MaxRaises = 2
SPECIFICATION MCSpec
CHECK_DEADLOCK FALSE
INVARIANT VmmInv
INVARIANT ConsoleInv
INVARIANT InterruptInv
INVARIANT ClaimedByOne
SYMMETRY Symm
