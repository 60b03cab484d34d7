CONSTANTS
  Callers = {t1, t2}
  IoCpus = {c1, c2}
  Nil = Nil
  Drives <- OneDrive
  SECTOR_SIZE = 4
  TotalSectors = 7
  MAX_WORD = 2
  ATA_DMA_ALIGNMENT = 2
  ATA_DMA_PHYSICAL_BOUNDARY = 8
  Mbr <- MCMbr
  Requests <- MCRequests
  MaxRequests = 2
  Senders = {t1, t2}
  TxCpus = {c1, c2}
  NumberOfTxDescriptors = 3
  MaxSends = 4
  Clients = {t1, t2}
  RxCpus = {c1, c2}
  NumberOfRxDescriptors = 2
  MaxStored = 2
  MaxChanges = 1
  CountOfClusters = 6
  SectorsPerCluster = 2
  DirEntries = 4
  FatEntries = 2
  ReservedSectors = 1
  FAT32_UNKNOWN = 15
  Volumes <- MCVolumes
  Paths <- MCPaths
  Transfers <- MCTransfers
  MaxFaults = 1
SPECIFICATION MCFairSpec
INVARIANT StorageInv
INVARIANT TxInv
INVARIANT RxInv
INVARIANT FatInv
PROPERTY RequestReturns
PROPERTY AcceptedIsSent
PROPERTY CallsAreServed
CHECK_DEADLOCK FALSE
