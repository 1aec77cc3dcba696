SPECIFICATION BackendsSpec
CONSTANTS
  Ids = {1, 2, 3, 4}
  Places = {1, 2}
  ReservationMax = 1
  States = {"gpu_raw", "gpu_compressed", "host_raw", "host_compressed"}
  Values = {0, 1}
  CodecSize <- MCCodecSize
  Logical = 2
  Bound = 3
  Corruptions = {"payload", "truncate_payload", "append_payload", "logical_size", "stored_size", "crc32c", "encoding", "content_tag"}
  MaxGeneration = 1
  MaxFaults = 1
  None = None
  MaxJobs = 4
  Areas = {a1, a2}
  Capacity = 2
  Errors = {e1, e2, e3}
  MaxWord = 5
  MaxDiagnostics = 1
INVARIANTS
  ClientIsSafe
  CodecKeepsJobsApart
  ReportsAccounted
PROPERTIES
  KeepsContract
  ImplementsLog
CHECK_DEADLOCK FALSE
