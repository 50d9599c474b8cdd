\* Two accounts, two quarantine names, three kills, damaged databases or lost files.
CONSTANTS
  Account = {a1, a2}
  Name = {n1, n2}
  NoDir = NoDir
  Absent = Absent
  Torn = Torn
  Legacy = Legacy
  NoAccount = NoAccount
  MaxInstances = 3
  MaxDiskFaults = 3
SPECIFICATION LiveStoreSpec
INVARIANTS DirectoryInv ReplacementInv
PROPERTY RecoveryCompletes
