\* One kill; TLC finds the refused repetition.
CONSTANTS
  Account = {a1, a2}
  Name = {n1, n2, n3}
  NoDir = NoDir
  Absent = Absent
  Torn = Torn
  Legacy = Legacy
  NoAccount = NoAccount
  MaxInstances = 3
  MaxDiskFaults = 1
SPECIFICATION StoreSpec
SYMMETRY Symmetry
INVARIANT InterruptedQuarantineResumes
