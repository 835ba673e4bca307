--------------------------- MODULE MCBackupRestore ---------------------------
EXTENDS BackupRestore, TLC

Symmetries ==
  Permutations(Threads) \cup Permutations(Backups) \cup Permutations(Approvals)
=============================================================================
