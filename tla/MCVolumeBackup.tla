---- MODULE MCVolumeBackup ----
EXTENDS VolumeBackup, TLC
\* The goroutines of the backup cron job are interchangeable.
TickSymmetry == Permutations(Ticks)
====
