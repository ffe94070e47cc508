----------------------------- MODULE StoreProps -----------------------------
(***************************************************************************)
(* What must hold between a recording folder and its index.                *)
(***************************************************************************)
EXTENDS FolderStore

Pending(kinds, n) ==
  \E i \in 1..Len(events) : events[i].kind \in kinds /\ events[i].name = n

\* However the scan, the monitor and the cleaner interleave, the list stays
\* sorted and free of duplicates, and last, num and total describe it.
IndexSound ==
  /\ TypeOK
  /\ \A i, j \in 1..Len(folder.files) : i < j =>
       /\ folder.files[i].time >= folder.files[j].time
       /\ folder.files[i].name # folder.files[j].name
  /\ folder.last = IF folder.files = << >> THEN NoFile ELSE Last(folder.files)
  /\ folder.num = Len(folder.files)
  /\ folder.total >= SizesOf(folder.files)

\* Index and disk differ only by what is on its way, by what happened before
\* the folder was watched, and by the cleaner's mistakes: an indexed file that
\* is not on disk has its delete event ahead, and a finished recording is
\* indexed, or about to be, unless the cleaner dropped its entry.
DifferencesExplained ==
  /\ \A n \in Names(folder) \ Present : n \in vanished \/ Pending({"delete"}, n)
  /\ watched => \A n \in Present \ {open} :
       \/ n \in Names(folder) \cup missed \cup forgotten
       \/ Pending({"close", "moved"}, n)
       \/ monPc = "stat" /\ monStat.name = n

\* The program deletes the file it is recording only if the scan found it
\* open: nothing else brings an open file into the index.
LiveFileSafe ==
  [][(RepairFolder \/ RemoveEmpty \/ RemoveVictim) /\ open \in Present \ scannedOpen
       => open \in DOMAIN disk']_vars

\* The index follows the disk: what was deleted leaves it, what was finished
\* enters it.
IndexCatchesUp ==
  \A n \in Name :
    /\ (n \in Names(folder) \ Present /\ n \notin vanished)
         ~> (n \notin Names(folder) \/ ~Alive)
    /\ (watched /\ n \in Present \ ({open} \cup missed \cup forgotten))
         ~> (n \in Names(folder) \/ n \notin Present \/ n \in forgotten \/ ~watched \/ ~Alive)

=============================================================================
