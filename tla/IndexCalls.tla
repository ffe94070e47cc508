----------------------------- MODULE IndexCalls -----------------------------
(***************************************************************************)
(* Every sequence of calls that the storage threads make on the index of   *)
(* one folder, each call atomic under folder->mutex: the scan adds what it *)
(* reads, repair runs once, then the monitor adds and deletes.  Files may  *)
(* have equal times, be empty, or be damaged.  FolderStore puts the same   *)
(* operators under the real threads and a real disk.                       *)
(***************************************************************************)
EXTENDS FileIndex

CONSTANTS FileName, \* names of files
          MaxTime,  \* bound: modification times are 0..MaxTime
          Largest,  \* bound: sizes are 0..Largest
          MaxCalls  \* bound: calls after the scan

ASSUME BoundsAssumption == MaxTime \in Nat /\ Largest \in Nat /\ MaxCalls \in Nat

VARIABLES index,    \* the rkipc_str_folder
          phase,    \* "read" while the folder is being read, then "monitor"
          bad,      \* the names repair was told to drop
          calls     \* calls made in phase "monitor"

indexVars == <<index, phase, bad, calls>>

AnyFile == [name: FileName, time: 0..MaxTime, size: 0..Largest]

IndexTypeOK ==
  /\ index.files \in Seq(AnyFile)
  /\ index.last \in AnyFile \cup {NoFile}
  /\ index.num \in Nat
  /\ index.total \in Nat
  /\ phase \in {"read", "monitor"}
  /\ bad \in SUBSET FileName
  /\ calls \in 0..MaxCalls

IndexInit ==
  /\ index = EmptyFolder
  /\ phase = "read"
  /\ bad = {}
  /\ calls = 0

\* The guarded pair of calls in the scan and in the monitor.
CheckedAdd(file) ==
  /\ ~ListCheck(index, file.name)
  /\ index' = ListAdd(index, file)

ScanFile ==
  /\ phase = "read"
  /\ \E file \in AnyFile : CheckedAdd(file)
  /\ UNCHANGED <<phase, bad, calls>>

RunRepair ==
  /\ phase = "read"
  /\ \E damaged \in SUBSET Names(index) :
       /\ bad' = damaged \cup {f.name : f \in {g \in ToSet(index.files) : g.size = 0}}
       /\ index' = Repair(index, bad')
  /\ phase' = "monitor"
  /\ UNCHANGED calls

Call == phase = "monitor" /\ calls < MaxCalls /\ calls' = calls + 1

FileAppears ==
  /\ Call
  /\ \E file \in AnyFile : CheckedAdd(file)
  /\ UNCHANGED <<phase, bad>>

FileVanishes ==
  /\ Call
  /\ \E name \in FileName : index' = ListDel(index, name)
  /\ UNCHANGED <<phase, bad>>

IndexNext == ScanFile \/ RunRepair \/ FileAppears \/ FileVanishes

IndexSpec == IndexInit /\ [][IndexNext]_indexVars
-----------------------------------------------------------------------------
\* Whatever was added, deleted and repaired, the list is sorted newest first,
\* holds no name twice, and last and num describe it: the cleaner deletes the
\* file that last names and the walk of file_list_add relies on last being the
\* tail.  The total never falls short of the listed files; it exceeds them only
\* by files that repair dropped, and a delete call, whatever the name, clears
\* that excess.
WellFormed ==
  /\ IndexTypeOK
  /\ \A i, j \in 1..Len(index.files) : i < j =>
       /\ index.files[i].time >= index.files[j].time
       /\ index.files[i].name # index.files[j].name
  /\ index.last = IF index.files = << >> THEN NoFile ELSE Last(index.files)
  /\ index.num = Len(index.files)
  /\ index.total >= SizesOf(index.files)
  /\ bad = {} => index.total = SizesOf(index.files)
  /\ \A n \in FileName :
       LET after == ListDel(index, n)
       IN  /\ Names(after) = Names(index) \ {n}
           /\ after.num = Len(after.files)
           /\ after.total = SizesOf(after.files)

\* Repair drops damaged files only, and among the files it gets to a damaged
\* one stays only if it stood right behind one that was dropped.
RepairMissesOnlyNeighbours ==
  [][RunRepair =>
       LET dropped == {i \in 1..Len(index.files) :
                         index.files[i].name \notin Names(index')}
           damaged == {i \in 1..Len(index.files) : index.files[i].name \in bad'}
       IN  /\ dropped \subseteq damaged
           /\ \A i \in damaged \ dropped :
                i <= RepairDepth + 1 => i - 1 \in dropped]_indexVars

\* Read as a set, the index behaves like one: an added file is in it, a
\* deleted name is not, and no call disturbs the other files.
Set == INSTANCE FileSet WITH
         files <- ToSet(index.files), repaired <- (phase = "monitor"), AnyName <- FileName
IsFileSet == Set!FileSetSpec
=============================================================================
