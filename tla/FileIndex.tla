----------------------------- MODULE FileIndex ------------------------------
(***************************************************************************)
(* The in-memory index of one recording folder (rkipc_str_folder of        *)
(* common/storage/storage.c): a linked list of files kept newest first,    *)
(* with a pointer to its last element, a counter and a running total.      *)
(* Every operator is the body of one function under folder->mutex.         *)
(*                                                                         *)
(* total_size and total_space are updated side by side everywhere, so one  *)
(* field stands for both.                                                  *)
(***************************************************************************)
EXTENDS Integers, SequencesExt

CONSTANTS NoFile,       \* file_list_last when the list is empty
          RepairDepth   \* files repair looks at behind the first (8)

ASSUME RepairDepthAssumption == RepairDepth \in Nat

File(n, t, s) == [name |-> n, time |-> t, size |-> s]

EmptyFolder == [files |-> << >>, last |-> NoFile, num |-> 0, total |-> 0]

Names(folder) == {folder.files[i].name : i \in 1..Len(folder.files)}

\* The sum of the sizes of the first 0, 1, ... files.
SizesUpTo(files) ==
  LET sum[i \in 0..Len(files)] == IF i = 0 THEN 0 ELSE sum[i - 1] + files[i].size
  IN  sum

SizesOf(files) == SizesUpTo(files)[Len(files)]

\* rkipc_storage_file_list_check
ListCheck(folder, name) == name \in Names(folder)

\* The place of a new file: before the first one that is not newer.
Place(files, t) ==
  LET older == {i \in 1..Len(files) : t >= files[i].time}
  IN  IF older = {} THEN Len(files) + 1
      ELSE CHOOSE i \in older : \A j \in older : i <= j

\* last moves only when the file went behind all others.
LastAfterAdd(folder, file, place) ==
  IF place = Len(folder.files) + 1 THEN file ELSE folder.last

TotalAfterAdd(folder, file) == folder.total + file.size

\* rkipc_storage_file_list_add
ListAdd(folder, file) ==
  LET place == Place(folder.files, file.time)
  IN  [files |-> InsertAt(folder.files, place, file),
       last  |-> LastAfterAdd(folder, file, place),
       num   |-> folder.num + 1,
       total |-> TotalAfterAdd(folder, file)]

\* Slip: unlinking a file cuts off the files behind it.
UnlinkTruncates(files, name) ==
  LET hits == {i \in 1..Len(files) : files[i].name = name}
  IN  IF hits = {} THEN files
      ELSE SubSeq(files, 1, (CHOOSE i \in hits : \A j \in hits : i <= j) - 1)

\* The walk of file_list_del.  Every match at the head goes; behind a kept
\* file, the element that follows a removed one is kept without a comparison.
UnlinkStep(acc, file, name) ==
  IF file.name = name /\ acc.compare
  THEN [acc EXCEPT !.compare = (acc.kept = << >>)]
  ELSE [kept |-> Append(acc.kept, file), compare |-> TRUE]

UnlinkWalk(files, name) ==
  LET walk[i \in 0..Len(files)] ==
        IF i = 0 THEN [kept |-> << >>, compare |-> TRUE]
        ELSE UnlinkStep(walk[i - 1], files[i], name)
  IN  walk

Unlink(files, name) == UnlinkWalk(files, name)[Len(files)].kept

TotalAfterDel(folder, kept) == SizesOf(kept)

\* rkipc_storage_file_list_del: counter, total and last are recomputed.
ListDel(folder, name) ==
  LET kept == Unlink(folder.files, name)
  IN  [files |-> kept,
       last  |-> IF kept = << >> THEN NoFile ELSE Last(kept),
       num   |-> Len(kept),
       total |-> TotalAfterDel(folder, kept)]

\* The walk of rkipc_storage_repair over the files of one folder; bad is the
\* set of names whose size is 0 or that repair_mp4 gives up.  The new first
\* file is not looked at again, nor is the file behind a removed one.
RepairHead(files, bad) ==
  IF files # << >> /\ Head(files).name \in bad THEN Tail(files) ELSE files

\* Slip: the loop advances twice behind a good file.
RepairStepLeaps(acc, i, file, bad) ==
  IF i = 1 \/ acc.skip \/ acc.tries = RepairDepth
  THEN [acc EXCEPT !.kept = Append(@, file), !.skip = FALSE]
  ELSE IF file.name \in bad
  THEN [acc EXCEPT !.skip = TRUE, !.tries = @ + 1]
  ELSE [acc EXCEPT !.kept = Append(@, file), !.skip = TRUE, !.tries = @ + 1]

RepairStep(acc, i, file, bad) ==
  IF i = 1 \/ acc.skip \/ acc.tries = RepairDepth
  THEN [acc EXCEPT !.kept = Append(@, file), !.skip = FALSE]
  ELSE IF file.name \in bad
  THEN [acc EXCEPT !.skip = TRUE, !.tries = @ + 1]
  ELSE [acc EXCEPT !.kept = Append(@, file), !.tries = @ + 1]

RepairWalk(files, bad) ==
  LET walk[i \in 0..Len(files)] ==
        IF i = 0 THEN [kept |-> << >>, skip |-> FALSE, tries |-> 0]
        ELSE RepairStep(walk[i - 1], i, files[i], bad)
  IN  walk

RepairTail(files, bad) == RepairWalk(files, bad)[Len(files)].kept

\* Slip: last is left alone when the last file goes.
RepairLastKept(folder, kept) == folder.last

RepairLast(folder, kept) == IF kept = << >> THEN NoFile ELSE Last(kept)

NumAfterRepair(folder, kept) == folder.num - (Len(folder.files) - Len(kept))

\* rkipc_storage_repair on one folder: num follows, total does not.
Repair(folder, bad) ==
  LET kept == RepairTail(RepairHead(folder.files, bad), bad)
  IN  [files |-> kept,
       last  |-> RepairLast(folder, kept),
       num   |-> NumAfterRepair(folder, kept),
       total |-> folder.total]
=============================================================================
