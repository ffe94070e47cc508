------------------------------ MODULE FileSet -------------------------------
(***************************************************************************)
(* What the index of a recording folder promises, without order, counters  *)
(* or pointers: a set of files with distinct names that grows by one new   *)
(* file, loses all files of one name, and once, after the scan, loses some *)
(* of the files repair found damaged.                                      *)
(***************************************************************************)
CONSTANTS AnyFile, \* the files there can be, records with a name
          AnyName

VARIABLES files,   \* the set of indexed files
          repaired \* repair has run: FALSE, then TRUE

Insert(f) ==
  /\ \A g \in files : g.name # f.name
  /\ files' = files \cup {f}
  /\ UNCHANGED repaired

Erase(n) ==
  /\ repaired
  /\ files' = {f \in files : f.name # n}
  /\ UNCHANGED repaired

Discard ==
  /\ ~repaired
  /\ repaired' = TRUE
  /\ files' \in SUBSET files

FileSetInit == files = {} /\ repaired = FALSE

FileSetNext ==
  \/ \E f \in AnyFile : Insert(f)
  \/ \E n \in AnyName : Erase(n)
  \/ Discard

FileSetSpec == FileSetInit /\ [][FileSetNext]_<<files, repaired>>
=============================================================================
